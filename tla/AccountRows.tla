------------------------------ MODULE AccountRows ------------------------------
(***************************************************************************)
(* The availableBalance column of the Account table (prisma/schema.prisma) *)
(* as PostgreSQL keeps it at READ COMMITTED, the isolation level Prisma    *)
(* leaves in place: a statement outside a transaction takes effect at      *)
(* once; a statement inside an interactive $transaction writes a version   *)
(* that only its own session sees and locks the row until the transaction  *)
(* ends; readers never wait and see committed versions; a writer waits for *)
(* the row's lock.                                                         *)
(*                                                                         *)
(* Amounts are integers: a Decimal with its scale fixed.                   *)
(***************************************************************************)
EXTENDS Integers

CONSTANTS
  Accounts,   \* the account rows
  Workers     \* the sessions that open interactive transactions

VARIABLES
  balance,    \* committed availableBalance of each account
  dirty       \* uncommitted row versions of each session; their domain is what it locks

rowVars == <<balance, dirty>>

NoRows == [a \in {} |-> 0]

RowsTypeOK ==
  /\ balance \in [Accounts -> Int]
  /\ dirty = [w \in Workers |-> dirty[w]]
  /\ \A w \in Workers : /\ DOMAIN dirty[w] \subseteq Accounts
                        /\ dirty[w] \in [DOMAIN dirty[w] -> Int]

Holds(w, a) == a \in DOMAIN dirty[w]

\* No session of the table holds the row.
Unlocked(a) == \A w \in Workers : ~Holds(w, a)

\* Mutant: updates inside a transaction wait for nobody.
NoRowLocks(w, a) == TRUE

\* Session w may take the row, or already has it.
Acquirable(w, a) == \A o \in Workers \ {w} : ~Holds(o, a)

\* The version of the row that a statement of session w works on.
RowSeenBy(w, a) == IF Holds(w, a) THEN dirty[w][a] ELSE balance[a]

\* One UPDATE ... SET availableBalance = availableBalance + d on its own.
Increment(a, d) ==
  /\ Unlocked(a)
  /\ balance' = [balance EXCEPT ![a] = @ + d]
  /\ UNCHANGED dirty

\* The same statement inside the transaction of session w.
IncrementInTx(w, a, d) ==
  /\ Acquirable(w, a)
  /\ dirty' = [dirty EXCEPT ![w] = [b \in DOMAIN dirty[w] \cup {a} |->
                                      IF b = a THEN RowSeenBy(w, a) + d ELSE dirty[w][b]]]
  /\ UNCHANGED balance

CommitTx(w) ==
  /\ balance' = [a \in Accounts |-> RowSeenBy(w, a)]
  /\ dirty' = [dirty EXCEPT ![w] = NoRows]

RollbackTx(w) ==
  /\ dirty' = [dirty EXCEPT ![w] = NoRows]
  /\ UNCHANGED balance
================================================================================
