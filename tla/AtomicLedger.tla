------------------------------ MODULE AtomicLedger ------------------------------
(***************************************************************************)
(* What the accounts and transactions services promise about money, with   *)
(* no queue, worker, lock or session in it: a balance changes by a deposit *)
(* or a withdrawal on one account, or by a transfer, which debits and      *)
(* credits at once what its record says and never overdraws the account it *)
(* debits; a record never changes.                                         *)
(***************************************************************************)
EXTENDS Integers

CONSTANTS Accounts, Owner, Txns, NoTxn

VARIABLES
  balance,   \* what each account holds
  txn,       \* the record of each conversion, once there is one
  applied    \* how often the transfer of each record was made

vars == <<balance, txn, applied>>

Init ==
  /\ txn = [t \in Txns |-> NoTxn]
  /\ applied = [t \in Txns |-> 0]

\* Both accounts of a conversion belong to one user.
Record(t) ==
  /\ txn[t] = NoTxn
  /\ txn' = [txn EXCEPT ![t] = txn'[t]]
  /\ txn'[t] # NoTxn
  /\ Owner[txn'[t].from] = Owner[txn'[t].to]
  /\ UNCHANGED <<balance, applied>>

\* balance after c; the legs are made in order, should they be on one account.
After(c) ==
  LET debited == [balance EXCEPT ![c.from] = @ - c.amount]
  IN  [debited EXCEPT ![c.to] = @ + c.converted]

Transfer(t) ==
  /\ txn[t] # NoTxn
  /\ balance[txn[t].from] >= txn[t].amount
  /\ balance' = After(txn[t])
  /\ applied' = [applied EXCEPT ![t] = @ + 1]
  /\ UNCHANGED txn

DepositOrWithdraw(a) ==
  /\ balance'[a] # balance[a]
  /\ balance' = [balance EXCEPT ![a] = balance'[a]]
  /\ UNCHANGED <<txn, applied>>

Next ==
  \/ \E t \in Txns : Record(t) \/ Transfer(t)
  \/ \E a \in Accounts : DepositOrWithdraw(a)

Spec == Init /\ [][Next]_vars
================================================================================
