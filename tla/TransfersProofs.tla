---------------------------- MODULE TransfersProofs ----------------------------
(***************************************************************************)
(* TransactionsService, for any accounts, workers, rows, rates, attempts   *)
(* and number of faults: its types, the atomicity of its transfers, and how*)
(* far the check-then-act of withdrawFromAccount can overdraw an account   *)
(* that no negative conversion has credited, for any number of clients.    *)
(*                                                                         *)
(* TypeOK is not inductive by itself: CreditTo reads txn[job[w]], which is *)
(* a record only because a worker that is not idle has a job, that job was *)
(* enqueued, and a row is enqueued after it is created.  RunsOK says so.   *)
(*                                                                         *)
(* Transfers are atomic because of TransferRows: a commit publishes what   *)
(* the session wrote some steps before, so that the commit is the ledger's *)
(* Transfer only if the balances the session read are still there.         *)
(***************************************************************************)
EXTENDS TransactionsCorrectness, TLAPS, FiniteSetTheorems

--------------------------------------------------------------------------------
(* The rows and the requests of AccountsService: what the statements of a session keep. *)

\* A statement works on an integer, in its own session or outside one.
LEMMA RowSeenByInt ==
  ASSUME RowsTypeOK, NEW w \in Workers, NEW a \in Accounts
  PROVE  RowSeenBy(w, a) \in Int
BY DEF RowsTypeOK, RowSeenBy, Holds

\* An autocommitted UPDATE keeps the rows well typed.
LEMMA IncrementRows ==
  ASSUME RowsTypeOK, NEW a \in Accounts, NEW d \in Int, Increment(a, d)
  PROVE  RowsTypeOK'
BY DEF RowsTypeOK, Increment

\* So does an UPDATE inside a transaction, which adds its row to the session's.
LEMMA IncrementInTxRows ==
  ASSUME RowsTypeOK, NEW w \in Workers, NEW a \in Accounts, NEW d \in Int,
         IncrementInTx(w, a, d)
  PROVE  /\ RowsTypeOK'
         /\ DOMAIN dirty'[w] = DOMAIN dirty[w] \cup {a}
         /\ \A o \in Workers \ {w} : dirty'[o] = dirty[o]
<1> DEFINE rows == [b \in DOMAIN dirty[w] \cup {a} |->
                      IF b = a THEN RowSeenBy(w, a) + d ELSE dirty[w][b]]
<1>1. rows \in [DOMAIN dirty[w] \cup {a} -> Int]
  BY RowSeenByInt DEF RowsTypeOK
<1>2. DOMAIN rows = DOMAIN dirty[w] \cup {a}
  OBVIOUS
<1>3. dirty' = [dirty EXCEPT ![w] = rows] /\ balance' = balance
  BY DEF IncrementInTx
<1>4. DOMAIN dirty = Workers
  BY DEF RowsTypeOK
<1> HIDE DEF rows
<1>5. dirty'[w] = rows /\ \A o \in Workers \ {w} : dirty'[o] = dirty[o]
  BY <1>3, <1>4
<1>6. dirty' = [o \in Workers |-> dirty'[o]]
  BY <1>3, <1>4
<1> QED
  BY <1>1, <1>2, <1>3, <1>5, <1>6 DEF RowsTypeOK

\* A session that ends leaves nothing of itself behind.
LEMMA EndOfTxRows ==
  ASSUME RowsTypeOK, NEW w \in Workers, CommitTx(w) \/ RollbackTx(w)
  PROVE  /\ RowsTypeOK'
         /\ dirty'[w] = NoRows
         /\ \A o \in Workers \ {w} : dirty'[o] = dirty[o]
<1>1. balance' \in [Accounts -> Int]
  BY RowSeenByInt DEF RowsTypeOK, CommitTx, RollbackTx
<1>2. dirty' = [dirty EXCEPT ![w] = NoRows]
  BY DEF CommitTx, RollbackTx
<1>3. DOMAIN dirty = Workers
  BY DEF RowsTypeOK
<1>4. dirty'[w] = NoRows /\ \A o \in Workers \ {w} : dirty'[o] = dirty[o]
  BY <1>2, <1>3
<1>5. dirty' = [o \in Workers |-> dirty'[o]]
  BY <1>2, <1>3
<1>6. DOMAIN NoRows = {} /\ NoRows \in [DOMAIN NoRows -> Int]
  BY DEF NoRows
<1> QED
  BY <1>1, <1>4, <1>5, <1>6 DEF RowsTypeOK

\* The initial rows and requests are well typed.
LEMMA AccountsInitTyped ==
  ASSUME AccountsInit
  PROVE  RowsTypeOK /\ AccountsTypeOK
<1>1. RowsTypeOK
  BY AccountsAssumption DEF AccountsInit, RowsTypeOK, NoRows
<1>2. AccountsTypeOK
  BY AccountsAssumption DEF AccountsInit, AccountsTypeOK
<1> QED
  BY <1>1, <1>2

\* fundAccount and withdrawFromAccount keep the types, and touch no session.
LEMMA AccountsNextTyped ==
  ASSUME RowsTypeOK, AccountsTypeOK, AccountsNext
  PROVE  RowsTypeOK' /\ AccountsTypeOK' /\ dirty' = dirty
<1>1. ASSUME NEW u \in Users, NEW a \in Accounts, NEW x \in Amounts, FundAccount(u, a, x)
      PROVE  RowsTypeOK' /\ AccountsTypeOK' /\ dirty' = dirty
  <2>1. x \in Int
    BY AccountsAssumption
  <2>2. Increment(a, x) /\ withdrawal' = withdrawal /\ served' \in 0..MaxRequests
    BY <1>1, AccountsAssumption DEF FundAccount, NextRequest, AccountsTypeOK
  <2> QED
    BY <2>1, <2>2, IncrementRows DEF AccountsTypeOK, Increment
<1>2. ASSUME NEW u \in Users, NEW a \in Accounts, NEW x \in Amounts, NEW c \in Clients,
             WithdrawFromAccount(c, u, a, x)
      PROVE  RowsTypeOK' /\ AccountsTypeOK' /\ dirty' = dirty
  <2>1. [account |-> a, amount |-> x] \in Withdrawals
    BY <1>2 DEF WithdrawFromAccount, Admissible, Withdrawals, PositiveAmounts
  <2>2. served' \in 0..MaxRequests /\ UNCHANGED rowVars
    BY <1>2, AccountsAssumption DEF WithdrawFromAccount, NextRequest, AccountsTypeOK
  <2> QED
    BY <1>2, <2>1, <2>2 DEF WithdrawFromAccount, AccountsTypeOK, RowsTypeOK, rowVars
<1>3. ASSUME NEW c \in Clients, DebitWithdrawal(c)
      PROVE  RowsTypeOK' /\ AccountsTypeOK' /\ dirty' = dirty
  <2>1. withdrawal[c] \in Withdrawals
    BY <1>3 DEF DebitWithdrawal, AccountsTypeOK
  <2>2. withdrawal[c].account \in Accounts /\ withdrawal[c].amount \in PositiveAmounts
    BY <2>1 DEF Withdrawals
  <2>3. -withdrawal[c].amount \in Int
    <3>1. ASSUME NEW x \in PositiveAmounts PROVE x \in Int
      BY AccountsAssumption DEF PositiveAmounts
    <3>2. ASSUME NEW x \in Int PROVE -x \in Int
      OBVIOUS
    <3> QED
      BY <2>2, <3>1, <3>2
  <2>4. RowsTypeOK' /\ dirty' = dirty
    BY <1>3, <2>2, <2>3, IncrementRows DEF DebitWithdrawal, Increment
  <2> QED
    BY <1>3, <2>4 DEF DebitWithdrawal, AccountsTypeOK
<1>4. ASSUME NEW c \in Clients, WithdrawalLost(c)
      PROVE  RowsTypeOK' /\ AccountsTypeOK' /\ dirty' = dirty
  BY <1>4 DEF WithdrawalLost, AccountsTypeOK, RowsTypeOK, rowVars
<1> QED
  BY <1>1, <1>2, <1>3, <1>4 DEF AccountsNext

\* A request changes one balance, and only of a row that no session has locked.
LEMMA RequestChangesOneRow ==
  ASSUME RowsTypeOK, AccountsTypeOK, AccountsNext
  PROVE  \/ UNCHANGED balance
         \/ \E a \in Accounts : /\ Unlocked(a) /\ balance'[a] # balance[a]
                               /\ balance' = [balance EXCEPT ![a] = balance'[a]]
<1> DEFINE OneRow(a) == /\ Unlocked(a) /\ balance'[a] # balance[a]
                        /\ balance' = [balance EXCEPT ![a] = balance'[a]]
<1>1. ASSUME NEW a \in Accounts, NEW d \in Int, d # 0, Increment(a, d)
      PROVE  OneRow(a)
  <2>1. balance' = [balance EXCEPT ![a] = balance[a] + d] /\ Unlocked(a)
    BY <1>1 DEF Increment
  <2>2. balance'[a] = balance[a] + d /\ balance[a] \in Int
    BY <2>1 DEF RowsTypeOK
  <2>3. balance'[a] # balance[a]
    BY <1>1, <2>2
  <2>4. balance' = [balance EXCEPT ![a] = balance'[a]]
    BY <2>1, <2>2
  <2> QED
    BY <2>1, <2>3, <2>4
<1>2. ASSUME NEW u \in Users, NEW a \in Accounts, NEW x \in Amounts, FundAccount(u, a, x)
      PROVE  OneRow(a)
  <2>1. x \in Int /\ x # 0
    BY <1>2, AccountsAssumption DEF FundAccount, Admissible
  <2> QED
    BY <1>1, <1>2, <2>1 DEF FundAccount
<1>3. ASSUME NEW c \in Clients, DebitWithdrawal(c)
      PROVE  \E a \in Accounts : OneRow(a)
  <2>1. withdrawal[c] \in Withdrawals
    BY <1>3 DEF DebitWithdrawal, AccountsTypeOK
  <2>2. withdrawal[c].account \in Accounts /\ withdrawal[c].amount \in PositiveAmounts
    BY <2>1 DEF Withdrawals
  <2>3. -withdrawal[c].amount \in Int /\ -withdrawal[c].amount # 0
    <3>1. ASSUME NEW x \in PositiveAmounts PROVE x \in Int /\ x > 0
      BY AccountsAssumption DEF PositiveAmounts
    <3>2. ASSUME NEW x \in Int, x > 0 PROVE -x \in Int /\ -x # 0
      BY <3>2
    <3> QED
      BY <2>2, <3>1, <3>2
  <2> QED
    BY <1>1, <1>3, <2>2, <2>3 DEF DebitWithdrawal
<1>4. ASSUME NEW c \in Clients,
             \/ WithdrawalLost(c)
             \/ \E u \in Users, a \in Accounts, x \in Amounts : WithdrawFromAccount(c, u, a, x)
      PROVE  UNCHANGED balance
  BY <1>4 DEF WithdrawalLost, WithdrawFromAccount, rowVars
<1> HIDE DEF OneRow
<1>5. UNCHANGED balance \/ \E a \in Accounts : OneRow(a)
  BY <1>2, <1>3, <1>4 DEF AccountsNext
<1> QED
  BY <1>5 DEF OneRow

--------------------------------------------------------------------------------
(* The worker and its conversion. *)

\* A worker is idle or has a job that the queue knows, and whatever the queue or a request
\* knows has its row.
RunsOK ==
  /\ \A w \in Workers :
       \/ pc[w] = "idle" /\ job[w] = NoTxn
       \/ pc[w] # "idle" /\ job[w] \in Txns /\ jobState[job[w]] # "absent"
  /\ \A t \in Txns : jobState[t] # "absent" \/ t \in creating => txn[t] # NoTxn

TypedRuns == TypeOK /\ RunsOK

--------------------------------------------------------------------------------
(* What the steps of the queue and of a handler keep. *)

\* No operation of the queue breaks its types or forgets a job.
LEMMA TimersTyped ==
  ASSUME Q!QueueTypeOK, NEW t \in Txns,
         Q!Add(t) \/ Q!Promote(t) \/ Q!ExpireLock(t) \/ Q!MoveStalledJob(t)
  PROVE  /\ Q!QueueTypeOK'
         /\ \A s \in Txns : jobState[s] # "absent" => jobState'[s] # "absent"
         /\ \A s \in Txns \ {t} : jobState'[s] = jobState[s]
<1>1. CASE Q!Add(t)
  BY <1>1 DEF Q!Add, Q!QueueTypeOK, Q!JobStates
<1>2. CASE Q!Promote(t)
  BY <1>2 DEF Q!Promote, Q!QueueTypeOK, Q!JobStates
<1>3. CASE Q!ExpireLock(t)
  BY <1>3 DEF Q!ExpireLock, Q!QueueTypeOK, Q!JobStates
<1>4. CASE Q!MoveStalledJob(t)
  BY <1>4 DEF Q!MoveStalledJob, Q!QueueTypeOK, Q!JobStates
<1> QED
  BY <1>1, <1>2, <1>3, <1>4

LEMMA MovesTyped ==
  ASSUME Q!QueueTypeOK, NEW t \in Txns, NEW w \in Workers,
         \/ Q!MoveToActive(w, t) \/ Q!MoveToCompleted(w, t) \/ Q!MoveToFailed(w, t)
         \/ UNCHANGED queueVars
  PROVE  /\ Q!QueueTypeOK'
         /\ \A s \in Txns : jobState[s] # "absent" => jobState'[s] # "absent"
         /\ \A s \in Txns \ {t} : jobState'[s] = jobState[s]
<1>1. CASE UNCHANGED queueVars
  BY <1>1 DEF Q!QueueTypeOK, queueVars
<1>2. CASE Q!MoveToActive(w, t)
  BY <1>2 DEF Q!MoveToActive, Q!QueueTypeOK, Q!JobStates
<1>3. CASE lock[t] = w /\ Q!MoveToCompleted(w, t)
  BY <1>3 DEF Q!MoveToCompleted, Q!QueueTypeOK, Q!JobStates
<1>4. CASE lock[t] = w /\ Q!MoveToFailed(w, t)
  BY <1>4 DEF Q!MoveToFailed, Q!QueueTypeOK, Q!JobStates
<1> QED
  BY <1>1, <1>2, <1>3, <1>4 DEF Q!MoveToCompleted, Q!MoveToFailed, Q!queueVars, queueVars

\* A fault leaves the counter within its bound.
LEMMA FaultTyped ==
  ASSUME faults \in 0..MaxFaults, Q!Fault \/ UNCHANGED faults
  PROVE  faults' \in 0..MaxFaults /\ faults' >= faults
BY BoundsAssumption DEF Q!Fault

\* A status written, or not written, is a status.
LEMMA StatusTyped ==
  ASSUME status \in [Txns -> Statuses], NEW t \in Txns, NEW s \in Statuses,
         SetStatus(t, s) \/ StatusWriteFails(t, s) \/ UNCHANGED status
  PROVE  status' \in [Txns -> Statuses]
BY DEF SetStatus, StatusWriteFails

\* A handler that has not ended works on a recorded conversion, and its next await is its own.
LEMMA GotoTyped ==
  ASSUME TypedRuns, NEW w \in Workers, NEW l \in HandlerStates \ {"idle"},
         NEW m \in HandlerStates \ {"idle"}, Q!Goto(w, l, m),
         UNCHANGED <<queueVars, recordVars>>
  PROVE  /\ job[w] \in Txns /\ txn[job[w]] \in Conversions
         /\ pc[w] = l /\ pc'[w] = m
         /\ \A o \in Workers \ {w} : pc'[o] = pc[o]
         /\ pc' \in [Workers -> HandlerStates] /\ job' = job
         /\ RunsOK'
<1>1. pc[w] = l /\ pc' = [pc EXCEPT ![w] = m] /\ job' = job
  BY DEF Q!Goto
<1>2. pc \in [Workers -> HandlerStates] /\ txn \in [Txns -> Conversions \cup {NoTxn}]
  BY DEF TypedRuns, TypeOK
<1>3. pc' \in [Workers -> HandlerStates] /\ pc'[w] = m /\ \A o \in Workers \ {w} : pc'[o] = pc[o]
  BY <1>1, <1>2
<1>4. job[w] \in Txns /\ jobState[job[w]] # "absent"
  BY <1>1 DEF TypedRuns, RunsOK
<1>5. txn[job[w]] \in Conversions
  BY <1>2, <1>4 DEF TypedRuns, RunsOK
<1>6. RunsOK'
  BY <1>1, <1>3, <1>4 DEF TypedRuns, RunsOK, queueVars, recordVars
<1> QED
  BY <1>1, <1>3, <1>4, <1>5, <1>6

--------------------------------------------------------------------------------
(* Types and runs. *)

LEMMA TypedRunsInit == Init => TypedRuns
<1> SUFFICES ASSUME Init PROVE TypedRuns
  OBVIOUS
<1>1. RowsTypeOK /\ AccountsTypeOK
  BY AccountsInitTyped DEF Init
<1>2. Q!QueueTypeOK
  BY DEF Init, Q!WorkersInit, Q!QueueInit, Q!QueueTypeOK, Q!JobStates
<1>3. TypeOK
  BY <1>1, <1>2, BoundsAssumption DEF Init, TypeOK, Q!WorkersInit, Statuses, HandlerStates
<1>4. RunsOK
  BY DEF Init, RunsOK, Q!WorkersInit, Q!QueueInit
<1> QED
  BY <1>3, <1>4 DEF TypedRuns

\* The amount a rate yields is an integer.
LEMMA ConversionTyped ==
  ASSUME NEW f \in Accounts, NEW g \in Accounts, NEW x \in ConvertAmounts, NEW r \in RatesFor(f, g)
  PROVE  [from |-> f, to |-> g, amount |-> x, converted |-> x * r] \in Conversions
<1>1. x \in Int /\ r \in Int
  BY ConversionsAssumption DEF RatesFor
<1>2. x * r \in Int
  BY <1>1
<1> QED
  BY <1>1, <1>2 DEF Conversions

\* Recording a conversion.
LEMMA ConvertFundsTyped ==
  ASSUME TypedRuns, NEW u \in Users, NEW t \in Txns, NEW f \in Accounts, NEW g \in Accounts,
         NEW x \in ConvertAmounts, ConvertFunds(u, t, f, g, x)
  PROVE  TypedRuns'
<1>1. PICK r \in RatesFor(f, g) :
        txn' = [txn EXCEPT ![t] = [from |-> f, to |-> g, amount |-> x, converted |-> x * r]]
  BY DEF ConvertFunds
<1> DEFINE c == [from |-> f, to |-> g, amount |-> x, converted |-> x * r]
<1>2. c \in Conversions
  BY ConversionTyped
<1>3. txn' = [txn EXCEPT ![t] = c]
  BY <1>1
<1> HIDE DEF c
<1>4. txn \in [Txns -> Conversions \cup {NoTxn}]
  BY DEF TypedRuns, TypeOK
<1>5. /\ txn' \in [Txns -> Conversions \cup {NoTxn}]
      /\ txn'[t] = c /\ \A s \in Txns \ {t} : txn'[s] = txn[s]
  BY <1>2, <1>3, <1>4
<1>6. status' \in [Txns -> Statuses]
  BY StatusTyped DEF ConvertFunds, TypedRuns, TypeOK, Statuses
<1>7. Q!QueueTypeOK'
  BY DEF ConvertFunds, TypedRuns, TypeOK, queueVars, Q!QueueTypeOK
<1>8. RowsTypeOK' /\ AccountsTypeOK'
  BY DEF ConvertFunds, TypedRuns, TypeOK, RowsTypeOK, AccountsTypeOK, rowVars, accountsVars
<1>9. TypeOK'
  BY <1>5, <1>6, <1>7, <1>8 DEF ConvertFunds, TypedRuns, TypeOK, handlerVars
<1>10. RunsOK'
  BY <1>2, <1>5, TxnsAssumption DEF ConvertFunds, TypedRuns, RunsOK, queueVars, handlerVars
<1> QED
  BY <1>9, <1>10 DEF TypedRuns

\* Enqueueing a conversion, or failing to.
LEMMA CreationTyped ==
  ASSUME TypedRuns, NEW t \in Txns, EnqueueTransaction(t) \/ CreationAborted(t)
  PROVE  TypedRuns'
<1>1. RowsTypeOK' /\ AccountsTypeOK'
  BY DEF EnqueueTransaction, CreationAborted, TypedRuns, TypeOK, RowsTypeOK, AccountsTypeOK,
         rowVars, accountsVars
<1>2. Q!QueueTypeOK'
  BY DEF EnqueueTransaction, CreationAborted, TypedRuns, TypeOK, queueVars, Q!QueueTypeOK,
         Q!Add, Q!JobStates
<1>3. faults' \in 0..MaxFaults
  BY FaultTyped DEF EnqueueTransaction, CreationAborted, TypedRuns, TypeOK
<1>4. TypeOK'
  BY <1>1, <1>2, <1>3 DEF EnqueueTransaction, CreationAborted, TypedRuns, TypeOK, handlerVars
<1>5. RunsOK'
  <2>1. CASE EnqueueTransaction(t)
    <3>1. jobState' = [jobState EXCEPT ![t] = "wait"] /\ jobState[t] = "absent" /\ t \in creating
      BY <2>1 DEF EnqueueTransaction, Q!Add
    <3>2. \A s \in Txns : jobState'[s] = IF s = t THEN "wait" ELSE jobState[s]
      BY <3>1 DEF TypedRuns, TypeOK, Q!QueueTypeOK
    <3> QED
      BY <2>1, <3>1, <3>2 DEF EnqueueTransaction, TypedRuns, RunsOK, handlerVars
  <2>2. CASE CreationAborted(t)
    BY <2>2 DEF CreationAborted, TypedRuns, RunsOK, handlerVars, queueVars
  <2> QED
    BY <2>1, <2>2
<1> QED
  BY <1>4, <1>5 DEF TypedRuns

\* The awaits of processTransaction.
LEMMA HandlerTyped ==
  ASSUME TypedRuns, NEW w \in Workers,
         \/ MarkProcessing(w) \/ DebitFrom(w) \/ CreditTo(w) \/ CommitTransfer(w)
         \/ TransferAborted(w) \/ MarkCompleted(w) \/ MarkFailed(w)
  PROVE  TypedRuns'
<1> DEFINE Steps == HandlerStates \ {"idle"}
<1>1. PICK l \in Steps, m \in Steps : Q!Goto(w, l, m)
  BY DEF MarkProcessing, DebitFrom, CreditTo, CommitTransfer, TransferAborted, MarkCompleted,
         MarkFailed, AfterCatch, HandlerStates
<1>2. UNCHANGED <<queueVars, recordVars, accountsVars>>
  BY DEF MarkProcessing, DebitFrom, CreditTo, CommitTransfer, TransferAborted, MarkCompleted,
         MarkFailed
<1>3. /\ job[w] \in Txns /\ txn[job[w]] \in Conversions
      /\ pc' \in [Workers -> HandlerStates] /\ job' = job
      /\ RunsOK'
  BY <1>1, <1>2, GotoTyped
<1>4. txn[job[w]].from \in Accounts /\ txn[job[w]].to \in Accounts
      /\ txn[job[w]].amount \in Int /\ txn[job[w]].converted \in Int
  BY <1>3 DEF Conversions
<1>5. RowsTypeOK
  BY DEF TypedRuns, TypeOK
<1>6. RowsTypeOK'
  <2>1. CASE DebitFrom(w)
    <3>1. -txn[job[w]].amount \in Int
      BY <1>4
    <3>2. CASE IncrementInTx(w, txn[job[w]].from, -txn[job[w]].amount)
      BY <1>4, <1>5, <3>1, <3>2, IncrementInTxRows
    <3> QED
      BY <1>5, <2>1, <3>2, EndOfTxRows DEF DebitFrom
  <2>2. CASE CreditTo(w)
    BY <1>4, <1>5, <2>2, IncrementInTxRows DEF CreditTo
  <2>3. CASE CommitTransfer(w) \/ TransferAborted(w)
    BY <1>5, <2>3, EndOfTxRows DEF CommitTransfer, TransferAborted
  <2>4. CASE MarkProcessing(w) \/ MarkCompleted(w) \/ MarkFailed(w)
    BY <1>5, <2>4 DEF MarkProcessing, MarkCompleted, MarkFailed, RowsTypeOK, rowVars
  <2> QED
    BY <2>1, <2>2, <2>3, <2>4
<1>7. applied' \in [Txns -> Nat]
  BY <1>3 DEF TypedRuns, TypeOK, MarkProcessing, DebitFrom, CreditTo, CommitTransfer,
              TransferAborted, MarkCompleted, MarkFailed
<1>8. faults' \in 0..MaxFaults
  <2>1. Q!Fault \/ UNCHANGED faults
    BY DEF MarkProcessing, DebitFrom, CreditTo, CommitTransfer, TransferAborted, MarkCompleted,
           MarkFailed, StatusWriteFails
  <2> QED
    BY <2>1, FaultTyped DEF TypedRuns, TypeOK
<1>9. status' \in [Txns -> Statuses]
  <2>1. \E s \in Statuses :
          SetStatus(job[w], s) \/ StatusWriteFails(job[w], s) \/ UNCHANGED status
    BY DEF MarkProcessing, DebitFrom, CreditTo, CommitTransfer, TransferAborted, MarkCompleted,
           MarkFailed, Statuses
  <2> QED
    BY <1>3, <2>1, StatusTyped DEF TypedRuns, TypeOK
<1>10. AccountsTypeOK' /\ Q!QueueTypeOK'
  BY <1>2 DEF TypedRuns, TypeOK, AccountsTypeOK, accountsVars, queueVars, Q!QueueTypeOK
<1>11. TypeOK'
  BY <1>2, <1>3, <1>6, <1>7, <1>8, <1>9, <1>10 DEF TypedRuns, TypeOK, recordVars
<1> QED
  BY <1>3, <1>11 DEF TypedRuns

\* A worker that takes a job, ends it or dies.
LEMMA WorkerTyped ==
  ASSUME TypedRuns, NEW w \in Workers,
         JobDone(w) \/ Crash(w) \/ \E t \in Txns : StartJob(w, t)
  PROVE  TypedRuns'
<1> DEFINE Taken(t) == /\ pc' = [pc EXCEPT ![w] = "mark"] /\ job' = [job EXCEPT ![w] = t]
                       /\ Q!MoveToActive(w, t)
<1>1. pc \in [Workers -> HandlerStates] /\ job \in [Workers -> Txns \cup {NoTxn}]
  BY DEF TypedRuns, TypeOK
<1>2. UNCHANGED <<accountsVars, recordVars, status, applied, balance>>
  BY DEF JobDone, Crash, StartJob, RollbackTx, rowVars
<1>3. RowsTypeOK'
  BY EndOfTxRows DEF TypedRuns, TypeOK, JobDone, Crash, StartJob, RowsTypeOK, rowVars
<1>4. faults' \in 0..MaxFaults
  BY FaultTyped DEF TypedRuns, TypeOK, JobDone, Crash, StartJob, Q!JobResolved, Q!JobRejected,
                    Q!Die, Q!StartJob
<1>5. ASSUME NEW t \in Txns, StartJob(w, t)
      PROVE  /\ Q!QueueTypeOK' /\ RunsOK'
             /\ pc' \in [Workers -> HandlerStates] /\ job' \in [Workers -> Txns \cup {NoTxn}]
  <2>1. Taken(t)
    BY <1>5 DEF StartJob, Q!StartJob
  <2>2. /\ Q!QueueTypeOK' /\ \A s \in Txns : jobState[s] # "absent" => jobState'[s] # "absent"
        /\ jobState[t] # "absent" /\ \A s \in Txns \ {t} : jobState'[s] = jobState[s]
    BY <2>1, MovesTyped DEF TypedRuns, TypeOK, Q!MoveToActive
  <2>3. /\ pc'[w] = "mark" /\ job'[w] = t
        /\ \A o \in Workers \ {w} : pc'[o] = pc[o] /\ job'[o] = job[o]
        /\ pc' \in [Workers -> HandlerStates] /\ job' \in [Workers -> Txns \cup {NoTxn}]
    BY <1>1, <2>1 DEF HandlerStates
  <2> QED
    BY <1>2, <2>2, <2>3 DEF TypedRuns, RunsOK, recordVars
<1>6. ASSUME JobDone(w) \/ Crash(w)
      PROVE  /\ Q!QueueTypeOK' /\ RunsOK'
             /\ pc' \in [Workers -> HandlerStates] /\ job' \in [Workers -> Txns \cup {NoTxn}]
  <2>1. pc[w] # "idle" /\ Q!Release(w)
    BY <1>6 DEF JobDone, Crash, Q!JobResolved, Q!JobRejected, Q!Die
  <2>2. job[w] \in Txns
    BY <2>1 DEF TypedRuns, RunsOK
  <2>3. \/ Q!MoveToCompleted(w, job[w]) \/ Q!MoveToFailed(w, job[w]) \/ UNCHANGED queueVars
    BY <1>6 DEF JobDone, Crash, Q!JobResolved, Q!JobRejected, Q!Die, queueVars
  <2>4. /\ Q!QueueTypeOK' /\ \A s \in Txns : jobState[s] # "absent" => jobState'[s] # "absent"
        /\ \A s \in Txns \ {job[w]} : jobState'[s] = jobState[s]
    BY <2>2, <2>3, MovesTyped DEF TypedRuns, TypeOK
  <2>5. /\ pc'[w] = "idle" /\ job'[w] = NoTxn
        /\ \A o \in Workers \ {w} : pc'[o] = pc[o] /\ job'[o] = job[o]
        /\ pc' \in [Workers -> HandlerStates] /\ job' \in [Workers -> Txns \cup {NoTxn}]
    BY <1>1, <2>1 DEF Q!Release, HandlerStates
  <2>6. jobState[job[w]] # "absent"
    BY <2>1 DEF TypedRuns, RunsOK
  <2> QED
    BY <1>2, <2>2, <2>4, <2>5, <2>6 DEF TypedRuns, RunsOK, recordVars
<1>7. AccountsTypeOK'
  BY <1>2 DEF TypedRuns, TypeOK, AccountsTypeOK, accountsVars
<1>8. Q!QueueTypeOK' /\ RunsOK' /\ pc' \in [Workers -> HandlerStates]
      /\ job' \in [Workers -> Txns \cup {NoTxn}]
  BY <1>5, <1>6
<1>9. TypeOK'
  BY <1>2, <1>3, <1>4, <1>7, <1>8 DEF TypedRuns, TypeOK, recordVars
<1> QED
  BY <1>8, <1>9 DEF TypedRuns

\* The queue's timers, a lost lock and the account requests.
LEMMA SurroundingsTyped ==
  ASSUME TypedRuns,
         AccountRequest \/ \E t \in Txns : LockLost(t) \/ QueueTimers(t)
  PROVE  TypedRuns'
<1>1. CASE AccountRequest
  <2>1. RowsTypeOK' /\ AccountsTypeOK'
    BY <1>1, AccountsNextTyped DEF AccountRequest, TypedRuns, TypeOK
  <2>2. Q!QueueTypeOK' /\ RunsOK'
    BY <1>1 DEF AccountRequest, TypedRuns, TypeOK, RunsOK, recordVars, queueVars, handlerVars,
                Q!QueueTypeOK
  <2> QED
    BY <1>1, <2>1, <2>2 DEF AccountRequest, TypedRuns, TypeOK, recordVars, handlerVars
<1>2. ASSUME NEW t \in Txns, LockLost(t) \/ QueueTimers(t)
      PROVE  TypedRuns'
  <2>1. UNCHANGED <<rowVars, accountsVars, recordVars, status, applied, job, pc>>
    BY <1>2 DEF LockLost, QueueTimers, Q!LockLost, Q!Timers, Q!LockExpires
  <2>2. Q!ExpireLock(t) \/ Q!Promote(t) \/ Q!MoveStalledJob(t)
    BY <1>2 DEF LockLost, QueueTimers, Q!LockLost, Q!Timers, Q!LockExpires
  <2>3. /\ Q!QueueTypeOK' /\ \A s \in Txns : jobState[s] # "absent" => jobState'[s] # "absent"
        /\ jobState[t] # "absent" /\ \A s \in Txns \ {t} : jobState'[s] = jobState[s]
    BY <2>2, TimersTyped DEF TypedRuns, TypeOK, Q!ExpireLock, Q!Promote, Q!MoveStalledJob
  <2>4. faults' \in 0..MaxFaults
    BY <1>2, FaultTyped DEF TypedRuns, TypeOK, LockLost, QueueTimers, Q!LockLost, Q!Timers,
                            Q!LockExpires
  <2>5. RunsOK'
    BY <2>1, <2>3 DEF TypedRuns, RunsOK, recordVars
  <2>6. RowsTypeOK' /\ AccountsTypeOK'
    BY <2>1 DEF TypedRuns, TypeOK, RowsTypeOK, AccountsTypeOK, rowVars, accountsVars
  <2> QED
    BY <2>1, <2>3, <2>4, <2>5, <2>6 DEF TypedRuns, TypeOK, recordVars
<1> QED
  BY <1>1, <1>2

LEMMA TypedRunsStep == TypedRuns /\ [Next]_vars => TypedRuns'
<1> SUFFICES ASSUME TypedRuns, [Next]_vars PROVE TypedRuns'
  OBVIOUS
<1>1. ASSUME NEW u \in Users, NEW t \in Txns, NEW f \in Accounts, NEW g \in Accounts,
             NEW x \in ConvertAmounts, ConvertFunds(u, t, f, g, x)
      PROVE  TypedRuns'
  BY <1>1, ConvertFundsTyped
<1>2. ASSUME NEW t \in Txns, EnqueueTransaction(t) \/ CreationAborted(t)
      PROVE  TypedRuns'
  BY <1>2, CreationTyped
<1>3. CASE AccountRequest \/ \E t \in Txns : LockLost(t) \/ QueueTimers(t)
  BY <1>3, SurroundingsTyped
<1>4. ASSUME NEW w \in Workers, HandlerStep(w) \/ Crash(w) \/ \E t \in Txns : StartJob(w, t)
      PROVE  TypedRuns'
  BY <1>4, HandlerTyped, WorkerTyped DEF HandlerStep
<1>5. CASE UNCHANGED vars
  BY <1>5 DEF vars, TypedRuns, TypeOK, RunsOK, RowsTypeOK, AccountsTypeOK, Q!QueueTypeOK,
              rowVars, accountsVars, recordVars, queueVars, handlerVars
<1> QED
  BY <1>1, <1>2, <1>3, <1>4, <1>5 DEF Next, Rest

\* Every variable keeps its type, and no handler works without a job and its row.
THEOREM RunsTypedAlways == Spec => []TypedRuns
BY TypedRunsInit, TypedRunsStep, PTL DEF Spec

\* Type correctness of the model of the conversion path.
THEOREM TypeCorrect == Spec => []TypeOK
<1>1. TypedRuns => TypeOK
  BY DEF TypedRuns
<1> QED
  BY <1>1, RunsTypedAlways, PTL

--------------------------------------------------------------------------------
(* Transfers. *)

\* A worker whose rows, and the committed balances under them, are left alone.
LEMMA RowsUndisturbed ==
  ASSUME TypedRuns, NEW w \in Workers, WorkerRows(w),
         dirty'[w] = dirty[w], pc'[w] = pc[w], job'[w] = job[w],
         pc[w] # "idle" => txn'[job[w]] = txn[job[w]],
         balance' \in [Accounts -> Int],
         \A a \in DOMAIN dirty[w] : balance'[a] = balance[a]
  PROVE  WorkerRows(w)'
<1>1. CASE pc[w] \notin {"credit", "commit"}
  BY <1>1 DEF WorkerRows
<1> DEFINE c == txn[job[w]]
<1>2. ASSUME pc[w] \in {"credit", "commit"}
      PROVE  c \in Conversions /\ txn'[job'[w]] = c
  BY <1>2 DEF TypedRuns, TypeOK, RunsOK
<1>3. CASE pc[w] = "credit"
  BY <1>2, <1>3 DEF WorkerRows
<1>4. CASE pc[w] = "commit"
  <2>1. c.from \in Accounts /\ c.to \in Accounts /\ txn'[job'[w]] = c
    BY <1>2, <1>4 DEF Conversions
  <2>2. balance \in [Accounts -> Int]
    BY DEF TypedRuns, TypeOK, RowsTypeOK
  <2>3. DOMAIN dirty[w] = {c.from, c.to}
    BY <1>4 DEF WorkerRows
  <2>4. balance'[c.from] = balance[c.from] /\ balance'[c.to] = balance[c.to]
    BY <2>3
  <2>5. \A a \in {c.from, c.to} : Ledger!After(c)'[a] = Ledger!After(c)[a]
    BY <2>1, <2>2, <2>4, <1>4 DEF Ledger!After
  <2> QED
    BY <1>4, <2>1, <2>3, <2>4, <2>5 DEF WorkerRows
<1> QED
  BY <1>1, <1>3, <1>4

\* One worker moves, on rows that nobody else holds.
LEMMA OneWorkerMoves ==
  ASSUME TypedRuns, TransferRows, NEW w \in Workers, RowsTypeOK', UNCHANGED txn,
         \A v \in Workers \ {w} : dirty'[v] = dirty[v] /\ pc'[v] = pc[v] /\ job'[v] = job[v],
         \A a \in Accounts \ DOMAIN dirty[w] : balance'[a] = balance[a],
         \A a \in DOMAIN dirty'[w] : Acquirable(w, a),
         WorkerRows(w)'
  PROVE  TransferRows'
<1>1. ASSUME NEW v \in Workers \ {w} PROVE WorkerRows(v)'
  <2>1. \A a \in DOMAIN dirty[v] : a \in Accounts \ DOMAIN dirty[w]
    BY DEF TransferRows, RowsExclusive, Acquirable, Holds, TypedRuns, TypeOK, RowsTypeOK
  <2>2. WorkerRows(v) /\ balance' \in [Accounts -> Int]
    BY DEF TransferRows, RowsTypeOK
  <2> QED
    BY <2>1, <2>2, RowsUndisturbed
<1>2. RowsExclusive'
  BY DEF TransferRows, RowsExclusive, Acquirable, Holds
<1> QED
  BY <1>1, <1>2 DEF TransferRows

\* Outside its $transaction a worker moves without rows.
LEMMA MovesWithoutRows ==
  ASSUME TypedRuns, TypedRuns', TransferRows, NEW w \in Workers, UNCHANGED <<rowVars, recordVars>>,
         pc[w] \notin {"credit", "commit"}, pc'[w] \notin {"credit", "commit"},
         \A v \in Workers \ {w} : pc'[v] = pc[v] /\ job'[v] = job[v]
  PROVE  TransferRows'
<1>1. dirty'[w] = NoRows /\ dirty' = dirty /\ balance' = balance /\ txn' = txn
  BY DEF TransferRows, WorkerRows, rowVars, recordVars
<1>2. WorkerRows(w)'
  BY <1>1 DEF WorkerRows
<1>3. RowsTypeOK' /\ DOMAIN NoRows = {}
  BY DEF TypedRuns, TypeOK, NoRows
<1> QED
  BY <1>1, <1>2, <1>3, OneWorkerMoves

\* A $transaction that ends, one way or the other.
LEMMA EndsTransaction ==
  ASSUME TypedRuns, TypedRuns', TransferRows, NEW w \in Workers, CommitTx(w) \/ RollbackTx(w),
         UNCHANGED txn, pc'[w] \notin {"credit", "commit"},
         \A v \in Workers \ {w} : pc'[v] = pc[v] /\ job'[v] = job[v]
  PROVE  TransferRows'
<1>1. RowsTypeOK /\ RowsTypeOK'
  BY DEF TypedRuns, TypeOK
<1>2. dirty'[w] = NoRows /\ \A v \in Workers \ {w} : dirty'[v] = dirty[v]
  BY <1>1, EndOfTxRows
<1>3. \A a \in Accounts \ DOMAIN dirty[w] : balance'[a] = balance[a]
  BY DEF CommitTx, RollbackTx, RowSeenBy, Holds
<1>4. WorkerRows(w)'
  BY <1>2 DEF WorkerRows
<1>5. DOMAIN NoRows = {}
  BY DEF NoRows
<1> QED
  BY <1>1, <1>2, <1>3, <1>4, <1>5, OneWorkerMoves

\* The debit leg.
LEMMA DebitRows ==
  ASSUME TypedRuns, TypedRuns', TransferRows, NEW w \in Workers, DebitFrom(w)
  PROVE  TransferRows'
<1> DEFINE c == txn[job[w]]
<1>1. /\ pc[w] = "debit" /\ job' = job /\ UNCHANGED recordVars
      /\ \A v \in Workers \ {w} : pc'[v] = pc[v]
      /\ pc'[w] = "credit" \/ pc'[w] = "fail"
  BY DEF DebitFrom, Q!Goto, TypedRuns, TypeOK
<1>2. job[w] \in Txns /\ c \in Conversions
  BY <1>1 DEF TypedRuns, TypeOK, RunsOK
<1>3. CASE RollbackTx(w) /\ pc'[w] = "fail"
  BY <1>1, <1>3, EndsTransaction DEF recordVars
<1>4. CASE pc'[w] = "credit"
  <2>1. IncrementInTx(w, c.from, -c.amount) /\ ~Insufficient(w, c)
    BY <1>1, <1>4 DEF DebitFrom, Q!Goto, TypedRuns, TypeOK
  <2>2. dirty[w] = NoRows /\ DOMAIN NoRows = {}
    BY <1>1 DEF TransferRows, WorkerRows, NoRows
  <2>3. c.from \in Accounts /\ c.amount \in Int /\ -c.amount \in Int /\ balance[c.from] \in Int
    BY <1>2 DEF Conversions, TypedRuns, TypeOK, RowsTypeOK
  <2>4. RowSeenBy(w, c.from) = balance[c.from] /\ balance[c.from] >= c.amount
    BY <2>1, <2>2, <2>3 DEF RowSeenBy, Holds, Insufficient
  <2>5. /\ DOMAIN dirty'[w] = {c.from} /\ balance' = balance
        /\ \A v \in Workers \ {w} : dirty'[v] = dirty[v]
    <3>1. /\ DOMAIN dirty'[w] = DOMAIN dirty[w] \cup {c.from}
          /\ \A v \in Workers \ {w} : dirty'[v] = dirty[v]
      BY <2>1, <2>3, IncrementInTxRows DEF TypedRuns, TypeOK
    <3> QED
      BY <2>1, <2>2, <3>1 DEF IncrementInTx
  <2>6. dirty'[w][c.from] = balance[c.from] - c.amount
    BY <2>1, <2>3, <2>4 DEF IncrementInTx, TypedRuns, TypeOK, RowsTypeOK
  <2>7. WorkerRows(w)'
    BY <1>1, <1>4, <2>4, <2>5, <2>6 DEF WorkerRows, recordVars
  <2>8. Acquirable(w, c.from) /\ RowsTypeOK'
    BY <2>1 DEF IncrementInTx, TypedRuns, TypeOK
  <2> QED
    BY <1>1, <2>5, <2>7, <2>8, OneWorkerMoves DEF recordVars
<1> QED
  BY <1>1, <1>3, <1>4 DEF DebitFrom, Q!Goto, TypedRuns, TypeOK

\* The credit leg: the session's versions are now what the ledger's Transfer leaves.
LEMMA CreditRows ==
  ASSUME TypedRuns, TypedRuns', TransferRows, NEW w \in Workers, CreditTo(w)
  PROVE  TransferRows'
<1> DEFINE c == txn[job[w]]
<1>1. /\ pc[w] = "credit" /\ pc'[w] = "commit" /\ job' = job /\ UNCHANGED recordVars
      /\ \A v \in Workers \ {w} : pc'[v] = pc[v]
      /\ IncrementInTx(w, c.to, c.converted)
  BY DEF CreditTo, Q!Goto, TypedRuns, TypeOK
<1>2. job[w] \in Txns /\ c \in Conversions
  BY <1>1 DEF TypedRuns, TypeOK, RunsOK
<1>3. /\ c.from \in Accounts /\ c.to \in Accounts /\ c.amount \in Int /\ c.converted \in Int
      /\ balance \in [Accounts -> Int] /\ DOMAIN dirty = Workers /\ RowsTypeOK'
  BY <1>2 DEF Conversions, TypedRuns, TypeOK, RowsTypeOK
<1>4. /\ DOMAIN dirty[w] = {c.from} /\ dirty[w][c.from] = balance[c.from] - c.amount
      /\ balance[c.from] >= c.amount
  BY <1>1 DEF TransferRows, WorkerRows
<1>5. /\ DOMAIN dirty'[w] = {c.from, c.to} /\ balance' = balance
      /\ \A v \in Workers \ {w} : dirty'[v] = dirty[v]
  BY <1>1, <1>3, <1>4, IncrementInTxRows DEF TypedRuns, TypeOK, IncrementInTx
<1>6. \A a \in {c.from, c.to} :
        dirty'[w][a] = IF a = c.to THEN RowSeenBy(w, a) + c.converted ELSE dirty[w][a]
  BY <1>1, <1>3, <1>4 DEF IncrementInTx
<1>7. \A a \in {c.from, c.to} : dirty'[w][a] = Ledger!After(c)[a]
  <2>1. CASE c.from = c.to
    BY <1>3, <1>4, <1>6, <2>1 DEF RowSeenBy, Holds, Ledger!After
  <2>2. CASE c.from # c.to
    <3>1. /\ dirty'[w][c.from] = balance[c.from] - c.amount
          /\ dirty'[w][c.to] = balance[c.to] + c.converted
      BY <1>4, <1>6, <2>2 DEF RowSeenBy, Holds
    <3> QED
      BY <1>3, <2>2, <3>1 DEF Ledger!After
  <2> QED
    BY <2>1, <2>2
<1>8. \A a \in {c.from, c.to} : dirty'[w][a] = Ledger!After(c)'[a]
  BY <1>1, <1>5, <1>7 DEF Ledger!After, recordVars
<1>9. WorkerRows(w)'
  BY <1>1, <1>4, <1>5, <1>8 DEF WorkerRows, recordVars
<1>10. Acquirable(w, c.to) /\ Acquirable(w, c.from)
  BY <1>1, <1>4 DEF IncrementInTx, TransferRows, RowsExclusive
<1> QED
  BY <1>1, <1>3, <1>5, <1>9, <1>10, OneWorkerMoves DEF recordVars

\* Requests change no row that a transfer has locked, and no record that it reads.
LEMMA RowsAmongRequests ==
  ASSUME TypedRuns, TypedRuns', TransferRows,
         UNCHANGED <<dirty, handlerVars>>,
         UNCHANGED balance \/ AccountsNext,
         \A t \in Txns : txn[t] # NoTxn => txn'[t] = txn[t]
  PROVE  TransferRows'
<1>1. ASSUME NEW w \in Workers PROVE WorkerRows(w)'
  <2>1. \A a \in DOMAIN dirty[w] : balance'[a] = balance[a]
    <3>1. CASE UNCHANGED balance
      BY <3>1
    <3>2. ASSUME NEW b \in Accounts, Unlocked(b), balance' = [balance EXCEPT ![b] = balance'[b]]
          PROVE  \A a \in DOMAIN dirty[w] : balance'[a] = balance[a]
      BY <3>2 DEF Unlocked, Holds, TypedRuns, TypeOK, RowsTypeOK
    <3> QED
      BY <3>1, <3>2, RequestChangesOneRow DEF TypedRuns, TypeOK
  <2>2. pc[w] # "idle" => txn'[job[w]] = txn[job[w]]
    BY DEF TypedRuns, RunsOK
  <2>3. balance' \in [Accounts -> Int] /\ WorkerRows(w)
    BY DEF TypedRuns, TypeOK, RowsTypeOK, TransferRows
  <2> QED
    BY <2>1, <2>2, <2>3, RowsUndisturbed DEF handlerVars
<1>2. RowsExclusive'
  BY DEF TransferRows, RowsExclusive, Acquirable, Holds
<1> QED
  BY <1>1, <1>2 DEF TransferRows

LEMMA TransferRowsStep == TypedRuns /\ TypedRuns' /\ TransferRows /\ [Next]_vars => TransferRows'
<1> SUFFICES ASSUME TypedRuns, TypedRuns', TransferRows, [Next]_vars PROVE TransferRows'
  OBVIOUS
<1>1. pc \in [Workers -> HandlerStates] /\ job \in [Workers -> Txns \cup {NoTxn}]
      /\ txn \in [Txns -> Conversions \cup {NoTxn}]
  BY DEF TypedRuns, TypeOK
<1>2. ASSUME NEW w \in Workers, DebitFrom(w) \/ CreditTo(w) PROVE TransferRows'
  BY <1>2, DebitRows, CreditRows
<1>3. ASSUME NEW w \in Workers, CommitTransfer(w) \/ TransferAborted(w) \/ Crash(w)
      PROVE  TransferRows'
  <2>1. /\ CommitTx(w) \/ RollbackTx(w)
        /\ UNCHANGED txn
        /\ pc'[w] \notin {"credit", "commit"}
        /\ \A v \in Workers \ {w} : pc'[v] = pc[v] /\ job'[v] = job[v]
    BY <1>1, <1>3 DEF CommitTransfer, TransferAborted, Crash, Q!Goto, Q!Die, Q!Release, recordVars
  <2> QED
    BY <2>1, EndsTransaction
<1>4. ASSUME NEW w \in Workers,
             \/ MarkProcessing(w) \/ MarkCompleted(w) \/ MarkFailed(w) \/ JobDone(w)
             \/ \E t \in Txns : StartJob(w, t)
      PROVE  TransferRows'
  <2>1. /\ UNCHANGED <<rowVars, recordVars>>
        /\ pc[w] \notin {"credit", "commit"} /\ pc'[w] \notin {"credit", "commit"}
        /\ \A v \in Workers \ {w} : pc'[v] = pc[v] /\ job'[v] = job[v]
    BY <1>1, <1>4
    DEF MarkProcessing, MarkCompleted, MarkFailed, JobDone, StartJob, AfterCatch, Q!Goto,
                      Q!JobResolved, Q!JobRejected, Q!StartJob, Q!Release
  <2> QED
    BY <2>1, MovesWithoutRows
<1>5. ASSUME NEW u \in Users, NEW t \in Txns, NEW f \in Accounts, NEW g \in Accounts,
             NEW x \in ConvertAmounts, ConvertFunds(u, t, f, g, x)
      PROVE  TransferRows'
  <2>1. \A s \in Txns : txn[s] # NoTxn => txn'[s] = txn[s]
    BY <1>1, <1>5 DEF ConvertFunds
  <2>2. UNCHANGED <<dirty, handlerVars, balance>>
    BY <1>5 DEF ConvertFunds, rowVars, handlerVars
  <2> QED
    BY <2>1, <2>2, RowsAmongRequests
<1>6. CASE \/ AccountRequest \/ UNCHANGED vars
           \/ \E t \in Txns : EnqueueTransaction(t) \/ CreationAborted(t) \/ LockLost(t) \/ QueueTimers(t)
  <2>1. UNCHANGED <<dirty, handlerVars, txn>> /\ (UNCHANGED balance \/ AccountsNext)
    BY <1>6, AccountsNextTyped DEF TypedRuns, TypeOK, AccountRequest, vars, EnqueueTransaction,
       CreationAborted, LockLost, QueueTimers, Q!LockLost, Q!Timers, Q!LockExpires, rowVars,
       recordVars, handlerVars
  <2> QED
    BY <2>1, RowsAmongRequests
<1> QED
  BY <1>2, <1>3, <1>4, <1>5, <1>6 DEF Next, Rest, HandlerStep

\* What a transfer has read stays true until it ends.
THEOREM RowsOfTransfers == Spec => []TransferRows
<1>1. Init => TransferRows
  BY DEF Init, AccountsInit, Q!WorkersInit, TransferRows, RowsExclusive, WorkerRows, NoRows
<1> QED
  BY <1>1, TransferRowsStep, RunsTypedAlways, PTL DEF Spec

--------------------------------------------------------------------------------
(* TransactionsService implements AtomicLedger. *)

\* The commit of a worker is the ledger's Transfer.
LEMMA CommitIsTransfer ==
  ASSUME TypedRuns, TransferRows, NEW w \in Workers, CommitTransfer(w)
  PROVE  Ledger!Transfer(job[w])
<1> DEFINE c == txn[job[w]]
<1>1. pc[w] = "commit" /\ CommitTx(w) /\ applied' = [applied EXCEPT ![job[w]] = @ + 1] /\ txn' = txn
  BY DEF CommitTransfer, Q!Goto, recordVars
<1>2. job[w] \in Txns /\ c # NoTxn /\ c \in Conversions
  BY <1>1 DEF TypedRuns, TypeOK, RunsOK
<1>3. /\ DOMAIN dirty[w] = {c.from, c.to} /\ balance[c.from] >= c.amount
      /\ \A a \in {c.from, c.to} : dirty[w][a] = Ledger!After(c)[a]
  BY <1>1 DEF TransferRows, WorkerRows
<1>4. balance' = [a \in Accounts |-> IF a \in {c.from, c.to} THEN Ledger!After(c)[a] ELSE balance[a]]
  BY <1>1, <1>3 DEF CommitTx, RowSeenBy, Holds
<1>5. balance \in [Accounts -> Int]
  BY DEF TypedRuns, TypeOK, RowsTypeOK
<1>6. balance' = Ledger!After(c)
  <2>1. Ledger!After(c) = [a \in Accounts |-> Ledger!After(c)[a]]
    BY <1>5 DEF Ledger!After
  <2>2. \A a \in Accounts \ {c.from, c.to} : Ledger!After(c)[a] = balance[a]
    BY <1>5 DEF Ledger!After
  <2> QED
    BY <1>4, <2>1, <2>2
<1> QED
  BY <1>1, <1>2, <1>3, <1>6 DEF Ledger!Transfer

\* Creating the row is the ledger's Record.
LEMMA ConvertIsRecord ==
  ASSUME TypedRuns, NEW u \in Users, NEW t \in Txns, NEW f \in Accounts, NEW g \in Accounts,
         NEW x \in ConvertAmounts, ConvertFunds(u, t, f, g, x)
  PROVE  Ledger!Record(t)
<1>1. PICK r \in RatesFor(f, g) :
        txn' = [txn EXCEPT ![t] = [from |-> f, to |-> g, amount |-> x, converted |-> x * r]]
  BY DEF ConvertFunds
<1> DEFINE c == [from |-> f, to |-> g, amount |-> x, converted |-> x * r]
<1>2. c \in Conversions /\ c.from = f /\ c.to = g
  BY ConversionTyped
<1>3. txn' = [txn EXCEPT ![t] = c]
  BY <1>1
<1> HIDE DEF c
<1>4. txn'[t] = c
  BY <1>3 DEF TypedRuns, TypeOK
<1>5. c # NoTxn
  BY <1>2, TxnsAssumption
<1>6. txn[t] = NoTxn /\ Owner[f] = Owner[g] /\ UNCHANGED <<balance, applied>>
  BY DEF ConvertFunds, rowVars
<1> QED
  BY <1>2, <1>3, <1>4, <1>5, <1>6 DEF Ledger!Record

\* Every other step changes one balance by a request, or nothing that the ledger sees.
LEMMA StepIsLedgerStep ==
  TypedRuns /\ TransferRows /\ [Next]_vars => [Ledger!Next]_(Ledger!vars)
<1> SUFFICES ASSUME TypedRuns, TransferRows, [Next]_vars PROVE Ledger!Next \/ UNCHANGED Ledger!vars
  OBVIOUS
<1>1. ASSUME NEW w \in Workers, CommitTransfer(w) PROVE Ledger!Next
  <2>1. job[w] \in Txns
    BY <1>1 DEF CommitTransfer, Q!Goto, TypedRuns, RunsOK
  <2> QED
    BY <1>1, <2>1, CommitIsTransfer DEF Ledger!Next
<1>2. ASSUME NEW u \in Users, NEW t \in Txns, NEW f \in Accounts, NEW g \in Accounts,
             NEW x \in ConvertAmounts, ConvertFunds(u, t, f, g, x)
      PROVE  Ledger!Next
  BY <1>2, ConvertIsRecord DEF Ledger!Next
<1>3. CASE AccountRequest
  <2>1. UNCHANGED <<txn, applied>>
    BY <1>3 DEF AccountRequest, recordVars
  <2>2. UNCHANGED balance \/ \E a \in Accounts : Ledger!DepositOrWithdraw(a)
    BY <1>3, <2>1, RequestChangesOneRow DEF AccountRequest, TypedRuns, TypeOK,
                                            Ledger!DepositOrWithdraw
  <2> QED
    BY <2>1, <2>2 DEF Ledger!Next, Ledger!vars
<1>4. CASE \/ UNCHANGED vars
           \/ \E t \in Txns : EnqueueTransaction(t) \/ CreationAborted(t) \/ LockLost(t) \/ QueueTimers(t)
           \/ \E w \in Workers : Crash(w) \/ \E t \in Txns : StartJob(w, t)
  BY <1>4 DEF vars, rowVars, recordVars, EnqueueTransaction, CreationAborted, LockLost, QueueTimers,
              Crash, StartJob, RollbackTx, Ledger!vars
<1>5. ASSUME NEW w \in Workers, HandlerStep(w), ~CommitTransfer(w)
      PROVE  UNCHANGED Ledger!vars
  BY <1>5 DEF HandlerStep, MarkProcessing, DebitFrom, CreditTo, TransferAborted, MarkCompleted,
              MarkFailed, JobDone, IncrementInTx, RollbackTx, rowVars, recordVars, Ledger!vars
<1> QED
  BY <1>1, <1>2, <1>3, <1>4, <1>5 DEF Next, Rest

\* convertFunds, processTransaction, fundAccount and withdrawFromAccount together implement
\* the atomic ledger: no interleaving, crash, retry or lost lock makes half a transfer.
THEOREM TransfersAreAtomic == Spec => AtomicTransfers
<1>1. Init => Ledger!Init
  BY DEF Init, Ledger!Init
<1> QED
  BY <1>1, StepIsLedgerStep, RunsTypedAlways, RowsOfTransfers, PTL
     DEF Spec, AtomicTransfers, Ledger!Spec

--------------------------------------------------------------------------------
(* The overdraft.  A client that has passed the check and not yet debited may still    *)
(* lower the balance; one that passes it now proves the balance positive.  So an       *)
(* account is never below minus the largest amount for each client that is not waiting *)
(* to debit it.  A conversion debits only what is there, and lowers no other account   *)
(* than the one it credits with a negative amount.                                     *)

\* The clients that have passed the check on a and not yet debited it.
Pending(a) == {c \in Clients : withdrawal[c] # NoWithdrawal /\ withdrawal[c].account = a}

\* How many clients may have debited a since anybody saw it positive.
Debited(a) == Cardinality(Clients) - Cardinality(Pending(a))

OverdraftInv(M) ==
  \A a \in Accounts : NegativelyCredited(a) \/ balance[a] >= -(Debited(a) * M)

--------------------------------------------------------------------------------

LEMMA DebitedNat ==
  ASSUME IsFiniteSet(Clients), NEW a
  PROVE  IsFiniteSet(Pending(a)) /\ Cardinality(Pending(a)) \in Nat /\ Debited(a) \in Nat
<1>1. Pending(a) \in SUBSET Clients
  BY DEF Pending
<1>2. /\ IsFiniteSet(Pending(a)) /\ Cardinality(Pending(a)) <= Cardinality(Clients)
      /\ Cardinality(Clients) \in Nat
  BY <1>1, FS_Subset, FS_CardinalityType
<1>3. Cardinality(Pending(a)) \in Nat
  BY <1>2, FS_CardinalityType
<1> QED
  BY <1>2, <1>3 DEF Debited

LEMMA OneMore ==
  ASSUME NEW k \in Nat, NEW M \in Nat
  PROVE  k * M \in Nat /\ (k + 1) * M = k * M + M
OBVIOUS

\* A client that debits, or gives up, is pending no more.
LEMMA NoLongerPending ==
  ASSUME IsFiniteSet(Clients), NEW a, NEW c \in Pending(a), Pending(a)' = Pending(a) \ {c}
  PROVE  Debited(a)' = Debited(a) + 1
<1>1. IsFiniteSet(Pending(a)) /\ Cardinality(Pending(a)) \in Nat /\ Cardinality(Clients) \in Nat
  BY DebitedNat, FS_CardinalityType
<1>2. Cardinality(Pending(a) \ {c}) = Cardinality(Pending(a)) - 1
  BY <1>1, FS_RemoveElement
<1>3. Cardinality(Pending(a)') = Cardinality(Pending(a)) - 1
  BY <1>2
<1> QED
  BY <1>1, <1>3 DEF Debited

\* fundAccount and withdrawFromAccount.
LEMMA RequestsOverdraft ==
  ASSUME IsFiniteSet(Clients), NEW M \in Nat, \A x \in PositiveAmounts : x <= M,
         RowsTypeOK, AccountsTypeOK, AccountsNext,
         NEW a \in Accounts, balance[a] >= -(Debited(a) * M)
  PROVE  balance'[a] >= -(Debited(a)' * M)
<1>1. balance \in [Accounts -> Int] /\ \A x \in PositiveAmounts : x \in Int /\ x > 0
  BY AccountsAssumption DEF RowsTypeOK, PositiveAmounts
<1>2. Debited(a) \in Nat
  BY DebitedNat
<1>3. ASSUME NEW u \in Users, NEW b \in Accounts, NEW x \in Amounts, FundAccount(u, b, x)
      PROVE  balance'[a] >= -(Debited(a)' * M)
  <2>1. Debited(a)' = Debited(a)
    BY <1>3 DEF FundAccount, Debited, Pending
  <2>2. x \in Int /\ x > 0
    BY <1>3, AccountsAssumption DEF FundAccount, Admissible
  <2>3. balance'[a] \in Int /\ balance'[a] >= balance[a]
    BY <1>1, <1>3, <2>2 DEF FundAccount, Increment
  <2>4. Debited(a) * M \in Nat
    BY <1>2, OneMore
  <2> QED
    BY <1>1, <2>1, <2>3, <2>4
<1>4. ASSUME NEW u \in Users, NEW b \in Accounts, NEW x \in Amounts, NEW c \in Clients,
             WithdrawFromAccount(c, u, b, x)
      PROVE  balance'[a] >= -(Debited(a)' * M)
  <2>1. balance' = balance
    BY <1>4 DEF WithdrawFromAccount, rowVars
  <2>2. CASE a = b
    <3>1. x \in Int /\ x > 0 /\ balance[a] >= x
      BY <1>4, <2>2, AccountsAssumption DEF WithdrawFromAccount, Admissible, Sufficient
    <3>2. Debited(a)' \in Nat
      <4>1. Pending(a)' \in SUBSET Clients
        BY DEF Pending
      <4>2. /\ Cardinality(Pending(a)') \in Nat /\ Cardinality(Clients) \in Nat
            /\ Cardinality(Pending(a)') <= Cardinality(Clients)
        BY <4>1, FS_Subset, FS_CardinalityType
      <4> QED
        BY <4>2 DEF Debited
    <3>3. Debited(a)' * M \in Nat
      BY <3>2, OneMore
    <3> QED
      BY <1>1, <2>1, <3>1, <3>3
  <2>3. CASE a # b
    <3>1. Pending(a)' = Pending(a)
      BY <1>4, <2>3 DEF WithdrawFromAccount, Pending, AccountsTypeOK
    <3> QED
      BY <2>1, <3>1 DEF Debited
  <2> QED
    BY <2>2, <2>3
<1>5. ASSUME NEW c \in Clients, DebitWithdrawal(c) \/ WithdrawalLost(c)
      PROVE  balance'[a] >= -(Debited(a)' * M)
  <2> DEFINE b == withdrawal[c].account
  <2>1. withdrawal[c] # NoWithdrawal /\ withdrawal[c] \in Withdrawals
        /\ withdrawal' = [withdrawal EXCEPT ![c] = NoWithdrawal]
    BY <1>5 DEF DebitWithdrawal, WithdrawalLost, AccountsTypeOK
  <2>2. /\ b \in Accounts
        /\ withdrawal[c].amount \in Int /\ withdrawal[c].amount > 0 /\ withdrawal[c].amount <= M
    BY <1>1, <2>1 DEF Withdrawals
  <2>3. balance' = balance \/ balance' = [balance EXCEPT ![b] = balance[b] - withdrawal[c].amount]
    BY <1>1, <1>5, <2>2 DEF DebitWithdrawal, WithdrawalLost, Increment, rowVars
  <2>4. CASE a = b
    <3>1. c \in Pending(a) /\ Pending(a)' = Pending(a) \ {c}
      BY <2>1, <2>4 DEF Pending, AccountsTypeOK
    <3>2. Debited(a)' = Debited(a) + 1
      BY <3>1, NoLongerPending
    <3>3. Debited(a) * M \in Nat /\ Debited(a)' * M = Debited(a) * M + M
      BY <1>2, <3>2, OneMore
    <3>4. balance'[a] \in Int /\ balance'[a] >= balance[a] - M
      BY <1>1, <2>2, <2>3, <2>4
    <3> QED
      BY <1>1, <3>3, <3>4
  <2>5. CASE a # b
    <3>1. Pending(a)' = Pending(a)
      BY <2>1, <2>5 DEF Pending, AccountsTypeOK
    <3>2. balance'[a] = balance[a]
      BY <1>1, <2>3, <2>5
    <3> QED
      BY <3>1, <3>2 DEF Debited
  <2> QED
    BY <2>4, <2>5
<1> QED
  BY <1>3, <1>4, <1>5 DEF AccountsNext

\* What has credited an account stays on record.
LEMMA CreditsStay ==
  ASSUME NEW a \in Accounts, NegativelyCredited(a),
         \A t \in Txns : txn[t] # NoTxn => txn'[t] = txn[t],
         \A t \in Txns : applied[t] >= 1 => applied'[t] >= 1
  PROVE  NegativelyCredited(a)'
<1>1. PICK t \in Txns : Recorded(t) /\ applied[t] >= 1 /\ txn[t].to = a /\ txn[t].converted < 0
  BY DEF NegativelyCredited
<1>2. txn'[t] = txn[t] /\ txn[t] # NoTxn /\ applied'[t] >= 1
  BY <1>1 DEF Recorded
<1> QED
  BY <1>1, <1>2 DEF NegativelyCredited, Recorded

\* A committed transfer leaves the account it debits at zero or more, and credits the other.
LEMMA TransferOverdraft ==
  ASSUME IsFiniteSet(Clients), NEW M \in Nat, TypedRuns, OverdraftInv(M),
         NEW t \in Txns, Ledger!Transfer(t), UNCHANGED withdrawal
  PROVE  OverdraftInv(M)'
<1> DEFINE c == txn[t]
<1>1. /\ balance \in [Accounts -> Int] /\ c \in Conversions /\ c # NoTxn /\ txn' = txn
      /\ balance' = Ledger!After(c) /\ balance[c.from] >= c.amount
      /\ applied \in [Txns -> Nat] /\ applied' = [applied EXCEPT ![t] = applied[t] + 1]
  BY DEF Ledger!Transfer, TypedRuns, TypeOK, RowsTypeOK
<1>2. c.from \in Accounts /\ c.to \in Accounts /\ c.amount \in Int /\ c.converted \in Int
  BY <1>1 DEF Conversions
<1>3. /\ applied'[t] >= 1 /\ \A s \in Txns : applied[s] >= 1 => applied'[s] >= 1
  BY <1>1
<1>4. ASSUME NEW a \in Accounts, a = c.to, c.converted < 0 PROVE NegativelyCredited(a)'
  BY <1>1, <1>3, <1>4 DEF NegativelyCredited, Recorded
<1> HIDE DEF c
<1>5. ASSUME NEW a \in Accounts, a = c.to => c.converted >= 0
      PROVE  balance'[a] \in Int /\ (balance'[a] >= 0 \/ balance'[a] >= balance[a])
  BY <1>1, <1>2, <1>5 DEF Ledger!After
<1>6. ASSUME NEW a \in Accounts, ~NegativelyCredited(a)'
      PROVE  balance'[a] >= -(Debited(a)' * M)
  <2>1. Debited(a)' = Debited(a)
    BY DEF Debited, Pending
  <2>2. Debited(a) * M \in Nat
    BY DebitedNat, OneMore
  <2>3. ~NegativelyCredited(a)
    BY <1>1, <1>3, <1>6, CreditsStay
  <2>4. balance[a] >= -(Debited(a) * M) /\ balance[a] \in Int
    BY <1>1, <2>3 DEF OverdraftInv
  <2>5. a = c.to => c.converted >= 0
    BY <1>2, <1>4, <1>6
  <2>6. balance'[a] \in Int /\ (balance'[a] >= 0 \/ balance'[a] >= balance[a])
    BY <1>5, <2>5
  <2> QED
    BY <2>1, <2>2, <2>4, <2>6
<1> QED
  BY <1>6 DEF OverdraftInv

\* Recording a conversion, of whatever amount, moves no money.
LEMMA ConvertOverdraft ==
  ASSUME NEW M, TypedRuns, OverdraftInv(M), NEW u \in Users, NEW t \in Txns,
         NEW f \in Accounts, NEW g \in Accounts, NEW x \in ConvertAmounts, ConvertFunds(u, t, f, g, x)
  PROVE  OverdraftInv(M)'
<1>1. PICK r \in RatesFor(f, g) :
        txn' = [txn EXCEPT ![t] = [from |-> f, to |-> g, amount |-> x, converted |-> x * r]]
  BY DEF ConvertFunds
<1>2. txn[t] = NoTxn /\ UNCHANGED <<balance, withdrawal, applied>>
  BY DEF ConvertFunds, rowVars, accountsVars
<1>3. \A s \in Txns : txn[s] # NoTxn => txn'[s] = txn[s]
  BY <1>1, <1>2 DEF TypedRuns, TypeOK
<1>4. ASSUME NEW a \in Accounts, NegativelyCredited(a) PROVE NegativelyCredited(a)'
  BY <1>2, <1>3, <1>4, CreditsStay
<1> QED
  BY <1>2, <1>4 DEF OverdraftInv, Debited, Pending

LEMMA OverdraftStep ==
  ASSUME IsFiniteSet(Clients), NEW M \in Nat, \A x \in PositiveAmounts : x <= M
  PROVE  TypedRuns /\ TransferRows /\ OverdraftInv(M) /\ [Next]_vars => OverdraftInv(M)'
<1> SUFFICES ASSUME TypedRuns, TransferRows, OverdraftInv(M), [Next]_vars PROVE OverdraftInv(M)'
  OBVIOUS
<1>1. CASE AccountRequest
  <2>1. UNCHANGED <<txn, applied>> /\ AccountsNext /\ RowsTypeOK /\ AccountsTypeOK
    BY <1>1 DEF AccountRequest, recordVars, TypedRuns, TypeOK
  <2>2. ASSUME NEW a \in Accounts, ~NegativelyCredited(a)'
        PROVE  balance'[a] >= -(Debited(a)' * M)
    <3>1. balance[a] >= -(Debited(a) * M)
      BY <2>1, <2>2 DEF OverdraftInv, NegativelyCredited, Recorded
    <3> QED
      BY <2>1, <3>1, RequestsOverdraft
  <2> QED
    BY <2>2 DEF OverdraftInv
<1>2. ASSUME NEW u \in Users, NEW t \in Txns, NEW f \in Accounts, NEW g \in Accounts,
             NEW x \in ConvertAmounts, ConvertFunds(u, t, f, g, x)
      PROVE  OverdraftInv(M)'
  BY <1>2, ConvertOverdraft
<1>3. ASSUME NEW w \in Workers, CommitTransfer(w)
      PROVE  OverdraftInv(M)'
  <2>1. job[w] \in Txns /\ UNCHANGED withdrawal
    BY <1>3 DEF CommitTransfer, Q!Goto, TypedRuns, RunsOK, accountsVars
  <2> QED
    BY <1>3, <2>1, CommitIsTransfer, TransferOverdraft
<1>4. CASE \/ UNCHANGED vars
           \/ \E t \in Txns : EnqueueTransaction(t) \/ CreationAborted(t) \/ LockLost(t) \/ QueueTimers(t)
           \/ \E w \in Workers : Crash(w) \/ \E t \in Txns : StartJob(w, t)
           \/ \E w \in Workers : HandlerStep(w) /\ ~CommitTransfer(w)
  <2>1. UNCHANGED <<balance, withdrawal, txn, applied>>
    BY <1>4 DEF vars, rowVars, accountsVars, recordVars, EnqueueTransaction, CreationAborted,
                LockLost, QueueTimers, Crash, StartJob, RollbackTx, HandlerStep, MarkProcessing,
                DebitFrom, CreditTo, TransferAborted, MarkCompleted, MarkFailed, JobDone,
                IncrementInTx
  <2> QED
    BY <2>1 DEF OverdraftInv, Debited, Pending, NegativelyCredited, Recorded
<1> QED
  BY <1>1, <1>2, <1>3, <1>4 DEF Next, Rest

\* withdrawFromAccount overdraws an account by no more than every client at once taking the
\* largest amount M, unless a conversion of a negative amount has credited the account: whatever
\* workers, retries and crashes do, whatever is converted and however many withdrawals come one
\* after the other.  Accounts start at 0, or with what the seed gives them.
THEOREM OverdraftIsBounded ==
  ASSUME IsFiniteSet(Clients), OpeningBalances \subseteq Nat,
         NEW M \in PositiveAmounts \cup {0}, \A x \in PositiveAmounts : x <= M
  PROVE  Spec => []OverdraftBound
<1>1. M \in Nat
  BY AccountsAssumption DEF PositiveAmounts
<1>2. Init => OverdraftInv(M)
  <2> SUFFICES ASSUME Init PROVE OverdraftInv(M)
    OBVIOUS
  <2>1. ASSUME NEW a \in Accounts PROVE balance[a] >= -(Debited(a) * M)
    <3>1. balance[a] \in Nat
      BY DEF Init, AccountsInit
    <3>2. Debited(a) * M \in Nat
      BY <1>1, DebitedNat, OneMore
    <3> QED
      BY <3>1, <3>2
  <2> QED
    BY <2>1 DEF OverdraftInv
<1>3. TypedRuns /\ TransferRows /\ OverdraftInv(M) /\ [Next]_vars => OverdraftInv(M)'
  BY <1>1, OverdraftStep
<1>4. TypedRuns /\ OverdraftInv(M) => OverdraftBound
  <2> SUFFICES ASSUME TypedRuns, OverdraftInv(M), NEW a \in Accounts, ~NegativelyCredited(a)
               PROVE  \E x \in PositiveAmounts \cup {0} : balance[a] >= -(Cardinality(Clients) * x)
    BY DEF OverdraftBound
  <2>1. /\ Debited(a) \in Nat /\ Cardinality(Pending(a)) \in Nat
        /\ Cardinality(Clients) = Debited(a) + Cardinality(Pending(a))
    BY DebitedNat, FS_CardinalityType DEF Debited
  <2>2. Cardinality(Clients) * M = Debited(a) * M + Cardinality(Pending(a)) * M
    BY <1>1, <2>1
  <2>3. Debited(a) * M \in Nat /\ Cardinality(Pending(a)) * M \in Nat
    BY <1>1, <2>1, OneMore
  <2>4. balance[a] >= -(Debited(a) * M) /\ balance[a] \in Int
    BY DEF OverdraftInv, TypedRuns, TypeOK, RowsTypeOK
  <2>5. balance[a] >= -(Cardinality(Clients) * M)
    BY <2>2, <2>3, <2>4
  <2> QED
    BY <2>5
<1> QED
  BY <1>2, <1>3, <1>4, RunsTypedAlways, RowsOfTransfers, PTL DEF Spec
================================================================================
