-------------------------- MODULE TransactionsService --------------------------
(***************************************************************************)
(* TransactionsService and TransactionProcessor                            *)
(* (src/src/transactions): a conversion is recorded as a Pending row, put  *)
(* on the "transactions" queue, and carried out by a worker.               *)
(*                                                                         *)
(* A worker of this module is one process that registers the processor;    *)
(* main.ts and main-cli.ts both boot AppModule, so a deployment has        *)
(* several.  pc[w] is the await at which its handler rests.  Every await   *)
(* may fail, and the process may die at any of them; each such event, and  *)
(* each loss of a lock that is still needed, is counted in faults.         *)
(***************************************************************************)
EXTENDS AccountsService

CONSTANTS
  Txns,              \* rows of the Transaction table, and the jobs that carry their ids
  NoTxn,             \* no row, no job
  NoWorker,          \* the owner of an unlocked job
  ConvertAmounts,    \* amounts to convert: IsNumberString, and no later check of the sign
  Rates,             \* rates the exchange-rate service may answer
  Currency,          \* the currencyCode of each account
  Attempts,          \* job option: attempts
  MaxStalledCount,   \* Bull's default maxStalledCount
  MaxFaults          \* bound: faults of a behaviour

VARIABLES
  txn,               \* the immutable columns of each row
  status,            \* its status column
  creating,          \* rows whose request has yet to reach transactionQueue.add
  jobState, lock, attemptsMade, stalledCounter,   \* the "transactions" queue
  job,               \* the job each worker handles
  pc,                \* where its handler rests
  applied,           \* history: how often the transfer of each row was committed
  faults             \* history: what went wrong so far

Q == INSTANCE BullWorkers WITH Jobs <- Txns, NoJob <- NoTxn, FirstStep <- "mark"

queueVars == <<jobState, lock, attemptsMade, stalledCounter>>
recordVars == <<txn, creating>>
handlerVars == <<job, pc>>
vars == <<rowVars, accountsVars, recordVars, status, queueVars, handlerVars, applied, faults>>

\* Without a lock, a job is nobody's.
ASSUME WorkersAssumption == NoWorker \notin Workers
ASSUME ConversionsAssumption == ConvertAmounts \subseteq Int /\ Rates \subseteq Int
ASSUME BoundsAssumption == MaxFaults \in Nat /\ Attempts \in Nat /\ MaxStalledCount \in Nat

Statuses == {"None", "Pending", "Processing", "Completed", "Failed"}
HandlerStates ==
  {"idle", "mark", "debit", "credit", "commit", "complete", "fail", "resolved", "rejected"}

Conversions == [from : Accounts, to : Accounts, amount : Int, converted : Int]

ASSUME TxnsAssumption == NoTxn \notin Txns /\ NoTxn \notin Conversions

TypeOK ==
  /\ RowsTypeOK
  /\ AccountsTypeOK
  /\ Q!QueueTypeOK
  /\ txn \in [Txns -> Conversions \cup {NoTxn}]
  /\ status \in [Txns -> Statuses]
  /\ creating \subseteq Txns
  /\ job \in [Workers -> Txns \cup {NoTxn}]
  /\ pc \in [Workers -> HandlerStates]
  /\ applied \in [Txns -> Nat]
  /\ faults \in 0..MaxFaults

Init ==
  /\ AccountsInit
  /\ Q!WorkersInit
  /\ txn = [t \in Txns |-> NoTxn]
  /\ status = [t \in Txns |-> "None"]
  /\ creating = {}
  /\ applied = [t \in Txns |-> 0]

--------------------------------------------------------------------------------

SetStatus(t, s) == status' = [status EXCEPT ![t] = s]

\* An UPDATE that reports an error: it may or may not have been made.
StatusWriteFails(t, s) == Q!Fault /\ (SetStatus(t, s) \/ UNCHANGED status)

--------------------------------------------------------------------------------
(* The request: convertFunds and createForexTransaction. *)

RatesFor(f, g) == IF Currency[f] = Currency[g] THEN {1} ELSE Rates

ConvertFunds(u, t, f, g, x) ==
  /\ txn[t] = NoTxn
  /\ Owner[f] = u /\ Owner[g] = u
  /\ \E r \in RatesFor(f, g) :
       txn' = [txn EXCEPT ![t] = [from |-> f, to |-> g, amount |-> x, converted |-> x * r]]
  /\ SetStatus(t, "Pending")
  /\ creating' = creating \cup {t}
  /\ UNCHANGED <<rowVars, accountsVars, queueVars, handlerVars, applied, faults>>

\* Mutant: the job is never added.
EnqueueForgotten(t) ==
  /\ t \in creating
  /\ creating' = creating \ {t}
  /\ UNCHANGED <<rowVars, accountsVars, txn, status, queueVars, handlerVars, applied, faults>>

EnqueueTransaction(t) ==
  /\ t \in creating
  /\ creating' = creating \ {t}
  /\ Q!Add(t)
  /\ UNCHANGED <<rowVars, accountsVars, txn, status, handlerVars, applied, faults>>

\* The process dies, or Redis cannot be reached, between the row and the job, or the answer
\* of the create is lost.  (An add whose answer is lost is EnqueueTransaction.)
CreationAborted(t) ==
  /\ t \in creating
  /\ creating' = creating \ {t}
  /\ Q!Fault
  /\ UNCHANGED <<rowVars, accountsVars, txn, status, queueVars, handlerVars, applied>>

--------------------------------------------------------------------------------
(* The worker: handleTransaction and processTransaction. *)

StartJob(w, t) ==
  /\ Q!StartJob(w, t)
  /\ UNCHANGED <<rowVars, accountsVars, recordVars, status, applied>>

\* This update is outside the try: its error skips the catch.
MarkProcessing(w) ==
  /\ \/ Q!Goto(w, "mark", "debit") /\ SetStatus(job[w], "Processing") /\ UNCHANGED faults
     \/ Q!Goto(w, "mark", "rejected") /\ StatusWriteFails(job[w], "Processing")
  /\ UNCHANGED <<rowVars, accountsVars, recordVars, queueVars, applied>>

\* Mutant: the balance that the decrement returns is not looked at.
NeverInsufficient(w, c) == FALSE

\* fromAccount.availableBalance.lt(0), on the row as the decrement returns it.
Insufficient(w, c) == RowSeenBy(w, c.from) - c.amount < 0

DebitFrom(w) ==
  LET c == txn[job[w]] IN
  /\ \/ /\ Q!Goto(w, "debit", "credit")
        /\ ~Insufficient(w, c)
        /\ IncrementInTx(w, c.from, -c.amount)
     \/ /\ Q!Goto(w, "debit", "fail")
        /\ Acquirable(w, c.from)
        /\ Insufficient(w, c)
        /\ RollbackTx(w)
  /\ UNCHANGED <<accountsVars, recordVars, status, queueVars, applied, faults>>

CreditTo(w) ==
  LET c == txn[job[w]] IN
  /\ Q!Goto(w, "credit", "commit")
  /\ IncrementInTx(w, c.to, c.converted)
  /\ UNCHANGED <<accountsVars, recordVars, status, queueVars, applied, faults>>

\* The commit succeeds; the last disjunct is the one whose answer is lost.
CommitTransfer(w) ==
  /\ \/ Q!Goto(w, "commit", "complete") /\ UNCHANGED faults
     \/ Q!Goto(w, "commit", "fail") /\ Q!Fault
  /\ CommitTx(w)
  /\ applied' = [applied EXCEPT ![job[w]] = @ + 1]
  /\ UNCHANGED <<accountsVars, recordVars, status, queueVars>>

\* The workers of D wait for rows that others of D hold.
DeadlockedSet(D) ==
  \A d \in D : /\ pc[d] = "credit"
               /\ \E e \in D \ {d} : Holds(e, txn[job[d]].to)

\* PostgreSQL breaks a deadlock, or the transaction times out or loses its connection.
TransferAborted(w) ==
  /\ \/ Q!Goto(w, "debit", "fail") /\ Q!Fault
     \/ Q!Goto(w, "commit", "fail") /\ Q!Fault
     \/ Q!Goto(w, "credit", "fail") /\ Q!Fault
     \/ /\ Q!Goto(w, "credit", "fail")
        /\ \E D \in SUBSET Workers : w \in D /\ DeadlockedSet(D)
        /\ UNCHANGED faults
  /\ RollbackTx(w)
  /\ UNCHANGED <<accountsVars, recordVars, status, queueVars, applied>>

\* Mutant: something behind the update throws, into the catch.
MarkCompletedThenThrow(w) ==
  /\ Q!Goto(w, "complete", "fail") /\ SetStatus(job[w], "Completed")
  /\ UNCHANGED <<rowVars, accountsVars, recordVars, queueVars, applied, faults>>

\* Still inside the try: an error of this update goes to the catch.
MarkCompleted(w) ==
  /\ \/ Q!Goto(w, "complete", "resolved") /\ SetStatus(job[w], "Completed") /\ UNCHANGED faults
     \/ Q!Goto(w, "complete", "fail") /\ StatusWriteFails(job[w], "Completed")
  /\ UNCHANGED <<rowVars, accountsVars, recordVars, queueVars, applied>>

\* Mutants: the catch returns instead of throwing; it tries its update again and again.
CatchReturns == "resolved"
CatchLoops == "fail"

\* throw err, for the queue to retry.
AfterCatch == "rejected"

\* The catch: whether its update succeeds or not, the handler throws.
MarkFailed(w) ==
  /\ Q!Goto(w, "fail", AfterCatch)
  /\ \/ SetStatus(job[w], "Failed") /\ UNCHANGED faults
     \/ StatusWriteFails(job[w], "Failed")
  /\ UNCHANGED <<rowVars, accountsVars, recordVars, queueVars, applied>>

JobDone(w) ==
  /\ Q!JobResolved(w) \/ Q!JobRejected(w)
  /\ UNCHANGED <<rowVars, accountsVars, recordVars, status, applied>>

HandlerStep(w) ==
  \/ MarkProcessing(w) \/ DebitFrom(w) \/ CreditTo(w) \/ CommitTransfer(w)
  \/ TransferAborted(w) \/ MarkCompleted(w) \/ MarkFailed(w)
  \/ JobDone(w)

--------------------------------------------------------------------------------
(* The queue, and what befalls the workers. *)

\* The process dies and comes back; its session, and what it had not committed, is gone.
Crash(w) ==
  /\ Q!Die(w)
  /\ RollbackTx(w)
  /\ UNCHANGED <<accountsVars, recordVars, status, applied>>

LockLost(t) ==
  /\ Q!LockLost(t)
  /\ UNCHANGED <<rowVars, accountsVars, recordVars, status, applied>>

QueueTimers(t) ==
  /\ Q!Timers(t)
  /\ UNCHANGED <<rowVars, accountsVars, recordVars, status, applied>>

AccountRequest ==
  /\ AccountsNext
  /\ UNCHANGED <<recordVars, status, queueVars, handlerVars, applied, faults>>

--------------------------------------------------------------------------------

Quiescent ==
  /\ Q!Idle
  /\ creating = {}
  /\ \A c \in Clients : withdrawal[c] = NoWithdrawal

\* Nothing is under way: the only state in which the system may stop.
Rest == Quiescent /\ UNCHANGED vars

Next ==
  \/ AccountRequest
  \/ \E u \in Users, t \in Txns, f, g \in Accounts, x \in ConvertAmounts :
       ConvertFunds(u, t, f, g, x)
  \/ \E t \in Txns : EnqueueTransaction(t) \/ CreationAborted(t) \/ LockLost(t) \/ QueueTimers(t)
  \/ \E w \in Workers : HandlerStep(w) \/ Crash(w) \/ \E t \in Txns : StartJob(w, t)
  \/ Rest

Spec == Init /\ [][Next]_vars

\* A request that was let in goes on; workers take jobs and run their handlers; Bull's
\* timers fire.  No fault is ever due.
Fairness ==
  /\ \A w \in Workers : /\ WF_vars(UNCHANGED faults /\ HandlerStep(w))
                        /\ WF_vars(\E t \in Txns : StartJob(w, t))
  /\ \A t \in Txns : WF_vars(EnqueueTransaction(t)) /\ WF_vars(QueueTimers(t))

FairSpec == Spec /\ Fairness
================================================================================
