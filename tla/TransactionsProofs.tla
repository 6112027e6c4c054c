-------------------------- MODULE TransactionsProofs ---------------------------
(***************************************************************************)
(* Safety of TransactionsService for any accounts, workers, rows, rates,   *)
(* attempts and number of faults: a conversion reads Completed only when   *)
(* its transfer was made; a transfer is made once, and once more per fault;*)
(* and without faults the status of a row tells what happened, and every   *)
(* unfinished row has somebody to finish it.                               *)
(***************************************************************************)
EXTENDS TransfersProofs

--------------------------------------------------------------------------------
(* Completed means applied.  The status, or the job, is completed by a     *)
(* worker some steps behind its commit: that worker knows.                 *)

KnowsOfCommit(w) == pc[w] \in {"complete", "resolved"}

AppliedInv ==
  /\ CompletedMeansApplied
  /\ \A w \in Workers : KnowsOfCommit(w) => applied[job[w]] >= 1

\* Nothing is ever un-applied, and only a commit applies.
LEMMA AppliedGrows ==
  ASSUME TypedRuns, [Next]_vars
  PROVE  \A t \in Txns : applied'[t] \in Nat /\ applied'[t] >= applied[t]
<1>1. applied \in [Txns -> Nat]
  BY DEF TypedRuns, TypeOK
<1>2. ASSUME NEW w \in Workers, CommitTransfer(w)
      PROVE  \A t \in Txns : applied'[t] \in Nat /\ applied'[t] >= applied[t]
  BY <1>1, <1>2 DEF CommitTransfer
<1>3. CASE UNCHANGED applied
  BY <1>1, <1>3
<1>4. UNCHANGED applied \/ \E w \in Workers : CommitTransfer(w)
  BY DEF Next, Rest, vars, AccountRequest, ConvertFunds, EnqueueTransaction, CreationAborted,
         LockLost, QueueTimers, HandlerStep, Crash, StartJob, MarkProcessing, DebitFrom, CreditTo,
         TransferAborted, MarkCompleted, MarkFailed, JobDone
<1> QED
  BY <1>2, <1>3, <1>4

\* A status that becomes Completed is written by a worker behind its commit.
LEMMA CompletedByWorker ==
  ASSUME TypedRuns, [Next]_vars, NEW t \in Txns, status'[t] = "Completed"
  PROVE  \/ status[t] = "Completed"
         \/ \E w \in Workers : KnowsOfCommit(w) /\ job[w] = t
<1>1. status \in [Txns -> Statuses]
  BY DEF TypedRuns, TypeOK
<1>2. ASSUME NEW s \in Txns, NEW v \in Statuses \ {"Completed"},
             SetStatus(s, v) \/ StatusWriteFails(s, v)
      PROVE  status[t] = "Completed"
  BY <1>1, <1>2 DEF SetStatus, StatusWriteFails
<1>3. ASSUME NEW w \in Workers, MarkCompleted(w)
      PROVE  status[t] = "Completed" \/ (KnowsOfCommit(w) /\ job[w] = t)
  BY <1>1, <1>3 DEF MarkCompleted, SetStatus, StatusWriteFails, KnowsOfCommit, Q!Goto
<1>4. ASSUME NEW w \in Workers, MarkProcessing(w) \/ MarkFailed(w)
      PROVE  status[t] = "Completed"
  <2>1. job[w] \in Txns
    BY <1>4 DEF MarkProcessing, MarkFailed, Q!Goto, TypedRuns, RunsOK
  <2> QED
    BY <1>2, <1>4, <2>1 DEF MarkProcessing, MarkFailed, Statuses
<1>5. ASSUME NEW u \in Users, NEW s \in Txns, NEW f \in Accounts, NEW g \in Accounts,
             NEW x \in ConvertAmounts, ConvertFunds(u, s, f, g, x)
      PROVE  status[t] = "Completed"
  BY <1>2, <1>5 DEF ConvertFunds, Statuses
<1>6. CASE UNCHANGED status
  BY <1>6
<1>7. \/ UNCHANGED status
      \/ \E w \in Workers : MarkCompleted(w) \/ MarkProcessing(w) \/ MarkFailed(w)
      \/ \E u \in Users, s \in Txns, f, g \in Accounts, x \in ConvertAmounts :
           ConvertFunds(u, s, f, g, x)
  BY DEF Next, Rest, vars, AccountRequest, EnqueueTransaction, CreationAborted, LockLost,
         QueueTimers, HandlerStep, Crash, StartJob, DebitFrom, CreditTo, CommitTransfer,
         TransferAborted, JobDone
<1> QED
  BY <1>3, <1>4, <1>5, <1>6, <1>7

\* So is a job that becomes completed: the worker is about to report its return.
LEMMA JobCompletedByWorker ==
  ASSUME TypedRuns, [Next]_vars, NEW t \in Txns, jobState'[t] = "completed"
  PROVE  \/ jobState[t] = "completed"
         \/ \E w \in Workers : KnowsOfCommit(w) /\ job[w] = t
<1>1. jobState \in [Txns -> Q!JobStates]
  BY DEF TypedRuns, TypeOK, Q!QueueTypeOK
<1>2. ASSUME NEW w \in Workers, JobDone(w)
      PROVE  jobState[t] = "completed" \/ (KnowsOfCommit(w) /\ job[w] = t)
  BY <1>1, <1>2 DEF JobDone, Q!JobResolved, Q!JobRejected, Q!MoveToCompleted, Q!MoveToFailed,
                    Q!queueVars, KnowsOfCommit
<1>3. ASSUME NEW s \in Txns, LockLost(s) \/ QueueTimers(s) \/ EnqueueTransaction(s)
      PROVE  jobState[t] = "completed"
  BY <1>1, <1>3 DEF LockLost, QueueTimers, EnqueueTransaction, Q!LockLost, Q!Timers, Q!LockExpires,
                    Q!ExpireLock, Q!Promote, Q!MoveStalledJob, Q!Add
<1>4. ASSUME NEW w \in Workers, NEW s \in Txns, StartJob(w, s)
      PROVE  jobState[t] = "completed"
  BY <1>1, <1>4 DEF StartJob, Q!StartJob, Q!MoveToActive
<1>5. CASE UNCHANGED jobState
  BY <1>5
<1>6. \/ UNCHANGED jobState
      \/ \E w \in Workers : JobDone(w) \/ \E s \in Txns : StartJob(w, s)
      \/ \E s \in Txns : LockLost(s) \/ QueueTimers(s) \/ EnqueueTransaction(s)
  BY DEF Next, Rest, vars, queueVars, AccountRequest, ConvertFunds, CreationAborted, HandlerStep,
         Crash, Q!Die, MarkProcessing, DebitFrom, CreditTo, CommitTransfer, TransferAborted,
         MarkCompleted, MarkFailed
<1> QED
  BY <1>2, <1>3, <1>4, <1>5, <1>6

\* A worker gets behind a commit only by making it.
LEMMA CommitIsKnown ==
  ASSUME TypedRuns, [Next]_vars, NEW w \in Workers, KnowsOfCommit(w)'
  PROVE  \/ KnowsOfCommit(w) /\ job'[w] = job[w]
         \/ job[w] \in Txns /\ job'[w] = job[w] /\ applied'[job[w]] = applied[job[w]] + 1
<1>1. /\ pc \in [Workers -> HandlerStates] /\ job \in [Workers -> Txns \cup {NoTxn}]
      /\ applied \in [Txns -> Nat]
  BY DEF TypedRuns, TypeOK
<1>2. ASSUME NEW o \in Workers, CommitTransfer(o)
      PROVE  \/ KnowsOfCommit(w) /\ job'[w] = job[w]
             \/ job[w] \in Txns /\ job'[w] = job[w] /\ applied'[job[w]] = applied[job[w]] + 1
  <2>1. job' = job /\ pc[o] = "commit" /\ \A v \in Workers \ {o} : pc'[v] = pc[v]
    BY <1>1, <1>2 DEF CommitTransfer, Q!Goto
  <2>2. job[o] \in Txns
    BY <2>1 DEF TypedRuns, RunsOK
  <2>3. applied'[job[o]] = applied[job[o]] + 1
    BY <1>1, <1>2, <2>2 DEF CommitTransfer
  <2> QED
    BY <2>1, <2>2, <2>3 DEF KnowsOfCommit
<1>3. ASSUME NEW o \in Workers,
             \/ MarkProcessing(o) \/ DebitFrom(o) \/ CreditTo(o) \/ TransferAborted(o)
             \/ MarkCompleted(o) \/ MarkFailed(o)
      PROVE  KnowsOfCommit(w) /\ job'[w] = job[w]
  BY <1>1, <1>3 DEF MarkProcessing, DebitFrom, CreditTo, TransferAborted, MarkCompleted, MarkFailed,
                    Q!Goto, AfterCatch, KnowsOfCommit
<1>4. ASSUME NEW o \in Workers, JobDone(o) \/ Crash(o) \/ \E t \in Txns : StartJob(o, t)
      PROVE  KnowsOfCommit(w) /\ job'[w] = job[w]
  BY <1>1, <1>4 DEF JobDone, Crash, StartJob, Q!JobResolved, Q!JobRejected, Q!Die, Q!Release,
                    Q!StartJob, KnowsOfCommit
<1>5. CASE UNCHANGED <<pc, job>>
  BY <1>5 DEF KnowsOfCommit
<1>6. UNCHANGED <<pc, job>> \/ \E o \in Workers : HandlerStep(o) \/ Crash(o) \/ \E t \in Txns : StartJob(o, t)
  BY DEF Next, Rest, vars, handlerVars, AccountRequest, ConvertFunds, EnqueueTransaction,
         CreationAborted, LockLost, QueueTimers, Q!LockLost, Q!Timers, Q!LockExpires
<1> QED
  BY <1>2, <1>3, <1>4, <1>5, <1>6 DEF HandlerStep

LEMMA AppliedStep == TypedRuns /\ AppliedInv /\ [Next]_vars => AppliedInv'
<1> SUFFICES ASSUME TypedRuns, AppliedInv, [Next]_vars PROVE AppliedInv'
  OBVIOUS
<1>1. \A t \in Txns : applied[t] \in Nat /\ applied'[t] \in Nat /\ applied'[t] >= applied[t]
  BY AppliedGrows DEF TypedRuns, TypeOK
<1>2. \A w \in Workers : KnowsOfCommit(w) => job[w] \in Txns /\ applied[job[w]] >= 1
  BY DEF AppliedInv, KnowsOfCommit, TypedRuns, RunsOK
<1>3. ASSUME NEW t \in Txns, status'[t] = "Completed" \/ jobState'[t] = "completed"
      PROVE  applied'[t] >= 1
  <2>1. \/ status[t] = "Completed" \/ jobState[t] = "completed"
        \/ \E w \in Workers : KnowsOfCommit(w) /\ job[w] = t
    BY <1>3, CompletedByWorker, JobCompletedByWorker
  <2>2. applied[t] >= 1
    BY <1>2, <2>1 DEF AppliedInv, CompletedMeansApplied
  <2> QED
    BY <1>1, <2>2
<1>4. ASSUME NEW w \in Workers, KnowsOfCommit(w)'
      PROVE  applied'[job'[w]] >= 1
  <2>1. CASE KnowsOfCommit(w) /\ job'[w] = job[w]
    BY <1>1, <1>2, <2>1
  <2>2. CASE job[w] \in Txns /\ job'[w] = job[w] /\ applied'[job[w]] = applied[job[w]] + 1
    BY <1>1, <2>2
  <2> QED
    BY <1>4, <2>1, <2>2, CommitIsKnown
<1> QED
  BY <1>3, <1>4 DEF AppliedInv, CompletedMeansApplied

\* Whatever fails: a row that reads Completed, and a job that Bull completed, belong to a
\* transfer that processTransaction committed.
THEOREM CompletedIsApplied == Spec => []CompletedMeansApplied
<1>1. Init => AppliedInv
  BY DEF Init, AppliedInv, CompletedMeansApplied, KnowsOfCommit, Q!WorkersInit, Q!QueueInit
<1>2. AppliedInv => CompletedMeansApplied
  BY DEF AppliedInv
<1> QED
  BY <1>1, <1>2, AppliedStep, RunsTypedAlways, PTL DEF Spec

--------------------------------------------------------------------------------
(* How often a transfer is made.  The argument is a budget.  Against 1 + faults count  *)
(* the transfers made, the handlers that may still commit one though they have lost    *)
(* the lock of their job (strays), and one more for the handler that has the lock, or  *)
(* the next one to get it, unless the job is as good as done.                          *)

\* Where a handler has its commit before it, and behind it.
BeforeCommit == {"mark", "debit", "credit", "commit"}
BehindCommit == {"complete", "resolved"}

Strays(t) == {w \in Workers : job[w] = t /\ pc[w] \in BeforeCommit /\ lock[t] # w}

\* Without a fault nobody is going to start on the job of t again.
Done(t) == Q!Settled(t) \/ \E w \in Workers : lock[t] = w /\ job[w] = t /\ pc[w] \in BehindCommit

Chance(t) == IF Done(t) THEN 0 ELSE 1

WithinBudget(t) ==
  /\ IsFiniteSet(Strays(t))
  /\ applied[t] + Cardinality(Strays(t)) + Chance(t) <= 1 + faults

\* Only an active job is locked, so that a worker that takes a job takes nobody's lock.
BudgetInv == \A t \in Txns : (jobState[t] = "active" \/ lock[t] = NoWorker) /\ WithinBudget(t)

--------------------------------------------------------------------------------
(* The budget is kept. *)

\* Fewer strays, or a bigger budget.
LEMMA BudgetKept ==
  ASSUME TypedRuns, TypedRuns', NEW t \in Txns, WithinBudget(t), NEW w,
         \/ /\ Strays(t)' = Strays(t)
            /\ applied'[t] + Chance(t)' - applied[t] - Chance(t) <= faults' - faults
         \/ /\ Strays(t)' = Strays(t) \ {w}
            /\ LET freed == IF w \in Strays(t) THEN 1 ELSE 0
               IN  applied'[t] + Chance(t)' - applied[t] - Chance(t) <= faults' - faults + freed
         \/ /\ Strays(t)' = Strays(t) \cup {w}
            /\ applied'[t] + Chance(t)' - applied[t] - Chance(t) + 1 <= faults' - faults
  PROVE  WithinBudget(t)'
<1>1. /\ applied[t] \in Nat /\ applied'[t] \in Nat
      /\ faults \in Int /\ faults' \in Int
      /\ Chance(t) \in {0, 1} /\ Chance(t)' \in {0, 1}
  BY BoundsAssumption DEF TypedRuns, TypeOK, Chance
<1>2. IsFiniteSet(Strays(t)) /\ Cardinality(Strays(t)) \in Nat
  BY FS_CardinalityType DEF WithinBudget
<1>3. applied[t] + Cardinality(Strays(t)) + Chance(t) <= 1 + faults
  BY DEF WithinBudget
<1>4. CASE /\ Strays(t)' = Strays(t)
           /\ applied'[t] + Chance(t)' - applied[t] - Chance(t) <= faults' - faults
  <2>1. applied'[t] + Cardinality(Strays(t)) + Chance(t)' <= 1 + faults'
    BY <1>1, <1>2, <1>3, <1>4
  <2> QED
    BY <1>2, <1>4, <2>1 DEF WithinBudget
<1>5. CASE /\ Strays(t)' = Strays(t) \ {w}
           /\ applied'[t] + Chance(t)' - applied[t] - Chance(t)
                <= faults' - faults + (IF w \in Strays(t) THEN 1 ELSE 0)
  <2> DEFINE rest == Strays(t) \ {w}
  <2>1. /\ IsFiniteSet(rest)
        /\ Cardinality(rest) = IF w \in Strays(t) THEN Cardinality(Strays(t)) - 1
                                                  ELSE Cardinality(Strays(t))
    BY <1>2, FS_RemoveElement
  <2>2. applied'[t] + Cardinality(rest) + Chance(t)' <= 1 + faults'
    <3> HIDE DEF rest
    <3> QED
      BY <1>1, <1>2, <1>3, <1>5, <2>1
  <2> QED
    BY <1>5, <2>1, <2>2 DEF WithinBudget
<1>6. CASE /\ Strays(t)' = Strays(t) \cup {w}
           /\ applied'[t] + Chance(t)' - applied[t] - Chance(t) + 1 <= faults' - faults
  <2> DEFINE more == Strays(t) \cup {w}
  <2>1. /\ IsFiniteSet(more)
        /\ Cardinality(more) = IF w \in Strays(t) THEN Cardinality(Strays(t))
                                                  ELSE Cardinality(Strays(t)) + 1
    BY <1>2, FS_AddElement
  <2>2. applied'[t] + Cardinality(more) + Chance(t)' <= 1 + faults'
    <3> HIDE DEF more
    <3> QED
      BY <1>1, <1>2, <1>3, <1>6, <2>1
  <2> QED
    BY <1>6, <2>1, <2>2 DEF WithinBudget
<1> QED
  BY <1>4, <1>5, <1>6

\* A lock is somebody's only while the job is active, and then the job is not settled.
LEMMA LockedIsActive ==
  ASSUME TypedRuns, BudgetInv, NEW t \in Txns, NEW w \in Workers, lock[t] = w
  PROVE  jobState[t] = "active" /\ ~Q!Settled(t)
BY WorkersAssumption DEF BudgetInv, Q!Settled

\* What a step of the handler of w means for the budget of each conversion.
LEMMA HandlerGoes ==
  ASSUME TypedRuns, BudgetInv, NEW w \in Workers, NEW l \in HandlerStates \ {"idle"},
         NEW m \in HandlerStates \ {"idle"}, Q!Goto(w, l, m), UNCHANGED queueVars,
         NEW t \in Txns
  PROVE  /\ l \in BeforeCommit /\ m \in BeforeCommit => Strays(t)' = Strays(t)
         /\ m \notin BeforeCommit => Strays(t)' = Strays(t) \ {w}
         /\ t # job[w] \/ lock[t] # w \/ (l \in BehindCommit <=> m \in BehindCommit) => Chance(t)' = Chance(t)
         /\ t = job[w] /\ lock[t] = w /\ l \notin BehindCommit /\ m \in BehindCommit
               => Chance(t) = 1 /\ Chance(t)' = 0
         /\ Chance(t) \in {0, 1} /\ Chance(t)' \in {0, 1}
<1>1. /\ pc[w] = l /\ pc'[w] = m /\ \A o \in Workers \ {w} : pc'[o] = pc[o]
      /\ job' = job /\ lock' = lock /\ jobState' = jobState
  BY DEF Q!Goto, TypedRuns, TypeOK, queueVars
<1>2. l \in BeforeCommit /\ m \in BeforeCommit => Strays(t)' = Strays(t)
  BY <1>1 DEF Strays
<1>3. m \notin BeforeCommit => Strays(t)' = Strays(t) \ {w}
  BY <1>1 DEF Strays
<1>4. Q!Settled(t)' <=> Q!Settled(t)
  BY <1>1 DEF Q!Settled
<1>5. t # job[w] \/ lock[t] # w \/ (l \in BehindCommit <=> m \in BehindCommit) => (Done(t)' <=> Done(t))
  BY <1>1, <1>4 DEF Done
<1>6. t = job[w] /\ lock[t] = w /\ m \in BehindCommit => Done(t)'
  BY <1>1 DEF Done
<1>7. t = job[w] /\ lock[t] = w /\ l \notin BehindCommit => ~Done(t)
  BY <1>1, LockedIsActive DEF Done
<1> QED
  BY <1>2, <1>3, <1>5, <1>6, <1>7 DEF Chance

\* How the handler of w leaves its commit behind.
LEMMA HandlerLeaves ==
  ASSUME TypedRuns, BudgetInv, NEW w \in Workers, NEW l \in {"commit", "complete"},
         NEW m \in {"complete", "fail", "resolved"}, Q!Goto(w, l, m), UNCHANGED queueVars,
         NEW t \in Txns
  PROVE  Strays(t)' = Strays(t) \ {w} /\ Chance(t) \in {0, 1} /\ Chance(t)' \in {0, 1}
<1>1. /\ l \in HandlerStates \ {"idle"} /\ m \in HandlerStates \ {"idle"}
      /\ m \notin BeforeCommit
  BY DEF HandlerStates, BeforeCommit
<1> QED
  BY <1>1, HandlerGoes

\* The awaits of processTransaction.
LEMMA HandlerBudget ==
  ASSUME TypedRuns, TypedRuns', BudgetInv, NEW w \in Workers,
         \/ MarkProcessing(w) \/ DebitFrom(w) \/ CreditTo(w) \/ CommitTransfer(w)
         \/ TransferAborted(w) \/ MarkCompleted(w) \/ MarkFailed(w)
  PROVE  BudgetInv'
<1> DEFINE Steps == HandlerStates \ {"idle"}
<1>1. /\ UNCHANGED queueVars /\ lock' = lock /\ jobState' = jobState
  BY DEF MarkProcessing, DebitFrom, CreditTo, CommitTransfer, TransferAborted, MarkCompleted,
         MarkFailed, queueVars
<1>2. applied \in [Txns -> Nat] /\ faults \in Int
  BY BoundsAssumption DEF TypedRuns, TypeOK
<1>3. SUFFICES ASSUME NEW t \in Txns PROVE WithinBudget(t)'
  BY <1>1 DEF BudgetInv
<1>4. WithinBudget(t)
  BY DEF BudgetInv
<1>5. ASSUME NEW l \in BeforeCommit, NEW m \in BeforeCommit, Q!Goto(w, l, m),
             UNCHANGED <<applied, faults>>
      PROVE  WithinBudget(t)'
  <2>1. Strays(t)' = Strays(t) /\ Chance(t)' = Chance(t) /\ Chance(t) \in {0, 1}
    BY <1>1, <1>5, HandlerGoes DEF BeforeCommit, BehindCommit, HandlerStates
  <2> QED
    BY <1>2, <1>4, <1>5, <2>1, BudgetKept
<1>6. ASSUME NEW l \in BeforeCommit \cup {"fail"}, NEW m \in {"fail", "rejected"}, Q!Goto(w, l, m),
             UNCHANGED applied, faults' \in Int, faults' >= faults
      PROVE  WithinBudget(t)'
  <2>1. Strays(t)' = Strays(t) \ {w} /\ Chance(t)' = Chance(t) /\ Chance(t) \in {0, 1}
    BY <1>1, <1>6, HandlerGoes DEF BeforeCommit, BehindCommit, HandlerStates
  <2> QED
    BY <1>2, <1>4, <1>6, <2>1, BudgetKept
<1>7. CASE CommitTransfer(w)
  <2>1. pc[w] = "commit" /\ job[w] \in Txns
    BY <1>7 DEF CommitTransfer, Q!Goto, TypedRuns, RunsOK
  <2>2. applied'[t] = applied[t] + (IF t = job[w] THEN 1 ELSE 0)
    BY <1>2, <1>7, <2>1 DEF CommitTransfer
  <2>3. t = job[w] /\ lock[t] # w => w \in Strays(t)
    BY <2>1 DEF Strays, BeforeCommit
  <2>4. CASE Q!Goto(w, "commit", "complete") /\ UNCHANGED faults
    <3>1. /\ Strays(t)' = Strays(t) \ {w}
          /\ t # job[w] \/ lock[t] # w => Chance(t)' = Chance(t)
          /\ t = job[w] /\ lock[t] = w => Chance(t) = 1 /\ Chance(t)' = 0
          /\ Chance(t) \in {0, 1}
      BY <1>1, <2>4, HandlerGoes, SMTT(30) DEF BeforeCommit, BehindCommit, HandlerStates
    <3> QED
      BY <1>2, <1>4, <2>2, <2>3, <2>4, <3>1, BudgetKept
  <2>5. CASE Q!Goto(w, "commit", "fail") /\ Q!Fault
    <3>1. Strays(t)' = Strays(t) \ {w} /\ Chance(t)' = Chance(t) /\ Chance(t) \in {0, 1}
      BY <1>1, <2>5, HandlerGoes, SMTT(30) DEF BeforeCommit, BehindCommit, HandlerStates
    <3>2. faults' = faults + 1
      BY <2>5 DEF Q!Fault
    <3> QED
      BY <1>2, <1>4, <2>2, <3>1, <3>2, BudgetKept
  <2> QED
    BY <1>7, <2>4, <2>5 DEF CommitTransfer
<1>8. CASE MarkCompleted(w)
  <2>1. applied' = applied
    BY <1>8 DEF MarkCompleted
  <2>2. CASE Q!Goto(w, "complete", "resolved") /\ UNCHANGED faults
    <3>1. Strays(t)' = Strays(t) \ {w} /\ Chance(t)' = Chance(t) /\ Chance(t) \in {0, 1}
      BY <1>1, <2>2, HandlerGoes, SMTT(30) DEF BeforeCommit, BehindCommit, HandlerStates
    <3> QED
      BY <1>2, <1>4, <2>1, <2>2, <3>1, BudgetKept
  <2>3. CASE Q!Goto(w, "complete", "fail") /\ Q!Fault
    <3>1. Strays(t)' = Strays(t) \ {w} /\ Chance(t) \in {0, 1} /\ Chance(t)' \in {0, 1}
      BY <1>1, <2>3, HandlerLeaves
    <3>2. faults' = faults + 1
      BY <2>3 DEF Q!Fault
    <3> QED
      BY <1>2, <1>4, <2>1, <3>1, <3>2, BudgetKept
  <2> QED
    BY <1>8, <2>2, <2>3 DEF MarkCompleted, StatusWriteFails
<1>9. CASE MarkProcessing(w) \/ DebitFrom(w) \/ CreditTo(w) \/ TransferAborted(w) \/ MarkFailed(w)
  <2>1. UNCHANGED applied /\ (Q!Fault \/ UNCHANGED faults)
    BY <1>9 DEF MarkProcessing, DebitFrom, CreditTo, TransferAborted, MarkFailed, StatusWriteFails
  <2>2. faults' \in Int /\ faults' >= faults
    BY <1>2, <2>1 DEF Q!Fault
  <2>3. \/ UNCHANGED faults /\ \E l, m \in BeforeCommit : Q!Goto(w, l, m)
        \/ \E l \in BeforeCommit \cup {"fail"}, m \in {"fail", "rejected"} : Q!Goto(w, l, m)
    BY <1>9 DEF MarkProcessing, DebitFrom, CreditTo, TransferAborted, MarkFailed, AfterCatch,
                BeforeCommit
  <2> QED
    BY <1>5, <1>6, <2>1, <2>2, <2>3
<1> QED
  BY <1>7, <1>8, <1>9

\* A worker that takes a job takes it from nobody.
LEMMA StartBudget ==
  ASSUME TypedRuns, TypedRuns', BudgetInv, NEW w \in Workers, NEW s \in Txns, StartJob(w, s)
  PROVE  BudgetInv'
<1>1. /\ jobState[s] = "wait" /\ jobState' = [jobState EXCEPT ![s] = "active"]
      /\ lock' = [lock EXCEPT ![s] = w]
      /\ pc[w] = "idle" /\ pc' = [pc EXCEPT ![w] = "mark"] /\ job' = [job EXCEPT ![w] = s]
      /\ applied' = applied /\ faults' = faults
  BY DEF StartJob, Q!StartJob, Q!MoveToActive
<1>2. /\ pc \in [Workers -> HandlerStates] /\ job \in [Workers -> Txns \cup {NoTxn}]
      /\ lock \in [Txns -> Workers \cup {NoWorker}] /\ jobState \in [Txns -> Q!JobStates]
      /\ applied \in [Txns -> Nat] /\ faults \in Int /\ job[w] = NoTxn
  BY <1>1, BoundsAssumption DEF TypedRuns, TypeOK, RunsOK, Q!QueueTypeOK
<1>3. lock[s] = NoWorker
  BY <1>1 DEF BudgetInv
<1>4. SUFFICES ASSUME NEW t \in Txns
               PROVE  (jobState'[t] = "active" \/ lock'[t] = NoWorker) /\ WithinBudget(t)'
  BY DEF BudgetInv
<1>5. jobState'[t] = "active" \/ lock'[t] = NoWorker
  BY <1>1, <1>2 DEF BudgetInv
<1>6. Strays(t)' = Strays(t)
  BY <1>1, <1>2, <1>3, WorkersAssumption, TxnsAssumption DEF Strays, BeforeCommit
<1>7. Done(t)' <=> Done(t)
  <2>1. CASE t = s
    BY <1>1, <1>2, <1>3, <2>1, WorkersAssumption DEF Done, Q!Settled, BehindCommit
  <2>2. CASE t # s
    BY <1>1, <1>2, <2>2, TxnsAssumption DEF Done, Q!Settled, BehindCommit
  <2> QED
    BY <2>1, <2>2
<1>8. Chance(t)' = Chance(t) /\ Chance(t) \in {0, 1}
  BY <1>7 DEF Chance
<1> QED
  BY <1>1, <1>2, <1>5, <1>6, <1>8, BudgetKept DEF BudgetInv

\* A worker that is through with its job, or dies at it.
LEMMA EndBudget ==
  ASSUME TypedRuns, TypedRuns', BudgetInv, NEW w \in Workers, JobDone(w) \/ Crash(w)
  PROVE  BudgetInv'
<1> DEFINE s == job[w]
<1>1. /\ pc \in [Workers -> HandlerStates] /\ job \in [Workers -> Txns \cup {NoTxn}]
      /\ lock \in [Txns -> Workers \cup {NoWorker}] /\ jobState \in [Txns -> Q!JobStates]
      /\ applied \in [Txns -> Nat] /\ faults \in Int
  BY BoundsAssumption DEF TypedRuns, TypeOK, Q!QueueTypeOK
<1>2. /\ pc[w] # "idle" /\ pc' = [pc EXCEPT ![w] = "idle"] /\ job' = [job EXCEPT ![w] = NoTxn]
      /\ applied' = applied
  BY DEF JobDone, Crash, Q!JobResolved, Q!JobRejected, Q!Die, Q!Release
<1>3. s \in Txns
  BY <1>2 DEF TypedRuns, RunsOK
<1>4. SUFFICES ASSUME NEW t \in Txns
               PROVE  (jobState'[t] = "active" \/ lock'[t] = NoWorker) /\ WithinBudget(t)'
  BY DEF BudgetInv
<1>5. WithinBudget(t) /\ (jobState[t] = "active" \/ lock[t] = NoWorker)
  BY DEF BudgetInv
<1>6. CASE UNCHANGED <<jobState, lock>> /\ Crash(w)
  <2>1. Strays(t)' = Strays(t) \ {w}
    BY <1>1, <1>2, <1>6, TxnsAssumption DEF Strays, BeforeCommit
  <2>2. faults' = faults + 1
    BY <1>6 DEF Crash, Q!Die, Q!Fault
  <2>3. Chance(t) \in {0, 1} /\ Chance(t)' \in {0, 1}
    BY DEF Chance
  <2> QED
    BY <1>1, <1>2, <1>5, <1>6, <2>1, <2>2, <2>3, BudgetKept
<1>7. CASE UNCHANGED <<jobState, lock>> /\ lock[s] # w /\ JobDone(w)
  <2>1. Strays(t)' = Strays(t) \ {w}
    BY <1>1, <1>2, <1>7, TxnsAssumption DEF Strays, BeforeCommit
  <2>2. Done(t)' <=> Done(t)
    BY <1>1, <1>2, <1>7, TxnsAssumption DEF Done, Q!Settled, BehindCommit
  <2>3. Chance(t)' = Chance(t) /\ Chance(t) \in {0, 1}
    BY <2>2 DEF Chance
  <2>4. faults' = faults
    BY <1>7 DEF JobDone, Q!JobResolved, Q!JobRejected
  <2> QED
    BY <1>1, <1>2, <1>5, <1>7, <2>1, <2>3, <2>4, BudgetKept
<1>8. CASE /\ lock[s] = w /\ lock' = [lock EXCEPT ![s] = NoWorker]
           /\ \/ pc[w] = "resolved" /\ jobState' = [jobState EXCEPT ![s] = "completed"]
              \/ pc[w] = "rejected" /\ \E q \in {"delayed", "failed"} : jobState' = [jobState EXCEPT ![s] = q]
           /\ JobDone(w)
  <2>1. Strays(t)' = Strays(t) \ {w}
    BY <1>1, <1>2, <1>3, <1>8, TxnsAssumption, WorkersAssumption DEF Strays, BeforeCommit
  <2>2. Done(t) => Done(t)'
    <3>1. CASE t = s
      BY <1>1, <1>3, <1>8, <3>1, LockedIsActive DEF Done, Q!Settled, BehindCommit
    <3>2. CASE t # s
      BY <1>1, <1>2, <1>8, <3>2 DEF Done, Q!Settled, BehindCommit
    <3> QED
      BY <3>1, <3>2
  <2>3. Chance(t)' <= Chance(t) /\ Chance(t) \in {0, 1} /\ Chance(t)' \in {0, 1}
    BY <2>2 DEF Chance
  <2>4. faults' = faults
    BY <1>8 DEF JobDone, Q!JobResolved, Q!JobRejected
  <2>5. jobState'[t] = "active" \/ lock'[t] = NoWorker
    BY <1>1, <1>5, <1>8
  <2> QED
    BY <1>1, <1>2, <1>5, <1>8, <2>1, <2>3, <2>4, <2>5, BudgetKept
<1>9. \/ UNCHANGED <<jobState, lock>> /\ Crash(w)
      \/ UNCHANGED <<jobState, lock>> /\ lock[s] # w /\ JobDone(w)
      \/ /\ lock[s] = w /\ lock' = [lock EXCEPT ![s] = NoWorker]
         /\ \/ pc[w] = "resolved" /\ jobState' = [jobState EXCEPT ![s] = "completed"]
            \/ pc[w] = "rejected" /\ \E q \in {"delayed", "failed"} : jobState' = [jobState EXCEPT ![s] = q]
         /\ JobDone(w)
  BY DEF JobDone, Crash, Q!JobResolved, Q!JobRejected, Q!Die, Q!MoveToCompleted, Q!MoveToFailed,
         Q!queueVars
<1> QED
  BY <1>5, <1>6, <1>7, <1>8, <1>9

\* The queue's timers: a lost lock makes a stray of its worker, or undoes Done, never both.
LEMMA TimersBudget ==
  ASSUME TypedRuns, TypedRuns', BudgetInv, NEW s \in Txns, LockLost(s) \/ QueueTimers(s)
  PROVE  BudgetInv'
<1>1. /\ pc \in [Workers -> HandlerStates] /\ job \in [Workers -> Txns \cup {NoTxn}]
      /\ lock \in [Txns -> Workers \cup {NoWorker}] /\ jobState \in [Txns -> Q!JobStates]
      /\ applied \in [Txns -> Nat] /\ faults \in Int
  BY BoundsAssumption DEF TypedRuns, TypeOK, Q!QueueTypeOK
<1>2. UNCHANGED <<job, pc, applied>>
  BY DEF LockLost, QueueTimers, Q!LockLost, Q!Timers, Q!LockExpires
<1>3. SUFFICES ASSUME NEW t \in Txns
               PROVE  (jobState'[t] = "active" \/ lock'[t] = NoWorker) /\ WithinBudget(t)'
  BY DEF BudgetInv
<1>4. WithinBudget(t) /\ (jobState[t] = "active" \/ lock[t] = NoWorker)
  BY DEF BudgetInv
<1>5. Chance(t) \in {0, 1} /\ Chance(t)' \in {0, 1}
  BY DEF Chance
<1>6. CASE LockLost(s)
  <2>1. PICK w \in Workers : lock[s] = w /\ job[w] = s
    BY <1>6 DEF LockLost, Q!LockLost, Q!Held
  <2>2. /\ lock' = [lock EXCEPT ![s] = NoWorker] /\ jobState' = jobState /\ faults' = faults + 1
    BY <1>6 DEF LockLost, Q!LockLost, Q!ExpireLock, Q!Fault
  <2>3. CASE t = s /\ pc[w] \in BeforeCommit
    <3>1. Strays(t)' = Strays(t) \cup {w}
      BY <1>1, <1>2, <2>1, <2>2, <2>3, WorkersAssumption DEF Strays
    <3>2. ~Done(t)
      BY <2>1, <2>3, LockedIsActive DEF Done, BeforeCommit, BehindCommit
    <3>3. Chance(t)' <= Chance(t)
      BY <3>2 DEF Chance
    <3> QED
      BY <1>1, <1>2, <1>4, <1>5, <2>1, <2>2, <3>1, <3>3, BudgetKept
  <2>4. CASE t # s \/ pc[w] \notin BeforeCommit
    <3>1. Strays(t)' = Strays(t)
      BY <1>1, <1>2, <2>1, <2>2, <2>4, WorkersAssumption DEF Strays
    <3> QED
      BY <1>1, <1>2, <1>4, <1>5, <2>2, <3>1, BudgetKept
  <2>5. jobState'[t] = "active" \/ lock'[t] = NoWorker
    BY <1>1, <1>4, <2>2
  <2> QED
    BY <2>3, <2>4, <2>5
<1>7. CASE QueueTimers(s)
  <2>1. UNCHANGED faults
    BY <1>7 DEF QueueTimers, Q!Timers, Q!LockExpires
  <2>2. CASE Q!LockExpires(s)
    <3>1. /\ lock' = [lock EXCEPT ![s] = NoWorker] /\ jobState' = jobState
          /\ \A w \in Workers : lock[s] = w => job[w] # s
      BY <2>2 DEF Q!LockExpires, Q!ExpireLock, Q!Held
    <3>2. Strays(t)' = Strays(t)
      BY <1>1, <1>2, <3>1, WorkersAssumption DEF Strays
    <3>3. Done(t)' <=> Done(t)
      BY <1>1, <1>2, <3>1, WorkersAssumption DEF Done, Q!Settled
    <3>4. Chance(t)' = Chance(t)
      BY <3>3 DEF Chance
    <3> QED
      BY <1>1, <1>2, <1>4, <1>5, <2>1, <3>1, <3>2, <3>4, BudgetKept
  <2>3. CASE Q!Promote(s) \/ Q!MoveStalledJob(s)
    <3>1. lock' = lock /\ lock[s] = NoWorker
      BY <2>3 DEF Q!Promote, Q!MoveStalledJob, BudgetInv
    <3>2. /\ jobState[s] \in {"delayed", "active"}
          /\ \E q \in {"wait", "failed"} : jobState' = [jobState EXCEPT ![s] = q]
      BY <2>3 DEF Q!Promote, Q!MoveStalledJob
    <3>3. Strays(t)' = Strays(t)
      BY <1>2, <3>1 DEF Strays
    <3>4. Done(t) => Done(t)'
      BY <1>1, <1>2, <3>1, <3>2, WorkersAssumption DEF Done, Q!Settled
    <3>5. Chance(t)' <= Chance(t)
      BY <3>4 DEF Chance
    <3>6. jobState'[t] = "active" \/ lock'[t] = NoWorker
      BY <1>1, <1>4, <3>1, <3>2
    <3> QED
      BY <1>1, <1>2, <1>4, <1>5, <2>1, <3>3, <3>5, <3>6, BudgetKept
  <2> QED
    BY <1>7, <2>2, <2>3 DEF QueueTimers, Q!Timers
<1> QED
  BY <1>6, <1>7

\* A job that is added, and everything that leaves the queue and the workers alone.
LEMMA RequestBudget ==
  ASSUME TypedRuns, TypedRuns', BudgetInv, UNCHANGED <<lock, job, pc, applied>>,
         \/ UNCHANGED jobState /\ (UNCHANGED faults \/ Q!Fault)
         \/ UNCHANGED faults /\ \E s \in Txns : Q!Add(s)
  PROVE  BudgetInv'
<1>1. /\ applied \in [Txns -> Nat] /\ faults \in Int /\ jobState \in [Txns -> Q!JobStates]
  BY BoundsAssumption DEF TypedRuns, TypeOK, Q!QueueTypeOK
<1>2. faults' \in Int /\ faults' >= faults
  BY <1>1 DEF Q!Fault
<1>3. SUFFICES ASSUME NEW t \in Txns
               PROVE  (jobState'[t] = "active" \/ lock'[t] = NoWorker) /\ WithinBudget(t)'
  BY DEF BudgetInv
<1>4. WithinBudget(t) /\ (jobState[t] = "active" \/ lock[t] = NoWorker)
  BY DEF BudgetInv
<1>5. Strays(t)' = Strays(t)
  BY DEF Strays
<1>6. /\ Done(t)' <=> Done(t)
      /\ jobState'[t] = "active" \/ lock'[t] = NoWorker
  BY <1>1, <1>4 DEF Done, Q!Settled, Q!Add
<1>7. Chance(t)' = Chance(t) /\ Chance(t) \in {0, 1}
  BY <1>6 DEF Chance
<1> QED
  BY <1>1, <1>2, <1>4, <1>5, <1>6, <1>7, BudgetKept

LEMMA BudgetStep == TypedRuns /\ TypedRuns' /\ BudgetInv /\ [Next]_vars => BudgetInv'
<1> SUFFICES ASSUME TypedRuns, TypedRuns', BudgetInv, [Next]_vars PROVE BudgetInv'
  OBVIOUS
<1>1. ASSUME \/ AccountRequest \/ UNCHANGED vars
             \/ \E u \in Users, t \in Txns, f, g \in Accounts, x \in ConvertAmounts :
                  ConvertFunds(u, t, f, g, x)
             \/ \E t \in Txns : EnqueueTransaction(t) \/ CreationAborted(t)
      PROVE  BudgetInv'
  <2>1. UNCHANGED <<lock, job, pc, applied>>
    BY <1>1 DEF AccountRequest, vars, ConvertFunds, EnqueueTransaction, CreationAborted, Q!Add,
                queueVars, handlerVars
  <2>2. \/ UNCHANGED jobState /\ (UNCHANGED faults \/ Q!Fault)
        \/ UNCHANGED faults /\ \E s \in Txns : Q!Add(s)
    BY <1>1 DEF AccountRequest, vars, ConvertFunds, EnqueueTransaction, CreationAborted,
                queueVars, handlerVars
  <2> QED
    BY <2>1, <2>2, RequestBudget
<1>2. ASSUME NEW t \in Txns, LockLost(t) \/ QueueTimers(t)
      PROVE  BudgetInv'
  BY <1>2, TimersBudget
<1>3. ASSUME NEW w \in Workers, HandlerStep(w) \/ Crash(w) \/ \E t \in Txns : StartJob(w, t)
      PROVE  BudgetInv'
  BY <1>3, HandlerBudget, EndBudget, StartBudget DEF HandlerStep
<1> QED
  BY <1>1, <1>2, <1>3 DEF Next, Rest

LEMMA BudgetAlways == Spec => []BudgetInv
<1>1. Init => BudgetInv
  <2> SUFFICES ASSUME Init, NEW t \in Txns
               PROVE  (jobState[t] = "active" \/ lock[t] = NoWorker) /\ WithinBudget(t)
    BY DEF BudgetInv
  <2>1. /\ jobState[t] = "absent" /\ lock[t] = NoWorker /\ applied[t] = 0 /\ faults = 0
        /\ \A w \in Workers : pc[w] = "idle"
    BY DEF Init, Q!WorkersInit, Q!QueueInit
  <2>2. Strays(t) = {}
    BY <2>1 DEF Strays, BeforeCommit
  <2>3. IsFiniteSet(Strays(t)) /\ Cardinality(Strays(t)) = 0
    BY <2>2, FS_EmptySet
  <2>4. Chance(t) <= 1 /\ Chance(t) \in {0, 1}
    BY DEF Chance
  <2> QED
    BY <2>1, <2>3, <2>4 DEF WithinBudget
<1> QED
  BY <1>1, BudgetStep, RunsTypedAlways, PTL DEF Spec

\* A conversion is applied at most once, and once more per fault: neither the retries that
\* the attempts option allows nor the interleaving of any number of workers moves its money
\* again on their own.
THEOREM FaultsBoundDuplicates == Spec => []DuplicatesNeedFault
<1>1. TypedRuns /\ BudgetInv => DuplicatesNeedFault
  <2> SUFFICES ASSUME TypedRuns, BudgetInv, NEW t \in Txns PROVE applied[t] <= 1 + faults
    BY DEF DuplicatesNeedFault
  <2>1. IsFiniteSet(Strays(t)) /\ applied[t] + Cardinality(Strays(t)) + Chance(t) <= 1 + faults
    BY DEF BudgetInv, WithinBudget
  <2>2. /\ Cardinality(Strays(t)) \in Nat /\ Chance(t) \in {0, 1}
        /\ applied[t] \in Nat /\ faults \in Int
    BY <2>1, FS_CardinalityType, BoundsAssumption DEF Chance, TypedRuns, TypeOK
  <2> QED
    BY <2>1, <2>2
<1> QED
  BY <1>1, BudgetAlways, RunsTypedAlways, PTL

--------------------------------------------------------------------------------
(* The verdicts, as long as nothing has gone wrong.  Then the worker at a  *)
(* job has its lock, so that it is the only one, the job is active exactly *)
(* while it is at it, and where it rests tells what became of the transfer *)
(* and of the row; a job that nobody is at has made no transfer unless it  *)
(* is completed.                                                           *)

AtWork(w) ==
  /\ lock[job[w]] = w
  /\ applied[job[w]] = IF pc[w] \in BehindCommit THEN 1 ELSE 0
  /\ pc[w] = "resolved" => status[job[w]] = "Completed"
  /\ pc[w] = "rejected" => status[job[w]] = "Failed"

Told(t) ==
  /\ jobState[t] \in {"absent", "wait", "delayed"} => applied[t] = 0
  /\ jobState[t] = "active" => \E w \in Workers : job[w] = t
  /\ jobState[t] = "completed" => status[t] = "Completed" /\ applied[t] = 1
  /\ jobState[t] = "failed" => status[t] = "Failed" /\ applied[t] = 0
  /\ jobState[t] = "absent" /\ Recorded(t) => t \in creating

Smooth(t) == Told(t) /\ \A w \in Workers : job[w] = t => AtWork(w)

FaultlessInv == faults = 0 => \A t \in Txns : Smooth(t)

\* A fault is counted for good.
LEMMA FaultsCount ==
  ASSUME TypedRuns, faults' = 0, Q!Fault \/ UNCHANGED faults
  PROVE  faults = 0 /\ UNCHANGED faults /\ ~Q!Fault
<1>1. faults \in Int /\ faults >= 0
  BY BoundsAssumption DEF TypedRuns, TypeOK
<1> QED
  BY <1>1 DEF Q!Fault

\* Conversions that a step does not touch.
LEMMA SmoothElsewhere ==
  ASSUME NEW t \in Txns, Smooth(t),
         jobState'[t] = jobState[t], lock'[t] = lock[t], applied'[t] = applied[t],
         status'[t] = status[t], txn'[t] = txn[t], t \in creating' <=> t \in creating,
         \A w \in Workers : /\ job'[w] = t <=> job[w] = t
                            /\ job[w] = t => pc'[w] = pc[w]
  PROVE  Smooth(t)'
BY DEF Smooth, Told, AtWork, Recorded

\* Who works on t when w does, without a fault: nobody else.
LEMMA AloneAtWork ==
  ASSUME TypedRuns, BudgetInv, NEW w \in Workers, pc[w] # "idle", Smooth(job[w])
  PROVE  /\ job[w] \in Txns /\ AtWork(w) /\ jobState[job[w]] = "active"
         /\ \A o \in Workers \ {w} : job[o] # job[w]
<1>1. job[w] \in Txns
  BY DEF TypedRuns, RunsOK
<1>2. AtWork(w) /\ \A o \in Workers : job[o] = job[w] => lock[job[w]] = o
  BY <1>1 DEF Smooth, AtWork
<1> QED
  BY <1>1, <1>2, LockedIsActive DEF AtWork

\* The awaits of processTransaction.
LEMMA HandlerSmooth ==
  ASSUME TypedRuns, TypedRuns', BudgetInv, \A t \in Txns : Smooth(t), faults' = 0, NEW w \in Workers,
         \/ MarkProcessing(w) \/ DebitFrom(w) \/ CreditTo(w) \/ CommitTransfer(w)
         \/ TransferAborted(w) \/ MarkCompleted(w) \/ MarkFailed(w)
  PROVE  \A t \in Txns : Smooth(t)'
<1>1. /\ pc \in [Workers -> HandlerStates] /\ status \in [Txns -> Statuses]
      /\ applied \in [Txns -> Nat]
  BY DEF TypedRuns, TypeOK
<1>2. ~Q!Fault /\ UNCHANGED <<queueVars, txn, creating, job, jobState, lock>>
  BY FaultsCount
  DEF MarkProcessing, DebitFrom, CreditTo, CommitTransfer, TransferAborted, MarkCompleted,
         MarkFailed, StatusWriteFails, queueVars, recordVars, Q!Goto
<1>3. pc[w] # "idle" /\ \A o \in Workers \ {w} : pc'[o] = pc[o]
  BY <1>1 DEF MarkProcessing, DebitFrom, CreditTo, CommitTransfer, TransferAborted, MarkCompleted,
         MarkFailed, Q!Goto
<1>4. PICK t \in Txns : t = job[w]
  BY <1>3 DEF TypedRuns, RunsOK
<1>5. /\ AtWork(w) /\ jobState[t] = "active" /\ Told(t)
      /\ \A o \in Workers \ {w} : job[o] # t
  BY <1>3, <1>4, AloneAtWork DEF Smooth
<1>6. /\ \A s \in Txns \ {t} : applied'[s] = applied[s] /\ status'[s] = status[s]
      /\ pc'[w] \in HandlerStates
      /\ applied'[t] = IF pc'[w] \in BehindCommit THEN 1 ELSE 0
      /\ pc'[w] = "resolved" => status'[t] = "Completed"
      /\ pc'[w] = "rejected" => status'[t] = "Failed"
  <2>1. /\ applied[t] = IF pc[w] \in BehindCommit THEN 1 ELSE 0
        /\ \A l, m \in HandlerStates : Q!Goto(w, l, m) => pc[w] = l /\ pc'[w] = m
    BY <1>1, <1>4, <1>5 DEF AtWork, Q!Goto
  <2>2. CASE MarkProcessing(w)
    <3>1. Q!Goto(w, "mark", "debit") /\ SetStatus(t, "Processing") /\ UNCHANGED applied
      BY <1>2, <1>4, <2>2 DEF MarkProcessing, StatusWriteFails
    <3> QED
      BY <1>1, <1>5, <2>1, <3>1 DEF SetStatus, HandlerStates, BehindCommit
  <2>3. CASE DebitFrom(w)
    <3>1. \E m \in {"credit", "fail"} : Q!Goto(w, "debit", m)
      BY <2>3 DEF DebitFrom
    <3>2. UNCHANGED <<applied, status>>
      BY <2>3 DEF DebitFrom
    <3> QED
      BY <2>1, <3>1, <3>2 DEF HandlerStates, BehindCommit
  <2>4. CASE CreditTo(w)
    <3>1. Q!Goto(w, "credit", "commit") /\ UNCHANGED <<applied, status>>
      BY <2>4 DEF CreditTo
    <3> QED
      BY <2>1, <3>1 DEF HandlerStates, BehindCommit
  <2>5. CASE CommitTransfer(w)
    <3>1. /\ Q!Goto(w, "commit", "complete") /\ UNCHANGED status
          /\ applied' = [applied EXCEPT ![t] = @ + 1]
      BY <1>2, <1>4, <2>5 DEF CommitTransfer
    <3> QED
      BY <1>1, <1>5, <2>1, <3>1 DEF HandlerStates, BehindCommit
  <2>6. CASE TransferAborted(w)
    <3>1. Q!Goto(w, "credit", "fail")
      BY <1>2, <2>6 DEF TransferAborted
    <3>2. UNCHANGED <<applied, status>>
      BY <2>6 DEF TransferAborted
    <3> QED
      BY <2>1, <3>1, <3>2 DEF HandlerStates, BehindCommit
  <2>7. CASE MarkCompleted(w)
    <3>1. Q!Goto(w, "complete", "resolved") /\ SetStatus(t, "Completed") /\ UNCHANGED applied
      BY <1>2, <1>4, <2>7 DEF MarkCompleted, StatusWriteFails
    <3> QED
      BY <1>1, <1>5, <2>1, <3>1 DEF SetStatus, HandlerStates, BehindCommit
  <2>8. CASE MarkFailed(w)
    <3>1. Q!Goto(w, "fail", "rejected") /\ SetStatus(t, "Failed") /\ UNCHANGED applied
      BY <1>2, <1>4, <2>8 DEF MarkFailed, StatusWriteFails, AfterCatch
    <3> QED
      BY <1>1, <1>5, <2>1, <3>1 DEF SetStatus, HandlerStates, BehindCommit
  <2> QED
    BY <2>2, <2>3, <2>4, <2>5, <2>6, <2>7, <2>8
<1>7. ASSUME NEW s \in Txns \ {t} PROVE Smooth(s)'
  <2>1. \A o \in Workers : job[o] = s => pc'[o] = pc[o]
    BY <1>3, <1>4
  <2> QED
    BY <1>2, <1>6, <2>1, SmoothElsewhere
<1>8. Smooth(t)'
  <2>1. Told(t)'
    BY <1>2, <1>5 DEF Told
  <2>2. ASSUME NEW o \in Workers, job'[o] = t PROVE AtWork(o)'
    <3>1. o = w
      BY <1>2, <1>5, <2>2
    <3> QED
      BY <1>2, <1>4, <1>5, <1>6, <3>1 DEF AtWork
  <2> QED
    BY <2>1, <2>2 DEF Smooth
<1> QED
  BY <1>4, <1>7, <1>8

\* A worker that takes a job, or is through with it.
LEMMA WorkerSmooth ==
  ASSUME TypedRuns, TypedRuns', BudgetInv, \A t \in Txns : Smooth(t), faults' = 0, NEW w \in Workers,
         JobDone(w) \/ Crash(w) \/ \E t \in Txns : StartJob(w, t)
  PROVE  \A t \in Txns : Smooth(t)'
<1>1. /\ pc \in [Workers -> HandlerStates] /\ job \in [Workers -> Txns \cup {NoTxn}]
      /\ lock \in [Txns -> Workers \cup {NoWorker}] /\ jobState \in [Txns -> Q!JobStates]
      /\ NoTxn \notin Txns
  BY TxnsAssumption DEF TypedRuns, TypeOK, Q!QueueTypeOK
<1>2. ~Crash(w)
  BY FaultsCount DEF Crash, Q!Die
<1>3. UNCHANGED <<txn, creating, status, applied>>
  BY <1>2 DEF JobDone, StartJob, recordVars
<1>4. ASSUME NEW t \in Txns, StartJob(w, t) PROVE \A s \in Txns : Smooth(s)'
  <2>1. /\ jobState[t] = "wait" /\ jobState' = [jobState EXCEPT ![t] = "active"]
        /\ lock' = [lock EXCEPT ![t] = w]
        /\ pc[w] = "idle" /\ pc' = [pc EXCEPT ![w] = "mark"] /\ job' = [job EXCEPT ![w] = t]
    BY <1>4 DEF StartJob, Q!StartJob, Q!MoveToActive
  <2>2. job[w] = NoTxn
    BY <2>1 DEF TypedRuns, RunsOK
  <2>3. ASSUME NEW s \in Txns \ {t} PROVE Smooth(s)'
    <3>1. \A o \in Workers : (job'[o] = s <=> job[o] = s) /\ (job[o] = s => pc'[o] = pc[o])
      BY <1>1, <2>1, <2>2
    <3> QED
      BY <1>1, <1>3, <2>1, <3>1, SmoothElsewhere
  <2>4. \A o \in Workers : job[o] # t
    <3> SUFFICES ASSUME NEW o \in Workers, job[o] = t PROVE FALSE
      OBVIOUS
    <3>1. pc[o] # "idle"
      BY <1>1 DEF TypedRuns, RunsOK
    <3> QED
      BY <2>1, <3>1, AloneAtWork
  <2>5. applied[t] = 0
    BY <2>1 DEF Smooth, Told
  <2>6. AtWork(w)' /\ job'[w] = t /\ \A o \in Workers : job'[o] = t => o = w
    BY <1>1, <1>3, <2>1, <2>4, <2>5 DEF AtWork, BehindCommit
  <2>7. Told(t)'
    BY <1>1, <2>1, <2>6 DEF Told
  <2> QED
    BY <2>3, <2>6, <2>7 DEF Smooth
<1>5. CASE JobDone(w)
  <2>1. /\ pc[w] \in {"resolved", "rejected"}
        /\ pc' = [pc EXCEPT ![w] = "idle"] /\ job' = [job EXCEPT ![w] = NoTxn]
    BY <1>5 DEF JobDone, Q!JobResolved, Q!JobRejected, Q!Release
  <2>2. PICK t \in Txns : t = job[w]
    BY <2>1 DEF TypedRuns, RunsOK
  <2>3. AtWork(w) /\ \A o \in Workers \ {w} : job[o] # t
    BY <2>1, <2>2, AloneAtWork
  <2>4. /\ lock' = [lock EXCEPT ![t] = NoWorker]
        /\ \/ pc[w] = "resolved" /\ jobState' = [jobState EXCEPT ![t] = "completed"]
           \/ pc[w] = "rejected" /\ \E q \in {"delayed", "failed"} : jobState' = [jobState EXCEPT ![t] = q]
    BY <1>5, <2>2, <2>3
    DEF JobDone, Q!JobResolved, Q!JobRejected, Q!MoveToCompleted, Q!MoveToFailed, AtWork
  <2>5. /\ pc[w] = "resolved" => applied[t] = 1 /\ status[t] = "Completed"
        /\ pc[w] = "rejected" => applied[t] = 0 /\ status[t] = "Failed"
    BY <2>2, <2>3 DEF AtWork, BehindCommit
  <2>6. ASSUME NEW s \in Txns \ {t} PROVE Smooth(s)'
    <3>1. \A o \in Workers : (job'[o] = s <=> job[o] = s) /\ (job[o] = s => pc'[o] = pc[o])
      BY <1>1, <2>1, <2>2
    <3> QED
      BY <1>1, <1>3, <2>3, <2>4, <3>1, SmoothElsewhere
  <2>7. Told(t)'
    BY <1>1, <1>3, <2>3, <2>4, <2>5 DEF Told
  <2>8. \A o \in Workers : job'[o] # t
    BY <1>1, <2>1, <2>2, <2>3
  <2> QED
    BY <2>6, <2>7, <2>8 DEF Smooth
<1> QED
  BY <1>2, <1>4, <1>5

\* The queue's timers find no stalled job.
LEMMA TimersSmooth ==
  ASSUME TypedRuns, BudgetInv, \A t \in Txns : Smooth(t), faults' = 0, NEW t \in Txns,
         LockLost(t) \/ QueueTimers(t)
  PROVE  \A s \in Txns : Smooth(s)'
<1>1. ~LockLost(t)
  BY FaultsCount DEF LockLost, Q!LockLost
<1>2. UNCHANGED <<txn, creating, status, applied, job, pc>>
  BY <1>1 DEF QueueTimers, Q!Timers, Q!LockExpires, recordVars
<1>3. jobState[t] = "active" => \E w \in Workers : lock[t] = w /\ job[w] = t
  BY DEF Smooth, Told, AtWork
<1>4. Q!Promote(t)
  BY <1>1, <1>3, WorkersAssumption
     DEF QueueTimers, Q!Timers, Q!LockExpires, Q!ExpireLock, Q!MoveStalledJob, Q!Held
<1>5. /\ jobState[t] = "delayed" /\ jobState' = [jobState EXCEPT ![t] = "wait"]
      /\ lock' = lock
  BY <1>4 DEF Q!Promote
<1>6. jobState \in [Txns -> Q!JobStates]
  BY DEF TypedRuns, TypeOK, Q!QueueTypeOK
<1>7. ASSUME NEW s \in Txns \ {t} PROVE Smooth(s)'
  BY <1>2, <1>5, <1>6, SmoothElsewhere
<1>8. Told(t)'
  BY <1>2, <1>5, <1>6 DEF Smooth, Told
<1>9. ASSUME NEW w \in Workers, job'[w] = t PROVE AtWork(w)'
  BY <1>2, <1>5, <1>9 DEF Smooth, AtWork
<1> QED
  BY <1>7, <1>8, <1>9 DEF Smooth

\* A conversion that is recorded, and one whose job is added.
LEMMA RequestSmooth ==
  ASSUME TypedRuns, BudgetInv, \A t \in Txns : Smooth(t), faults' = 0, NEW t \in Txns,
         \/ EnqueueTransaction(t) \/ CreationAborted(t)
         \/ \E u \in Users, f, g \in Accounts, x \in ConvertAmounts : ConvertFunds(u, t, f, g, x)
  PROVE  \A s \in Txns : Smooth(s)'
<1>1. ~CreationAborted(t)
  BY FaultsCount DEF CreationAborted
<1>2. /\ UNCHANGED <<lock, applied, job, pc>>
      /\ \A s \in Txns \ {t} : s \in creating' <=> s \in creating
  BY <1>1 DEF EnqueueTransaction, ConvertFunds, Q!Add, queueVars, handlerVars
<1>3. /\ jobState[t] = "absent"
      /\ \A s \in Txns \ {t} : jobState'[s] = jobState[s] /\ status'[s] = status[s] /\ txn'[s] = txn[s]
      /\ \/ jobState'[t] = "absent" /\ t \in creating'
         \/ jobState'[t] = "wait"
  <2>1. /\ jobState \in [Txns -> Q!JobStates] /\ status \in [Txns -> Statuses]
        /\ txn \in [Txns -> Conversions \cup {NoTxn}]
    BY DEF TypedRuns, TypeOK, Q!QueueTypeOK
  <2>2. CASE EnqueueTransaction(t)
    <3>1. /\ jobState[t] = "absent" /\ jobState' = [jobState EXCEPT ![t] = "wait"]
          /\ UNCHANGED <<status, txn>>
      BY <2>2 DEF EnqueueTransaction, Q!Add
    <3> QED
      BY <2>1, <3>1
  <2>3. ASSUME NEW u \in Users, NEW f \in Accounts, NEW g \in Accounts, NEW x \in ConvertAmounts,
               ConvertFunds(u, t, f, g, x)
        PROVE  /\ jobState[t] = "absent"
               /\ \A s \in Txns \ {t} : jobState'[s] = jobState[s] /\ status'[s] = status[s] /\ txn'[s] = txn[s]
               /\ jobState'[t] = "absent" /\ t \in creating'
    <3>1. txn[t] = NoTxn /\ jobState' = jobState /\ t \in creating'
      BY <2>3 DEF ConvertFunds, queueVars
    <3>2. jobState[t] = "absent"
      BY <3>1 DEF TypedRuns, RunsOK
    <3>3. \A s \in Txns \ {t} : txn'[s] = txn[s] /\ status'[s] = status[s]
      BY <2>1, <2>3 DEF ConvertFunds, SetStatus
    <3> QED
      BY <3>1, <3>2, <3>3
  <2> QED
    BY <1>1, <2>2, <2>3
<1>4. ASSUME NEW s \in Txns \ {t} PROVE Smooth(s)'
  BY <1>2, <1>3, SmoothElsewhere
<1>5. \A w \in Workers : job[w] # t
  BY <1>3, TxnsAssumption DEF TypedRuns, RunsOK
<1>6. Told(t)'
  BY <1>2, <1>3 DEF Smooth, Told
<1> QED
  BY <1>2, <1>4, <1>5, <1>6 DEF Smooth

LEMMA FaultlessStep == TypedRuns /\ TypedRuns' /\ BudgetInv /\ FaultlessInv /\ [Next]_vars => FaultlessInv'
<1> SUFFICES ASSUME TypedRuns, TypedRuns', BudgetInv, FaultlessInv, [Next]_vars, faults' = 0
             PROVE  \A t \in Txns : Smooth(t)'
  BY DEF FaultlessInv
<1>1. Q!Fault \/ UNCHANGED faults
  BY DEF Next, Rest, vars, AccountRequest, ConvertFunds, EnqueueTransaction, CreationAborted,
         LockLost, QueueTimers, HandlerStep, Crash, StartJob, MarkProcessing, DebitFrom, CreditTo,
         CommitTransfer, TransferAborted, MarkCompleted, MarkFailed, StatusWriteFails, JobDone,
         Q!LockLost, Q!Timers, Q!LockExpires, Q!StartJob, Q!JobResolved, Q!JobRejected, Q!Die
<1>2. \A t \in Txns : Smooth(t)
  BY <1>1, FaultsCount DEF FaultlessInv
<1>3. CASE AccountRequest \/ UNCHANGED vars
  <2>1. UNCHANGED <<jobState, lock, applied, status, txn, creating, job, pc>>
    BY <1>3 DEF AccountRequest, vars, recordVars, queueVars, handlerVars
  <2> QED
    BY <1>2, <2>1, SmoothElsewhere
<1>4. ASSUME NEW t \in Txns,
             \/ EnqueueTransaction(t) \/ CreationAborted(t)
             \/ \E u \in Users, f, g \in Accounts, x \in ConvertAmounts : ConvertFunds(u, t, f, g, x)
      PROVE  \A s \in Txns : Smooth(s)'
  BY <1>2, <1>4, RequestSmooth
<1>5. ASSUME NEW t \in Txns, LockLost(t) \/ QueueTimers(t)
      PROVE  \A s \in Txns : Smooth(s)'
  BY <1>2, <1>5, TimersSmooth
<1>6. ASSUME NEW w \in Workers, HandlerStep(w) \/ Crash(w) \/ \E t \in Txns : StartJob(w, t)
      PROVE  \A s \in Txns : Smooth(s)'
  BY <1>2, <1>6, HandlerSmooth, WorkerSmooth DEF HandlerStep
<1> QED
  BY <1>3, <1>4, <1>5, <1>6 DEF Next, Rest

LEMMA FaultlessAlways == Spec => []FaultlessInv
<1>1. Init => FaultlessInv
  <2> SUFFICES ASSUME Init, NEW t \in Txns PROVE Smooth(t)
    BY DEF FaultlessInv
  <2>1. /\ jobState[t] = "absent" /\ applied[t] = 0 /\ txn[t] = NoTxn
        /\ \A w \in Workers : job[w] # t
    BY TxnsAssumption DEF Init, Q!WorkersInit, Q!QueueInit
  <2> QED
    BY <2>1 DEF Smooth, Told, Recorded
<1> QED
  BY <1>1, FaultlessStep, BudgetAlways, RunsTypedAlways, PTL DEF Spec

\* Without faults a settled job and its row tell the truth, whatever the interleaving of
\* workers, retries of refused transfers and broken deadlocks.
THEOREM VerdictsAreTrue == Spec => []SettledVerdict
<1>1. TypedRuns /\ FaultlessInv => SettledVerdict
  BY DEF FaultlessInv, SettledVerdict, Smooth, Told, Q!Settled
<1> QED
  BY <1>1, FaultlessAlways, RunsTypedAlways, PTL

\* Without faults a row that is not settled has a request or a job that will settle it.
THEOREM RowsHaveOwners == Spec => []UnfinishedHasOwner
<1>1. TypedRuns /\ FaultlessInv => UnfinishedHasOwner
  <2> SUFFICES ASSUME TypedRuns, \A t \in Txns : Smooth(t), NEW t \in Txns, Recorded(t), ~Final(t)
               PROVE  t \in creating \/ jobState[t] \in {"wait", "active", "delayed"}
    BY DEF UnfinishedHasOwner, FaultlessInv
  <2>1. jobState[t] \in Q!JobStates
    BY DEF TypedRuns, TypeOK, Q!QueueTypeOK
  <2> QED
    BY <2>1 DEF Smooth, Told, Final, Q!JobStates
<1> QED
  BY <1>1, FaultlessAlways, RunsTypedAlways, PTL
================================================================================
