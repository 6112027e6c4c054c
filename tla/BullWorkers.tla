------------------------------ MODULE BullWorkers ------------------------------
(***************************************************************************)
(* The processes that run the @Process handler of one Bull queue.  How     *)
(* Bull drives a handler is external; what the handler does is the         *)
(* service's, which gives pc its values between FirstStep and the two ways *)
(* a handler ends, "resolved" and "rejected".                              *)
(*                                                                         *)
(* A worker is one slot for a job.  A process has as many for a queue as   *)
(* the concurrencies of its @Process handlers add up to: one for the       *)
(* accounts and the transactions, six for the mails.  What goes wrong is   *)
(* counted: a worker that dies, with its process, a call that fails, and a *)
(* lock lost by a worker that is still at its job, which Bull's docs call  *)
(* a double-processed job.                                                 *)
(***************************************************************************)
EXTENDS BullQueue

CONSTANTS
  NoJob,        \* an idle worker's job
  FirstStep,    \* where a handler starts
  MaxFaults     \* bound: faults of a behaviour

VARIABLES
  job,          \* the job each worker handles
  pc,           \* where its handler rests
  faults        \* history: how much went wrong so far

WorkersInit ==
  /\ QueueInit
  /\ job = [w \in Workers |-> NoJob]
  /\ pc = [w \in Workers |-> "idle"]
  /\ faults = 0

Fault == faults < MaxFaults /\ faults' = faults + 1

\* The handler of w, resting at l, goes on to rest at m.
Goto(w, l, m) ==
  /\ pc[w] = l
  /\ pc' = [pc EXCEPT ![w] = m]
  /\ UNCHANGED job

Release(w) ==
  /\ job' = [job EXCEPT ![w] = NoJob]
  /\ pc' = [pc EXCEPT ![w] = "idle"]

StartJob(w, j) ==
  /\ pc[w] = "idle"
  /\ MoveToActive(w, j)
  /\ job' = [job EXCEPT ![w] = j]
  /\ pc' = [pc EXCEPT ![w] = FirstStep]
  /\ UNCHANGED faults

JobResolved(w) ==
  /\ pc[w] = "resolved"
  /\ MoveToCompleted(w, job[w])
  /\ Release(w)
  /\ UNCHANGED faults

JobRejected(w) ==
  /\ pc[w] = "rejected"
  /\ MoveToFailed(w, job[w])
  /\ Release(w)
  /\ UNCHANGED faults

\* The process dies and comes back; the job keeps its lock until that runs out.
Die(w) ==
  /\ pc[w] # "idle"
  /\ Fault
  /\ Release(w)
  /\ UNCHANGED <<jobState, lock, attemptsMade, stalledCounter>>

\* The worker that the lock names is at the job.
Held(j) == \E w \in Workers : lock[j] = w /\ job[w] = j

LockExpires(j) == ~Held(j) /\ ExpireLock(j) /\ UNCHANGED <<job, pc, faults>>

LockLost(j) == Held(j) /\ Fault /\ ExpireLock(j) /\ UNCHANGED <<job, pc>>

\* What Bull's timers do to job j.
Timers(j) ==
  \/ LockExpires(j)
  \/ (Promote(j) \/ MoveStalledJob(j)) /\ UNCHANGED <<job, pc, faults>>

Idle ==
  /\ \A j \in Jobs : jobState[j] = "absent" \/ Settled(j)
  /\ \A w \in Workers : pc[w] = "idle"
================================================================================
