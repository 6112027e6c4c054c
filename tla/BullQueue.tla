------------------------------- MODULE BullQueue -------------------------------
(***************************************************************************)
(* One named Bull queue, as the services use it: Queue.add on one side, a  *)
(* @Process handler on the other.  Bull is a library, so this module is    *)
(* external; it fixes only what the services rely on:                      *)
(*                                                                         *)
(*   - delivery is at least once: a worker owns a job through a lock that  *)
(*     it must keep renewing, and a job whose lock is gone is handed out   *)
(*     again, at most MaxStalledCount times;                               *)
(*   - a handler that throws costs an attempt; the job is delayed (the     *)
(*     backoff) and retried until "attempts" of them are spent;            *)
(*   - finishing a job needs its lock: a worker that lost it changes       *)
(*     nothing.                                                            *)
(*                                                                         *)
(* The order of the waiting list is abstracted: any waiting job may be     *)
(* taken.  "completed" also stands for a job deleted by removeOnComplete.  *)
(***************************************************************************)
EXTENDS Naturals

CONSTANTS
  Jobs,             \* the jobs that may be added
  Workers,          \* the processes that run the queue's handler
  NoWorker,         \* the owner of an unlocked job
  Attempts,         \* the job option "attempts": how often a job is tried
  MaxStalledCount   \* how often a stalled job is handed out again

VARIABLES
  jobState,         \* where each job is
  lock,             \* the worker whose lock token the job carries
  attemptsMade,     \* the failed tries of each job
  stalledCounter    \* how often each job was found without a lock

queueVars == <<jobState, lock, attemptsMade, stalledCounter>>

JobStates == {"absent", "wait", "active", "delayed", "completed", "failed"}

QueueTypeOK ==
  /\ jobState \in [Jobs -> JobStates]
  /\ lock \in [Jobs -> Workers \cup {NoWorker}]
  /\ attemptsMade \in [Jobs -> Nat]
  /\ stalledCounter \in [Jobs -> Nat]

QueueInit ==
  /\ jobState = [j \in Jobs |-> "absent"]
  /\ lock = [j \in Jobs |-> NoWorker]
  /\ attemptsMade = [j \in Jobs |-> 0]
  /\ stalledCounter = [j \in Jobs |-> 0]

Settled(j) == jobState[j] \in {"completed", "failed"}

Add(j) ==
  /\ jobState[j] = "absent"
  /\ jobState' = [jobState EXCEPT ![j] = "wait"]
  /\ UNCHANGED <<lock, attemptsMade, stalledCounter>>

\* Mutant: the worker takes the job without locking it.
MoveWithoutLock(w, j) ==
  /\ jobState[j] = "wait"
  /\ jobState' = [jobState EXCEPT ![j] = "active"]
  /\ UNCHANGED <<lock, attemptsMade, stalledCounter>>

MoveToActive(w, j) ==
  /\ jobState[j] = "wait"
  /\ jobState' = [jobState EXCEPT ![j] = "active"]
  /\ lock' = [lock EXCEPT ![j] = w]
  /\ UNCHANGED <<attemptsMade, stalledCounter>>

\* The backoff of a delayed job has run out.
Promote(j) ==
  /\ jobState[j] = "delayed"
  /\ jobState' = [jobState EXCEPT ![j] = "wait"]
  /\ UNCHANGED <<lock, attemptsMade, stalledCounter>>

\* The handler of w returned.  Without the lock Bull refuses the move.
MoveToCompleted(w, j) ==
  \/ /\ lock[j] = w
     /\ jobState' = [jobState EXCEPT ![j] = "completed"]
     /\ lock' = [lock EXCEPT ![j] = NoWorker]
     /\ UNCHANGED <<attemptsMade, stalledCounter>>
  \/ /\ lock[j] # w
     /\ UNCHANGED queueVars

\* The handler of w threw: one attempt is spent, the job is retried if one is left.
MoveToFailed(w, j) ==
  \/ /\ lock[j] = w
     /\ attemptsMade' = [attemptsMade EXCEPT ![j] = @ + 1]
     /\ jobState' = [jobState EXCEPT
                       ![j] = IF attemptsMade[j] + 1 < Attempts THEN "delayed" ELSE "failed"]
     /\ lock' = [lock EXCEPT ![j] = NoWorker]
     /\ UNCHANGED stalledCounter
  \/ /\ lock[j] # w
     /\ UNCHANGED queueVars

\* The lock of an active job is not renewed any more: its worker died, was blocked
\* for longer than the lock lasts, or could not reach Redis.
ExpireLock(j) ==
  /\ jobState[j] = "active"
  /\ lock[j] \in Workers
  /\ lock' = [lock EXCEPT ![j] = NoWorker]
  /\ UNCHANGED <<jobState, attemptsMade, stalledCounter>>

\* The periodic check finds an active job without a lock.
MoveStalledJob(j) ==
  /\ jobState[j] = "active"
  /\ lock[j] = NoWorker
  /\ stalledCounter' = [stalledCounter EXCEPT ![j] = @ + 1]
  /\ jobState' = [jobState EXCEPT
                    ![j] = IF stalledCounter[j] + 1 > MaxStalledCount THEN "failed" ELSE "wait"]
  /\ UNCHANGED <<lock, attemptsMade>>
================================================================================
