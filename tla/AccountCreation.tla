----------------------------- MODULE AccountCreation -----------------------------
(***************************************************************************)
(* How a user gets accounts: AuthService.signup creates the user row and,  *)
(* as its last step, puts a job on the "accounts" queue; AccountsProcessor *)
(* runs AccountsService.createAccountsForUser, which looks for accounts    *)
(* and inserts one per currency if it sees none.                           *)
(*                                                                         *)
(* The lookup and the insert share an interactive $transaction, which at   *)
(* READ COMMITTED protects neither from another session: no row is locked  *)
(* by a lookup that finds none, and the Account table has no unique        *)
(* constraint on its owner.  So they are two steps, and the commit is the  *)
(* end of the second.                                                      *)
(*                                                                         *)
(* A user is known by the email, which is unique in the User table.        *)
(***************************************************************************)
EXTENDS Naturals, FiniteSets

CONSTANTS
  Emails,            \* emails people sign up with
  NoEmail,           \* no request, no job
  Clients,           \* signup requests
  Workers, NoWorker, Attempts, MaxStalledCount, MaxFaults   \* see BullWorkers

VARIABLES
  step,              \* the await at which each request rests
  email,             \* the email it was made with
  users,             \* the User table
  profiles,          \* the UserProfile table
  accounts,          \* Account table: how many times each user was given a set
  jobState, lock, attemptsMade, stalledCounter,   \* the "accounts" queue
  job, pc, faults,   \* its workers
  lostLocks          \* history: the faults that were lost locks

Q == INSTANCE BullWorkers WITH Jobs <- Emails, NoJob <- NoEmail, FirstStep <- "find"

requestVars == <<step, email>>
queueVars == <<jobState, lock, attemptsMade, stalledCounter>>
handlerVars == <<job, pc>>
vars == <<requestVars, users, profiles, accounts, queueVars, handlerVars, faults, lostLocks>>

ASSUME CreationAssumption ==
  /\ NoWorker \notin Workers
  /\ NoEmail \notin Emails
  /\ {Attempts, MaxStalledCount, MaxFaults} \subseteq Nat

\* What signup still has to do, in this order, once the user row is there.
AfterCreate == {"profile", "confirm", "signIn", "enqueue"}
SignupSteps == {"none", "create", "refused", "aborted", "done"} \cup AfterCreate
HandlerStates == {"idle", "find", "insert", "resolved", "rejected"}

TypeOK ==
  /\ step \in [Clients -> SignupSteps]
  /\ email \in [Clients -> Emails \cup {NoEmail}]
  /\ users \subseteq Emails /\ profiles \subseteq users
  /\ accounts \in [Emails -> Nat]
  /\ Q!QueueTypeOK
  /\ job \in [Workers -> Emails \cup {NoEmail}]
  /\ pc \in [Workers -> HandlerStates]
  /\ faults \in 0..MaxFaults /\ lostLocks \in 0..faults

Init ==
  /\ step = [c \in Clients |-> "none"]
  /\ email = [c \in Clients |-> NoEmail]
  /\ users = {} /\ profiles = {}
  /\ accounts = [e \in Emails |-> 0]
  /\ Q!WorkersInit
  /\ lostLocks = 0

--------------------------------------------------------------------------------

\* The signup of c, resting at l, goes on to rest at m.
SignupGoes(c, l, m) ==
  /\ step[c] = l
  /\ step' = [step EXCEPT ![c] = m]

\* The validator UserEmailNotExists on the email of SignupDto.
EmailFree(e) == e \notin users

SubmitSignup(c, e) ==
  /\ EmailFree(e)
  /\ SignupGoes(c, "none", "create")
  /\ email' = [email EXCEPT ![c] = e]
  /\ UNCHANGED <<users, profiles, accounts, queueVars, handlerVars, faults, lostLocks>>

\* Mutants: the table has no unique index on the email; a failed insert goes unnoticed.
CreateUserTwice(c) ==
  /\ SignupGoes(c, "create", "profile")
  /\ users' = users \cup {email[c]}
  /\ UNCHANGED <<email, profiles, accounts, queueVars, handlerVars, faults, lostLocks>>
CreateUserUnchecked(c) ==
  /\ SignupGoes(c, "create", "profile")
  /\ UNCHANGED <<email, users, profiles, accounts, queueVars, handlerVars, faults, lostLocks>>

\* usersService.create: the unique index refuses what the validator let through.
CreateUser(c) ==
  /\ \/ SignupGoes(c, "create", "refused") /\ ~EmailFree(email[c]) /\ UNCHANGED users
     \/ SignupGoes(c, "create", "profile") /\ EmailFree(email[c]) /\ users' = users \cup {email[c]}
  /\ UNCHANGED <<email, profiles, accounts, queueVars, handlerVars, faults, lostLocks>>

CreateProfile(c) ==
  /\ SignupGoes(c, "profile", "confirm")
  /\ profiles' = profiles \cup {email[c]}
  /\ UNCHANGED <<email, users, accounts, queueVars, handlerVars, faults, lostLocks>>

\* The confirmation token and its mail, then the refresh token: columns of the user row
\* that nothing here depends on.
ConfirmAndSignIn(c) ==
  /\ SignupGoes(c, "confirm", "signIn") \/ SignupGoes(c, "signIn", "enqueue")
  /\ UNCHANGED <<email, users, profiles, accounts, queueVars, handlerVars, faults, lostLocks>>

\* Mutant: signup returns without enqueueing.
EnqueueForgotten(c) ==
  /\ SignupGoes(c, "enqueue", "done")
  /\ UNCHANGED <<email, users, profiles, accounts, queueVars, handlerVars, faults, lostLocks>>

EnqueueAccountCreation(c) ==
  /\ SignupGoes(c, "enqueue", "done")
  /\ Q!Add(email[c])
  /\ UNCHANGED <<email, users, profiles, accounts, handlerVars, faults, lostLocks>>

\* A call of signup fails or its process dies; nothing undoes what it has done.
SignupAborted(c) ==
  /\ \E s \in AfterCreate : SignupGoes(c, s, "aborted")
  /\ Q!Fault
  /\ UNCHANGED <<email, users, profiles, accounts, queueVars, handlerVars, lostLocks>>

Signup(c) ==
  CreateUser(c) \/ CreateProfile(c) \/ ConfirmAndSignIn(c) \/ EnqueueAccountCreation(c)

--------------------------------------------------------------------------------

StartJob(w, e) ==
  /\ Q!StartJob(w, e)
  /\ UNCHANGED <<requestVars, users, profiles, accounts, lostLocks>>

\* Mutant: the processor's catch logs and returns.
ErrorSwallowed == "resolved"

\* The catch of handleCreateAccounts logs and throws, which triggers the retry.
AfterError == "rejected"

\* Mutant: the retry does not look first.
NeverLooks(e) == FALSE

\* findMany sees what other sessions have committed.
HasAccounts(e) == accounts[e] > 0

FindAccounts(w) ==
  /\ \/ Q!Goto(w, "find", "resolved") /\ HasAccounts(job[w]) /\ UNCHANGED faults
     \/ Q!Goto(w, "find", "insert") /\ ~HasAccounts(job[w]) /\ UNCHANGED faults
     \/ Q!Goto(w, "find", AfterError) /\ Q!Fault
  /\ UNCHANGED <<requestVars, users, profiles, accounts, queueVars, lostLocks>>

InsertAccounts(e) == accounts' = [accounts EXCEPT ![e] = @ + 1]

\* createManyAndReturn and the commit; a commit that reports an error may have been made.
CreateAccounts(w) ==
  /\ \/ Q!Goto(w, "insert", "resolved") /\ InsertAccounts(job[w]) /\ UNCHANGED faults
     \/ Q!Goto(w, "insert", AfterError) /\ Q!Fault /\ (InsertAccounts(job[w]) \/ UNCHANGED accounts)
  /\ UNCHANGED <<requestVars, users, profiles, queueVars, lostLocks>>

JobDone(w) ==
  /\ Q!JobResolved(w) \/ Q!JobRejected(w)
  /\ UNCHANGED <<requestVars, users, profiles, accounts, lostLocks>>

HandlerStep(w) == FindAccounts(w) \/ CreateAccounts(w) \/ JobDone(w)

Crash(w) ==
  /\ Q!Die(w)
  /\ UNCHANGED <<requestVars, users, profiles, accounts, lostLocks>>

LockLost(e) ==
  /\ Q!LockLost(e)
  /\ lostLocks' = lostLocks + 1
  /\ UNCHANGED <<requestVars, users, profiles, accounts>>

QueueTimers(e) ==
  /\ Q!Timers(e)
  /\ UNCHANGED <<requestVars, users, profiles, accounts, lostLocks>>

--------------------------------------------------------------------------------

\* Nothing is under way: the only state in which the system may stop.
Rest ==
  /\ Q!Idle
  /\ \A c \in Clients : step[c] \in {"none", "refused", "aborted", "done"}
  /\ UNCHANGED vars

Next ==
  \/ \E c \in Clients : Signup(c) \/ SignupAborted(c) \/ \E e \in Emails : SubmitSignup(c, e)
  \/ \E w \in Workers : HandlerStep(w) \/ Crash(w) \/ \E e \in Emails : StartJob(w, e)
  \/ \E e \in Emails : LockLost(e) \/ QueueTimers(e)
  \/ Rest

Spec == Init /\ [][Next]_vars

\* Requests go on, workers take jobs and run their handlers, Bull's timers fire.
Fairness ==
  /\ \A c \in Clients : WF_vars(Signup(c))
  /\ \A w \in Workers : /\ WF_vars(UNCHANGED faults /\ HandlerStep(w))
                        /\ WF_vars(\E e \in Emails : StartJob(w, e))
  /\ \A e \in Emails : WF_vars(QueueTimers(e))

FairSpec == Spec /\ Fairness

--------------------------------------------------------------------------------

\* Two requests with one email may both pass the validator: only one of them gets past the
\* creation of the user, and so only one enqueues the user's job.
OneSignupPerEmail ==
  \A e \in Emails :
    Cardinality({c \in Clients : email[c] = e /\ step[c] \in AfterCreate \cup {"aborted", "done"}}) <= 1

\* Crashes, retries and commits of unknown outcome never give a user a second set of
\* accounts, because the retry looks first; only a worker that goes on without its lock
\* can, and each lost lock costs at most one set.
DuplicatesNeedLostLock == \A e \in Emails : accounts[e] <= 1 + lostLocks

\* Bull drops the job of a user only for a user who has accounts.
CompletedMeansAccounts == \A e \in Emails : jobState[e] = "completed" => accounts[e] >= 1

\* Without faults every user is on the way to accounts: a request still has to enqueue the
\* job, or the queue has it, or the accounts are there.
NobodyForgotten ==
  faults = 0 =>
    \A e \in users :
      \/ \E c \in Clients : email[c] = e /\ step[c] \in AfterCreate
      \/ jobState[e] \in {"wait", "active", "delayed"}
      \/ accounts[e] = 1

\* Unless there is a fault, whoever signs up gets accounts.
UsersGetAccounts == \A e \in Emails : e \in users ~> (faults > 0 \/ accounts[e] = 1)

\* Once enqueued, a user gets accounts or a failed job that Bull keeps (removeOnFail: false).
EnqueuedGetAccounts ==
  \A e \in Emails : jobState[e] = "wait" ~> (accounts[e] > 0 \/ jobState[e] = "failed")
================================================================================
