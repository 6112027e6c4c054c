---------------------------- MODULE SignupsProofs ----------------------------
(***************************************************************************)
(* Safety of AccountCreation for any emails, signup requests, workers,     *)
(* attempts and number of faults.  Three arguments, each on the one before *)
(* it: what is typed, including whose requests and jobs there are; that a  *)
(* handler which returned has seen accounts; and a budget for the sets of  *)
(* accounts a user can get.                                                *)
(***************************************************************************)
EXTENDS AccountCreation, TLAPS, FiniteSetTheorems

--------------------------------------------------------------------------------
(* Types.  TypeOK is not inductive: CreateProfile keeps profiles within    *)
(* users only because a request that is past CreateUser has its user.      *)

\* Past the unique index: the requests that OneSignupPerEmail counts.
Past(c) == step[c] \in AfterCreate \cup {"aborted", "done"}

TypeInv ==
  /\ TypeOK
  /\ \A c \in Clients : step[c] # "none" => email[c] \in Emails
  /\ \A c \in Clients : Past(c) => email[c] \in users
  /\ \A w \in Workers : pc[w] # "idle" <=> job[w] \in Emails

\* What a request may leave as it is.
queueSide == <<accounts, queueVars, handlerVars>>
\* What the queue and its handlers leave as they are.
requestSide == <<requestVars, users, profiles>>

RequestStep(c) == Signup(c) \/ SignupAborted(c) \/ \E e \in Emails : SubmitSignup(c, e)

\* The steps on the other side of the queue.
QueueStep ==
  \/ \E w \in Workers : HandlerStep(w) \/ Crash(w) \/ \E e \in Emails : StartJob(w, e)
  \/ \E e \in Emails : LockLost(e) \/ QueueTimers(e)

LEMMA EitherSide ==
  ASSUME [Next]_vars
  PROVE  (\E c \in Clients : RequestStep(c)) \/ QueueStep \/ UNCHANGED vars
BY DEF Next, RequestStep, QueueStep, Rest

LEMMA RequestsTyped ==
  ASSUME TypeInv, NEW c \in Clients, RequestStep(c)
  PROVE  TypeInv'
<1>1. /\ step \in [Clients -> SignupSteps] /\ email \in [Clients -> Emails \cup {NoEmail}]
      /\ users \subseteq Emails /\ profiles \subseteq users
  BY DEF TypeInv, TypeOK
<1>2. ASSUME UNCHANGED <<queueSide, faults, lostLocks>>,
             step' \in [Clients -> SignupSteps], email' \in [Clients -> Emails \cup {NoEmail}],
             users' \subseteq Emails, profiles' \subseteq users',
             \A d \in Clients : step'[d] # "none" => email'[d] \in Emails,
             \A d \in Clients : Past(d)' => email'[d] \in users'
      PROVE  TypeInv'
  BY <1>2 DEF TypeInv, TypeOK, queueSide, queueVars, handlerVars, Q!QueueTypeOK, Q!JobStates
<1>3. ASSUME NEW e \in Emails, SubmitSignup(c, e)
      PROVE  TypeInv'
  <2>1. /\ step' = [step EXCEPT ![c] = "create"] /\ email' = [email EXCEPT ![c] = e]
        /\ step[c] = "none" /\ users' = users /\ profiles' = profiles
    BY <1>3 DEF SubmitSignup, SignupGoes
  <2>2. UNCHANGED <<queueSide, faults, lostLocks>>
    BY <1>3 DEF SubmitSignup, queueSide
  <2> QED
    BY <1>1, <1>2, <2>1, <2>2 DEF TypeInv, SignupSteps, AfterCreate, Past
<1>4. CASE CreateUser(c)
  <2>1. /\ step[c] = "create" /\ email' = email /\ profiles' = profiles
        /\ \/ step' = [step EXCEPT ![c] = "refused"] /\ users' = users
           \/ step' = [step EXCEPT ![c] = "profile"] /\ users' = users \cup {email[c]}
    BY <1>4 DEF CreateUser, SignupGoes
  <2>2. UNCHANGED <<queueSide, faults, lostLocks>>
    BY <1>4 DEF CreateUser, queueSide
  <2>3. email[c] \in Emails
    BY <2>1 DEF TypeInv
  <2> QED
    BY <1>1, <1>2, <2>1, <2>2, <2>3 DEF TypeInv, SignupSteps, AfterCreate, Past
<1>5. CASE CreateProfile(c) \/ ConfirmAndSignIn(c)
  <2>1. /\ email' = email /\ users' = users
        /\ profiles' = profiles \/ profiles' = profiles \cup {email[c]}
        /\ \E m \in AfterCreate : step[c] \in AfterCreate /\ step' = [step EXCEPT ![c] = m]
    BY <1>5 DEF CreateProfile, ConfirmAndSignIn, SignupGoes, AfterCreate
  <2>2. UNCHANGED <<queueSide, faults, lostLocks>>
    BY <1>5 DEF CreateProfile, ConfirmAndSignIn, queueSide
  <2> QED
    BY <1>1, <1>2, <2>1, <2>2 DEF TypeInv, SignupSteps, AfterCreate, Past
<1>6. CASE EnqueueAccountCreation(c)
  <2>1. /\ step[c] = "enqueue" /\ step' = [step EXCEPT ![c] = "done"]
        /\ UNCHANGED <<email, users, profiles, accounts, handlerVars, faults, lostLocks>>
        /\ jobState' = [jobState EXCEPT ![email[c]] = "wait"]
        /\ UNCHANGED <<lock, attemptsMade, stalledCounter>>
    BY <1>6 DEF EnqueueAccountCreation, SignupGoes, Q!Add
  <2>2. jobState' \in [Emails -> Q!JobStates]
    BY <2>1 DEF TypeInv, TypeOK, Q!QueueTypeOK, Q!JobStates
  <2>3. /\ step' \in [Clients -> SignupSteps]
        /\ \A d \in Clients : step'[d] # "none" => step[d] # "none"
        /\ \A d \in Clients : Past(d)' => Past(d)
    BY <1>1, <2>1 DEF SignupSteps, AfterCreate, Past
  <2> QED
    BY <1>1, <2>1, <2>2, <2>3 DEF TypeInv, TypeOK, Q!QueueTypeOK, handlerVars
<1>7. CASE SignupAborted(c)
  <2>1. /\ step[c] \in AfterCreate /\ step' = [step EXCEPT ![c] = "aborted"]
        /\ UNCHANGED <<email, users, profiles, queueSide, lostLocks>>
        /\ faults < MaxFaults /\ faults' = faults + 1
    BY <1>7 DEF SignupAborted, SignupGoes, Q!Fault, queueSide
  <2>2. faults' \in 0..MaxFaults /\ lostLocks' \in 0..faults'
    BY <2>1, CreationAssumption DEF TypeInv, TypeOK
  <2>3. /\ step' \in [Clients -> SignupSteps]
        /\ \A d \in Clients : step'[d] # "none" => step[d] # "none"
        /\ \A d \in Clients : Past(d)' => Past(d)
    BY <1>1, <2>1 DEF SignupSteps, AfterCreate, Past
  <2> QED
    BY <1>1, <2>1, <2>2, <2>3 DEF TypeInv, TypeOK, Q!QueueTypeOK, queueSide, queueVars, handlerVars
<1> QED
  BY <1>3, <1>4, <1>5, <1>6, <1>7 DEF RequestStep, Signup

\* The queue keeps its types, whatever a handler or a timer does to it.
LEMMA QueueStaysTyped ==
  ASSUME TypeInv, QueueStep
  PROVE  /\ Q!QueueTypeOK' /\ UNCHANGED requestSide
         /\ accounts' \in [Emails -> Nat]
         /\ faults' \in 0..MaxFaults /\ lostLocks' \in 0..faults'
<1>1. Q!QueueTypeOK /\ faults \in 0..MaxFaults /\ lostLocks \in 0..faults
      /\ accounts \in [Emails -> Nat]
  BY DEF TypeInv, TypeOK
<1>2. ASSUME NEW w \in Workers, FindAccounts(w) \/ CreateAccounts(w)
      PROVE  /\ UNCHANGED <<queueVars, requestSide, lostLocks>> /\ (UNCHANGED faults \/ Q!Fault)
             /\ \E e : accounts' \in {accounts, [accounts EXCEPT ![e] = @ + 1]}
  BY <1>2 DEF FindAccounts, CreateAccounts, InsertAccounts, requestSide
<1>3. ASSUME NEW w \in Workers, JobDone(w)
      PROVE  UNCHANGED <<requestSide, accounts, faults, lostLocks>> /\ Q!QueueTypeOK'
  BY <1>1, <1>3 DEF JobDone, requestSide, Q!JobResolved, Q!JobRejected, Q!MoveToCompleted,
                    Q!MoveToFailed, Q!QueueTypeOK, Q!JobStates, Q!queueVars
<1>4. ASSUME NEW w \in Workers, Crash(w)
      PROVE  UNCHANGED <<requestSide, accounts, queueVars, lostLocks>> /\ Q!Fault
  BY <1>4 DEF Crash, requestSide, Q!Die, queueVars
<1>5. ASSUME NEW w \in Workers, NEW e \in Emails, StartJob(w, e)
      PROVE  UNCHANGED <<requestSide, accounts, faults, lostLocks>> /\ Q!QueueTypeOK'
  BY <1>1, <1>5 DEF StartJob, requestSide, Q!StartJob, Q!MoveToActive, Q!QueueTypeOK, Q!JobStates
<1>6. ASSUME NEW e \in Emails, LockLost(e)
      PROVE  /\ UNCHANGED <<requestSide, accounts>> /\ Q!QueueTypeOK' /\ Q!Fault
             /\ lostLocks' = lostLocks + 1
  BY <1>1, <1>6 DEF LockLost, requestSide, Q!LockLost, Q!ExpireLock, Q!QueueTypeOK, Q!JobStates
<1>7. ASSUME NEW e \in Emails, QueueTimers(e)
      PROVE  UNCHANGED <<requestSide, accounts, faults, lostLocks>> /\ Q!QueueTypeOK'
  BY <1>1, <1>7 DEF QueueTimers, requestSide, Q!Timers, Q!LockExpires, Q!ExpireLock, Q!Promote,
                    Q!MoveStalledJob, Q!QueueTypeOK, Q!JobStates
<1>8. UNCHANGED queueVars => Q!QueueTypeOK'
  BY <1>1 DEF queueVars, Q!QueueTypeOK, Q!JobStates
<1>9. /\ UNCHANGED <<faults, lostLocks>> => faults' \in 0..MaxFaults /\ lostLocks' \in 0..faults'
      /\ Q!Fault /\ lostLocks' \in {lostLocks, lostLocks + 1}
           => faults' \in 0..MaxFaults /\ lostLocks' \in 0..faults'
  BY <1>1, CreationAssumption DEF Q!Fault
<1> QED
  BY <1>1, <1>2, <1>3, <1>4, <1>5, <1>6, <1>7, <1>8, <1>9 DEF QueueStep, HandlerStep

\* A worker that is not idle afterwards took up its job, or went on with it.
LEMMA WorkersStayTyped ==
  ASSUME TypeInv, QueueStep
  PROVE  /\ job' \in [Workers -> Emails \cup {NoEmail}] /\ pc' \in [Workers -> HandlerStates]
         /\ \A w \in Workers : pc'[w] # "idle" <=> job'[w] \in Emails
<1>1. /\ job \in [Workers -> Emails \cup {NoEmail}] /\ pc \in [Workers -> HandlerStates]
      /\ \A w \in Workers : pc[w] # "idle" <=> job[w] \in Emails
  BY DEF TypeInv, TypeOK
<1>2. ASSUME NEW w \in Workers, FindAccounts(w) \/ CreateAccounts(w)
      PROVE  \E m \in HandlerStates \ {"idle"} : pc[w] # "idle" /\ pc' = [pc EXCEPT ![w] = m] /\ job' = job
  BY <1>2 DEF FindAccounts, CreateAccounts, Q!Goto, AfterError, HandlerStates
<1>3. ASSUME NEW w \in Workers, JobDone(w) \/ Crash(w)
      PROVE  job' = [job EXCEPT ![w] = NoEmail] /\ pc' = [pc EXCEPT ![w] = "idle"]
  BY <1>3 DEF JobDone, Crash, Q!JobResolved, Q!JobRejected, Q!Die, Q!Release
<1>4. ASSUME NEW w \in Workers, NEW e \in Emails, StartJob(w, e)
      PROVE  job' = [job EXCEPT ![w] = e] /\ pc' = [pc EXCEPT ![w] = "find"]
  BY <1>4 DEF StartJob, Q!StartJob
<1>5. ASSUME NEW e \in Emails, LockLost(e) \/ QueueTimers(e)
      PROVE  job' = job /\ pc' = pc
  BY <1>5 DEF LockLost, QueueTimers, Q!LockLost, Q!Timers, Q!LockExpires
<1>6. CASE \E w \in Workers : FindAccounts(w) \/ CreateAccounts(w)
  BY <1>1, <1>2, <1>6
<1>7. CASE \E w \in Workers : JobDone(w) \/ Crash(w)
  BY <1>1, <1>3, <1>7, CreationAssumption DEF HandlerStates
<1>8. CASE \E w \in Workers, e \in Emails : StartJob(w, e)
  BY <1>1, <1>4, <1>8 DEF HandlerStates
<1>9. CASE \E e \in Emails : LockLost(e) \/ QueueTimers(e)
  BY <1>1, <1>5, <1>9
<1> QED
  BY <1>6, <1>7, <1>8, <1>9 DEF QueueStep, HandlerStep

LEMMA TypeStep == TypeInv /\ [Next]_vars => TypeInv'
<1> SUFFICES ASSUME TypeInv, [Next]_vars PROVE TypeInv'
  OBVIOUS
<1>1. CASE \E c \in Clients : RequestStep(c)
  BY <1>1, RequestsTyped
<1>2. CASE QueueStep
  BY <1>2, QueueStaysTyped, WorkersStayTyped DEF TypeInv, TypeOK, requestSide, requestVars, Past
<1>3. CASE UNCHANGED vars
  BY <1>3
  DEF TypeInv, TypeOK, vars, requestVars, queueVars, handlerVars, Past, Q!QueueTypeOK, Q!JobStates
<1> QED
  BY <1>1, <1>2, <1>3, EitherSide

LEMMA TypeInit == Init => TypeInv
<1> SUFFICES ASSUME Init PROVE TypeInv
  OBVIOUS
<1>1. TypeOK
  BY CreationAssumption DEF Init, TypeOK, Q!WorkersInit, Q!QueueInit, Q!QueueTypeOK, Q!JobStates,
       SignupSteps, HandlerStates
<1> QED
  BY <1>1, CreationAssumption DEF Init, TypeInv, Past, AfterCreate, Q!WorkersInit

LEMMA TypedAlways == Spec => []TypeInv
BY TypeInit, TypeStep, PTL DEF Spec

\* The tables, the requests, the queue and its workers stay within their types; no profile
\* is without its user.
THEOREM SignupsTypeCorrect == Spec => []TypeOK
<1>1. TypeInv => TypeOK
  BY DEF TypeInv
<1> QED
  BY <1>1, TypedAlways, PTL

--------------------------------------------------------------------------------
(* One request per email gets past CreateUser.  The ones that did are      *)
(* pairwise of different emails, because each found its email free while   *)
(* the emails of all the others were in the table.                         *)

UniqueInv == \A c, d \in Clients : Past(c) /\ Past(d) /\ email[c] = email[d] => c = d

\* The unique index is the only way past CreateUser.
LEMMA PastByIndex ==
  ASSUME TypeInv, [Next]_vars, NEW c \in Clients, Past(c)'
  PROVE  /\ email'[c] = email[c]
         /\ \/ Past(c)
            \/ /\ EmailFree(email[c])
               /\ \A d \in Clients \ {c} : Past(d)' => Past(d) /\ email'[d] = email[d]
<1>1. step \in [Clients -> SignupSteps] /\ email \in [Clients -> Emails \cup {NoEmail}]
  BY DEF TypeInv, TypeOK
<1>2. ASSUME NEW b \in Clients, NEW e \in Emails, SubmitSignup(b, e)
      PROVE  Past(c) /\ email'[c] = email[c]
  BY <1>1, <1>2 DEF SubmitSignup, SignupGoes, Past, AfterCreate
<1>3. ASSUME NEW b \in Clients, CreateUser(b)
      PROVE  /\ email' = email
             /\ \/ Past(c)
                \/ EmailFree(email[c]) /\ \A d \in Clients \ {c} : Past(d)' => Past(d)
  BY <1>1, <1>3 DEF CreateUser, SignupGoes, Past, AfterCreate
<1>4. ASSUME NEW b \in Clients,
             \/ CreateProfile(b) \/ ConfirmAndSignIn(b) \/ EnqueueAccountCreation(b)
             \/ SignupAborted(b)
      PROVE  Past(c) /\ email' = email
  <2>1. /\ email' = email /\ step[b] \in AfterCreate
        /\ \A d \in Clients \ {b} : step'[d] = step[d]
    BY <1>1, <1>4 DEF CreateProfile, ConfirmAndSignIn, EnqueueAccountCreation, SignupAborted,
                      SignupGoes, AfterCreate
  <2> QED
    BY <2>1 DEF Past
<1>5. CASE UNCHANGED requestVars
  BY <1>5 DEF requestVars, Past
<1>6. QueueStep \/ UNCHANGED vars => UNCHANGED requestVars
  BY QueueStaysTyped DEF vars, requestSide
<1> QED
  BY <1>2, <1>3, <1>4, <1>5, <1>6, EitherSide DEF RequestStep, Signup

LEMMA UniqueStep == TypeInv /\ UniqueInv /\ [Next]_vars => UniqueInv'
<1> SUFFICES ASSUME TypeInv, UniqueInv, [Next]_vars,
                    NEW c \in Clients, NEW d \in Clients, Past(c)', Past(d)', email'[c] = email'[d]
             PROVE  c = d
  BY DEF UniqueInv
<1>1. email[c] = email[d]
  BY PastByIndex
<1>2. CASE Past(c) /\ Past(d)
  BY <1>1, <1>2 DEF UniqueInv
<1>3. ASSUME NEW f \in Clients, NEW g \in Clients, f # g, email[f] = email[g], Past(f)', Past(g)',
             ~Past(f)
      PROVE  FALSE
  <2>1. EmailFree(email[f]) /\ Past(g)
    BY <1>3, PastByIndex
  <2> QED
    BY <1>3, <2>1 DEF TypeInv, EmailFree
<1> QED
  BY <1>1, <1>2, <1>3

\* Of any number of requests with one email that pass the validator together, one gets past
\* the creation of the user: the others are refused by the unique index.
THEOREM OneSignupGetsPast == Spec => []OneSignupPerEmail
<1>1. Init => UniqueInv
  BY DEF Init, UniqueInv, Past, AfterCreate
<1>2. UniqueInv => OneSignupPerEmail
  <2> SUFFICES ASSUME UniqueInv, NEW e \in Emails
               PROVE  Cardinality({c \in Clients : email[c] = e /\ Past(c)}) <= 1
    BY DEF OneSignupPerEmail, Past
  <2> DEFINE signedUp == {c \in Clients : email[c] = e /\ Past(c)}
  <2>1. CASE signedUp = {}
    BY <2>1, FS_EmptySet
  <2>2. CASE \E c : signedUp = {c}
    BY <2>2, FS_Singleton
  <2>3. signedUp = {} \/ \E c : signedUp = {c}
    BY DEF UniqueInv
  <2> QED
    BY <2>1, <2>2, <2>3
<1> QED
  BY <1>1, <1>2, UniqueStep, TypedAlways, PTL DEF Spec

--------------------------------------------------------------------------------
(* Completed means accounts.  A handler returns behind a lookup that found *)
(* accounts, or behind its own commit, and nothing takes accounts away.    *)

ReturnedInv ==
  /\ CompletedMeansAccounts
  /\ \A w \in Workers : pc[w] = "resolved" => accounts[job[w]] >= 1

\* Only a handler gives accounts.
LEMMA AccountsGrow ==
  ASSUME TypeInv, [Next]_vars, NEW e \in Emails
  PROVE  accounts[e] \in Nat /\ accounts'[e] \in Nat /\ accounts'[e] >= accounts[e]
<1>1. accounts \in [Emails -> Nat]
  BY DEF TypeInv, TypeOK
<1>2. ASSUME NEW w \in Workers, CreateAccounts(w)
      PROVE  accounts'[e] \in Nat /\ accounts'[e] >= accounts[e]
  BY <1>1, <1>2 DEF CreateAccounts, InsertAccounts
<1>3. UNCHANGED accounts \/ \E w \in Workers : CreateAccounts(w)
  BY EitherSide DEF RequestStep, Signup, CreateUser, CreateProfile, ConfirmAndSignIn,
     EnqueueAccountCreation, SignupAborted, SubmitSignup, QueueStep, HandlerStep, Crash, StartJob,
     LockLost, QueueTimers, FindAccounts, JobDone, vars
<1> QED
  BY <1>1, <1>2, <1>3

\* A job becomes completed when its handler returned.
LEMMA CompletedByHandler ==
  ASSUME TypeInv, [Next]_vars, NEW e \in Emails, jobState'[e] = "completed"
  PROVE  jobState[e] = "completed" \/ \E w \in Workers : pc[w] = "resolved" /\ job[w] = e
<1>1. jobState \in [Emails -> Q!JobStates]
  BY DEF TypeInv, TypeOK, Q!QueueTypeOK
<1>2. ASSUME NEW w \in Workers, JobDone(w)
      PROVE  jobState[e] = "completed" \/ (pc[w] = "resolved" /\ job[w] = e)
  BY <1>1, <1>2 DEF JobDone, Q!JobResolved, Q!JobRejected, Q!MoveToCompleted, Q!MoveToFailed,
                    Q!queueVars
<1>3. ASSUME NEW w \in Workers, NEW f \in Emails, StartJob(w, f)
      PROVE  jobState[e] = "completed"
  BY <1>1, <1>3 DEF StartJob, Q!StartJob, Q!MoveToActive
<1>4. ASSUME NEW f \in Emails, LockLost(f) \/ QueueTimers(f)
      PROVE  jobState[e] = "completed"
  BY <1>1, <1>4 DEF LockLost, QueueTimers, Q!LockLost, Q!Timers, Q!LockExpires, Q!ExpireLock,
                    Q!Promote, Q!MoveStalledJob
<1>5. ASSUME NEW c \in Clients, EnqueueAccountCreation(c)
      PROVE  jobState[e] = "completed"
  BY <1>1, <1>5 DEF EnqueueAccountCreation, Q!Add
<1>6. \/ UNCHANGED jobState
      \/ \E w \in Workers : JobDone(w) \/ \E f \in Emails : StartJob(w, f)
      \/ \E f \in Emails : LockLost(f) \/ QueueTimers(f)
      \/ \E c \in Clients : EnqueueAccountCreation(c)
  BY EitherSide DEF RequestStep, Signup, CreateUser, CreateProfile, ConfirmAndSignIn, SignupAborted,
     SubmitSignup, QueueStep, HandlerStep, FindAccounts, CreateAccounts, Crash, Q!Die, vars,
     queueVars
<1> QED
  BY <1>2, <1>3, <1>4, <1>5, <1>6

\* A handler that returns does so by finding accounts, or by creating them.
LEMMA ReturnsWithAccounts ==
  ASSUME TypeInv, [Next]_vars, NEW w \in Workers, pc'[w] = "resolved"
  PROVE  /\ job[w] \in Emails /\ job'[w] = job[w]
         /\ pc[w] = "resolved" \/ accounts'[job[w]] >= 1
<1>1. /\ pc \in [Workers -> HandlerStates] /\ job \in [Workers -> Emails \cup {NoEmail}]
      /\ accounts \in [Emails -> Nat]
      /\ \A o \in Workers : pc[o] # "idle" => job[o] \in Emails
  BY DEF TypeInv, TypeOK
<1>2. ASSUME NEW o \in Workers, FindAccounts(o)
      PROVE  job' = job /\ (pc[w] = "resolved" \/ (pc[w] = "find" /\ accounts'[job[w]] >= 1))
  BY <1>1, <1>2 DEF FindAccounts, Q!Goto, HasAccounts, AfterError
<1>3. ASSUME NEW o \in Workers, CreateAccounts(o)
      PROVE  job' = job /\ (pc[w] = "resolved" \/ (pc[w] = "insert" /\ accounts'[job[w]] >= 1))
  <2>1. job' = job /\ pc[o] = "insert" /\ job[o] \in Emails
        /\ \A v \in Workers \ {o} : pc'[v] = pc[v]
    BY <1>1, <1>3 DEF CreateAccounts, Q!Goto
  <2>2. pc'[o] = "resolved" => accounts'[job[o]] = accounts[job[o]] + 1
    BY <1>1, <1>3, <2>1 DEF CreateAccounts, Q!Goto, AfterError, InsertAccounts
  <2> QED
    BY <1>1, <2>1, <2>2
<1>4. ASSUME NEW o \in Workers, JobDone(o) \/ Crash(o) \/ \E e \in Emails : StartJob(o, e)
      PROVE  job'[w] = job[w] /\ pc[w] = "resolved"
  BY <1>1, <1>4
  DEF JobDone, Crash, StartJob, Q!JobResolved, Q!JobRejected, Q!Die, Q!Release, Q!StartJob
<1>5. CASE UNCHANGED handlerVars
  BY <1>1, <1>5 DEF handlerVars
<1>6. UNCHANGED handlerVars \/ \E o \in Workers : HandlerStep(o) \/ Crash(o) \/ \E e \in Emails : StartJob(o, e)
  BY EitherSide DEF RequestStep, Signup, CreateUser, CreateProfile, ConfirmAndSignIn,
     EnqueueAccountCreation, SignupAborted, SubmitSignup, QueueStep, LockLost, QueueTimers,
     Q!LockLost, Q!Timers, Q!LockExpires, vars, handlerVars
<1> QED
  BY <1>1, <1>2, <1>3, <1>4, <1>5, <1>6 DEF HandlerStep

LEMMA ReturnedStep == TypeInv /\ ReturnedInv /\ [Next]_vars => ReturnedInv'
<1> SUFFICES ASSUME TypeInv, ReturnedInv, [Next]_vars PROVE ReturnedInv'
  OBVIOUS
<1>1. \A w \in Workers : pc[w] = "resolved" => job[w] \in Emails
  BY DEF TypeInv
<1>2. ASSUME NEW e \in Emails, jobState'[e] = "completed"
      PROVE  accounts'[e] >= 1
  <2>1. accounts[e] >= 1
    BY <1>2, CompletedByHandler DEF ReturnedInv, CompletedMeansAccounts
  <2> QED
    BY <2>1, AccountsGrow
<1>3. ASSUME NEW w \in Workers, pc'[w] = "resolved"
      PROVE  accounts'[job'[w]] >= 1
  <2>1. /\ job[w] \in Emails /\ job'[w] = job[w]
        /\ pc[w] = "resolved" \/ accounts'[job[w]] >= 1
    BY <1>3, ReturnsWithAccounts
  <2>2. pc[w] = "resolved" => accounts[job[w]] >= 1
    BY DEF ReturnedInv
  <2> QED
    BY <2>1, <2>2, AccountsGrow
<1> QED
  BY <1>2, <1>3 DEF ReturnedInv, CompletedMeansAccounts

LEMMA ReturnedAlways == Spec => []ReturnedInv
<1>1. Init => ReturnedInv
  BY DEF Init, ReturnedInv, CompletedMeansAccounts, Q!WorkersInit, Q!QueueInit
<1> QED
  BY <1>1, ReturnedStep, TypedAlways, PTL DEF Spec

\* Whatever fails: a job that Bull reports completed, and by removeOnComplete forgets, belongs
\* to a user who has accounts.
THEOREM CompletedJobsHaveAccounts == Spec => []CompletedMeansAccounts
<1>1. ReturnedInv => CompletedMeansAccounts
  BY DEF ReturnedInv
<1> QED
  BY <1>1, ReturnedAlways, PTL

--------------------------------------------------------------------------------
(* How many sets of accounts.  The argument is a budget.  Against          *)
(* 1 + lostLocks count the sets a user has, the handlers that may still    *)
(* insert one though they have lost the lock of the job (strays), and one  *)
(* more for the handler that has the lock: while the user has nothing, or  *)
(* when that handler is past its lookup.                                   *)

BeforeCommit == {"find", "insert"}

Strays(e) == {w \in Workers : job[w] = e /\ pc[w] \in BeforeCommit /\ lock[e] # w}

Inserts(e) == \E w \in Workers : lock[e] = w /\ job[w] = e /\ pc[w] = "insert"

Chance(e) == IF accounts[e] = 0 \/ Inserts(e) THEN 1 ELSE 0

WithinBudget(e) ==
  /\ IsFiniteSet(Strays(e))
  /\ accounts[e] + Cardinality(Strays(e)) + Chance(e) <= 1 + lostLocks

\* Only an active job is locked, so that a worker that takes a job takes nobody's lock.
BudgetInv == \A e \in Emails : (jobState[e] = "active" \/ lock[e] = NoWorker) /\ WithinBudget(e)

\* Nothing is spent; a stray spends its own share; or a lost lock pays for a new stray.
LEMMA BudgetKept ==
  ASSUME TypeInv, TypeInv', NEW e \in Emails, WithinBudget(e), NEW w,
         \/ /\ Strays(e)' \subseteq Strays(e) /\ lostLocks' = lostLocks
            /\ accounts'[e] + Chance(e)' <= accounts[e] + Chance(e)
         \/ /\ w \in Strays(e) /\ Strays(e)' \subseteq Strays(e) \ {w} /\ lostLocks' = lostLocks
            /\ accounts'[e] + Chance(e)' <= accounts[e] + Chance(e) + 1
         \/ /\ Strays(e)' \subseteq Strays(e) \cup {w} /\ lostLocks' = lostLocks + 1
            /\ accounts'[e] + Chance(e)' <= accounts[e] + Chance(e)
  PROVE  WithinBudget(e)'
<1>1. /\ accounts[e] \in Nat /\ accounts'[e] \in Nat /\ lostLocks \in Int /\ lostLocks' \in Int
      /\ Chance(e) \in {0, 1} /\ Chance(e)' \in {0, 1}
  BY CreationAssumption DEF TypeInv, TypeOK, Chance
<1>2. IsFiniteSet(Strays(e)) /\ Cardinality(Strays(e)) \in Nat
  BY FS_CardinalityType DEF WithinBudget
<1>3. accounts[e] + Cardinality(Strays(e)) + Chance(e) <= 1 + lostLocks
  BY DEF WithinBudget
<1>4. ASSUME NEW S, IsFiniteSet(S), Strays(e)' \subseteq S
      PROVE  /\ IsFiniteSet(Strays(e)') /\ Cardinality(Strays(e)') \in Nat
             /\ Cardinality(S) \in Nat /\ Cardinality(Strays(e)') <= Cardinality(S)
  BY <1>4, FS_Subset, FS_CardinalityType
<1>5. CASE /\ Strays(e)' \subseteq Strays(e) /\ lostLocks' = lostLocks
           /\ accounts'[e] + Chance(e)' <= accounts[e] + Chance(e)
  <2>1. accounts'[e] + Cardinality(Strays(e)') + Chance(e)' <= 1 + lostLocks'
    BY <1>1, <1>2, <1>3, <1>4, <1>5
  <2> QED
    BY <1>2, <1>4, <1>5, <2>1 DEF WithinBudget
<1>6. CASE /\ w \in Strays(e) /\ Strays(e)' \subseteq Strays(e) \ {w} /\ lostLocks' = lostLocks
           /\ accounts'[e] + Chance(e)' <= accounts[e] + Chance(e) + 1
  <2> DEFINE rest == Strays(e) \ {w}
  <2>1. IsFiniteSet(rest) /\ Cardinality(rest) = Cardinality(Strays(e)) - 1
    BY <1>2, <1>6, FS_RemoveElement
  <2>2. Strays(e)' \subseteq rest
    BY <1>6
  <2> HIDE DEF rest
  <2>3. accounts'[e] + Cardinality(Strays(e)') + Chance(e)' <= 1 + lostLocks'
    BY <1>1, <1>2, <1>3, <1>4, <1>6, <2>1, <2>2
  <2> QED
    BY <1>4, <2>1, <2>2, <2>3 DEF WithinBudget
<1>7. CASE /\ Strays(e)' \subseteq Strays(e) \cup {w} /\ lostLocks' = lostLocks + 1
           /\ accounts'[e] + Chance(e)' <= accounts[e] + Chance(e)
  <2> DEFINE more == Strays(e) \cup {w}
  <2>1. /\ IsFiniteSet(more)
        /\ Cardinality(more) \in {Cardinality(Strays(e)), Cardinality(Strays(e)) + 1}
    BY <1>2, FS_AddElement
  <2>2. Strays(e)' \subseteq more
    BY <1>7
  <2> HIDE DEF more
  <2>3. accounts'[e] + Cardinality(Strays(e)') + Chance(e)' <= 1 + lostLocks'
    BY <1>1, <1>2, <1>3, <1>4, <1>7, <2>1, <2>2
  <2> QED
    BY <1>4, <2>1, <2>2, <2>3 DEF WithinBudget
<1> QED
  BY <1>5, <1>6, <1>7

\* A step that gives nobody accounts and takes nobody's lock away from a handler.
LEMMA BudgetUntouched ==
  ASSUME TypeInv, TypeInv', BudgetInv, UNCHANGED <<accounts, lostLocks>>,
         NEW e \in Emails,
         Strays(e)' \subseteq Strays(e), Inserts(e)' => Inserts(e) \/ accounts[e] = 0
  PROVE  WithinBudget(e)'
<1>1. Chance(e)' <= Chance(e) /\ Chance(e) \in {0, 1} /\ Chance(e)' \in {0, 1}
  BY DEF Chance
<1>2. accounts[e] \in Nat
  BY DEF TypeInv, TypeOK
<1>3. accounts'[e] + Chance(e)' <= accounts[e] + Chance(e)
  BY <1>1, <1>2
<1>4. WithinBudget(e)
  BY DEF BudgetInv
<1> QED
  BY <1>3, <1>4, BudgetKept

\* The lookup and what follows on it: the holder of the lock goes on only if there is nothing.
LEMMA FindBudget ==
  ASSUME TypeInv, TypeInv', BudgetInv, NEW w \in Workers, FindAccounts(w)
  PROVE  BudgetInv'
<1>1. /\ pc \in [Workers -> HandlerStates] /\ UNCHANGED <<accounts, lostLocks, lock, jobState, job>>
      /\ pc[w] = "find" /\ accounts[job[w]] \in Nat
      /\ \/ pc' = [pc EXCEPT ![w] = "insert"] /\ accounts[job[w]] = 0
         \/ \E m \in {"resolved", "rejected"} : pc' = [pc EXCEPT ![w] = m]
  BY DEF FindAccounts, Q!Goto, HasAccounts, AfterError, queueVars, TypeInv, TypeOK
<1>2. ASSUME NEW e \in Emails
      PROVE  Strays(e)' \subseteq Strays(e) /\ (Inserts(e)' => Inserts(e) \/ accounts[e] = 0)
  BY <1>1 DEF Strays, Inserts, BeforeCommit
<1> QED
  BY <1>1, <1>2, BudgetUntouched DEF BudgetInv

\* The insert: a stray pays with its own share, the holder of the lock with the chance.
LEMMA CreateBudget ==
  ASSUME TypeInv, TypeInv', BudgetInv, NEW w \in Workers, CreateAccounts(w)
  PROVE  BudgetInv'
<1>1. /\ pc \in [Workers -> HandlerStates] /\ accounts \in [Emails -> Nat] /\ job[w] \in Emails
      /\ UNCHANGED <<lostLocks, lock, jobState, job>> /\ pc[w] = "insert"
      /\ \E m \in {"resolved", "rejected"} : pc' = [pc EXCEPT ![w] = m]
      /\ accounts' \in {accounts, [accounts EXCEPT ![job[w]] = @ + 1]}
  BY DEF CreateAccounts, Q!Goto, InsertAccounts, AfterError, queueVars, TypeInv, TypeOK
<1>2. SUFFICES ASSUME NEW e \in Emails PROVE WithinBudget(e)'
  BY <1>1 DEF BudgetInv
<1>3. Strays(e)' \subseteq Strays(e) \ {w} /\ (Inserts(e)' => Inserts(e))
  BY <1>1 DEF Strays, Inserts, BeforeCommit
<1>4. CASE accounts'[e] = accounts[e]
  <2>1. Chance(e)' <= Chance(e) /\ Chance(e) \in {0, 1} /\ Chance(e)' \in {0, 1}
    BY <1>3, <1>4 DEF Chance
  <2>2. accounts'[e] + Chance(e)' <= accounts[e] + Chance(e)
    BY <1>1, <1>4, <2>1
  <2> QED
    BY <1>1, <1>3, <2>2, BudgetKept DEF BudgetInv
<1>5. CASE e = job[w] /\ accounts'[e] = accounts[e] + 1 /\ lock[e] # w
  <2>1. w \in Strays(e)
    BY <1>1, <1>5 DEF Strays, BeforeCommit
  <2>2. Chance(e)' <= Chance(e) /\ Chance(e) \in {0, 1} /\ Chance(e)' \in {0, 1}
    BY <1>1, <1>3, <1>5 DEF Chance
  <2>3. accounts'[e] + Chance(e)' <= accounts[e] + Chance(e) + 1
    BY <1>1, <1>5, <2>2
  <2> QED
    BY <1>1, <1>3, <2>1, <2>3, BudgetKept DEF BudgetInv
<1>6. CASE e = job[w] /\ accounts'[e] = accounts[e] + 1 /\ lock[e] = w
  <2>1. Chance(e) = 1
    BY <1>1, <1>6 DEF Chance, Inserts
  <2>2. Chance(e)' = 0
    BY <1>1, <1>6 DEF Chance, Inserts
  <2>3. accounts'[e] + Chance(e)' <= accounts[e] + Chance(e)
    BY <1>1, <1>6, <2>1, <2>2
  <2> QED
    BY <1>1, <1>3, <2>3, BudgetKept DEF BudgetInv
<1> QED
  BY <1>1, <1>4, <1>5, <1>6

\* A worker that takes a job takes it from nobody, and starts with a lookup.
LEMMA StartBudget ==
  ASSUME TypeInv, TypeInv', BudgetInv, NEW w \in Workers, NEW s \in Emails, StartJob(w, s)
  PROVE  BudgetInv'
<1>1. /\ pc \in [Workers -> HandlerStates] /\ job \in [Workers -> Emails \cup {NoEmail}]
      /\ lock \in [Emails -> Workers \cup {NoWorker}] /\ jobState \in [Emails -> Q!JobStates]
      /\ jobState[s] = "wait" /\ pc[w] = "idle" /\ UNCHANGED <<accounts, lostLocks>>
      /\ jobState' = [jobState EXCEPT ![s] = "active"] /\ lock' = [lock EXCEPT ![s] = w]
      /\ pc' = [pc EXCEPT ![w] = "find"] /\ job' = [job EXCEPT ![w] = s]
  BY DEF StartJob, Q!StartJob, Q!MoveToActive, TypeInv, TypeOK, Q!QueueTypeOK
<1>2. lock[s] = NoWorker
  BY <1>1 DEF BudgetInv
<1>3. ASSUME NEW e \in Emails
      PROVE  /\ Strays(e)' \subseteq Strays(e) /\ (Inserts(e)' => Inserts(e))
             /\ jobState'[e] = "active" \/ lock'[e] = NoWorker
  BY <1>1, <1>2, CreationAssumption DEF Strays, Inserts, BeforeCommit, BudgetInv
<1> QED
  BY <1>1, <1>3, BudgetUntouched DEF BudgetInv

\* A handler that ends, or whose process dies, leaves no stray.
LEMMA EndBudget ==
  ASSUME TypeInv, TypeInv', BudgetInv, NEW w \in Workers, JobDone(w) \/ Crash(w)
  PROVE  BudgetInv'
<1>1. /\ pc \in [Workers -> HandlerStates] /\ job \in [Workers -> Emails \cup {NoEmail}]
      /\ lock \in [Emails -> Workers \cup {NoWorker}] /\ jobState \in [Emails -> Q!JobStates]
      /\ UNCHANGED <<accounts, lostLocks>>
      /\ pc' = [pc EXCEPT ![w] = "idle"] /\ job' = [job EXCEPT ![w] = NoEmail]
  BY DEF JobDone, Crash, Q!JobResolved, Q!JobRejected, Q!Die, Q!Release, TypeInv, TypeOK,
     Q!QueueTypeOK
<1>2. \/ UNCHANGED <<lock, jobState>>
      \/ /\ lock[job[w]] = w /\ lock' = [lock EXCEPT ![job[w]] = NoWorker]
         /\ \A e \in Emails \ {job[w]} : jobState'[e] = jobState[e]
  BY <1>1
  DEF JobDone, Crash, Q!JobResolved, Q!JobRejected, Q!Die, Q!MoveToCompleted, Q!MoveToFailed,
              Q!queueVars
<1>3. ASSUME NEW e \in Emails
      PROVE  /\ Strays(e)' \subseteq Strays(e) /\ (Inserts(e)' => Inserts(e))
             /\ jobState'[e] = "active" \/ lock'[e] = NoWorker
  BY <1>1, <1>2, CreationAssumption DEF Strays, Inserts, BeforeCommit, BudgetInv
<1> QED
  BY <1>1, <1>3, BudgetUntouched DEF BudgetInv

\* A lock lost by its handler makes that handler a stray, and is paid for.
LEMMA LockLostBudget ==
  ASSUME TypeInv, TypeInv', BudgetInv, NEW s \in Emails, LockLost(s)
  PROVE  BudgetInv'
<1>1. /\ accounts \in [Emails -> Nat] /\ lock \in [Emails -> Workers \cup {NoWorker}]
      /\ jobState[s] = "active" /\ lock[s] \in Workers
      /\ lock' = [lock EXCEPT ![s] = NoWorker] /\ lostLocks' = lostLocks + 1
      /\ UNCHANGED <<accounts, jobState, pc, job>>
  BY DEF LockLost, Q!LockLost, Q!ExpireLock, TypeInv, TypeOK, Q!QueueTypeOK
<1>2. SUFFICES ASSUME NEW e \in Emails PROVE WithinBudget(e)'
  BY <1>1 DEF BudgetInv
<1>3. Strays(e)' \subseteq Strays(e) \cup {lock[s]} /\ (Inserts(e)' => Inserts(e))
  BY <1>1, CreationAssumption DEF Strays, Inserts
<1>4. Chance(e)' <= Chance(e) /\ Chance(e) \in {0, 1} /\ Chance(e)' \in {0, 1}
  BY <1>1, <1>3 DEF Chance
<1>5. accounts'[e] + Chance(e)' <= accounts[e] + Chance(e)
  BY <1>1, <1>4
<1> QED
  BY <1>1, <1>3, <1>5, BudgetKept DEF BudgetInv

\* A lock that runs out had no handler; the other timers are about unlocked jobs.
LEMMA TimersBudget ==
  ASSUME TypeInv, TypeInv', BudgetInv, NEW s \in Emails, QueueTimers(s)
  PROVE  BudgetInv'
<1>1. /\ lock \in [Emails -> Workers \cup {NoWorker}] /\ jobState \in [Emails -> Q!JobStates]
      /\ UNCHANGED <<accounts, lostLocks, pc, job>>
  BY DEF QueueTimers, Q!Timers, Q!LockExpires, TypeInv, TypeOK, Q!QueueTypeOK
<1>2. \/ /\ ~Q!Held(s) /\ lock' = [lock EXCEPT ![s] = NoWorker] /\ jobState' = jobState
      \/ /\ jobState[s] = "delayed" \/ lock[s] = NoWorker
         /\ lock' = lock /\ \A e \in Emails \ {s} : jobState'[e] = jobState[e]
  BY <1>1 DEF QueueTimers, Q!Timers, Q!LockExpires, Q!ExpireLock, Q!Promote, Q!MoveStalledJob
<1>3. ASSUME NEW e \in Emails
      PROVE  /\ Strays(e)' \subseteq Strays(e) /\ (Inserts(e)' => Inserts(e))
             /\ jobState'[e] = "active" \/ lock'[e] = NoWorker
  BY <1>1, <1>2, CreationAssumption DEF Strays, Inserts, BudgetInv, Q!Held
<1> QED
  BY <1>1, <1>3, BudgetUntouched DEF BudgetInv

\* A request at most adds a job, which nobody has locked.
LEMMA RequestsBudget ==
  ASSUME TypeInv, TypeInv', BudgetInv, NEW c \in Clients, RequestStep(c)
  PROVE  BudgetInv'
<1>1. /\ UNCHANGED <<accounts, lostLocks, pc, job, lock>> /\ jobState \in [Emails -> Q!JobStates]
      /\ \/ UNCHANGED jobState
         \/ \E s : jobState[s] = "absent" /\ jobState' = [jobState EXCEPT ![s] = "wait"]
  BY DEF RequestStep, Signup, CreateUser, CreateProfile, ConfirmAndSignIn, EnqueueAccountCreation,
         SignupAborted, SubmitSignup, Q!Add, queueVars, handlerVars, TypeInv, TypeOK, Q!QueueTypeOK
<1>2. ASSUME NEW e \in Emails
      PROVE  /\ Strays(e)' \subseteq Strays(e) /\ (Inserts(e)' => Inserts(e))
             /\ jobState'[e] = "active" \/ lock'[e] = NoWorker
  BY <1>1 DEF Strays, Inserts, BudgetInv
<1> QED
  BY <1>1, <1>2, BudgetUntouched DEF BudgetInv

LEMMA BudgetStep == TypeInv /\ BudgetInv /\ [Next]_vars => BudgetInv'
<1> SUFFICES ASSUME TypeInv, BudgetInv, [Next]_vars PROVE BudgetInv'
  OBVIOUS
<1>1. TypeInv'
  BY TypeStep
<1>2. CASE \E c \in Clients : RequestStep(c)
  BY <1>1, <1>2, RequestsBudget
<1>3. CASE QueueStep
  BY <1>1, <1>3, FindBudget, CreateBudget, StartBudget, EndBudget, LockLostBudget, TimersBudget
     DEF QueueStep, HandlerStep
<1>4. CASE UNCHANGED vars
  BY <1>4 DEF BudgetInv, WithinBudget, Strays, Chance, Inserts, vars, queueVars, handlerVars
<1> QED
  BY <1>2, <1>3, <1>4, EitherSide

LEMMA BudgetAlways == Spec => []BudgetInv
<1>1. Init => BudgetInv
  <2> SUFFICES ASSUME Init, NEW e \in Emails
               PROVE  lock[e] = NoWorker /\ WithinBudget(e)
    BY DEF BudgetInv
  <2>1. lock[e] = NoWorker /\ accounts[e] = 0 /\ lostLocks = 0
    BY DEF Init, Q!WorkersInit, Q!QueueInit
  <2>2. Strays(e) = {} /\ Chance(e) = 1
    BY <2>1 DEF Strays, BeforeCommit, Chance, Init, Q!WorkersInit
  <2> QED
    BY <2>1, <2>2, FS_EmptySet DEF WithinBudget
<1> QED
  BY <1>1, BudgetStep, TypedAlways, PTL DEF Spec

LEMMA BudgetBounds ==
  ASSUME TypeInv, BudgetInv, NEW e \in Emails
  PROVE  accounts[e] <= 1 + lostLocks
<1>1. /\ accounts[e] \in Nat /\ lostLocks \in Int /\ Chance(e) \in {0, 1}
      /\ Cardinality(Strays(e)) \in Nat
      /\ accounts[e] + Cardinality(Strays(e)) + Chance(e) <= 1 + lostLocks
  BY CreationAssumption, FS_CardinalityType DEF TypeInv, TypeOK, Chance, BudgetInv, WithinBudget
<1> QED
  BY <1>1

\* Of all that can go wrong only a lost lock gives a user a second set of accounts, and each
\* lost lock at most one: the retry of a handler that crashed, failed or does not know whether
\* its commit was made looks first.
THEOREM LostLocksBoundDuplicates == Spec => []DuplicatesNeedLostLock
<1>1. TypeInv /\ BudgetInv => DuplicatesNeedLostLock
  BY BudgetBounds DEF DuplicatesNeedLostLock
<1> QED
  BY <1>1, TypedAlways, BudgetAlways, PTL

--------------------------------------------------------------------------------
(* Nobody is forgotten.  As long as nothing goes wrong no handler throws,  *)
(* every active job has its handler, and a user without a job has a        *)
(* request that is on the way to add it.                                   *)

Unforgotten(e) == jobState[e] # "absent" \/ \E c \in Clients : email[c] = e /\ step[c] \in AfterCreate

Smooth ==
  /\ \A w \in Workers : pc[w] # "rejected"
  /\ \A e \in Emails : /\ jobState[e] \notin {"delayed", "failed"}
                       /\ jobState[e] = "active" => Q!Held(e)
  /\ \A e \in users : Unforgotten(e)

SmoothInv == faults = 0 => Smooth

\* Faults are not taken back.
LEMMA FaultsGrow ==
  ASSUME TypeInv, [Next]_vars, faults' = 0
  PROVE  faults = 0
<1>1. faults \in Nat
  BY CreationAssumption DEF TypeInv, TypeOK
<1>2. faults' = faults \/ faults' = faults + 1
  BY EitherSide DEF RequestStep, Signup, CreateUser, CreateProfile, ConfirmAndSignIn, SignupAborted,
     EnqueueAccountCreation, SubmitSignup, QueueStep, HandlerStep, FindAccounts, CreateAccounts,
     JobDone,
     Crash, StartJob, LockLost, QueueTimers, Q!Fault, Q!JobResolved, Q!JobRejected, Q!Die,
     Q!StartJob,
     Q!LockLost, Q!Timers, Q!LockExpires, vars
<1> QED
  BY <1>1, <1>2

\* A request that ends without a fault has added its job.
LEMMA RequestsSmooth ==
  ASSUME TypeInv, Smooth, NEW c \in Clients, RequestStep(c), UNCHANGED faults
  PROVE  Smooth'
<1>1. /\ step \in [Clients -> SignupSteps] /\ email \in [Clients -> Emails \cup {NoEmail}]
      /\ jobState \in [Emails -> Q!JobStates] /\ faults \in Nat
      /\ UNCHANGED <<pc, job, lock>>
  BY CreationAssumption DEF RequestStep, Signup, CreateUser, CreateProfile, ConfirmAndSignIn,
     EnqueueAccountCreation, SignupAborted, SubmitSignup, Q!Add, queueVars, handlerVars, TypeInv,
     TypeOK,
     Q!QueueTypeOK
<1>2. \A e \in Emails : Q!Held(e)' <=> Q!Held(e)
  BY <1>1 DEF Q!Held
<1>3. ASSUME NEW e \in Emails, SubmitSignup(c, e)
      PROVE  Smooth'
  <2>1. /\ step' = [step EXCEPT ![c] = "create"] /\ email' = [email EXCEPT ![c] = e]
        /\ step[c] = "none" /\ UNCHANGED <<users, jobState>>
    BY <1>3 DEF SubmitSignup, SignupGoes, queueVars
  <2>2. ASSUME NEW f \in users PROVE Unforgotten(f)'
    BY <1>1, <2>1 DEF Smooth, Unforgotten, AfterCreate
  <2> QED
    BY <1>1, <1>2, <2>1, <2>2 DEF Smooth, Q!Held
<1>4. CASE CreateUser(c) \/ CreateProfile(c) \/ ConfirmAndSignIn(c)
  <2>1. /\ UNCHANGED <<email, jobState>>
        /\ \/ users' = users /\ step[c] \notin AfterCreate
           \/ users' \subseteq users \cup {email[c]} /\ step'[c] \in AfterCreate
        /\ \A d \in Clients \ {c} : step'[d] = step[d]
    BY <1>1, <1>4
    DEF CreateUser, CreateProfile, ConfirmAndSignIn, SignupGoes, queueVars, AfterCreate
  <2>2. ASSUME NEW f \in users' PROVE Unforgotten(f)'
    BY <2>1 DEF Smooth, Unforgotten
  <2> QED
    BY <1>1, <1>2, <2>1, <2>2 DEF Smooth, Q!Held
<1>5. CASE EnqueueAccountCreation(c)
  <2>1. /\ UNCHANGED <<email, users>> /\ step' = [step EXCEPT ![c] = "done"]
        /\ jobState' = [jobState EXCEPT ![email[c]] = "wait"]
        /\ step[c] = "enqueue"
    BY <1>5 DEF EnqueueAccountCreation, SignupGoes, Q!Add
  <2>2. email[c] \in Emails
    BY <2>1 DEF TypeInv
  <2>3. ASSUME NEW f \in users PROVE Unforgotten(f)'
    <3>1. f \in Emails
      BY DEF TypeInv, TypeOK
    <3> QED
      BY <1>1, <2>1, <2>2, <3>1 DEF Smooth, Unforgotten
  <2>4. ASSUME NEW e \in Emails
        PROVE  jobState'[e] \notin {"delayed", "failed"} /\ (jobState'[e] = "active" => jobState[e] = "active")
    BY <1>1, <2>1, <2>2 DEF Smooth
  <2> QED
    BY <1>1, <2>1, <2>3, <2>4 DEF Smooth, Q!Held
<1>6. ~SignupAborted(c)
  BY <1>1 DEF SignupAborted, Q!Fault
<1> QED
  BY <1>3, <1>4, <1>5, <1>6 DEF RequestStep, Signup

\* Without a fault no handler throws, and only the handler that ends gives its lock back.
LEMMA QueueSmooth ==
  ASSUME TypeInv, Smooth, QueueStep, UNCHANGED faults
  PROVE  Smooth'
<1>1. /\ pc \in [Workers -> HandlerStates] /\ job \in [Workers -> Emails \cup {NoEmail}]
      /\ lock \in [Emails -> Workers \cup {NoWorker}] /\ jobState \in [Emails -> Q!JobStates]
      /\ faults \in Nat /\ UNCHANGED <<step, email, users>> /\ users \subseteq Emails
  BY QueueStaysTyped, CreationAssumption
  DEF requestSide, requestVars, TypeInv, TypeOK, Q!QueueTypeOK
<1>2. ASSUME \A w \in Workers : pc'[w] # "rejected",
             \A e \in Emails :
               /\ jobState[e] # "absent" => jobState'[e] # "absent"
               /\ jobState'[e] \notin {"delayed", "failed"}
               /\ jobState'[e] = "active" => Q!Held(e)'
      PROVE  Smooth'
  BY <1>1, <1>2 DEF Smooth, Unforgotten
<1>3. ASSUME NEW w \in Workers, FindAccounts(w) \/ CreateAccounts(w)
      PROVE  Smooth'
  <2>1. /\ UNCHANGED <<job, lock, jobState>>
        /\ \E m \in {"insert", "resolved"} : pc' = [pc EXCEPT ![w] = m]
    BY <1>1, <1>3 DEF FindAccounts, CreateAccounts, Q!Goto, Q!Fault, queueVars
  <2> QED
    BY <1>1, <1>2, <2>1 DEF Smooth, Q!Held
<1>4. ASSUME NEW w \in Workers, JobDone(w)
      PROVE  Smooth'
  <2>1. /\ pc' = [pc EXCEPT ![w] = "idle"] /\ job' = [job EXCEPT ![w] = NoEmail]
        /\ pc[w] = "resolved" /\ job[w] \in Emails
        /\ \/ /\ lock[job[w]] = w /\ lock' = [lock EXCEPT ![job[w]] = NoWorker]
              /\ jobState' = [jobState EXCEPT ![job[w]] = "completed"]
           \/ lock[job[w]] # w /\ UNCHANGED <<lock, jobState>>
    BY <1>1, <1>4
    DEF Smooth, TypeInv, JobDone, Q!JobResolved, Q!JobRejected, Q!Release, Q!MoveToCompleted,
                Q!queueVars
  <2>2. ASSUME NEW e \in Emails, jobState'[e] = "active"
        PROVE  Q!Held(e)'
    <3>1. PICK o \in Workers : lock[e] = o /\ job[o] = e
      BY <1>1, <2>1, <2>2 DEF Smooth, Q!Held
    <3>2. o # w /\ lock'[e] = lock[e]
      BY <1>1, <2>1, <2>2, <3>1
    <3> QED
      BY <1>1, <2>1, <3>1, <3>2 DEF Q!Held
  <2> QED
    BY <1>1, <1>2, <2>1, <2>2 DEF Smooth
<1>5. ASSUME NEW w \in Workers, NEW s \in Emails, StartJob(w, s)
      PROVE  Smooth'
  <2>1. /\ jobState' = [jobState EXCEPT ![s] = "active"] /\ lock' = [lock EXCEPT ![s] = w]
        /\ pc' = [pc EXCEPT ![w] = "find"] /\ job' = [job EXCEPT ![w] = s]
        /\ job[w] \notin Emails
    BY <1>5 DEF StartJob, Q!StartJob, Q!MoveToActive, TypeInv
  <2>2. ASSUME NEW e \in Emails, jobState'[e] = "active"
        PROVE  Q!Held(e)'
    <3>1. CASE e = s
      BY <1>1, <2>1, <3>1 DEF Q!Held
    <3>2. CASE e # s
      <4>1. PICK o \in Workers : lock[e] = o /\ job[o] = e
        BY <1>1, <2>1, <2>2, <3>2 DEF Smooth, Q!Held
      <4>2. lock'[e] = o /\ job'[o] = e
        BY <1>1, <2>1, <3>2, <4>1
      <4> QED
        BY <4>2 DEF Q!Held
    <3> QED
      BY <3>1, <3>2
  <2> QED
    BY <1>1, <1>2, <2>1, <2>2 DEF Smooth
<1>6. ASSUME NEW s \in Emails, QueueTimers(s)
      PROVE  FALSE
  <2>1. ~Q!MoveStalledJob(s) /\ ~Q!LockExpires(s) /\ ~Q!Promote(s)
    BY <1>1, CreationAssumption
    DEF Smooth, Q!MoveStalledJob, Q!LockExpires, Q!ExpireLock, Q!Promote, Q!Held
  <2> QED
    BY <1>6, <2>1 DEF QueueTimers, Q!Timers
<1>7. (\A w \in Workers : ~Crash(w)) /\ (\A e \in Emails : ~LockLost(e))
  BY <1>1 DEF Crash, LockLost, Q!Die, Q!LockLost, Q!Fault
<1> QED
  BY <1>3, <1>4, <1>5, <1>6, <1>7 DEF QueueStep, HandlerStep

LEMMA SmoothStep == TypeInv /\ SmoothInv /\ [Next]_vars => SmoothInv'
<1> SUFFICES ASSUME TypeInv, SmoothInv, [Next]_vars, faults' = 0 PROVE Smooth'
  BY DEF SmoothInv
<1>1. faults = 0 /\ Smooth /\ UNCHANGED faults
  BY FaultsGrow DEF SmoothInv
<1>2. CASE UNCHANGED vars
  BY <1>1, <1>2 DEF Smooth, Unforgotten, vars, requestVars, queueVars, handlerVars, Q!Held
<1> QED
  BY <1>1, <1>2, RequestsSmooth, QueueSmooth, EitherSide

\* As long as nothing goes wrong, a user in the table has exactly one set of accounts, or a
\* job that will look for them, or a signup that is still on the way to add the job.
THEOREM NobodyIsForgotten == Spec => []NobodyForgotten
<1>1. Init => SmoothInv
  BY DEF Init, SmoothInv, Smooth, Q!WorkersInit, Q!QueueInit
<1>2. TypeInv /\ ReturnedInv /\ BudgetInv /\ SmoothInv => NobodyForgotten
  <2> SUFFICES ASSUME TypeInv, ReturnedInv, BudgetInv, SmoothInv, faults = 0, NEW e \in users
               PROVE  \/ \E c \in Clients : email[c] = e /\ step[c] \in AfterCreate
                      \/ jobState[e] \in {"wait", "active", "delayed"}
                      \/ accounts[e] = 1
    BY DEF NobodyForgotten
  <2>1. e \in Emails /\ accounts[e] \in Nat /\ lostLocks = 0
    BY CreationAssumption DEF TypeInv, TypeOK
  <2>2. jobState[e] \notin {"delayed", "failed"} /\ Unforgotten(e)
    BY <2>1 DEF SmoothInv, Smooth
  <2>3. jobState[e] \in {"absent", "wait", "active", "completed"}
    BY <2>1, <2>2 DEF TypeInv, TypeOK, Q!QueueTypeOK, Q!JobStates
  <2>4. jobState[e] = "completed" => accounts[e] >= 1
    BY <2>1 DEF ReturnedInv, CompletedMeansAccounts
  <2>5. accounts[e] <= 1
    BY <2>1, BudgetBounds
  <2> QED
    BY <2>1, <2>2, <2>3, <2>4, <2>5 DEF Unforgotten
<1> QED
  BY <1>1, <1>2, ReturnedAlways, SmoothStep, TypedAlways, BudgetAlways, PTL DEF Spec
================================================================================
