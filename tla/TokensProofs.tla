----------------------------- MODULE TokensProofs -----------------------------
(***************************************************************************)
(* Safety of CredentialTokens for any requests, workers, clock, lifetime   *)
(* of a token and number of faults: what becomes of a token from the       *)
(* request that makes it, through its mail, to the one that comes with it. *)
(***************************************************************************)
EXTENDS CredentialTokens, TLAPS, FiniteSetTheorems

--------------------------------------------------------------------------------
(* Types.  TypeOK is not inductive: usedUp holds requests only because the *)
(* request that clears a token came with one.                              *)

TypeInv ==
  /\ TypeOK
  /\ \A w \in Workers : pc[w] # "idle" <=> job[w] \in Requests
  /\ \A r \in Requests : /\ kind[r] = "reset" => token[r] \in Requests
                         /\ step[r] \in {"setPassword", "clear"} => kind[r] = "reset"
                         /\ step[r] = "saveConfirm" => kind[r] = "resend"

\* A request comes in.
BeginStep(r) ==
  \/ BeginPasswordReset(r) \/ \E t \in Mailed("forgot") : CompletePasswordReset(r, t)
  \/ ResendConfirmEmail(r) \/ \E t \in Mailed("resend") : ConfirmUserAccount(r, t)

\* The steps behind mailQueue.add.
MailStep ==
  \/ \E w \in Workers : HandlerStep(w) \/ Crash(w) \/ \E r \in Requests : StartJob(w, r)
  \/ \E r \in Requests : LockLost(r) \/ QueueTimers(r)

\* What they leave as it is.
requestSide == <<now, rowVars, profile, requestVars, history>>

LEMMA EitherSide ==
  ASSUME [Next]_vars
  PROVE  \/ \E r \in Requests : BeginStep(r) \/ RequestStep(r) \/ RequestLost(r)
         \/ MailStep \/ Tick \/ UNCHANGED vars
BY DEF Next, BeginStep, MailStep, Rest

LEMMA MailStepSide ==
  ASSUME MailStep
  PROVE  UNCHANGED requestSide
BY DEF MailStep, HandlerStep, Render, SendMail, JobDone, Crash, StartJob, LockLost, QueueTimers,
   requestSide

\* Each request is of one kind, and comes with one token, for good.
LEMMA BeginTyped ==
  ASSUME TypeInv, NEW r \in Requests, BeginStep(r)
  PROVE  TypeInv'
<1>1. /\ kind \in [Requests -> {"none", "forgot", "reset", "resend", "confirm"}]
      /\ step \in [Requests -> Steps] /\ token \in [Requests -> Requests \cup {None}]
      /\ during \in [Requests -> SUBSET Requests]
  BY DEF TypeInv, TypeOK
<1>2. UNCHANGED <<now, rowVars, profile, queueVars, handlerVars, faults, latestReset, usedUp, shadowed, early>>
  BY DEF BeginStep, BeginPasswordReset, CompletePasswordReset, ResendConfirmEmail,
     ConfirmUserAccount,
         Begin, history
<1>3. during' \in [Requests -> SUBSET Requests]
  <2>1. UnderWay("reset") \in SUBSET Requests
    BY DEF UnderWay
  <2>2. during' = during \/ during' = [during EXCEPT ![r] = UnderWay("reset")]
    BY DEF BeginStep, BeginPasswordReset, CompletePasswordReset, ResendConfirmEmail,
       ConfirmUserAccount,
           history
  <2> QED
    BY <1>1, <2>1, <2>2
<1>4. PICK k \in {"forgot", "reset", "resend", "confirm"}, t \in Requests \cup {None}, m \in Steps :
        /\ Begin(r, k, t, m)
        /\ k = "reset" => t \in Requests
        /\ m \in {"setPassword", "clear"} => k = "reset"
        /\ m = "saveConfirm" => k = "resend"
  <2>1. ASSUME NEW t \in Mailed("forgot"), CompletePasswordReset(r, t)
        PROVE  t \in Requests /\ \E m \in {"setPassword", "refused"} : Begin(r, "reset", t, m)
    BY <2>1 DEF CompletePasswordReset, Mailed
  <2>2. ASSUME NEW t \in Mailed("resend"), ConfirmUserAccount(r, t)
        PROVE  t \in Requests /\ \E m \in {"mark", "refused"} : Begin(r, "confirm", t, m)
    BY <2>2 DEF ConfirmUserAccount, Mailed
  <2>3. ResendConfirmEmail(r) => \E m \in {"saveConfirm", "done"} : Begin(r, "resend", None, m)
    BY DEF ResendConfirmEmail
  <2>4. BeginPasswordReset(r) => Begin(r, "forgot", None, "saveReset")
    BY DEF BeginPasswordReset
  <2>5. {"setPassword", "refused", "mark", "saveConfirm", "done", "saveReset"} \subseteq Steps
    BY DEF Steps, Awaits
  <2> HIDE DEF Steps
  <2>6. CASE \E t \in Mailed("forgot") : CompletePasswordReset(r, t)
    BY <2>1, <2>5, <2>6
  <2>7. CASE \E t \in Mailed("resend") : ConfirmUserAccount(r, t)
    BY <2>2, <2>5, <2>7
  <2>8. CASE ResendConfirmEmail(r)
    BY <2>3, <2>5, <2>8
  <2>9. CASE BeginPasswordReset(r)
    BY <2>4, <2>5, <2>9
  <2> QED
    BY <2>6, <2>7, <2>8, <2>9 DEF BeginStep
<1>5. /\ kind' = [kind EXCEPT ![r] = k] /\ token' = [token EXCEPT ![r] = t]
      /\ step' = [step EXCEPT ![r] = m]
  BY <1>4 DEF Begin
<1>6. /\ kind' \in [Requests -> {"none", "forgot", "reset", "resend", "confirm"}]
      /\ step' \in [Requests -> Steps] /\ token' \in [Requests -> Requests \cup {None}]
  BY <1>1, <1>5
<1>7. ASSUME NEW s \in Requests
      PROVE  /\ kind'[s] = "reset" => token'[s] \in Requests
             /\ step'[s] \in {"setPassword", "clear"} => kind'[s] = "reset"
             /\ step'[s] = "saveConfirm" => kind'[s] = "resend"
  BY <1>1, <1>4, <1>5 DEF TypeInv
<1>8. TypeOK'
  BY <1>2, <1>3, <1>6
  DEF TypeInv, TypeOK, rowVars, queueVars, handlerVars, Q!QueueTypeOK, Q!JobStates
<1> QED
  BY <1>2, <1>7, <1>8 DEF TypeInv, handlerVars

\* The awaits of a request, and what each puts into the row.
LEMMA RequestTyped ==
  ASSUME TypeInv, NEW r \in Requests, RequestStep(r) \/ RequestLost(r)
  PROVE  TypeInv'
<1>1. step \in [Requests -> Steps] /\ ResetAge \in Nat /\ MaxTime \in Nat /\ now \in 0..MaxTime
  BY TokensAssumption DEF TypeInv, TypeOK
<1>2. /\ UNCHANGED <<kind, token, handlerVars>>
      /\ \E m \in Steps : /\ step' = [step EXCEPT ![r] = m]
                          /\ m \in {"setPassword", "clear"} => kind[r] = "reset"
                          /\ m # "saveConfirm"
  BY DEF RequestStep, ResetStep, ConfirmStep, RequestLost, CreateAndSaveForgotPasswordToken,
     SetPassword,
         MarkUserPasswordAsReset, CreateAndSaveEmailConfirmToken, MarkUserAsConfirmed, QueueMail,
         RequestGoes, AfterMail, Steps, Awaits
<1>3. /\ step' \in [Requests -> Steps]
      /\ \A s \in Requests : /\ step'[s] \in {"setPassword", "clear"} => kind'[s] = "reset"
                             /\ step'[s] = "saveConfirm" => kind'[s] = "resend"
  BY <1>1, <1>2 DEF TypeInv
<1>4. ASSUME TypeOK'
      PROVE  TypeInv'
  BY <1>2, <1>3, <1>4 DEF TypeInv, handlerVars
<1>5. CASE ResetStep(r)
  <2>1. kind[r] = "reset" => token[r] \in Requests
    BY DEF TypeInv
  <2>2. /\ passwordResetToken' \in {passwordResetToken, r, None}
        /\ passwordResetExpires' \in {passwordResetExpires, now + ResetAge, 0}
        /\ password' \in {password, [by |-> r, scheme |-> "bcrypt"]}
        /\ latestReset' \in {latestReset, r} /\ shadowed' \subseteq shadowed \cup {r}
        /\ UNCHANGED <<now, emailConfirmToken, isConfirmedUser, profile, queueVars, faults, during, early>>
    BY <1>5 DEF ResetStep, CreateAndSaveForgotPasswordToken, SetPassword, MarkUserPasswordAsReset,
                DateFromUnitTime, history
  <2>3. usedUp' \subseteq Requests
    <3>1. usedUp \subseteq Requests /\ (step[r] = "clear" => token[r] \in Requests)
      BY <2>1 DEF TypeInv, TypeOK
    <3>2. usedUp' = usedUp \/ (step[r] = "clear" /\ usedUp' = usedUp \cup {token[r]})
      BY <1>5 DEF ResetStep, CreateAndSaveForgotPasswordToken, SetPassword, MarkUserPasswordAsReset,
                  RequestGoes, history
    <3> QED
      BY <3>1, <3>2
  <2>4. now + ResetAge \in 0..(MaxTime + ResetAge) /\ 0 \in 0..(MaxTime + ResetAge)
    BY <1>1
  <2>5. TypeOK'
    BY <1>2, <1>3, <2>2, <2>3, <2>4
    DEF TypeInv, TypeOK, queueVars, handlerVars, Q!QueueTypeOK, Q!JobStates
  <2> QED
    BY <1>4, <2>5
<1>6. CASE ConfirmStep(r)
  <2>1. /\ emailConfirmToken' \in {r, None} /\ isConfirmedUser' \in {isConfirmedUser, TRUE}
        /\ early' \subseteq early \cup Requests
        /\ UNCHANGED <<now, passwordResetToken, passwordResetExpires, password, profile, queueVars, faults,
                       latestReset, usedUp, shadowed, during>>
    BY <1>6 DEF ConfirmStep, CreateAndSaveEmailConfirmToken, MarkUserAsConfirmed, UnderWay, history
  <2>2. isConfirmedUser' \in BOOLEAN
    BY <2>1 DEF TypeInv, TypeOK
  <2>3. TypeOK'
    BY <1>2, <1>3, <2>1, <2>2
    DEF TypeInv, TypeOK, queueVars, handlerVars, Q!QueueTypeOK, Q!JobStates
  <2> QED
    BY <1>4, <2>3
<1>7. CASE QueueMail(r) \/ RequestLost(r)
  <2>1. /\ UNCHANGED <<now, rowVars, profile, history>>
        /\ UNCHANGED faults \/ (faults < MaxFaults /\ faults' = faults + 1)
        /\ \/ UNCHANGED queueVars
           \/ /\ jobState' = [jobState EXCEPT ![r] = "wait"]
              /\ UNCHANGED <<lock, attemptsMade, stalledCounter>>
    BY <1>7 DEF QueueMail, RequestLost, Q!Add, Q!Fault
  <2>2. faults' \in 0..MaxFaults /\ Q!QueueTypeOK'
    BY <2>1, TokensAssumption DEF TypeInv, TypeOK, queueVars, Q!QueueTypeOK, Q!JobStates
  <2>3. TypeOK'
    BY <1>2, <1>3, <2>1, <2>2 DEF TypeInv, TypeOK, rowVars, handlerVars, history
  <2> QED
    BY <1>4, <2>3
<1> QED
  BY <1>5, <1>6, <1>7 DEF RequestStep

\* The queue keeps its types, whatever a handler or a timer does to it.
LEMMA QueueStaysTyped ==
  ASSUME TypeInv, MailStep
  PROVE  Q!QueueTypeOK' /\ faults' \in 0..MaxFaults
<1>1. Q!QueueTypeOK /\ faults \in 0..MaxFaults
  BY DEF TypeInv, TypeOK
<1>2. ASSUME NEW w \in Workers, Render(w) \/ SendMail(w) \/ Crash(w)
      PROVE  UNCHANGED queueVars /\ (UNCHANGED faults \/ Q!Fault)
  BY <1>2 DEF Render, SendMail, Crash, Q!Die, queueVars
<1>3. ASSUME NEW w \in Workers, JobDone(w)
      PROVE  UNCHANGED faults /\ Q!QueueTypeOK'
  BY <1>1, <1>3 DEF JobDone, Q!JobResolved, Q!JobRejected, Q!MoveToCompleted, Q!MoveToFailed,
                    Q!QueueTypeOK, Q!JobStates, Q!queueVars
<1>4. ASSUME NEW w \in Workers, NEW r \in Requests, StartJob(w, r)
      PROVE  UNCHANGED faults /\ Q!QueueTypeOK'
  BY <1>1, <1>4 DEF StartJob, Q!StartJob, Q!MoveToActive, Q!QueueTypeOK, Q!JobStates
<1>5. ASSUME NEW r \in Requests, LockLost(r) \/ QueueTimers(r)
      PROVE  (UNCHANGED faults \/ Q!Fault) /\ Q!QueueTypeOK'
  BY <1>1, <1>5
  DEF LockLost, QueueTimers, Q!LockLost, Q!Timers, Q!LockExpires, Q!ExpireLock, Q!Promote,
                    Q!MoveStalledJob, Q!QueueTypeOK, Q!JobStates
<1>6. UNCHANGED queueVars => Q!QueueTypeOK'
  BY <1>1 DEF queueVars, Q!QueueTypeOK, Q!JobStates
<1>7. UNCHANGED faults \/ Q!Fault => faults' \in 0..MaxFaults
  BY <1>1, TokensAssumption DEF Q!Fault
<1> QED
  BY <1>2, <1>3, <1>4, <1>5, <1>6, <1>7 DEF MailStep, HandlerStep

\* A worker that is not idle afterwards took up its job, or went on with it.
LEMMA WorkersStayTyped ==
  ASSUME TypeInv, MailStep
  PROVE  /\ job' \in [Workers -> Requests \cup {None}] /\ sent' \in [Requests -> Nat]
         /\ pc' \in [Workers -> {"idle", "render", "send", "resolved", "rejected"}]
         /\ \A w \in Workers : pc'[w] # "idle" <=> job'[w] \in Requests
<1> DEFINE Working == {"render", "send", "resolved", "rejected"}
<1>1. /\ job \in [Workers -> Requests \cup {None}] /\ pc \in [Workers -> Working \cup {"idle"}]
      /\ sent \in [Requests -> Nat]
      /\ \A w \in Workers : pc[w] # "idle" <=> job[w] \in Requests
  BY DEF TypeInv, TypeOK
<1>2. ASSUME NEW w \in Workers, Render(w) \/ SendMail(w)
      PROVE  /\ \E m \in Working : pc[w] # "idle" /\ pc' = [pc EXCEPT ![w] = m] /\ job' = job
             /\ \E r : sent' \in {sent, [sent EXCEPT ![r] = @ + 1]}
  BY <1>2 DEF Render, SendMail, Q!Goto, CountMail
<1>3. ASSUME NEW w \in Workers, JobDone(w) \/ Crash(w)
      PROVE  job' = [job EXCEPT ![w] = None] /\ pc' = [pc EXCEPT ![w] = "idle"] /\ sent' = sent
  BY <1>3 DEF JobDone, Crash, Q!JobResolved, Q!JobRejected, Q!Die, Q!Release
<1>4. ASSUME NEW w \in Workers, NEW r \in Requests, StartJob(w, r)
      PROVE  job' = [job EXCEPT ![w] = r] /\ pc' = [pc EXCEPT ![w] = "render"] /\ sent' = sent
  BY <1>4 DEF StartJob, Q!StartJob
<1>5. ASSUME NEW r \in Requests, LockLost(r) \/ QueueTimers(r)
      PROVE  job' = job /\ pc' = pc /\ sent' = sent
  BY <1>5 DEF LockLost, QueueTimers, Q!LockLost, Q!Timers, Q!LockExpires
<1>6. CASE \E w \in Workers : Render(w) \/ SendMail(w)
  BY <1>1, <1>2, <1>6
<1>7. CASE \E w \in Workers : JobDone(w) \/ Crash(w)
  BY <1>1, <1>3, <1>7, TokensAssumption
<1>8. CASE \E w \in Workers, r \in Requests : StartJob(w, r)
  BY <1>1, <1>4, <1>8
<1>9. CASE \E r \in Requests : LockLost(r) \/ QueueTimers(r)
  BY <1>1, <1>5, <1>9
<1> QED
  BY <1>6, <1>7, <1>8, <1>9 DEF MailStep, HandlerStep

LEMMA TypeStep == TypeInv /\ [Next]_vars => TypeInv'
<1> SUFFICES ASSUME TypeInv, [Next]_vars PROVE TypeInv'
  OBVIOUS
<1>1. CASE \E r \in Requests : BeginStep(r) \/ RequestStep(r) \/ RequestLost(r)
  BY <1>1, BeginTyped, RequestTyped
<1>2. CASE MailStep
  BY <1>2, MailStepSide, QueueStaysTyped, WorkersStayTyped
     DEF TypeInv, TypeOK, requestSide, rowVars, requestVars, history
<1>3. CASE Tick
  <2>1. now' \in 0..MaxTime
    BY <1>3, TokensAssumption DEF Tick, TypeInv, TypeOK
  <2> QED
    BY <1>3, <2>1 DEF Tick, TypeInv, TypeOK, rowVars, requestVars, queueVars, handlerVars, history,
                      Q!QueueTypeOK, Q!JobStates
<1>4. CASE UNCHANGED vars
  BY <1>4 DEF vars, TypeInv, TypeOK, rowVars, requestVars, queueVars, handlerVars, history,
              Q!QueueTypeOK, Q!JobStates
<1> QED
  BY <1>1, <1>2, <1>3, <1>4, EitherSide

LEMMA TypeInit == Init => TypeInv
<1> SUFFICES ASSUME Init PROVE TypeInv
  OBVIOUS
<1>1. TypeOK
  <2>1. now \in 0..MaxTime /\ passwordResetExpires \in 0..(MaxTime + ResetAge) /\ faults \in 0..MaxFaults
    BY TokensAssumption DEF Init, Q!WorkersInit
  <2>2. Q!QueueTypeOK
    BY DEF Init, Q!WorkersInit, Q!QueueInit, Q!QueueTypeOK, Q!JobStates
  <2>3. isConfirmedUser \in BOOLEAN /\ profile \in BOOLEAN
    BY DEF Init
  <2>4. /\ {passwordResetToken, emailConfirmToken, latestReset} \subseteq Requests \cup {None}
        /\ usedUp \cup shadowed \cup early \subseteq Requests
        /\ during \in [Requests -> SUBSET Requests]
        /\ password \in [by : Requests \cup {None}, scheme : {"argon2", "bcrypt"}]
    BY DEF Init
  <2> QED
    BY <2>1, <2>2, <2>3, <2>4 DEF Init, TypeOK, Steps, Q!WorkersInit
<1> QED
  BY <1>1, TokensAssumption DEF Init, TypeInv, Q!WorkersInit

LEMMA TypedAlways == Spec => []TypeInv
BY TypeInit, TypeStep, PTL DEF Spec

\* The columns of the row, the requests, the mail queue and its workers stay within their types.
THEOREM TokensTypeCorrect == Spec => []TypeOK
<1>1. TypeInv => TypeOK
  BY DEF TypeInv
<1> QED
  BY <1>1, TypedAlways, PTL

--------------------------------------------------------------------------------
(* A token gets out by its mail only, which is queued once the token is in *)
(* the row: a request comes with a token only when the request that made   *)
(* it will not write it any more.                                          *)

Behind == {"clear", "done", "lost"}

MailInv ==
  /\ \A r \in Requests : jobState[r] # "absent" => step[r] \in Behind
  /\ \A r \in Requests : sent[r] > 0 => jobState[r] # "absent"
  /\ \A w \in Workers : pc[w] # "idle" => jobState[job[w]] # "absent"

LEMMA MailedIsBehind ==
  ASSUME MailInv, NEW k, NEW t \in Mailed(k)
  PROVE  t \in Requests /\ kind[t] = k /\ step[t] \in Behind
BY DEF MailInv, Mailed

\* A request goes its way by its own steps, from await to await; what it is stays what it is.
LEMMA OwnSteps ==
  ASSUME TypeInv, [Next]_vars, NEW r \in Requests
  PROVE  \/ /\ step'[r] = step[r] /\ kind'[r] = kind[r] /\ token'[r] = token[r]
            /\ during'[r] = during[r]
         \/ BeginStep(r) /\ step[r] = "none"
         \/ /\ RequestStep(r) \/ RequestLost(r)
            /\ step[r] \in Awaits /\ step'[r] \in Awaits \cup {"done", "lost"}
            /\ kind'[r] = kind[r] /\ token'[r] = token[r] /\ during'[r] = during[r]
<1>1. /\ kind \in [Requests -> {"none", "forgot", "reset", "resend", "confirm"}]
      /\ step \in [Requests -> Steps] /\ token \in [Requests -> Requests \cup {None}]
      /\ during \in [Requests -> SUBSET Requests]
  BY DEF TypeInv, TypeOK
<1>2. ASSUME NEW s \in Requests, BeginStep(s)
      PROVE  /\ step[s] = "none"
             /\ s # r => /\ step'[r] = step[r] /\ kind'[r] = kind[r] /\ token'[r] = token[r]
                         /\ during'[r] = during[r]
  BY <1>1, <1>2 DEF BeginStep, BeginPasswordReset, CompletePasswordReset, ResendConfirmEmail,
                    ConfirmUserAccount, Begin, history
<1>3. ASSUME NEW s \in Requests, RequestStep(s) \/ RequestLost(s)
      PROVE  /\ UNCHANGED <<kind, token, during>>
             /\ step[s] \in Awaits /\ step'[s] \in Awaits \cup {"done", "lost"}
             /\ s # r => step'[r] = step[r]
  BY <1>1, <1>3
  DEF RequestStep, ResetStep, ConfirmStep, RequestLost, CreateAndSaveForgotPasswordToken,
                    SetPassword, MarkUserPasswordAsReset, CreateAndSaveEmailConfirmToken,
                    MarkUserAsConfirmed, QueueMail, RequestGoes, AfterMail, Awaits, history
<1>4. MailStep \/ Tick \/ UNCHANGED vars => UNCHANGED <<step, kind, token, during>>
  BY MailStepSide DEF requestSide, requestVars, history, Tick, vars
<1> QED
  BY <1>2, <1>3, <1>4, EitherSide

\* A request that is behind its mail stays there.
LEMMA BehindForGood ==
  ASSUME TypeInv, [Next]_vars, NEW r \in Requests, step[r] \in Behind
  PROVE  step'[r] \in Behind
<1>1. step \in [Requests -> Steps]
  BY DEF TypeInv, TypeOK
<1>2. (RequestStep(r) \/ RequestLost(r)) => step'[r] \in Behind
  BY <1>1 DEF RequestStep, ResetStep, ConfirmStep, RequestLost, CreateAndSaveForgotPasswordToken,
              SetPassword, MarkUserPasswordAsReset, CreateAndSaveEmailConfirmToken,
              MarkUserAsConfirmed, QueueMail, RequestGoes, Behind
<1> QED
  BY <1>2, OwnSteps DEF Behind

\* A mail is queued by its request, and its job is never absent again.
LEMMA JobsAdded ==
  ASSUME TypeInv, MailInv, [Next]_vars, NEW r \in Requests
  PROVE  /\ jobState[r] # "absent" => jobState'[r] # "absent"
         /\ jobState'[r] # "absent" => jobState[r] # "absent" \/ QueueMail(r)
<1>1. jobState \in [Requests -> Q!JobStates]
  BY DEF TypeInv, TypeOK, Q!QueueTypeOK
<1>2. ASSUME NEW s \in Requests, QueueMail(s)
      PROVE  jobState'[r] = jobState[r] \/ (r = s /\ jobState[r] = "absent" /\ jobState'[r] = "wait")
  BY <1>1, <1>2 DEF QueueMail, Q!Add, queueVars
<1>3. ASSUME NEW s \in Requests, BeginStep(s) \/ ResetStep(s) \/ ConfirmStep(s) \/ RequestLost(s)
      PROVE  jobState' = jobState
  BY <1>3
  DEF BeginStep, BeginPasswordReset, CompletePasswordReset, ResendConfirmEmail, ConfirmUserAccount,
              Begin, ResetStep, ConfirmStep, RequestLost, CreateAndSaveForgotPasswordToken,
              SetPassword,
              MarkUserPasswordAsReset, CreateAndSaveEmailConfirmToken, MarkUserAsConfirmed,
              queueVars
<1>4. ASSUME NEW w \in Workers, Render(w) \/ SendMail(w) \/ Crash(w)
      PROVE  jobState' = jobState
  BY <1>4 DEF Render, SendMail, Crash, Q!Die, queueVars
<1>5. ASSUME NEW w \in Workers, JobDone(w)
      PROVE  jobState'[r] = jobState[r] \/ (jobState[r] # "absent" /\ jobState'[r] # "absent")
  BY <1>1, <1>5
  DEF MailInv, JobDone, Q!JobResolved, Q!JobRejected, Q!MoveToCompleted, Q!MoveToFailed, Q!queueVars
<1>6. ASSUME NEW w \in Workers, NEW s \in Requests, StartJob(w, s)
      PROVE  jobState'[r] = jobState[r] \/ (jobState[r] # "absent" /\ jobState'[r] # "absent")
  BY <1>1, <1>6 DEF StartJob, Q!StartJob, Q!MoveToActive
<1>7. ASSUME NEW s \in Requests, LockLost(s) \/ QueueTimers(s)
      PROVE  jobState'[r] = jobState[r] \/ (jobState[r] # "absent" /\ jobState'[r] # "absent")
  BY <1>1, <1>7
  DEF LockLost, QueueTimers, Q!LockLost, Q!Timers, Q!LockExpires, Q!ExpireLock, Q!Promote,
                    Q!MoveStalledJob
<1> QED
  BY <1>2, <1>3, <1>4, <1>5, <1>6, <1>7, EitherSide
     DEF RequestStep, MailStep, HandlerStep, Tick, queueVars, vars

\* Only its workers step behind the queue, and only SendMail sends.
LEMMA RequestsLeaveWorkers ==
  ASSUME NEW r \in Requests, BeginStep(r) \/ RequestStep(r) \/ RequestLost(r)
  PROVE  UNCHANGED handlerVars
BY DEF BeginStep, BeginPasswordReset, CompletePasswordReset, ResendConfirmEmail, ConfirmUserAccount,
       Begin, RequestStep, ResetStep, ConfirmStep, RequestLost, CreateAndSaveForgotPasswordToken,
       SetPassword, MarkUserPasswordAsReset, CreateAndSaveEmailConfirmToken, MarkUserAsConfirmed,
       QueueMail

LEMMA HandlersRest ==
  ASSUME [Next]_vars
  PROVE  \/ UNCHANGED <<job, pc>>
         \/ \E w \in Workers : HandlerStep(w) \/ Crash(w) \/ \E r \in Requests : StartJob(w, r)
<1>1. ASSUME NEW r \in Requests, LockLost(r) \/ QueueTimers(r)
      PROVE  UNCHANGED <<job, pc>>
  BY <1>1 DEF LockLost, QueueTimers, Q!LockLost, Q!Timers, Q!LockExpires
<1>2. Tick \/ UNCHANGED vars => UNCHANGED handlerVars
  BY DEF Tick, vars
<1>3. UNCHANGED handlerVars => UNCHANGED <<job, pc>>
  BY DEF handlerVars
<1> QED
  BY <1>1, <1>2, <1>3, RequestsLeaveWorkers, EitherSide DEF MailStep

LEMMA SentBySendMail ==
  ASSUME TypeInv, [Next]_vars, NEW r \in Requests
  PROVE  sent'[r] = sent[r] \/ \E w \in Workers : SendMail(w) /\ job[w] = r
<1>1. sent \in [Requests -> Nat]
  BY DEF TypeInv, TypeOK
<1>2. ASSUME NEW w \in Workers, SendMail(w)
      PROVE  sent'[r] = sent[r] \/ job[w] = r
  BY <1>1, <1>2 DEF SendMail, CountMail
<1>3. UNCHANGED sent \/ \E w \in Workers : SendMail(w)
  <2>1. MailStep => UNCHANGED sent \/ \E w \in Workers : SendMail(w)
    BY DEF MailStep, HandlerStep, Render, JobDone, Crash, StartJob, LockLost, QueueTimers
  <2>2. Tick \/ UNCHANGED vars => UNCHANGED handlerVars
    BY DEF Tick, vars
  <2> QED
    BY <2>1, <2>2, RequestsLeaveWorkers, EitherSide DEF handlerVars
<1> QED
  BY <1>2, <1>3

LEMMA MailInvStep == TypeInv /\ MailInv /\ [Next]_vars => MailInv'
<1> SUFFICES ASSUME TypeInv, MailInv, [Next]_vars PROVE MailInv'
  OBVIOUS
<1>1. /\ step \in [Requests -> Steps] /\ sent \in [Requests -> Nat]
      /\ job \in [Workers -> Requests \cup {None}]
      /\ pc \in [Workers -> {"idle", "render", "send", "resolved", "rejected"}]
      /\ \A w \in Workers : pc[w] # "idle" <=> job[w] \in Requests
  BY DEF TypeInv, TypeOK
<1>2. ASSUME NEW r \in Requests, jobState'[r] # "absent"
      PROVE  step'[r] \in Behind
  <2>1. QueueMail(r) => step'[r] \in Behind
    BY <1>1 DEF QueueMail, RequestGoes, AfterMail, Behind
  <2>2. jobState[r] # "absent" => step[r] \in Behind
    BY DEF MailInv
  <2> QED
    BY <1>2, <2>1, <2>2, JobsAdded, BehindForGood
<1>3. ASSUME NEW w \in Workers, pc'[w] # "idle"
      PROVE  jobState'[job'[w]] # "absent"
  <2>1. \/ job'[w] = job[w] /\ pc[w] # "idle"
        \/ \E r \in Requests : StartJob(w, r)
    <3>1. ASSUME NEW o \in Workers, HandlerStep(o) \/ Crash(o)
          PROVE  job'[w] = job[w] /\ pc[w] # "idle"
      BY <1>1, <1>3, <3>1 DEF HandlerStep, Render, SendMail, JobDone, Crash, Q!Goto, Q!JobResolved,
                              Q!JobRejected, Q!Die, Q!Release
    <3>2. ASSUME NEW o \in Workers, NEW r \in Requests, StartJob(o, r)
          PROVE  (job'[w] = job[w] /\ pc[w] # "idle") \/ o = w
      BY <1>1, <1>3, <3>2 DEF StartJob, Q!StartJob
    <3>3. CASE UNCHANGED <<job, pc>>
      BY <1>3, <3>3
    <3>4. \/ UNCHANGED <<job, pc>>
          \/ \E o \in Workers : HandlerStep(o) \/ Crash(o) \/ \E r \in Requests : StartJob(o, r)
      BY HandlersRest
    <3> QED
      BY <3>1, <3>2, <3>3, <3>4
  <2>2. CASE job'[w] = job[w] /\ pc[w] # "idle"
    BY <1>1, <2>2, JobsAdded DEF MailInv
  <2>3. ASSUME NEW r \in Requests, StartJob(w, r)
        PROVE  job'[w] = r /\ jobState[r] # "absent"
    BY <1>1, <2>3 DEF StartJob, Q!StartJob, Q!MoveToActive
  <2> QED
    BY <2>1, <2>2, <2>3, JobsAdded
<1>4. ASSUME NEW r \in Requests, sent'[r] > 0
      PROVE  jobState'[r] # "absent"
  <2>1. sent'[r] = sent[r] \/ \E w \in Workers : SendMail(w) /\ job[w] = r
    BY <1>1, SentBySendMail
  <2>2. ASSUME NEW w \in Workers, SendMail(w)
        PROVE  pc[w] # "idle"
    BY <2>2 DEF SendMail, Q!Goto
  <2>3. jobState[r] # "absent"
    BY <1>1, <1>4, <2>1, <2>2 DEF MailInv
  <2> QED
    BY <2>3, JobsAdded
<1> QED
  BY <1>2, <1>3, <1>4 DEF MailInv

LEMMA MailAlways == Spec => []MailInv
<1>1. Init => MailInv
  BY DEF Init, MailInv, Q!WorkersInit, Q!QueueInit
<1> QED
  BY <1>1, MailInvStep, TypedAlways, PTL DEF Spec

--------------------------------------------------------------------------------
(* A token resets the password once.  A reset that ran to its end has      *)
(* cleared its token, which is never written again: the request that made  *)
(* it is behind its mail.                                                  *)

ResetInv ==
  \A r \in Requests : Verified(r) =>
    /\ step[token[r]] \in Behind
    /\ step[r] = "done" => passwordResetToken # token[r]

\* The column is written by the request that makes a token, and cleared by a reset.
LEMMA ResetTokenWritten ==
  ASSUME [Next]_vars
  PROVE  \/ passwordResetToken' = passwordResetToken
         \/ \E r \in Requests : CreateAndSaveForgotPasswordToken(r) \/ MarkUserPasswordAsReset(r)
<1>1. ASSUME NEW r \in Requests, BeginStep(r) \/ RequestLost(r)
      PROVE  passwordResetToken' = passwordResetToken
  BY <1>1
  DEF BeginStep, BeginPasswordReset, CompletePasswordReset, ResendConfirmEmail, ConfirmUserAccount,
              Begin, RequestLost, rowVars
<1>2. ASSUME NEW r \in Requests, SetPassword(r) \/ ConfirmStep(r) \/ QueueMail(r)
      PROVE  passwordResetToken' = passwordResetToken
  BY <1>2
  DEF SetPassword, ConfirmStep, CreateAndSaveEmailConfirmToken, MarkUserAsConfirmed, QueueMail,
      rowVars
<1>3. MailStep \/ Tick \/ UNCHANGED vars => passwordResetToken' = passwordResetToken
  BY MailStepSide DEF requestSide, Tick, vars, rowVars
<1> QED
  BY <1>1, <1>2, <1>3, EitherSide DEF RequestStep, ResetStep

\* A reset begins with a token that came by mail and is the row's.
LEMMA ResetBegins ==
  ASSUME TypeInv, MailInv, [Next]_vars, NEW r \in Requests, Verified(r)', ~Verified(r)
  PROVE  /\ passwordResetToken = token'[r] /\ token'[r] \in Requests /\ step[token'[r]] \in Behind
         /\ kind[token'[r]] = "forgot" /\ step'[r] = "setPassword" /\ step[r] = "none"
         /\ during'[r] = UnderWay("reset")
         /\ UNCHANGED <<rowVars, latestReset, usedUp, shadowed>>
<1>1. /\ kind \in [Requests -> {"none", "forgot", "reset", "resend", "confirm"}]
      /\ step \in [Requests -> Steps] /\ token \in [Requests -> Requests \cup {None}]
      /\ during \in [Requests -> SUBSET Requests]
  BY DEF TypeInv, TypeOK
<1>2. BeginStep(r) /\ step[r] = "none"
  BY OwnSteps DEF Verified, Awaits
<1>3. ~BeginPasswordReset(r) /\ ~ResendConfirmEmail(r) /\ \A t : ~ConfirmUserAccount(r, t)
  BY <1>1 DEF BeginPasswordReset, ResendConfirmEmail, ConfirmUserAccount, Begin, Verified
<1>4. PICK t \in Mailed("forgot") : CompletePasswordReset(r, t)
  BY <1>2, <1>3 DEF BeginStep
<1>5. VerifyPasswordResetToken(t) /\ Begin(r, "reset", t, "setPassword")
  BY <1>1, <1>4 DEF CompletePasswordReset, Begin, Verified
<1>6. token'[r] = t /\ step'[r] = "setPassword"
  BY <1>1, <1>5 DEF Begin
<1>7. /\ during'[r] = UnderWay("reset") /\ UNCHANGED <<rowVars, latestReset, usedUp, shadowed>>
  BY <1>1, <1>4, <1>5 DEF CompletePasswordReset, Begin
<1> QED
  BY <1>2, <1>5, <1>6, <1>7, MailedIsBehind DEF VerifyPasswordResetToken

\* Once verified, a reset stays what it is.
LEMMA VerifiedForGood ==
  ASSUME TypeInv, [Next]_vars, NEW r \in Requests, Verified(r)
  PROVE  /\ Verified(r)' /\ token'[r] = token[r] /\ during'[r] = during[r]
         /\ step[r] \in Awaits \cup {"done", "lost"} /\ (step[r] = "lost" => step'[r] = "lost")
         /\ step'[r] = "done" => step[r] = "done" \/ MarkUserPasswordAsReset(r)
<1>1. step \in [Requests -> Steps]
  BY DEF TypeInv, TypeOK
<1>2. /\ Verified(r)' /\ token'[r] = token[r] /\ during'[r] = during[r]
      /\ step[r] \in Awaits \cup {"done", "lost"} /\ (step[r] = "lost" => step'[r] = "lost")
      /\ step'[r] = step[r] \/ RequestStep(r) \/ RequestLost(r)
  BY <1>1, OwnSteps DEF Verified, Steps, Awaits
<1>3. RequestStep(r) \/ RequestLost(r) => step'[r] # "done" \/ MarkUserPasswordAsReset(r)
  BY <1>1 DEF RequestStep, ResetStep, ConfirmStep, RequestLost, CreateAndSaveForgotPasswordToken,
              SetPassword, CreateAndSaveEmailConfirmToken, MarkUserAsConfirmed, QueueMail,
              RequestGoes,
              AfterMail, Verified
<1> QED
  BY <1>2, <1>3

LEMMA ResetStepKeeps == TypeInv /\ MailInv /\ ResetInv /\ [Next]_vars => ResetInv'
<1> SUFFICES ASSUME TypeInv, MailInv, ResetInv, [Next]_vars, NEW r \in Requests, Verified(r)'
             PROVE  /\ step'[token'[r]] \in Behind
                    /\ step'[r] = "done" => passwordResetToken' # token'[r]
  BY DEF ResetInv, Verified
<1>1. CASE ~Verified(r)
  BY <1>1, ResetBegins, BehindForGood
<1>2. CASE Verified(r)
  <2>1. /\ token'[r] = token[r] /\ token[r] \in Requests /\ step[token[r]] \in Behind
        /\ step[r] = "done" => passwordResetToken # token[r]
        /\ step'[r] = "done" => step[r] = "done" \/ MarkUserPasswordAsReset(r)
    BY <1>2, VerifiedForGood DEF ResetInv, Verified, TypeInv
  <2>2. step'[token[r]] \in Behind
    BY <2>1, BehindForGood
  <2>3. ASSUME NEW s \in Requests, CreateAndSaveForgotPasswordToken(s)
        PROVE  s # token[r] /\ passwordResetToken' = s /\ ~MarkUserPasswordAsReset(r)
    BY <2>1, <2>3
    DEF CreateAndSaveForgotPasswordToken, MarkUserPasswordAsReset, RequestGoes, Behind,
                      TypeInv, TypeOK
  <2>4. ASSUME NEW s \in Requests, MarkUserPasswordAsReset(s)
        PROVE  passwordResetToken' # token[r]
    BY <2>1, <2>4, TokensAssumption DEF MarkUserPasswordAsReset
  <2> QED
    BY <2>1, <2>2, <2>3, <2>4, ResetTokenWritten
<1> QED
  BY <1>1, <1>2

LEMMA ResetAlways == Spec => []ResetInv
<1>1. Init => ResetInv
  BY DEF Init, ResetInv, Verified
<1> QED
  BY <1>1, ResetStepKeeps, TypedAlways, MailAlways, PTL DEF Spec

LEMMA OneResetStep == TypeInv /\ MailInv /\ ResetInv /\ OneResetPerToken /\ [Next]_vars => OneResetPerToken'
<1> SUFFICES ASSUME TypeInv, MailInv, ResetInv, OneResetPerToken, [Next]_vars,
                    NEW r \in Requests, NEW s \in Requests, r # s,
                    Verified(r)', Verified(s)', token'[r] = token'[s]
             PROVE  r \in during'[s] \/ s \in during'[r] \/ "lost" \in {step'[r], step'[s]}
  BY DEF OneResetPerToken, Verified
<1>1. CASE Verified(r) /\ Verified(s)
  BY <1>1, VerifiedForGood DEF OneResetPerToken
<1>2. ASSUME NEW f \in Requests, NEW g \in Requests, f # g, token'[f] = token'[g],
             Verified(f), Verified(g)', ~Verified(g)
      PROVE  f \in during'[g] \/ step'[f] = "lost"
  <2>1. passwordResetToken = token[f] /\ during'[g] = UnderWay("reset")
    BY <1>2, ResetBegins, VerifiedForGood
  <2>2. step[f] # "done"
    BY <1>2, <2>1 DEF ResetInv
  <2>3. step[f] \in Awaits \/ step'[f] = "lost"
    BY <1>2, <2>2, VerifiedForGood
  <2> QED
    BY <1>2, <2>1, <2>3 DEF UnderWay, Verified
<1>3. Verified(r) \/ Verified(s)
  <2>1. SUFFICES ASSUME ~Verified(r), ~Verified(s) PROVE FALSE
    OBVIOUS
  <2>2. step[r] = "none" /\ step'[r] = "setPassword" /\ step[s] = "none" /\ step'[s] = "setPassword"
    BY <2>1, ResetBegins
  <2>3. BeginStep(r)
    BY <2>2, OwnSteps DEF Awaits
  <2> QED
    BY <2>2, <2>3 DEF BeginStep, BeginPasswordReset, CompletePasswordReset, ResendConfirmEmail,
                      ConfirmUserAccount, Begin, TypeInv, TypeOK
<1> QED
  BY <1>1, <1>2, <1>3

\* A link resets the password once, unless two resets with it were under way at a time or one
\* of them stopped half-way.
THEOREM TokensAreUsedOnce == Spec => []OneResetPerToken
<1>1. Init => OneResetPerToken
  BY DEF Init, OneResetPerToken, Verified
<1> QED
  BY <1>1, OneResetStep, ResetAlways, TypedAlways, MailAlways, PTL DEF Spec

--------------------------------------------------------------------------------
(* The newest link is good.  A reset under way came with the newest token, *)
(* or a newer one was saved meanwhile and is shadowed: what it clears is   *)
(* used up, or lost to a reset that was there before it.                   *)

LinkInv ==
  /\ NewestLinkIsGood
  /\ passwordResetToken \in {None, latestReset}
  /\ \A r \in UnderWay("reset") : token[r] = latestReset \/ latestReset \in shadowed

\* The history of the links is written where the column is.
LEMMA LinksWritten ==
  ASSUME [Next]_vars
  PROVE  \/ UNCHANGED <<passwordResetToken, latestReset, usedUp, shadowed>>
         \/ \E r \in Requests : CreateAndSaveForgotPasswordToken(r) \/ MarkUserPasswordAsReset(r)
<1>1. ASSUME NEW r \in Requests, BeginStep(r) \/ RequestLost(r)
      PROVE  UNCHANGED <<latestReset, usedUp, shadowed>>
  BY <1>1
  DEF BeginStep, BeginPasswordReset, CompletePasswordReset, ResendConfirmEmail, ConfirmUserAccount,
              Begin, RequestLost, history
<1>2. ASSUME NEW r \in Requests, SetPassword(r) \/ ConfirmStep(r) \/ QueueMail(r)
      PROVE  UNCHANGED <<latestReset, usedUp, shadowed>>
  BY <1>2
  DEF SetPassword, ConfirmStep, CreateAndSaveEmailConfirmToken, MarkUserAsConfirmed, QueueMail,
      history
<1>3. MailStep \/ Tick \/ UNCHANGED vars => UNCHANGED <<latestReset, usedUp, shadowed>>
  BY MailStepSide DEF requestSide, Tick, vars, history
<1> QED
  BY <1>1, <1>2, <1>3, ResetTokenWritten, EitherSide DEF RequestStep, ResetStep

\* A reset is under way since it began.
LEMMA UnderWayBefore ==
  ASSUME TypeInv, MailInv, [Next]_vars, NEW r \in UnderWay("reset")'
  PROVE  /\ r \in Requests
         /\ \/ r \in UnderWay("reset") /\ token'[r] = token[r]
            \/ /\ passwordResetToken = token'[r] /\ token'[r] \in Requests
               /\ UNCHANGED <<passwordResetToken, latestReset, shadowed>>
<1>1. r \in Requests /\ Verified(r)' /\ step'[r] \in Awaits
  BY DEF UnderWay, Verified, Awaits
<1>2. CASE Verified(r)
  <2>1. token'[r] = token[r] /\ kind[r] = "reset"
    BY <1>1, <1>2, VerifiedForGood DEF Verified
  <2>2. step[r] \in Awaits
    BY <1>1, <1>2, VerifiedForGood, OwnSteps DEF Verified, Awaits
  <2> QED
    BY <1>1, <2>1, <2>2 DEF UnderWay
<1>3. CASE ~Verified(r)
  BY <1>1, <1>3, ResetBegins DEF rowVars
<1> QED
  BY <1>1, <1>2, <1>3

LEMMA LinkStep == TypeInv /\ MailInv /\ LinkInv /\ [Next]_vars => LinkInv'
<1> SUFFICES ASSUME TypeInv, MailInv, LinkInv, [Next]_vars PROVE LinkInv'
  OBVIOUS
<1>1. ASSUME NEW s \in Requests, CreateAndSaveForgotPasswordToken(s)
      PROVE  LinkInv'
  <2>1. /\ passwordResetToken' = s /\ latestReset' = s
        /\ UnderWay("reset") # {} => s \in shadowed'
    BY <1>1 DEF CreateAndSaveForgotPasswordToken
  <2>2. ASSUME NEW r \in UnderWay("reset")'
        PROVE  r \in UnderWay("reset")
    BY <1>1, <2>2, <2>1, UnderWayBefore, OwnSteps
    DEF CreateAndSaveForgotPasswordToken, RequestGoes, UnderWay,
       TypeInv, TypeOK
  <2> QED
    BY <2>1, <2>2 DEF LinkInv, NewestLinkIsGood
<1>2. ASSUME NEW s \in Requests, MarkUserPasswordAsReset(s)
      PROVE  LinkInv'
  <2>1. /\ passwordResetToken' = None /\ usedUp' = usedUp \cup {token[s]}
        /\ UNCHANGED <<latestReset, shadowed>> /\ step[s] = "clear"
    BY <1>2 DEF MarkUserPasswordAsReset, RequestGoes
  <2>2. s \in UnderWay("reset")
    BY <2>1 DEF TypeInv, UnderWay, Awaits
  <2>3. latestReset \in usedUp' \cup shadowed'
    BY <2>1, <2>2 DEF LinkInv
  <2>4. ASSUME NEW r \in UnderWay("reset")'
        PROVE  token'[r] = latestReset \/ latestReset \in shadowed
    <3>1. token'[r] # None \/ r \in UnderWay("reset")
      BY <2>4, TokensAssumption, UnderWayBefore
    <3>2. r \in UnderWay("reset") /\ token'[r] = token[r] => token'[r] = latestReset \/ latestReset \in shadowed
      BY DEF LinkInv
    <3> QED
      BY <2>1, <2>4, <3>2, UnderWayBefore, TokensAssumption DEF LinkInv
  <2> QED
    BY <2>1, <2>3, <2>4 DEF LinkInv, NewestLinkIsGood
<1>3. CASE UNCHANGED <<passwordResetToken, latestReset, usedUp, shadowed>>
  <2>1. ASSUME NEW r \in UnderWay("reset")'
        PROVE  token'[r] = latestReset \/ latestReset \in shadowed
    <3>1. CASE r \in UnderWay("reset") /\ token'[r] = token[r]
      BY <3>1 DEF LinkInv
    <3>2. CASE passwordResetToken = token'[r] /\ token'[r] \in Requests
      BY <3>2, TokensAssumption DEF LinkInv
    <3> QED
      BY <2>1, <3>1, <3>2, UnderWayBefore
  <2> QED
    BY <1>3, <2>1 DEF LinkInv, NewestLinkIsGood
<1> QED
  BY <1>1, <1>2, <1>3, LinksWritten

\* The newest reset link is good until it is used: no older request, mail or reset takes it
\* from the row, except a reset that was verified before the link was made.
THEOREM NewestLinkStaysGood == Spec => []NewestLinkIsGood
<1>1. Init => LinkInv
  BY DEF Init, LinkInv, NewestLinkIsGood, UnderWay
<1>2. LinkInv => NewestLinkIsGood
  BY DEF LinkInv
<1> QED
  BY <1>1, <1>2, LinkStep, TypedAlways, MailAlways, PTL DEF Spec

--------------------------------------------------------------------------------
(* A confirmed user has no token.  Once the user is confirmed, the resends *)
(* that still have a token to save are the ones counted then.              *)

ConfirmInv ==
  /\ ConfirmedHasNoToken
  /\ isConfirmedUser => \A r \in Requests : step[r] = "saveConfirm" => r \in early

LEMMA ConfirmInvStep == TypeInv /\ ConfirmInv /\ [Next]_vars => ConfirmInv'
<1> SUFFICES ASSUME TypeInv, ConfirmInv, [Next]_vars PROVE ConfirmInv'
  OBVIOUS
<1>1. step \in [Requests -> Steps]
  BY DEF TypeInv, TypeOK
<1>2. ASSUME NEW r \in Requests, CreateAndSaveEmailConfirmToken(r)
      PROVE  ConfirmInv'
  <2>1. /\ emailConfirmToken' = r /\ UNCHANGED <<isConfirmedUser, early>>
        /\ step[r] = "saveConfirm" /\ step' = [step EXCEPT ![r] = "mail"]
    BY <1>2 DEF CreateAndSaveEmailConfirmToken, RequestGoes, history
  <2> QED
    BY <1>1, <2>1 DEF ConfirmInv, ConfirmedHasNoToken
<1>3. ASSUME NEW r \in Requests, MarkUserAsConfirmed(r)
      PROVE  ConfirmInv'
  <2>1. /\ emailConfirmToken' = None /\ step' = [step EXCEPT ![r] = "mail"]
        /\ early' = early \cup {s \in UnderWay("resend") : step[s] = "saveConfirm"}
    BY <1>3 DEF MarkUserAsConfirmed, RequestGoes
  <2>2. ASSUME NEW s \in Requests, step'[s] = "saveConfirm"
        PROVE  s \in early'
    BY <1>1, <2>1, <2>2 DEF TypeInv, UnderWay, Awaits
  <2> QED
    BY <2>1, <2>2 DEF ConfirmInv, ConfirmedHasNoToken
<1>4. ASSUME UNCHANGED <<emailConfirmToken, isConfirmedUser, early>>,
             \A s \in Requests : step'[s] = "saveConfirm" => step[s] = "saveConfirm" \/ ~isConfirmedUser
      PROVE  ConfirmInv'
  BY <1>4 DEF ConfirmInv, ConfirmedHasNoToken
<1>5. ASSUME NEW r \in Requests, BeginStep(r)
      PROVE  ConfirmInv'
  <2>1. UNCHANGED <<emailConfirmToken, isConfirmedUser, early>>
    BY <1>5
    DEF BeginStep, BeginPasswordReset, CompletePasswordReset, ResendConfirmEmail,
        ConfirmUserAccount,
                Begin, rowVars, history
  <2>2. \/ step' = [step EXCEPT ![r] = "saveConfirm"] /\ ~isConfirmedUser
        \/ \E m \in Steps \ {"saveConfirm"} : step' = [step EXCEPT ![r] = m]
    BY <1>5
    DEF BeginStep, BeginPasswordReset, CompletePasswordReset, ResendConfirmEmail,
        ConfirmUserAccount,
                Begin, AlreadyConfirmed, Steps, Awaits
  <2> QED
    BY <1>1, <1>4, <2>1, <2>2
<1>6. ASSUME NEW r \in Requests, ResetStep(r) \/ QueueMail(r) \/ RequestLost(r)
      PROVE  ConfirmInv'
  <2>1. UNCHANGED <<emailConfirmToken, isConfirmedUser, early>>
    BY <1>6
    DEF ResetStep, CreateAndSaveForgotPasswordToken, SetPassword, MarkUserPasswordAsReset,
        QueueMail,
                RequestLost, rowVars, history
  <2>2. \E m \in Steps \ {"saveConfirm"} : step' = [step EXCEPT ![r] = m]
    BY <1>6
    DEF ResetStep, CreateAndSaveForgotPasswordToken, SetPassword, MarkUserPasswordAsReset,
        QueueMail,
                RequestLost, RequestGoes, AfterMail, Steps, Awaits
  <2> QED
    BY <1>1, <1>4, <2>1, <2>2
<1>7. CASE MailStep \/ Tick \/ UNCHANGED vars
  <2>1. UNCHANGED <<emailConfirmToken, isConfirmedUser, early, step>>
    BY <1>7, MailStepSide DEF requestSide, requestVars, rowVars, history, Tick, vars
  <2> QED
    BY <1>4, <2>1
<1> QED
  BY <1>2, <1>3, <1>5, <1>6, <1>7, EitherSide DEF RequestStep, ConfirmStep

\* A confirmed user has no token left that would confirm the address once more, except from a
\* resend that had found the user unconfirmed.
THEOREM ConfirmationClearsToken == Spec => []ConfirmedHasNoToken
<1>1. Init => ConfirmInv
  BY DEF Init, ConfirmInv, ConfirmedHasNoToken
<1>2. ConfirmInv => ConfirmedHasNoToken
  BY DEF ConfirmInv
<1> QED
  BY <1>1, <1>2, ConfirmInvStep, TypedAlways, PTL DEF Spec

--------------------------------------------------------------------------------
(* How often a mail is sent.  A budget again: against 1 + stalledCounter   *)
(* count the mails sent, the workers that have one before them, and one    *)
(* more while the job is to be taken.  That there is one attempt matters:  *)
(* a job that failed would be taken again without having stalled.          *)

Sending(r) == {w \in Workers : job[w] = r /\ pc[w] \in {"render", "send"}}

ToBeTaken(r) == IF jobState[r] \in {"absent", "wait"} THEN 1 ELSE 0

WithinCopies(r) ==
  /\ IsFiniteSet(Sending(r))
  /\ sent[r] + Cardinality(Sending(r)) + ToBeTaken(r) <= 1 + stalledCounter[r]

CopiesInv == \A r \in Requests : jobState[r] # "delayed" /\ WithinCopies(r)

\* A stall pays for another try; a worker pays with its own share, or with the job it takes.
LEMMA CopiesKept ==
  ASSUME TypeInv, TypeInv', NEW r \in Requests, WithinCopies(r), NEW w,
         \/ /\ Sending(r)' \subseteq Sending(r)
            /\ sent'[r] + ToBeTaken(r)' - stalledCounter'[r] <= sent[r] + ToBeTaken(r) - stalledCounter[r]
         \/ /\ w \in Sending(r) /\ Sending(r)' \subseteq Sending(r) \ {w}
            /\ sent'[r] + ToBeTaken(r)' - stalledCounter'[r] <= sent[r] + ToBeTaken(r) + 1 - stalledCounter[r]
         \/ /\ Sending(r)' \subseteq Sending(r) \cup {w}
            /\ sent'[r] + ToBeTaken(r)' - stalledCounter'[r] + 1 <= sent[r] + ToBeTaken(r) - stalledCounter[r]
  PROVE  WithinCopies(r)'
<1>1. /\ sent[r] \in Nat /\ sent'[r] \in Nat /\ stalledCounter[r] \in Nat /\ stalledCounter'[r] \in Nat
      /\ ToBeTaken(r) \in {0, 1} /\ ToBeTaken(r)' \in {0, 1}
  BY DEF TypeInv, TypeOK, Q!QueueTypeOK, ToBeTaken
<1>2. IsFiniteSet(Sending(r)) /\ Cardinality(Sending(r)) \in Nat
  BY FS_CardinalityType DEF WithinCopies
<1>3. sent[r] + Cardinality(Sending(r)) + ToBeTaken(r) <= 1 + stalledCounter[r]
  BY DEF WithinCopies
<1>4. ASSUME NEW S, IsFiniteSet(S), Sending(r)' \subseteq S
      PROVE  /\ IsFiniteSet(Sending(r)') /\ Cardinality(Sending(r)') \in Nat
             /\ Cardinality(S) \in Nat /\ Cardinality(Sending(r)') <= Cardinality(S)
  BY <1>4, FS_Subset, FS_CardinalityType
<1>5. CASE /\ Sending(r)' \subseteq Sending(r)
           /\ sent'[r] + ToBeTaken(r)' - stalledCounter'[r] <= sent[r] + ToBeTaken(r) - stalledCounter[r]
  <2>1. sent'[r] + Cardinality(Sending(r)') + ToBeTaken(r)' <= 1 + stalledCounter'[r]
    BY <1>1, <1>2, <1>3, <1>4, <1>5
  <2> QED
    BY <1>2, <1>4, <1>5, <2>1 DEF WithinCopies
<1>6. CASE /\ w \in Sending(r) /\ Sending(r)' \subseteq Sending(r) \ {w}
           /\ sent'[r] + ToBeTaken(r)' - stalledCounter'[r] <= sent[r] + ToBeTaken(r) + 1 - stalledCounter[r]
  <2> DEFINE rest == Sending(r) \ {w}
  <2>1. IsFiniteSet(rest) /\ Cardinality(rest) = Cardinality(Sending(r)) - 1
    BY <1>2, <1>6, FS_RemoveElement
  <2>2. Sending(r)' \subseteq rest
    BY <1>6
  <2> HIDE DEF rest
  <2>3. sent'[r] + Cardinality(Sending(r)') + ToBeTaken(r)' <= 1 + stalledCounter'[r]
    BY <1>1, <1>2, <1>3, <1>4, <1>6, <2>1, <2>2
  <2> QED
    BY <1>4, <2>1, <2>2, <2>3 DEF WithinCopies
<1>7. CASE /\ Sending(r)' \subseteq Sending(r) \cup {w}
           /\ sent'[r] + ToBeTaken(r)' - stalledCounter'[r] + 1 <= sent[r] + ToBeTaken(r) - stalledCounter[r]
  <2> DEFINE more == Sending(r) \cup {w}
  <2>1. IsFiniteSet(more) /\ Cardinality(more) \in {Cardinality(Sending(r)), Cardinality(Sending(r)) + 1}
    BY <1>2, FS_AddElement
  <2>2. Sending(r)' \subseteq more
    BY <1>7
  <2> HIDE DEF more
  <2>3. sent'[r] + Cardinality(Sending(r)') + ToBeTaken(r)' <= 1 + stalledCounter'[r]
    BY <1>1, <1>2, <1>3, <1>4, <1>7, <2>1, <2>2
  <2> QED
    BY <1>4, <2>1, <2>2, <2>3 DEF WithinCopies
<1> QED
  BY <1>5, <1>6, <1>7

\* A step that sends nothing, and makes nothing to be taken that was not.
LEMMA CopiesUntouched ==
  ASSUME TypeInv, TypeInv', CopiesInv, NEW r \in Requests, sent'[r] = sent[r],
         stalledCounter'[r] = stalledCounter[r], Sending(r)' \subseteq Sending(r),
         jobState'[r] \in {"absent", "wait"} => jobState[r] \in {"absent", "wait"}
  PROVE  WithinCopies(r)'
<1>1. /\ sent[r] \in Nat /\ stalledCounter[r] \in Nat
      /\ ToBeTaken(r)' <= ToBeTaken(r) /\ ToBeTaken(r) \in {0, 1} /\ ToBeTaken(r)' \in {0, 1}
  BY DEF TypeInv, TypeOK, Q!QueueTypeOK, ToBeTaken
<1>2. sent'[r] + ToBeTaken(r)' - stalledCounter'[r] <= sent[r] + ToBeTaken(r) - stalledCounter[r]
  BY <1>1
<1> QED
  BY <1>2, CopiesKept DEF CopiesInv

\* The handler of w goes on without sending, ends, or dies with its process.
LEMMA HandlerCopies ==
  ASSUME TypeInv, TypeInv', CopiesInv, NEW w \in Workers, Render(w) \/ JobDone(w) \/ Crash(w)
  PROVE  CopiesInv'
<1>1. /\ pc \in [Workers -> {"idle", "render", "send", "resolved", "rejected"}]
      /\ job \in [Workers -> Requests \cup {None}] /\ jobState \in [Requests -> Q!JobStates]
      /\ attemptsMade \in [Requests -> Nat]
  BY DEF TypeInv, TypeOK, Q!QueueTypeOK
<1>2. /\ UNCHANGED <<sent, stalledCounter>>
      /\ pc[w] # "idle" /\ (pc'[w] = "send" => pc[w] = "render" /\ job'[w] = job[w])
      /\ pc'[w] # "render" /\ \A o \in Workers \ {w} : pc'[o] = pc[o] /\ job'[o] = job[o]
  BY <1>1 DEF Render, JobDone, Crash, Q!Goto, Q!JobResolved, Q!JobRejected, Q!Die, Q!Release,
              Q!MoveToCompleted, Q!MoveToFailed, Q!queueVars, queueVars
<1>3. ASSUME NEW r \in Requests
      PROVE  /\ jobState'[r] # "delayed"
             /\ jobState'[r] \in {"absent", "wait"} => jobState[r] \in {"absent", "wait"}
  <2>1. Render(w) \/ Crash(w) => UNCHANGED jobState
    BY DEF Render, Crash, Q!Die, queueVars
  <2>2. JobDone(w) => jobState'[r] \in {jobState[r], "completed", "failed"}
    BY <1>1
    DEF JobDone, Q!JobResolved, Q!JobRejected, Q!MoveToCompleted, Q!MoveToFailed, Q!queueVars
  <2> QED
    BY <2>1, <2>2 DEF CopiesInv
<1>4. ASSUME NEW r \in Requests PROVE Sending(r)' \subseteq Sending(r)
  BY <1>2 DEF Sending
<1> QED
  BY <1>2, <1>3, <1>4, CopiesUntouched DEF CopiesInv

\* A worker that takes a job takes its share with it.
LEMMA StartCopies ==
  ASSUME TypeInv, TypeInv', CopiesInv, NEW w \in Workers, NEW s \in Requests, StartJob(w, s)
  PROVE  CopiesInv'
<1>1. /\ pc \in [Workers -> {"idle", "render", "send", "resolved", "rejected"}]
      /\ job \in [Workers -> Requests \cup {None}] /\ jobState \in [Requests -> Q!JobStates]
      /\ jobState[s] = "wait" /\ jobState' = [jobState EXCEPT ![s] = "active"]
      /\ UNCHANGED <<sent, stalledCounter>> /\ pc[w] = "idle"
      /\ pc' = [pc EXCEPT ![w] = "render"] /\ job' = [job EXCEPT ![w] = s]
  BY DEF StartJob, Q!StartJob, Q!MoveToActive, TypeInv, TypeOK, Q!QueueTypeOK
<1>2. WithinCopies(s)'
  <2>1. Sending(s)' \subseteq Sending(s) \cup {w}
    BY <1>1 DEF Sending
  <2>2. ToBeTaken(s) = 1 /\ ToBeTaken(s)' = 0 /\ sent[s] \in Nat /\ stalledCounter[s] \in Nat
    BY <1>1 DEF ToBeTaken, TypeInv, TypeOK, Q!QueueTypeOK
  <2>3. sent'[s] + ToBeTaken(s)' - stalledCounter'[s] + 1 <= sent[s] + ToBeTaken(s) - stalledCounter[s]
    BY <1>1, <2>2
  <2> QED
    BY <2>1, <2>3, CopiesKept DEF CopiesInv
<1>3. ASSUME NEW r \in Requests \ {s} PROVE WithinCopies(r)'
  <2>1. Sending(r)' \subseteq Sending(r) /\ jobState'[r] = jobState[r]
    BY <1>1 DEF Sending
  <2> QED
    BY <1>1, <2>1, CopiesUntouched
<1> QED
  BY <1>1, <1>2, <1>3 DEF CopiesInv

\* A mail is sent by a worker that will not send another.
LEMMA SendCopies ==
  ASSUME TypeInv, TypeInv', CopiesInv, NEW w \in Workers, SendMail(w)
  PROVE  CopiesInv'
<1>1. /\ pc \in [Workers -> {"idle", "render", "send", "resolved", "rejected"}]
      /\ job[w] \in Requests /\ sent \in [Requests -> Nat]
      /\ UNCHANGED <<jobState, stalledCounter, job>> /\ pc[w] = "send"
      /\ \E m \in {"resolved", "rejected"} : pc' = [pc EXCEPT ![w] = m]
      /\ sent' \in {sent, [sent EXCEPT ![job[w]] = @ + 1]}
  BY DEF SendMail, Q!Goto, CountMail, queueVars, TypeInv, TypeOK
<1>2. ASSUME NEW r \in Requests
      PROVE  Sending(r)' \subseteq Sending(r) \ {w} /\ ToBeTaken(r)' = ToBeTaken(r)
  BY <1>1 DEF Sending, ToBeTaken
<1>3. ASSUME NEW r \in Requests, sent'[r] = sent[r]
      PROVE  WithinCopies(r)'
  BY <1>1, <1>2, <1>3, CopiesUntouched
<1>4. ASSUME NEW r \in Requests, r = job[w], sent'[r] = sent[r] + 1
      PROVE  WithinCopies(r)'
  <2>1. w \in Sending(r)
    BY <1>1, <1>4 DEF Sending
  <2>2. ToBeTaken(r) \in {0, 1} /\ sent[r] \in Nat /\ stalledCounter[r] \in Nat
    BY DEF ToBeTaken, TypeInv, TypeOK, Q!QueueTypeOK
  <2>3. sent'[r] + ToBeTaken(r)' - stalledCounter'[r] <= sent[r] + ToBeTaken(r) + 1 - stalledCounter[r]
    BY <1>1, <1>2, <1>4, <2>2
  <2> QED
    BY <1>2, <2>1, <2>3, CopiesKept DEF CopiesInv
<1>5. \A r \in Requests : sent'[r] = sent[r] \/ (r = job[w] /\ sent'[r] = sent[r] + 1)
  BY <1>1
<1> QED
  BY <1>1, <1>3, <1>4, <1>5 DEF CopiesInv

\* Only a stall makes a job be taken again.
LEMMA TimersCopies ==
  ASSUME TypeInv, TypeInv', CopiesInv, NEW s \in Requests, LockLost(s) \/ QueueTimers(s)
  PROVE  CopiesInv'
<1>1. /\ jobState \in [Requests -> Q!JobStates] /\ stalledCounter \in [Requests -> Nat]
      /\ UNCHANGED <<sent, pc, job>>
  BY DEF LockLost, QueueTimers, Q!LockLost, Q!Timers, Q!LockExpires, TypeInv, TypeOK, Q!QueueTypeOK
<1>2. \/ UNCHANGED <<jobState, stalledCounter>>
      \/ /\ jobState[s] = "active" /\ stalledCounter' = [stalledCounter EXCEPT ![s] = @ + 1]
         /\ \E j \in {"failed", "wait"} : jobState' = [jobState EXCEPT ![s] = j]
  BY DEF LockLost, QueueTimers, Q!LockLost, Q!Timers, Q!LockExpires, Q!ExpireLock, Q!Promote,
         Q!MoveStalledJob, CopiesInv
<1>3. ASSUME NEW r \in Requests PROVE Sending(r)' \subseteq Sending(r)
  BY <1>1 DEF Sending
<1>4. ASSUME NEW r \in Requests, UNCHANGED <<jobState[r], stalledCounter[r]>>
      PROVE  WithinCopies(r)'
  BY <1>1, <1>3, <1>4, CopiesUntouched
<1>5. ASSUME stalledCounter'[s] = stalledCounter[s] + 1
      PROVE  WithinCopies(s)'
  <2>1. /\ ToBeTaken(s) \in {0, 1} /\ ToBeTaken(s)' \in {0, 1} /\ ToBeTaken(s)' <= ToBeTaken(s) + 1
        /\ sent[s] \in Nat /\ stalledCounter[s] \in Nat
    BY DEF ToBeTaken, TypeInv, TypeOK, Q!QueueTypeOK
  <2>2. sent'[s] + ToBeTaken(s)' - stalledCounter'[s] <= sent[s] + ToBeTaken(s) - stalledCounter[s]
    BY <1>1, <1>5, <2>1
  <2> QED
    BY <1>3, <2>2, CopiesKept DEF CopiesInv
<1> QED
  BY <1>1, <1>2, <1>4, <1>5 DEF CopiesInv

\* A request at most adds its job.
LEMMA RequestCopies ==
  ASSUME TypeInv, TypeInv', CopiesInv, NEW r \in Requests,
         BeginStep(r) \/ RequestStep(r) \/ RequestLost(r)
  PROVE  CopiesInv'
<1>1. UNCHANGED <<sent, pc, job>>
  BY RequestsLeaveWorkers DEF handlerVars
<1>2. /\ UNCHANGED stalledCounter
      /\ \/ UNCHANGED jobState
         \/ jobState[r] = "absent" /\ jobState' = [jobState EXCEPT ![r] = "wait"]
  BY DEF BeginStep, BeginPasswordReset, CompletePasswordReset, ResendConfirmEmail,
     ConfirmUserAccount,
         Begin, RequestStep, ResetStep, ConfirmStep, RequestLost, CreateAndSaveForgotPasswordToken,
         SetPassword, MarkUserPasswordAsReset, CreateAndSaveEmailConfirmToken, MarkUserAsConfirmed,
         QueueMail, Q!Add, queueVars
<1>3. ASSUME NEW s \in Requests
      PROVE  /\ Sending(s)' \subseteq Sending(s) /\ jobState'[s] # "delayed"
             /\ jobState'[s] \in {"absent", "wait"} => jobState[s] \in {"absent", "wait"}
  BY <1>1, <1>2 DEF Sending, CopiesInv, TypeInv, TypeOK, Q!QueueTypeOK
<1> QED
  BY <1>1, <1>2, <1>3, CopiesUntouched DEF CopiesInv

LEMMA CopiesStep == TypeInv /\ CopiesInv /\ [Next]_vars => CopiesInv'
<1> SUFFICES ASSUME TypeInv, CopiesInv, [Next]_vars PROVE CopiesInv'
  OBVIOUS
<1>1. TypeInv'
  BY TypeStep
<1>2. CASE \E r \in Requests : BeginStep(r) \/ RequestStep(r) \/ RequestLost(r)
  BY <1>1, <1>2, RequestCopies
<1>3. CASE MailStep
  BY <1>1, <1>3, HandlerCopies, SendCopies, StartCopies, TimersCopies DEF MailStep, HandlerStep
<1>4. CASE Tick \/ UNCHANGED vars
  BY <1>4 DEF Tick, vars, queueVars, handlerVars, CopiesInv, WithinCopies, Sending, ToBeTaken
<1> QED
  BY <1>2, <1>3, <1>4, EitherSide

\* A mail is sent again only when Bull has found its job without a lock: not by a retry, since
\* mails are tried once, and not by a process that died or a transport that failed.
THEOREM CopiesAreStalls == Spec => []CopiesNeedStall
<1>1. Init => CopiesInv
  <2> SUFFICES ASSUME Init, NEW r \in Requests
               PROVE  jobState[r] # "delayed" /\ WithinCopies(r)
    BY DEF CopiesInv
  <2>1. jobState[r] = "absent" /\ sent[r] = 0 /\ stalledCounter[r] = 0
    BY DEF Init, Q!WorkersInit, Q!QueueInit
  <2>2. Sending(r) = {} /\ ToBeTaken(r) = 1
    BY <2>1 DEF Sending, ToBeTaken, Init, Q!WorkersInit
  <2> QED
    BY <2>1, <2>2, FS_EmptySet DEF WithinCopies
<1>2. TypeInv /\ CopiesInv => CopiesNeedStall
  <2> SUFFICES ASSUME TypeInv, CopiesInv, NEW r \in Requests
               PROVE  sent[r] <= 1 + stalledCounter[r]
    BY DEF CopiesNeedStall
  <2>1. /\ sent[r] \in Nat /\ stalledCounter[r] \in Nat /\ ToBeTaken(r) \in {0, 1}
        /\ Cardinality(Sending(r)) \in Nat
        /\ sent[r] + Cardinality(Sending(r)) + ToBeTaken(r) <= 1 + stalledCounter[r]
    BY FS_CardinalityType DEF TypeInv, TypeOK, Q!QueueTypeOK, ToBeTaken, CopiesInv, WithinCopies
  <2> QED
    BY <2>1
<1> QED
  BY <1>1, <1>2, CopiesStep, TypedAlways, PTL DEF Spec
================================================================================
