---------------------------- MODULE CredentialTokens ----------------------------
(***************************************************************************)
(* The password-reset and e-mail-confirmation tokens of one user           *)
(* (src/src/auth/auth.service.ts), and the mails that carry them           *)
(* (src/src/mail).                                                         *)
(*                                                                         *)
(* A request is a forgotten password, a reset, a confirmation resent or a  *)
(* confirmation.  Each is a chain of awaits: it looks the row up, updates  *)
(* it, puts a mail on the queue, and a reset then clears the token.  The   *)
(* row holds one token of a kind, and other requests run in between.       *)
(*                                                                         *)
(* A token is known by the request that generated it; the row keeps its    *)
(* hash, and the mail is the only way to learn it.  A mail is a job of     *)
(* BullWorkers that is tried once.  Rows of different users do not meet.   *)
(***************************************************************************)
EXTENDS Durations

CONSTANTS
  Requests,
  None,              \* no token, no job
  PasswordResetExpiresIn,   \* configured duration
  TickLength,        \* the milliseconds between two times of the clock
  MaxTime,           \* bound: the clock
  Workers, NoWorker, MaxStalledCount, MaxFaults   \* see BullWorkers

VARIABLES
  now,
  passwordResetToken, passwordResetExpires,       \* columns of the user's row
  password,          \* the request that set it, and the library that hashed it
  emailConfirmToken, isConfirmedUser,
  profile,           \* is there a profile: a signup may have stopped before it
  kind, step,        \* what each request is, and where
  token,             \* the token it came with
  sent,              \* how often its mail was sent
  jobState, lock, attemptsMade, stalledCounter,   \* the mail queue
  job, pc, faults,   \* its workers
  latestReset,       \* history: the reset token saved last
  usedUp,            \* history: reset tokens that a reset cleared
  shadowed,          \* history: reset tokens saved while a verified reset was under way
  during,            \* history: the resets under way when a reset was verified
  early              \* history: resends that had found the user unconfirmed when one confirmed

Q == INSTANCE BullWorkers
     WITH Jobs <- Requests, NoJob <- None, FirstStep <- "render", Attempts <- 1

rowVars == <<passwordResetToken, passwordResetExpires, password, emailConfirmToken, isConfirmedUser>>
requestVars == <<kind, step, token>>
queueVars == <<jobState, lock, attemptsMade, stalledCounter>>
handlerVars == <<job, pc, sent>>
history == <<latestReset, usedUp, shadowed, during, early>>
vars == <<now, rowVars, profile, requestVars, queueVars, handlerVars, faults, history>>

ResetAge == Ms(PasswordResetExpiresIn) \div TickLength

ASSUME TokensAssumption ==
  /\ {ResetAge, MaxTime, MaxStalledCount, MaxFaults} \subseteq Nat
  /\ None \notin Requests /\ NoWorker \notin Workers

\* The awaits of a request.
Awaits == {"saveReset", "setPassword", "clear", "saveConfirm", "mark", "mail"}
Steps == {"none", "refused", "done", "lost"} \cup Awaits

TypeOK ==
  /\ now \in 0..MaxTime /\ passwordResetExpires \in 0..(MaxTime + ResetAge)
  /\ {passwordResetToken, emailConfirmToken, latestReset} \subseteq Requests \cup {None}
  /\ password \in [by : Requests \cup {None}, scheme : {"argon2", "bcrypt"}]
  /\ isConfirmedUser \in BOOLEAN /\ profile \in BOOLEAN
  /\ kind \in [Requests -> {"none", "forgot", "reset", "resend", "confirm"}]
  /\ step \in [Requests -> Steps]
  /\ token \in [Requests -> Requests \cup {None}]
  /\ sent \in [Requests -> Nat]
  /\ Q!QueueTypeOK
  /\ job \in [Workers -> Requests \cup {None}]
  /\ pc \in [Workers -> {"idle", "render", "send", "resolved", "rejected"}]
  /\ faults \in 0..MaxFaults
  /\ usedUp \cup shadowed \cup early \subseteq Requests
  /\ during \in [Requests -> SUBSET Requests]

Init ==
  /\ now = 0
  /\ passwordResetToken = None /\ passwordResetExpires = 0
  /\ password = [by |-> None, scheme |-> "argon2"]
  /\ emailConfirmToken = None /\ isConfirmedUser = FALSE /\ profile \in BOOLEAN
  /\ kind = [r \in Requests |-> "none"] /\ step = [r \in Requests |-> "none"]
  /\ token = [r \in Requests |-> None]
  /\ sent = [r \in Requests |-> 0]
  /\ Q!WorkersInit
  /\ latestReset = None
  /\ usedUp = {} /\ shadowed = {} /\ early = {}
  /\ during = [r \in Requests |-> {}]

--------------------------------------------------------------------------------

RequestGoes(r, l, m) ==
  /\ step[r] = l
  /\ step' = [step EXCEPT ![r] = m]
  /\ UNCHANGED <<kind, token>>

\* Request r comes in with token t, as a k, and is on its way to m.
Begin(r, k, t, m) ==
  /\ step[r] = "none"
  /\ kind' = [kind EXCEPT ![r] = k]
  /\ token' = [token EXCEPT ![r] = t]
  /\ step' = [step EXCEPT ![r] = m]
  /\ UNCHANGED <<now, rowVars, profile, queueVars, handlerVars, faults>>

\* The tokens a user has received.
Mailed(k) == {t \in Requests : kind[t] = k /\ sent[t] > 0}

UnderWay(k) == {r \in Requests : kind[r] = k /\ step[r] \in Awaits}

--------------------------------------------------------------------------------
(* Resetting the password. *)

\* beginPasswordReset finds the user.
BeginPasswordReset(r) == Begin(r, "forgot", None, "saveReset") /\ UNCHANGED history

\* dateFromUnitTime
DateFromUnitTime == now + ResetAge

\* createAndSaveForgotPasswordToken
CreateAndSaveForgotPasswordToken(r) ==
  /\ RequestGoes(r, "saveReset", "mail")
  /\ passwordResetToken' = r
  /\ passwordResetExpires' = DateFromUnitTime
  /\ latestReset' = r
  /\ shadowed' = IF UnderWay("reset") = {} THEN shadowed ELSE shadowed \cup {r}
  /\ UNCHANGED <<now, password, emailConfirmToken, isConfirmedUser, profile>>
  /\ UNCHANGED <<queueVars, handlerVars, faults, usedUp, during, early>>

\* Mutant: any token will do while the row has one.
AnyResetToken(t) == passwordResetToken # None /\ passwordResetExpires >= now

VerifyPasswordResetToken(t) == passwordResetToken = t /\ passwordResetExpires >= now

CompletePasswordReset(r, t) ==
  /\ \/ Begin(r, "reset", t, "setPassword") /\ VerifyPasswordResetToken(t)
     \/ Begin(r, "reset", t, "refused") /\ ~VerifyPasswordResetToken(t)
  /\ during' = [during EXCEPT ![r] = UnderWay("reset")]
  /\ UNCHANGED <<latestReset, usedUp, shadowed, early>>

\* Mutant: the new password is stored as it came.
SetPlainPassword(r) ==
  /\ RequestGoes(r, "setPassword", "mail")
  /\ password' = [by |-> r, scheme |-> "plain"]
  /\ UNCHANGED <<now, passwordResetToken, passwordResetExpires, emailConfirmToken, isConfirmedUser>>
  /\ UNCHANGED <<profile, queueVars, handlerVars, faults, history>>

\* hashPassWord is bcrypt's; the password a user signed up with is hashed by argon2.
SetPassword(r) ==
  /\ RequestGoes(r, "setPassword", "mail")
  /\ password' = [by |-> r, scheme |-> "bcrypt"]
  /\ UNCHANGED <<now, passwordResetToken, passwordResetExpires, emailConfirmToken, isConfirmedUser>>
  /\ UNCHANGED <<profile, queueVars, handlerVars, faults, history>>

\* Mutant: only the time of the change is noted.
KeepResetToken(r) ==
  /\ RequestGoes(r, "clear", "done")
  /\ usedUp' = usedUp \cup {token[r]}
  /\ UNCHANGED <<now, rowVars, profile, queueVars, handlerVars, faults>>
  /\ UNCHANGED <<latestReset, shadowed, during, early>>

\* Whatever token the row holds by now goes.
MarkUserPasswordAsReset(r) ==
  /\ RequestGoes(r, "clear", "done")
  /\ passwordResetToken' = None
  /\ passwordResetExpires' = 0
  /\ usedUp' = usedUp \cup {token[r]}
  /\ UNCHANGED <<now, password, emailConfirmToken, isConfirmedUser, profile>>
  /\ UNCHANGED <<queueVars, handlerVars, faults, latestReset, shadowed, during, early>>

\* validateUser with the password that request r, or the signup (None), has set.
ValidateUser(r) == password.by = r /\ password.scheme = "argon2"

--------------------------------------------------------------------------------
(* Confirming the e-mail address. *)

\* Mutant: the resend does not look.
NeverConfirmed == FALSE

\* resendConfirmEmail on the row as JwtAuthGuard read it.
AlreadyConfirmed == isConfirmedUser

ResendConfirmEmail(r) ==
  /\ \/ Begin(r, "resend", None, "saveConfirm") /\ ~AlreadyConfirmed
     \/ Begin(r, "resend", None, "done") /\ AlreadyConfirmed
  /\ UNCHANGED history

CreateAndSaveEmailConfirmToken(r) ==
  /\ RequestGoes(r, "saveConfirm", "mail")
  /\ emailConfirmToken' = r
  /\ UNCHANGED <<now, passwordResetToken, passwordResetExpires, password, isConfirmedUser>>
  /\ UNCHANGED <<profile, queueVars, handlerVars, faults, history>>

ConfirmUserAccount(r, t) ==
  /\ \/ Begin(r, "confirm", t, "mark") /\ emailConfirmToken = t
     \/ Begin(r, "confirm", t, "refused") /\ emailConfirmToken # t
  /\ UNCHANGED history

MarkUserAsConfirmed(r) ==
  /\ RequestGoes(r, "mark", "mail")
  /\ emailConfirmToken' = None
  /\ isConfirmedUser' = TRUE
  /\ early' = early \cup {s \in UnderWay("resend") : step[s] = "saveConfirm"}
  /\ UNCHANGED <<now, passwordResetToken, passwordResetExpires, password, profile>>
  /\ UNCHANGED <<queueVars, handlerVars, faults, latestReset, usedUp, shadowed, during>>

--------------------------------------------------------------------------------
(* Mails. *)

\* What a request does once its mail is queued.
AfterMail(r) == IF kind[r] = "reset" THEN "clear" ELSE "done"

\* Mutant: the request answers without queueing its mail.
ForgetMail(r) ==
  /\ RequestGoes(r, "mail", AfterMail(r))
  /\ UNCHANGED <<now, rowVars, profile, queueVars, handlerVars, faults, history>>

\* The methods of MailService: an error of mailQueue.add is logged, and the request goes on.
QueueMail(r) ==
  /\ RequestGoes(r, "mail", AfterMail(r))
  /\ \/ Q!Add(r) /\ UNCHANGED faults
     \/ Q!Fault /\ UNCHANGED queueVars
  /\ UNCHANGED <<now, rowVars, profile, handlerVars, history>>

StartJob(w, r) ==
  /\ Q!StartJob(w, r)
  /\ UNCHANGED <<now, rowVars, profile, requestVars, sent, history>>

\* The handlers of MailConsumer: all but the confirmation's read the profile's names.
Render(w) ==
  /\ \/ Q!Goto(w, "render", "send") /\ (profile \/ kind[job[w]] = "resend")
     \/ Q!Goto(w, "render", "rejected") /\ ~(profile \/ kind[job[w]] = "resend")
  /\ UNCHANGED <<now, rowVars, profile, requestVars, queueVars, sent, faults, history>>

CountMail(r) == sent' = [sent EXCEPT ![r] = @ + 1]

\* Mutant: the handler tries again by itself.
SendMailAgain(w) ==
  /\ \/ Q!Goto(w, "send", "resolved") /\ CountMail(job[w]) /\ UNCHANGED faults
     \/ Q!Goto(w, "send", "send") /\ Q!Fault /\ (CountMail(job[w]) \/ UNCHANGED sent)
  /\ UNCHANGED <<now, rowVars, profile, requestVars, queueVars, history>>

\* mailerService.sendMail; a transport that reports an error may have sent the mail.
SendMail(w) ==
  /\ \/ Q!Goto(w, "send", "resolved") /\ CountMail(job[w]) /\ UNCHANGED faults
     \/ Q!Goto(w, "send", "rejected") /\ Q!Fault /\ (CountMail(job[w]) \/ UNCHANGED sent)
  /\ UNCHANGED <<now, rowVars, profile, requestVars, queueVars, history>>

JobDone(w) ==
  /\ Q!JobResolved(w) \/ Q!JobRejected(w)
  /\ UNCHANGED <<now, rowVars, profile, requestVars, sent, history>>

HandlerStep(w) == Render(w) \/ SendMail(w) \/ JobDone(w)

Crash(w) ==
  /\ Q!Die(w)
  /\ UNCHANGED <<now, rowVars, profile, requestVars, sent, history>>

LockLost(r) ==
  /\ Q!LockLost(r)
  /\ UNCHANGED <<now, rowVars, profile, requestVars, sent, history>>

QueueTimers(r) ==
  /\ Q!Timers(r)
  /\ UNCHANGED <<now, rowVars, profile, requestVars, sent, history>>

--------------------------------------------------------------------------------

\* A call of a request fails, or its process dies; nothing undoes what it has done.
RequestLost(r) ==
  /\ \E l \in Awaits : RequestGoes(r, l, "lost")
  /\ Q!Fault
  /\ UNCHANGED <<now, rowVars, profile, queueVars, handlerVars, history>>

Tick ==
  /\ now < MaxTime
  /\ now' = now + 1
  /\ UNCHANGED <<rowVars, profile, requestVars, queueVars, handlerVars, faults, history>>

ResetStep(r) ==
  CreateAndSaveForgotPasswordToken(r) \/ SetPassword(r) \/ MarkUserPasswordAsReset(r)
ConfirmStep(r) == CreateAndSaveEmailConfirmToken(r) \/ MarkUserAsConfirmed(r)
RequestStep(r) == ResetStep(r) \/ ConfirmStep(r) \/ QueueMail(r)

\* Nothing is under way: the only state in which the system may stop.
Rest ==
  /\ Q!Idle /\ \A r \in Requests : step[r] \notin Awaits
  /\ UNCHANGED vars

Next ==
  \/ \E r \in Requests :
       \/ BeginPasswordReset(r) \/ \E t \in Mailed("forgot") : CompletePasswordReset(r, t)
       \/ ResendConfirmEmail(r) \/ \E t \in Mailed("resend") : ConfirmUserAccount(r, t)
       \/ RequestStep(r) \/ RequestLost(r)
  \/ \E w \in Workers : HandlerStep(w) \/ Crash(w) \/ \E r \in Requests : StartJob(w, r)
  \/ \E r \in Requests : LockLost(r) \/ QueueTimers(r)
  \/ Tick
  \/ Rest

Spec == Init /\ [][Next]_vars

\* As long as a request can go on, a worker can take a job or run its handler, or a timer of
\* Bull can fire, one of them does, without a fault.
Fairness ==
  WF_vars(/\ UNCHANGED faults
          /\ \/ \E r \in Requests : RequestStep(r) \/ QueueTimers(r)
             \/ \E w \in Workers : HandlerStep(w) \/ \E r \in Requests : StartJob(w, r))

FairSpec == Spec /\ Fairness

--------------------------------------------------------------------------------

Verified(r) == kind[r] = "reset" /\ step[r] \notin {"none", "refused"}

\* A link resets the password once, unless two resets with it were under way at a time or
\* one of them stopped half-way: verifying the token and clearing it are far apart.
OneResetPerToken ==
  \A r, s \in Requests :
    r # s /\ Verified(r) /\ Verified(s) /\ token[r] = token[s] =>
      r \in during[s] \/ s \in during[r] \/ "lost" \in {step[r], step[s]}

\* The newest reset link is good until it is used: no older request, mail or reset takes it
\* from the row, except a reset that was verified before the link was made.
NewestLinkIsGood ==
  latestReset # None =>
    \/ passwordResetToken = latestReset
    \/ latestReset \in usedUp \cup shadowed

\* A confirmed user has no token left that would confirm the address, and welcome the user,
\* once more; except from a resend that had found the user unconfirmed.
ConfirmedHasNoToken == isConfirmedUser /\ emailConfirmToken # None => emailConfirmToken \in early

\* A mail is sent again only when Bull has found its job without a lock.
CopiesNeedStall == \A r \in Requests : sent[r] <= 1 + stalledCounter[r]

\* Unless there is a fault or, for a mail that needs it, no profile, the mail with a token
\* that is about to be stored arrives, though it has one attempt.
TokensArrive ==
  \A r \in Requests :
    step[r] \in {"saveReset", "saveConfirm"} ~>
      faults > 0 \/ sent[r] > 0 \/ (kind[r] = "forgot" /\ ~profile)

\* "Your password has been reset", says completePasswordReset, and the mail of that subject
\* sends the user to the login: the new password is accepted there.
ResetUserCanLogin ==
  \A r \in Requests : step[r] = "done" /\ password.by = r => ValidateUser(r)
================================================================================
