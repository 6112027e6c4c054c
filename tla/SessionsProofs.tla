----------------------------- MODULE SessionsProofs -----------------------------
(***************************************************************************)
(* Proofs about Sessions, for every number of users, browsers and requests *)
(* and every configuration: the type invariant, and the two properties the *)
(* run checks.                                                             *)
(***************************************************************************)
EXTENDS Sessions, TLAPS

\* A request that was sent has a browser and a user, who are set for good.
Sent == \A r \in Requests :
  step[r] # "none" => from[r] \in Browsers /\ user[r] \in Users

TypeInv == TypeOK /\ Sent

\* The type invariant holds initially.
LEMMA TypeInit == Init => TypeInv
  BY SessionsAssumption, SMT DEF Init, TypeInv, TypeOK, Sent, Steps, InFlightSteps

\* Sending a request preserves the type invariant.
LEMMA TypeSend ==
  ASSUME TypeInv, NEW r \in Requests, NEW b \in Browsers, NEW u \in Users, NEW i \in Nat,
         NEW l \in InFlightSteps, Send(r, b, u, i, l)
  PROVE  TypeInv'
  BY SMTT(30) DEF TypeInv, TypeOK, Sent, Send, RequestGoes, InFlight, history, InFlightSteps, Steps

\* The cookies an answer sets have their type.
LEMMA CookiesType ==
  ASSUME TypeInv, NEW r \in Requests, step[r] # "none"
  PROVE  SetJwtCookies(r) \in Cookies \cup {None}
  BY SessionsAssumption DEF TypeInv, TypeOK, Sent, SetJwtCookies, Cookies

\* Every step preserves the type invariant.
LEMMA TypeStep == TypeInv /\ [Next]_vars => TypeInv'
<1> SUFFICES ASSUME TypeInv, [Next]_vars PROVE TypeInv'
  OBVIOUS
<1>1. ASSUME NEW r \in Requests, NEW b \in Browsers, NEW u \in Users, LocalAuth(r, b, u)
      PROVE  TypeInv'
  BY <1>1, TypeSend DEF LocalAuth, InFlightSteps
<1>2. ASSUME NEW r \in Requests, NEW b \in Browsers, JwtAuth(r, b) \/ SendRefresh(r, b)
      PROVE  TypeInv'
  <2>1. jar[b].sub \in Users /\ jar[b].iat \in Nat
    BY <1>2 DEF TypeInv, TypeOK, JwtAuth, SendRefresh, Live, Cookies
  <2> QED
    BY <1>2, <2>1, TypeSend DEF JwtAuth, SendRefresh, InFlightSteps
<1>3. ASSUME NEW r \in Requests, JwtRefreshAuth(r) PROVE TypeInv'
  BY <1>3 DEF TypeInv, TypeOK, Sent, JwtRefreshAuth, RequestGoes, history, Steps, InFlightSteps
<1>4. ASSUME NEW r \in Requests, SignTokens(r) PROVE TypeInv'
  BY <1>4 DEF TypeInv, TypeOK, Sent, SignTokens, RequestGoes, history, Steps, InFlightSteps
<1>5. ASSUME NEW r \in Requests, StoreRefreshToken(r) PROVE TypeInv'
  <2>1. user[r] \in Users /\ iat[r] \in Nat
    BY <1>5 DEF TypeInv, TypeOK, Sent, StoreRefreshToken, RequestGoes
  <2> QED
    BY <1>5, <2>1, SMTT(30)
    DEF TypeInv, TypeOK, Sent, StoreRefreshToken, RequestGoes, Steps, InFlightSteps
<1>6. ASSUME NEW r \in Requests, ClearRefreshToken(r) PROVE TypeInv'
  <2>1. user[r] \in Users
    BY <1>6 DEF TypeInv, Sent, ClearRefreshToken, RequestGoes
  <2> QED
    BY <1>6, <2>1, SMTT(30)
    DEF TypeInv, TypeOK, Sent, ClearRefreshToken, LogoutWrites, RequestGoes, Steps, InFlightSteps
<1>7. ASSUME NEW r \in Requests, Answer(r) PROVE TypeInv'
  <2>1. SetJwtCookies(r) \in Cookies \cup {None}
    BY <1>7, CookiesType DEF Answer, RequestGoes
  <2> QED
    BY <1>7, <2>1 DEF TypeInv, TypeOK, Sent, Answer, RequestGoes, history, Steps, InFlightSteps
<1>8. ASSUME NEW r \in Requests, RequestLost(r) PROVE TypeInv'
  BY <1>8, SessionsAssumption
  DEF TypeInv, TypeOK, Sent, RequestLost, history, Steps, InFlightSteps
<1>9. CASE Tick
  BY <1>9, SessionsAssumption DEF TypeInv, TypeOK, Sent, Tick, requestVars, history
<1>10. CASE UNCHANGED vars
  BY <1>10 DEF TypeInv, TypeOK, Sent, vars, requestVars, history
<1> QED
  BY <1>1, <1>2, <1>3, <1>4, <1>5, <1>6, <1>7, <1>8, <1>9, <1>10 DEF Next, Rest

\* Every reachable state is well typed.
THEOREM TypeCorrect == Spec => []TypeOK
<1>1. Spec => []TypeInv
  BY TypeInit, TypeStep, PTL DEF Spec
<1> QED
  BY <1>1, PTL DEF TypeInv

--------------------------------------------------------------------------------
(* Logging out. *)

\* A refresh that could still write after a logout has passed its guard before it.
PassedBefore == \A r \in Requests :
  r \in Refreshes /\ step[r] \in {"granted", "signed"} /\ user[r] \in loggedOut \ revived
    => r \in late

LogoutInv == TypeInv /\ PassedBefore /\ LoggedOutStaysOut

\* Every step preserves that a logged-out user stays out.
LEMMA LogoutStep == LogoutInv /\ [Next]_vars => LogoutInv'
<1> SUFFICES ASSUME LogoutInv, [Next]_vars PROVE LogoutInv'
  OBVIOUS
<1>1. TypeInv'
  BY TypeStep DEF LogoutInv
<1>2. ASSUME NEW r \in Requests, NEW b \in Browsers, NEW u, NEW i,
             Send(r, b, u, i, "sent") \/ (r \notin Refreshes /\ Send(r, b, u, i, "granted"))
      PROVE  PassedBefore' /\ LoggedOutStaysOut'
  BY <1>2 DEF LogoutInv, TypeInv, TypeOK, PassedBefore, LoggedOutStaysOut, Send, RequestGoes,
              history
<1>3. ASSUME NEW r \in Requests, NEW b \in Browsers,
             (\E u \in Users : LocalAuth(r, b, u)) \/ JwtAuth(r, b) \/ SendRefresh(r, b)
      PROVE  PassedBefore' /\ LoggedOutStaysOut'
  <2>1. ASSUME NEW u \in Users, LocalAuth(r, b, u) PROVE PassedBefore' /\ LoggedOutStaysOut'
    BY <1>2, <2>1, SessionsAssumption DEF LocalAuth
  <2>2. CASE JwtAuth(r, b)
    BY <1>2, <2>2, SessionsAssumption DEF JwtAuth
  <2>3. CASE SendRefresh(r, b)
    BY <1>2, <2>3 DEF SendRefresh
  <2> QED
    BY <1>3, <2>1, <2>2, <2>3
<1>4. ASSUME NEW r \in Requests, JwtRefreshAuth(r) PROVE PassedBefore' /\ LoggedOutStaysOut'
  BY <1>4 DEF LogoutInv, TypeInv, TypeOK, PassedBefore, LoggedOutStaysOut, JwtRefreshAuth,
              RequestGoes, ValidRefreshToken, history
<1>5. ASSUME NEW r \in Requests, SignTokens(r) PROVE PassedBefore' /\ LoggedOutStaysOut'
  BY <1>5 DEF LogoutInv, TypeInv, TypeOK, PassedBefore, LoggedOutStaysOut, SignTokens,
              RequestGoes, history
<1>6. ASSUME NEW r \in Requests, StoreRefreshToken(r) PROVE PassedBefore' /\ LoggedOutStaysOut'
  BY <1>6, SessionsAssumption, SMTT(30)
  DEF LogoutInv, TypeInv, TypeOK, PassedBefore, LoggedOutStaysOut, StoreRefreshToken,
      RequestGoes, SignIns
<1>7. ASSUME NEW r \in Requests, ClearRefreshToken(r) PROVE PassedBefore' /\ LoggedOutStaysOut'
  <2>1. /\ \A s \in Requests \ {r} : step'[s] = step[s]
        /\ r \notin Refreshes
        /\ user' = user
    BY <1>7, SessionsAssumption
    DEF LogoutInv, TypeInv, TypeOK, ClearRefreshToken, RequestGoes
  <2>2. PassedBefore'
    BY <1>7, <2>1 DEF LogoutInv, PassedBefore, ClearRefreshToken, LogoutWrites
  <2>3. LoggedOutStaysOut'
    BY <1>7 DEF LogoutInv, TypeInv, TypeOK, Sent, LoggedOutStaysOut, ClearRefreshToken,
                LogoutWrites, RequestGoes
  <2> QED
    BY <2>2, <2>3
<1>8. ASSUME NEW r \in Requests, Answer(r) \/ RequestLost(r)
      PROVE  PassedBefore' /\ LoggedOutStaysOut'
  BY <1>8 DEF LogoutInv, TypeInv, TypeOK, PassedBefore, LoggedOutStaysOut, Answer, RequestLost,
              RequestGoes, history
<1>9. ASSUME Tick \/ UNCHANGED vars PROVE PassedBefore' /\ LoggedOutStaysOut'
  BY <1>9 DEF LogoutInv, PassedBefore, LoggedOutStaysOut, Tick, vars, requestVars, history
<1> QED
  BY <1>1, <1>3, <1>4, <1>5, <1>6, <1>7, <1>8, <1>9 DEF Next, Rest, LogoutInv

\* After a logout nobody gets the user's session back without a login, except by a refresh
\* that passed JwtRefreshAuthGuard before AuthService.logout wrote.
THEOREM LoggedOutUsersStayOut == Spec => []LoggedOutStaysOut
<1>1. Init => LogoutInv
  BY TypeInit DEF Init, LogoutInv, PassedBefore, LoggedOutStaysOut
<1>2. Spec => []LogoutInv
  BY <1>1, LogoutStep, PTL DEF Spec
<1> QED
  BY <1>2, PTL DEF LogoutInv

--------------------------------------------------------------------------------
(* Stranded sessions. *)

\* Two requests that are in flight from one browser overlap.
InFlightOverlap == \A r, s \in Requests :
  (r # s /\ from[r] = from[s] /\ step[r] \in InFlightSteps /\ step[s] \in InFlightSteps)
    => {r, s} \subseteq overlapped

\* A slot is as its last writer left it.
WrittenBy == \A u \in Users :
  /\ slot[u] # None => writer[u] # None
  /\ writer[u] # None =>
       /\ step[writer[u]] \in {"stored", "done", "lost"}
       /\ user[writer[u]] = u
       /\ slot[u] = IF writer[u] \in Logouts THEN None ELSE iat[writer[u]]

\* A browser's cookies are as its latest answer set them.
SetBy == \A b \in Browsers : jar[b] # None =>
  /\ latest[b] \in SignIns
  /\ from[latest[b]] = b /\ step[latest[b]] = "done"
  /\ jar[b].sub = user[latest[b]] /\ jar[b].iat = iat[latest[b]]
  /\ writer[jar[b].sub] # None

\* What was written after a request stored its token was in flight with it.
StoredIsOvertaken == \A r \in Requests : step[r] \in {"stored", "done"} =>
  /\ writer[user[r]] # None
  /\ (step[r] = "stored" /\ writer[user[r]] # r /\ from[writer[user[r]]] = from[r])
       => writer[user[r]] \in overlapped

\* A done request that wrote a slot, unless it is the browser's latest, overlapped another.
OvertakenOverlapped == \A b \in Browsers :
  (/\ jar[b] # None /\ writer[jar[b].sub] # latest[b]
   /\ from[writer[jar[b].sub]] = b /\ step[writer[jar[b].sub]] = "done")
    => writer[jar[b].sub] \in overlapped

StrandedInv ==
  /\ TypeInv
  /\ InFlightOverlap /\ WrittenBy /\ SetBy /\ StoredIsOvertaken /\ OvertakenOverlapped

\* Sending a request keeps the invariant: it joins what is in flight, and writes nothing.
LEMMA StrandedSend ==
  ASSUME StrandedInv, TypeInv', NEW r \in Requests, NEW b \in Browsers, NEW u, NEW i,
         NEW l \in {"sent", "granted"}, Send(r, b, u, i, l)
  PROVE  StrandedInv'
<1> USE DEF StrandedInv, TypeInv, TypeOK, Send, RequestGoes, history
<1>1. /\ \A s \in Requests \ {r} : step'[s] = step[s] /\ from'[s] = from[s]
                                   /\ user'[s] = user[s] /\ iat'[s] = iat[s]
      /\ step[r] = "none" /\ step'[r] = l /\ from'[r] = b
      /\ overlapped \subseteq overlapped'
  OBVIOUS
<1>2. InFlightOverlap'
  BY <1>1 DEF InFlightOverlap, InFlight, InFlightSteps
<1>3. WrittenBy'
  BY <1>1 DEF WrittenBy
<1>4. SetBy'
  BY <1>1 DEF SetBy, Cookies
<1>5. StoredIsOvertaken'
  BY <1>1, <1>3 DEF StoredIsOvertaken, WrittenBy, Sent
<1>6. OvertakenOverlapped'
  BY <1>1 DEF OvertakenOverlapped, SetBy, WrittenBy, Cookies
<1> QED
  BY <1>2, <1>3, <1>4, <1>5, <1>6

\* A step of a request that writes no slot and sets no cookie keeps the invariant, if it
\* changes the token only of a request that has not stored one.
LEMMA StrandedQuiet ==
  ASSUME StrandedInv, TypeInv', NEW r \in Requests,
         step[r] \in InFlightSteps, NEW l \in {"granted", "refused", "signed", "lost"},
         step[r] = "stored" => l = "lost", step' = [step EXCEPT ![r] = l],
         \A s \in Requests : iat'[s] = iat[s] \/ (s = r /\ step[r] = "granted"),
         UNCHANGED <<slot, jar, from, user, overlapped, latest, writer>>
  PROVE  StrandedInv'
<1> USE DEF StrandedInv, TypeInv, TypeOK
<1>1. InFlightOverlap'
  BY DEF InFlightOverlap, InFlightSteps
<1>2. WrittenBy'
  BY DEF WrittenBy, InFlightSteps
<1>3. SetBy'
  BY DEF SetBy, Cookies, InFlightSteps, SignIns, Requests
<1>4. StoredIsOvertaken'
  BY DEF StoredIsOvertaken, InFlightSteps
<1>5. OvertakenOverlapped'
  BY DEF OvertakenOverlapped, SetBy, WrittenBy, Cookies, InFlightSteps
<1> QED
  BY <1>1, <1>2, <1>3, <1>4, <1>5

\* A write to a slot keeps the invariant: what had stored but was not answered yet overlaps it.
LEMMA StrandedWrite ==
  ASSUME StrandedInv, TypeInv', NEW r \in Requests,
         step[r] \in {"granted", "signed"}, step' = [step EXCEPT ![r] = "stored"],
         slot' = [slot EXCEPT ![user[r]] = IF r \in Logouts THEN None ELSE iat[r]],
         writer' = [writer EXCEPT ![user[r]] = r],
         UNCHANGED <<jar, from, user, iat, overlapped, latest>>
  PROVE  StrandedInv'
<1> USE DEF StrandedInv, TypeInv, TypeOK
<1>1. user[r] \in Users /\ r # None
  BY SessionsAssumption DEF Sent
<1>2. InFlightOverlap'
  BY DEF InFlightOverlap, InFlightSteps
<1>3. WrittenBy'
  BY <1>1 DEF WrittenBy
<1>4. SetBy'
  BY <1>1 DEF SetBy, Cookies, SignIns, Requests
<1>5. StoredIsOvertaken'
  BY <1>1 DEF StoredIsOvertaken, InFlightOverlap, InFlightSteps, Sent
<1>6. OvertakenOverlapped'
  BY <1>1 DEF OvertakenOverlapped, SetBy, Cookies
<1> QED
  BY <1>2, <1>3, <1>4, <1>5, <1>6

\* An answer keeps the invariant.
LEMMA StrandedAnswer ==
  ASSUME StrandedInv, TypeInv', NEW r \in Requests, Answer(r)
  PROVE  StrandedInv'
<1> USE DEF StrandedInv, TypeInv, TypeOK, Answer, RequestGoes, history
<1>1. /\ from[r] \in Browsers /\ user[r] \in Users
      /\ \A b \in Browsers : b # from[r] => jar'[b] = jar[b] /\ latest'[b] = latest[b]
      /\ latest'[from[r]] = r /\ jar'[from[r]] = SetJwtCookies(r)
  BY DEF Sent
<1>2. jar'[from[r]] # None =>
        r \in SignIns /\ jar'[from[r]].sub = user[r] /\ jar'[from[r]].iat = iat[r]
  BY <1>1 DEF SetJwtCookies, SignIns, Requests
<1>3. InFlightOverlap'
  BY DEF InFlightOverlap, InFlightSteps
<1>4. WrittenBy'
  BY DEF WrittenBy
<1>5. SetBy'
  BY <1>1, <1>2 DEF SetBy, StoredIsOvertaken, SignIns, Requests
<1>6. StoredIsOvertaken'
  BY DEF StoredIsOvertaken
<1>7. OvertakenOverlapped'
  <2> SUFFICES ASSUME NEW b \in Browsers, jar'[b] # None, writer[jar'[b].sub] # latest'[b],
                      from[writer[jar'[b].sub]] = b, step'[writer[jar'[b].sub]] = "done"
               PROVE  writer[jar'[b].sub] \in overlapped
    BY DEF OvertakenOverlapped
  <2>1. CASE b = from[r]
    BY <1>1, <1>2, <2>1 DEF StoredIsOvertaken
  <2>2. CASE b # from[r]
    BY <1>1, <2>2 DEF OvertakenOverlapped, SetBy, Cookies
  <2> QED
    BY <2>1, <2>2
<1> QED
  BY <1>3, <1>4, <1>5, <1>6, <1>7

\* Every step keeps the invariant.
LEMMA StrandedStep == StrandedInv /\ [Next]_vars => StrandedInv'
<1> SUFFICES ASSUME StrandedInv, [Next]_vars PROVE StrandedInv'
  OBVIOUS
<1>1. TypeInv'
  BY TypeStep DEF StrandedInv
<1>2. ASSUME NEW r \in Requests, NEW b \in Browsers,
             (\E u \in Users : LocalAuth(r, b, u)) \/ JwtAuth(r, b) \/ SendRefresh(r, b)
      PROVE  StrandedInv'
  BY <1>1, <1>2, StrandedSend DEF LocalAuth, JwtAuth, SendRefresh
<1>3. ASSUME NEW r \in Requests, JwtRefreshAuth(r) \/ RequestLost(r) PROVE StrandedInv'
  BY <1>1, <1>3, StrandedQuiet
  DEF JwtRefreshAuth, RequestLost, RequestGoes, history, InFlightSteps
<1>4. ASSUME NEW r \in Requests, SignTokens(r) PROVE StrandedInv'
  BY <1>1, <1>4, StrandedQuiet
  DEF SignTokens, RequestGoes, history, InFlightSteps, StrandedInv, TypeInv, TypeOK
<1>5. ASSUME NEW r \in Requests, StoreRefreshToken(r) PROVE StrandedInv'
  BY <1>1, <1>5, StrandedWrite, SessionsAssumption DEF StoreRefreshToken, RequestGoes, SignIns
<1>6. ASSUME NEW r \in Requests, ClearRefreshToken(r) PROVE StrandedInv'
  BY <1>1, <1>6, StrandedWrite DEF ClearRefreshToken, LogoutWrites, RequestGoes
<1>7. ASSUME NEW r \in Requests, Answer(r) PROVE StrandedInv'
  BY <1>1, <1>7, StrandedAnswer
<1>8. ASSUME Tick \/ UNCHANGED vars PROVE StrandedInv'
  BY <1>1, <1>8
  DEF StrandedInv, InFlightOverlap, WrittenBy, SetBy, StoredIsOvertaken, OvertakenOverlapped,
      Tick, vars, requestVars, history
<1> QED
  BY <1>2, <1>3, <1>4, <1>5, <1>6, <1>7, <1>8 DEF Next, Rest

\* A session is not lost by signing in anew, one request after the other from one browser:
\* what AuthService.signIn stored is what the browser keeps, unless another browser, an
\* overlapping request or a lost answer came between.
THEOREM SessionsStrandedForAReason == Spec => []StrandedForAReason
<1>1. Init => StrandedInv
  BY TypeInit, SessionsAssumption
  DEF Init, StrandedInv, TypeInv, TypeOK, InFlightOverlap, InFlightSteps, WrittenBy, SetBy,
      StoredIsOvertaken,
      OvertakenOverlapped
<1>2. StrandedInv => StrandedForAReason
  BY SessionsAssumption
  DEF StrandedInv, TypeInv, TypeOK, WrittenBy, SetBy, OvertakenOverlapped, StrandedForAReason,
      Stranded, Live, ValidRefreshToken, Cookies, SignIns
<1>3. Spec => []StrandedInv
  BY <1>1, StrandedStep, PTL DEF Spec
<1> QED
  BY <1>2, <1>3, PTL
================================================================================
