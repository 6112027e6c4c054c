-------------------------------- MODULE Sessions --------------------------------
(***************************************************************************)
(* Sessions (src/src/auth): what a browser may still do is in its two      *)
(* cookies, an access and a refresh token; what the server knows of it is  *)
(* one hash per user, User.refreshToken, which each sign-in overwrites.    *)
(*                                                                         *)
(* A request is a login, a refresh or a logout.  Between the cookies it is *)
(* sent with, the slot its guard reads, the slot it writes and the cookies *)
(* its answer sets, other requests take their turns, and answers may       *)
(* arrive in any order or never.                                           *)
(*                                                                         *)
(* A token is known by its user and iat.  bcrypt hashes the first 72 bytes *)
(* of a token, which for user ids of one digit hold the user and iat up to *)
(* a tenth of a second: tokens of a user signed within such a window share *)
(* a hash, so iat counts windows here.  iat is given in milliseconds where *)
(* jsonwebtoken takes seconds, so no token expires: only cookies do.       *)
(* Nobody can impersonate (RequestPipeline), so sub is the user.           *)
(***************************************************************************)
EXTENDS Durations, FiniteSets

CONSTANTS
  Users,             \* users who know their password
  Browsers,          \* cookie jars
  Logins, Refreshes, Logouts,           \* the requests
  None,              \* no token, no request
  JwtExpiresIn, JwtRefreshExpiresIn,    \* configured durations
  TickLength,        \* the milliseconds between two times of the clock
  MaxTime,           \* bound: the clock
  MaxFaults          \* bound: requests that fail or go unanswered

VARIABLES
  now,               \* the clock
  window,            \* the window of the latest sign-in or tick
  slot,              \* User.refreshToken: the token it is a hash of
  jar,               \* the cookies of each browser
  step,              \* where each request is
  from,              \* the browser that sent it
  user,              \* the user it acts for
  iat,               \* the refresh token it carries, then the one it signs
  faults,            \* history: what went wrong so far
  writer,            \* history: the request that wrote each slot last
  latest,            \* history: the request whose answer each browser got last
  overlapped,        \* history: requests that were in flight with another one of their browser
  loggedOut,         \* history: users who did not log in after their latest logout
  late,              \* history: refreshes that had passed their guard when a logout wrote
  revived            \* history: users for whom a late refresh wrote after that logout

Requests == Logins \cup Refreshes \cup Logouts
SignIns == Logins \cup Refreshes

requestVars == <<step, from, user, iat, overlapped>>
history == <<writer, loggedOut, late, revived>>
vars == <<now, window, slot, jar, requestVars, faults, latest, history>>

AccessAge == Ms(JwtExpiresIn) \div TickLength
RefreshAge == Ms(JwtRefreshExpiresIn) \div TickLength

ASSUME SessionsAssumption ==
  /\ {AccessAge, RefreshAge, MaxTime, MaxFaults} \subseteq Nat
  /\ Logins \cap Refreshes = {} /\ Logins \cap Logouts = {} /\ Refreshes \cap Logouts = {}
  /\ None \notin Nat /\ None \notin Requests

Cookies == [sub : Users, iat : Nat, access : Nat, refresh : Nat]

ASSUME NoneAssumption == None \notin Cookies

InFlightSteps == {"sent", "granted", "signed", "stored"}
Steps == {"none", "refused", "done", "lost"} \cup InFlightSteps

TypeOK ==
  /\ now \in 0..MaxTime /\ window \in Nat
  /\ slot \in [Users -> Nat \cup {None}]
  /\ jar \in [Browsers -> Cookies \cup {None}]
  /\ step \in [Requests -> Steps]
  /\ from \in [Requests -> Browsers \cup {None}]
  /\ user \in [Requests -> Users \cup {None}]
  /\ iat \in [Requests -> Nat]
  /\ faults \in 0..MaxFaults
  /\ writer \in [Users -> Requests \cup {None}]
  /\ latest \in [Browsers -> Requests \cup {None}]
  /\ overlapped \subseteq Requests
  /\ loggedOut \subseteq Users /\ revived \subseteq Users
  /\ late \subseteq Refreshes

Init ==
  /\ now = 0 /\ window = 0
  /\ slot = [u \in Users |-> None]
  /\ jar = [b \in Browsers |-> None]
  /\ step = [r \in Requests |-> "none"]
  /\ from = [r \in Requests |-> None]
  /\ user = [r \in Requests |-> None]
  /\ iat = [r \in Requests |-> 0]
  /\ faults = 0
  /\ writer = [u \in Users |-> None]
  /\ latest = [b \in Browsers |-> None]
  /\ overlapped = {} /\ loggedOut = {} /\ late = {} /\ revived = {}

--------------------------------------------------------------------------------
(* Requests are sent.  A guard that finds no live cookie, or a wrong password, refuses *)
(* without a trace; those requests are left out.                                       *)

RequestGoes(r, l, m) ==
  /\ step[r] = l
  /\ step' = [step EXCEPT ![r] = m]

InFlight(b) == {r \in Requests : from[r] = b /\ step[r] \in InFlightSteps}

\* The cookie that fromCookieAsJwt finds: the browser sends none that is past its maxAge.
Live(b, cookie) == jar[b] # None /\ now < jar[b][cookie]

\* Browser b sends request r for user u with the token i, on its way to l.
Send(r, b, u, i, l) ==
  /\ RequestGoes(r, "none", l)
  /\ from' = [from EXCEPT ![r] = b]
  /\ user' = [user EXCEPT ![r] = u]
  /\ iat' = [iat EXCEPT ![r] = i]
  /\ overlapped' = IF InFlight(b) = {} THEN overlapped ELSE overlapped \cup InFlight(b) \cup {r}
  /\ UNCHANGED <<now, window, slot, jar, faults, latest, history>>

\* LocalAuthGuard: the password is right, and nothing that changes is read.
LocalAuth(r, b, u) == r \in Logins /\ Send(r, b, u, 0, "granted")

\* JwtAuthGuard of a logout: any access token of a user who exists will do.
JwtAuth(r, b) ==
  /\ r \in Logouts /\ Live(b, "access")
  /\ Send(r, b, jar[b].sub, jar[b].iat, "granted")

SendRefresh(r, b) ==
  /\ r \in Refreshes /\ Live(b, "refresh")
  /\ Send(r, b, jar[b].sub, jar[b].iat, "sent")

\* Mutant: any refresh token of the user will do.
ValidAnyway(u, i) == TRUE

\* bcrypt.compare with the user's hash, if there is one.
ValidRefreshToken(u, i) == slot[u] # None /\ slot[u] = i

\* JwtRefreshAuthGuard
JwtRefreshAuth(r) ==
  /\ r \in Refreshes
  /\ \/ RequestGoes(r, "sent", "granted") /\ ValidRefreshToken(user[r], iat[r])
     \/ RequestGoes(r, "sent", "refused") /\ ~ValidRefreshToken(user[r], iat[r])
  /\ UNCHANGED <<now, window, slot, jar, from, user, iat, overlapped, faults, latest, history>>

--------------------------------------------------------------------------------
(* signIn and logout. *)

\* Both tokens of a sign-in carry the same user and iat.
SignTokens(r) ==
  /\ r \in SignIns
  /\ RequestGoes(r, "granted", "signed")
  /\ \E w \in {window, window + 1} : window' = w /\ iat' = [iat EXCEPT ![r] = w]
  /\ UNCHANGED <<now, slot, jar, from, user, overlapped, faults, latest, history>>

\* The await of hashing and writing the token.
StoreRefreshToken(r) ==
  LET u == user[r] IN
  /\ r \in SignIns
  /\ RequestGoes(r, "signed", "stored")
  /\ slot' = [slot EXCEPT ![u] = iat[r]]
  /\ writer' = [writer EXCEPT ![u] = r]
  /\ loggedOut' = IF r \in Logins THEN loggedOut \ {u} ELSE loggedOut
  /\ revived' = IF r \in late THEN revived \cup {u} ELSE revived
  /\ UNCHANGED <<now, window, jar, from, user, iat, overlapped, faults, latest, late>>

LogoutWrites(r) ==
  LET u == user[r] IN
  /\ writer' = [writer EXCEPT ![u] = r]
  /\ loggedOut' = loggedOut \cup {u}
  /\ late' = late \cup {s \in Refreshes : user[s] = u /\ step[s] \in {"granted", "signed"}}
  /\ revived' = revived \ {u}

\* Mutant: logout only clears the cookies.
KeepRefreshToken(r) ==
  /\ r \in Logouts
  /\ RequestGoes(r, "granted", "stored")
  /\ LogoutWrites(r)
  /\ UNCHANGED <<now, window, slot, jar, from, user, iat, overlapped, faults, latest>>

ClearRefreshToken(r) ==
  /\ r \in Logouts
  /\ RequestGoes(r, "granted", "stored")
  /\ slot' = [slot EXCEPT ![user[r]] = None]
  /\ LogoutWrites(r)
  /\ UNCHANGED <<now, window, jar, from, user, iat, overlapped, faults, latest>>

\* Mutants: the tokens of the cookies are signed anew; a logout empties them but lets them live.
CookiesSignedAgain(r) ==
  [sub |-> user[r], iat |-> window, access |-> now + AccessAge, refresh |-> now + RefreshAge]
EmptyCookies(r) ==
  [sub |-> IF r \in Logouts THEN None ELSE user[r], iat |-> iat[r],
   access |-> now + AccessAge, refresh |-> now + RefreshAge]

\* setJwtCookie, for both cookies: without a maxAge of its own a cookie lives as long as is
\* configured, and the logout's maxAge of 0 removes it.
SetJwtCookies(r) ==
  IF r \in Logouts
  THEN None
  ELSE [sub |-> user[r], iat |-> iat[r], access |-> now + AccessAge, refresh |-> now + RefreshAge]

\* The answer reaches the browser.
Answer(r) ==
  /\ RequestGoes(r, "stored", "done")
  /\ jar' = [jar EXCEPT ![from[r]] = SetJwtCookies(r)]
  /\ latest' = [latest EXCEPT ![from[r]] = r]
  /\ UNCHANGED <<now, window, slot, from, user, iat, overlapped, faults, history>>

--------------------------------------------------------------------------------

\* A call fails, the process dies, or the answer does not arrive.
RequestLost(r) ==
  /\ step[r] \in InFlightSteps
  /\ step' = [step EXCEPT ![r] = "lost"]
  /\ faults < MaxFaults /\ faults' = faults + 1
  /\ UNCHANGED <<now, window, slot, jar, from, user, iat, overlapped, latest, history>>

Tick ==
  /\ now < MaxTime
  /\ now' = now + 1 /\ window' = window + 1
  /\ UNCHANGED <<slot, jar, requestVars, faults, latest, history>>

\* Nothing is under way and the clock stands: the only state in which the system may stop.
Rest ==
  /\ now = MaxTime /\ \A r \in Requests : step[r] \notin InFlightSteps
  /\ UNCHANGED vars

Next ==
  \/ \E r \in Requests, b \in Browsers :
       (\E u \in Users : LocalAuth(r, b, u)) \/ JwtAuth(r, b) \/ SendRefresh(r, b)
  \/ \E r \in Requests :
       \/ JwtRefreshAuth(r)
       \/ SignTokens(r) \/ StoreRefreshToken(r) \/ ClearRefreshToken(r)
       \/ Answer(r) \/ RequestLost(r)
  \/ Tick
  \/ Rest

Spec == Init /\ [][Next]_vars

--------------------------------------------------------------------------------

\* Browser b keeps a refresh token that the server will refuse.
Stranded(b) == Live(b, "refresh") /\ ~ValidRefreshToken(jar[b].sub, jar[b].iat)

\* Signing in anew does not lose a session by itself: a browser whose refresh token is
\* refused signed in as a user whose slot was last written for another browser, by a request
\* whose answer is not there (yet), or by one that overlapped another of the same browser.
StrandedForAReason ==
  \A b \in Browsers : Stranded(b) =>
    \E r \in Requests :
      /\ writer[jar[b].sub] = r
      /\ from[r] # b \/ step[r] # "done" \/ r \in overlapped

\* Once a logout has cleared the user's slot, no browser gets a session of the user back
\* without a login, except by a refresh that passed its guard before the logout wrote.
LoggedOutStaysOut == \A u \in loggedOut \ revived : slot[u] = None
================================================================================
