----------------------------- MODULE RequestPipeline -----------------------------
(***************************************************************************)
(* What a request of a browser passes on its way to a handler and back:    *)
(* guards, validation and trimming, the handler, the serializer and        *)
(* ResponseInterceptor, or an exception filter.  The controllers of        *)
(* src/src are here as a table of routes: their guards, what they take and *)
(* return, and the answer their decorators document.                       *)
(*                                                                         *)
(* One browser sends one request after the other; meanwhile others sign    *)
(* up.  A field of a request is known by its shape, a row by its columns.  *)
(* Guards run before pipes, pipes before the handler (Nest, external).     *)
(* Whether a session is still good is the matter of Sessions, when a token *)
(* of a mail is that of CredentialTokens.                                  *)
(***************************************************************************)
EXTENDS Naturals, Sequences, FiniteSets

CONSTANTS
  Users,
  None,              \* no token, no user, no exception
  MaxOdd             \* bound: fields of a request that are not as they should be

VARIABLES
  admins,            \* users with the role Admin, for good
  exist,             \* users with a row
  profiled,          \* users with a profile: a signup may have stopped before it
  payload,           \* of the browser's access token: sub and impersonatedSub
  route, shape,      \* the request: its route and the shape of each field,
  whose,             \* and the user that its fields name
  step, passed,      \* where it is; how many guards it has passed
  user,              \* request.user
  body,              \* the body the handler is given
  answer,
  raced              \* history: has the user it names signed up since it was validated

requestVars == <<route, shape, whose>>
rowVars == <<exist, profiled>>
vars == <<admins, rowVars, payload, requestVars, step, passed, user, body, answer, raced>>

ASSUME PipelineAssumption == MaxOdd \in Nat /\ None \notin Users

--------------------------------------------------------------------------------
(* The DTOs: the shapes a field's validators let pass. *)

\* As meant; so with spaces around; only spaces; ''; another string; not a string; not there.
Shapes == {"good", "padded", "blank", "empty", "wrong", "other", "absent"}

IsString == Shapes \ {"other", "absent"}
IsNotEmpty == Shapes \ {"empty", "absent"}
MinLength == {"good", "padded", "blank"}
Exact == {"good"}                \* IsEmail, IsNumberString, IsNumber, IsUUID, IsEnum
StrongPassword == {"good", "padded"}
Optional(s) == s \cup {"absent"}

Field(s) == [accepts |-> s, lookup |-> FALSE]

\* A validator that looks the field up; findUnique throws unless it is given a string.
Lookup(s) == [accepts |-> s, lookup |-> TRUE]

NoDto == <<>>

\* Both, and f where they meet.
Joined(f, g) == [x \in DOMAIN f \cup DOMAIN g |-> IF x \in DOMAIN f THEN f[x] ELSE g[x]]

SignupDto == [email |-> Lookup(Exact), password |-> Field(StrongPassword),
              firstName |-> Field(Optional(IsString)), lastName |-> Field(Optional(IsString))]
LoginDto == [email |-> Field(Exact), password |-> Field(IsString \cap IsNotEmpty \cap MinLength)]
ConfirmEmailDto == [email |-> Field(Exact), token |-> Field(IsString \cap IsNotEmpty)]
ForgotPasswordDto == [email |-> Field(Exact)]
ResetPasswordDto == [token |-> Field(IsString \cap IsNotEmpty), password |-> Field(StrongPassword)]
ImpersonateUserDto == [impersonateUserId |-> Field(Exact)]
FundOrWithdrawFromAccountDto == [amount |-> Field(Exact)]
AccountExists == Lookup(Exact)
ConvertFundsDto == [fromAccountId |-> AccountExists, toAccountId |-> AccountExists,
                    amount |-> Field(Exact)]
AccountIdParamDto == [id |-> AccountExists]
TransactionRefParamDto == [reference |-> Lookup(Exact)]
GetAllResourceDto == [sortDirection |-> Field(Optional(Exact)), fields |-> Field(Optional(IsString)),
                      startDate |-> Field(Optional({"good", "padded"})),
                      endDate |-> Field(Optional({"good", "padded"})),
                      page |-> Field(Optional({"good", "padded", "blank", "empty"})),
                      perPage |-> Field(Optional({"good", "padded"}))]
TransactionFilterDto == [status |-> Field(Optional(Exact)), sortBy |-> Field(Optional(Exact)),
                         reference |-> Field(Optional(IsString \cap IsNotEmpty))]

--------------------------------------------------------------------------------
(* What handlers return: the keys at the top, the columns of the rows below, and what the *)
(* entities exclude.  "private" stands for the excluded columns of a row.                  *)

Entity(columns) == [top |-> columns, columns |-> columns, excluded |-> {"private"}]
UserEntity == Entity({"id", "email", "role", "profile", "private"})
AccountEntity == Entity({"id", "currencyCode", "balances", "private"})
TransactionEntity == Entity({"id", "reference", "amounts", "status"})
DashboardEntity == Entity({"balances", "recentTransactions", "private"})

\* A list is marked as one; it may be empty, as a column that may be missing counts as there.
ListOf(entity) == [entity EXCEPT !.columns = @ \cup {"list"}]
Paginate(entity) == [ListOf(entity) EXCEPT !.top = {"data", "meta"}]
Rules == ListOf(Entity({"action", "subject"}))
Strings == ListOf(Entity({"string"}))
Nothing == [top |-> {}, columns |-> {}, excluded |-> {}]

SimpleMessageEntity == [top |-> {"message", "success"}, columns |-> {}, excluded |-> {"user"}]

\* verifyPasswordResetToken hands the user's row over with its message.
MessageWithUser == [SimpleMessageEntity EXCEPT !.top = @ \cup {"user"}]

\* CustomApiResponse: the status it sets, the fields it promises and those it allows, and of
\* the data what the type has, without the columns that are hidden (ApiHideProperty).
CustomApiResponse(status, type, meta) ==
  LET data == type.columns \ type.excluded
      required == IF status = 204 THEN {}
                  ELSE {"status", "message"} \cup (IF type.top = {} THEN {} ELSE {"data"})
  IN  [status |-> status, required |-> required, allowed |-> required \cup meta, data |-> data]
OfType(status, type) == CustomApiResponse(status, type, {})
Plain == OfType(200, Nothing)

\* No decorator says what is sent; 201 is what Nest answers a POST with.
NoDocument == [status |-> 201, required |-> {}, allowed |-> {}, data |-> {}]

Takes(param, query, dto) == [param |-> param, query |-> query, body |-> dto]
Body(dto) == Takes(NoDto, NoDto, dto)

\* A route: guards, input, document, what its handler returns or throws.
Route(guards, takes, doc, returns, throws) ==
  [guards |-> guards, takes |-> takes, doc |-> doc, returns |-> {returns}, throws |-> throws]

Jwt == <<"JwtAuthGuard">>

SessionRoutes ==
  LET aUser == OfType(200, UserEntity) IN
  [signup |-> Route(<<>>, Body(SignupDto), OfType(201, UserEntity), UserEntity, {"P2002"}),
   login |-> Route(<<"LocalAuthGuard">>, Body(LoginDto), aUser, UserEntity, {}),
   impersonateUser |-> Route(<<"JwtAuthGuard", "CaslAbilityGuard">>, Body(ImpersonateUserDto),
                             aUser, UserEntity, {"Forbidden"}),
   stopImpersonation |-> Route(Jwt, Body(NoDto), aUser, UserEntity, {"Unauthorized"}),
   refreshToken |-> Route(<<"JwtRefreshAuthGuard">>, Body(NoDto), aUser, UserEntity, {}),
   getProfile |-> Route(Jwt, Body(NoDto), aUser, UserEntity, {}),
   getUserAbilities |-> Route(Jwt, Body(NoDto), OfType(200, Strings), Rules, {}),
   logout |-> Route(Jwt, Body(NoDto), OfType(204, Nothing), Nothing, {})]

TokenRoutes ==
  [confirmAccount |-> Route(<<>>, Body(ConfirmEmailDto), Plain, SimpleMessageEntity, {"NotFound"}),
   forgotPassword |-> Route(<<>>, Body(ForgotPasswordDto), Plain, SimpleMessageEntity, {"NotFound"}),
   resetPassword |-> Route(<<>>, Body(ResetPasswordDto), Plain, SimpleMessageEntity, {"BadRequest"}),
   resendConfirmEmail |-> Route(Jwt, Body(NoDto), Plain, SimpleMessageEntity, {}),
   verifyPasswordResetToken |-> Route(<<>>, Body(NoDto), Plain, MessageWithUser, {"BadRequest"})]

AccountsRoutes ==
  LET id == AccountIdParamDto
      amount == FundOrWithdrawFromAccountDto
      accounts == ListOf(AccountEntity)
      anAccount == OfType(200, AccountEntity)
      refusals == {"NotFound", "BadRequest"}
  IN [getUserAccounts |-> Route(Jwt, Body(NoDto), OfType(200, accounts), accounts, {}),
      getUserAccountById |-> Route(Jwt, Takes(id, NoDto, NoDto), anAccount, AccountEntity, {"NotFound"}),
      fundAccount |-> Route(Jwt, Takes(id, NoDto, amount), anAccount, AccountEntity, refusals),
      withdrawFromAccount |-> Route(Jwt, Takes(id, NoDto, amount), NoDocument, AccountEntity, refusals)]

\* A reference of another user's finds nothing, and TransactionEntity of null has no columns.
TransactionsRoutes ==
  LET query == Joined(GetAllResourceDto, TransactionFilterDto)
      transaction == OfType(200, TransactionEntity)
      pages == CustomApiResponse(200, ListOf(TransactionEntity), {"meta"})
      requery == Route(Jwt, Takes(TransactionRefParamDto, NoDto, NoDto), transaction, Nothing, {})
  IN [convertFunds |-> Route(Jwt, Body(ConvertFundsDto), OfType(201, TransactionEntity),
                             TransactionEntity, {"NotFound", "BadRequest"}),
      requeryTransaction |-> [requery EXCEPT !.returns = {Nothing, TransactionEntity}],
      getManyTransactions |-> Route(Jwt, Takes(NoDto, query, NoDto), pages,
                                    Paginate(TransactionEntity), {})]

DashboardRoutes ==
  [getDashboardData |-> Route(Jwt, Body(NoDto), OfType(200, DashboardEntity), DashboardEntity,
                              {})]

Routes ==
  Joined(SessionRoutes,
         Joined(TokenRoutes, Joined(AccountsRoutes, Joined(TransactionsRoutes, DashboardRoutes))))

Dto(r) == Joined(Routes[r].takes.param, Joined(Routes[r].takes.query, Routes[r].takes.body))

--------------------------------------------------------------------------------

Payloads == [sub : Users, impersonatedSub : Users \cup {None}]
RequestUsers == [id : Users, impersonatedBy : Users \cup {None}, profiled : BOOLEAN]
NoAnswer == [code |-> 0, fields |-> {}, data |-> {}, errors |-> {}]

TypeOK ==
  /\ admins \subseteq Users /\ exist \subseteq Users /\ profiled \subseteq exist
  /\ payload \in Payloads \cup {None}
  /\ route \in DOMAIN Routes \cup {None}
  /\ whose \in Users \cup {None}
  /\ step \in {"none", "guards", "pipes", "handler", "created", "profiled", "answered"}
  /\ step # "none" => shape \in [DOMAIN Dto(route) -> Shapes] /\ passed \in 0..Len(Routes[route].guards)
  /\ user \in RequestUsers \cup {None}
  /\ \A f \in DOMAIN body : body[f] \in Shapes
  /\ answer.code \in {0, 200, 201, 204, 400, 401, 403, 404, 409, 500}
  /\ raced \in BOOLEAN

Init ==
  /\ admins \in SUBSET Users /\ exist \in SUBSET Users /\ profiled \in SUBSET exist
  /\ payload = None
  /\ route = None /\ shape = <<>> /\ whose = None
  /\ step = "none" /\ passed = 0 /\ user = None /\ body = <<>>
  /\ answer = NoAnswer /\ raced = FALSE

--------------------------------------------------------------------------------
(* The request and its guards. *)

\* The routes whose fields name a user.
Naming == {"signup", "login", "impersonateUser"}

\* Fields that no DTO names are dropped (whitelist), so a request has none here.
SendRequest(r, odd) ==
  /\ step = "none"
  /\ route' = r
  /\ shape' = [f \in DOMAIN Dto(r) |-> IF f \in DOMAIN odd THEN odd[f] ELSE "good"]
  /\ \E u \in (IF r \in Naming THEN Users ELSE {None}) : whose' = u
  /\ step' = "guards"
  /\ UNCHANGED <<admins, rowVars, payload, passed, user, body, answer, raced>>

\* Another request signs u up: first the row, then the profile.
OthersSignUp(u) ==
  /\ \/ u \notin exist /\ exist' = exist \cup {u} /\ UNCHANGED profiled
     \/ u \in exist \ profiled /\ profiled' = profiled \cup {u} /\ UNCHANGED exist
  /\ raced' = (raced \/ (route = "signup" /\ whose = u /\ step = "handler" /\ u \notin exist))
  /\ UNCHANGED <<admins, payload, requestVars, step, passed, user, body, answer>>

StatusOf(exception) ==
  CASE exception \in {"BadRequest", "Validation"} -> 400
    [] exception = "Unauthorized" -> 401
    [] exception = "Forbidden" -> 403
    [] exception = "P2025" -> 404       \* PrismaClientExceptionFilter
    [] exception = "NotFound" -> 404
    [] exception = "P2002" -> 409       \* PrismaClientExceptionFilter
    [] OTHER -> 500                     \* also what that filter's super.catch throws

Answers(a) == step' = "answered" /\ answer' = a

\* The body of Nest's default filter, and of PrismaClientExceptionFilter.
Refuse(exception) ==
  Answers([code |-> StatusOf(exception), fields |-> {"statusCode", "message"}, data |-> {},
           errors |-> {}])

UserOf(u, by) == [id |-> u, impersonatedBy |-> by, profiled |-> u \in profiled]

\* LocalStrategy: the guard runs before anything has looked at the body.
LocalUser ==
  IF shape["email"] = "good" /\ shape["password"] = "good" /\ whose \in exist
  THEN UserOf(whose, None)
  ELSE None

\* JwtStrategy and JwtRefreshStrategy: the token speaks for the impersonated user, if any.
JwtUser ==
  IF payload = None THEN None
  ELSE IF payload.impersonatedSub = None THEN UserOf(payload.sub, None)
  ELSE UserOf(payload.impersonatedSub, payload.sub)

\* Mutant: an administrator may do everything.
AdminManages(u) ==
  IF ~u.profiled THEN {} ELSE IF u.id \in admins THEN {<<"manage", "all">>} ELSE {}

\* CaslAbilityFactory
CreateForUser(u) ==
  IF ~u.profiled THEN {} ELSE IF u.id \in admins THEN {<<"read", "all">>} ELSE {}

\* CASL is external: "manage" is any action, "all" any subject.
Can(u, action, subject) ==
  \E rule \in CreateForUser(u) : rule[1] \in {action, "manage"} /\ rule[2] \in {subject, "all"}

\* The abilities CheckAbility asks for, of which one is enough.
RequiredPermissions == IF route = "impersonateUser" THEN {<<"impersonate", "User">>} ELSE {}

\* Any call of a guard or a handler may fail.
Fails == Refuse("Error")

\* Authentication: request.user, or 401; or a lookup fails, or a password that is no string
\* cannot be verified.
Authenticate(u) ==
  \/ /\ u # None
     /\ user' = u /\ passed' = passed + 1
     /\ UNCHANGED <<step, answer>>
  \/ u = None /\ Refuse("Unauthorized") /\ UNCHANGED <<user, passed>>
  \/ Fails /\ UNCHANGED <<user, passed>>

CaslAbilityGuard ==
  LET allowed == \E p \in RequiredPermissions : Can(user, p[1], p[2]) IN
  \/ allowed /\ passed' = passed + 1 /\ UNCHANGED <<step, answer, user>>
  \/ ~allowed /\ Refuse("Forbidden") /\ UNCHANGED <<passed, user>>

Guard ==
  /\ step = "guards" /\ passed < Len(Routes[route].guards)
  /\ LET guard == Routes[route].guards[passed + 1] IN
     \/ guard = "LocalAuthGuard" /\ Authenticate(LocalUser)
     \/ guard = "JwtAuthGuard" /\ Authenticate(JwtUser)
     \/ guard = "JwtRefreshAuthGuard" /\ (Authenticate(JwtUser) \/ Authenticate(None))
     \/ guard = "CaslAbilityGuard" /\ CaslAbilityGuard
  /\ UNCHANGED <<admins, rowVars, payload, requestVars, body, raced>>

--------------------------------------------------------------------------------
(* The pipes. *)

\* Mutant: the validator is asked, but not listened to.
AnyEmail == TRUE

UserEmailNotExists == route = "signup" => whose \notin exist

Passes(f) == shape[f] \in Dto(route)[f].accepts /\ (f = "email" => UserEmailNotExists)

\* Looking up a field that is no string throws, whatever else is wrong.
Throws(part) ==
  \E f \in DOMAIN part : part[f].lookup /\ shape[f] \in {"other", "absent"}

Failing(part) == {f \in DOMAIN part : ~Passes(f)}

\* Mutant: the first error will do.
FirstError(fields) == {CHOOSE f \in fields : TRUE}

FormatValidationErrors(fields) == fields

\* ValidationExceptionFilter
RefuseFields(fields) ==
  Answers([code |-> StatusOf("Validation"), fields |-> {"status", "message", "validationError"},
           data |-> {}, errors |-> FormatValidationErrors(fields)])

\* Mutant: a password is a string like any other.
TrimEverything(f, s) == IF s = "padded" THEN "good" ELSE IF s = "blank" THEN "empty" ELSE s

TrimString(f, s) ==
  IF f = "password" THEN s
  ELSE IF s = "padded" THEN "good"
  ELSE IF s = "blank" THEN "empty"
  ELSE s

\* ValidationPipe on each part at once: the first to find something wrong answers for all.
\* Then TrimPipe, which changes bodies only.
Pipes ==
  LET parts == {Routes[route].takes.param, Routes[route].takes.query, Routes[route].takes.body} IN
  /\ step = "guards" /\ passed = Len(Routes[route].guards)
  /\ \/ \E part \in parts : Throws(part) /\ Refuse("PrismaClientValidationError")
     \/ \E part \in parts :
          /\ ~Throws(part) /\ Failing(part) # {}
          /\ RefuseFields(Failing(part))
     \/ /\ \A part \in parts : ~Throws(part) /\ Failing(part) = {}
        /\ step' = "handler" /\ UNCHANGED answer
  /\ body' = IF step' = "handler"
             THEN [f \in DOMAIN Routes[route].takes.body |-> TrimString(f, shape[f])]
             ELSE body
  /\ UNCHANGED <<admins, rowVars, payload, requestVars, passed, user, raced>>

--------------------------------------------------------------------------------
(* The handlers, and the interceptors on the way back. *)

\* Mutant: entities are sent as they are.
AsItIs(result) == result

\* ClassSerializerInterceptor
Serialized(result) ==
  [result EXCEPT !.top = @ \ result.excluded, !.columns = @ \ result.excluded]

\* ResponseInterceptor: what has a message or data is merged in, anything else becomes data.
\* A 204 has no body, whatever is returned.
Intercept(result) ==
  LET merged == result.top \cap {"message", "data"} # {} IN
  [code |-> Routes[route].doc.status, errors |-> {},
   fields |-> IF Routes[route].doc.status = 204 THEN {}
              ELSE {"status", "message"} \cup (IF merged THEN result.top ELSE {"data"}),
   data |-> IF merged /\ "data" \notin result.top THEN {} ELSE result.columns]

Return(result) == Answers(Intercept(Serialized(result)))

Returns == \E result \in Routes[route].returns : Return(result)

HandlerVars == <<admins, requestVars, passed, user, body, raced>>

SignedIn(u, impersonated) == payload' = [sub |-> u, impersonatedSub |-> impersonated]

\* signup: the row, the profile, and then the session and the job.
CreateUser ==
  /\ route = "signup" /\ step = "handler"
  /\ \/ whose \notin exist /\ exist' = exist \cup {whose} /\ step' = "created" /\ UNCHANGED answer
     \/ whose \in exist /\ Refuse("P2002") /\ UNCHANGED exist
     \/ Fails /\ UNCHANGED exist
  /\ UNCHANGED <<HandlerVars, profiled, payload>>

CreateProfile ==
  /\ step = "created"
  /\ \/ profiled' = profiled \cup {whose} /\ step' = "profiled" /\ UNCHANGED answer
     \/ Fails /\ UNCHANGED profiled
  /\ UNCHANGED <<HandlerVars, exist, payload>>

\* The cookies are set before the job is enqueued, and go with an error, too.
FinishSignup ==
  /\ step = "profiled"
  /\ \/ Returns /\ SignedIn(whose, None)
     \/ Fails /\ (SignedIn(whose, None) \/ UNCHANGED payload)
  /\ UNCHANGED <<HandlerVars, rowVars>>

\* login and refreshToken: the new token is the user's own.
Login ==
  /\ route \in {"login", "refreshToken"}
  /\ Returns /\ SignedIn(user.id, None)

ImpersonateUser ==
  /\ route = "impersonateUser"
  /\ \/ whose \in exist /\ Returns /\ SignedIn(user.id, whose)
     \/ whose \notin exist /\ Refuse("Forbidden") /\ UNCHANGED payload

\* Mutant: it does not look who impersonates.
StopAnyway ==
  /\ route = "stopImpersonation"
  /\ Returns /\ SignedIn(user.impersonatedBy, None)

StopImpersonation ==
  /\ route = "stopImpersonation"
  /\ \/ user.impersonatedBy # None /\ Returns /\ SignedIn(user.impersonatedBy, None)
     \/ user.impersonatedBy = None /\ Refuse("Unauthorized") /\ UNCHANGED payload

SigningIn == {"login", "refreshToken", "impersonateUser", "stopImpersonation"}

\* The handlers that sign in.
SignIn ==
  /\ route \in SigningIn /\ step = "handler"
  /\ Login \/ ImpersonateUser \/ StopImpersonation \/ (Fails /\ UNCHANGED payload)
  /\ UNCHANGED <<HandlerVars, rowVars>>

Logout ==
  /\ route = "logout" /\ step = "handler"
  /\ \/ Returns /\ payload' = None
     \/ Fails /\ UNCHANGED payload
  /\ UNCHANGED <<HandlerVars, rowVars>>

\* The others, as far as the browser can tell.  Only a token that is there can be right.
Handle ==
  /\ route \notin {"signup", "logout"} \cup SigningIn
  /\ step = "handler"
  /\ \/ Returns /\ ("token" \in DOMAIN body => body["token"] = "good")
     \/ \E exception \in Routes[route].throws : Refuse(exception)
     \/ Fails
  /\ UNCHANGED <<HandlerVars, rowVars, payload>>

\* The browser has the answer, and may send its next request.
Done ==
  /\ step = "answered"
  /\ step' = "none" /\ route' = None /\ shape' = <<>> /\ whose' = None
  /\ passed' = 0 /\ user' = None /\ body' = <<>> /\ answer' = NoAnswer /\ raced' = FALSE
  /\ UNCHANGED <<admins, rowVars, payload>>

Next ==
  \/ \E r \in DOMAIN Routes : \E fields \in SUBSET DOMAIN Dto(r) :
       /\ Cardinality(fields) <= MaxOdd
       /\ \E odd \in [fields -> Shapes \ {"good"}] : SendRequest(r, odd)
  \/ \E u \in Users : OthersSignUp(u)
  \/ Guard \/ Pipes
  \/ CreateUser \/ CreateProfile \/ FinishSignup
  \/ SignIn \/ Logout \/ Handle
  \/ Done

Spec == Init /\ [][Next]_vars

--------------------------------------------------------------------------------

\* A request that succeeds is never sent a column that an entity excludes.  Where the route
\* has a document (the one to withdraw has none), it is answered with the documented status,
\* with every field that is required and no other but "success", and with data of the
\* documented type.  Two routes are exceptions to the last: a transaction the user does not
\* have is sent as one without columns, and abilities, documented as strings, are sent as the
\* rules they are.
DocumentedAnswers ==
  answer.code \in {200, 201, 204} =>
    LET doc == Routes[route].doc IN
    /\ "private" \notin answer.data
    /\ doc # NoDocument =>
         /\ answer.code = doc.status
         /\ doc.required \subseteq answer.fields
         /\ answer.fields \subseteq doc.allowed \cup {"success"}
         /\ \/ answer.data = doc.data
            \/ route = "requeryTransaction" /\ answer.data = {}
            \/ route = "getUserAbilities" /\ answer.data = Rules.columns

\* Whatever is wrong with a body, a query or the parameters of a route, each of its wrong
\* fields is reported, unless a field that has to be looked up is no string: then a lookup
\* throws, or another part is reported.
WrongFieldsReported ==
  step = "answered" /\ answer.code = 400 /\ "validationError" \in answer.fields =>
    \E part \in {Routes[route].takes.param, Routes[route].takes.query, Routes[route].takes.body} :
      /\ answer.errors # {} /\ answer.errors \subseteq DOMAIN part
      /\ \A f \in DOMAIN part : shape[f] \notin part[f].accepts => f \in answer.errors

\* A body that is valid still is when it has been trimmed, but for a token that was blank;
\* passwords are left as they are.
ValidAfterTrim ==
  \A f \in DOMAIN body :
    /\ body[f] \in Dto(route)[f].accepts \/ (f = "token" /\ body[f] = "empty")
    /\ f = "password" => body[f] = shape[f]

\* However users and administrators sign up, in and out, nobody ever acts for somebody else:
\* no token names an impersonated user, and the guard refuses whoever asks for one.
NobodyImpersonates ==
  /\ payload # None => payload.impersonatedSub = None
  /\ route = "impersonateUser" => step # "handler"

\* A signup meets the unique constraint only if the address was taken after its validation.
ConflictNeedsRace == answer.code = 409 => raced
================================================================================
