---------------------------- MODULE PipelineProofs ----------------------------
(***************************************************************************)
(* Safety of RequestPipeline for any users and any number of fields that   *)
(* are not as they should be.                                              *)
(***************************************************************************)
EXTENDS RequestPipeline, TLAPS

--------------------------------------------------------------------------------
(* What the table of routes is: the properties below rest on no more of it *)
(* than RouteOK.                                                           *)

Authenticating == {"LocalAuthGuard", "JwtAuthGuard", "JwtRefreshAuthGuard"}

GuardsOK(guards) ==
  /\ guards \in Seq(Authenticating \cup {"CaslAbilityGuard"})
  /\ Len(guards) > 0 => guards[1] \in Authenticating

Apart(f, g) == DOMAIN f \cap DOMAIN g = {}

\* No two parts of a request have a field of the same name.
PartsOK(takes) ==
  /\ Apart(takes.param, takes.query) /\ Apart(takes.param, takes.body)
  /\ Apart(takes.query, takes.body)

\* What a validator lets pass it lets pass trimmed, too; but for a blank token.
TrimOK(dto) ==
  \A f \in DOMAIN dto : f # "password" =>
    /\ "padded" \in dto[f].accepts => "good" \in dto[f].accepts
    /\ "blank" \in dto[f].accepts => "empty" \in dto[f].accepts \/ f = "token"

Exceptions == {"P2002", "Forbidden", "Unauthorized", "NotFound", "BadRequest"}

\* What is sent when a handler returns result.
Sent(doc, result) ==
  LET top == result.top \ result.excluded
      merged == top \cap {"message", "data"} # {}
  IN [fields |-> IF doc.status = 204 THEN {}
                 ELSE {"status", "message"} \cup (IF merged THEN top ELSE {"data"}),
      data |-> IF merged /\ "data" \notin top THEN {} ELSE result.columns \ result.excluded]

Fits(doc, result) ==
  /\ doc.required \subseteq Sent(doc, result).fields
  /\ Sent(doc, result).fields \subseteq doc.allowed \cup {"success"}

\* The two routes whose data is not always of the documented type.
Mistyped(r, doc, result) ==
  \/ r = "requeryTransaction" /\ Sent(doc, result).data = {}
  \/ r = "getUserAbilities" /\ Sent(doc, result).data = Rules.columns

Conforms(r, doc, result) ==
  /\ "private" \notin Sent(doc, result).data
  /\ doc # NoDocument =>
       Fits(doc, result) /\ (Sent(doc, result).data = doc.data \/ Mistyped(r, doc, result))

Fit(r, doc, result) ==
  {"top", "columns", "excluded"} \subseteq DOMAIN result /\ Conforms(r, doc, result)

RouteOK(r, x) ==
  /\ GuardsOK(x.guards) /\ PartsOK(x.takes) /\ TrimOK(x.takes.body)
  /\ x.doc.status \in {200, 201, 204}
  /\ \A result \in x.returns : Fit(r, x.doc, result)
  /\ x.throws \subseteq Exceptions /\ ("P2002" \in x.throws => r = "signup")
  /\ r \in SigningIn => Len(x.guards) > 0
  /\ r = "impersonateUser" => x.guards = <<"JwtAuthGuard", "CaslAbilityGuard">>
  /\ r = "signup" => "email" \in DOMAIN x.takes.body

LEMMA GuardLists ==
  /\ GuardsOK(<<>>) /\ GuardsOK(Jwt) /\ GuardsOK(<<"LocalAuthGuard">>)
  /\ GuardsOK(<<"JwtRefreshAuthGuard">>) /\ GuardsOK(<<"JwtAuthGuard", "CaslAbilityGuard">>)
BY DEF GuardsOK, Jwt, Authenticating

LEMMA NoDtoApart == TrimOK(NoDto) /\ \A dto : Apart(NoDto, dto) /\ Apart(dto, NoDto)
BY DEF Apart, NoDto, TrimOK

LEMMA DtosTrim ==
  /\ TrimOK(SignupDto) /\ TrimOK(LoginDto) /\ TrimOK(ConfirmEmailDto) /\ TrimOK(ForgotPasswordDto)
  /\ TrimOK(ResetPasswordDto) /\ TrimOK(ImpersonateUserDto) /\ TrimOK(FundOrWithdrawFromAccountDto)
  /\ TrimOK(ConvertFundsDto)
BY DEF TrimOK, SignupDto, LoginDto, ConfirmEmailDto, ForgotPasswordDto, ResetPasswordDto,
       ImpersonateUserDto, FundOrWithdrawFromAccountDto, ConvertFundsDto, AccountExists, Field,
       Lookup, Exact, IsString, IsNotEmpty, MinLength, Shapes, StrongPassword, Optional

LEMMA IdApart == Apart(AccountIdParamDto, FundOrWithdrawFromAccountDto)
BY DEF Apart, AccountIdParamDto, FundOrWithdrawFromAccountDto

\* A body alone, and parts that do not meet.
LEMMA BodyOK ==
  ASSUME NEW dto, TrimOK(dto)
  PROVE  PartsOK(Body(dto)) /\ TrimOK(Body(dto).body)
BY NoDtoApart DEF Body, Takes, PartsOK

LEMMA TakesOK ==
  ASSUME NEW param, NEW query, NEW dto, TrimOK(dto),
         Apart(param, query), Apart(param, dto), Apart(query, dto)
  PROVE  PartsOK(Takes(param, query, dto)) /\ TrimOK(Takes(param, query, dto).body)
BY DEF Takes, PartsOK

LEMMA Statuses ==
  /\ \A status, type : OfType(status, type).status = status
  /\ Plain.status = 200 /\ NoDocument.status = 201
  /\ CustomApiResponse(200, ListOf(TransactionEntity), {"meta"}).status = 200
BY DEF OfType, Plain, NoDocument, CustomApiResponse

LEMMA DataFits ==
  ASSUME NEW r, NEW status \in {200, 201},
         NEW type \in {UserEntity, AccountEntity, ListOf(AccountEntity), TransactionEntity,
                       DashboardEntity}
  PROVE  Fit(r, OfType(status, type), type)
BY DEF Fit, Conforms, Fits, Sent, OfType, CustomApiResponse, UserEntity, AccountEntity,
       TransactionEntity, DashboardEntity, ListOf, Entity

LEMMA MessagesFit == \A r : Fit(r, Plain, SimpleMessageEntity) /\ Fit(r, Plain, MessageWithUser)
BY DEF Fit, Conforms, Fits, Sent, Plain, OfType, CustomApiResponse, Nothing, SimpleMessageEntity,
       MessageWithUser

LEMMA NothingFits ==
  /\ Fit("logout", OfType(204, Nothing), Nothing)
  /\ Fit("requeryTransaction", OfType(200, TransactionEntity), Nothing)
BY DEF Fit, Conforms, Mistyped, Fits, Sent, OfType, CustomApiResponse, TransactionEntity, Nothing,
       Entity

LEMMA PagesFit ==
  Fit("getManyTransactions", CustomApiResponse(200, ListOf(TransactionEntity), {"meta"}),
      Paginate(TransactionEntity))
BY DEF Fit, Conforms, Fits, Sent, CustomApiResponse, TransactionEntity, Paginate, ListOf, Entity

LEMMA UndocumentedFits == Fit("withdrawFromAccount", NoDocument, AccountEntity)
BY DEF Fit, Conforms, Sent, NoDocument, AccountEntity, Entity

LEMMA RulesFit == Fit("getUserAbilities", OfType(200, Strings), Rules)
BY DEF Fit, Conforms, Mistyped, Fits, Sent, OfType, CustomApiResponse, Strings, Rules, ListOf, Entity

LEMMA RouteIsOK ==
  ASSUME NEW r, NEW guards, NEW takes, NEW doc, NEW result, NEW throws,
         GuardsOK(guards), PartsOK(takes), TrimOK(takes.body), doc.status \in {200, 201, 204},
         Fit(r, doc, result), throws \subseteq Exceptions, "P2002" \in throws => r = "signup",
         r \in SigningIn => Len(guards) > 0,
         r = "impersonateUser" => guards = <<"JwtAuthGuard", "CaslAbilityGuard">>,
         r = "signup" => "email" \in DOMAIN takes.body
  PROVE  RouteOK(r, Route(guards, takes, doc, result, throws))
BY DEF RouteOK, Route

LEMMA SessionRoutesOK == \A r \in DOMAIN SessionRoutes : RouteOK(r, SessionRoutes[r])
<1>1. /\ RouteOK("signup", SessionRoutes.signup)
      /\ RouteOK("login", SessionRoutes.login)
  <2>1. "email" \in DOMAIN Body(SignupDto).body
    BY DEF Body, Takes, SignupDto
  <2> QED
    BY <2>1, RouteIsOK, GuardLists, BodyOK, DtosTrim, Statuses, DataFits
    DEF SessionRoutes, SigningIn, Exceptions
<1>2. RouteOK("impersonateUser", SessionRoutes.impersonateUser)
  BY RouteIsOK, GuardLists, BodyOK, DtosTrim, Statuses, DataFits
  DEF SessionRoutes, SigningIn, Exceptions
<1>3. /\ RouteOK("stopImpersonation", SessionRoutes.stopImpersonation)
      /\ RouteOK("refreshToken", SessionRoutes.refreshToken)
      /\ RouteOK("getProfile", SessionRoutes.getProfile)
  BY RouteIsOK, GuardLists, BodyOK, NoDtoApart, Statuses, DataFits
  DEF SessionRoutes, SigningIn, Exceptions, Jwt
<1>4. /\ RouteOK("getUserAbilities", SessionRoutes.getUserAbilities)
      /\ RouteOK("logout", SessionRoutes.logout)
  BY RouteIsOK, GuardLists, BodyOK, NoDtoApart, Statuses, RulesFit, NothingFits
  DEF SessionRoutes, SigningIn, Exceptions
<1> QED
  BY <1>1, <1>2, <1>3, <1>4 DEF SessionRoutes

LEMMA TokenRoutesOK == \A r \in DOMAIN TokenRoutes : RouteOK(r, TokenRoutes[r])
<1>1. /\ RouteOK("confirmAccount", TokenRoutes.confirmAccount)
      /\ RouteOK("forgotPassword", TokenRoutes.forgotPassword)
      /\ RouteOK("resetPassword", TokenRoutes.resetPassword)
  BY RouteIsOK, GuardLists, BodyOK, DtosTrim, Statuses, MessagesFit
  DEF TokenRoutes, SigningIn, Exceptions
<1>2. /\ RouteOK("resendConfirmEmail", TokenRoutes.resendConfirmEmail)
      /\ RouteOK("verifyPasswordResetToken", TokenRoutes.verifyPasswordResetToken)
  BY RouteIsOK, GuardLists, BodyOK, NoDtoApart, Statuses, MessagesFit
  DEF TokenRoutes, SigningIn, Exceptions
<1> QED
  BY <1>1, <1>2 DEF TokenRoutes

LEMMA AccountsRoutesOK == \A r \in DOMAIN AccountsRoutes : RouteOK(r, AccountsRoutes[r])
<1>1. RouteOK("getUserAccounts", AccountsRoutes.getUserAccounts)
  BY RouteIsOK, GuardLists, BodyOK, NoDtoApart, Statuses, DataFits
  DEF AccountsRoutes, SigningIn, Exceptions
<1>2. RouteOK("getUserAccountById", AccountsRoutes.getUserAccountById)
  BY RouteIsOK, GuardLists, TakesOK, NoDtoApart, Statuses, DataFits
  DEF AccountsRoutes, SigningIn, Exceptions
<1>3. /\ PartsOK(Takes(AccountIdParamDto, NoDto, FundOrWithdrawFromAccountDto))
      /\ TrimOK(Takes(AccountIdParamDto, NoDto, FundOrWithdrawFromAccountDto).body)
  BY TakesOK, NoDtoApart, IdApart, DtosTrim
<1>4. RouteOK("fundAccount", AccountsRoutes.fundAccount)
  BY <1>3, RouteIsOK, GuardLists, Statuses, DataFits DEF AccountsRoutes, SigningIn, Exceptions
<1>5. RouteOK("withdrawFromAccount", AccountsRoutes.withdrawFromAccount)
  BY <1>3, RouteIsOK, GuardLists, Statuses, UndocumentedFits DEF AccountsRoutes, SigningIn, Exceptions
<1> QED
  BY <1>1, <1>2, <1>4, <1>5 DEF AccountsRoutes

LEMMA TransactionsRoutesOK ==
  \A r \in DOMAIN TransactionsRoutes : RouteOK(r, TransactionsRoutes[r])
<1>1. RouteOK("convertFunds", TransactionsRoutes.convertFunds)
  BY RouteIsOK, GuardLists, BodyOK, DtosTrim, Statuses, DataFits
  DEF TransactionsRoutes, SigningIn, Exceptions
<1>2. RouteOK("requeryTransaction", TransactionsRoutes.requeryTransaction)
  <2>1. /\ PartsOK(Takes(TransactionRefParamDto, NoDto, NoDto))
        /\ TrimOK(Takes(TransactionRefParamDto, NoDto, NoDto).body)
    BY TakesOK, NoDtoApart
  <2>2. \A result \in {Nothing, TransactionEntity} :
          Fit("requeryTransaction", OfType(200, TransactionEntity), result)
    BY NothingFits, DataFits
  <2> QED
    BY <2>1, <2>2, GuardLists, Statuses
    DEF TransactionsRoutes, Route, RouteOK, SigningIn
<1>3. RouteOK("getManyTransactions", TransactionsRoutes.getManyTransactions)
  <2> DEFINE query == Joined(GetAllResourceDto, TransactionFilterDto)
  <2>1. PartsOK(Takes(NoDto, query, NoDto)) /\ TrimOK(Takes(NoDto, query, NoDto).body)
    BY TakesOK, NoDtoApart
  <2> QED
    BY <2>1, RouteIsOK, GuardLists, Statuses, PagesFit
    DEF TransactionsRoutes, SigningIn, Exceptions
<1> QED
  BY <1>1, <1>2, <1>3 DEF TransactionsRoutes

LEMMA DashboardRoutesOK == \A r \in DOMAIN DashboardRoutes : RouteOK(r, DashboardRoutes[r])
BY RouteIsOK, GuardLists, BodyOK, NoDtoApart, Statuses, DataFits
DEF DashboardRoutes, SigningIn, Exceptions

LEMMA JoinedOK ==
  ASSUME NEW f, NEW g, \A r \in DOMAIN f : RouteOK(r, f[r]), \A r \in DOMAIN g : RouteOK(r, g[r])
  PROVE  \A r \in DOMAIN Joined(f, g) : RouteOK(r, Joined(f, g)[r])
BY DEF Joined

LEMMA RoutesOK == \A r \in DOMAIN Routes : RouteOK(r, Routes[r])
BY SessionRoutesOK, TokenRoutesOK, AccountsRoutesOK, TransactionsRoutesOK, DashboardRoutesOK,
   JoinedOK
DEF Routes

\* The fields of a part of a request are those of the whole.
LEMMA PartOfDto ==
  ASSUME NEW r \in DOMAIN Routes,
         NEW part \in {Routes[r].takes.param, Routes[r].takes.query, Routes[r].takes.body},
         NEW f \in DOMAIN part
  PROVE  f \in DOMAIN Dto(r) /\ Dto(r)[f] = part[f]
BY RoutesOK DEF RouteOK, PartsOK, Apart, Dto, Joined

LEMMA StatusesOf ==
  /\ StatusOf("Unauthorized") = 401 /\ StatusOf("Forbidden") = 403 /\ StatusOf("NotFound") = 404
  /\ StatusOf("BadRequest") = 400 /\ StatusOf("Validation") = 400 /\ StatusOf("Error") = 500
  /\ StatusOf("PrismaClientValidationError") = 500 /\ StatusOf("P2002") = 409
BY DEF StatusOf

--------------------------------------------------------------------------------
(* Where a request is, and what it has by then. *)

\* Guards come first, and each but the first relies on request.user.
GuardInv ==
  /\ step = "none" => passed = 0 /\ user = None /\ body = <<>>
  /\ step # "none" => route \in DOMAIN Routes /\ (route \in Naming => whose \in Users)
  /\ passed > 0 => user \in RequestUsers
  /\ step \in {"handler", "created", "profiled"} => passed = Len(Routes[route].guards)
  /\ step \in {"created", "profiled"} => route = "signup" /\ whose \in exist
  /\ step # "answered" => answer = NoAnswer

WhereInv == TypeOK /\ GuardInv

LEMMA UsersAreUsers ==
  ASSUME TypeOK, NEW u \in Users, NEW by \in Users \cup {None}
  PROVE  UserOf(u, by) \in RequestUsers
<1>1. (u \in profiled) \in BOOLEAN
  OBVIOUS
<1> QED
  BY <1>1, Zenon DEF UserOf, RequestUsers

LEMMA GuardsFindUsers ==
  ASSUME TypeOK
  PROVE  LocalUser \in RequestUsers \cup {None} /\ JwtUser \in RequestUsers \cup {None}
<1>1. LocalUser \in RequestUsers \cup {None}
  BY UsersAreUsers DEF LocalUser, TypeOK
<1>2. CASE payload = None
  BY <1>1, <1>2 DEF JwtUser
<1>3. CASE payload # None
  <2>1. payload.sub \in Users /\ payload.impersonatedSub \in Users \cup {None}
    BY <1>3 DEF TypeOK, Payloads
  <2>2. JwtUser \in RequestUsers
    BY <1>3, <2>1, UsersAreUsers DEF JwtUser
  <2> QED
    BY <1>1, <2>2
<1> QED
  BY <1>2, <1>3

Refusals == Exceptions \cup {"Error", "PrismaClientValidationError"}

LEMMA RefuseAnswers ==
  ASSUME NEW exception \in Refusals, Refuse(exception)
  PROVE  /\ step' = "answered" /\ answer'.code \in {400, 401, 403, 404, 409, 500}
         /\ answer'.fields = {"statusCode", "message"} /\ answer'.errors = {}
         /\ answer'.code = 409 => exception = "P2002"
BY StatusesOf DEF Refusals, Exceptions, Refuse, Answers

LEMMA ReturnsAnswer ==
  ASSUME route \in DOMAIN Routes, Returns
  PROVE  /\ step' = "answered" /\ answer'.code = Routes[route].doc.status
         /\ answer'.code \in {200, 201, 204}
BY RoutesOK DEF RouteOK, Returns, Return, Answers, Intercept

LEMMA LengthsAreNatural == \A r \in DOMAIN Routes : Len(Routes[r].guards) \in Nat
BY RoutesOK DEF RouteOK, GuardsOK

\* A step of the handler that leaves the request and its user alone.
LEMMA HandlerStep ==
  ASSUME WhereInv, step \in {"handler", "created", "profiled"}, UNCHANGED HandlerVars,
         exist' \subseteq Users, profiled' \subseteq exist', exist \subseteq exist',
         payload' \in Payloads \cup {None},
         \/ step' = "answered" /\ answer'.code \in {200, 201, 204, 400, 401, 403, 404, 409, 500}
         \/ /\ step' \in {"created", "profiled"} /\ answer' = answer
            /\ route = "signup" /\ whose \in exist'
  PROVE  WhereInv'
<1>1. GuardInv'
  BY DEF WhereInv, GuardInv, HandlerVars, requestVars
<1>2. TypeOK'
  BY DEF WhereInv, TypeOK, GuardInv, HandlerVars, requestVars
<1> QED
  BY <1>1, <1>2 DEF WhereInv

LEMMA WhereSent ==
  ASSUME WhereInv, NEW r \in DOMAIN Routes, NEW fields \in SUBSET DOMAIN Dto(r),
         NEW odd \in [fields -> Shapes \ {"good"}], SendRequest(r, odd)
  PROVE  WhereInv'
<1>1. shape' \in [DOMAIN Dto(r) -> Shapes]
  BY DEF SendRequest, Shapes
<1>2. GuardInv'
  BY PipelineAssumption DEF WhereInv, GuardInv, SendRequest
<1>3. 0 \in 0..Len(Routes[r].guards)
  BY LengthsAreNatural
<1>4. TypeOK'
  BY <1>1, <1>3 DEF WhereInv, GuardInv, TypeOK, SendRequest, rowVars
<1> QED
  BY <1>2, <1>4 DEF WhereInv

LEMMA WhereGuarded ==
  ASSUME WhereInv, Guard
  PROVE  WhereInv'
<1>1. /\ route \in DOMAIN Routes /\ passed \in Nat /\ passed < Len(Routes[route].guards)
      /\ step = "guards" /\ LocalUser \in RequestUsers \cup {None}
      /\ JwtUser \in RequestUsers \cup {None}
  BY GuardsFindUsers DEF WhereInv, GuardInv, TypeOK, Guard
<1>2. passed > 0 => user \in RequestUsers
  BY DEF WhereInv, GuardInv
<1>3. Routes[route].guards[1] # "CaslAbilityGuard"
  BY <1>1, RoutesOK DEF RouteOK, GuardsOK, Authenticating
<1>4. \/ /\ user' \in RequestUsers /\ passed' = passed + 1 /\ step' = step /\ answer' = answer
      \/ /\ passed' = passed /\ user' = user /\ step' = "answered"
         /\ answer'.code \in {401, 403, 500}
  <2>1. ASSUME NEW u \in RequestUsers \cup {None}, Authenticate(u)
        PROVE  \/ /\ user' \in RequestUsers /\ passed' = passed + 1
                  /\ step' = step /\ answer' = answer
               \/ /\ passed' = passed /\ user' = user /\ step' = "answered"
                  /\ answer'.code \in {401, 403, 500}
    BY <2>1, StatusesOf DEF Authenticate, Fails, Refuse, Answers
  <2>2. ASSUME Routes[route].guards[passed + 1] = "CaslAbilityGuard", CaslAbilityGuard
        PROVE  \/ /\ user' \in RequestUsers /\ passed' = passed + 1
                  /\ step' = step /\ answer' = answer
               \/ /\ passed' = passed /\ user' = user /\ step' = "answered"
                  /\ answer'.code \in {401, 403, 500}
    <3>1. user \in RequestUsers
      BY <1>1, <1>2, <1>3, <2>2
    <3>2. \/ passed' = passed + 1 /\ UNCHANGED <<step, answer, user>>
          \/ Refuse("Forbidden") /\ UNCHANGED <<passed, user>>
      BY <2>2 DEF CaslAbilityGuard
    <3> QED
      BY <3>1, <3>2, StatusesOf DEF Refuse, Answers
  <2> QED
    BY <1>1, <2>1, <2>2 DEF Guard
<1>5. UNCHANGED <<admins, rowVars, payload, requestVars, body, raced>>
  BY DEF Guard
<1>6. GuardInv'
  BY <1>1, <1>4, <1>5 DEF WhereInv, GuardInv, requestVars, rowVars
<1>7. TypeOK'
  <2>1. passed' \in 0..Len(Routes[route].guards)
    BY <1>1, <1>4, LengthsAreNatural
  <2> QED
    BY <1>1, <1>4, <1>5, <2>1 DEF WhereInv, TypeOK, requestVars, rowVars
<1> QED
  BY <1>6, <1>7 DEF WhereInv

\* What the pipes do: they refuse, report the fields of a part, or trim the body.
LEMMA PipesOutcomes ==
  ASSUME Pipes
  PROVE  /\ \/ Refuse("PrismaClientValidationError")
            \/ \E part \in {Routes[route].takes.param, Routes[route].takes.query,
                             Routes[route].takes.body} :
                 Failing(part) # {} /\ RefuseFields(Failing(part))
            \/ /\ Failing(Routes[route].takes.body) = {}
               /\ step' = "handler" /\ answer' = answer
         /\ step' = "handler" =>
              body' = [f \in DOMAIN Routes[route].takes.body |-> TrimString(f, shape[f])]
         /\ step' # "handler" => body' = body
BY DEF Pipes

LEMMA WherePiped ==
  ASSUME WhereInv, Pipes
  PROVE  WhereInv'
<1>1. /\ route \in DOMAIN Routes /\ passed = Len(Routes[route].guards) /\ step = "guards"
      /\ UNCHANGED <<admins, rowVars, payload, requestVars, passed, user, raced>>
  BY DEF WhereInv, GuardInv, Pipes
<1>2. \/ step' = "answered" /\ answer'.code \in {400, 500} /\ body' = body
      \/ step' = "handler" /\ answer' = answer
  <2>1. ASSUME NEW fields, RefuseFields(fields)
        PROVE  step' = "answered" /\ answer'.code = 400
    BY <2>1, StatusesOf DEF RefuseFields, Answers
  <2>2. ASSUME Refuse("PrismaClientValidationError")
        PROVE  step' = "answered" /\ answer'.code = 500
    BY <2>2, StatusesOf DEF Refuse, Answers
  <2> QED
    BY <2>1, <2>2, PipesOutcomes
<1>3. \A f \in DOMAIN body' : body'[f] \in Shapes
  <2>1. CASE step' = "handler"
    <3>1. ASSUME NEW f \in DOMAIN Routes[route].takes.body
          PROVE  shape[f] \in Shapes
      <4>1. f \in DOMAIN Dto(route)
        BY <1>1, PartOfDto
      <4> QED
        BY <1>1, <4>1 DEF WhereInv, TypeOK
    <3>2. ASSUME NEW f, NEW t \in Shapes
          PROVE  TrimString(f, t) \in Shapes
      BY DEF TrimString, Shapes
    <3> QED
      BY <2>1, <3>1, <3>2, PipesOutcomes
  <2>2. CASE step' # "handler"
    BY <2>2, PipesOutcomes DEF WhereInv, TypeOK
  <2> QED
    BY <2>1, <2>2
<1>4. GuardInv'
  BY <1>1, <1>2 DEF WhereInv, GuardInv, requestVars, rowVars
<1>5. TypeOK'
  BY <1>1, <1>2, <1>3 DEF WhereInv, TypeOK, requestVars, rowVars
<1> QED
  BY <1>4, <1>5 DEF WhereInv

LEMMA NoFields == \A f : f \notin DOMAIN <<>>
OBVIOUS

LEMMA FailsAnswer ==
  ASSUME Fails
  PROVE  step' = "answered" /\ answer'.code = 500 /\ answer'.fields = {"statusCode", "message"}
BY StatusesOf DEF Fails, Refuse, Answers

LEMMA WhereSigningUp ==
  ASSUME WhereInv, CreateUser \/ CreateProfile \/ FinishSignup
  PROVE  WhereInv'
<1>1. /\ step # "none" /\ route = "signup" => whose \in Users
      /\ step # "none" => route \in DOMAIN Routes
      /\ step \in {"created", "profiled"} => route = "signup" /\ whose \in exist
      /\ payload \in Payloads \cup {None} /\ exist \subseteq Users /\ profiled \subseteq exist
  BY PipelineAssumption DEF WhereInv, GuardInv, TypeOK, Naming
<1>2. CASE CreateUser
  <2>1. Refuse("P2002") => step' = "answered" /\ answer'.code = 409
    BY StatusesOf DEF Refuse, Answers
  <2> QED
    BY <1>1, <1>2, <2>1, HandlerStep, FailsAnswer DEF CreateUser
<1>3. CASE CreateProfile
  BY <1>1, <1>3, HandlerStep, FailsAnswer DEF CreateProfile
<1>4. CASE FinishSignup
  <2>1. SignedIn(whose, None) => payload' \in Payloads
    BY <1>1, <1>4 DEF SignedIn, Payloads, FinishSignup
  <2>2. step' = "answered" /\ answer'.code \in {200, 201, 204, 500}
    BY <1>1, <1>4, ReturnsAnswer, FailsAnswer DEF FinishSignup
  <2> QED
    BY <1>1, <1>4, <2>1, <2>2, HandlerStep DEF FinishSignup, rowVars
<1> QED
  BY <1>2, <1>3, <1>4

LEMMA SigningInHasUser ==
  ASSUME WhereInv, route \in SigningIn, step = "handler"
  PROVE  user \in RequestUsers /\ route \in DOMAIN Routes
<1>1. route \in DOMAIN Routes /\ passed = Len(Routes[route].guards)
  BY DEF WhereInv, GuardInv
<1>2. passed > 0
  BY <1>1, RoutesOK DEF RouteOK
<1> QED
  BY <1>1, <1>2 DEF WhereInv, GuardInv

LEMMA WhereSignedIn ==
  ASSUME WhereInv, SignIn
  PROVE  WhereInv'
<1>1. /\ user \in RequestUsers /\ route \in DOMAIN Routes /\ step = "handler"
      /\ UNCHANGED <<HandlerVars, rowVars>>
      /\ payload \in Payloads \cup {None} /\ exist \subseteq Users /\ profiled \subseteq exist
      /\ route = "impersonateUser" => whose \in Users
  BY SigningInHasUser DEF SignIn, WhereInv, TypeOK, GuardInv, Naming
<1>2. ASSUME NEW u \in Users, NEW v \in Users \cup {None}, SignedIn(u, v)
      PROVE  payload' \in Payloads
  BY <1>2 DEF SignedIn, Payloads
<1>3. user.id \in Users /\ user.impersonatedBy \in Users \cup {None}
  BY <1>1 DEF RequestUsers
<1>4. ASSUME NEW exception \in {"Forbidden", "Unauthorized"}, Refuse(exception)
      PROVE  step' = "answered" /\ answer'.code \in {401, 403, 500}
  BY <1>4, StatusesOf DEF Refuse, Answers
<1>5. step' = "answered" /\ answer'.code \in {200, 201, 204, 401, 403, 500}
  BY <1>1, <1>4, ReturnsAnswer, FailsAnswer
  DEF SignIn, Login, ImpersonateUser, StopImpersonation
<1>6. payload' \in Payloads \cup {None}
  BY <1>1, <1>2, <1>3 DEF SignIn, Login, ImpersonateUser, StopImpersonation
<1> QED
  BY <1>1, <1>5, <1>6, HandlerStep DEF rowVars

LEMMA WhereHandled ==
  ASSUME WhereInv, Logout \/ Handle
  PROVE  WhereInv'
<1>1. /\ route \in DOMAIN Routes /\ step = "handler"
      /\ UNCHANGED <<HandlerVars, rowVars>>
      /\ payload' \in Payloads \cup {None} /\ exist \subseteq Users /\ profiled \subseteq exist
  BY DEF Logout, Handle, WhereInv, TypeOK, GuardInv
<1>2. ASSUME NEW exception \in Routes[route].throws, Refuse(exception)
      PROVE  step' = "answered" /\ answer'.code \in {400, 401, 403, 404, 409, 500}
  BY <1>1, <1>2, RefuseAnswers, RoutesOK DEF RouteOK, Refusals
<1>3. step' = "answered" /\ answer'.code \in {200, 201, 204, 400, 401, 403, 404, 409, 500}
  BY <1>1, <1>2, ReturnsAnswer, FailsAnswer DEF Logout, Handle
<1> QED
  BY <1>1, <1>3, HandlerStep DEF rowVars

LEMMA WhereOthers ==
  ASSUME WhereInv, (\E u \in Users : OthersSignUp(u)) \/ Done
  PROVE  WhereInv'
<1>1. ASSUME NEW u \in Users, OthersSignUp(u)
      PROVE  WhereInv'
  <2>1. /\ exist' \subseteq Users /\ profiled' \subseteq exist' /\ exist \subseteq exist'
        /\ UNCHANGED <<admins, payload, requestVars, step, passed, user, body, answer>>
    BY <1>1 DEF WhereInv, TypeOK, OthersSignUp
  <2>2. raced' \in BOOLEAN
    BY <1>1 DEF WhereInv, TypeOK, OthersSignUp
  <2>3. GuardInv'
    BY <2>1 DEF WhereInv, GuardInv, requestVars
  <2>4. TypeOK'
    BY <2>1, <2>2 DEF WhereInv, TypeOK, requestVars
  <2> QED
    BY <2>3, <2>4 DEF WhereInv
<1>2. CASE Done
  <2>1. GuardInv'
    BY <1>2 DEF Done, GuardInv
  <2>2. TypeOK'
    BY <1>2, NoFields DEF WhereInv, TypeOK, Done, NoAnswer, rowVars
  <2> QED
    BY <2>1, <2>2 DEF WhereInv
<1> QED
  BY <1>1, <1>2

LEMMA WhereHolds == Spec => []WhereInv
<1>1. ASSUME Init PROVE WhereInv
  <2>1. GuardInv
    BY <1>1 DEF Init, GuardInv
  <2>2. \A f \in DOMAIN body : body[f] \in Shapes
    BY <1>1, NoFields DEF Init
  <2>3. TypeOK
    BY <1>1, <2>2 DEF Init, TypeOK, NoAnswer
  <2> QED
    BY <2>1, <2>3 DEF WhereInv
<1>2. WhereInv /\ [Next]_vars => WhereInv'
  <2> SUFFICES ASSUME WhereInv, [Next]_vars
               PROVE  WhereInv'
    OBVIOUS
  <2>1. CASE UNCHANGED vars
    <3>1. TypeOK'
      BY <2>1 DEF vars, rowVars, requestVars, WhereInv, TypeOK
    <3>2. GuardInv'
      BY <2>1 DEF vars, rowVars, requestVars, WhereInv, GuardInv
    <3> QED
      BY <3>1, <3>2 DEF WhereInv
  <2>2. CASE Next
    BY <2>2, WhereSent, WhereGuarded, WherePiped, WhereSigningUp, WhereSignedIn, WhereHandled,
       WhereOthers DEF Next
  <2> QED
    BY <2>1, <2>2
<1> QED
  BY <1>1, <1>2, PTL DEF Spec

\* Every variable always has its type: a request its route's fields and no more guards than
\* its route has, a browser's token two users, an answer one of the documented codes or 500.
THEOREM PipelineTypeCorrect == Spec => []TypeOK
BY WhereHolds, PTL DEF WhereInv

--------------------------------------------------------------------------------
(* Nobody impersonates: no rule of CaslAbilityFactory is about it. *)

LEMMA NobodyMay == \A u : ~Can(u, "impersonate", "User")
BY DEF Can, CreateForUser

\* A request to impersonate stops at its second guard.
ImpersonateInv ==
  /\ payload # None => payload.impersonatedSub = None
  /\ route = "impersonateUser" => passed <= 1

LEMMA ImpersonateStops ==
  ASSUME WhereInv, ImpersonateInv, route = "impersonateUser",
         step \in {"handler", "created", "profiled"}
  PROVE  FALSE
<1>1. route \in DOMAIN Routes /\ passed = Len(Routes[route].guards)
  BY DEF WhereInv, GuardInv
<1>2. Routes[route].guards = <<"JwtAuthGuard", "CaslAbilityGuard">>
  BY <1>1, RoutesOK DEF RouteOK
<1> QED
  BY <1>1, <1>2 DEF ImpersonateInv

LEMMA ImpersonateHolds == Spec => []ImpersonateInv
<1>1. Init => ImpersonateInv
  BY PipelineAssumption DEF Init, ImpersonateInv
<1>2. WhereInv /\ WhereInv' /\ ImpersonateInv /\ [Next]_vars => ImpersonateInv'
  <2> SUFFICES ASSUME WhereInv, WhereInv', ImpersonateInv, [Next]_vars
               PROVE  ImpersonateInv'
    OBVIOUS
  <2>1. ASSUME UNCHANGED <<payload, route, passed>>
        PROVE  ImpersonateInv'
    BY <2>1 DEF ImpersonateInv
  <2>2. ASSUME NEW r \in DOMAIN Routes, NEW fields \in SUBSET DOMAIN Dto(r),
               NEW odd \in [fields -> Shapes \ {"good"}], SendRequest(r, odd)
        PROVE  ImpersonateInv'
    BY <2>2 DEF SendRequest, ImpersonateInv, WhereInv, GuardInv
  <2>3. ASSUME NEW u \in Users, OthersSignUp(u)
        PROVE  ImpersonateInv'
    BY <2>1, <2>3 DEF OthersSignUp, requestVars
  <2>4. CASE Guard
    <3>1. CASE route # "impersonateUser"
      BY <2>4, <3>1 DEF Guard, ImpersonateInv, requestVars
    <3>2. CASE route = "impersonateUser"
      <4>1. /\ passed \in Nat /\ route' = route /\ payload' = payload
            /\ Routes[route].guards = <<"JwtAuthGuard", "CaslAbilityGuard">>
            /\ passed < Len(Routes[route].guards)
        BY <2>4, <3>2, RoutesOK, LengthsAreNatural
        DEF Guard, RouteOK, WhereInv, TypeOK, GuardInv, requestVars
      <4>2. CASE passed = 0
        <5>1. ASSUME NEW u, Authenticate(u)
              PROVE  passed' \in {0, 1}
          BY <4>1, <4>2, <5>1 DEF Authenticate
        <5> QED
          BY <2>4, <4>1, <4>2, <5>1 DEF Guard, ImpersonateInv
      <4>3. CASE passed = 1
        <5>1. CaslAbilityGuard
          BY <2>4, <4>1, <4>3 DEF Guard
        <5>2. passed' = passed
          BY <3>2, <5>1, NobodyMay DEF CaslAbilityGuard, RequiredPermissions
        <5> QED
          BY <4>1, <5>2 DEF ImpersonateInv
      <4> QED
        BY <4>1, <4>2, <4>3
    <3> QED
      BY <3>1, <3>2
  <2>5. CASE Pipes
    BY <2>1, <2>5 DEF Pipes, requestVars
  <2>6. CASE CreateUser \/ CreateProfile \/ Handle
    BY <2>1, <2>6 DEF CreateUser, CreateProfile, Handle, HandlerVars, requestVars
  <2>7. CASE FinishSignup
    BY <2>7 DEF FinishSignup, SignedIn, HandlerVars, requestVars, ImpersonateInv
  <2>8. CASE SignIn
    <3>1. route # "impersonateUser"
      BY <2>8, ImpersonateStops DEF SignIn
    <3>2. payload' = payload \/ \E u : payload' = [sub |-> u, impersonatedSub |-> None]
      BY <2>8, <3>1 DEF SignIn, Login, ImpersonateUser, StopImpersonation, SignedIn
    <3> QED
      BY <2>8, <3>2 DEF SignIn, HandlerVars, requestVars, ImpersonateInv
  <2>9. CASE Logout
    BY <2>9 DEF Logout, HandlerVars, requestVars, ImpersonateInv
  <2>10. CASE Done
    BY <2>10 DEF Done, ImpersonateInv
  <2>11. CASE UNCHANGED vars
    BY <2>1, <2>11 DEF vars, requestVars
  <2> QED
    BY <2>2, <2>3, <2>4, <2>5, <2>6, <2>7, <2>8, <2>9, <2>10, <2>11 DEF Next
<1> QED
  BY <1>1, <1>2, WhereHolds, PTL DEF Spec

\* However users and administrators sign up, in and out, no token ever names an impersonated
\* user, and CaslAbilityGuard lets nobody reach the handler of /auth/impersonate.
THEOREM NobodyEverImpersonates == Spec => []NobodyImpersonates
<1>1. WhereInv /\ ImpersonateInv => NobodyImpersonates
  BY ImpersonateStops DEF NobodyImpersonates, ImpersonateInv
<1> QED
  BY <1>1, WhereHolds, ImpersonateHolds, PTL

--------------------------------------------------------------------------------
(* A valid body, trimmed. *)

\* The body is that of the request, which was found valid, trimmed.
BodyInv ==
  \A f \in DOMAIN body :
    /\ step # "none" /\ f \in DOMAIN Routes[route].takes.body
    /\ shape[f] \in Routes[route].takes.body[f].accepts
    /\ body[f] = TrimString(f, shape[f])

LEMMA BodyHolds == Spec => []BodyInv
<1>1. Init => BodyInv
  BY NoFields DEF Init, BodyInv
<1>2. WhereInv /\ BodyInv /\ [Next]_vars => BodyInv'
  <2> SUFFICES ASSUME WhereInv, BodyInv, [Next]_vars
               PROVE  BodyInv'
    OBVIOUS
  <2>1. ASSUME UNCHANGED <<route, shape, body>>, step' # "none" \/ step' = step
        PROVE  BodyInv'
    BY <2>1 DEF BodyInv
  <2>2. ASSUME NEW r \in DOMAIN Routes, NEW fields \in SUBSET DOMAIN Dto(r),
               NEW odd \in [fields -> Shapes \ {"good"}], SendRequest(r, odd)
        PROVE  BodyInv'
    BY <2>2, NoFields DEF SendRequest, BodyInv, WhereInv, GuardInv
  <2>3. ASSUME NEW u \in Users, OthersSignUp(u)
        PROVE  BodyInv'
    BY <2>1, <2>3 DEF OthersSignUp, requestVars
  <2>4. CASE Guard
    <3>1. step' \in {step, "answered"}
      BY <2>4 DEF Guard, Authenticate, CaslAbilityGuard, Fails, Refuse, Answers
    <3> QED
      BY <2>1, <2>4, <3>1 DEF Guard, requestVars
  <2>5. CASE Pipes
    <3>1. route \in DOMAIN Routes /\ route' = route /\ shape' = shape
      BY <2>5 DEF Pipes, WhereInv, GuardInv, requestVars
    <3>2. CASE step' = "handler"
      <4>1. Failing(Routes[route].takes.body) = {}
        BY <2>5, <3>2, PipesOutcomes DEF Refuse, RefuseFields, Answers
      <4>2. ASSUME NEW f \in DOMAIN Routes[route].takes.body
            PROVE  shape[f] \in Routes[route].takes.body[f].accepts
        BY <3>1, <4>1, PartOfDto DEF Failing, Passes
      <4> QED
        BY <2>5, <3>1, <3>2, <4>2, PipesOutcomes DEF BodyInv
    <3>3. CASE step' # "handler"
      <4>1. step' = "answered" /\ body' = body
        BY <2>5, <3>3, PipesOutcomes DEF Refuse, RefuseFields, Answers
      <4> QED
        BY <2>1, <3>1, <4>1
    <3> QED
      BY <3>2, <3>3
  <2>6. CASE CreateUser \/ CreateProfile \/ FinishSignup \/ SignIn \/ Logout \/ Handle
    <3>1. UNCHANGED <<route, shape, body>>
      BY <2>6 DEF CreateUser, CreateProfile, FinishSignup, SignIn, Logout, Handle, HandlerVars,
                  requestVars
    <3>2. step' \in {"created", "profiled", "answered"}
      BY <2>6 DEF CreateUser, CreateProfile, FinishSignup, SignIn, Logout, Handle, Login,
                  ImpersonateUser, StopImpersonation, Returns, Return, Fails, Refuse, Answers
    <3> QED
      BY <2>1, <3>1, <3>2
  <2>7. CASE Done
    BY <2>7, NoFields DEF Done, BodyInv
  <2>8. CASE UNCHANGED vars
    BY <2>1, <2>8 DEF vars, requestVars
  <2> QED
    BY <2>2, <2>3, <2>4, <2>5, <2>6, <2>7, <2>8 DEF Next
<1> QED
  BY <1>1, <1>2, WhereHolds, PTL DEF Spec

\* The body a handler is given is still valid when TrimPipe has trimmed it, though it was
\* validated before, but for a token of spaces; passwords are as they were sent.
THEOREM TrimmedIsValid == Spec => []ValidAfterTrim
<1>1. WhereInv /\ BodyInv => ValidAfterTrim
  <2> SUFFICES ASSUME WhereInv, BodyInv, NEW f \in DOMAIN body
               PROVE  /\ \/ body[f] \in Dto(route)[f].accepts
                         \/ f = "token" /\ body[f] = "empty"
                      /\ f = "password" => body[f] = shape[f]
    BY DEF ValidAfterTrim
  <2>1. /\ route \in DOMAIN Routes /\ f \in DOMAIN Routes[route].takes.body
        /\ shape[f] \in Routes[route].takes.body[f].accepts /\ body[f] = TrimString(f, shape[f])
    BY DEF BodyInv, WhereInv, GuardInv
  <2>2. Dto(route)[f] = Routes[route].takes.body[f] /\ TrimOK(Routes[route].takes.body)
    BY <2>1, PartOfDto, RoutesOK DEF RouteOK
  <2> QED
    BY <2>1, <2>2 DEF TrimString, TrimOK
<1> QED
  BY <1>1, WhereHolds, BodyHolds, PTL

--------------------------------------------------------------------------------
(* The answer. *)

Parts == {Routes[route].takes.param, Routes[route].takes.query, Routes[route].takes.body}

SameRequest == UNCHANGED requestVars /\ route \in DOMAIN Routes

\* A conflict is found by the insert of a signup.
RefusedBy(exception) ==
  /\ Refuse(exception)
  /\ exception = "P2002" => route = "signup" /\ step = "handler" /\ whose \in exist

Answering ==
  \/ Returns
  \/ \E exception \in Refusals : RefusedBy(exception)
  \/ \E part \in Parts : Failing(part) # {} /\ RefuseFields(Failing(part))

\* How an answer comes about: once, and with the request it answers.
LEMMA HowAnswered ==
  ASSUME WhereInv, [Next]_vars
  PROVE  \/ answer' = NoAnswer /\ step' # "answered"
         \/ UNCHANGED <<answer, requestVars, step>> /\ (raced => raced')
         \/ SameRequest /\ raced' = raced /\ Answering
<1> DEFINE Goal == \/ answer' = NoAnswer /\ step' # "answered"
                   \/ UNCHANGED <<answer, requestVars, step>> /\ (raced => raced')
                   \/ SameRequest /\ raced' = raced /\ Answering
<1>1. /\ step # "answered" => answer = NoAnswer
      /\ step # "none" => route \in DOMAIN Routes
  BY DEF WhereInv, GuardInv
<1>2. ASSUME NEW exception \in Refusals \ {"P2002"}, Refuse(exception)
      PROVE  Answering
  BY <1>2 DEF Answering, RefusedBy
<1>3. {"Error", "Unauthorized", "Forbidden", "PrismaClientValidationError"} \subseteq
        Refusals \ {"P2002"}
  BY DEF Refusals, Exceptions
<1>4. Fails => Answering
  BY <1>2, <1>3 DEF Fails
<1>5. Returns => Answering
  BY DEF Answering
<1>6. ASSUME NEW r \in DOMAIN Routes, NEW fields \in SUBSET DOMAIN Dto(r),
             NEW odd \in [fields -> Shapes \ {"good"}], SendRequest(r, odd)
      PROVE  Goal
  BY <1>1, <1>6 DEF SendRequest
<1>7. ASSUME NEW u \in Users, OthersSignUp(u)
      PROVE  Goal
  BY <1>7 DEF OthersSignUp
<1>8. CASE Guard
  <2>1. step = "guards" /\ UNCHANGED <<requestVars, raced>>
    BY <1>8 DEF Guard
  <2>2. ASSUME NEW u, Authenticate(u)
        PROVE  UNCHANGED <<answer, step>> \/ Answering
    BY <1>2, <1>3, <1>4, <2>2 DEF Authenticate
  <2>3. ASSUME CaslAbilityGuard
        PROVE  UNCHANGED <<answer, step>> \/ Answering
    BY <1>2, <1>3, <2>3 DEF CaslAbilityGuard
  <2>4. UNCHANGED <<answer, step>> \/ Answering
    BY <1>8, <2>2, <2>3 DEF Guard
  <2> QED
    BY <1>1, <2>1, <2>4 DEF SameRequest
<1>9. CASE Pipes
  <2>1. step = "guards" /\ UNCHANGED <<requestVars, raced>>
    BY <1>9 DEF Pipes
  <2>2. Answering \/ (step' = "handler" /\ answer' = answer)
    BY <1>2, <1>3, <1>9, PipesOutcomes DEF Answering, Parts
  <2> QED
    BY <1>1, <2>1, <2>2 DEF SameRequest
<1>10. CASE CreateUser \/ CreateProfile \/ FinishSignup
  <2>1. step # "none" /\ step # "answered" /\ UNCHANGED <<requestVars, raced>>
    BY <1>10 DEF CreateUser, CreateProfile, FinishSignup, HandlerVars
  <2>2. ASSUME CreateUser, whose \in exist, Refuse("P2002")
        PROVE  Answering
    BY <2>2 DEF CreateUser, Answering, RefusedBy, Refusals, Exceptions
  <2>3. Answering \/ (step' \in {"created", "profiled"} /\ answer' = answer)
    BY <1>4, <1>5, <1>10, <2>2 DEF CreateUser, CreateProfile, FinishSignup
  <2> QED
    BY <1>1, <2>1, <2>3 DEF SameRequest
<1>11. CASE SignIn
  <2>1. step # "none" /\ UNCHANGED <<requestVars, raced>>
    BY <1>11 DEF SignIn, HandlerVars
  <2>2. Answering
    BY <1>2, <1>3, <1>4, <1>5, <1>11 DEF SignIn, Login, ImpersonateUser, StopImpersonation
  <2> QED
    BY <1>1, <2>1, <2>2 DEF SameRequest
<1>12. CASE Logout \/ Handle
  <2>1. step = "handler" /\ UNCHANGED <<requestVars, raced>> /\ route \in DOMAIN Routes
    BY <1>1, <1>12 DEF Logout, Handle, HandlerVars
  <2>2. ASSUME Handle, NEW exception \in Routes[route].throws
        PROVE  exception \in Refusals \ {"P2002"}
    BY <2>1, <2>2, RoutesOK DEF RouteOK, Handle, Refusals
  <2>3. Answering
    BY <1>2, <1>4, <1>5, <1>12, <2>2 DEF Logout, Handle
  <2> QED
    BY <2>1, <2>3 DEF SameRequest
<1>13. CASE Done
  BY <1>13 DEF Done
<1>14. CASE UNCHANGED vars
  BY <1>14 DEF vars
<1> QED
  BY <1>6, <1>7, <1>8, <1>9, <1>10, <1>11, <1>12, <1>13, <1>14 DEF Next

\* What is sent when a handler returns result: Sent says it of its route's document.
LEMMA WhatReturnsSend ==
  ASSUME route \in DOMAIN Routes, Returns
  PROVE  \E result \in Routes[route].returns :
           /\ answer'.fields = Sent(Routes[route].doc, result).fields
           /\ answer'.data = Sent(Routes[route].doc, result).data
<1>1. PICK result \in Routes[route].returns : Return(result)
  BY DEF Returns
<1>2. {"top", "columns", "excluded"} \subseteq DOMAIN result
  BY RoutesOK DEF RouteOK, Fit
<1>3. /\ Serialized(result).top = result.top \ result.excluded
      /\ Serialized(result).columns = result.columns \ result.excluded
  BY <1>2 DEF Serialized
<1>4. answer' = Intercept(Serialized(result))
  BY <1>1 DEF Return, Answers
<1> HIDE DEF Serialized
<1>5. /\ answer'.fields = Sent(Routes[route].doc, result).fields
      /\ answer'.data = Sent(Routes[route].doc, result).data
  BY <1>3, <1>4 DEF Intercept, Sent
<1> QED
  BY <1>5

\* Whatever a handler returns, no column that an entity excludes is sent, and serialization and
\* ResponseInterceptor make of it what the document of its route says, in status, fields and
\* type of the data, on every route that has a document; but for the type of the data of
\* getUserAbilities and of a transaction that is not there.
THEOREM AnswersAreDocumented == Spec => []DocumentedAnswers
<1>1. Init => DocumentedAnswers
  BY DEF Init, DocumentedAnswers, NoAnswer
<1>2. WhereInv /\ DocumentedAnswers /\ [Next]_vars => DocumentedAnswers'
  <2> SUFFICES ASSUME WhereInv, DocumentedAnswers, [Next]_vars
               PROVE  DocumentedAnswers'
    OBVIOUS
  <2>1. CASE answer' = NoAnswer
    BY <2>1 DEF DocumentedAnswers, NoAnswer
  <2>2. CASE UNCHANGED <<answer, requestVars, step>>
    BY <2>2 DEF DocumentedAnswers, requestVars
  <2>3. CASE SameRequest /\ Answering
    <3>1. ASSUME NEW exception \in Refusals, RefusedBy(exception)
          PROVE  DocumentedAnswers'
      BY <3>1, RefuseAnswers DEF RefusedBy, DocumentedAnswers
    <3>2. ASSUME NEW fields, RefuseFields(fields)
          PROVE  DocumentedAnswers'
      <4>1. answer'.code = 400
        BY <3>2, StatusesOf DEF RefuseFields, Answers
      <4> QED
        BY <4>1 DEF DocumentedAnswers
    <3>3. CASE Returns
      <4>1. route \in DOMAIN Routes /\ route' = route
        BY <2>3 DEF SameRequest, requestVars
      <4>2. PICK result \in Routes[route].returns :
              /\ answer'.fields = Sent(Routes[route].doc, result).fields
              /\ answer'.data = Sent(Routes[route].doc, result).data
        BY <3>3, <4>1, WhatReturnsSend
      <4>3. Conforms(route, Routes[route].doc, result)
        BY <4>1, RoutesOK DEF RouteOK, Fit
      <4>4. answer'.code = Routes[route].doc.status
        BY <3>3, <4>1, ReturnsAnswer
      <4> QED
        BY <4>1, <4>2, <4>3, <4>4 DEF DocumentedAnswers, Conforms, Mistyped, Fits
    <3> QED
      BY <2>3, <3>1, <3>2, <3>3 DEF Answering
  <2> QED
    BY <2>1, <2>2, <2>3, HowAnswered
<1> QED
  BY <1>1, <1>2, WhereHolds, PTL DEF Spec

\* A request that is refused for its fields is told every wrong field of the part it is refused
\* for: one error never hides another of the same part.
THEOREM WrongFieldsAreReported == Spec => []WrongFieldsReported
<1>1. Init => WrongFieldsReported
  BY DEF Init, WrongFieldsReported
<1>2. WhereInv /\ WrongFieldsReported /\ [Next]_vars => WrongFieldsReported'
  <2> SUFFICES ASSUME WhereInv, WrongFieldsReported, [Next]_vars
               PROVE  WrongFieldsReported'
    OBVIOUS
  <2>1. CASE step' # "answered"
    BY <2>1 DEF WrongFieldsReported
  <2>2. CASE UNCHANGED <<answer, requestVars, step>>
    BY <2>2 DEF WrongFieldsReported, requestVars
  <2>3. CASE SameRequest /\ Answering
    <3>1. ASSUME NEW exception \in Refusals, RefusedBy(exception)
          PROVE  WrongFieldsReported'
      BY <3>1, RefuseAnswers DEF RefusedBy, WrongFieldsReported
    <3>2. CASE Returns
      BY <2>3, <3>2, ReturnsAnswer DEF SameRequest, WrongFieldsReported
    <3>3. ASSUME NEW part \in Parts, Failing(part) # {}, RefuseFields(Failing(part))
          PROVE  WrongFieldsReported'
      <4>1. route \in DOMAIN Routes /\ route' = route /\ shape' = shape
        BY <2>3 DEF SameRequest, requestVars
      <4>2. answer'.errors = Failing(part)
        BY <3>3 DEF RefuseFields, Answers, FormatValidationErrors
      <4>3. Failing(part) \subseteq DOMAIN part
        BY DEF Failing
      <4>4. \A f \in DOMAIN part : shape[f] \notin part[f].accepts => f \in Failing(part)
        BY <4>1, PartOfDto DEF Parts, Failing, Passes
      <4> QED
        BY <3>3, <4>1, <4>2, <4>3, <4>4 DEF WrongFieldsReported, Parts
    <3> QED
      BY <2>3, <3>1, <3>2, <3>3 DEF Answering
  <2> QED
    BY <2>1, <2>2, <2>3, HowAnswered
<1> QED
  BY <1>1, <1>2, WhereHolds, PTL DEF Spec

--------------------------------------------------------------------------------
(* Conflicts. *)

\* A signup that has passed the validators and finds its user there has been raced.
RaceInv ==
  /\ route = "signup" /\ step = "handler" /\ whose \in exist => raced
  /\ ConflictNeedsRace

LEMMA RaceHolds == Spec => []RaceInv
<1>1. Init => RaceInv
  BY DEF Init, RaceInv, ConflictNeedsRace, NoAnswer
<1>2. WhereInv /\ RaceInv /\ [Next]_vars => RaceInv'
  <2> SUFFICES ASSUME WhereInv, RaceInv, [Next]_vars
               PROVE  RaceInv'
    OBVIOUS
  <2>1. ConflictNeedsRace'
    <3>1. CASE answer' = NoAnswer
      BY <3>1 DEF ConflictNeedsRace, NoAnswer
    <3>2. CASE UNCHANGED answer /\ (raced => raced')
      BY <3>2 DEF RaceInv, ConflictNeedsRace
    <3>3. CASE SameRequest /\ raced' = raced /\ Answering
      <4>1. ASSUME NEW exception \in Refusals, RefusedBy(exception)
            PROVE  ConflictNeedsRace'
        BY <3>3, <4>1, RefuseAnswers DEF RefusedBy, RaceInv, ConflictNeedsRace
      <4>2. ASSUME NEW fields, RefuseFields(fields)
            PROVE  ConflictNeedsRace'
        BY <4>2, StatusesOf DEF RefuseFields, Answers, ConflictNeedsRace
      <4>3. CASE Returns
        BY <3>3, <4>3, ReturnsAnswer DEF SameRequest, ConflictNeedsRace
      <4> QED
        BY <3>3, <4>1, <4>2, <4>3 DEF Answering
    <3> QED
      BY <3>1, <3>2, <3>3, HowAnswered
  <2>2. ASSUME route' = "signup", step' = "handler", whose' \in exist'
        PROVE  raced'
    <3>1. ASSUME UNCHANGED <<route, whose, step, exist, raced>>
          PROVE  raced'
      BY <2>2, <3>1 DEF RaceInv
    <3>2. ASSUME NEW u \in Users, OthersSignUp(u)
          PROVE  raced'
      BY <2>2, <3>2 DEF OthersSignUp, RaceInv, requestVars
    <3>3. CASE Pipes
      <4>1. /\ route = "signup" /\ route \in DOMAIN Routes /\ whose \in exist
            /\ step = "guards"
        BY <2>2, <3>3 DEF Pipes, requestVars, rowVars, WhereInv, GuardInv
      <4>2. "email" \in DOMAIN Routes[route].takes.body
        BY <4>1, RoutesOK DEF RouteOK
      <4>3. Failing(Routes[route].takes.body) = {}
        BY <2>2, <3>3, PipesOutcomes DEF Refuse, RefuseFields, Answers
      <4>4. Passes("email")
        BY <4>2, <4>3 DEF Failing
      <4> QED
        BY <4>1, <4>4 DEF Passes, UserEmailNotExists
    <3>4. CASE Guard
      BY <2>2, <3>4 DEF Guard, Authenticate, CaslAbilityGuard, Fails, Refuse, Answers
    <3>5. CASE CreateUser \/ CreateProfile \/ FinishSignup \/ SignIn \/ Logout \/ Handle
      <4>1. step' \in {"created", "profiled", "answered"}
        BY <3>5 DEF CreateUser, CreateProfile, FinishSignup, SignIn, Logout, Handle, Login,
                    ImpersonateUser, StopImpersonation, Returns, Return, Fails, Refuse, Answers
      <4> QED
        BY <2>2, <4>1
    <3>6. ASSUME NEW r \in DOMAIN Routes, NEW fields \in SUBSET DOMAIN Dto(r),
                 NEW odd \in [fields -> Shapes \ {"good"}], SendRequest(r, odd)
          PROVE  raced'
      BY <2>2, <3>6 DEF SendRequest
    <3>7. CASE Done
      BY <2>2, <3>7 DEF Done
    <3>8. CASE UNCHANGED vars
      BY <3>1, <3>8 DEF vars, requestVars, rowVars
    <3> QED
      BY <3>2, <3>3, <3>4, <3>5, <3>6, <3>7, <3>8 DEF Next
  <2> QED
    BY <2>1, <2>2 DEF RaceInv
<1> QED
  BY <1>1, <1>2, WhereHolds, PTL DEF Spec

\* UserEmailNotExists and the unique constraint together: a signup is answered 409 only if
\* somebody else has taken the address between its validation and its insert.
THEOREM ConflictsAreRaces == Spec => []ConflictNeedsRace
BY RaceHolds, PTL DEF RaceInv
================================================================================
