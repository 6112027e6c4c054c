# Verification of the currency converter backend

TLA+ models of this NestJS backend (conversions and accounts, signup, exchange
rates, sessions, reset and confirmation tokens, mails, the dashboard cache, and
the pipeline every request passes), TLC configurations that check them on small
instances, and theorems that TLAPS checks for every instance. Paths are relative to the repository;
the code is under `src/src/`.

## 1. The system

Users sign up, get one account per currency, fund and withdraw, and convert
between their own accounts. HTTP handlers, Bull job handlers and cron handlers
all run in the same Node process; `main.ts` and `main-cli.ts` both boot
`AppModule`, and a deployment may run several processes. PostgreSQL (through
Prisma) and Redis (queues, cache, exchange rates) are shared by all of them.

| Component | State | Operations | Talks to | What is hard |
|---|---|---|---|---|
| Conversions (`transactions/`) | `Transaction` rows; the `transactions` queue | `convertFunds`, `createForexTransaction`, `processTransaction`, three reads | accounts (rows), exchange rates (call), queue | retries of a non-idempotent handler, commits of unknown outcome, crashes between statements, redelivered jobs, lock order |
| Accounts (`accounts/`) | `Account.availableBalance` | `fundAccount`, `withdrawFromAccount`, reads | the same rows as conversions | check-then-act over two statements |
| Account creation (`auth/` signup, `accounts/`) | `User`, `UserProfile`, `Account` rows; the `accounts` queue | `signup`, `enqueueAccountCreation`, `createAccountsForUser` | users, mail, sessions, queue | races of validators, half-done signups, redelivered jobs |
| Authentication (`auth/`) | refresh token, reset and confirm tokens of a `User` row; cookies | sign in, refresh, log out, impersonate, confirm, reset | users, mail | one refresh slot per user, tokens replaced and used by separate requests |
| Exchange rates (`common/integrations/exchange-rate/`) | a Redis hash and set | `convert`, `getExchangeRate`, refresh at boot, by cron, on a miss | HTTP provider, Redis | concurrent and partial refreshes, the value read before a refresh |
| Mail (`mail/`) | `MAIL_QUEUE` | six `send...` operations and their consumers | SMTP | one attempt per job, swallowed errors |
| Dashboard (`dashboard/`) | two cache entries per user | `getDashboardData` | accounts, conversions, cache | staleness: nothing invalidates them |
| Authorization (`casl/`) | none | abilities of a user | guards | who may impersonate |
| Request pipeline (`auth/guards`, `auth/strategies`, controllers, DTOs, `common/`, `utils/configureApp.ts`) | the request | guards, validation, trimming, serialization, response, filters | every service | what each stage assumes of the others: validate before trim, serialize before wrap, validators that read the database |
| Users (`users/`) | `User` rows | single-statement CRUD | everything | little |
| The rest | | configuration, wiring, templates, seed, console commands | | start-up, layout |

### What makes each component correct

- Conversions: money moves both legs at once, for the recorded amounts, from an
  account that covers the debit; a status tells what happened; every recorded
  conversion reaches a verdict; money is not moved twice.
- Accounts: an account is not overdrawn; concurrent updates are not lost.
- Account creation: one user per email, exactly one set of accounts per user,
  nobody forgotten.
- Sessions: a browser keeps its session unless there is a reason it loses it; a
  logout is final.
- Reset and confirmation: a link works until it is used, replaced or expired,
  and only then stops; the mail that carries it arrives.
- Exchange rates: a conversion uses a rate the provider gave for that pair; once
  the provider has answered, pairs it knows can be converted.
- Mail: a mail that was accepted is sent or leaves a failed job.
- Dashboard: what is shown was true at some time within the time to live.
- Pipeline: a handler sees valid input; an answer is the documented one and
  leaks no excluded column; nobody acts for somebody else.

## 2. Modules

```
BullQueue <- BullWorkers         one Bull queue; the processes that serve it (external)
     ^ INSTANCE        ^ INSTANCE
TransactionsService   AccountCreation <- MCAccountCreation
     | EXTENDS
AccountsService -> AccountRows   balances, row versions, row locks

TransactionsCorrectness EXTENDS TransactionsService   properties of money and statuses
     INSTANCE AtomicLedger                            the abstract specification
MCTransactions EXTENDS TransactionsCorrectness        constants of the runs

ExchangeRates <- MCExchangeRates                      the table in Redis and its refreshes

Durations                                             ms: configured durations
     ^ EXTENDS
Sessions <- MCSessions                                cookies and the refresh-token slot
CredentialTokens <- MCCredentialTokens                reset and confirm tokens, their mails
     INSTANCE BullWorkers
Dashboard <- MCDashboard                              one cached key in two stores
RequestPipeline <- MCRequestPipeline                  every route, from guard to answer

TransfersProofs EXTENDS TransactionsCorrectness       types, row locks, refinement, overdraft
TransactionsProofs EXTENDS TransfersProofs            verdicts and the budget of duplicates
SignupsProofs, RatesProofs, SessionsProofs, TokensProofs, DashboardProofs, PipelineProofs
                                                      EXTEND the module of their component
```

**BullQueue, BullWorkers** (external). Bull is a library. The modules fix what
the services rely on: a job is handed to a worker under a lock; a lock that is
not renewed expires, and the stalled job is handed out again at most
`MaxStalledCount` times (Bull's default, 1); a handler that throws costs one of
`Attempts` and delays the job; a worker without the lock can neither complete
nor fail its job. `BullWorkers` adds the worker: one slot for a job, `pc[w]` the
await at which its handler rests, and the faults a behaviour has had. A process
has as many slots for a queue as the concurrencies of its `@Process` handlers add
up to: one for `accounts` and `transactions`, six for `MAIL_QUEUE`, whose consumer
has six named handlers. When it dies, all of them do; in the model each slot that
was busy counts a fault. A lock
whose worker is still at the job is lost only by a fault (the event loop was
blocked or Redis out of reach for longer than the lock); a lock whose worker
died just expires.

**AccountRows.** `availableBalance` under PostgreSQL's READ COMMITTED: committed
balances, and per session the uncommitted versions, whose domain is what the
session has locked. Amounts are integers, a Decimal of fixed scale.

**AccountsService.** `FundAccount` is one step: what it reads before the
increment (the account's existence and owner) never changes. `withdrawFromAccount`
is two, `WithdrawFromAccount` (validate, read, compare) and `DebitWithdrawal`
(decrement without condition), because any other request or worker runs between
the two awaits; `WithdrawalLost` is a process that dies between them.

**TransactionsService.** One action per await:

| Action | Code (`transactions.service.ts`) |
|---|---|
| `ConvertFunds` | 30-42, 75-103: both accounts are the caller's, the rate, the Pending row |
| `EnqueueTransaction` / `CreationAborted` | 105-114 / the request stops between the row and the job |
| `StartJob` | `transaction.processor.ts` 9-14 |
| `MarkProcessing` | 124-127, outside the `try`: its error skips the `catch` |
| `DebitFrom` | 132-141: waits for the row, decrements, rolls back if below zero |
| `CreditTo` | 143-148: waits for the row, increments |
| `CommitTransfer` | 150: the commit, whose answer may be lost |
| `TransferAborted` | an error inside 130-150; a broken deadlock is not a fault |
| `MarkCompleted` | 153-156, still inside the `try` |
| `MarkFailed` | 157-165: the status, and the throw for Bull |
| `JobDone` | the handler's promise settles |
| `Crash`, `LockLost`, `QueueTimers` | the process and the queue |

`convertFunds` is one step although it makes several calls: owner and currency
of an account never change, and the rate is any of a set.
`IsNumberString` accepts a sign and nothing later looks at it, so a conversion's
amount may be negative; TLC is given one.

**AtomicLedger.** What the two services promise about money: `Record`,
`Transfer`, `DepositOrWithdraw`; no queue, worker, lock or session.
`AtomicTransfers` says that the detailed specification implements it, with
`balance`, `txn` and `applied` as they are (`INSTANCE AtomicLedger` substitutes
them by name).

**AccountCreation.** `signup`, one action per step (the validator on the email,
`usersService.create`, the profile, the confirmation mail and sign-in, the
queue), and `createAccountsForUser` as a lookup and an insert: the interactive
transaction does not isolate one from the other.

**ExchangeRates.** A caller is a boot (`onModuleInit`), a cron tick or a
conversion that looks up its pair; each may begin a refresh.

| Action | Code (`exchange-rate.service.ts`) |
|---|---|
| `Boot`, `Cron`, `GetExchangeRate` | 58-66, 198-209, 148-159 |
| `FetchInitial`, `StoreCurrencies` | 127-133 with 68-80 |
| `StoreRates` of `Main` | 119-121, the write for the base; then one task per currency (137-143) |
| `FetchBase`, `FetchReverse`, `StoreRates` of a currency | 139-141, 101-117, 119-121 |
| `Refuse` | 161 and 31-33: the rate read before the refresh is returned |
| `Publish`, `Crash` | the provider; the process of a caller |

The tasks of one refresh run at once on a shared set of visited currencies, so
which of two tasks fetches a reverse rate depends on their order. A task that
fails fails the refresh, but the others go on and may still write. A rate is the
pair it was quoted for and the publication it is from. The provider is taken to
quote every pair of the currencies it knows; entries of its answer come in any
order; when one of the parallel SADDs fails, any subset of them was made.

**Durations.** `ms`: a duration as the number and unit its pattern finds, in
milliseconds. `Sessions` and `CredentialTokens` derive cookie and link ages from
the configured durations with it.

**Sessions.** `step[r]` is where a request is, `jar[b]` what a browser sends,
`slot[u]` the token `User.refreshToken` is a hash of.

| Action | Code |
|---|---|
| `LocalAuth`, `JwtAuth` | `LocalAuthGuard`; `JwtAuthGuard` of a logout: only the cookie's age matters |
| `SendRefresh`, `JwtRefreshAuth` | the request leaves with its cookie; `JwtRefreshStrategy` and `auth.service.ts` 164-178 read the slot |
| `SignTokens`, `StoreRefreshToken`, `Answer` | `signIn`: 197-213, 215-218, 220-235 with the browser that gets the answer |
| `ClearRefreshToken` | 335-336 |
| `RequestLost` | a call fails, the process dies or the answer is lost, at any await |

`iat` is given to `jsonwebtoken` in milliseconds where it counts seconds, so
`exp` lies tens of thousands of years ahead: tokens never expire, only cookies
do. bcrypt looks at 72 bytes only, so two refresh tokens of a user signed within
a tenth of a second share a hash: `iat` counts such windows.

**CredentialTokens.** One user; a request is a forgotten password, a reset, a
resend or a confirmation, and its mail a job of `BullWorkers` with `Attempts` 1.

| Action | Code |
|---|---|
| `BeginPasswordReset`, `CreateAndSaveForgotPasswordToken`, `QueueMail` | `auth.service.ts` 110-119, 414-426, `mail.service.ts` 61-79 |
| `CompletePasswordReset`, `SetPassword`, `QueueMail`, `MarkUserPasswordAsReset` | 52-69, 128-136, `mail.service.ts` 81-95, 391-400 |
| `ResendConfirmEmail`, `CreateAndSaveEmailConfirmToken`, `QueueMail` | 71-86, 402-412, `mail.service.ts` 44-59 |
| `ConfirmUserAccount`, `MarkUserAsConfirmed`, `QueueMail` | 88-98, 377-389, `mail.service.ts` 31-42 |
| `Render`, `SendMail`, `JobDone` | the handlers of `mail.consumer.ts`, `mailer.service.ts` 41-46 |

A token is the request that generated it; a user can only come with a token that
a mail has brought. A user whose signup stopped before the profile has none, and
three of the four mails read its names.

**Dashboard.** One key (both are tried) in `memory[p]` of each process and in
Redis. `GetFromMemory`, `GetFromRedis`, `Fetch`, `SetMemory`, `SetRedis` and
`Answer` are the awaits of `dashboard.service.ts` 28-45 and 47-71. A value is the
version of the table and when it was read. `cache-manager` is external: as a
failing store may or may not fail the call, both happen. An entry of a memory
goes when it expires or, at any time, by `Evict`: the store is a `CacheableMemory`
of 5000 entries (`common.module.ts` 51), which those of other users may fill.
`disordered` remembers what can bring an older balance back: a request that
another one overlapped has stored something, or a memory has evicted an entry
for which Redis has an older one.

**RequestPipeline.** The controllers as a table `Routes`: guards, the DTO of
each part, the documented answer, what the handler returns and throws. A request
passes `Guard` (local, JWT, refresh, CASL; 401 or 403 if it refuses, 500 if a call
of it fails or the password cannot be verified), `Pipes` (validation of all parts,
then trimming of the body), its handler, and `Serialized` and `Intercept` or a
filter. A field is its shape ("good", with spaces around, blank, empty, wrong,
no string, absent), and `MaxOdd` of them are not good. Handlers that change who
the browser acts for (`SignIn`, `Logout`) or who exists (`CreateUser`,
`CreateProfile`, `FinishSignup`) are there with their effect; the others as any
of their answers, since their effect is the matter of the other modules.

## 3. Runs

A fault is: a process dies, a call to PostgreSQL or Redis fails or loses its
answer, or a worker loses the lock of a job it is handling.

| Run | Instance | Shows |
|---|---|---|
| `transactions` | 2 workers, 2 conversions with any two of the user's accounts and amounts -1 or 2, rate 3, opening balance 2, 2 attempts, 1 fault, 1 deposit | `CompletedMeansApplied`, `DuplicatesNeedFault`, `SettledVerdict`, `UnfinishedHasOwner`, `TransferRows`, `AtomicTransfers` |
| `overdraft` | 2 clients, 3 requests of 1 or 2, 1 worker, 1 conversion of -1 or 2 | `TypeOK`, `OverdraftBound` |
| `faults` | 2 conversions of 2 between two accounts, 2 workers, 2 attempts, 1 fault | `JobsSettle` under faults, `ConversionsSettle` without |
| `signups` | 2 requests, 2 emails, 2 workers, 2 faults | `TypeOK`, `OneSignupPerEmail`, `DuplicatesNeedLostLock`, `CompletedMeansAccounts`, `NobodyForgotten`, `UsersGetAccounts`, `EnqueuedGetAccounts` |
| `rates` | 2 currencies, 2 callers, 1 new publication, 2 faults | `TypeOK`, `GenuineRates`, `RefreshIsComplete`, `NothingOlder`, `InitializedMeansRates` |
| `sessions` | 2 users, 2 browsers, 2 logins, 2 refreshes, 1 logout, 1 fault; an access cookie lives for 1 tick, a refresh cookie for 2 | `TypeOK`, `StrandedForAReason`, `LoggedOutStaysOut` |
| `tokens` | 3 requests, 1 mail worker, 1 fault, links that expire within the tick | `TypeOK`, `OneResetPerToken`, `NewestLinkIsGood`, `ConfirmedHasNoToken`, `CopiesNeedStall`, `TokensArrive` |
| `dashboard` | 2 processes, 2 requests at a time, 4 ticks of 30 s, 1 change, 2 faults, any eviction | `TypeOK`, `ShownWithinTtl`, `NeverOlder` |
| `requests` | 2 users of any role, present or not; every route; 2 odd fields | `TypeOK`, `DocumentedAnswers`, `WrongFieldsReported`, `ValidAfterTrim`, `NobodyImpersonates`, `ConflictNeedsRace` |

Why the bounds are enough. Two conversions and two workers give both orders of
the two rows (and so the deadlock, which PostgreSQL breaks without a fault), a
redelivery to a second worker, and a retry of one conversion between the steps
of another. With an opening balance of 2 and an amount of 2 the first debit
empties the account and the second is refused; -1 covers the sign; an account
converted to itself is included, and so is an account of somebody else (`his`),
which every handler must refuse. One fault reaches each error path. A code
constant of 5 attempts is cut to 2: the attempts only count tries of the same
handler. Two callers make two refreshes overlap, or a conversion meet a refresh.
Two browsers and two refreshes are two tabs of one browser, or two devices of one
user; a login of the other user in the same browser is among the behaviours.
Three requests are a link, the reset that uses it and a second link or reset that
meets it half-way; a link whose age is less than a tick expires or not as the
clock moves. Four ticks let an entry that was stored at time 1 expire, be
refilled from an older one and outlive it, for both times to live (1 and 2
ticks); two faults let Redis be missed by a `get` and by the `set` behind it. One
mail worker keeps the run of `tokens` within minutes; what several do to a mail,
`CopiesAreStalls` proves for any number. Two odd fields are what it takes for one error to hide another.
Workers and conversions (clients, callers, currencies but the base, users,
browsers, processes) are symmetric where a run has no liveness property. Two runs
have a `VIEW`, `SameFuture`, which takes states for one that differ only in what
no later step and no invariant of the run but its types looks at (`MCSessions`,
`MCDashboard`); the types are proved. Deadlock checking is on in every run: where
a model can stop at all, `Rest` is the only way, and only when nothing is under
way.

Fairness (`FairSpec`), for the liveness properties only: a request that was let
in goes on, an idle worker takes a waiting job, a handler at an await goes on,
and Bull's timers fire, each weakly fair; Node's event loop and Bull's polling
give that. A handler waiting for a row lock
is not enabled until the lock goes, which it does, because its holder is fair too or is one of a deadlock that
`TransferAborted` ends. No fault is fair. Fairness of a handler's step excludes
its faults (`UNCHANGED faults`), so no property is met by waiting for one.
`CredentialTokens` asks for less: as long as some request, worker or timer can go
on, one of them does. No new request is ever due.

### Three claims that do not hold

- `failed_transfers` (`FailedMeansUntouched`): the `catch` of
  `processTransaction` also catches a commit whose answer was lost. It marks the
  row Failed; the retry does not look whether the transfer was made, finds the
  balance too low, and the job ends Failed with the money moved. With a larger
  balance the retry moves it again; `DuplicatesNeedFault` bounds that by one
  extra transfer per fault.
- `withdrawals` (`NoOverdraft`): two withdrawals both read a sufficient balance,
  then both decrement. `OverdraftBound` says how far that can go: every client
  at once with the largest amount, unless a conversion of a negative amount has
  credited the account.
- `reset_login` (`ResetUserCanLogin`): `completePasswordReset` hashes with
  bcrypt, `validateUser` verifies with argon2, as signup hashes. A user who has
  reset the password cannot log in with it, nor with the old one.

### What the properties say about the code's weak spots

Where a plain claim fails, the property that holds names the exception:

- `DuplicatesNeedLostLock`: the lookup inside `createAccountsForUser`'s
  transaction (its comment says "Check inside transaction to avoid race
  conditions") does not isolate it; a user gets a second set of accounts only if
  a worker has lost its job's lock.
- `OverdraftBound`: `IsNumberString` admits a negative amount and nothing looks at
  the sign, so such a conversion takes from the account it credits, whose balance
  nobody compares: that account has no bound but the size of the amount.
- `NeverOlder`: the memory evicts entries before they expire. If Redis failed on
  the `get` and on the `set` of the request that stored the newer entry, it still
  has the older one, and the next request shows it. Requests that overlap may do
  the same, since one may store late what it had read early.
- `getExchangeRate` refreshes and then returns what it had read before, so the
  conversion that misses is refused; `RefreshIsComplete` holds for it too, so the
  next one finds its rate.
- `LoggedOutStaysOut`: except for a refresh that passed its guard before the
  logout wrote.
- `OneResetPerToken`, `NewestLinkIsGood`, `ConfirmedHasNoToken`: except for
  requests that were under way together, since a token is cleared by user and
  not by value, and long after it was verified.
- `TokensArrive`: not for a user without a profile, whose reset mail fails to
  render.
- `ValidAfterTrim`: a token of spaces passes `IsNotEmpty` and is then trimmed to
  the empty string.
- `WrongFieldsReported`: a signup without an e-mail address, or a conversion
  whose account id is no string, is answered 500 and not 400, because the
  validator's lookup throws; and of a request with wrong parameters and a wrong
  body only one part is reported.
- `NobodyImpersonates`: no role has the ability `impersonate`, not even Admin
  (`can('read', 'all')`), so `/auth/impersonate` always answers 403.
- `DocumentedAnswers`: `getUserAbilities` is documented as an array of strings
  (`auth.controller.ts` 145) and sends rule objects (148); a requery of somebody
  else's reference answers 200 with an empty object; `SimpleMessageEntity` documents
  `status` and sends `success`. `withdrawFromAccount` (`accounts.controller.ts` 84)
  documents its refusals but no answer, so that only excluded columns are looked
  for in it. Errors are sent with `statusCode`, documented with `status`.
- Faults leave things undone for good where nothing in the code looks for them: a
  conversion recorded but not enqueued, a user without accounts, a mail that was
  not queued, rates after a boot that died. The properties that hold there say
  `faults = 0`.

## 4. Proofs

Every invariant that a passing run of section 3 checks is a theorem of its
specification, for every value of the constants that satisfies the named
assumptions (`OverdraftBound` under the hypotheses its theorem states); so is the
refinement of `AtomicLedger`. TLC shows them on small instances, the proofs for
any number of accounts, workers, users, requests and faults.

Each proof has one inductive invariant, or a stack of them, and one step per
action. The types come first: `TypeOK` is seldom inductive, since a step that
indexes one variable by another needs to know that the index is there (a worker
that is not idle has a job, the job has a row, a request that is under way has a
user). `Init` implies the invariant, each action preserves it, and it implies the
property; lemmas say what the helpers return and which actions write a variable
at all.

### Conversions and accounts

Assumptions: `AccountsAssumption`, `ConversionsAssumption` (amounts and rates are
integers), `BoundsAssumption` (bounds are naturals), `WorkersAssumption` and
`TxnsAssumption` ("no worker" and "no conversion" are neither). No set is assumed
finite, but for the clients in `OverdraftIsBounded`, whose other hypotheses are in
its statement.

| Theorem | Module | Says | Argument |
|---|---|---|---|
| `TypeCorrect` | `TransfersProofs` | `Spec => []TypeOK` | `TypedRuns` = `TypeOK` and `RunsOK`: `StartJob` and the handler index `txn` and `status` by `job[w]` |
| `RowsOfTransfers` | `TransfersProofs` | `[]TransferRows` | inductive relative to `TypedRuns`: nobody writes a row another session has locked, so what a transfer has read, and the coverage of its debit, stay true |
| `TransfersAreAtomic` | `TransfersProofs` | `Spec => AtomicTransfers` | from `TransferRows`, a commit is `AtomicLedger!Transfer`; `ConvertFunds` is `Record`; deposits and withdrawals change one balance; every other step stutters |
| `OverdraftIsBounded` | `TransfersProofs` | finitely many clients, opening balances not negative, M the largest positive amount: `[]OverdraftBound` | `OverdraftInv`: the balance of an account that no negative conversion has credited is at least -M times the clients that are not waiting to debit it. Passing the check proves the balance positive, so a client that begins to wait costs nothing; its debit pays for itself; a transfer leaves the account it debits at zero or more or higher than before, and takes from the one it credits only by a negative conversion, which stays on record |
| `CompletedIsApplied` | `TransactionsProofs` | `[]CompletedMeansApplied` | `AppliedInv` adds that a worker behind its commit (`complete`, `resolved`) handles a conversion applied at least once; that is what makes the two writes of "completed" safe. Nothing is ever un-applied |
| `FaultsBoundDuplicates` | `TransactionsProofs` | `[]DuplicatesNeedFault` | `BudgetInv`: transfers made, handlers before their commit that have lost their job's lock, and one chance for the holder of the lock (or the next) never exceed 1 + `faults`. A commit by the holder uses up the chance, a commit by a stray the stray; only a fault makes a new stray or gives a chance back |
| `VerdictsAreTrue` | `TransactionsProofs` | `[]SettledVerdict` | `FaultlessInv`: without faults a worker at a job holds its lock and is the only one there, and where it rests says whether the transfer was made and what the row reads; a job that nobody is at has made no transfer unless it is completed |
| `RowsHaveOwners` | `TransactionsProofs` | `[]UnfinishedHasOwner` | the same invariant: a row without a job is still being created, an active job has a worker, a failed one a row that reads Failed |

### Account creation

Assumption: `CreationAssumption`.

| Theorem of `SignupsProofs` | Says | Argument |
|---|---|---|
| `SignupsTypeCorrect` | `[]TypeOK` | whoever is past the insert has a user, whoever is at a job an email |
| `OneSignupGetsPast` | `[]OneSignupPerEmail` | `UniqueInv`: the unique index is the only way past `CreateUser`, and users stay |
| `CompletedJobsHaveAccounts` | `[]CompletedMeansAccounts` | `ReturnedInv`: a handler returns behind a lookup that found accounts or behind its own commit |
| `LostLocksBoundDuplicates` | `[]DuplicatesNeedLostLock` | `BudgetInv`: sets of accounts, handlers before their commit without the lock, and one chance, are at most 1 + `lostLocks`; the chance is there while the user has nothing or the holder of the lock is past its lookup |
| `NobodyIsForgotten` | `[]NobodyForgotten` | `SmoothInv`: without faults a user is in the hands of a request that will add the job, or has the job: nothing rejects it, and while it is active a worker holds it |

### Exchange rates

Assumptions: `RatesAssumption`, `NoRateAssumption`. With three currencies and more
the tasks of a refresh compete for reverse rates, which the run's two do not show.

| Theorem of `RatesProofs` | Says | Argument |
|---|---|---|
| `RatesTypeCorrect` | `[]TypeOK` | every task has the steps and the hash that its kind can have |
| `RatesAreGenuine` | `[]GenuineRates` | `GenuineInv`: what a task holds back for its one write was quoted for the pair it is held under |
| `RefreshesAreComplete` | `[]RefreshIsComplete` | `CompleteInv`: a task that is done has stored its own currency's rates, whoever fetched the reverse ones, and no field is ever deleted |
| `CurrenciesMeanRates` | `[]InitializedMeansRates` | `InitializedInv`: without faults, stored currencies belong to a refresh that still goes on or has completed the table |
| `RatesAreRefreshed` | `[]NothingOlder` | `OlderInv`: for a refresh that began alone, everything any task holds back is from its time or later, so nothing old is written over what it stored |

### Sessions

Assumptions: `SessionsAssumption` and `NoneAssumption` (ages and bounds are
naturals, the kinds of requests do not meet, "none" is neither a token nor a
request nor a set of cookies).

| Theorem of `SessionsProofs` | Says | Argument |
|---|---|---|
| `TypeCorrect` | `[]TypeOK` | a request that is under way has a browser and a user |
| `LoggedOutUsersStayOut` | `[]LoggedOutStaysOut` | every refresh of a logged-out user that has passed its guard is in `late`: a guard passes only on a slot that is not empty, and an empty slot is filled by a login, which ends `loggedOut`, or by a refresh in `late`, which puts the user into `revived` |
| `SessionsStrandedForAReason` | `[]StrandedForAReason` | the slot holds what its writer signed, and cookies what the browser's latest answer signed; if writer and latest answer differ, and both are of this browser and answered, one of them was sent while the other was in flight |

### Reset and confirmation

Assumption: `TokensAssumption`.

| Theorem of `TokensProofs` | Says | Argument |
|---|---|---|
| `TokensTypeCorrect` | `[]TypeOK` | a request that clears a token came with one |
| `TokensAreUsedOnce` | `[]OneResetPerToken` | `MailInv`: a mailed token's request is behind its write, so the token is never written again; `ResetInv`: a reset that is done has cleared it |
| `NewestLinkStaysGood` | `[]NewestLinkIsGood` | `LinkInv`: the column holds the newest token or none, and a reset under way came with the newest one or the newest was saved meanwhile and is `shadowed` |
| `ConfirmationClearsToken` | `[]ConfirmedHasNoToken` | `ConfirmInv`: once the user is confirmed, the resends that still have a token to save are those in `early` |
| `CopiesAreStalls` | `[]CopiesNeedStall` | `CopiesInv`: copies sent, workers about to send and the next delivery are at most 1 + the job's stalls |

### Dashboard

Assumptions: `DashboardAssumption` and `NoEntryAssumption`. The tick must not be
longer than the shorter time to live: with a longer one the clock does not tell
its end from its beginning.

| Theorem of `DashboardProofs` | Says | Argument |
|---|---|---|
| `DashboardTypeCorrect` | `[]TypeOK` | a request that has a value to store has fetched one |
| `ShownIsRecent` | `[]ShownWithinTtl` | `AgeInv`: an entry ends at most one delay and one time to live after its value was read, since who stores it has read it within the same request; who hits it began before that end and answers within one delay |
| `NothingOlderShown` | `[]NeverOlder` | `VersionInv` (nothing is newer than the table), `CrowdInv` (who is not crowded is alone) and `BackedInv`: as long as nothing is `disordered`, the stores back whatever a process has shown: what it finds next is not older, since an older entry of Redis expires before the memory's and an eviction that uncovers one is `disordered` |

### Request pipeline

Assumption: `PipelineAssumption`. The table of routes is looked at once:
`RoutesOK` states of every route what its decorators have to get right
(authentication comes before CASL; two parts share no field; what passes
validation passes it trimmed, but for a blank token; the document, where there is
one, fits what the handler returns, but for the two exceptions). The proofs rest on `RoutesOK`, and would break with a route
that does not satisfy it.

| Theorem of `PipelineProofs` | Says | Argument |
|---|---|---|
| `PipelineTypeCorrect` | `[]TypeOK` | `GuardInv`: behind the first guard there is a `request.user`, in the handler all guards have been passed |
| `NobodyEverImpersonates` | `[]NobodyImpersonates` | `ImpersonateInv`: no rule of `CaslAbilityFactory` allows `impersonate`, so such a request passes at most one of its two guards |
| `TrimmedIsValid` | `[]ValidAfterTrim` | `BodyInv`: the handler's body is the validated one, trimmed field by field |
| `AnswersAreDocumented` | `[]DocumentedAnswers` | `HowAnswered`: an answer is given once and by a handler that returns, an exception or a failing part; the first is what `RoutesOK` compares with the document |
| `WrongFieldsAreReported` | `[]WrongFieldsReported` | the same case split; a part's failing fields include every field whose shape its DTO does not accept |
| `ConflictsAreRaces` | `[]ConflictNeedsRace` | `RaceInv`: the validator found no such user, so a user that is there at the insert has come since |

### Model-checked only

Liveness (`JobsSettle`, `ConversionsSettle`, `UsersGetAccounts`,
`EnqueuedGetAccounts`, `TokensArrive`): fairness and `ENABLED` are out of the
prover's reach. The three claims of section 3 that do not hold.

## 5. Not modelled, and the plan

What remains: abstract specifications of the other components (one session slot
per user; a table of rates that is replaced as a whole), each with its
refinement, and a bound on how long a duplicate can follow its fault.

Left out, and why:

- `pendingBalance`, `AccountInfo`, the status `Reversed`: no code writes them.
  Deletion of users, which cascades in the schema: no request makes it.
- Code without a caller: `updateExchangeRate`; `UsersService.update`, `remove`
  and `findAll`; `sendPasswordChangedEmail`; `QueryFeatures`,
  `LoggingInterceptor`, `AllExceptionFilter`, `PolicyHandlers`,
  `interpolatePermissions`, the conditions of `createSubjectInstance`; the
  formatting half of `ms`; most of `utils/index.ts`.
- Console commands (`sendTestEmail`, `exchange-rate.command.ts`), templates,
  configuration, logging, CORS and helmet, Swagger, migrations and the seed (its
  balances appear as `OpeningBalances`): they change no state a request sees
  while it runs, or only lay text out.
- `DecimalToString`, dates and pagination arithmetic: formatting of what the
  models treat as values.
