------------------------------ MODULE ExchangeRates ------------------------------
(***************************************************************************)
(* ExchangeRateService (src/src/common/integrations/exchange-rate): a hash *)
(* of rates and a set of currencies in Redis, shared by every process, and *)
(* filled from an HTTP provider when a process boots, by cron, and when a  *)
(* conversion misses its pair.                                             *)
(*                                                                         *)
(* A caller is one such occasion.  Its refresh first adds what the         *)
(* provider says of the base currency (the Main task) and then starts one  *)
(* task per currency, all at once, on a shared set of visited currencies.  *)
(* The first task that fails fails the refresh, and the others go on.      *)
(*                                                                         *)
(* A rate is known by the pair the provider quoted it for and the          *)
(* publication it is from.  The provider quotes every pair, and publishes  *)
(* new rates now and then.  updateExchangeRate has no caller.              *)
(***************************************************************************)
EXTENDS Naturals

CONSTANTS
  Currencies,        \* what the provider knows
  Base,              \* USD, where a refresh starts
  Callers,           \* boots, cron ticks and conversions
  Main,              \* the task of the base currency
  NoRate,            \* a field that the hash lacks
  MaxPublished,      \* bound: how often the provider publishes
  MaxFaults          \* bound: failed calls and crashes

ASSUME RatesAssumption ==
  /\ Base \in Currencies /\ Main \notin Currencies
  /\ {MaxPublished, MaxFaults} \subseteq Nat

VARIABLES
  published,         \* the provider's latest publication
  supported,         \* Redis: the supported-currencies set
  table,             \* Redis: the conversion-table hash
  step,              \* where each caller is
  want,              \* the pair a conversion is after
  initialData,       \* the publication its answer for the base is from
  visited,           \* the visited set of each refresh
  task,              \* its tasks
  since,             \* history: the publication when each refresh began
  alone,             \* history: did no other refresh overlap its beginning
  faults             \* history: what went wrong so far

redisVars == <<supported, table>>
refreshVars == <<step, want, initialData, visited, task, since, alone>>
vars == <<published, redisVars, refreshVars, faults>>

Pairs == {p \in Currencies \X Currencies : p[1] # p[2]}
Rates == [pair : Pairs, at : 0..MaxPublished]
NoPair == <<>>

ASSUME NoRateAssumption == NoRate \notin Rates

Tasks == Currencies \cup {Main}
CallerSteps ==
  {"new", "fetch", "store", "add", "fan", "refreshed", "answered", "refused", "skipped", "failed"}

NoTask == [step |-> "none", left |-> {}, hash |-> <<>>]

BaseOf(k) == IF k = Main THEN Base ELSE k

TypeOK ==
  /\ published \in 0..MaxPublished
  /\ supported \subseteq Currencies
  /\ table \in [Pairs -> Rates \cup {NoRate}]
  /\ step \in [Callers -> CallerSteps]
  /\ want \in [Callers -> Pairs \cup {NoPair}]
  /\ {initialData, since} \subseteq [Callers -> 0..MaxPublished]
  /\ visited \in [Callers -> SUBSET Currencies]
  /\ \A c \in Callers, k \in Tasks :
       /\ task[c][k].step \in {"none", "fetch", "add", "done", "failed"}
       /\ task[c][k].left \subseteq Currencies \ {BaseOf(k)}
       /\ DOMAIN task[c][k].hash \subseteq Pairs
  /\ alone \in [Callers -> BOOLEAN]
  /\ faults \in 0..MaxFaults

Init ==
  /\ published = 0
  /\ supported = {} /\ table = [p \in Pairs |-> NoRate]
  /\ step = [c \in Callers |-> "new"] /\ want = [c \in Callers |-> NoPair]
  /\ initialData = [c \in Callers |-> 0] /\ since = [c \in Callers |-> 0]
  /\ visited = [c \in Callers |-> {}]
  /\ task = [c \in Callers |-> [k \in Tasks |-> NoTask]]
  /\ alone = [c \in Callers |-> FALSE]
  /\ faults = 0

--------------------------------------------------------------------------------

Fault == faults < MaxFaults /\ faults' = faults + 1

CallerGoes(c, l, m) ==
  /\ step[c] = l
  /\ step' = [step EXCEPT ![c] = m]

\* The provider's answer for one pair, as of publication n.
Quote(f, t, n) == [pair |-> <<f, t>>, at |-> n]

\* A task that the refresh of c has under way; also one that outlives a failed refresh.
Busy(c, k) == task[c][k].step \in {"fetch", "add"}

Refreshing(c) == step[c] \in {"fetch", "store", "add", "fan"} \/ \E k \in Tasks : Busy(c, k)

Publish ==
  /\ published < MaxPublished
  /\ published' = published + 1
  /\ UNCHANGED <<redisVars, refreshVars, faults>>

--------------------------------------------------------------------------------
(* The occasions. *)

BeginRefresh(c) ==
  /\ CallerGoes(c, "new", "fetch")
  /\ since' = [since EXCEPT ![c] = published]
  /\ alone' = [alone EXCEPT ![c] = \A d \in Callers \ {c} : ~Refreshing(d)]

\* onModuleInit: the set of currencies stands for the whole table.
Boot(c) ==
  /\ \/ supported = {} /\ BeginRefresh(c)
     \/ supported # {} /\ CallerGoes(c, "new", "skipped") /\ UNCHANGED <<since, alone>>
  /\ UNCHANGED <<published, redisVars, want, initialData, visited, task, faults>>

Cron(c) ==
  /\ BeginRefresh(c)
  /\ UNCHANGED <<published, redisVars, want, initialData, visited, task, faults>>

\* convert and getExchangeRate, for two currencies: a rate that is there is the answer.
GetExchangeRate(c, p) ==
  /\ want' = [want EXCEPT ![c] = p]
  /\ \/ table[p] # NoRate /\ CallerGoes(c, "new", "answered") /\ UNCHANGED <<since, alone>>
     \/ table[p] = NoRate /\ BeginRefresh(c)
  /\ UNCHANGED <<published, redisVars, initialData, visited, task, faults>>

\* After the refresh, the rate that was read before it is returned: none.
Refuse(c) ==
  /\ want[c] # NoPair
  /\ CallerGoes(c, "refreshed", "refused")
  /\ UNCHANGED <<published, redisVars, want, initialData, visited, task, since, alone, faults>>

--------------------------------------------------------------------------------
(* refreshAllExchangeRates. *)

\* Mutant: the base is not skipped in its own answer.
SelfIncluded(k, n, seen) ==
  [step |-> "add", left |-> Currencies \ seen,
   hash |-> [p \in {q \in Pairs : q[1] = BaseOf(k)} |-> Quote(p[1], p[2], n)]]

\* A task with the provider's answer n for its base: every forward rate, and the currencies
\* whose reverse rate it will fetch, in any order.
WithAnswer(k, n, seen) ==
  [step |-> "add",
   left |-> Currencies \ (seen \cup {BaseOf(k)}),
   hash |-> [p \in {q \in Pairs : q[1] = BaseOf(k)} |-> Quote(p[1], p[2], n)]]

FetchInitial(c) ==
  /\ \/ /\ CallerGoes(c, "fetch", "store")
        /\ initialData' = [initialData EXCEPT ![c] = published]
        /\ UNCHANGED faults
     \/ /\ CallerGoes(c, "fetch", "failed") /\ Fault /\ UNCHANGED initialData
  /\ UNCHANGED <<published, redisVars, want, visited, task, since, alone>>

\* Mutant: the refresh returns when the currencies are stored.
StoreOnly(c) ==
  /\ CallerGoes(c, "store", "refreshed")
  /\ supported' = supported \cup Currencies
  /\ UNCHANGED <<published, table, want, initialData, visited, task, since, alone, faults>>

\* storeAllSupportedCurrency; if one of its calls fails, some of the others were made.
StoreCurrencies(c) ==
  /\ \/ /\ CallerGoes(c, "store", "add")
        /\ supported' = supported \cup Currencies
        /\ visited' = [visited EXCEPT ![c] = {Base}]
        /\ task' = [task EXCEPT ![c][Main] = WithAnswer(Main, initialData[c], {})]
        /\ UNCHANGED faults
     \/ /\ CallerGoes(c, "store", "failed")
        /\ \E S \in SUBSET Currencies : supported' = supported \cup S
        /\ Fault
        /\ UNCHANGED <<visited, task>>
  /\ UNCHANGED <<published, table, want, initialData, since, alone>>

\* The await at the head of a currency's task.
FetchBase(c, k) ==
  /\ task[c][k].step = "fetch"
  /\ \/ /\ task' = [task EXCEPT ![c][k] = WithAnswer(k, published, visited[c])]
        /\ visited' = [visited EXCEPT ![c] = @ \cup {BaseOf(k)}]
        /\ UNCHANGED <<step, faults>>
     \/ /\ task' = [task EXCEPT ![c][k].step = "failed"]
        /\ step' = [step EXCEPT ![c] = "failed"]
        /\ Fault
        /\ UNCHANGED visited
  /\ UNCHANGED <<published, redisVars, want, initialData, since, alone>>

\* Mutant: the reverse pair gets the forward rate.
ForwardAgain(t, b, n) == Quote(b, t, n)

\* reverseData.conversion_rates[fromCurrency]
ReverseRate(t, b, n) == Quote(t, b, n)

\* The await in the loop of addExchangeRateDataToConversionTable; its error is swallowed.
\* What others have visited by now is skipped.
FetchReverse(c, k) ==
  /\ task[c][k].step = "add"
  /\ \E t \in task[c][k].left :
       LET b == BaseOf(k)
           x == task[c][k]
           left == x.left \ (visited[c] \cup {t})
           added == [p \in DOMAIN x.hash \cup {<<t, b>>} |->
                       IF p = <<t, b>> THEN ReverseRate(t, b, published) ELSE x.hash[p]]
       IN  \/ /\ visited' = [visited EXCEPT ![c] = @ \cup {t}]
              /\ task' = [task EXCEPT ![c][k] = [x EXCEPT !.left = left, !.hash = added]]
              /\ UNCHANGED faults
           \/ /\ task' = [task EXCEPT ![c][k].left = left]
              /\ Fault
              /\ UNCHANGED visited
  /\ UNCHANGED <<published, redisVars, step, want, initialData, since, alone>>

\* Mutant: HSETNX, a field that is there is left alone.
SetMissing(hash) ==
  [p \in Pairs |-> IF p \in DOMAIN hash /\ table[p] = NoRate THEN hash[p] ELSE table[p]]

\* HMSET
SetHash(hash) == [p \in Pairs |-> IF p \in DOMAIN hash THEN hash[p] ELSE table[p]]

\* One task for every currency, at its first await.
FannedOut(c) == [k \in Tasks |-> IF k = Main THEN NoTask ELSE [NoTask EXCEPT !.step = "fetch"]]

\* Mutant: the tasks are not waited for.
WaitsForNone(c, k) == TRUE

\* All tasks of c but k are through: Promise.all resolves when k is, too.
LastTask(c, k) == \A o \in Currencies \ {k} : task[c][o].step = "done"

\* The write that ends a task.  Behind the Main task's, the others start.
StoreRates(c, k) ==
  LET hash == task[c][k].hash IN
  /\ task[c][k].step = "add" /\ task[c][k].left = {}
  /\ \/ /\ table' = SetHash(hash)
        /\ \/ k = Main /\ CallerGoes(c, "add", "fan") /\ task' = [task EXCEPT ![c] = FannedOut(c)]
           \/ /\ k # Main
              /\ task' = [task EXCEPT ![c][k] = [NoTask EXCEPT !.step = "done"]]
              /\ step' = [step EXCEPT ![c] = IF @ = "fan" /\ LastTask(c, k) THEN "refreshed" ELSE @]
        /\ UNCHANGED faults
     \/ /\ table' \in {table, SetHash(hash)}
        /\ task' = [task EXCEPT ![c][k] = [NoTask EXCEPT !.step = "failed"]]
        /\ step' = [step EXCEPT ![c] = "failed"]
        /\ Fault
  /\ UNCHANGED <<published, supported, want, initialData, visited, since, alone>>

\* The process of c dies, and all tasks of its refresh with it.
Crash(c) ==
  /\ Refreshing(c)
  /\ step' = [step EXCEPT ![c] = "failed"]
  /\ task' = [task EXCEPT ![c] = [k \in Tasks |-> NoTask]]
  /\ Fault
  /\ UNCHANGED <<published, redisVars, want, initialData, visited, since, alone>>

--------------------------------------------------------------------------------

TaskStep(c, k) == FetchBase(c, k) \/ FetchReverse(c, k) \/ StoreRates(c, k)

CallerStep(c) == FetchInitial(c) \/ StoreCurrencies(c) \/ Refuse(c)

\* Every occasion has passed: the only state in which the system may stop.
Rest ==
  /\ \A c \in Callers : /\ step[c] # "new" /\ ~Refreshing(c)
                         /\ step[c] = "refreshed" => want[c] = NoPair
  /\ UNCHANGED vars

Next ==
  \/ Publish
  \/ \E c \in Callers :
       \/ Boot(c) \/ Cron(c) \/ \E p \in Pairs : GetExchangeRate(c, p)
       \/ CallerStep(c) \/ \E k \in Tasks : TaskStep(c, k)
       \/ Crash(c)
  \/ Rest

Spec == Init /\ [][Next]_vars

--------------------------------------------------------------------------------

Complete == \A p \in Pairs : table[p] # NoRate

Refreshed(c) == step[c] \in {"refreshed", "refused"}

\* However the refreshes of several processes overwrite one another: a rate that is stored
\* for a pair was quoted for that pair, in that direction.
GenuineRates == \A p \in Pairs : table[p] # NoRate => table[p].pair = p

\* Once a single refresh has resolved, no later failure, crash or concurrent refresh makes a
\* pair of currencies miss: refreshAllExchangeRates swallows the errors of reverse rates, and
\* each of them is made up for by a task that it awaits.
RefreshIsComplete == \A c \in Callers : Refreshed(c) => Complete

\* A refresh that began while no other was under way leaves no rate from before it began, and
\* none comes back: neither with the tasks of a failed refresh, which nobody waits for, nor
\* with the reverse rates that a task holds back until its one write.
NothingOlder ==
  \A c \in Callers : Refreshed(c) /\ alone[c] => \A p \in Pairs : table[p].at >= since[c]

\* onModuleInit takes the presence of supported currencies for that of the table: without
\* faults, and when no refresh is under way, it is right.
InitializedMeansRates ==
  faults = 0 /\ supported # {} /\ (\A c \in Callers : ~Refreshing(c)) => Complete
================================================================================
