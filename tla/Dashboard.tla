------------------------------- MODULE Dashboard -------------------------------
(***************************************************************************)
(* DashboardService (src/src/dashboard): a user's balances and recent      *)
(* transactions, each kept under a key of its own in a cache of two        *)
(* stores, the memory of the process and Redis.  No write to the tables    *)
(* invalidates the cache: its entries expire, and those in a memory may be *)
(* evicted before.                                                         *)
(*                                                                         *)
(* cache-manager is external: get asks the stores in their order and       *)
(* returns the first entry that has not expired, or nothing if a store     *)
(* fails; set writes to both stores, one after the other as far as anybody *)
(* can see.  Nothing copies an entry from Redis into the memory.           *)
(*                                                                         *)
(* A request fetches both keys at once and answers when it has them, from  *)
(* any process.  The two fetches share nothing but the answer, for which   *)
(* the faster one waits: this module follows one key, and the wait is part *)
(* of how long a request takes.  The table behind the key is known by how  *)
(* often it has changed; an empty list is cached like any other.           *)
(***************************************************************************)
EXTENDS Naturals

CONSTANTS
  Processes,         \* each has a memory of its own
  Requests,          \* as many as are under way at once
  None,              \* no entry, no process
  TickLength,        \* the milliseconds between two times of the clock
  MaxDelay,          \* bound: how long a request takes, in ticks
  MaxTime,           \* bound: the clock
  MaxChanges,        \* bound: how often a table changes
  MaxFaults          \* bound: failed calls

VARIABLES
  now,
  key,               \* the key, for good
  version,           \* how often the table behind it has changed
  memory,            \* the first store, one per process
  redis,             \* the second store
  at,                \* the process that serves each request
  began,             \* when each request began
  step,              \* where it is with the key
  value,             \* what it has for it
  faults,            \* history: what went wrong so far
  crowded,           \* history: requests that another one overlapped
  disordered,        \* history: has such a request stored anything, or has a memory
                     \* evicted what was newer than the entry of Redis
  shown,             \* history: the version each process answered last
  floor              \* history: that version when the request began

vars == <<now, key, version, memory, redis, at, began, step, value, faults,
          crowded, disordered, shown, floor>>

Keys == {"dashboard:accounts", "dashboard:recentTransaction"}

\* accountsTTLMs and transactionsTTLMs, in ticks
Ttl == (IF key = "dashboard:accounts" THEN 30000 ELSE 60000) \div TickLength

\* The clock tells the end of the shorter time to live from its beginning.
ASSUME DashboardAssumption ==
  /\ {TickLength, MaxDelay, MaxTime, MaxChanges, MaxFaults} \subseteq Nat
  /\ 0 < TickLength /\ TickLength <= 30000
  /\ None \notin Processes

Values == [version : 0..MaxChanges, read : 0..MaxTime]
Entries == [value : Values, until : Nat]

ASSUME NoEntryAssumption == None \notin Entries

TypeOK ==
  /\ now \in 0..MaxTime /\ key \in Keys /\ version \in 0..MaxChanges
  /\ memory \in [Processes -> Entries \cup {None}]
  /\ redis \in Entries \cup {None}
  /\ at \in [Requests -> Processes \cup {None}]
  /\ began \in [Requests -> 0..MaxTime]
  /\ step \in [Requests -> {"idle", "memory", "redis", "fetch", "set", "setRedis", "have"}]
  /\ value \in [Requests -> Values \cup {None}]
  /\ faults \in 0..MaxFaults
  /\ crowded \subseteq Requests /\ disordered \in BOOLEAN
  /\ shown \in [Processes -> 0..MaxChanges]
  /\ floor \in [Requests -> 0..MaxChanges]

Init ==
  /\ now = 0 /\ key \in Keys /\ version = 0
  /\ memory = [p \in Processes |-> None] /\ redis = None
  /\ at = [r \in Requests |-> None] /\ began = [r \in Requests |-> 0]
  /\ step = [r \in Requests |-> "idle"] /\ value = [r \in Requests |-> None]
  /\ faults = 0
  /\ crowded = {} /\ disordered = FALSE
  /\ shown = [p \in Processes |-> 0] /\ floor = [r \in Requests |-> 0]

--------------------------------------------------------------------------------

Goes(r, l, m) ==
  /\ step[r] = l
  /\ step' = [step EXCEPT ![r] = m]

\* The tables behind the dashboard change: a deposit, a withdrawal, a conversion.
Change ==
  /\ version < MaxChanges
  /\ version' = version + 1
  /\ UNCHANGED <<now, key, memory, redis, at, began, step, value, faults, crowded, disordered, shown, floor>>

\* getDashboardData, for a user whom JwtAuthGuard let in.
GetDashboardData(r, p) ==
  /\ at[r] = None
  /\ at' = [at EXCEPT ![r] = p]
  /\ began' = [began EXCEPT ![r] = now]
  /\ step' = [step EXCEPT ![r] = "memory"]
  /\ floor' = [floor EXCEPT ![r] = shown[p]]
  /\ LET others == {q \in Requests : at[q] # None}
     IN  crowded' = IF others = {} THEN crowded ELSE crowded \cup others \cup {r}
  /\ UNCHANGED <<now, key, version, memory, redis, value, faults, disordered, shown>>

Hit(e) == e # None /\ now < e.until

Fault == faults < MaxFaults /\ faults' = faults + 1

\* cacheManager.get, its first store.
GetFromMemory(r) ==
  LET e == memory[at[r]] IN
  /\ \/ Goes(r, "memory", "have") /\ Hit(e) /\ value' = [value EXCEPT ![r] = e.value]
     \/ Goes(r, "memory", "redis") /\ ~Hit(e) /\ UNCHANGED value
  /\ UNCHANGED <<now, key, version, memory, redis, at, began, faults, crowded, disordered, shown, floor>>

\* Mutant: what Redis has is put into the memory, for a whole time to live.
GetAndRefill(r) ==
  LET e == redis IN
  /\ \/ /\ Goes(r, "redis", "have") /\ Hit(e) /\ UNCHANGED faults
        /\ value' = [value EXCEPT ![r] = e.value]
        /\ memory' = [memory EXCEPT ![at[r]] = [value |-> e.value, until |-> now + Ttl]]
     \/ Goes(r, "redis", "fetch") /\ ~Hit(e) /\ UNCHANGED <<value, memory, faults>>
  /\ UNCHANGED <<now, key, version, redis, at, began, crowded, disordered, shown, floor>>

\* Mutant: if Redis fails, what the memory still has will do, expired or not.
GetStaleIfRedisFails(r) ==
  LET e == redis IN
  /\ \/ /\ Goes(r, "redis", "have") /\ Hit(e) /\ UNCHANGED faults
        /\ value' = [value EXCEPT ![r] = e.value]
     \/ Goes(r, "redis", "fetch") /\ ~Hit(e) /\ UNCHANGED <<value, faults>>
     \/ /\ Goes(r, "redis", "have") /\ memory[at[r]] # None /\ Fault
        /\ value' = [value EXCEPT ![r] = memory[at[r]].value]
  /\ UNCHANGED <<now, key, version, memory, redis, at, began, crowded, disordered, shown, floor>>

\* Its second store, if it can be reached.
GetFromRedis(r) ==
  LET e == redis IN
  /\ \/ /\ Goes(r, "redis", "have") /\ Hit(e) /\ UNCHANGED faults
        /\ value' = [value EXCEPT ![r] = e.value]
     \/ Goes(r, "redis", "fetch") /\ ~Hit(e) /\ UNCHANGED <<value, faults>>
     \/ Goes(r, "redis", "fetch") /\ Fault /\ UNCHANGED value
  /\ UNCHANGED <<now, key, version, memory, redis, at, began, crowded, disordered, shown, floor>>

\* getUserAccounts, or the first ten of getManyTransactions.
Fetch(r) ==
  /\ Goes(r, "fetch", "set")
  /\ value' = [value EXCEPT ![r] = [version |-> version, read |-> now]]
  /\ UNCHANGED <<now, key, version, memory, redis, at, began, faults, crowded, disordered, shown, floor>>

\* Mutant: what get returned, nothing, is stored instead of what was fetched.
EntryOfMiss(r) == [value |-> None, until |-> now + Ttl]

EntryOf(r) == [value |-> value[r], until |-> now + Ttl]

Stored(r) == disordered' = (disordered \/ r \in crowded)

\* cacheManager.set, its first store.
SetMemory(r) ==
  /\ Goes(r, "set", "setRedis")
  /\ memory' = [memory EXCEPT ![at[r]] = EntryOf(r)]
  /\ Stored(r)
  /\ UNCHANGED <<now, key, version, redis, at, began, value, faults, crowded, shown, floor>>

\* Its second store; a failure may go unnoticed (see RequestFailed for the other case).
SetRedis(r) ==
  /\ Goes(r, "setRedis", "have")
  /\ \/ redis' = EntryOf(r) /\ Stored(r) /\ UNCHANGED faults
     \/ Fault /\ UNCHANGED <<redis, disordered>>
  /\ UNCHANGED <<now, key, version, memory, at, began, value, crowded, shown, floor>>

\* The memory holds 5000 entries (lruSize): those of other users push this one out.
Evict(p) ==
  /\ memory[p] # None
  /\ memory' = [memory EXCEPT ![p] = None]
  /\ disordered' = (disordered \/ ( /\ Hit(memory[p]) /\ Hit(redis)
                                    /\ redis.value.version < memory[p].value.version))
  /\ UNCHANGED <<now, key, version, redis, at, began, step, value, faults, crowded, shown, floor>>

Ended(r) ==
  /\ at' = [at EXCEPT ![r] = None]
  /\ step' = [step EXCEPT ![r] = "idle"]
  /\ value' = [value EXCEPT ![r] = None]
  /\ began' = [began EXCEPT ![r] = 0]
  /\ floor' = [floor EXCEPT ![r] = 0]
  /\ crowded' = crowded \ {r}
  /\ UNCHANGED <<now, key, version, memory, redis, disordered>>

\* Promise.all has both keys.
Answer(r) ==
  /\ step[r] = "have"
  /\ shown' = [shown EXCEPT ![at[r]] = value[r].version]
  /\ Ended(r)
  /\ UNCHANGED faults

\* An await fails, maybe the other key's, and the request with it; what is stored stays.
RequestFailed(r) ==
  /\ step[r] \in {"redis", "fetch", "setRedis", "have"}
  /\ Fault
  /\ Ended(r)
  /\ UNCHANGED shown

\* No request takes longer than MaxDelay.
Tick ==
  /\ now < MaxTime
  /\ \A r \in Requests : at[r] # None => now < began[r] + MaxDelay
  /\ now' = now + 1
  /\ UNCHANGED <<key, version, memory, redis, at, began, step, value, faults>>
  /\ UNCHANGED <<crowded, disordered, shown, floor>>

Next ==
  \/ Change
  \/ \E p \in Processes : Evict(p)
  \/ \E r \in Requests :
       \/ \E p \in Processes : GetDashboardData(r, p)
       \/ GetFromMemory(r) \/ GetFromRedis(r) \/ Fetch(r) \/ SetMemory(r) \/ SetRedis(r)
       \/ Answer(r) \/ RequestFailed(r)
  \/ Tick

Spec == Init /\ [][Next]_vars

--------------------------------------------------------------------------------

\* What a request has for its user was in the database less long ago than the time to live of
\* the key and the time two requests take, the one that read it and the one that shows it:
\* passing through two stores keeps nothing alive any longer.
ShownWithinTtl ==
  \A r \in Requests : step[r] = "have" => now < value[r].read + Ttl + 2 * MaxDelay

\* A process does not answer a request with older data than it answered an earlier one with,
\* whatever other processes store, whatever expires, is evicted or fails, but for two cases:
\* the key was stored by requests that overlapped, or a memory evicted its entry while Redis
\* still had an older one.
NeverOlder ==
  \A r \in Requests : step[r] = "have" /\ ~disordered => value[r].version >= floor[r]
================================================================================
