---------------------------- MODULE DashboardProofs ----------------------------
(***************************************************************************)
(* Safety of Dashboard for any processes, requests, length of a tick,      *)
(* delay of a request, changes of the tables and number of faults: how old *)
(* what a request shows can be, and when it can be older than what the     *)
(* process showed before.                                                  *)
(***************************************************************************)
EXTENDS Dashboard, TLAPS

--------------------------------------------------------------------------------
(* Types.  TypeOK is not inductive: a request stores what it has, which is *)
(* a value only because it fetched one, in the memory of its process.      *)

TypeInv ==
  /\ TypeOK
  /\ \A r \in Requests :
       /\ at[r] # None <=> step[r] # "idle"
       /\ step[r] \in {"set", "setRedis", "have"} => value[r] \in Values

Steps == {"idle", "memory", "redis", "fetch", "set", "setRedis", "have"}

LEMMA DivPositive ==
  ASSUME NEW a \in Nat, NEW n \in Nat, 0 < n, n <= a
  PROVE  a \div n \in Nat /\ a \div n > 0
<1>1. a \div n \in Nat /\ a % n \in Nat /\ a % n < n
  OBVIOUS
<1>2. a = n * (a \div n) + (a % n)
  OBVIOUS
<1>3. ASSUME a \div n = 0 PROVE FALSE
  <2>1. n * (a \div n) = 0
    BY <1>3
  <2> QED
    BY <1>1, <1>2, <2>1
<1> QED
  BY <1>1, <1>3

\* Every entry lives for a tick at least.
LEMMA TtlPositive == Ttl \in Nat /\ Ttl > 0
<1>1. TickLength \in Nat /\ 0 < TickLength /\ TickLength <= 30000 /\ TickLength <= 60000
  BY DashboardAssumption
<1>2. 30000 \div TickLength \in Nat /\ 30000 \div TickLength > 0
  BY <1>1, DivPositive
<1>3. 60000 \div TickLength \in Nat /\ 60000 \div TickLength > 0
  BY <1>1, DivPositive
<1> QED
  BY <1>2, <1>3 DEF Ttl

\* The steps of one request.
RequestStep(r) ==
  \/ \E p \in Processes : GetDashboardData(r, p)
  \/ GetFromMemory(r) \/ GetFromRedis(r) \/ Fetch(r) \/ SetMemory(r) \/ SetRedis(r)
  \/ Answer(r) \/ RequestFailed(r)

LEMMA EntryHit ==
  ASSUME TypeInv
  PROVE  /\ \A p \in Processes : Hit(memory[p]) => memory[p] \in Entries
         /\ Hit(redis) => redis \in Entries
         /\ \A e \in Entries : e.value \in Values /\ e.until \in Nat
                               /\ e.value.version \in 0..MaxChanges /\ e.value.read \in 0..MaxTime
BY DEF TypeInv, TypeOK, Hit, Entries, Values

LEMMA EntryTyped ==
  ASSUME TypeInv, NEW r \in Requests, step[r] \in {"set", "setRedis"}
  PROVE  /\ EntryOf(r) \in Entries /\ EntryOf(r).value = value[r] /\ EntryOf(r).until = now + Ttl
<1>1. value[r] \in Values /\ now \in Nat
  BY DashboardAssumption DEF TypeInv, TypeOK
<1> QED
  BY <1>1, TtlPositive DEF EntryOf, Entries

LEMMA RequestTyped ==
  ASSUME TypeInv, NEW r \in Requests, RequestStep(r)
  PROVE  TypeInv'
<1>1. /\ at \in [Requests -> Processes \cup {None}] /\ step \in [Requests -> Steps]
      /\ value \in [Requests -> Values \cup {None}] /\ began \in [Requests -> 0..MaxTime]
      /\ floor \in [Requests -> 0..MaxChanges] /\ shown \in [Processes -> 0..MaxChanges]
      /\ memory \in [Processes -> Entries \cup {None}] /\ redis \in Entries \cup {None}
      /\ faults \in 0..MaxFaults /\ crowded \subseteq Requests /\ disordered \in BOOLEAN
      /\ now \in 0..MaxTime /\ version \in 0..MaxChanges
  BY DEF TypeInv, TypeOK, Steps
<1>2. Fault => faults' \in 0..MaxFaults
  BY <1>1, DashboardAssumption DEF Fault
<1>3. ASSUME NEW p \in Processes, GetDashboardData(r, p)
      PROVE  TypeInv'
  <2>1. /\ at[r] = None /\ at' = [at EXCEPT ![r] = p] /\ began' = [began EXCEPT ![r] = now]
        /\ step' = [step EXCEPT ![r] = "memory"] /\ floor' = [floor EXCEPT ![r] = shown[p]]
        /\ crowded' \subseteq Requests
        /\ UNCHANGED <<now, key, version, memory, redis, value, faults, disordered, shown>>
    BY <1>1, <1>3 DEF GetDashboardData
  <2>2. /\ at' \in [Requests -> Processes \cup {None}] /\ step' \in [Requests -> Steps]
        /\ began' \in [Requests -> 0..MaxTime] /\ floor' \in [Requests -> 0..MaxChanges]
    BY <1>1, <2>1 DEF Steps
  <2>3. ASSUME NEW q \in Requests
        PROVE  /\ at'[q] # None <=> step'[q] # "idle"
               /\ step'[q] \in {"set", "setRedis", "have"} => value'[q] \in Values
    <3>1. p # None
      BY DashboardAssumption
    <3>2. CASE q = r
      BY <1>1, <2>1, <3>1, <3>2
    <3>3. CASE q # r
      BY <1>1, <2>1, <3>3 DEF TypeInv
    <3> QED
      BY <3>2, <3>3
  <2> QED
    BY <2>1, <2>2, <2>3 DEF TypeInv, TypeOK, Steps
<1>4. ASSUME NEW m \in Steps \ {"idle"}, step[r] # "idle", step' = [step EXCEPT ![r] = m],
             \/ value' = value /\ (m \in {"set", "setRedis", "have"} => value[r] \in Values)
             \/ \E v \in Values : value' = [value EXCEPT ![r] = v],
             \/ memory' = memory
             \/ \E e \in Entries : memory' = [memory EXCEPT ![at[r]] = e],
             redis' \in Entries \cup {None}, disordered' \in BOOLEAN, faults' \in 0..MaxFaults,
             UNCHANGED <<now, key, version, at, began, crowded, shown, floor>>
      PROVE  TypeInv'
  <2>1. step' \in [Requests -> Steps] /\ value' \in [Requests -> Values \cup {None}]
    BY <1>1, <1>4
  <2>2. memory' \in [Processes -> Entries \cup {None}]
    BY <1>1, <1>4
  <2>3. ASSUME NEW q \in Requests
        PROVE  /\ at'[q] # None <=> step'[q] # "idle"
               /\ step'[q] \in {"set", "setRedis", "have"} => value'[q] \in Values
    BY <1>1, <1>4 DEF TypeInv
  <2> QED
    BY <1>4, <2>1, <2>2, <2>3 DEF TypeInv, TypeOK, Steps
<1>5. CASE GetFromMemory(r)
  <2>1. Hit(memory[at[r]]) => memory[at[r]].value \in Values
    BY <1>1, <1>5, EntryHit DEF GetFromMemory, Goes, TypeInv
  <2>2. UNCHANGED <<now, key, version, memory, redis, at, began, faults, crowded, disordered, shown, floor>>
    BY <1>5 DEF GetFromMemory
  <2>3. \/ step[r] = "memory" /\ step' = [step EXCEPT ![r] = "have"]
           /\ \E v \in Values : value' = [value EXCEPT ![r] = v]
        \/ step[r] = "memory" /\ step' = [step EXCEPT ![r] = "redis"] /\ value' = value
    BY <1>5, <2>1 DEF GetFromMemory, Goes
  <2> QED
    BY <1>1, <1>4, <2>2, <2>3 DEF Steps
<1>6. CASE GetFromRedis(r)
  <2>1. Hit(redis) => redis.value \in Values
    BY EntryHit
  <2>2. /\ UNCHANGED <<now, key, version, memory, redis, at, began, crowded, disordered, shown, floor>>
        /\ UNCHANGED faults \/ Fault
    BY <1>6 DEF GetFromRedis
  <2>3. \/ step[r] = "redis" /\ step' = [step EXCEPT ![r] = "have"]
           /\ \E v \in Values : value' = [value EXCEPT ![r] = v]
        \/ step[r] = "redis" /\ step' = [step EXCEPT ![r] = "fetch"] /\ value' = value
    BY <1>6, <2>1 DEF GetFromRedis, Goes
  <2> QED
    BY <1>1, <1>2, <1>4, <2>2, <2>3 DEF Steps
<1>7. CASE Fetch(r)
  <2>1. [version |-> version, read |-> now] \in Values
    BY <1>1 DEF Values
  <2> QED
    BY <1>1, <1>4, <1>7, <2>1 DEF Fetch, Goes, Steps
<1>8. CASE SetMemory(r) \/ SetRedis(r)
  <2>1. step[r] \in {"set", "setRedis"} /\ value[r] \in Values /\ EntryOf(r) \in Entries
    BY <1>8, EntryTyped DEF SetMemory, SetRedis, Goes, TypeInv
  <2>2. \E m \in {"setRedis", "have"} : step' = [step EXCEPT ![r] = m]
    BY <1>8 DEF SetMemory, SetRedis, Goes
  <2>3. disordered' \in BOOLEAN
    <3>1. disordered' = disordered \/ Stored(r)
      BY <1>8 DEF SetMemory, SetRedis
    <3>2. (disordered \/ r \in crowded) \in BOOLEAN
      OBVIOUS
    <3> QED
      BY <1>1, <3>1, <3>2 DEF Stored
  <2>4. /\ UNCHANGED <<now, key, version, at, began, value, crowded, shown, floor>>
        /\ memory' = memory \/ memory' = [memory EXCEPT ![at[r]] = EntryOf(r)]
        /\ redis' = redis \/ redis' = EntryOf(r)
        /\ UNCHANGED faults \/ Fault
    BY <1>8 DEF SetMemory, SetRedis
  <2> QED
    BY <1>1, <1>2, <1>4, <2>1, <2>2, <2>3, <2>4 DEF Steps
<1>9. CASE Answer(r) \/ RequestFailed(r)
  <2>1. step[r] = "have" => value[r].version \in 0..MaxChanges
    BY DEF TypeInv, Values
  <2>2. Ended(r) /\ (UNCHANGED faults \/ Fault)
        /\ (UNCHANGED shown \/ (step[r] = "have" /\ shown' = [shown EXCEPT ![at[r]] = value[r].version]))
    BY <1>9 DEF Answer, RequestFailed
  <2>3. shown' \in [Processes -> 0..MaxChanges]
    BY <1>1, <2>1, <2>2
  <2>4. /\ at' \in [Requests -> Processes \cup {None}] /\ step' \in [Requests -> Steps]
        /\ value' \in [Requests -> Values \cup {None}] /\ began' \in [Requests -> 0..MaxTime]
        /\ floor' \in [Requests -> 0..MaxChanges] /\ crowded' \subseteq Requests
    <3>1. 0 \in 0..MaxTime /\ 0 \in 0..MaxChanges
      BY DashboardAssumption
    <3> QED
      BY <1>1, <2>2, <3>1 DEF Ended, Steps
  <2>5. ASSUME NEW q \in Requests
        PROVE  /\ at'[q] # None <=> step'[q] # "idle"
               /\ step'[q] \in {"set", "setRedis", "have"} => value'[q] \in Values
    BY <1>1, <2>2 DEF Ended, TypeInv
  <2> QED
    BY <1>1, <1>2, <2>2, <2>3, <2>4, <2>5 DEF Ended, TypeInv, TypeOK, Steps
<1> QED
  BY <1>3, <1>5, <1>6, <1>7, <1>8, <1>9 DEF RequestStep

\* An eviction takes one entry out of one memory.
LEMMA EvictedTyped ==
  ASSUME TypeInv, NEW p \in Processes, Evict(p)
  PROVE  /\ UNCHANGED <<now, key, version, redis, at, began, step, value, faults, crowded, shown, floor>>
         /\ memory' \in [Processes -> Entries \cup {None}] /\ disordered' \in BOOLEAN
         /\ memory'[p] = None /\ \A q \in Processes : q # p => memory'[q] = memory[q]
<1>1. memory \in [Processes -> Entries \cup {None}] /\ disordered \in BOOLEAN
  BY DEF TypeInv, TypeOK
<1>2. disordered' \in BOOLEAN
  <2>1. \A b : (disordered \/ b) \in BOOLEAN
    OBVIOUS
  <2> QED
    BY <2>1 DEF Evict
<1> QED
  BY <1>1, <1>2 DEF Evict

LEMMA TypeStep == TypeInv /\ [Next]_vars => TypeInv'
<1> SUFFICES ASSUME TypeInv, [Next]_vars PROVE TypeInv'
  OBVIOUS
<1>1. CASE \E r \in Requests : RequestStep(r)
  BY <1>1, RequestTyped
<1>2. CASE Change
  <2>1. version' \in 0..MaxChanges
    BY <1>2, DashboardAssumption DEF Change, TypeInv, TypeOK
  <2> QED
    BY <1>2, <2>1 DEF Change, TypeInv, TypeOK
<1>3. CASE Tick
  <2>1. now' \in 0..MaxTime
    BY <1>3, DashboardAssumption DEF Tick, TypeInv, TypeOK
  <2> QED
    BY <1>3, <2>1 DEF Tick, TypeInv, TypeOK
<1>4. CASE UNCHANGED vars
  BY <1>4 DEF vars, TypeInv, TypeOK
<1>5. ASSUME NEW p \in Processes, Evict(p) PROVE TypeInv'
  BY <1>5, EvictedTyped DEF TypeInv, TypeOK
<1> QED
  BY <1>1, <1>2, <1>3, <1>4, <1>5 DEF Next, RequestStep

LEMMA TypeInit == Init => TypeInv
<1> SUFFICES ASSUME Init PROVE TypeInv
  OBVIOUS
<1>1. 0 \in 0..MaxTime /\ 0 \in 0..MaxChanges /\ 0 \in 0..MaxFaults
  BY DashboardAssumption
<1>2. TypeOK
  BY <1>1 DEF Init, TypeOK
<1> QED
  BY <1>2 DEF Init, TypeInv

LEMMA TypedAlways == Spec => []TypeInv
BY TypeInit, TypeStep, PTL DEF Spec

\* The stores, the requests and what each has stay within their types.
THEOREM DashboardTypeCorrect == Spec => []TypeOK
<1>1. TypeInv => TypeOK
  BY DEF TypeInv
<1> QED
  BY <1>1, TypedAlways, PTL

--------------------------------------------------------------------------------
(* How old what is shown can be.  A request that stores what it fetched    *)
(* has read it since it began, so that no entry outlives its value by more *)
(* than a request and a time to live; a request that hits it began before  *)
(* that, and has as long again to answer.                                  *)

\* The time to live is counted from when the entry is stored, not from when its value was read.
EntryAge(e) == e # None => e.until <= e.value.read + MaxDelay + Ttl

AgeOf(r) ==
  /\ step[r] # "idle" => began[r] <= now /\ now <= began[r] + MaxDelay
  /\ step[r] \in {"set", "setRedis"} => began[r] <= value[r].read
  /\ step[r] = "have" => began[r] < value[r].read + MaxDelay + Ttl

AgeInv ==
  /\ \A p \in Processes : EntryAge(memory[p])
  /\ EntryAge(redis)
  /\ \A r \in Requests : AgeOf(r)

\* What a request does leaves the others as they are.
LEMMA OthersRest ==
  ASSUME TypeInv, NEW r \in Requests, RequestStep(r), NEW q \in Requests \ {r}
  PROVE  /\ step'[q] = step[q] /\ value'[q] = value[q] /\ began'[q] = began[q] /\ at'[q] = at[q]
         /\ floor'[q] = floor[q]
         /\ UNCHANGED <<now, key, version>>
BY DEF RequestStep, GetDashboardData, GetFromMemory, GetFromRedis, Fetch, SetMemory, SetRedis,
   Answer,
       RequestFailed, Ended, Goes, TypeInv, TypeOK

LEMMA RequestAge ==
  ASSUME TypeInv, AgeInv, NEW r \in Requests, RequestStep(r)
  PROVE  AgeInv'
<1>1. /\ at \in [Requests -> Processes \cup {None}] /\ step \in [Requests -> Steps]
      /\ value \in [Requests -> Values \cup {None}] /\ began \in [Requests -> 0..MaxTime]
      /\ memory \in [Processes -> Entries \cup {None}] /\ now \in Nat /\ MaxDelay \in Nat
      /\ began[r] \in Nat /\ Ttl \in Nat /\ Ttl > 0
  BY DashboardAssumption, TtlPositive DEF TypeInv, TypeOK, Steps
<1>2. UNCHANGED <<now, key, version>>
  BY DEF RequestStep, GetDashboardData, GetFromMemory, GetFromRedis, Fetch, SetMemory, SetRedis,
     Answer,
         RequestFailed, Ended
<1>3. Ttl' = Ttl
  BY <1>2 DEF Ttl
<1>4. ASSUME AgeOf(r)', UNCHANGED memory \/ \E e : EntryAge(e) /\ memory' = [memory EXCEPT ![at[r]] = e],
             UNCHANGED redis \/ EntryAge(redis')
      PROVE  AgeInv'
  <2>1. ASSUME NEW q \in Requests \ {r} PROVE AgeOf(q)'
    BY <1>2, <1>3, OthersRest DEF AgeInv, AgeOf
  <2>2. ASSUME NEW p \in Processes PROVE EntryAge(memory[p])'
    BY <1>1, <1>3, <1>4 DEF AgeInv, EntryAge
  <2>3. EntryAge(redis)'
    BY <1>3, <1>4 DEF AgeInv, EntryAge
  <2> QED
    BY <1>4, <2>1, <2>2, <2>3 DEF AgeInv
<1>5. ASSUME NEW e \in Entries, EntryAge(e), e # None, Hit(e), step[r] # "idle"
      PROVE  began[r] < e.value.read + MaxDelay + Ttl
  <2>1. e.until \in Nat /\ e.value.read \in Nat
    BY DashboardAssumption DEF Entries, Values
  <2>2. now < e.until /\ e.until <= e.value.read + MaxDelay + Ttl /\ began[r] <= now
    BY <1>5 DEF EntryAge, Hit, AgeInv, AgeOf
  <2> QED
    BY <1>1, <2>1, <2>2
<1>6. ASSUME NEW p \in Processes, GetDashboardData(r, p)
      PROVE  AgeInv'
  <2>1. /\ began'[r] = now /\ step'[r] = "memory" /\ UNCHANGED <<memory, redis>>
    BY <1>1, <1>6 DEF GetDashboardData
  <2>2. AgeOf(r)'
    BY <1>1, <1>2, <2>1 DEF AgeOf
  <2> QED
    BY <1>4, <2>1, <2>2
<1>7. CASE GetFromMemory(r)
  <2>1. at[r] \in Processes /\ step[r] # "idle" /\ EntryAge(memory[at[r]])
    BY <1>1, <1>7 DEF GetFromMemory, Goes, TypeInv, AgeInv
  <2>2. /\ began' = began /\ UNCHANGED <<memory, redis>>
        /\ \/ step'[r] = "have" /\ Hit(memory[at[r]]) /\ value'[r] = memory[at[r]].value
           \/ step'[r] = "redis"
    BY <1>1, <1>7 DEF GetFromMemory, Goes
  <2>3. AgeOf(r)'
    BY <1>2, <1>3, <1>5, <2>1, <2>2, EntryHit DEF AgeOf, AgeInv, Hit
  <2> QED
    BY <1>4, <2>2, <2>3
<1>8. CASE GetFromRedis(r)
  <2>1. step[r] # "idle" /\ EntryAge(redis)
    BY <1>1, <1>8 DEF GetFromRedis, Goes, AgeInv
  <2>2. /\ began' = began /\ UNCHANGED <<memory, redis>>
        /\ \/ step'[r] = "have" /\ Hit(redis) /\ value'[r] = redis.value
           \/ step'[r] = "fetch"
    BY <1>1, <1>8 DEF GetFromRedis, Goes
  <2>3. AgeOf(r)'
    BY <1>2, <1>3, <1>5, <2>1, <2>2, EntryHit DEF AgeOf, AgeInv, Hit
  <2> QED
    BY <1>4, <2>2, <2>3
<1>9. CASE Fetch(r)
  <2>1. /\ began' = began /\ UNCHANGED <<memory, redis>> /\ step[r] = "fetch" /\ step'[r] = "set"
        /\ value'[r] = [version |-> version, read |-> now]
    BY <1>1, <1>9 DEF Fetch, Goes
  <2>2. AgeOf(r)'
    BY <1>2, <2>1 DEF AgeOf, AgeInv
  <2> QED
    BY <1>4, <2>1, <2>2
<1>10. CASE SetMemory(r) \/ SetRedis(r)
  <2>1. /\ step[r] \in {"set", "setRedis"} /\ step'[r] \in {"setRedis", "have"}
        /\ UNCHANGED <<began, value>>
        /\ UNCHANGED memory \/ memory' = [memory EXCEPT ![at[r]] = EntryOf(r)]
        /\ UNCHANGED redis \/ redis' = EntryOf(r)
    BY <1>1, <1>10 DEF SetMemory, SetRedis, Goes
  <2>2. /\ value[r] \in Values /\ value[r].read \in Nat
        /\ began[r] <= value[r].read /\ now <= began[r] + MaxDelay /\ began[r] <= now
    BY <2>1, DashboardAssumption DEF TypeInv, AgeInv, AgeOf, Values
  <2>3. EntryOf(r).until = now + Ttl /\ EntryOf(r).value = value[r]
    BY <2>1, EntryTyped
  <2>4. now + Ttl <= value[r].read + MaxDelay + Ttl
    BY <1>1, <2>2
  <2>5. EntryAge(EntryOf(r))
    BY <2>3, <2>4 DEF EntryAge
  <2>6. began[r] < value[r].read + MaxDelay + Ttl
    BY <1>1, <2>2
  <2>7. AgeOf(r)'
    BY <1>2, <1>3, <2>1, <2>2, <2>6 DEF AgeOf
  <2>8. redis' = EntryOf(r) => EntryAge(redis')
    BY <2>5
  <2> QED
    BY <1>4, <2>1, <2>5, <2>7, <2>8
<1>11. CASE Answer(r) \/ RequestFailed(r)
  <2>1. step'[r] = "idle" /\ UNCHANGED <<memory, redis>>
    BY <1>1, <1>11 DEF Answer, RequestFailed, Ended
  <2>2. AgeOf(r)'
    BY <2>1 DEF AgeOf
  <2> QED
    BY <1>4, <2>1, <2>2
<1> QED
  BY <1>6, <1>7, <1>8, <1>9, <1>10, <1>11 DEF RequestStep

LEMMA AgeStep == TypeInv /\ AgeInv /\ [Next]_vars => AgeInv'
<1> SUFFICES ASSUME TypeInv, AgeInv, [Next]_vars PROVE AgeInv'
  OBVIOUS
<1>1. CASE \E r \in Requests : RequestStep(r)
  BY <1>1, RequestAge
<1>2. CASE Change \/ UNCHANGED vars
  BY <1>2 DEF Change, vars, AgeInv, AgeOf, EntryAge, Ttl
<1>3. CASE Tick
  <2>1. /\ UNCHANGED <<key, memory, redis, at, began, step, value>> /\ now' = now + 1
        /\ \A r \in Requests : step[r] # "idle" => now < began[r] + MaxDelay
        /\ now \in Nat /\ MaxDelay \in Nat /\ \A r \in Requests : began[r] \in Nat
    BY <1>3, DashboardAssumption DEF Tick, TypeInv, TypeOK
  <2>2. Ttl' = Ttl
    BY <2>1 DEF Ttl
  <2>3. \A r \in Requests : step[r] # "idle" => began[r] <= now'  /\ now' <= began[r] + MaxDelay
    BY <2>1 DEF AgeInv, AgeOf
  <2> QED
    BY <2>1, <2>2, <2>3 DEF AgeInv, AgeOf, EntryAge
<1>4. ASSUME NEW p \in Processes, Evict(p) PROVE AgeInv'
  BY <1>4, EvictedTyped DEF AgeInv, AgeOf, EntryAge, Ttl
<1> QED
  BY <1>1, <1>2, <1>3, <1>4 DEF Next, RequestStep

\* What a request has for its user was in the database less long ago than the time to live of
\* the key and the time two requests take.
THEOREM ShownIsRecent == Spec => []ShownWithinTtl
<1>1. Init => AgeInv
  BY DEF Init, AgeInv, AgeOf, EntryAge
<1>2. TypeInv /\ AgeInv => ShownWithinTtl
  <2> SUFFICES ASSUME TypeInv, AgeInv, NEW r \in Requests, step[r] = "have"
               PROVE  now < value[r].read + Ttl + 2 * MaxDelay
    BY DEF ShownWithinTtl
  <2>1. /\ value[r].read \in Nat /\ began[r] \in Nat /\ now \in Nat /\ MaxDelay \in Nat /\ Ttl \in Nat
    BY DashboardAssumption, TtlPositive DEF TypeInv, TypeOK, Values
  <2>2. now <= began[r] + MaxDelay /\ began[r] < value[r].read + MaxDelay + Ttl
    BY DEF AgeInv, AgeOf
  <2> QED
    BY <2>1, <2>2
<1> QED
  BY <1>1, <1>2, AgeStep, TypedAlways, PTL DEF Spec

--------------------------------------------------------------------------------
(* When it can be older.  Two stores can disagree: Redis may hold an older *)
(* entry than the memory of a process.  That does no harm as long as it    *)
(* expires no later, which it does if entries are stored in the order in   *)
(* which their values were read, and if the memory keeps its entry till    *)
(* then.  Requests that overlap break the first, an eviction the second.   *)

Alive(e, t) == e # None /\ t < e.until

\* At time t, with m in its memory and x in Redis, a process finds nothing older than v, now
\* or when m has expired.
Backs(t, m, x, v) ==
  /\ Alive(m, t) => v <= m.value.version
  /\ Alive(x, t) /\ x.value.version < v => Alive(m, t) /\ x.until <= m.until

Stores == Entries \cup {None}

LEMMA BacksLater ==
  ASSUME NEW t \in Nat, NEW m \in Stores, NEW x \in Stores, NEW v \in Nat, Backs(t, m, x, v)
  PROVE  Backs(t + 1, m, x, v)
<1>1. \A e \in Stores : /\ Alive(e, t + 1) => Alive(e, t)
                        /\ e # None => e.until \in Nat
  BY DEF Alive, Stores, Entries
<1>2. Alive(m, t + 1) => v <= m.value.version
  BY <1>1 DEF Backs
<1>3. ASSUME Alive(x, t + 1), x.value.version < v
      PROVE  Alive(m, t + 1) /\ x.until <= m.until
  <2>1. Alive(m, t) /\ x.until <= m.until
    BY <1>1, <1>3 DEF Backs
  <2>2. x.until \in Nat /\ m.until \in Nat /\ t + 1 < x.until
    BY <1>1, <1>3, <2>1 DEF Alive
  <2> QED
    BY <2>1, <2>2 DEF Alive
<1> QED
  BY <1>2, <1>3 DEF Backs

\* What is stored last in the memory expires last.
LEMMA BacksMemory ==
  ASSUME NEW t \in Nat, NEW m \in Entries, NEW x \in Stores, NEW v \in Nat, m # None,
         t < m.until, x # None => x.until <= m.until, v <= m.value.version
  PROVE  Backs(t, m, x, v)
BY DEF Alive, Backs

LEMMA BacksRedis ==
  ASSUME NEW t \in Nat, NEW m \in Stores, NEW x \in Stores, NEW y \in Entries, NEW v \in Nat,
         Backs(t, m, x, v), v <= y.value.version
  PROVE  Backs(t, m, y, v)
<1>1. y.value.version \in Nat
  BY DashboardAssumption DEF Entries, Values
<1> QED
  BY <1>1 DEF Backs

\* What is evicted is not missed, unless Redis still has something older.
LEMMA BacksEvicted ==
  ASSUME NEW t \in Nat, NEW m \in Stores, NEW x \in Stores, NEW v \in Nat, Backs(t, m, x, v),
         Alive(m, t) /\ Alive(x, t) => m.value.version <= x.value.version
  PROVE  Backs(t, None, x, v)
<1>1. ASSUME Alive(x, t), x.value.version < v PROVE FALSE
  <2>1. Alive(m, t) /\ v <= m.value.version /\ m.value.version <= x.value.version
    BY <1>1 DEF Backs
  <2>2. m \in Entries /\ x \in Entries
    BY <1>1, <2>1 DEF Alive, Stores
  <2>3. m.value.version \in Nat /\ x.value.version \in Nat
    BY <2>2, DashboardAssumption DEF Entries, Values
  <2> QED
    BY <1>1, <2>1, <2>3
<1> QED
  BY <1>1 DEF Backs, Alive

--------------------------------------------------------------------------------
(* What is known of versions, whoever overlaps. *)

Has(r) == step[r] \in {"set", "setRedis", "have"}

EntryKnown(e) == e # None => e.until <= now + Ttl /\ e.value.version <= version

VersionInv ==
  /\ \A p \in Processes : shown[p] <= version /\ EntryKnown(memory[p])
  /\ EntryKnown(redis)
  /\ \A r \in Requests : floor[r] <= version /\ (Has(r) => value[r].version <= version)

CrowdInv == \A r, s \in Requests : r # s /\ at[r] # None /\ at[s] # None => r \in crowded

LEMMA VersionStep == TypeInv /\ VersionInv /\ [Next]_vars => VersionInv'
<1> SUFFICES ASSUME TypeInv, VersionInv, [Next]_vars PROVE VersionInv'
  OBVIOUS
<1>1. /\ now \in Nat /\ version \in Nat /\ Ttl \in Nat /\ floor \in [Requests -> Nat]
      /\ shown \in [Processes -> Nat] /\ memory \in [Processes -> Stores] /\ redis \in Stores
      /\ at \in [Requests -> Processes \cup {None}] /\ step \in [Requests -> Steps]
      /\ value \in [Requests -> Values \cup {None}] /\ 0 <= version
  BY DashboardAssumption, TtlPositive DEF TypeInv, TypeOK, Steps, Stores
<1>2. \A e \in Entries : e.until \in Nat /\ e.value.version \in Nat
  BY DashboardAssumption DEF Entries, Values
<1>3. \A x \in Values : x.version \in Nat
  BY DashboardAssumption DEF Values
<1>4. ASSUME NEW r \in Requests, RequestStep(r),
             floor'[r] <= version, Has(r)' => value'[r].version <= version,
             UNCHANGED shown \/ (step[r] = "have" /\ shown' = [shown EXCEPT ![at[r]] = value[r].version]),
             UNCHANGED memory \/ (step[r] = "set" /\ memory' = [memory EXCEPT ![at[r]] = EntryOf(r)]),
             UNCHANGED redis \/ (step[r] = "setRedis" /\ redis' = EntryOf(r))
      PROVE  VersionInv'
  <2>1. UNCHANGED <<now, key, version>>
    BY <1>4
    DEF RequestStep, GetDashboardData, GetFromMemory, GetFromRedis, Fetch, SetMemory, SetRedis,
        Answer,
                RequestFailed, Ended
  <2>2. Ttl' = Ttl
    BY <2>1 DEF Ttl
  <2>3. step[r] \in {"set", "setRedis"} =>
          EntryOf(r).until = now + Ttl /\ EntryOf(r).value = value[r] /\ value[r].version <= version
    BY EntryTyped DEF VersionInv, Has
  <2>4. ASSUME NEW p \in Processes PROVE shown'[p] <= version
    BY <1>1, <1>4 DEF VersionInv, Has
  <2>5. ASSUME NEW p \in Processes PROVE EntryKnown(memory[p])'
    BY <1>1, <1>4, <2>1, <2>2, <2>3 DEF VersionInv, EntryKnown
  <2>6. EntryKnown(redis)'
    BY <1>1, <1>4, <2>1, <2>2, <2>3 DEF VersionInv, EntryKnown
  <2>7. ASSUME NEW q \in Requests \ {r}
        PROVE  floor'[q] <= version /\ (Has(q)' => value'[q].version <= version)
    BY <1>4, OthersRest DEF VersionInv, Has
  <2> QED
    BY <1>4, <2>1, <2>4, <2>5, <2>6, <2>7 DEF VersionInv
<1>5. ASSUME NEW r \in Requests, NEW p \in Processes, GetDashboardData(r, p)
      PROVE  VersionInv'
  <2>1. floor'[r] <= version /\ ~Has(r)' /\ UNCHANGED <<shown, memory, redis>>
    BY <1>1, <1>5 DEF GetDashboardData, VersionInv, Has
  <2> QED
    BY <1>4, <1>5, <2>1 DEF RequestStep
<1>6. ASSUME NEW r \in Requests, GetFromMemory(r) \/ GetFromRedis(r) \/ Fetch(r)
      PROVE  VersionInv'
  <2>1. UNCHANGED <<floor, shown, memory, redis>>
    BY <1>6 DEF GetFromMemory, GetFromRedis, Fetch
  <2>2. at[r] \in Processes
    BY <1>1, <1>6 DEF GetFromMemory, GetFromRedis, Fetch, Goes, TypeInv
  <2>3. Has(r)' => value'[r].version <= version
    BY <1>1, <1>6, <2>2
    DEF GetFromMemory, GetFromRedis, Fetch, Goes, Has, Hit, VersionInv, EntryKnown
  <2> QED
    BY <1>4, <1>6, <2>1, <2>3 DEF RequestStep, VersionInv
<1>7. ASSUME NEW r \in Requests, SetMemory(r) \/ SetRedis(r)
      PROVE  VersionInv'
  <2>1. UNCHANGED <<floor, shown, value>> /\ Has(r)
        /\ (UNCHANGED memory \/ (step[r] = "set" /\ memory' = [memory EXCEPT ![at[r]] = EntryOf(r)]))
        /\ (UNCHANGED redis \/ (step[r] = "setRedis" /\ redis' = EntryOf(r)))
    BY <1>7 DEF SetMemory, SetRedis, Goes, Has
  <2> QED
    BY <1>4, <1>7, <2>1 DEF RequestStep, VersionInv
<1>8. ASSUME NEW r \in Requests, Answer(r) \/ RequestFailed(r)
      PROVE  VersionInv'
  <2>1. /\ floor'[r] = 0 /\ ~Has(r)' /\ UNCHANGED <<memory, redis>>
        /\ UNCHANGED shown \/ (step[r] = "have" /\ shown' = [shown EXCEPT ![at[r]] = value[r].version])
    BY <1>1, <1>8 DEF Answer, RequestFailed, Ended, Has
  <2> QED
    BY <1>1, <1>4, <1>8, <2>1 DEF RequestStep
<1>9. CASE Change
  <2>1. version' = version + 1 /\ Ttl' = Ttl
    BY <1>9 DEF Change, Ttl
  <2>2. UNCHANGED <<now, memory, redis, step, value, shown, floor>>
    BY <1>9 DEF Change
  <2>3. ASSUME NEW e \in Stores, EntryKnown(e)
        PROVE  e # None => e.until <= now + Ttl /\ e.value.version <= version + 1
    BY <1>1, <1>2, <2>3 DEF EntryKnown, Stores
  <2>4. (\A p \in Processes : EntryKnown(memory[p])') /\ EntryKnown(redis)'
    BY <1>1, <2>1, <2>2, <2>3 DEF VersionInv, EntryKnown
  <2>5. \A p \in Processes : shown[p] <= version + 1
    BY <1>1 DEF VersionInv
  <2>6. \A r \in Requests : floor[r] <= version + 1 /\ (Has(r) => value[r].version <= version + 1)
    BY <1>1, <1>3 DEF VersionInv, Has, TypeInv
  <2> QED
    BY <2>1, <2>2, <2>4, <2>5, <2>6 DEF VersionInv, Has
<1>10. CASE Tick
  <2>1. now' = now + 1 /\ Ttl' = Ttl
    BY <1>10 DEF Tick, Ttl
  <2>2. UNCHANGED <<version, memory, redis, step, value, shown, floor>>
    BY <1>10 DEF Tick
  <2>3. ASSUME NEW e \in Stores, EntryKnown(e)
        PROVE  e # None => e.until <= now + 1 + Ttl /\ e.value.version <= version
    BY <1>1, <1>2, <2>3 DEF EntryKnown, Stores
  <2> QED
    BY <1>1, <2>1, <2>2, <2>3 DEF VersionInv, Has, EntryKnown
<1>11. CASE UNCHANGED vars
  BY <1>11 DEF vars, VersionInv, EntryKnown, Has, Ttl
<1>12. ASSUME NEW p \in Processes, Evict(p) PROVE VersionInv'
  BY <1>12, EvictedTyped DEF VersionInv, EntryKnown, Has, Ttl
<1> QED
  BY <1>5, <1>6, <1>7, <1>8, <1>9, <1>10, <1>11, <1>12 DEF Next

LEMMA CrowdStep == TypeInv /\ CrowdInv /\ [Next]_vars => CrowdInv'
<1> SUFFICES ASSUME TypeInv, CrowdInv, [Next]_vars PROVE CrowdInv'
  OBVIOUS
<1>1. at \in [Requests -> Processes \cup {None}]
  BY DEF TypeInv, TypeOK
<1>2. ASSUME NEW r \in Requests, NEW p \in Processes, GetDashboardData(r, p)
      PROVE  CrowdInv'
  <2> DEFINE others == {q \in Requests : at[q] # None}
  <2>1. /\ at' = [at EXCEPT ![r] = p]
        /\ crowded' = IF others = {} THEN crowded ELSE crowded \cup others \cup {r}
    BY <1>2 DEF GetDashboardData
  <2> QED
    BY <1>1, <2>1 DEF CrowdInv
<1>3. ASSUME NEW r \in Requests, Answer(r) \/ RequestFailed(r)
      PROVE  CrowdInv'
  <2>1. at' = [at EXCEPT ![r] = None] /\ crowded' = crowded \ {r}
    BY <1>3 DEF Answer, RequestFailed, Ended
  <2> QED
    BY <1>1, <2>1 DEF CrowdInv
<1>4. ASSUME NEW r \in Requests,
             GetFromMemory(r) \/ GetFromRedis(r) \/ Fetch(r) \/ SetMemory(r) \/ SetRedis(r)
      PROVE  UNCHANGED <<at, crowded>>
  BY <1>4 DEF GetFromMemory, GetFromRedis, Fetch, SetMemory, SetRedis
<1>5. Change \/ Tick \/ UNCHANGED vars \/ (\E p \in Processes : Evict(p)) => UNCHANGED <<at, crowded>>
  BY DEF Change, Tick, vars, Evict
<1>6. UNCHANGED <<at, crowded>> => CrowdInv'
  BY DEF CrowdInv
<1> QED
  BY <1>2, <1>3, <1>4, <1>5, <1>6 DEF Next

--------------------------------------------------------------------------------
(* As long as only requests that nobody overlapped have stored anything,   *)
(* and no memory has evicted what was newer than the entry of Redis, the   *)
(* stores back whatever a process showed, has in its memory, or is about   *)
(* to show: it finds nothing older than that.                              *)

Backed(p, v) == Backs(now, memory[p], redis, v)

ProcessBacked(p) == Backed(p, shown[p]) /\ (Hit(memory[p]) => Backed(p, memory[p].value.version))

\* No process has shown or stored anything newer than what the request fetched.
Newest(r) ==
  \A p \in Processes :
    /\ shown[p] <= value[r].version
    /\ memory[p] # None => memory[p].value.version <= value[r].version

RequestBacked(r) ==
  /\ Backed(at[r], floor[r])
  /\ step[r] = "redis" => ~Hit(memory[at[r]])
  /\ step[r] \in {"setRedis", "have"} => Backed(at[r], value[r].version)
  /\ step[r] \in {"set", "setRedis"} /\ r \notin crowded => Newest(r)
  /\ Has(r) => floor[r] <= value[r].version

BackedInv ==
  ~disordered => /\ \A p \in Processes : ProcessBacked(p)
                /\ \A r \in Requests : at[r] # None => RequestBacked(r)

LEMMA Alone ==
  ASSUME TypeInv, CrowdInv, NEW r \in Requests, at[r] # None, r \notin crowded
  PROVE  \A q \in Requests : q # r => at[q] = None
BY DEF CrowdInv

LEMMA VersionTyped ==
  ASSUME TypeInv
  PROVE  /\ now \in Nat /\ version \in Nat /\ Ttl \in Nat /\ Ttl > 0
         /\ redis \in Stores
         /\ \A p \in Processes : shown[p] \in Nat /\ memory[p] \in Stores
         /\ \A r \in Requests : /\ floor[r] \in Nat
                                /\ at[r] # None => at[r] \in Processes
                                /\ step[r] \in {"set", "setRedis", "have"} =>
                                     value[r] \in Values /\ value[r].version \in Nat
         /\ \A e \in Entries : e.value \in Values /\ e.value.version \in Nat /\ e.until \in Nat
         /\ \A v \in Values : v.version \in Nat
         /\ None \notin Processes
BY DashboardAssumption, TtlPositive DEF TypeInv, TypeOK, Stores, Entries, Values

\* Steps that leave the stores and what was shown alone disturb only the request that takes them.
LEMMA StoresRest ==
  ASSUME TypeInv, CrowdInv, BackedInv, NEW r \in Requests, RequestStep(r),
         UNCHANGED <<memory, redis, shown, disordered>>,
         crowded \subseteq crowded' \cup {r},
         ~disordered /\ at'[r] # None => RequestBacked(r)'
  PROVE  BackedInv'
<1> SUFFICES ASSUME ~disordered
             PROVE  /\ \A p \in Processes : ProcessBacked(p)'
                    /\ \A q \in Requests : at'[q] # None => RequestBacked(q)'
  BY DEF BackedInv
<1>1. UNCHANGED <<now, key, version>>
  BY DEF RequestStep, GetDashboardData, GetFromMemory, GetFromRedis, Fetch, SetMemory, SetRedis,
     Answer,
         RequestFailed, Ended
<1>2. ASSUME NEW p \in Processes PROVE ProcessBacked(p)'
  BY <1>1 DEF BackedInv, ProcessBacked, Backed, Hit
<1>3. ASSUME NEW q \in Requests \ {r}, at'[q] # None PROVE RequestBacked(q)'
  <2>1. /\ step'[q] = step[q] /\ value'[q] = value[q] /\ at'[q] = at[q] /\ floor'[q] = floor[q]
    BY OthersRest
  <2>2. RequestBacked(q)
    BY <1>3, <2>1 DEF BackedInv
  <2> QED
    BY <1>1, <2>1, <2>2 DEF RequestBacked, Backed, Hit, Newest, Has
<1> QED
  BY <1>2, <1>3

LEMMA RequestLooks ==
  ASSUME TypeInv, CrowdInv, VersionInv, BackedInv, NEW r \in Requests,
         GetFromMemory(r) \/ GetFromRedis(r) \/ Fetch(r)
  PROVE  BackedInv'
<1>1. /\ UNCHANGED <<now, key, version, memory, redis, at, crowded, shown, disordered, floor>>
      /\ step[r] # "idle" /\ RequestStep(r)
  BY DEF GetFromMemory, GetFromRedis, Fetch, Goes, RequestStep
<1>2. /\ at[r] # None /\ at[r] \in Processes /\ floor[r] \in Nat /\ memory[at[r]] \in Stores /\ redis \in Stores
      /\ r \in DOMAIN step /\ r \in DOMAIN value
  BY <1>1, VersionTyped DEF TypeInv, TypeOK
<1>3. ASSUME ~disordered PROVE RequestBacked(r)'
  <2>1. RequestBacked(r) /\ ProcessBacked(at[r])
    BY <1>2, <1>3 DEF BackedInv
  <2>2. Backed(at[r], floor[r])'
    BY <1>1, <2>1 DEF RequestBacked, Backed
  <2>3. CASE GetFromMemory(r)
    <3>1. CASE step'[r] = "have"
      <4>1. Hit(memory[at[r]]) /\ value'[r] = memory[at[r]].value
        BY <1>2, <2>3, <3>1 DEF GetFromMemory, Goes
      <4>2. Backed(at[r], memory[at[r]].value.version) /\ floor[r] <= memory[at[r]].value.version
        BY <2>1, <4>1 DEF ProcessBacked, RequestBacked, Backed, Backs, Alive, Hit
      <4> QED
        BY <1>1, <2>2, <3>1, <4>1, <4>2 DEF RequestBacked, Backed, Has
    <3>2. CASE step'[r] # "have"
      <4>1. step'[r] = "redis" /\ ~Hit(memory[at[r]])
        BY <1>2, <2>3, <3>2 DEF GetFromMemory, Goes
      <4> QED
        BY <1>1, <2>2, <4>1 DEF RequestBacked, Hit, Has
    <3> QED
      BY <3>1, <3>2
  <2>4. CASE GetFromRedis(r)
    <3>1. CASE step'[r] = "have"
      <4>1. Hit(redis) /\ value'[r] = redis.value /\ ~Hit(memory[at[r]])
        BY <1>2, <2>1, <2>4, <3>1 DEF GetFromRedis, Goes, RequestBacked
      <4>2. redis.value.version \in Nat
        BY <1>2, <4>1, VersionTyped DEF Hit, Stores
      <4>3. floor[r] <= redis.value.version
        BY <1>2, <2>1, <4>1, <4>2 DEF RequestBacked, Backed, Backs, Alive, Hit
      <4>4. Backed(at[r], redis.value.version)
        BY <4>1, <4>2 DEF Backed, Backs, Alive, Hit
      <4> QED
        BY <1>1, <2>2, <3>1, <4>1, <4>3, <4>4 DEF RequestBacked, Backed, Has
    <3>2. CASE step'[r] # "have"
      <4>1. step'[r] = "fetch"
        BY <1>2, <2>4, <3>2 DEF GetFromRedis, Goes
      <4> QED
        BY <1>1, <2>2, <4>1 DEF RequestBacked, Has
    <3> QED
      BY <3>1, <3>2
  <2>5. CASE Fetch(r)
    <3>1. step'[r] = "set" /\ value'[r].version = version
      BY <1>2, <2>5 DEF Fetch, Goes
    <3>2. Newest(r)' /\ floor[r] <= version
      BY <1>1, <3>1 DEF VersionInv, EntryKnown, Newest
    <3> QED
      BY <1>1, <2>2, <3>1, <3>2 DEF RequestBacked, Has
  <2> QED
    BY <2>3, <2>4, <2>5
<1> QED
  BY <1>1, <1>3, StoresRest

LEMMA RequestBegins ==
  ASSUME TypeInv, CrowdInv, BackedInv, NEW r \in Requests, NEW p \in Processes, GetDashboardData(r, p)
  PROVE  BackedInv'
<1>1. /\ UNCHANGED <<now, memory, redis, shown, disordered>> /\ crowded \subseteq crowded'
      /\ at'[r] = p /\ step'[r] = "memory" /\ floor'[r] = shown[p]
  BY DEF GetDashboardData, TypeInv, TypeOK
<1>2. ~disordered => Backed(p, shown[p])
  BY DEF BackedInv, ProcessBacked
<1>3. ~disordered => RequestBacked(r)'
  BY <1>1, <1>2 DEF RequestBacked, Backed, Has
<1>4. RequestStep(r)
  BY DEF RequestStep
<1> QED
  BY <1>1, <1>3, <1>4, StoresRest

\* A request that stores something and leaves all in order is alone, and what it stores expires last.
LEMMA Undisordered ==
  ASSUME TypeInv, CrowdInv, VersionInv, BackedInv, NEW r \in Requests, SetMemory(r) \/ SetRedis(r),
         ~disordered, r \notin crowded
  PROVE  /\ at[r] \in Processes /\ EntryOf(r) \in Entries /\ None # EntryOf(r)
         /\ now < EntryOf(r).until /\ EntryOf(r).value = value[r]
         /\ redis # None => redis.until <= EntryOf(r).until
         /\ \A p \in Processes : ProcessBacked(p)
         /\ Newest(r) /\ Backed(at[r], floor[r]) /\ floor[r] <= value[r].version
         /\ \A q \in Requests : q # r => at[q] = None
<1>1. step[r] \in {"set", "setRedis"}
  BY DEF SetMemory, SetRedis, Goes
<1>2. at[r] # None /\ at[r] \in Processes
  BY <1>1, VersionTyped DEF TypeInv
<1>3. /\ EntryOf(r) \in Entries /\ EntryOf(r).value = value[r] /\ EntryOf(r).until = now + Ttl
      /\ now \in Nat /\ Ttl \in Nat /\ Ttl > 0
  BY <1>1, EntryTyped, VersionTyped
<1>4. None # EntryOf(r)
  BY <1>3, NoEntryAssumption
<1>5. redis # None => redis.until <= EntryOf(r).until
  BY <1>3 DEF VersionInv, EntryKnown
<1>6. RequestBacked(r) /\ \A p \in Processes : ProcessBacked(p)
  BY <1>2 DEF BackedInv
<1>7. Newest(r) /\ Backed(at[r], floor[r]) /\ floor[r] <= value[r].version
  BY <1>1, <1>6 DEF RequestBacked, Has
<1> QED
  BY <1>2, <1>3, <1>4, <1>5, <1>6, <1>7, Alone

LEMMA MemoryStored ==
  ASSUME TypeInv, CrowdInv, VersionInv, BackedInv, NEW r \in Requests, SetMemory(r)
  PROVE  BackedInv'
<1> SUFFICES ASSUME ~disordered'
             PROVE  /\ \A p \in Processes : ProcessBacked(p)'
                    /\ \A q \in Requests : at'[q] # None => RequestBacked(q)'
  BY DEF BackedInv
<1> DEFINE e == EntryOf(r)
<1>1. /\ ~disordered /\ r \notin crowded
      /\ UNCHANGED <<now, key, version, redis, at, value, crowded, shown, floor>>
      /\ memory' = [memory EXCEPT ![at[r]] = e]
      /\ step[r] = "set" /\ step' = [step EXCEPT ![r] = "setRedis"]
  BY DEF SetMemory, Stored, Goes
<1>2. /\ at[r] \in Processes /\ e \in Entries /\ None # e /\ now < e.until /\ e.value = value[r]
      /\ redis # None => redis.until <= e.until
      /\ \A p \in Processes : ProcessBacked(p)
      /\ Newest(r) /\ floor[r] <= value[r].version
      /\ \A q \in Requests : q # r => at[q] = None
  BY <1>1, Undisordered
<1> HIDE DEF e
<1>3. /\ now \in Nat /\ redis \in Stores /\ value[r].version \in Nat
      /\ \A p \in Processes : shown[p] \in Nat /\ memory[p] \in Stores
      /\ floor[r] \in Nat
  BY <1>1, VersionTyped
<1>4. /\ memory'[at[r]] = e /\ step'[r] = "setRedis"
      /\ \A p \in Processes : p # at[r] => memory'[p] = memory[p]
  BY <1>1, <1>2, <1>3 DEF TypeInv, TypeOK
<1>5. ASSUME NEW v \in Nat, v <= value[r].version PROVE Backs(now', memory'[at[r]], redis', v)
  <2>1. Backs(now, e, redis, v)
    BY <1>2, <1>3, <1>5, BacksMemory
  <2> QED
    BY <1>1, <1>4, <2>1
<1>6. ASSUME NEW p \in Processes PROVE ProcessBacked(p)'
  <2>1. CASE p = at[r]
    <3>1. Backed(at[r], shown[p])' /\ Backed(at[r], value[r].version)'
      BY <1>1, <1>2, <1>3, <1>5 DEF Newest, Backed
    <3> QED
      BY <1>1, <1>2, <1>4, <2>1, <3>1 DEF ProcessBacked
  <2>2. CASE p # at[r]
    BY <1>1, <1>2, <1>4, <2>2 DEF ProcessBacked, Backed, Hit
  <2> QED
    BY <2>1, <2>2
<1>7. RequestBacked(r)'
  <2>1. Newest(r)'
    BY <1>1, <1>2, <1>3, <1>4 DEF Newest
  <2>2. Backed(at[r], floor[r])' /\ Backed(at[r], value[r].version)'
    BY <1>1, <1>2, <1>3, <1>5 DEF Backed
  <2> QED
    BY <1>1, <1>2, <1>4, <2>1, <2>2 DEF RequestBacked
<1> QED
  BY <1>1, <1>2, <1>6, <1>7

LEMMA RedisStored ==
  ASSUME TypeInv, CrowdInv, VersionInv, BackedInv, NEW r \in Requests, SetRedis(r)
  PROVE  BackedInv'
<1> SUFFICES ASSUME ~disordered'
             PROVE  /\ \A p \in Processes : ProcessBacked(p)'
                    /\ \A q \in Requests : at'[q] # None => RequestBacked(q)'
  BY DEF BackedInv
<1> DEFINE e == EntryOf(r)
<1>1. /\ UNCHANGED <<now, key, version, memory, at, value, crowded, shown, floor>>
      /\ step[r] = "setRedis" /\ step' = [step EXCEPT ![r] = "have"]
      /\ \/ redis' = e /\ ~disordered /\ r \notin crowded
         \/ UNCHANGED <<redis, disordered>>
  BY DEF SetRedis, Stored, Goes
<1>2. step'[r] = "have" /\ at[r] # None /\ at[r] \in Processes /\ ~disordered
  BY <1>1, VersionTyped DEF TypeInv, TypeOK
<1>3. RequestBacked(r)
  BY <1>2 DEF BackedInv
<1>4. CASE UNCHANGED <<redis, disordered>>
  <2>1. RequestBacked(r)'
    BY <1>1, <1>2, <1>3, <1>4 DEF RequestBacked, Backed, Has
  <2>2. RequestStep(r)
    BY DEF RequestStep
  <2>3. BackedInv'
    BY <1>1, <1>4, <2>1, <2>2, StoresRest
  <2> QED
    BY <2>3 DEF BackedInv
<1>5. CASE redis' = e /\ r \notin crowded
  <2>1. /\ e \in Entries /\ e.value = value[r]
        /\ \A p \in Processes : ProcessBacked(p)
        /\ Newest(r) /\ Backed(at[r], floor[r]) /\ floor[r] <= value[r].version
        /\ \A q \in Requests : q # r => at[q] = None
    BY <1>2, <1>5, Undisordered
  <2> HIDE DEF e
  <2>2. /\ now \in Nat /\ redis \in Stores /\ value[r].version \in Nat /\ floor[r] \in Nat
        /\ \A p \in Processes : shown[p] \in Nat /\ memory[p] \in Stores
        /\ \A x \in Entries : x.value.version \in Nat
    BY <1>1, VersionTyped
  <2>3. ASSUME NEW p \in Processes, NEW v \in Nat, Backed(p, v), v <= value[r].version
        PROVE  Backs(now', memory'[p], redis', v)
    <3>1. Backs(now, memory[p], e, v)
      BY <2>1, <2>2, <2>3, BacksRedis DEF Backed
    <3> QED
      BY <1>1, <1>5, <3>1
  <2>4. ASSUME NEW p \in Processes PROVE ProcessBacked(p)'
    <3>1. Backed(p, shown[p])'
      BY <1>1, <2>1, <2>2, <2>3 DEF ProcessBacked, Newest, Backed
    <3>2. ASSUME Hit(memory[p]) PROVE Backed(p, memory[p].value.version)'
      <4>1. memory[p].value.version \in Nat /\ memory[p] # None
        BY <2>2, <3>2 DEF Hit, Stores
      <4> QED
        BY <1>1, <2>1, <2>3, <3>2, <4>1 DEF ProcessBacked, Newest, Backed
    <3> QED
      BY <1>1, <3>1, <3>2 DEF ProcessBacked, Hit
  <2>5. RequestBacked(r)'
    <3>1. Backed(at[r], value[r].version)
      BY <1>1, <1>3 DEF RequestBacked
    <3>2. Backed(at[r], floor[r])' /\ Backed(at[r], value[r].version)'
      BY <1>1, <1>2, <2>1, <2>2, <2>3, <3>1 DEF Backed
    <3> QED
      BY <1>1, <1>2, <2>1, <3>2 DEF RequestBacked
  <2> QED
    BY <1>1, <2>1, <2>4, <2>5
<1> QED
  BY <1>1, <1>4, <1>5

LEMMA RequestEnds ==
  ASSUME TypeInv, CrowdInv, BackedInv, NEW r \in Requests, Answer(r) \/ RequestFailed(r)
  PROVE  BackedInv'
<1>1. /\ UNCHANGED <<now, key, version, memory, redis, disordered>>
      /\ at'[r] = None /\ crowded' = crowded \ {r} /\ RequestStep(r)
  BY DEF Answer, RequestFailed, Ended, RequestStep, TypeInv, TypeOK
<1>2. CASE UNCHANGED shown
  BY <1>1, <1>2, StoresRest
<1>3. CASE Answer(r)
  <2> SUFFICES ASSUME ~disordered
               PROVE  /\ \A p \in Processes : ProcessBacked(p)'
                      /\ \A q \in Requests : at'[q] # None => RequestBacked(q)'
    BY <1>1 DEF BackedInv
  <2>1. step[r] = "have" /\ shown' = [shown EXCEPT ![at[r]] = value[r].version]
    BY <1>3 DEF Answer
  <2>2. at[r] # None /\ at[r] \in Processes
    BY <2>1, VersionTyped DEF TypeInv
  <2>3. Backed(at[r], value[r].version)
    BY <2>1, <2>2 DEF BackedInv, RequestBacked
  <2>4. ASSUME NEW p \in Processes PROVE ProcessBacked(p)'
    <3>1. Backed(p, shown'[p])
      BY <2>1, <2>2, <2>3 DEF BackedInv, ProcessBacked, TypeInv, TypeOK
    <3> QED
      BY <1>1, <3>1 DEF BackedInv, ProcessBacked, Backed, Hit
  <2>5. ASSUME NEW q \in Requests, at'[q] # None PROVE RequestBacked(q)'
    <3>1. /\ q # r /\ step'[q] = step[q] /\ value'[q] = value[q] /\ at'[q] = at[q] /\ floor'[q] = floor[q]
      BY <1>1, <2>5, OthersRest
    <3>2. q \in crowded' /\ RequestBacked(q)
      BY <1>1, <2>2, <2>5, <3>1 DEF CrowdInv, BackedInv
    <3> QED
      BY <1>1, <3>1, <3>2 DEF RequestBacked, Backed, Hit, Has
  <2> QED
    BY <2>4, <2>5
<1> QED
  BY <1>2, <1>3 DEF RequestFailed

LEMMA BackedLater ==
  ASSUME TypeInv, BackedInv, Tick
  PROVE  BackedInv'
<1> SUFFICES ASSUME ~disordered
             PROVE  /\ \A p \in Processes : ProcessBacked(p)'
                    /\ \A q \in Requests : at'[q] # None => RequestBacked(q)'
  BY DEF BackedInv, Tick
<1>1. /\ now' = now + 1
      /\ UNCHANGED <<memory, redis, at, step, value, crowded, shown, floor>>
  BY DEF Tick
<1>2. /\ now \in Nat /\ redis \in Stores
      /\ \A p \in Processes : shown[p] \in Nat /\ memory[p] \in Stores
      /\ \A x \in Entries : x.value.version \in Nat /\ x.until \in Nat
  BY VersionTyped
<1>3. ASSUME NEW p \in Processes, NEW v \in Nat, Backed(p, v)
      PROVE  Backs(now', memory'[p], redis', v)
  <2>1. Backs(now + 1, memory[p], redis, v)
    BY <1>2, <1>3, BacksLater DEF Backed
  <2> QED
    BY <1>1, <2>1
<1>4. ASSUME NEW p \in Processes PROVE ProcessBacked(p)'
  <2>1. Backed(p, shown[p])'
    BY <1>1, <1>2, <1>3 DEF BackedInv, ProcessBacked, Backed
  <2>2. ASSUME Hit(memory[p])' PROVE Backed(p, memory[p].value.version)'
    <3>1. Hit(memory[p]) /\ memory[p].value.version \in Nat
      BY <1>1, <1>2, <2>2 DEF Hit, Stores
    <3> QED
      BY <1>1, <1>3, <3>1 DEF BackedInv, ProcessBacked, Backed
  <2> QED
    BY <1>1, <2>1, <2>2 DEF ProcessBacked
<1>5. ASSUME NEW q \in Requests, at[q] # None PROVE RequestBacked(q)'
  <2>1. RequestBacked(q) /\ at[q] \in Processes /\ floor[q] \in Nat
    BY <1>5, VersionTyped DEF BackedInv
  <2>2. Backed(at[q], floor[q])'
    BY <1>1, <1>3, <2>1 DEF RequestBacked, Backed
  <2>3. step[q] = "redis" => ~Hit(memory[at[q]])'
    BY <1>1, <1>2, <2>1 DEF RequestBacked, Hit, Stores
  <2>4. ASSUME step[q] \in {"setRedis", "have"} PROVE Backed(at[q], value[q].version)'
    <3>1. value[q].version \in Nat
      BY <2>4, VersionTyped
    <3> QED
      BY <1>1, <1>3, <2>1, <2>4, <3>1 DEF RequestBacked, Backed
  <2> QED
    BY <1>1, <2>1, <2>2, <2>3, <2>4 DEF RequestBacked, Newest, Has
<1> QED
  BY <1>1, <1>4, <1>5

LEMMA BackedEvicted ==
  ASSUME TypeInv, BackedInv, NEW p \in Processes, Evict(p)
  PROVE  BackedInv'
<1> SUFFICES ASSUME ~disordered'
             PROVE  /\ \A q \in Processes : ProcessBacked(q)'
                    /\ \A r \in Requests : at'[r] # None => RequestBacked(r)'
  BY DEF BackedInv
<1>1. /\ UNCHANGED <<now, redis, at, step, value, crowded, shown, floor>>
      /\ memory'[p] = None /\ \A q \in Processes : q # p => memory'[q] = memory[q]
  BY EvictedTyped
<1>2. /\ now \in Nat /\ redis \in Stores
      /\ \A q \in Processes : shown[q] \in Nat /\ memory[q] \in Stores
      /\ \A x \in Entries : x.value.version \in Nat
  BY VersionTyped
<1>3. ~disordered /\ (Hit(memory[p]) /\ Hit(redis) => memory[p].value.version <= redis.value.version)
  <2>1. disordered' = (disordered \/ ( /\ Hit(memory[p]) /\ Hit(redis)
                                       /\ redis.value.version < memory[p].value.version))
    BY DEF Evict
  <2>2. ~disordered /\ ~(Hit(memory[p]) /\ Hit(redis) /\ redis.value.version < memory[p].value.version)
    BY <2>1, Zenon
  <2>3. Hit(memory[p]) /\ Hit(redis) =>
          memory[p].value.version \in Nat /\ redis.value.version \in Nat
    BY <1>2 DEF Hit, Stores
  <2> QED
    BY <2>2, <2>3
<1>4. ASSUME NEW q \in Processes, NEW v \in Nat, Backed(q, v)
      PROVE  Backs(now', memory'[q], redis', v)
  <2>1. CASE q = p
    <3>1. Backs(now, None, redis, v)
      BY <1>2, <1>3, <1>4, <2>1, BacksEvicted DEF Backed, Alive, Hit
    <3> QED
      BY <1>1, <2>1, <3>1
  <2>2. CASE q # p
    BY <1>1, <1>4, <2>2 DEF Backed
  <2> QED
    BY <2>1, <2>2
<1>5. \A q \in Processes : Hit(memory[q])' => Hit(memory[q]) /\ memory'[q] = memory[q]
  BY <1>1 DEF Hit
<1>6. ASSUME NEW q \in Processes PROVE ProcessBacked(q)'
  <2>1. Backed(q, shown[q])'
    BY <1>1, <1>2, <1>3, <1>4 DEF BackedInv, ProcessBacked, Backed
  <2>2. ASSUME Hit(memory[q])' PROVE Backed(q, memory[q].value.version)'
    <3>1. Hit(memory[q]) /\ memory'[q] = memory[q] /\ memory[q].value.version \in Nat
      BY <1>2, <1>5, <2>2 DEF Hit, Stores
    <3> QED
      BY <1>3, <1>4, <3>1 DEF BackedInv, ProcessBacked, Backed
  <2> QED
    BY <2>1, <2>2 DEF ProcessBacked
<1>7. ASSUME NEW r \in Requests, at'[r] # None PROVE RequestBacked(r)'
  <2>1. RequestBacked(r) /\ at[r] \in Processes /\ floor[r] \in Nat
    BY <1>1, <1>3, <1>7, VersionTyped DEF BackedInv
  <2>2. Backed(at[r], floor[r])'
    BY <1>1, <1>4, <2>1 DEF RequestBacked, Backed
  <2>3. step[r] = "redis" => ~Hit(memory[at[r]])'
    BY <1>1, <1>5, <2>1 DEF RequestBacked
  <2>4. ASSUME step[r] \in {"setRedis", "have"} PROVE Backed(at[r], value[r].version)'
    <3>1. value[r].version \in Nat
      BY <2>4, VersionTyped
    <3> QED
      BY <1>1, <1>4, <2>1, <2>4, <3>1 DEF RequestBacked, Backed
  <2>5. Newest(r) => Newest(r)'
    BY <1>1 DEF Newest
  <2> QED
    BY <1>1, <2>1, <2>2, <2>3, <2>4, <2>5 DEF RequestBacked, Has
<1> QED
  BY <1>6, <1>7

LEMMA BackedStep == TypeInv /\ CrowdInv /\ VersionInv /\ BackedInv /\ [Next]_vars => BackedInv'
<1> SUFFICES ASSUME TypeInv, CrowdInv, VersionInv, BackedInv, [Next]_vars PROVE BackedInv'
  OBVIOUS
<1>1. CASE Change \/ UNCHANGED vars
  BY <1>1 DEF Change, vars, BackedInv, ProcessBacked, RequestBacked, Backed, Newest, Has, Hit
<1>2. CASE Tick
  BY <1>2, BackedLater
<1>3. ASSUME NEW r \in Requests, \E p \in Processes : GetDashboardData(r, p) PROVE BackedInv'
  BY <1>3, RequestBegins
<1>4. ASSUME NEW r \in Requests, GetFromMemory(r) \/ GetFromRedis(r) \/ Fetch(r) PROVE BackedInv'
  BY <1>4, RequestLooks
<1>5. ASSUME NEW r \in Requests, SetMemory(r) PROVE BackedInv'
  BY <1>5, MemoryStored
<1>6. ASSUME NEW r \in Requests, SetRedis(r) PROVE BackedInv'
  BY <1>6, RedisStored
<1>7. ASSUME NEW r \in Requests, Answer(r) \/ RequestFailed(r) PROVE BackedInv'
  BY <1>7, RequestEnds
<1>8. ASSUME NEW p \in Processes, Evict(p) PROVE BackedInv'
  BY <1>8, BackedEvicted
<1> QED
  BY <1>1, <1>2, <1>3, <1>4, <1>5, <1>6, <1>7, <1>8 DEF Next

\* A process does not answer a request with older data than it answered an earlier one with,
\* whatever expires, is evicted or fails, unless the key was stored by requests that overlapped
\* or a memory evicted its entry while Redis still had an older one.
THEOREM NothingOlderShown == Spec => []NeverOlder
<1>1. Init => VersionInv /\ CrowdInv /\ BackedInv
  <2> SUFFICES ASSUME Init PROVE VersionInv /\ CrowdInv /\ BackedInv
    OBVIOUS
  <2>1. /\ \A p \in Processes : memory[p] = None /\ shown[p] = 0
        /\ redis = None /\ version = 0
        /\ \A r \in Requests : at[r] = None /\ step[r] = "idle" /\ floor[r] = 0
    BY DEF Init
  <2> QED
    BY <2>1
    DEF VersionInv, CrowdInv, BackedInv, EntryKnown, Has, ProcessBacked, Backed, Backs, Alive, Hit
<1>2. TypeInv /\ BackedInv => NeverOlder
  <2> SUFFICES ASSUME TypeInv, BackedInv, NEW r \in Requests, step[r] = "have", ~disordered
               PROVE  value[r].version >= floor[r]
    BY DEF NeverOlder
  <2>1. floor[r] <= value[r].version
    BY DEF TypeInv, BackedInv, RequestBacked, Has
  <2> QED
    BY <2>1, VersionTyped
<1> QED
  BY <1>1, <1>2, TypedAlways, VersionStep, CrowdStep, BackedStep, PTL DEF Spec
================================================================================
