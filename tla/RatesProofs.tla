------------------------------ MODULE RatesProofs ------------------------------
(***************************************************************************)
(* Proofs about ExchangeRates, for any currencies, callers, publications   *)
(* and faults: every property the run checks.                              *)
(*                                                                         *)
(* TLC's two currencies leave every task at most one reverse rate to       *)
(* fetch; here the tasks of a refresh compete for as many as there are.    *)
(***************************************************************************)
EXTENDS ExchangeRates, TLAPS

TaskSteps == {"none", "fetch", "add", "done", "failed"}

\* A task's record, whose hash has rates for pairs.
IsTask(k, x) ==
  /\ DOMAIN x = {"step", "left", "hash"}
  /\ x.step \in TaskSteps
  /\ x.left \subseteq Currencies \ {BaseOf(k)}
  /\ DOMAIN x.hash \subseteq Pairs
  /\ \A p \in DOMAIN x.hash : x.hash[p] \in Rates

TasksTyped ==
  /\ DOMAIN task = Callers
  /\ \A c \in Callers : DOMAIN task[c] = Tasks
  /\ \A c \in Callers, k \in Tasks : IsTask(k, task[c][k])

\* What TypeOK says of everything but the tasks.
FieldsTyped ==
  /\ published \in 0..MaxPublished
  /\ supported \subseteq Currencies
  /\ table \in [Pairs -> Rates \cup {NoRate}]
  /\ step \in [Callers -> CallerSteps]
  /\ want \in [Callers -> Pairs \cup {NoPair}]
  /\ {initialData, since} \subseteq [Callers -> 0..MaxPublished]
  /\ visited \in [Callers -> SUBSET Currencies]
  /\ alone \in [Callers -> BOOLEAN]
  /\ faults \in 0..MaxFaults

TypeInv == FieldsTyped /\ TasksTyped

--------------------------------------------------------------------------------
(* What the operators of a task return. *)

\* A pair is two currencies.
LEMMA PairForm ==
  ASSUME NEW p \in Pairs
  PROVE  p[1] \in Currencies /\ p[2] \in Currencies /\ p[1] # p[2] /\ p = <<p[1], p[2]>>
BY DEF Pairs

\* The base of a task is a currency.
LEMMA BaseOfCurrency ==
  ASSUME NEW k \in Tasks
  PROVE  BaseOf(k) \in Currencies
BY RatesAssumption DEF BaseOf, Tasks

\* A currency's task has the currency for its base.
LEMMA BaseOfTask ==
  ASSUME NEW o \in Currencies
  PROVE  o \in Tasks /\ BaseOf(o) = o
BY RatesAssumption DEF BaseOf, Tasks

\* The provider's answer holds every forward rate of the base, of one publication.
LEMMA AnswerHolds ==
  ASSUME NEW k \in Tasks, NEW n \in 0..MaxPublished, NEW seen \in SUBSET Currencies
  PROVE  LET x == WithAnswer(k, n, seen) IN
         /\ IsTask(k, x) /\ x.step = "add"
         /\ DOMAIN x.hash = {p \in Pairs : p[1] = BaseOf(k)}
         /\ \A p \in DOMAIN x.hash : x.hash[p].pair = p /\ x.hash[p].at = n
<1> DEFINE D == {p \in Pairs : p[1] = BaseOf(k)}
           h == [p \in D |-> Quote(p[1], p[2], n)]
<1>1. \A p \in D : h[p] \in Rates /\ h[p].pair = p /\ h[p].at = n
  BY PairForm DEF Quote, Rates
<1>2. DOMAIN h = D /\ D \subseteq Pairs
  OBVIOUS
<1> HIDE DEF h, D
<1>3. WithAnswer(k, n, seen) =
        [step |-> "add", left |-> Currencies \ (seen \cup {BaseOf(k)}), hash |-> h]
  BY DEF WithAnswer, h, D
<1>4. IsTask(k, WithAnswer(k, n, seen))
  BY <1>1, <1>2, <1>3 DEF IsTask, TaskSteps
<1>5. DOMAIN h = {p \in Pairs : p[1] = BaseOf(k)}
  BY <1>2 DEF D
<1> QED
  BY <1>1, <1>2, <1>3, <1>4, <1>5

\* No task is a task, and so is one that starts or ends, which holds nothing.
LEMMA NoTaskTyped ==
  ASSUME NEW k \in Tasks
  PROVE  IsTask(k, NoTask)
BY DEF NoTask, IsTask, TaskSteps

LEMMA NoTaskStep ==
  ASSUME NEW k \in Tasks, NEW s \in TaskSteps
  PROVE  /\ IsTask(k, [NoTask EXCEPT !.step = s])
         /\ [NoTask EXCEPT !.step = s].step = s
         /\ DOMAIN [NoTask EXCEPT !.step = s].hash = {}
BY DEF NoTask, IsTask, TaskSteps

TaskBecomes(c, k, x) == task' = [task EXCEPT ![c][k] = x]
TasksBecome(c, f) == task' = [task EXCEPT ![c] = f]

\* A write of one task leaves every other where it is.
LEMMA TaskSet ==
  ASSUME TasksTyped, NEW c \in Callers, NEW k \in Tasks, NEW x, IsTask(k, x), TaskBecomes(c, k, x)
  PROVE  /\ TasksTyped'
         /\ task'[c][k] = x
         /\ \A d \in Callers, o \in Tasks : d # c \/ o # k => task'[d][o] = task[d][o]
<1>1. /\ DOMAIN task' = Callers
      /\ \A d \in Callers : DOMAIN task'[d] = Tasks
      /\ task'[c][k] = x
      /\ \A d \in Callers, o \in Tasks : d # c \/ o # k => task'[d][o] = task[d][o]
  BY DEF TasksTyped, TaskBecomes
<1>2. \A d \in Callers, o \in Tasks : IsTask(o, task'[d][o])
  BY <1>1 DEF TasksTyped
<1> QED
  BY <1>1, <1>2 DEF TasksTyped

\* A write of all tasks of one caller.
LEMMA TasksSet ==
  ASSUME TasksTyped, NEW c \in Callers, NEW f, DOMAIN f = Tasks,
         \A k \in Tasks : IsTask(k, f[k]), TasksBecome(c, f)
  PROVE  /\ TasksTyped'
         /\ \A k \in Tasks : task'[c][k] = f[k]
         /\ \A d \in Callers \ {c}, o \in Tasks : task'[d][o] = task[d][o]
<1>1. /\ DOMAIN task' = Callers
      /\ task'[c] = f
      /\ \A d \in Callers \ {c} : task'[d] = task[d]
  BY DEF TasksTyped, TasksBecome
<1> QED
  BY <1>1 DEF TasksTyped

\* What the loop's body for the currency t leaves of a task: one reverse rate more, or, if
\* its error was swallowed, none.
LEMMA ReverseAdded ==
  ASSUME TypeInv, NEW c \in Callers, NEW k \in Tasks, NEW t \in task[c][k].left
  PROVE  LET x == task[c][k]
             b == BaseOf(k)
             left == x.left \ (visited[c] \cup {t})
             added == [p \in DOMAIN x.hash \cup {<<t, b>>} |->
                         IF p = <<t, b>> THEN ReverseRate(t, b, published) ELSE x.hash[p]]
             y == [x EXCEPT !.left = left, !.hash = added]
             z == [x EXCEPT !.left = left]
         IN  /\ IsTask(k, y) /\ y.step = x.step /\ y.hash = added
             /\ IsTask(k, z) /\ z.step = x.step /\ z.hash = x.hash
<1> DEFINE x == task[c][k]
           b == BaseOf(k)
           left == x.left \ (visited[c] \cup {t})
           added == [p \in DOMAIN x.hash \cup {<<t, b>>} |->
                       IF p = <<t, b>> THEN ReverseRate(t, b, published) ELSE x.hash[p]]
           y == [x EXCEPT !.left = left, !.hash = added]
           z == [x EXCEPT !.left = left]
<1>1. IsTask(k, x)
  BY DEF TypeInv, TasksTyped
<1>2. b \in Currencies /\ t \in Currencies /\ t # b
  BY <1>1, BaseOfCurrency DEF IsTask
<1>3. <<t, b>> \in Pairs /\ published \in 0..MaxPublished
  BY <1>2 DEF Pairs, TypeInv, FieldsTyped
<1>4. DOMAIN added \subseteq Pairs /\ \A p \in DOMAIN added : added[p] \in Rates
  BY <1>1, <1>3 DEF IsTask, ReverseRate, Quote, Rates
<1>5. left \subseteq Currencies \ {BaseOf(k)}
  BY <1>1 DEF IsTask
<1> HIDE DEF added, left
<1>6. /\ DOMAIN y = {"step", "left", "hash"} /\ y.step = x.step /\ y.left = left /\ y.hash = added
      /\ DOMAIN z = {"step", "left", "hash"} /\ z.step = x.step /\ z.left = left /\ z.hash = x.hash
  BY <1>1 DEF IsTask
<1>7. IsTask(k, y) /\ IsTask(k, z)
  BY <1>1, <1>4, <1>5, <1>6 DEF IsTask
<1> QED
  BY <1>6, <1>7 DEF added, left

\* A table that a hash is written into has rates.
LEMMA SetHashTyped ==
  ASSUME table \in [Pairs -> Rates \cup {NoRate}], NEW k \in Tasks, NEW x, IsTask(k, x)
  PROVE  /\ SetHash(x.hash) \in [Pairs -> Rates \cup {NoRate}]
         /\ \A p \in Pairs : SetHash(x.hash)[p] = IF p \in DOMAIN x.hash THEN x.hash[p] ELSE table[p]
BY DEF SetHash, IsTask

--------------------------------------------------------------------------------
(* Types. *)

LEMMA TypeInit == Init => TypeInv
<1> SUFFICES ASSUME Init PROVE TypeInv
  OBVIOUS
<1>1. TasksTyped
  BY NoTaskTyped DEF Init, TasksTyped
<1> QED
  BY <1>1, RatesAssumption, SMTT(30) DEF Init, TypeInv, FieldsTyped, CallerSteps

LEMMA TypeImplied == TypeInv => TypeOK
BY DEF TypeInv, FieldsTyped, TasksTyped, IsTask, TaskSteps, TypeOK

\* A refresh begins in a state of its type.
LEMMA BeginTyped ==
  ASSUME TypeInv, NEW c \in Callers, BeginRefresh(c)
  PROVE  /\ step' \in [Callers -> CallerSteps]
         /\ since' \in [Callers -> 0..MaxPublished]
         /\ alone' \in [Callers -> BOOLEAN]
<1> DEFINE first == \A d \in Callers \ {c} : ~Refreshing(d)
<1>1. first \in BOOLEAN
  OBVIOUS
<1>2. alone' = [alone EXCEPT ![c] = first]
  BY DEF BeginRefresh
<1> HIDE DEF first
<1>3. alone' \in [Callers -> BOOLEAN]
  BY <1>1, <1>2 DEF TypeInv, FieldsTyped
<1>4. step' \in [Callers -> CallerSteps] /\ since' \in [Callers -> 0..MaxPublished]
  BY DEF TypeInv, FieldsTyped, BeginRefresh, CallerGoes, CallerSteps
<1> QED
  BY <1>3, <1>4

\* Steps that leave the tasks alone.
LEMMA TypeQuiet ==
  ASSUME TypeInv,
         \/ Publish
         \/ \E c \in Callers :
              \/ Boot(c) \/ Cron(c) \/ Refuse(c) \/ FetchInitial(c)
              \/ \E p \in Pairs : GetExchangeRate(c, p)
         \/ UNCHANGED vars
  PROVE  TypeInv'
<1>1. CASE Publish
  BY <1>1, RatesAssumption DEF TypeInv, FieldsTyped, TasksTyped, Publish, redisVars, refreshVars
<1>2. ASSUME NEW c \in Callers, Boot(c) \/ Cron(c) PROVE TypeInv'
  BY <1>2, BeginTyped DEF TypeInv, FieldsTyped, TasksTyped, Boot, Cron, CallerGoes, CallerSteps,
                          redisVars
<1>3. ASSUME NEW c \in Callers, NEW p \in Pairs, GetExchangeRate(c, p) PROVE TypeInv'
  BY <1>3, BeginTyped
  DEF TypeInv, FieldsTyped, TasksTyped, GetExchangeRate, CallerGoes, CallerSteps, redisVars
<1>4. ASSUME NEW c \in Callers, Refuse(c) PROVE TypeInv'
  BY <1>4 DEF TypeInv, FieldsTyped, TasksTyped, Refuse, CallerGoes, CallerSteps, redisVars
<1>5. ASSUME NEW c \in Callers, FetchInitial(c) PROVE TypeInv'
  BY <1>5, RatesAssumption
  DEF TypeInv, FieldsTyped, TasksTyped, FetchInitial, Fault, CallerGoes, CallerSteps, redisVars
<1>6. CASE UNCHANGED vars
  BY <1>6 DEF TypeInv, FieldsTyped, TasksTyped, vars, redisVars, refreshVars
<1> QED
  BY <1>1, <1>2, <1>3, <1>4, <1>5, <1>6

--------------------------------------------------------------------------------
(* What a step does to the tasks and to the table: the three properties below rest on  *)
(* no more of the actions than this.                                                   *)

\* The publications a step of the refresh of d may get an answer from.
AnswersOf(d) == {published} \cup (IF step[d] = "store" THEN {initialData[d]} ELSE {})

\* What a task that adds has in its hash it had before, or the provider has just said; it
\* forgets nothing, and begins with every forward rate.
HashFollows(x, y, d, b) ==
  /\ \/ x.step = "add" /\ DOMAIN x.hash \subseteq DOMAIN y.hash
     \/ \A p \in Pairs : p[1] = b => p \in DOMAIN y.hash
  /\ \A p \in DOMAIN y.hash :
       \/ x.step = "add" /\ p \in DOMAIN x.hash /\ y.hash[p] = x.hash[p]
       \/ y.hash[p].pair = p /\ y.hash[p].at \in AnswersOf(d)

\* The move of the task o of d: it adds, or is done because it has written its hash.
Accounted(d, o) ==
  LET x == task[d][o]
      y == task'[d][o]
  IN  /\ y.step = "add" => HashFollows(x, y, d, BaseOf(o))
      /\ y.step = "done" => x.step = "done" \/ (x.step = "add" /\ table' = SetHash(x.hash))

AllAccounted == \A d \in Callers, o \in Tasks : Accounted(d, o)

\* A task that stays what it is.
LEMMA AccountedSame ==
  ASSUME NEW d, NEW o, task'[d][o] = task[d][o]
  PROVE  Accounted(d, o)
BY DEF Accounted, HashFollows

\* A task that neither adds nor is done.
LEMMA AccountedIdle ==
  ASSUME NEW d, NEW o, task'[d][o].step \notin {"add", "done"}
  PROVE  Accounted(d, o)
BY DEF Accounted

\* A task that has the provider's answer.
LEMMA AccountedAnswer ==
  ASSUME NEW d \in Callers, NEW o \in Tasks, NEW n \in AnswersOf(d), n \in 0..MaxPublished,
         NEW seen \in SUBSET Currencies, task'[d][o] = WithAnswer(o, n, seen)
  PROVE  Accounted(d, o)
BY AnswerHolds DEF Accounted, HashFollows

\* storeAllSupportedCurrency gives the Main task its answer.
LEMMA StoreCurrenciesTasks ==
  ASSUME TypeInv, NEW c \in Callers, StoreCurrencies(c)
  PROVE  TypeInv' /\ AllAccounted
<1>1. FieldsTyped'
  BY RatesAssumption DEF TypeInv, FieldsTyped, StoreCurrencies, Fault, CallerGoes, CallerSteps
<1>2. CASE UNCHANGED task
  BY <1>1, <1>2, AccountedSame DEF TypeInv, TasksTyped, AllAccounted
<1>3. CASE step[c] = "store" /\ TaskBecomes(c, Main, WithAnswer(Main, initialData[c], {}))
  <2>1. Main \in Tasks /\ initialData[c] \in 0..MaxPublished
    BY DEF Tasks, TypeInv, FieldsTyped
  <2>2. /\ TasksTyped'
        /\ task'[c][Main] = WithAnswer(Main, initialData[c], {})
        /\ \A d \in Callers, o \in Tasks : d # c \/ o # Main => task'[d][o] = task[d][o]
    BY <1>3, <2>1, AnswerHolds, TaskSet DEF TypeInv
  <2>3. Accounted(c, Main)
    BY <1>3, <2>1, <2>2, AccountedAnswer DEF AnswersOf
  <2> QED
    BY <1>1, <2>2, <2>3, AccountedSame DEF TypeInv, AllAccounted
<1> QED
  BY <1>2, <1>3 DEF StoreCurrencies, CallerGoes, TaskBecomes

\* A crash takes all tasks with it.
LEMMA CrashTasks ==
  ASSUME TypeInv, NEW c \in Callers, Crash(c)
  PROVE  TypeInv' /\ AllAccounted
<1> DEFINE f == [k \in Tasks |-> NoTask]
<1>1. /\ DOMAIN f = Tasks
      /\ \A k \in Tasks : IsTask(k, f[k]) /\ f[k].step \notin {"add", "done"}
  BY NoTaskTyped DEF NoTask
<1>2. TasksBecome(c, f)
  BY DEF Crash, TasksBecome
<1> HIDE DEF f
<1>3. /\ TasksTyped'
      /\ \A k \in Tasks : task'[c][k] = f[k]
      /\ \A d \in Callers \ {c}, o \in Tasks : task'[d][o] = task[d][o]
  BY <1>1, <1>2, TasksSet DEF TypeInv
<1>4. FieldsTyped'
  BY RatesAssumption DEF TypeInv, FieldsTyped, Crash, Fault, CallerSteps, redisVars
<1> QED
  BY <1>1, <1>3, <1>4, AccountedSame, AccountedIdle DEF TypeInv, AllAccounted

\* The head of a currency's task.
LEMMA FetchBaseTasks ==
  ASSUME TypeInv, NEW c \in Callers, NEW k \in Tasks, FetchBase(c, k)
  PROVE  TypeInv' /\ AllAccounted
<1>1. FieldsTyped'
  BY RatesAssumption, BaseOfCurrency
  DEF TypeInv, FieldsTyped, FetchBase, Fault, CallerSteps, redisVars
<1>2. CASE TaskBecomes(c, k, WithAnswer(k, published, visited[c]))
  <2>1. published \in 0..MaxPublished /\ visited[c] \in SUBSET Currencies
    BY DEF TypeInv, FieldsTyped
  <2>2. /\ TasksTyped'
        /\ task'[c][k] = WithAnswer(k, published, visited[c])
        /\ \A d \in Callers, o \in Tasks : d # c \/ o # k => task'[d][o] = task[d][o]
    BY <1>2, <2>1, AnswerHolds, TaskSet DEF TypeInv
  <2>3. Accounted(c, k)
    BY <2>1, <2>2, AccountedAnswer DEF AnswersOf
  <2> QED
    BY <1>1, <2>2, <2>3, AccountedSame DEF TypeInv, AllAccounted
<1>3. CASE task' = [task EXCEPT ![c][k].step = "failed"]
  <2> DEFINE x == [task[c][k] EXCEPT !.step = "failed"]
  <2>1. IsTask(k, x) /\ x.step = "failed"
    BY DEF TypeInv, TasksTyped, IsTask, TaskSteps
  <2>2. TaskBecomes(c, k, x)
    BY <1>3 DEF TypeInv, TasksTyped, TaskBecomes
  <2> HIDE DEF x
  <2>3. /\ TasksTyped'
        /\ task'[c][k] = x
        /\ \A d \in Callers, o \in Tasks : d # c \/ o # k => task'[d][o] = task[d][o]
    BY <2>1, <2>2, TaskSet DEF TypeInv
  <2> QED
    BY <1>1, <2>1, <2>3, AccountedSame, AccountedIdle DEF TypeInv, AllAccounted
<1> QED
  BY <1>2, <1>3 DEF FetchBase, TaskBecomes

\* The loop of a task.
LEMMA FetchReverseTasks ==
  ASSUME TypeInv, NEW c \in Callers, NEW k \in Tasks, FetchReverse(c, k)
  PROVE  TypeInv' /\ AllAccounted
<1> DEFINE x == task[c][k]
           b == BaseOf(k)
           left(t) == x.left \ (visited[c] \cup {t})
           added(t) == [p \in DOMAIN x.hash \cup {<<t, b>>} |->
                          IF p = <<t, b>> THEN ReverseRate(t, b, published) ELSE x.hash[p]]
           y(t) == [x EXCEPT !.left = left(t), !.hash = added(t)]
           z(t) == [x EXCEPT !.left = left(t)]
<1>1. PICK t \in x.left :
        task' = [task EXCEPT ![c][k] = y(t)] \/ task' = [task EXCEPT ![c][k].left = left(t)]
  BY DEF FetchReverse
<1>2. TaskBecomes(c, k, y(t)) \/ TaskBecomes(c, k, z(t))
  BY <1>1 DEF TypeInv, TasksTyped, TaskBecomes
<1>3. /\ IsTask(k, y(t)) /\ y(t).step = x.step /\ y(t).hash = added(t)
      /\ IsTask(k, z(t)) /\ z(t).step = x.step /\ z(t).hash = x.hash
  BY ReverseAdded
<1>4. x.step = "add" /\ IsTask(k, x)
  BY DEF FetchReverse, TypeInv, TasksTyped
<1>5. FieldsTyped'
  <2>1. \A s \in x.left : s \in Currencies
    BY <1>4 DEF IsTask
  <2> QED
    BY <2>1, RatesAssumption DEF TypeInv, FieldsTyped, FetchReverse, Fault, redisVars
<1>6. /\ DOMAIN x.hash \subseteq DOMAIN added(t)
      /\ \A p \in DOMAIN added(t) :
           \/ p \in DOMAIN x.hash /\ added(t)[p] = x.hash[p]
           \/ added(t)[p].pair = p /\ added(t)[p].at = published
  BY DEF ReverseRate, Quote
<1> HIDE DEF added, y, z
<1>7. PICK v \in {y(t), z(t)} : TaskBecomes(c, k, v)
  BY <1>2
<1>8. IsTask(k, v) /\ v.step = "add" /\ v.hash \in {added(t), x.hash}
  BY <1>3, <1>4, <1>7
<1>9. /\ TasksTyped'
      /\ task'[c][k] = v
      /\ \A d \in Callers, o \in Tasks : d # c \/ o # k => task'[d][o] = task[d][o]
  BY <1>7, <1>8, TaskSet DEF TypeInv
<1>10. Accounted(c, k)
  BY <1>4, <1>6, <1>8, <1>9 DEF Accounted, HashFollows, AnswersOf
<1> QED
  BY <1>5, <1>9, <1>10, AccountedSame DEF TypeInv, AllAccounted

\* The write that ends a task.
LEMMA StoreRatesTasks ==
  ASSUME TypeInv, NEW c \in Callers, NEW k \in Tasks, StoreRates(c, k)
  PROVE  TypeInv' /\ AllAccounted
<1> DEFINE x == task[c][k]
<1>1. IsTask(k, x) /\ x.step = "add"
  BY DEF TypeInv, TasksTyped, StoreRates
<1>2. table' \in {table, SetHash(x.hash)}
  BY DEF StoreRates
<1>3. FieldsTyped'
  <2>1. table' \in [Pairs -> Rates \cup {NoRate}]
    BY <1>1, <1>2, SetHashTyped DEF TypeInv, FieldsTyped
  <2> QED
    BY <2>1, RatesAssumption
    DEF TypeInv, FieldsTyped, StoreRates, Fault, CallerGoes, CallerSteps
<1>4. CASE TasksBecome(c, FannedOut(c))
  <2>1. /\ DOMAIN FannedOut(c) = Tasks
        /\ \A o \in Tasks : IsTask(o, FannedOut(c)[o]) /\ FannedOut(c)[o].step \notin {"add", "done"}
    BY NoTaskTyped, NoTaskStep DEF FannedOut, TaskSteps, NoTask
  <2>2. /\ TasksTyped'
        /\ \A o \in Tasks : task'[c][o] = FannedOut(c)[o]
        /\ \A d \in Callers \ {c}, o \in Tasks : task'[d][o] = task[d][o]
    BY <1>4, <2>1, TasksSet DEF TypeInv
  <2> QED
    BY <1>3, <2>1, <2>2, AccountedSame, AccountedIdle DEF TypeInv, AllAccounted
<1>5. ASSUME NEW s \in {"done", "failed"}, TaskBecomes(c, k, [NoTask EXCEPT !.step = s]),
             s = "done" => table' = SetHash(x.hash)
      PROVE  TypeInv' /\ AllAccounted
  <2> DEFINE v == [NoTask EXCEPT !.step = s]
  <2>1. IsTask(k, v) /\ v.step = s /\ TaskBecomes(c, k, v)
    BY <1>5, NoTaskStep DEF TaskSteps
  <2> HIDE DEF v
  <2>2. /\ TasksTyped'
        /\ task'[c][k].step = s
        /\ \A d \in Callers, o \in Tasks : d # c \/ o # k => task'[d][o] = task[d][o]
    BY <2>1, TaskSet DEF TypeInv
  <2>3. Accounted(c, k)
    BY <1>1, <1>5, <2>2 DEF Accounted
  <2> QED
    BY <1>3, <2>2, <2>3, AccountedSame DEF TypeInv, AllAccounted
<1> QED
  BY <1>4, <1>5 DEF StoreRates, TaskBecomes, TasksBecome

\* A field of the table changes only to what some task has for it.
TableFollows ==
  \A p \in Pairs :
    \/ table'[p] = table[p]
    \/ \E c \in Callers, k \in Tasks :
         /\ task[c][k].step = "add" /\ p \in DOMAIN task[c][k].hash
         /\ table'[p] = task[c][k].hash[p]

\* The steps of a task.
LEMMA TaskEffects ==
  ASSUME TypeInv, NEW c \in Callers, NEW k \in Tasks, TaskStep(c, k)
  PROVE  TypeInv' /\ AllAccounted /\ TableFollows
<1>1. CASE FetchBase(c, k)
  BY <1>1, FetchBaseTasks DEF TableFollows, FetchBase, redisVars
<1>2. CASE FetchReverse(c, k)
  BY <1>2, FetchReverseTasks DEF TableFollows, FetchReverse, redisVars
<1>3. CASE StoreRates(c, k)
  <2>1. table' \in {table, SetHash(task[c][k].hash)} /\ task[c][k].step = "add"
    BY <1>3 DEF StoreRates
  <2>2. TableFollows
    BY <2>1, SetHashTyped DEF TableFollows, TypeInv, FieldsTyped, TasksTyped
  <2> QED
    BY <1>3, <2>2, StoreRatesTasks
<1> QED
  BY <1>1, <1>2, <1>3 DEF TaskStep

\* Every step keeps the types and is accounted for.
LEMMA Effects ==
  ASSUME TypeInv, [Next]_vars
  PROVE  TypeInv' /\ AllAccounted /\ TableFollows
<1>1. ASSUME NEW c \in Callers, NEW k \in Tasks, TaskStep(c, k)
      PROVE  TypeInv' /\ AllAccounted /\ TableFollows
  BY <1>1, TaskEffects
<1>2. ASSUME NEW c \in Callers, StoreCurrencies(c) \/ Crash(c)
      PROVE  TypeInv' /\ AllAccounted /\ TableFollows
  BY <1>2, StoreCurrenciesTasks, CrashTasks DEF TableFollows, StoreCurrencies, Crash, redisVars
<1>3. CASE \/ Publish
           \/ \E c \in Callers :
                \/ Boot(c) \/ Cron(c) \/ Refuse(c) \/ FetchInitial(c)
                \/ \E p \in Pairs : GetExchangeRate(c, p)
           \/ UNCHANGED vars
  <2>1. UNCHANGED <<task, table>>
    BY <1>3
    DEF Publish, Boot, Cron, Refuse, FetchInitial, GetExchangeRate, vars, refreshVars, redisVars
  <2> QED
    BY <1>3, <2>1, TypeQuiet, AccountedSame DEF AllAccounted, TableFollows
<1> QED
  BY <1>1, <1>2, <1>3 DEF Next, CallerStep, Rest

\* How a caller gets from step to step, and with what answer.
CallerMoves(c) ==
  \/ step'[c] = step[c] /\ initialData'[c] = initialData[c]
  \/ step[c] = "new" /\ step'[c] \in {"fetch", "answered", "skipped"}
  \/ step[c] = "fetch" /\ step'[c] = "store" /\ initialData'[c] = published
  \/ step[c] = "store" /\ step'[c] = "add"
  \/ step[c] \in {"add", "fan"} /\ step'[c] \in {"fan", "refreshed"} /\ \E k \in Tasks : StoreRates(c, k)
  \/ step[c] = "refreshed" /\ step'[c] = "refused"
  \/ step'[c] = "failed" /\ faults' > 0

LEMMA CallerEffects ==
  ASSUME TypeInv, [Next]_vars
  PROVE  \A c \in Callers : CallerMoves(c)
<1> SUFFICES ASSUME NEW c \in Callers PROVE CallerMoves(c)
  OBVIOUS
<1> USE DEF CallerMoves, CallerGoes, TypeInv, FieldsTyped
<1>1. ASSUME NEW d \in Callers, Boot(d) \/ Cron(d) \/ Refuse(d) PROVE CallerMoves(c)
  BY <1>1 DEF Boot, Cron, Refuse, BeginRefresh
<1>2. ASSUME NEW d \in Callers, NEW p \in Pairs, GetExchangeRate(d, p) PROVE CallerMoves(c)
  BY <1>2 DEF GetExchangeRate, BeginRefresh
<1>3. ASSUME NEW d \in Callers, FetchInitial(d) \/ StoreCurrencies(d) PROVE CallerMoves(c)
  BY <1>3 DEF FetchInitial, StoreCurrencies, Fault
<1>4. ASSUME NEW d \in Callers, NEW k \in Tasks, StoreRates(d, k) PROVE CallerMoves(c)
  BY <1>4 DEF StoreRates, Fault
<1>5. ASSUME NEW d \in Callers, NEW k \in Tasks, FetchBase(d, k) \/ FetchReverse(d, k)
      PROVE  CallerMoves(c)
  <2>1. CASE FetchBase(d, k)
    BY <2>1 DEF FetchBase, Fault
  <2>2. CASE FetchReverse(d, k)
    BY <2>2 DEF FetchReverse
  <2> QED
    BY <1>5, <2>1, <2>2
<1>6. ASSUME NEW d \in Callers, Crash(d) PROVE CallerMoves(c)
  BY <1>6 DEF Crash, Fault
<1>7. CASE Publish \/ UNCHANGED vars
  BY <1>7 DEF Publish, vars, refreshVars
<1> QED
  BY <1>1, <1>2, <1>3, <1>4, <1>5, <1>6, <1>7 DEF Next, CallerStep, TaskStep, Rest

\* Every reachable state is well typed.
THEOREM RatesTypeCorrect == Spec => []TypeOK
<1>1. TypeInv /\ [Next]_vars => TypeInv'
  BY Effects
<1> QED
  BY <1>1, TypeInit, TypeImplied, PTL DEF Spec

--------------------------------------------------------------------------------
(* Genuine rates. *)

GenuineInv ==
  /\ TypeInv /\ GenuineRates
  /\ \A c \in Callers, k \in Tasks : task[c][k].step = "add" =>
       \A p \in DOMAIN task[c][k].hash : task[c][k].hash[p].pair = p

\* A rate of the table was quoted for its pair, however the refreshes of the processes (and
\* the tasks of refreshAllExchangeRates) overwrite one another.
THEOREM RatesAreGenuine == Spec => []GenuineRates
<1>1. Init => GenuineInv
  BY TypeInit DEF Init, GenuineInv, GenuineRates, NoTask
<1>2. ASSUME GenuineInv, [Next]_vars PROVE GenuineInv'
  <2>1. TypeInv' /\ AllAccounted /\ TableFollows
    BY <1>2, Effects DEF GenuineInv
  <2>2. GenuineRates'
    BY <1>2, <2>1 DEF GenuineInv, GenuineRates, TableFollows
  <2>3. ASSUME NEW c \in Callers, NEW k \in Tasks, task'[c][k].step = "add",
               NEW p \in DOMAIN task'[c][k].hash
        PROVE  task'[c][k].hash[p].pair = p
    BY <1>2, <2>1, <2>3 DEF GenuineInv, AllAccounted, Accounted, HashFollows
  <2> QED
    BY <2>1, <2>2, <2>3 DEF GenuineInv
<1> QED
  BY <1>1, <1>2, PTL DEF Spec, GenuineInv

--------------------------------------------------------------------------------
(* Complete refreshes. *)

\* A task that adds has every forward rate of its base; one that is done has stored them.
AddsForward ==
  \A c \in Callers, k \in Tasks : task[c][k].step = "add" =>
    \A p \in Pairs : p[1] = BaseOf(k) => p \in DOMAIN task[c][k].hash
DoneStored ==
  \A c \in Callers, o \in Currencies : task[c][o].step = "done" =>
    \A p \in Pairs : p[1] = o => table[p] # NoRate

CompleteInv == TypeInv /\ RefreshIsComplete /\ AddsForward /\ DoneStored

\* No field is ever deleted.
LEMMA FieldsStay ==
  ASSUME TypeInv, TableFollows, NEW p \in Pairs, table[p] # NoRate
  PROVE  table'[p] # NoRate
BY NoRateAssumption DEF TypeInv, TasksTyped, IsTask, TableFollows

\* A refresh resolves when its last task has stored its rates.
LEMMA LastStored ==
  ASSUME TypeInv, [Next]_vars, NEW c \in Callers, Refreshed(c)', ~Refreshed(c)
  PROVE  \E k \in Currencies : /\ task[c][k].step = "add" /\ table' = SetHash(task[c][k].hash)
                               /\ LastTask(c, k)
<1> USE DEF Refreshed
<1>1. ASSUME NEW d \in Callers, NEW k \in Tasks, StoreRates(d, k) PROVE d = c /\ k \in Currencies
  BY <1>1 DEF StoreRates, CallerGoes, TypeInv, FieldsTyped, Tasks
<1>2. ASSUME NEW k \in Currencies, StoreRates(c, k)
      PROVE  /\ task[c][k].step = "add" /\ table' = SetHash(task[c][k].hash)
             /\ LastTask(c, k)
  BY <1>2, RatesAssumption DEF StoreRates, TypeInv, FieldsTyped
<1>3. \E k \in Tasks : StoreRates(c, k)
  BY CallerEffects DEF CallerMoves
<1> QED
  BY <1>1, <1>2, <1>3

\* Once a refresh has resolved, the table is complete for good: each currency's task either
\* has stored every forward rate of the currency or made the refresh fail.
LEMMA CompleteStep == CompleteInv /\ [Next]_vars => CompleteInv'
<1> SUFFICES ASSUME CompleteInv, [Next]_vars PROVE CompleteInv'
  OBVIOUS
<1> USE DEF CompleteInv
<1>1. TypeInv' /\ AllAccounted /\ TableFollows
  BY Effects
<1>2. AddsForward'
  BY <1>1 DEF AddsForward, AllAccounted, Accounted, HashFollows
<1>3. ASSUME NEW c \in Callers, NEW k \in Tasks, task[c][k].step = "add",
             table' = SetHash(task[c][k].hash), NEW p \in Pairs, p[1] = BaseOf(k)
      PROVE  table'[p] # NoRate
  <2>1. p \in DOMAIN task[c][k].hash /\ task[c][k].hash[p] \in Rates
    BY <1>3 DEF AddsForward, TypeInv, TasksTyped, IsTask
  <2> QED
    BY <1>3, <2>1, NoRateAssumption DEF SetHash
<1>4. ASSUME NEW c \in Callers, NEW o \in Currencies, task'[c][o].step = "done",
             NEW p \in Pairs, p[1] = o
      PROVE  table'[p] # NoRate
  BY <1>1, <1>3, <1>4, BaseOfTask, FieldsStay DEF AllAccounted, Accounted, DoneStored
<1>5. ASSUME NEW c \in Callers, Refreshed(c)', NEW p \in Pairs PROVE table'[p] # NoRate
  <2>1. CASE Refreshed(c)
    BY <1>1, <2>1, FieldsStay DEF RefreshIsComplete, Complete
  <2>2. CASE ~Refreshed(c)
    <3>1. PICK k \in Currencies : /\ task[c][k].step = "add" /\ table' = SetHash(task[c][k].hash)
                                  /\ LastTask(c, k)
      BY <1>5, <2>2, LastStored
    <3>2. CASE p[1] = k
      BY <1>3, <3>1, <3>2, BaseOfTask
    <3>3. CASE p[1] # k
      BY <1>1, <3>1, <3>3, FieldsStay, PairForm DEF LastTask, DoneStored
    <3> QED
      BY <3>2, <3>3
  <2> QED
    BY <2>1, <2>2
<1> QED
  BY <1>1, <1>2, <1>4, <1>5 DEF DoneStored, RefreshIsComplete, Complete

LEMMA CompleteInit == Init => CompleteInv
BY TypeInit, BaseOfTask
DEF Init, CompleteInv, RefreshIsComplete, Refreshed, AddsForward, DoneStored, NoTask

\* A refreshAllExchangeRates that resolves leaves no pair of currencies without a rate.
THEOREM RefreshesAreComplete == Spec => []RefreshIsComplete
BY CompleteInit, CompleteStep, PTL DEF Spec, CompleteInv

--------------------------------------------------------------------------------
(* Initialized. *)

\* Without a fault, currencies were stored by a refresh that still goes on or has completed
\* the table.
InitializedInv ==
  /\ CompleteInv
  /\ faults = 0 /\ supported # {} => Complete \/ \E c \in Callers : step[c] \in {"add", "fan"}

LEMMA InitializedStep == InitializedInv /\ [Next]_vars => InitializedInv'
<1> SUFFICES ASSUME InitializedInv, [Next]_vars, faults' = 0, supported' # {}, ~Complete'
             PROVE  \E c \in Callers : step'[c] \in {"add", "fan"}
  BY CompleteStep DEF InitializedInv
<1> USE DEF InitializedInv, CompleteInv
<1>1. CompleteInv' /\ TableFollows /\ ~Complete
  BY Effects, CompleteStep, FieldsStay DEF Complete
<1>2. faults = 0
  <2>1. UNCHANGED faults \/ Fault
    <3>1. ASSUME NEW c \in Callers, NEW k \in Tasks, TaskStep(c, k) PROVE UNCHANGED faults \/ Fault
      BY <3>1 DEF TaskStep, FetchBase, FetchReverse, StoreRates
    <3>2. ASSUME NEW c \in Callers, CallerStep(c) \/ Crash(c) PROVE UNCHANGED faults \/ Fault
      BY <3>2 DEF CallerStep, FetchInitial, StoreCurrencies, Refuse, Crash
    <3> QED
      BY <3>1, <3>2 DEF Next, Publish, Boot, Cron, GetExchangeRate, Rest, vars
  <2> QED
    BY <2>1, RatesAssumption DEF TypeInv, FieldsTyped, Fault
<1>3. ASSUME NEW c \in Callers, step[c] \in {"add", "fan"} PROVE step'[c] \in {"add", "fan"}
  BY <1>1, <1>3, CallerEffects DEF CallerMoves, RefreshIsComplete, Refreshed
<1>4. CASE UNCHANGED supported
  BY <1>1, <1>2, <1>3, <1>4
<1>5. ASSUME NEW c \in Callers, StoreCurrencies(c) PROVE step'[c] = "add"
  BY <1>5 DEF StoreCurrencies, CallerGoes, Fault, TypeInv, FieldsTyped
<1>6. UNCHANGED supported \/ \E c \in Callers : StoreCurrencies(c)
  BY DEF Next, CallerStep, TaskStep, Publish, Boot, Cron, GetExchangeRate,
         FetchInitial, Refuse, FetchBase, FetchReverse, StoreRates, Crash, Rest, vars, redisVars
<1> QED
  BY <1>4, <1>5, <1>6

\* onModuleInit may take supported currencies for a table, if nothing went wrong and no
\* refresh is under way.
THEOREM CurrenciesMeanRates == Spec => []InitializedMeansRates
<1>1. Init => InitializedInv
  BY CompleteInit DEF Init, InitializedInv
<1>2. InitializedInv => InitializedMeansRates
  BY DEF InitializedInv, InitializedMeansRates, Refreshing
<1> QED
  BY <1>1, <1>2, InitializedStep, PTL DEF Spec

--------------------------------------------------------------------------------
(* Nothing older.  What any refresh has in hand is not older than a refresh that began *)
(* while no other was under way.                                                       *)

\* What the refreshes have in hand is from publication s or a later one.
HeldSince(s) ==
  /\ \A d \in Callers : step[d] = "store" => initialData[d] >= s
  /\ \A d \in Callers, k \in Tasks : task[d][k].step = "add" =>
       \A p \in DOMAIN task[d][k].hash : task[d][k].hash[p].at >= s

\* So are the rates that the tasks of c have stored, and all rates once it has resolved.
StoredSince(c) ==
  /\ \A o \in Currencies : task[c][o].step = "done" =>
       \A p \in Pairs : p[1] = o => table[p].at >= since[c]
  /\ Refreshed(c) => \A p \in Pairs : table[p].at >= since[c]

\* A refresh that has not begun has no tasks.
NewHasNone ==
  \A c \in Callers : step[c] = "new" =>
    ~alone[c] /\ \A k \in Tasks : task[c][k].step = "none"

OlderInv ==
  /\ CompleteInv /\ NewHasNone
  /\ \A c \in Callers : alone[c] =>
       since[c] <= published /\ HeldSince(since[c]) /\ StoredSince(c)

\* When a refresh begins is noted once.
LEMMA SinceKept ==
  ASSUME TypeInv, [Next]_vars, NEW c \in Callers
  PROVE  \/ BeginRefresh(c) /\ UNCHANGED <<task, published>>
         \/ /\ since'[c] = since[c] /\ alone'[c] = alone[c]
            /\ published' >= published
<1> USE DEF TypeInv, FieldsTyped, BeginRefresh
<1>1. ASSUME NEW d \in Callers, Boot(d) \/ Cron(d)
      PROVE  \/ BeginRefresh(c) /\ UNCHANGED <<task, published>>
             \/ since'[c] = since[c] /\ alone'[c] = alone[c] /\ published' = published
  BY <1>1 DEF Boot, Cron
<1>2. ASSUME NEW d \in Callers, NEW p \in Pairs, GetExchangeRate(d, p)
      PROVE  \/ BeginRefresh(c) /\ UNCHANGED <<task, published>>
             \/ since'[c] = since[c] /\ alone'[c] = alone[c] /\ published' = published
  BY <1>2 DEF GetExchangeRate
<1>3. ASSUME NEW d \in Callers, NEW k \in Tasks, TaskStep(d, k)
      PROVE  UNCHANGED <<since, alone, published>>
  BY <1>3 DEF TaskStep, FetchBase, FetchReverse, StoreRates
<1>4. ASSUME NEW d \in Callers, CallerStep(d) \/ Crash(d)
      PROVE  UNCHANGED <<since, alone, published>>
  BY <1>4 DEF CallerStep, FetchInitial, StoreCurrencies, Refuse, Crash
<1>5. CASE Publish \/ UNCHANGED vars
  BY <1>5 DEF Publish, vars, refreshVars
<1> QED
  BY <1>1, <1>2, <1>3, <1>4, <1>5 DEF Next, Rest

\* A step adds nothing older to what the refreshes have in hand.
LEMMA HeldStep ==
  ASSUME TypeInv, [Next]_vars, NEW s \in Nat, s <= published, HeldSince(s)
  PROVE  HeldSince(s)'
<1>1. AllAccounted
  BY Effects
<1>2. ASSUME NEW d \in Callers, step'[d] = "store" PROVE initialData'[d] >= s
  BY <1>2, CallerEffects DEF CallerMoves, HeldSince
<1>3. ASSUME NEW d \in Callers, NEW k \in Tasks, task'[d][k].step = "add",
             NEW p \in DOMAIN task'[d][k].hash
      PROVE  task'[d][k].hash[p].at >= s
  <2>1. \A n \in AnswersOf(d) : n >= s
    BY DEF AnswersOf, HeldSince
  <2>2. HashFollows(task[d][k], task'[d][k], d, BaseOf(k))
    BY <1>1, <1>3 DEF AllAccounted, Accounted
  <2> QED
    BY <1>3, <2>1, <2>2 DEF HashFollows, HeldSince
<1> QED
  BY <1>2, <1>3 DEF HeldSince

\* A table that is not older stays so.
LEMMA FieldsStaySince ==
  ASSUME TypeInv, TableFollows, NEW s \in Nat, HeldSince(s), NEW p \in Pairs, table[p].at >= s
  PROVE  table'[p].at >= s
BY DEF TableFollows, HeldSince

LEMMA StoredStep ==
  ASSUME OlderInv, [Next]_vars, NEW c \in Callers, alone[c], since'[c] = since[c]
  PROVE  StoredSince(c)'
<1> USE DEF OlderInv, CompleteInv
<1>1. AllAccounted /\ TableFollows
  BY Effects
<1>2. HeldSince(since[c]) /\ since[c] \in Nat
  BY DEF TypeInv, FieldsTyped
<1>3. ASSUME NEW k \in Tasks, task[c][k].step = "add",
             table' = SetHash(task[c][k].hash), NEW p \in Pairs, p[1] = BaseOf(k)
      PROVE  table'[p].at >= since[c]
  <2>1. p \in DOMAIN task[c][k].hash /\ task[c][k].hash[p].at >= since[c]
    BY <1>2, <1>3 DEF AddsForward, HeldSince
  <2> QED
    BY <1>3, <2>1 DEF SetHash
<1>4. ASSUME NEW o \in Currencies, task'[c][o].step = "done", NEW p \in Pairs, p[1] = o
      PROVE  table'[p].at >= since[c]
  BY <1>1, <1>2, <1>3, <1>4, BaseOfTask, FieldsStaySince DEF AllAccounted, Accounted, StoredSince
<1>5. ASSUME Refreshed(c)', NEW p \in Pairs PROVE table'[p].at >= since[c]
  <2>1. CASE Refreshed(c)
    BY <1>1, <1>2, <2>1, FieldsStaySince DEF StoredSince
  <2>2. CASE ~Refreshed(c)
    <3>1. PICK k \in Currencies : /\ task[c][k].step = "add" /\ table' = SetHash(task[c][k].hash)
                                  /\ LastTask(c, k)
      BY <1>5, <2>2, LastStored
    <3>2. CASE p[1] = k
      BY <1>3, <3>1, <3>2, BaseOfTask
    <3>3. CASE p[1] # k
      BY <1>1, <1>2, <3>1, <3>3, FieldsStaySince, PairForm DEF LastTask, StoredSince
    <3> QED
      BY <3>2, <3>3
  <2> QED
    BY <2>1, <2>2
<1> QED
  BY <1>4, <1>5 DEF StoredSince

\* A refresh that begins alone finds nothing in anybody's hand.
LEMMA BeginsAlone ==
  ASSUME OlderInv, [Next]_vars, NEW c \in Callers, BeginRefresh(c), UNCHANGED <<task, published>>,
         alone'[c]
  PROVE  since'[c] <= published' /\ HeldSince(since[c])' /\ StoredSince(c)'
<1> USE DEF OlderInv, CompleteInv, TypeInv, FieldsTyped
<1>1. since'[c] = published /\ step[c] = "new" /\ step'[c] = "fetch"
  BY DEF BeginRefresh, CallerGoes
<1>2. \A d \in Callers \ {c} : ~Refreshing(d)
  BY DEF BeginRefresh
<1>3. \A d \in Callers \ {c} : step'[d] = step[d] /\ step[d] # "store"
  BY <1>2 DEF BeginRefresh, CallerGoes, Refreshing
<1>4. \A d \in Callers, k \in Tasks : task'[d][k].step # "add"
  BY <1>1, <1>2 DEF NewHasNone, Refreshing, Busy
<1>5. \A o \in Currencies : task'[c][o].step # "done"
  BY <1>1, BaseOfTask DEF NewHasNone
<1>6. since'[c] <= published'
  BY <1>1
<1>7. HeldSince(since[c])'
  BY <1>1, <1>3, <1>4 DEF HeldSince
<1>8. StoredSince(c)'
  BY <1>1, <1>5 DEF StoredSince, Refreshed
<1> QED
  BY <1>6, <1>7, <1>8

\* Only a refresh has tasks.
LEMMA NewStep ==
  ASSUME TypeInv, NewHasNone, [Next]_vars
  PROVE  NewHasNone'
<1> SUFFICES ASSUME NEW c \in Callers, step'[c] = "new"
             PROVE  ~alone'[c] /\ \A k \in Tasks : task'[c][k].step = "none"
  BY DEF NewHasNone
<1>1. step[c] = "new" /\ ~alone[c] /\ \A k \in Tasks : task[c][k].step = "none"
  BY CallerEffects DEF CallerMoves, NewHasNone
<1>2. ~BeginRefresh(c)
  BY DEF BeginRefresh, CallerGoes, TypeInv, FieldsTyped
<1>3. ASSUME NEW d \in Callers, NEW k \in Tasks, TaskStep(d, k) PROVE task'[c] = task[c]
  <2>1. d # c
    BY <1>1, <1>3 DEF TaskStep, FetchBase, FetchReverse, StoreRates
  <2> QED
    BY <1>3, <2>1 DEF TaskStep, FetchBase, FetchReverse, StoreRates, TypeInv, TasksTyped
<1>4. ASSUME NEW d \in Callers, CallerStep(d) PROVE task'[c] = task[c]
  BY <1>1, <1>4
  DEF CallerStep, FetchInitial, StoreCurrencies, Refuse, CallerGoes, TypeInv, TasksTyped
<1>5. ASSUME NEW d \in Callers, Crash(d) PROVE task'[c] = task[c]
  <2>1. d # c
    BY <1>5 DEF Crash, TypeInv, FieldsTyped
  <2> QED
    BY <1>5, <2>1 DEF Crash, TypeInv, TasksTyped
<1>6. task'[c] = task[c]
  BY <1>3, <1>4, <1>5 DEF Next, Publish, Boot, Cron, GetExchangeRate, Rest, vars, refreshVars
<1> QED
  BY <1>1, <1>2, <1>6, SinceKept

LEMMA OlderStep == OlderInv /\ [Next]_vars => OlderInv'
<1> SUFFICES ASSUME OlderInv, [Next]_vars PROVE OlderInv'
  OBVIOUS
<1>1. CompleteInv' /\ TypeInv /\ AllAccounted
  BY CompleteStep, Effects DEF OlderInv, CompleteInv
<1>2. NewHasNone'
  BY <1>1, NewStep DEF OlderInv
<1>3. ASSUME NEW c \in Callers, alone'[c]
      PROVE  since'[c] <= published' /\ HeldSince(since[c])' /\ StoredSince(c)'
  <2>1. CASE BeginRefresh(c) /\ UNCHANGED <<task, published>>
    BY <1>3, <2>1, BeginsAlone
  <2>2. CASE since'[c] = since[c] /\ alone'[c] = alone[c] /\ published' >= published
    <3>1. since[c] \in Nat /\ published \in Nat /\ published' \in Nat
      BY <1>1 DEF CompleteInv, TypeInv, FieldsTyped
    <3>2. alone[c] /\ since[c] <= published /\ HeldSince(since[c])
      BY <1>3, <2>2 DEF OlderInv
    <3>3. HeldSince(since[c])'
      BY <1>1, <2>2, <3>1, <3>2, HeldStep
    <3> QED
      BY <2>2, <3>1, <3>2, <3>3, StoredStep
  <2> QED
    BY <1>1, <2>1, <2>2, SinceKept
<1> QED
  BY <1>1, <1>2, <1>3 DEF OlderInv

\* A refresh that began alone replaces all that is older, whatever the tasks of failed or
\* later refreshes still write.
THEOREM RatesAreRefreshed == Spec => []NothingOlder
<1>1. Init => OlderInv
  BY CompleteInit DEF Init, OlderInv, NewHasNone, NoTask
<1>2. OlderInv => NothingOlder
  BY DEF OlderInv, StoredSince, NothingOlder
<1> QED
  BY <1>1, <1>2, OlderStep, PTL DEF Spec
================================================================================
