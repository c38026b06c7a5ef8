-------------------------- MODULE Weeks3to4Proofs --------------------------
(***************************************************************************)
(* The programs that share a run in weeks 3 and 4: the errgroup pool over  *)
(* the gauge of Metrics, the three ways of counting and the fan-out over   *)
(* channels, for any number of goroutines, the calls that time out, for    *)
(* any number of calls, and the cancellation scenarios for any times; each *)
(* by itself and as one of the run's programs.                             *)
(***************************************************************************)
EXTENDS MCWeeks3to4, MetricsProofs

\* The arguments n and limit, and the goroutines numbered as they are started.
Arguments == N \in Nat /\ Limit \in Nat /\ Tasks = 1..N

-----------------------------------------------------------------------------
(* The run takes one program at a time, and each takes its own steps.      *)
LEMMA Begun == ASSUME Init
               PROVE  /\ program = "errgroup" => Group!Init
                      /\ program = "counters" => Count!Init
                      /\ program = "contexts" => Ctx!Init
                      /\ program = "channels" => Chan!Init
                      /\ program = "select" => Sel!Init
  BY DEF Init

LEMMA GoesOn == ASSUME [Next]_vars
                PROVE  /\ program' = program
                       /\ program = "errgroup" => [Group!Next]_(Group!vars)
                       /\ program = "counters" => [Count!Next]_(Count!vars)
                       /\ program = "contexts" => [Ctx!Next]_(Ctx!vars)
                       /\ program = "channels" => [Chan!Next]_(Chan!vars)
                       /\ program = "select" => [Sel!Next]_(Sel!vars)
  <1>1. CASE UNCHANGED vars
    BY <1>1 DEF vars, week3, chanOnly, selOnly, week4, poolOnly, groupOnly, countOnly, ctxOnly,
                Group!vars, Group!mainVars, Group!mvars, Count!vars, Ctx!vars,
                Chan!vars, Chan!pool, Sel!vars
  <1>2. CASE Step \/ Outside
    BY <1>2 DEF Step, Outside, Group!Next, Count!Next, Ctx!Next, Chan!Next, Sel!Next
  <1> QED BY <1>1, <1>2 DEF Next, Finished

-----------------------------------------------------------------------------
(* A goroutine that has started and not ended. *)
Live == {t \in Tasks : pc[t] \notin {"idle", "ended"}}

\* Both programs start their goroutines in turn and wait for all of them.
Started == /\ wg = Cardinality(Live)
           /\ \A t \in Tasks : pc[t] = "idle" <=> t > spawned
           /\ main \in {"wait", "returned"} => spawned = N
           /\ main = "returned" => wg = 0

(* When wg.Wait has returned, every goroutine has run to its end. *)
LEMMA AllEnded ==
  ASSUME Arguments, Started, spawned \in 0..N, main \in {"wait", "returned"}, wg = 0
  PROVE  \A t \in Tasks : pc[t] = "ended"
  <1>1. Live = {}
    BY TaskCount DEF Live, Started
  <1> QED BY <1>1 DEF Arguments, Live, Started

(* wg.Add before the goroutine is started ... *)
LEMMA StartOne ==
  ASSUME Arguments, Started, spawned \in 0..N, spawned < N, spawned' = spawned + 1,
         wg' = wg + 1, main' = main, main \notin {"wait", "returned"},
         pc'[spawned + 1] \notin {"idle", "ended"},
         \A t \in Tasks : t # spawned + 1 => pc'[t] = pc[t]
  PROVE  Started' /\ spawned + 1 \in Tasks
  <1>1. spawned + 1 \in Tasks /\ pc[spawned + 1] = "idle"
    BY DEF Arguments, Started
  <1>2. Live' = Live \cup {spawned + 1} /\ spawned + 1 \in Tasks \ Live /\ Live \in SUBSET Tasks
    BY <1>1 DEF Live
  <1>3. wg' = Cardinality(Live')
    BY <1>2, TaskCount DEF Started
  <1>4. \A t \in Tasks : pc'[t] = "idle" <=> t > spawned'
    BY <1>1 DEF Arguments, Started
  <1> QED BY <1>1, <1>3, <1>4 DEF Started

(* ... wg.Done when it ends, once ... *)
LEMMA EndOne ==
  ASSUME Started, UNCHANGED <<main, spawned>>, wg' = wg - 1,
         DOMAIN pc = Tasks,
         NEW t \in Tasks, pc[t] \notin {"idle", "ended"}, pc' = [pc EXCEPT ![t] = "ended"]
  PROVE  Started'
  <1>1. Live' = Live \ {t} /\ t \in Live /\ Live \in SUBSET Tasks
    BY DEF Live
  <1>2. wg' = Cardinality(Live') /\ wg # 0
    BY <1>1, TaskCount DEF Started
  <1>3. \A u \in Tasks : pc'[u] = "idle" <=> u > spawned'
    BY DEF Started
  <1> QED BY <1>2, <1>3 DEF Started

(* ... and neither between the two. *)
LEMMA GoOn ==
  ASSUME Started, UNCHANGED <<spawned, wg>>,
         main' = main \/ (main' = "wait" /\ spawned = N) \/ (main = "wait" /\ wg = 0),
         \A t \in Tasks : (pc'[t] = "idle" <=> pc[t] = "idle") /\ (pc'[t] = "ended" <=> pc[t] = "ended")
  PROVE  Started'
  <1>1. Live' = Live
    BY DEF Live
  <1> QED BY <1>1 DEF Started

(* wg never counts more than the goroutines there are. *)
LEMMA WaitedBound == ASSUME Arguments, Started PROVE wg \in 0..N
  <1>1. Live \in SUBSET Tasks /\ Tasks \in SUBSET Tasks
    BY DEF Live
  <1>2. Cardinality(Tasks) = N
    BY FS_Interval DEF Arguments
  <1> QED BY <1>1, <1>2, TaskCount DEF Arguments, Started

-----------------------------------------------------------------------------
(***************************************************************************)
(* RacyCount, MutexCount and AtomicCount.                                  *)
(***************************************************************************)
CountTypes == /\ kind \in Count!Kinds
              /\ main \in {"spawn", "wait", "returned"} /\ spawned \in 0..N
              /\ pc \in [Tasks -> {"idle", "start", "load", "store", "unlock",
                                   "done", "ended"}]
              /\ counter \in Nat /\ reg \in [Tasks -> Nat]
              /\ mu \in Tasks \cup {Count!NoOne}
              /\ stored = {c \in Tasks : pc[c] \in {"unlock", "done", "ended"}}

\* Who is between a load and a store: nobody, with the atomic addition, and
\* the holder of the mutex alone, whose register is the counter still.
Exclusive == /\ kind = "atomic" => \A c \in Tasks : pc[c] \notin {"load", "store", "unlock"}
             /\ kind = "mutex" => /\ \A c \in Tasks : pc[c] \in {"load", "store", "unlock"} => mu = c
                                  /\ \A c \in Tasks : pc[c] = "store" => reg[c] = counter

\* No increment is invented; none is lost, when they are synchronised; and
\* the last store survives.
Exact == /\ counter <= Cardinality(stored)
         /\ \A c \in Tasks : reg[c] <= Cardinality(stored)
         /\ Count!Synchronised => counter = Cardinality(stored)
         /\ stored # {} => counter > 0

CountInv == CountTypes /\ Started /\ Exclusive /\ Exact

LEMMA CountInit == ASSUME Arguments, Count!Init PROVE CountInv
  <1> USE DEF Count!Init, Count!Callers
  <1>1. pc = [c \in Tasks |-> "idle"] /\ reg = [c \in Tasks |-> 0]
    BY DEF Arguments
  <1>2. stored = {} /\ Live = {} /\ Cardinality({}) = 0
    BY <1>1, FS_EmptySet DEF Live
  <1>3. CountTypes
    BY <1>1, <1>2 DEF CountTypes, Arguments
  <1>4. Started
    BY <1>1, <1>2 DEF Started, Arguments
  <1>5. Exclusive
    BY <1>1 DEF Exclusive
  <1>6. Exact
    <2>1. counter = 0 /\ Cardinality(stored) = 0 /\ \A c \in Tasks : reg[c] = 0
      BY <1>1, <1>2
    <2> HIDE DEF Count!Init
    <2>2. /\ counter <= Cardinality(stored) /\ counter = Cardinality(stored) /\ ~(stored # {})
          /\ \A c \in Tasks : reg[c] <= Cardinality(stored)
      BY <1>2, <2>1
    <2> QED BY <2>2, Zenon DEF Exact
  <1> QED BY <1>3, <1>4, <1>5, <1>6 DEF CountInv

(* The counter is only touched by LoadCounter, StoreCounter and AtomicAdd. *)
LEMMA CountStarted == ASSUME Arguments, CountInv, [Count!Next]_Count!vars PROVE Started'
  <1> USE DEF Count!Goto, Count!Callers
  <1>0. /\ Started /\ spawned \in 0..N /\ main \in {"spawn", "wait", "returned"}
        /\ pc \in [Tasks -> {"idle", "start", "load", "store", "unlock", "done", "ended"}]
        /\ 1..N = Tasks
    BY DEF CountInv, CountTypes, Arguments
  <1>1. CASE Count!Spawn
    <2>1. /\ spawned < N /\ spawned' = spawned + 1 /\ wg' = wg + 1
          /\ main \notin {"wait", "returned"} /\ main' = main
      BY <1>0, <1>1 DEF Count!Spawn
    <2>2. /\ pc'[spawned + 1] \notin {"idle", "ended"}
          /\ \A t \in Tasks : t # spawned + 1 => pc'[t] = pc[t]
      BY <1>0, <1>1 DEF Count!Spawn, Arguments
    <2> QED BY <1>0, <2>1, <2>2, StartOne
  <1>2. CASE Count!SpawnDone \/ Count!Return \/ Count!Finished \/ UNCHANGED Count!vars
    BY <1>0, <1>2, GoOn DEF Count!SpawnDone, Count!Return, Count!Finished, Count!vars
  <1>3. ASSUME NEW c \in Tasks,
               Count!Lock(c) \/ Count!Enter(c) \/ Count!LoadCounter(c) \/ Count!StoreCounter(c)
               \/ Count!Unlock(c) \/ Count!AtomicAdd(c)
        PROVE  Started'
    <2>1. UNCHANGED <<main, spawned, wg>>
      BY <1>3 DEF Count!Lock, Count!Enter, Count!LoadCounter, Count!StoreCounter,
                  Count!Unlock, Count!AtomicAdd
    <2>2. \A t \in Tasks : /\ pc'[t] = "idle" <=> pc[t] = "idle"
                           /\ pc'[t] = "ended" <=> pc[t] = "ended"
      BY <1>0, <1>3 DEF Count!Lock, Count!Enter, Count!LoadCounter, Count!StoreCounter,
                        Count!Unlock, Count!AtomicAdd
    <2> QED BY <1>0, <2>1, <2>2, GoOn
  <1>4. ASSUME NEW c \in Tasks, Count!Done(c) PROVE Started'
    <2>1. DOMAIN pc = Tasks
      BY <1>0
    <2> QED BY <1>0, <1>4, <2>1, EndOne DEF Count!Done
  <1> QED BY <1>0, <1>1, <1>2, <1>3, <1>4 DEF Count!Next, Count!Step, Count!Caller

\* What main's steps and a goroutine's own bookkeeping leave alone.
Untouched == /\ UNCHANGED <<kind, counter, reg, mu, stored>>
             /\ \A c \in Tasks : \/ pc'[c] = pc[c]
                                 \/ pc[c] \in {"idle", "start"} /\ pc'[c] = "start"
                                 \/ pc[c] = "done" /\ pc'[c] = "ended"

LEMMA CountUntouched ==
  ASSUME CountInv, Untouched,
         main' \in {"spawn", "wait", "returned"}, spawned' \in 0..N,
         pc' \in [Tasks -> {"idle", "start", "load", "store", "unlock", "done", "ended"}]
  PROVE  CountTypes' /\ Exclusive' /\ Exact'
  <1> USE DEF CountInv, Untouched
  <1>1. /\ {c \in Tasks : pc'[c] \in {"unlock", "done", "ended"}} = stored
        /\ \A c \in Tasks : pc'[c] \in {"load", "store", "unlock"} => pc'[c] = pc[c]
    BY DEF CountTypes
  <1>2. CountTypes'
    BY <1>1 DEF CountTypes
  <1>3. Exclusive'
    BY <1>1 DEF Exclusive
  <1>4. Exact'
    BY <1>1 DEF Exact, Count!Synchronised
  <1> QED BY <1>2, <1>3, <1>4

LEMMA CountStep == ASSUME Arguments, CountInv, [Count!Next]_Count!vars PROVE CountInv'
  <1> USE DEF Count!Goto, Count!Callers
  <1>0. /\ spawned \in 0..N /\ main \in {"spawn", "wait", "returned"}
        /\ pc \in [Tasks -> {"idle", "start", "load", "store", "unlock", "done", "ended"}]
        /\ counter \in Nat /\ reg \in [Tasks -> Nat] /\ N \in Nat /\ 1..N = Tasks
        /\ stored = {c \in Tasks : pc[c] \in {"unlock", "done", "ended"}}
        /\ mu \in Tasks \cup {Count!NoOne} /\ Count!NoOne \notin Tasks
    BY DEF CountInv, CountTypes, Arguments, Count!NoOne
  <1>1. CASE Count!Spawn
    <2>1. Untouched /\ main' = main /\ spawned' \in 0..N
      BY <1>0, <1>1 DEF Count!Spawn, Untouched
    <2>2. pc' \in [Tasks -> {"idle", "start", "load", "store", "unlock", "done", "ended"}]
      BY <1>0, <1>1 DEF Count!Spawn
    <2> QED BY <1>0, <2>1, <2>2, CountUntouched, CountStarted DEF CountInv
  <1>2. CASE Count!SpawnDone \/ Count!Return \/ Count!Finished \/ UNCHANGED Count!vars
    <2>1. Untouched /\ main' \in {"spawn", "wait", "returned"} /\ UNCHANGED <<spawned, pc>>
      BY <1>0, <1>2 DEF Count!SpawnDone, Count!Return, Count!Finished, Count!vars, Untouched
    <2> QED BY <1>0, <2>1, CountUntouched, CountStarted DEF CountInv
  <1>3. ASSUME NEW c \in Tasks, Count!Done(c) PROVE CountInv'
    <2>1. Untouched /\ UNCHANGED <<main, spawned>>
      BY <1>0, <1>3 DEF Count!Done, Untouched
    <2>2. pc' \in [Tasks -> {"idle", "start", "load", "store", "unlock", "done", "ended"}]
      BY <1>0, <1>3 DEF Count!Done
    <2> QED BY <1>0, <2>1, <2>2, CountUntouched, CountStarted DEF CountInv
  <1>4. ASSUME NEW c \in Tasks, Count!Lock(c) \/ Count!Enter(c) PROVE CountInv'
    <2>1. /\ UNCHANGED <<kind, main, spawned, counter, reg, stored>>
          /\ pc[c] = "start" /\ pc' = [pc EXCEPT ![c] = "load"] /\ kind # "atomic"
          /\ kind = "mutex" => mu = Count!NoOne /\ mu' = c
          /\ mu' \in Tasks \cup {Count!NoOne}
      BY <1>0, <1>4 DEF Count!Lock, Count!Enter
    <2>2. CountTypes'
      <3>1. {d \in Tasks : pc'[d] \in {"unlock", "done", "ended"}} = stored
        BY <1>0, <2>1
      <3> QED BY <1>0, <2>1, <3>1 DEF CountInv, CountTypes
    <2>3. Exclusive'
      BY <1>0, <2>1 DEF CountInv, Exclusive
    <2>4. Exact'
      BY <1>0, <2>1 DEF CountInv, Exact, Count!Synchronised
    <2> QED BY <2>2, <2>3, <2>4, CountStarted DEF CountInv
  <1>5. ASSUME NEW c \in Tasks, Count!LoadCounter(c) PROVE CountInv'
    <2>1. /\ UNCHANGED <<kind, main, spawned, counter, mu, stored>>
          /\ pc[c] = "load" /\ pc' = [pc EXCEPT ![c] = "store"]
          /\ reg' = [reg EXCEPT ![c] = counter]
      BY <1>5 DEF Count!LoadCounter
    <2>2. CountTypes'
      <3>1. {d \in Tasks : pc'[d] \in {"unlock", "done", "ended"}} = stored
        BY <1>0, <2>1
      <3> QED BY <1>0, <2>1, <3>1 DEF CountInv, CountTypes
    <2>3. Exclusive'
      BY <1>0, <2>1 DEF CountInv, Exclusive
    <2>4. Exact'
      BY <1>0, <2>1 DEF CountInv, Exact, Count!Synchronised
    <2> QED BY <2>2, <2>3, <2>4, CountStarted DEF CountInv
  <1>6. ASSUME NEW c \in Tasks, Count!Unlock(c) PROVE CountInv'
    <2>1. /\ UNCHANGED <<kind, main, spawned, counter, reg, stored>>
          /\ pc[c] = "unlock" /\ pc' = [pc EXCEPT ![c] = "done"] /\ mu' = Count!NoOne
      BY <1>6 DEF Count!Unlock
    <2>2. CountTypes'
      <3>1. {d \in Tasks : pc'[d] \in {"unlock", "done", "ended"}} = stored
        BY <1>0, <2>1
      <3> QED BY <1>0, <2>1, <3>1 DEF CountInv, CountTypes
    <2>3. Exclusive'
      BY <1>0, <2>1 DEF CountInv, Exclusive
    <2>4. Exact'
      BY <1>0, <2>1 DEF CountInv, Exact, Count!Synchronised
    <2> QED BY <2>2, <2>3, <2>4, CountStarted DEF CountInv
  <1>7. ASSUME NEW c \in Tasks, Count!StoreCounter(c) \/ Count!AtomicAdd(c) PROVE CountInv'
    <2>1. /\ UNCHANGED <<kind, main, spawned, reg, mu>>
          /\ pc[c] \in {"start", "store"} /\ pc'[c] \in {"unlock", "done"}
          /\ pc' = [pc EXCEPT ![c] = pc'[c]]
          /\ kind = "atomic" => pc'[c] = "done"
          /\ kind = "mutex" => pc[c] = "store"
      BY <1>0, <1>7 DEF Count!StoreCounter, Count!AtomicAdd, CountInv, Exclusive
    <2>2. /\ c \notin stored /\ stored' = stored \cup {c}
          /\ {d \in Tasks : pc'[d] \in {"unlock", "done", "ended"}} = stored'
          /\ stored \in SUBSET Tasks
      BY <1>0, <1>7, <2>1 DEF Count!StoreCounter, Count!AtomicAdd
    <2>3. /\ Cardinality(stored') = Cardinality(stored) + 1 /\ Cardinality(stored) \in Nat
      BY <2>2, TaskCount
    <2>4. /\ counter' \in Nat /\ counter' > 0 /\ counter' <= Cardinality(stored')
          /\ kind # "racy" => counter' = counter + 1
      <3>1. counter <= Cardinality(stored) /\ reg[c] <= Cardinality(stored)
        BY DEF CountInv, Exact
      <3>2. CASE Count!StoreCounter(c)
        <4>1. pc[c] = "store" /\ counter' = reg[c] + 1 /\ reg[c] \in Nat
          BY <1>0, <3>2 DEF Count!StoreCounter
        <4>2. kind # "racy" => reg[c] = counter
          BY <4>1 DEF CountInv, CountTypes, Exclusive, Count!Kinds
        <4> QED BY <2>3, <3>1, <4>1, <4>2
      <3>3. CASE Count!AtomicAdd(c)
        BY <1>0, <2>3, <3>1, <3>3 DEF Count!AtomicAdd
      <3> QED BY <1>7, <3>2, <3>3
    <2>5. CountTypes'
      BY <1>0, <2>1, <2>2, <2>4 DEF CountInv, CountTypes
    <2>6. Exclusive'
      BY <1>0, <2>1 DEF CountInv, Exclusive
    <2>7. Exact'
      <3>1. \A d \in Tasks : reg[d] <= Cardinality(stored) /\ reg[d] \in Nat
        BY <1>0 DEF CountInv, Exact
      <3>2. \A d \in Tasks : reg'[d] <= Cardinality(stored')
        BY <2>1, <2>3, <3>1
      <3>3. kind' # "racy" => counter' = Cardinality(stored')
        BY <2>1, <2>3, <2>4 DEF CountInv, Exact, Count!Synchronised
      <3> QED BY <2>4, <3>2, <3>3 DEF Exact, Count!Synchronised
    <2> QED BY <2>5, <2>6, <2>7, CountStarted DEF CountInv
  <1> QED BY <1>0, <1>1, <1>2, <1>3, <1>4, <1>5, <1>6, <1>7 DEF Count!Next, Count!Step, Count!Caller

(* The invariant of the three counters holds, for any n.                   *)
THEOREM CountInvariance == ASSUME Arguments PROVE Count!Spec => []CountInv
  <1>1. CountInv /\ [Count!Next]_Count!vars => CountInv'
    BY CountStep
  <1>2. Count!Init => CountInv
    BY CountInit
  <1> QED BY <1>1, <1>2, PTL DEF Count!Spec

LEMMA CountTells == ASSUME Arguments, CountInv PROVE Count!CountsAll
  <1>1. /\ stored \in SUBSET Tasks /\ Tasks \in SUBSET Tasks /\ Tasks = 1..N /\ N \in Nat
    BY DEF CountInv, CountTypes, Arguments
  <1>2. /\ Cardinality(stored) <= Cardinality(Tasks) /\ Cardinality(Tasks) = N
        /\ Cardinality(stored) \in Nat
    <2>1. Cardinality(Tasks) = N
      BY <1>1, FS_Interval
    <2> QED BY <1>1, <2>1, TaskCount
  <1>3. counter \in 0..N
    BY <1>1, <1>2 DEF CountInv, CountTypes, Exact
  <1>4. Count!TypeOK
    <2>1. reg \in [Tasks -> 0..N]
      BY <1>1, <1>2 DEF CountInv, CountTypes, Exact
    <2> QED BY <1>1, <1>3, <2>1, WaitedBound DEF CountInv, CountTypes, Count!TypeOK, Count!Callers
  <1>5. ASSUME main = "returned"
        PROVE  IF Count!Synchronised THEN counter = N ELSE N > 0 => counter \in 1..N
    <2>1. \A t \in Tasks : pc[t] = "ended"
      BY <1>5, AllEnded DEF CountInv, CountTypes, Started
    <2>2. stored = Tasks
      BY <2>1 DEF CountInv, CountTypes
    <2>3. N > 0 => stored # {}
      BY <1>1, <2>2
    <2> QED BY <1>1, <1>2, <1>3, <2>2, <2>3 DEF CountInv, Exact
  <1> QED BY <1>4, <1>5 DEF Count!CountsAll

(* MutexCount and AtomicCount return n; RacyCount loses updates, but       *)
(* returns at least 1 and never more than n.                               *)
THEOREM CountersCount ==
  ASSUME Arguments
  PROVE  /\ Count!Spec => []Count!CountsAll
         /\ Spec => []CountsAll
  <1> DEFINE Inv == program = "counters" => CountInv
  <1>1. CountInv => Count!CountsAll
    BY CountTells
  <1>2. Inv => CountsAll
    BY CountTells DEF CountsAll
  <1>3. Init => Inv
    BY Begun, CountInit
  <1>4. Inv /\ [Next]_vars => Inv'
    BY GoesOn, CountStep
  <1> QED BY <1>1, <1>2, <1>3, <1>4, CountInvariance, PTL DEF Spec

Sum == INSTANCE Increments
            WITH Callers <- 1..N,
                 value <- IF Count!Synchronised THEN counter ELSE 0,
                 applied <- IF Count!Synchronised THEN stored ELSE {}

LEMMA CountSum ==
  ASSUME Arguments, CountInv, [Count!Next]_Count!vars
  PROVE  [Sum!Next]_(Sum!vars)
  <1> DEFINE Value == IF Count!Synchronised THEN counter ELSE 0
             Applied == IF Count!Synchronised THEN stored ELSE {}
  <1> SUFFICES Sum!Next \/ (Value' = Value /\ Applied' = Applied)
    BY DEF Sum!vars
  <1> USE DEF Count!Synchronised
  <1>1. ASSUME UNCHANGED <<kind, counter, stored>> PROVE Value' = Value /\ Applied' = Applied
    BY <1>1
  <1>2. CASE Count!Spawn \/ Count!SpawnDone \/ Count!Return \/ Count!Finished \/ UNCHANGED Count!vars
    BY <1>1, <1>2 DEF Count!Spawn, Count!SpawnDone, Count!Return, Count!Finished, Count!vars
  <1>3. ASSUME NEW c \in Tasks, Count!Lock(c) \/ Count!Enter(c) \/ Count!LoadCounter(c)
                                \/ Count!Unlock(c) \/ Count!Done(c)
        PROVE  Value' = Value /\ Applied' = Applied
    BY <1>1, <1>3 DEF Count!Lock, Count!Enter, Count!LoadCounter, Count!Unlock, Count!Done
  <1>4. ASSUME NEW c \in Tasks, Count!StoreCounter(c) \/ Count!AtomicAdd(c)
        PROVE  Sum!Next \/ (Value' = Value /\ Applied' = Applied)
    <2>1. kind' = kind /\ stored' = stored \cup {c} /\ c \notin stored
      BY <1>4 DEF Count!StoreCounter, Count!AtomicAdd, Count!Goto, CountInv, CountTypes
    <2>2. CASE kind = "racy"
      BY <2>1, <2>2
    <2>3. CASE kind # "racy"
      <3>1. counter' = counter + 1
        BY <1>4, <2>3 DEF Count!StoreCounter, Count!AtomicAdd, Count!Goto, Count!Kinds,
                          CountInv, CountTypes, Exclusive
      <3>2. Sum!Apply(c)
        BY <2>1, <2>3, <3>1 DEF Sum!Apply
      <3> QED BY <3>2 DEF Sum!Next, Arguments
    <2> QED BY <2>2, <2>3
  <1> QED BY <1>2, <1>3, <1>4 DEF Count!Next, Count!Step, Count!Caller, Count!Callers, Arguments

(* Under a mutex, or with an atomic addition, no increment is lost and     *)
(* none is applied twice: the program, and the run of which it is one,     *)
(* implement Increments.                                                   *)
THEOREM CountersRefine ==
  ASSUME Arguments
  PROVE  /\ Count!Spec => Sum!Spec
         /\ Spec => CountersImplementIncrements
  <1> DEFINE Inv == program = "counters" => CountInv
  <1>1. Count!Init => Sum!Init
    BY DEF Count!Init, Sum!Init
  <1>2. CountInv /\ [Count!Next]_Count!vars => [Sum!Next]_(Sum!vars)
    BY CountSum
  <1>3. Init => Inv
    BY Begun, CountInit
  <1>4. Inv /\ [Next]_vars => Inv'
    BY GoesOn, CountStep
  <1>5. Init => Shared!Init
    BY Begun DEF Shared!Init, Count!Init
  <1>6. Inv /\ [Next]_vars => [Shared!Next]_(Shared!vars)
    <2> SUFFICES ASSUME Inv, [Next]_vars PROVE [Shared!Next]_(Shared!vars)
      OBVIOUS
    <2> DEFINE Synced == program = "counters" /\ Count!Synchronised
               Value == IF Synced THEN counter ELSE 0
               Applied == IF Synced THEN stored ELSE {}
    <2>1. CASE program = "counters"
      <3>1. program' = program /\ [Sum!Next]_(Sum!vars)
        BY <2>1, GoesOn, CountSum
      <3>2. /\ Value = (IF Count!Synchronised THEN counter ELSE 0)
            /\ Value' = (IF Count!Synchronised THEN counter ELSE 0)'
            /\ Applied = (IF Count!Synchronised THEN stored ELSE {})
            /\ Applied' = (IF Count!Synchronised THEN stored ELSE {})'
        BY <2>1, <3>1
      <3>3. CASE UNCHANGED Sum!vars
        BY <3>2, <3>3, Zenon DEF Sum!vars, Shared!vars
      <3>4. ASSUME NEW c \in 1..N, Sum!Apply(c) PROVE Shared!Apply(c)
        BY <3>2, <3>4, Zenon DEF Sum!Apply, Shared!Apply
      <3> QED BY <3>1, <3>3, <3>4 DEF Sum!Next, Shared!Next
    <2>2. CASE program # "counters"
      <3>1. Value' = Value /\ Applied' = Applied
        BY <2>2, GoesOn
      <3> QED BY <3>1, Zenon DEF Shared!vars
    <2> QED BY <2>1, <2>2
  <1> QED BY <1>1, <1>2, <1>3, <1>4, <1>5, <1>6, CountInvariance, PTL
          DEF Count!Spec, Sum!Spec, Spec, CountersImplementIncrements, Shared!Spec

-----------------------------------------------------------------------------
(***************************************************************************)
(* RunErrgroup.                                                            *)
(***************************************************************************)
GroupTypes == /\ main \in {"go", "wait", "returned"} /\ spawned \in 0..N
              /\ pc \in [Tasks -> {"idle", "work", "failed", "release", "done", "ended"}]
              /\ sem \in Nat /\ err \in BOOLEAN /\ cancelled \in BOOLEAN
              /\ saw \in SUBSET Tasks

\* The slots taken are those of the tasks between g.Go and their release,
\* and only a task at work is counted by the gauge.
Slots == /\ sem = Cardinality(Group!Holders) /\ sem <= Limit
         /\ \A t \in Tasks : phase[t] # "out" => pc[t] = "work"

\* A task that was cut short has given the group its error, or is about to;
\* the first was cut short by the caller's context.
Verdict == /\ err => saw # {}
           /\ saw # {} => cancelled
           /\ \A t \in saw : pc[t] = "failed" \/ err
           /\ \A t \in Tasks : pc[t] = "failed" => t \in saw

GroupInv == GroupTypes /\ Started /\ MInv /\ Slots /\ Verdict

LEMMA GroupInit == ASSUME Arguments, Group!Init PROVE GroupInv
  <1>1. MInv
    BY MetricsInit DEF Group!Init, Group!MInit, MInit
  <1>2. /\ pc = [t \in Tasks |-> "idle"] /\ phase = [t \in Tasks |-> "out"]
        /\ main = "go" /\ spawned = 0 /\ sem = 0 /\ wg = 0
        /\ err = FALSE /\ cancelled = FALSE /\ saw = {}
    BY DEF Group!Init, Group!MInit
  <1>3. Live = {} /\ Group!Holders = {} /\ Cardinality({}) = 0
    BY <1>2, FS_EmptySet DEF Live, Group!Holders
  <1>4. GroupTypes
    <2>1. /\ 0 \in 0..N /\ pc \in [Tasks -> {"idle", "work", "failed", "release", "done", "ended"}]
      BY <1>2 DEF Arguments
    <2> QED BY <1>2, <2>1 DEF GroupTypes
  <1>7. Verdict
    BY <1>2 DEF Verdict
  <1>5. Started
    BY <1>2, <1>3 DEF Started, Arguments
  <1>6. Slots
    BY <1>2, <1>3 DEF Slots, Arguments
  <1> QED BY <1>1, <1>4, <1>5, <1>6, <1>7 DEF GroupInv

(* Every step of the pool is a step of the gauge, or leaves it alone. *)
LEMMA SameGauge ==
  ASSUME NEW t \in Tasks
  PROVE  /\ Group!Add(t) <=> Add(t)
         /\ Group!Load(t) <=> Load(t)
         /\ Group!CompareAndSwap(t) <=> CompareAndSwap(t)
         /\ Group!Exit(t) <=> Exit(t)
  BY DEF Group!Add, Add, Group!Load, Load, Group!CompareAndSwap, CompareAndSwap, Group!Exit, Exit

LEMMA GaugeStep == [Group!Next]_(Group!vars) => [MNext]_mvars
  <1> SUFFICES ASSUME [Group!Next]_(Group!vars) PROVE MNext \/ UNCHANGED mvars
    OBVIOUS
  <1>1. CASE Group!Go \/ Group!GoDone \/ Group!Wait \/ Group!Cancel \/ Group!Finished
             \/ UNCHANGED Group!vars
    BY <1>1 DEF Group!Go, Group!GoDone, Group!Wait, Group!Cancel, Group!Finished, Group!vars,
                Group!mvars, mvars
  <1>2. ASSUME NEW t \in Tasks, Group!Enter(t) \/ Group!Work(t) \/ Group!Interrupted(t) PROVE MNext
    BY <1>2, SameGauge DEF Group!Enter, Group!Work, Group!Interrupted, MNext
  <1>3. ASSUME NEW t \in Tasks, Group!KeepError(t) \/ Group!Release(t) \/ Group!Done(t)
        PROVE  UNCHANGED mvars
    BY <1>3 DEF Group!KeepError, Group!Release, Group!Done, Group!mvars, mvars
  <1> QED BY <1>1, <1>2, <1>3 DEF Group!Next, Group!Step, Group!Task

LEMMA GroupStarted == ASSUME Arguments, GroupInv, [Group!Next]_(Group!vars) PROVE Started'
  <1> USE DEF Group!Goto, Group!mainVars
  <1>0. /\ Started /\ spawned \in 0..N /\ main \in {"go", "wait", "returned"}
        /\ pc \in [Tasks -> {"idle", "work", "failed", "release", "done", "ended"}]
        /\ 1..N = Tasks
    BY DEF GroupInv, GroupTypes, Arguments
  <1>1. CASE Group!Go
    <2>1. /\ spawned < N /\ spawned' = spawned + 1 /\ wg' = wg + 1
          /\ main \notin {"wait", "returned"} /\ main' = main
      BY <1>0, <1>1 DEF Group!Go
    <2>2. /\ pc'[spawned + 1] \notin {"idle", "ended"}
          /\ \A t \in Tasks : t # spawned + 1 => pc'[t] = pc[t]
      BY <1>0, <1>1 DEF Group!Go, Arguments
    <2> QED BY <1>0, <2>1, <2>2, StartOne
  <1>2. CASE Group!GoDone \/ Group!Wait \/ Group!Cancel \/ Group!Finished \/ UNCHANGED Group!vars
    BY <1>0, <1>2, GoOn DEF Group!GoDone, Group!Wait, Group!Cancel, Group!Finished, Group!vars
  <1>3. ASSUME NEW t \in Tasks,
               Group!Enter(t) \/ Group!Work(t) \/ Group!Interrupted(t) \/ Group!KeepError(t)
               \/ Group!Release(t)
        PROVE  Started'
    <2>1. UNCHANGED <<main, spawned, wg>>
      BY <1>3 DEF Group!Enter, Group!Work, Group!Interrupted, Group!KeepError, Group!Release
    <2>2. \A u \in Tasks : /\ pc'[u] = "idle" <=> pc[u] = "idle"
                           /\ pc'[u] = "ended" <=> pc[u] = "ended"
      BY <1>0, <1>3 DEF Group!Enter, Group!Work, Group!Interrupted, Group!KeepError, Group!Release
    <2> QED BY <1>0, <2>1, <2>2, GoOn
  <1>4. ASSUME NEW t \in Tasks, Group!Done(t) PROVE Started'
    <2>1. DOMAIN pc = Tasks
      BY <1>0
    <2> QED BY <1>0, <1>4, <2>1, EndOne DEF Group!Done
  <1> QED BY <1>0, <1>1, <1>2, <1>3, <1>4 DEF Group!Next, Group!Step, Group!Task

LEMMA GroupTypesStep == ASSUME Arguments, GroupInv, [Group!Next]_(Group!vars) PROVE GroupTypes'
  <1> USE DEF Group!Goto, Group!mainVars
  <1>0. GroupTypes
    BY DEF GroupInv
  <1>1. CASE Group!Go
    <2>1. spawned' \in 0..N /\ sem' \in Nat
      BY <1>0, <1>1 DEF GroupTypes, Group!Go, Arguments
    <2>2. pc' \in [Tasks -> {"idle", "work", "failed", "release", "done", "ended"}]
      BY <1>0, <1>1 DEF GroupTypes, Group!Go
    <2> QED BY <1>0, <1>1, <2>1, <2>2 DEF GroupTypes, Group!Go
  <1>2. CASE Group!GoDone \/ Group!Wait \/ Group!Cancel \/ Group!Finished \/ UNCHANGED Group!vars
    BY <1>0, <1>2 DEF GroupTypes, Group!GoDone, Group!Wait, Group!Cancel, Group!Finished, Group!vars
  <1>3. ASSUME NEW t \in Tasks, Group!Task(t) PROVE GroupTypes'
    <2>1. UNCHANGED <<main, spawned, cancelled>>
      BY <1>3 DEF Group!Task, Group!Enter, Group!Work, Group!Interrupted, Group!KeepError,
                  Group!Release, Group!Done
    <2>2. pc' \in [Tasks -> {"idle", "work", "failed", "release", "done", "ended"}]
      BY <1>0, <1>3 DEF GroupTypes, Group!Task, Group!Enter, Group!Work, Group!Interrupted,
                        Group!KeepError, Group!Release, Group!Done
    <2>3. sem' \in Nat
      BY <1>0, <1>3 DEF GroupTypes, Group!Task, Group!Enter, Group!Work, Group!Interrupted,
                        Group!KeepError, Group!Release, Group!Done
    <2>4. err' \in BOOLEAN /\ saw' \in SUBSET Tasks
      BY <1>0, <1>3 DEF GroupTypes, Group!Task, Group!Enter, Group!Work, Group!Interrupted,
                        Group!KeepError, Group!Release, Group!Done
    <2> QED BY <1>0, <2>1, <2>2, <2>3, <2>4 DEF GroupTypes
  <1> QED BY <1>1, <1>2, <1>3 DEF Group!Next, Group!Step

LEMMA SlotsStep == ASSUME Arguments, GroupInv, [Group!Next]_(Group!vars) PROVE Slots'
  <1> USE DEF GroupInv, GroupTypes, Slots, Group!Goto, Group!mainVars
  <1>0. Group!Holders \in SUBSET Tasks /\ Limit \in Nat
    BY DEF Group!Holders, Arguments
  <1>1. CASE Group!GoDone \/ Group!Wait \/ Group!Cancel \/ Group!Finished \/ UNCHANGED Group!vars
    BY <1>1 DEF Group!GoDone, Group!Wait, Group!Cancel, Group!Finished, Group!vars, mvars,
       Group!mvars,
                Group!Holders
  <1>2. CASE Group!Go
    <2>1. spawned + 1 \in Tasks /\ pc[spawned + 1] = "idle"
      BY <1>2 DEF Group!Go, Arguments, Started
    <2>2. Group!Holders' = Group!Holders \cup {spawned + 1} /\ spawned + 1 \in Tasks \ Group!Holders
      BY <1>2, <2>1 DEF Group!Go, Group!Holders
    <2>3. sem' = Cardinality(Group!Holders')
      BY <1>0, <1>2, <2>2, TaskCount DEF Group!Go
    <2> QED BY <1>0, <1>2, <2>1, <2>3 DEF Group!Go, mvars, Group!mvars
  <1>3. ASSUME NEW t \in Tasks, Group!KeepError(t) \/ Group!Done(t) PROVE Slots'
    <2>1. Group!Holders' = Group!Holders
      BY <1>3 DEF Group!KeepError, Group!Done, Group!Holders
    <2> QED BY <1>3, <2>1 DEF Group!KeepError, Group!Done, mvars, Group!mvars
  <1>4. ASSUME NEW t \in Tasks, Group!Release(t) PROVE Slots'
    <2>1. Group!Holders' = Group!Holders \ {t} /\ t \in Group!Holders
      BY <1>4 DEF Group!Release, Group!Holders
    <2>2. sem' = Cardinality(Group!Holders')
      BY <1>0, <1>4, <2>1, TaskCount DEF Group!Release
    <2> QED BY <1>0, <1>4, <2>2 DEF Group!Release, mvars, Group!mvars
  <1>5. ASSUME NEW t \in Tasks, Group!Work(t) \/ Group!Interrupted(t) PROVE Slots'
    <2>1. Group!Holders' = Group!Holders
      BY <1>5 DEF Group!Work, Group!Interrupted, Group!Holders
    <2> QED BY <1>5, <2>1 DEF Group!Work, Group!Interrupted, Group!Exit, MInv, MTypeOK
  <1>6. ASSUME NEW t \in Tasks, Group!Enter(t) PROVE Slots'
    <2>1. Group!Holders' = Group!Holders /\ sem' = sem
      BY <1>6 DEF Group!Enter, Group!Holders
    <2>2. \A u \in Tasks : phase'[u] # "out" => pc'[u] = "work"
      BY <1>6 DEF Group!Enter, Group!Add, Group!Load, Group!CompareAndSwap, MInv, MTypeOK
    <2> QED BY <2>1, <2>2
  <1> QED BY <1>1, <1>2, <1>3, <1>4, <1>5, <1>6 DEF Group!Next, Group!Step, Group!Task

LEMMA VerdictStep == ASSUME Arguments, GroupInv, [Group!Next]_(Group!vars) PROVE Verdict'
  <1> USE DEF GroupInv, GroupTypes, Verdict, Group!Goto, Group!mainVars
  <1>1. CASE Group!GoDone \/ Group!Wait \/ Group!Cancel \/ Group!Finished \/ UNCHANGED Group!vars
    <2>1. UNCHANGED <<pc, err, saw>> /\ (cancelled => cancelled')
      BY <1>1 DEF Group!GoDone, Group!Wait, Group!Cancel, Group!Finished, Group!vars
    <2> QED BY <2>1
  <1>2. CASE Group!Go
    <2>1. spawned + 1 \in Tasks /\ pc[spawned + 1] = "idle"
      BY <1>2 DEF Group!Go, Arguments, Started
    <2> QED BY <1>2, <2>1 DEF Group!Go
  <1>3. ASSUME NEW t \in Tasks, Group!Enter(t) \/ Group!Work(t) \/ Group!Release(t) \/ Group!Done(t)
        PROVE  Verdict'
    BY <1>3 DEF Group!Enter, Group!Work, Group!Release, Group!Done
  <1>4. ASSUME NEW t \in Tasks, Group!Interrupted(t) PROVE Verdict'
    BY <1>4 DEF Group!Interrupted, Group!CtxDone
  <1>5. ASSUME NEW t \in Tasks, Group!KeepError(t) PROVE Verdict'
    BY <1>5 DEF Group!KeepError
  <1> QED BY <1>1, <1>2, <1>3, <1>4, <1>5 DEF Group!Next, Group!Step, Group!Task

LEMMA GroupStep == ASSUME Arguments, GroupInv, [Group!Next]_(Group!vars) PROVE GroupInv'
  BY GroupTypesStep, GroupStarted, SlotsStep, VerdictStep, GaugeStep, MetricsStep DEF GroupInv

(* The invariant of RunErrgroup holds, for any n and limit.                *)
THEOREM GroupInvariance == ASSUME Arguments PROVE Group!Spec => []GroupInv
  <1>1. GroupInv /\ [Group!Next]_(Group!vars) => GroupInv'
    BY GroupStep
  <1>2. Group!Init => GroupInv
    BY GroupInit
  <1> QED BY <1>1, <1>2, PTL DEF Group!Spec

LEMMA GroupTells == ASSUME Arguments, GroupInv PROVE Group!ReturnsVerdict
  <1>1. Group!TypeOK
    <2>1. sem \in 0..Limit /\ wg \in 0..N
      BY WaitedBound DEF GroupInv, GroupTypes, Slots, Arguments
    <2> QED BY <2>1 DEF GroupInv, GroupTypes, MInv, MTypeOK, Group!TypeOK, Group!MTypeOK
  <1>2. ASSUME main = "returned"
        PROVE  /\ err <=> saw # {}
               /\ err => cancelled
               /\ current = 0 /\ sem = 0
               /\ \A t \in Tasks : pc[t] = "ended"
    <2>1. \A t \in Tasks : pc[t] = "ended"
      BY <1>2, AllEnded DEF GroupInv, GroupTypes, Started
    <2>2. Group!Holders = {} /\ Counted = {}
      BY <2>1 DEF GroupInv, Slots, Group!Holders, Counted
    <2>3. current = 0 /\ sem = 0
      BY <2>2, FS_EmptySet DEF GroupInv, Slots, MInv
    <2>4. (err <=> saw # {}) /\ (err => cancelled)
      BY <2>1 DEF GroupInv, GroupTypes, Verdict
    <2> QED BY <2>1, <2>3, <2>4
  <1> QED BY <1>1, <1>2 DEF Group!ReturnsVerdict

(* RunErrgroup returns an error exactly when a task was cut short, which   *)
(* only a cancelled context does, and by then every task has ended.        *)
THEOREM GroupVerdict ==
  ASSUME Arguments
  PROVE  /\ Group!Spec => []Group!ReturnsVerdict
         /\ Spec => []ReturnsVerdict
  <1> DEFINE Inv == program = "errgroup" => GroupInv
  <1>1. GroupInv => Group!ReturnsVerdict
    BY GroupTells
  <1>2. Inv => ReturnsVerdict
    BY GroupTells DEF ReturnsVerdict
  <1>3. Init => Inv
    BY Begun, GroupInit
  <1>4. Inv /\ [Next]_vars => Inv'
    BY GoesOn, GroupStep
  <1> QED BY <1>1, <1>2, <1>3, <1>4, GroupInvariance, PTL DEF Spec

Pool == INSTANCE BoundedRun
             WITH running <- Group!Holders,
                  ended <- {t \in Tasks : pc[t] \in {"done", "ended"}},
                  returned <- main = "returned"

LEMMA GroupPoolInit == ASSUME Group!Init PROVE Pool!Init
  <1> DEFINE Over == {t \in Tasks : pc[t] \in {"done", "ended"}}
  <1>1. Group!Holders = {} /\ Over = {} /\ (main = "returned") = FALSE
    BY DEF Group!Init, Group!Holders
  <1> QED BY <1>1, Zenon DEF Pool!Init

LEMMA GroupPool ==
  ASSUME Arguments, GroupInv, [Group!Next]_(Group!vars)
  PROVE  [Pool!Next]_(Pool!vars)
  <1> DEFINE Over == {t \in Tasks : pc[t] \in {"done", "ended"}}
  <1> USE DEF Group!Goto, Group!mainVars
  <1>0. pc \in [Tasks -> {"idle", "work", "failed", "release", "done", "ended"}]
    BY DEF GroupInv, GroupTypes
  <1>1. ASSUME Group!Holders' = Group!Holders, Over' = Over, (main' = "returned") = (main = "returned")
        PROVE  UNCHANGED Pool!vars
    BY <1>1, Zenon DEF Pool!vars
  <1>2. CASE Group!GoDone \/ Group!Cancel \/ Group!Finished \/ UNCHANGED Group!vars
    <2>1. Group!Holders' = Group!Holders /\ Over' = Over /\ (main' = "returned") = (main = "returned")
      BY <1>2 DEF Group!GoDone, Group!Cancel, Group!Finished, Group!vars, Group!Holders
    <2> QED BY <1>1, <2>1
  <1>3. ASSUME NEW t \in Tasks,
               Group!Enter(t) \/ Group!Work(t) \/ Group!Interrupted(t) \/ Group!KeepError(t)
               \/ Group!Done(t)
        PROVE  UNCHANGED Pool!vars
    <2>1. UNCHANGED main
      BY <1>3 DEF Group!Enter, Group!Work, Group!Interrupted, Group!KeepError, Group!Done
    <2>2. Group!Holders' = Group!Holders /\ Over' = Over
      BY <1>0, <1>3 DEF Group!Enter, Group!Work, Group!Interrupted, Group!KeepError, Group!Done,
                        Group!Holders
    <2> QED BY <1>1, <2>1, <2>2
  <1>4. CASE Group!Go
    <2> DEFINE t == spawned + 1
    <2>1. t \in Tasks /\ pc[t] = "idle"
      BY <1>4 DEF Group!Go, GroupInv, GroupTypes, Started, Arguments
    <2> HIDE DEF t
    <2>2. /\ t \notin Group!Holders \cup Over
          /\ Group!Holders' = Group!Holders \cup {t} /\ Over' = Over
      BY <1>0, <1>4, <2>1 DEF Group!Go, Group!Holders, t
    <2>3. Pool!Cardinality(Group!Holders) < Limit
      BY <1>4 DEF Group!Go, GroupInv, Slots, Cardinality, Pool!Cardinality
    <2>4. (main' = "returned") = (main = "returned")
      BY <1>4 DEF Group!Go
    <2>5. Pool!Start(t)
      BY <2>2, <2>3, <2>4, Zenon DEF Pool!Start
    <2> QED BY <2>1, <2>5 DEF Pool!Next
  <1>5. ASSUME NEW t \in Tasks, Group!Release(t) PROVE Pool!Finish(t)
    <2>1. /\ t \in Group!Holders
          /\ Group!Holders' = Group!Holders \ {t} /\ Over' = Over \cup {t}
      BY <1>0, <1>5 DEF Group!Release, Group!Holders
    <2>2. (main' = "returned") = (main = "returned")
      BY <1>5 DEF Group!Release
    <2> QED BY <2>1, <2>2, Zenon DEF Pool!Finish
  <1>6. CASE Group!Wait
    <2>1. \A t \in Tasks : pc[t] = "ended"
      BY <1>6, AllEnded DEF Group!Wait, GroupInv, GroupTypes
    <2>2. Over = Tasks /\ Group!Holders' = Group!Holders /\ Over' = Over
      BY <1>6, <2>1 DEF Group!Wait, Group!Holders
    <2>3. ~(main = "returned") /\ (main' = "returned") = TRUE
      BY <1>6 DEF Group!Wait
    <2> QED BY <2>2, <2>3, Zenon DEF Pool!Return, Pool!Next
  <1> QED BY <1>2, <1>3, <1>4, <1>5, <1>6 DEF Group!Next, Group!Step, Group!Task, Pool!Next

(* The pool runs each task once, never more than the limit at a time, and  *)
(* returns when all have ended: the program, and the run of which it is    *)
(* one, implement BoundedRun.                                              *)
THEOREM GroupRefines ==
  ASSUME Arguments
  PROVE  /\ Group!Spec => Pool!Spec
         /\ Spec => GroupImplementsBoundedRun
  <1> DEFINE Inv == program = "errgroup" => GroupInv
             Over == {t \in Tasks : pc[t] \in {"done", "ended"}}
             Running == IF program = "errgroup" THEN Group!Holders ELSE {}
             Ends == IF program = "errgroup" THEN Over ELSE {}
             Returned == program = "errgroup" /\ main = "returned"
  <1>1. Group!Init => Pool!Init
    BY GroupPoolInit
  <1>2. GroupInv /\ [Group!Next]_(Group!vars) => [Pool!Next]_(Pool!vars)
    BY GroupPool
  <1>3. Init => Inv
    BY Begun, GroupInit
  <1>4. Inv /\ [Next]_vars => Inv'
    BY GoesOn, GroupStep
  <1>5. Init => Bounded!Init
    <2> SUFFICES ASSUME Init PROVE Bounded!Init
      OBVIOUS
    <2>1. CASE program = "errgroup"
      <3>1. Group!Init
        BY <2>1, Begun
      <3>2. Group!Holders = {} /\ Over = {} /\ ~(main = "returned")
        BY <3>1 DEF Group!Init, Group!Holders
      <3> QED BY <2>1, <3>2, Zenon DEF Bounded!Init
    <2>2. CASE program # "errgroup"
      BY <2>2, Zenon DEF Bounded!Init
    <2> QED BY <2>1, <2>2
  <1>6. Inv /\ [Next]_vars => [Bounded!Next]_(Bounded!vars)
    <2> SUFFICES ASSUME Inv, [Next]_vars PROVE [Bounded!Next]_(Bounded!vars)
      OBVIOUS
    <2>1. CASE program = "errgroup"
      <3>1. program' = program /\ [Pool!Next]_(Pool!vars)
        BY <2>1, GoesOn, GroupPool
      <3>2. /\ Running = Group!Holders /\ Running' = Group!Holders'
            /\ Ends = Over /\ Ends' = Over'
            /\ Returned = (main = "returned") /\ Returned' = (main' = "returned")
        BY <2>1, <3>1
      <3>3. CASE UNCHANGED Pool!vars
        BY <3>2, <3>3, Zenon DEF Pool!vars, Bounded!vars
      <3>4. Pool!Return => Bounded!Return
        BY <3>2, Zenon DEF Pool!Return, Bounded!Return
      <3>5. ASSUME NEW t \in Tasks
            PROVE  /\ Pool!Start(t) => Bounded!Start(t)
                   /\ Pool!Finish(t) => Bounded!Finish(t)
                   /\ Pool!GiveUp(t) => Bounded!GiveUp(t)
        <4>1. Pool!Start(t) => Bounded!Start(t)
          BY <3>2, Zenon DEF Pool!Start, Bounded!Start, Pool!Cardinality, Bounded!Cardinality
        <4>2. Pool!Finish(t) => Bounded!Finish(t)
          BY <3>2, Zenon DEF Pool!Finish, Bounded!Finish
        <4>3. Pool!GiveUp(t) => Bounded!GiveUp(t)
          BY <3>2, Zenon DEF Pool!GiveUp, Bounded!GiveUp
        <4> QED BY <4>1, <4>2, <4>3
      <3> QED BY <3>1, <3>3, <3>4, <3>5 DEF Pool!Next, Bounded!Next
    <2>2. CASE program # "errgroup"
      <3>1. Running' = Running /\ Ends' = Ends /\ Returned' = Returned
        BY <2>2, GoesOn
      <3> QED BY <3>1, Zenon DEF Bounded!vars
    <2> QED BY <2>1, <2>2
  <1> QED BY <1>1, <1>2, <1>3, <1>4, <1>5, <1>6, GroupInvariance, PTL
          DEF Group!Spec, Pool!Spec, Spec, GroupImplementsBoundedRun, Bounded!Spec

-----------------------------------------------------------------------------
(***************************************************************************)
(* The scenarios of cancellation, deadline and signal.                     *)
(***************************************************************************)
Times == Budget \in Nat /\ Need \in Nat /\ Hour \in Nat

\* Scenario s has run its deferred calls, or has not yet begun.
Past(s) == main # s \/ at = "over"

\* Why each context may have ended: by its own cause, or by its deferred call.
Ends == /\ ctx["manual"] \in {"live", "Canceled"} /\ ctx["signal"] \in {"live", "Canceled"}
        /\ ctx["manual"] # "live" => canceller = "done" \/ Past("manual")
        /\ ctx["timeout"] = "Canceled" => Past("timeout")
        /\ ctx["signal"] # "live" => caught \/ Past("signal")

\* Each scenario begins once, with a live context and its deadline's timer off.
Begins == /\ main = "manual" => ctx["timeout"] = "live" /\ told["timeout"] = "none"
          /\ main = "manual" /\ at = "derive" => ctx["manual"] = "live" /\ canceller = "none"
          /\ main \in Ctx!Scenarios /\ at \notin {"deferred", "over"} => told[main] = "none"
          /\ main \in Ctx!Scenarios /\ left["deadline"] # Ctx!Off =>
                main = "timeout" /\ at \notin {"derive", "over"}

\* The cause of scenario s has ended its context.
Caused(s) == /\ ctx[s] = Ctx!Cause(s)
             /\ s = "manual" => canceller = "done"
             /\ s = "signal" => caught

\* What the worker has returned, main has yet to print.
Known == main \in Ctx!Scenarios /\ at = "print" /\ result \in Ctx!Causes =>
             result = Ctx!Cause(main) /\ Caused(main)

Said == \A s \in Ctx!Scenarios : told[s] \in Ctx!Causes => told[s] = Ctx!Cause(s) /\ Caused(s)

CtxInv == Ctx!TypeOK /\ Ends /\ Begins /\ Known /\ Said

LEMMA CtxInit == ASSUME Times, Ctx!Init PROVE CtxInv
  <1> USE DEF Ctx!Init, Ctx!Scenarios, Ctx!Causes, Ctx!Timers, Ctx!Off
  <1>1. Ctx!TypeOK
    <2>1. /\ left \in [Ctx!Timers -> Int] /\ \A t \in Ctx!Timers : left[t] >= Ctx!Off
          /\ ctx \in [Ctx!Scenarios -> Ctx!Causes \cup {"live"}]
          /\ told \in [Ctx!Scenarios -> Ctx!Causes \cup {"none", "no error"}]
      OBVIOUS
    <2> QED BY <2>1 DEF Ctx!TypeOK
  <1>2. Ends /\ Begins
    BY DEF Ends, Begins
  <1>3. Known /\ Said
    BY DEF Known, Said
  <1> QED BY <1>1, <1>2, <1>3 DEF CtxInv

LEMMA CtxTypes == ASSUME Times, Ctx!TypeOK, [Ctx!Next]_Ctx!vars PROVE Ctx!TypeOK'
  <1> USE DEF Ctx!Scenarios, Ctx!Causes, Ctx!Timers, Ctx!Running
  <1>0. /\ main \in Ctx!Scenarios \cup {"returned", "killed"}
        /\ left \in [Ctx!Timers -> Int] /\ \A t \in Ctx!Timers : left[t] >= Ctx!Off
        /\ ctx \in [Ctx!Scenarios -> Ctx!Causes \cup {"live"}]
        /\ result \in Ctx!Causes \cup {"none", "no error"}
        /\ told \in [Ctx!Scenarios -> Ctx!Causes \cup {"none", "no error"}]
    BY DEF Ctx!TypeOK
  <1>00. /\ at \in {"derive", "call", "select", "print", "deferred", "over"}
         /\ canceller \in {"none", "started", "asleep", "done"} /\ caught \in BOOLEAN
    BY DEF Ctx!TypeOK
  <1>1. ASSUME UNCHANGED <<left, ctx>>, Ctx!WorkDone \/ Ctx!Interrupted \/ Ctx!Tells \/ Ctx!Over
                                        \/ Ctx!Signal \/ Ctx!Kill
        PROVE  Ctx!TypeOK'
    <2>1. /\ result' \in Ctx!Causes \cup {"none", "no error"}
          /\ told' \in [Ctx!Scenarios -> Ctx!Causes \cup {"none", "no error"}]
          /\ main' \in Ctx!Scenarios \cup {"returned", "killed"}
      <3>1. CASE Ctx!Tells
        <4> HIDE DEF Ctx!Scenarios, Ctx!Causes
        <4>1. told' = [told EXCEPT ![main] = result] /\ UNCHANGED <<main, result>>
          BY <3>1 DEF Ctx!Tells
        <4> QED BY <1>0, <4>1
      <3>2. CASE Ctx!Interrupted
        BY <1>0, <3>2 DEF Ctx!Interrupted
      <3>3. CASE Ctx!WorkDone \/ Ctx!Over \/ Ctx!Signal \/ Ctx!Kill
        <4>1. /\ UNCHANGED told /\ (result' = result \/ result' = "no error")
              /\ main' \in {main, "timeout", "returned", "killed"}
          BY <3>3 DEF Ctx!WorkDone, Ctx!Over, Ctx!Signal, Ctx!Kill
        <4> QED BY <1>0, <4>1
      <3> QED BY <1>1, <3>1, <3>2, <3>3
    <2>2. caught' \in BOOLEAN
      BY <1>00, <1>1 DEF Ctx!WorkDone, Ctx!Interrupted, Ctx!Tells, Ctx!Over, Ctx!Signal, Ctx!Kill
    <2>3. /\ at' \in {"derive", "call", "select", "print", "deferred", "over"}
          /\ canceller' \in {"none", "started", "asleep", "done"}
      BY <1>00, <1>1 DEF Ctx!WorkDone, Ctx!Interrupted, Ctx!Tells, Ctx!Over, Ctx!Signal, Ctx!Kill
    <2> QED BY <1>0, <1>1, <2>1, <2>2, <2>3 DEF Ctx!TypeOK
  <1>2. ASSUME Ctx!Derive \/ Ctx!Call \/ Ctx!Deferred \/ Ctx!Sleep \/ Ctx!Cancel \/ Ctx!Expire
               \/ Ctx!Tick \/ Ctx!NotifyContext
        PROVE  Ctx!TypeOK'
    <2>1. left' \in [Ctx!Timers -> Int] /\ \A t \in Ctx!Timers : left'[t] >= Ctx!Off
      <3> DEFINE Left == {i \in Int : i >= Ctx!Off}
      <3>0. /\ left \in [Ctx!Timers -> Left]
            /\ Budget \in Left /\ Need \in Left /\ Hour \in Left /\ Ctx!Off \in Left
            /\ \A i \in Left : i > 0 => i - 1 \in Left
        <4>1. \A i \in Nat : i \in Left
          BY DEF Ctx!Off
        <4>2. Ctx!Off \in Left /\ \A i \in Left : i > 0 => i - 1 \in Left
          BY DEF Ctx!Off
        <4>3. left \in [Ctx!Timers -> Left]
          BY <1>0
        <4> QED BY <4>1, <4>2, <4>3 DEF Times
      <3> SUFFICES left' \in [Ctx!Timers -> Left]
        OBVIOUS
      <3> HIDE DEF Left, Ctx!Timers
      <3> USE DEF Ctx!Start
      <3>1. CASE Ctx!Derive \/ Ctx!Sleep
        BY <3>0, <3>1 DEF Ctx!Derive, Ctx!Sleep
      <3>2. CASE Ctx!Call
        BY <3>0, <3>2 DEF Ctx!Call
      <3>3. CASE Ctx!Deferred
        BY <3>0, <3>3 DEF Ctx!Deferred
      <3>4. CASE Ctx!Expire
        BY <3>0, <3>4 DEF Ctx!Expire
      <3>5. CASE Ctx!Tick
        BY <3>0, <3>5 DEF Ctx!Tick
      <3>6. CASE Ctx!Cancel \/ Ctx!NotifyContext
        BY <3>0, <3>6 DEF Ctx!Cancel, Ctx!NotifyContext
      <3> QED BY <1>2, <3>1, <3>2, <3>3, <3>4, <3>5, <3>6
    <2>2. ctx' \in [Ctx!Scenarios -> Ctx!Causes \cup {"live"}]
      <3>1. \/ ctx' = ctx
            \/ \E s \in Ctx!Scenarios, e \in Ctx!Causes :
                  ctx' = [ctx EXCEPT ![s] = IF @ = "live" THEN e ELSE @]
        BY <1>2 DEF Ctx!End, Ctx!Derive, Ctx!Call, Ctx!Deferred, Ctx!Sleep, Ctx!Cancel,
                    Ctx!Expire, Ctx!Tick, Ctx!NotifyContext
      <3> HIDE DEF Ctx!Scenarios, Ctx!Causes
      <3> QED BY <1>0, <3>1
    <2>3. /\ at' \in {"derive", "call", "select", "print", "deferred", "over"}
          /\ canceller' \in {"none", "started", "asleep", "done"}
          /\ UNCHANGED <<main, caught, result, told>>
      BY <1>00, <1>2 DEF Ctx!Derive, Ctx!Call, Ctx!Deferred, Ctx!Sleep, Ctx!Cancel,
                  Ctx!Expire, Ctx!Tick, Ctx!NotifyContext
    <2> QED BY <1>0, <1>00, <2>1, <2>2, <2>3 DEF Ctx!TypeOK
  <1>3. CASE UNCHANGED Ctx!vars
    BY <1>3 DEF Ctx!vars, Ctx!TypeOK
  <1>4. Ctx!WorkDone \/ Ctx!Interrupted \/ Ctx!Tells \/ Ctx!Over \/ Ctx!Signal \/ Ctx!Kill
        => UNCHANGED <<left, ctx>>
    BY DEF Ctx!WorkDone, Ctx!Interrupted, Ctx!Tells, Ctx!Over, Ctx!Signal, Ctx!Kill
  <1> QED BY <1>1, <1>2, <1>3, <1>4 DEF Ctx!Next, Ctx!Step

(* A context keeps its first end, and a cause that has come about stays. *)
LEMMA CauseStays ==
  ASSUME CtxInv, [Ctx!Next]_Ctx!vars, NEW s \in Ctx!Scenarios
  PROVE  /\ ctx[s] # "live" => ctx'[s] = ctx[s]
         /\ caught => caught'
         /\ canceller = "done" /\ ~(main = "manual" /\ at = "derive") => canceller' = "done"
  <1>1. ctx \in [Ctx!Scenarios -> Ctx!Causes \cup {"live"}]
    BY DEF CtxInv, Ctx!TypeOK
  <1>2. \/ ctx' = ctx
        \/ \E q \in Ctx!Scenarios, e \in Ctx!Causes :
              ctx' = [ctx EXCEPT ![q] = IF @ = "live" THEN e ELSE @]
    BY DEF Ctx!Next, Ctx!Step, Ctx!vars, Ctx!Scenarios, Ctx!Causes, Ctx!Running, Ctx!End,
           Ctx!Derive, Ctx!Call, Ctx!WorkDone, Ctx!Interrupted, Ctx!Tells, Ctx!Deferred, Ctx!Over,
           Ctx!Sleep, Ctx!Cancel, Ctx!Expire, Ctx!Tick, Ctx!NotifyContext, Ctx!Signal, Ctx!Kill
  <1>3. /\ caught => caught'
        /\ canceller = "done" /\ ~(main = "manual" /\ at = "derive") => canceller' = "done"
    <2>1. CASE Ctx!Signal \/ Ctx!Derive \/ Ctx!Sleep \/ Ctx!Cancel
      BY <2>1 DEF Ctx!Signal, Ctx!Derive, Ctx!Sleep, Ctx!Cancel
    <2>2. ASSUME UNCHANGED <<canceller, caught>>
          PROVE  /\ caught => caught'
                 /\ canceller = "done" => canceller' = "done"
      BY <2>2
    <2>3. CASE UNCHANGED Ctx!vars
      BY <2>2, <2>3 DEF Ctx!vars
    <2>4. Ctx!Call \/ Ctx!WorkDone \/ Ctx!Interrupted \/ Ctx!Tells \/ Ctx!Deferred \/ Ctx!Over
          \/ Ctx!Expire \/ Ctx!Tick \/ Ctx!NotifyContext \/ Ctx!Kill
          => UNCHANGED <<canceller, caught>>
      BY DEF Ctx!Call, Ctx!WorkDone, Ctx!Interrupted, Ctx!Tells, Ctx!Deferred, Ctx!Over,
             Ctx!Expire, Ctx!Tick, Ctx!NotifyContext, Ctx!Kill
    <2> QED BY <2>1, <2>2, <2>3, <2>4 DEF Ctx!Next, Ctx!Step
  <1> QED BY <1>1, <1>2, <1>3

(* What main itself does in a scenario ... *)
LEMMA CtxMain ==
  ASSUME CtxInv,
         Ctx!Derive \/ Ctx!Call \/ Ctx!WorkDone \/ Ctx!Interrupted \/ Ctx!Tells \/ Ctx!Deferred
         \/ Ctx!Over \/ Ctx!Kill
  PROVE  Ends' /\ Begins'
  <1> USE DEF Ctx!Scenarios, Ctx!Causes, Ctx!Timers, Ctx!Running, Ctx!Off
  <1>0. /\ ctx \in [Ctx!Scenarios -> Ctx!Causes \cup {"live"}]
        /\ told \in [Ctx!Scenarios -> Ctx!Causes \cup {"none", "no error"}]
        /\ left \in [Ctx!Timers -> Int]
    BY DEF CtxInv, Ctx!TypeOK
  <1>1. CASE Ctx!Derive
    BY <1>0, <1>1 DEF CtxInv, Ends, Begins, Past, Ctx!Derive, Ctx!Start
  <1>2. CASE Ctx!Call
    BY <1>0, <1>2 DEF CtxInv, Ends, Begins, Past, Ctx!Call, Ctx!Start
  <1>3. CASE Ctx!WorkDone \/ Ctx!Interrupted
    BY <1>0, <1>3 DEF CtxInv, Ends, Begins, Past, Ctx!WorkDone, Ctx!Interrupted
  <1>4. CASE Ctx!Tells
    BY <1>0, <1>4 DEF CtxInv, Ends, Begins, Past, Ctx!Tells
  <1>5. CASE Ctx!Deferred
    BY <1>0, <1>5 DEF CtxInv, Ends, Begins, Past, Ctx!Deferred, Ctx!End
  <1>6. CASE Ctx!Over
    BY <1>0, <1>6 DEF CtxInv, Ends, Begins, Past, Ctx!Over
  <1>7. CASE Ctx!Kill
    BY <1>0, <1>7 DEF CtxInv, Ends, Begins, Past, Ctx!Kill, Ctx!Registered
  <1> QED BY <1>1, <1>2, <1>3, <1>4, <1>5, <1>6, <1>7

(* ... and what the timers, the goroutine and the signal do meanwhile. *)
LEMMA CtxOthers ==
  ASSUME CtxInv,
         Ctx!Sleep \/ Ctx!Cancel \/ Ctx!Expire \/ Ctx!Tick \/ Ctx!NotifyContext \/ Ctx!Signal
  PROVE  Ends' /\ Begins'
  <1> USE DEF Ctx!Scenarios, Ctx!Causes, Ctx!Timers, Ctx!Running, Ctx!Off
  <1>0. /\ ctx \in [Ctx!Scenarios -> Ctx!Causes \cup {"live"}]
        /\ left \in [Ctx!Timers -> Int] /\ \A t \in Ctx!Timers : left[t] >= Ctx!Off
    BY DEF CtxInv, Ctx!TypeOK
  <1>1. CASE Ctx!Sleep
    BY <1>0, <1>1 DEF CtxInv, Ends, Begins, Past, Ctx!Sleep, Ctx!Start
  <1>2. CASE Ctx!Cancel
    BY <1>0, <1>2 DEF CtxInv, Ends, Begins, Past, Ctx!Cancel, Ctx!End
  <1>3. CASE Ctx!Expire
    BY <1>0, <1>3 DEF CtxInv, Ends, Begins, Past, Ctx!Expire, Ctx!Start, Ctx!End
  <1>4. CASE Ctx!Tick
    BY <1>0, <1>4 DEF CtxInv, Ends, Begins, Past, Ctx!Tick
  <1>5. CASE Ctx!NotifyContext
    BY <1>0, <1>5 DEF CtxInv, Ends, Begins, Past, Ctx!NotifyContext, Ctx!End, Ctx!Registered
  <1>6. CASE Ctx!Signal
    BY <1>0, <1>6 DEF CtxInv, Ends, Begins, Past, Ctx!Signal
  <1> QED BY <1>1, <1>2, <1>3, <1>4, <1>5, <1>6

(* So what a cause has brought about is never undone. *)
LEMMA CausedStays ==
  ASSUME CtxInv, [Ctx!Next]_Ctx!vars, NEW s \in Ctx!Scenarios, Caused(s),
         ~(s = "manual" /\ main = "manual" /\ at = "derive")
  PROVE  Caused(s)'
  <1>1. ctx[s] # "live"
    BY DEF Caused, Ctx!Cause
  <1> QED BY <1>1, CauseStays DEF Caused, Ctx!Cause

LEMMA CtxKnown == ASSUME CtxInv, [Ctx!Next]_Ctx!vars PROVE Known'
  <1> SUFFICES ASSUME NEW s \in Ctx!Scenarios, main' = s, at' = "print", result' \in Ctx!Causes
               PROVE  result' = Ctx!Cause(s) /\ Caused(s)'
    BY DEF Known, Caused, Ctx!Cause
  <1>1. CASE Ctx!Interrupted
    <2>1. /\ UNCHANGED <<ctx, canceller, caught>> /\ result' = ctx[s]
          /\ main = s /\ at = "select" /\ ctx[s] # "live" /\ ctx[s] \in Ctx!Causes
      BY <1>1 DEF Ctx!Interrupted, Ctx!Running
    <2>2. ctx[s] = Ctx!Cause(s) /\ Caused(s)
      BY <2>1 DEF CtxInv, Ends, Past, Caused, Ctx!Cause, Ctx!Causes, Ctx!Scenarios
    <2> QED BY <2>1, <2>2 DEF Caused, Ctx!Cause
  <1>2. CASE UNCHANGED <<main, at, result>>
    <2>1. result = Ctx!Cause(s) /\ Caused(s) /\ at = "print"
      BY <1>2 DEF CtxInv, Known
    <2> QED BY <1>2, <2>1, CausedStays
  <1>3. CASE Ctx!Derive \/ Ctx!Call \/ Ctx!WorkDone \/ Ctx!Tells \/ Ctx!Deferred \/ Ctx!Over \/ Ctx!Kill
    BY <1>3 DEF Ctx!Derive, Ctx!Call, Ctx!WorkDone, Ctx!Tells, Ctx!Deferred, Ctx!Over, Ctx!Kill,
                Ctx!Causes, Ctx!Scenarios
  <1>4. CASE Ctx!Sleep \/ Ctx!Cancel \/ Ctx!Expire \/ Ctx!Tick \/ Ctx!NotifyContext \/ Ctx!Signal
    BY <1>2, <1>4 DEF Ctx!Sleep, Ctx!Cancel, Ctx!Expire, Ctx!Tick, Ctx!NotifyContext, Ctx!Signal
  <1>5. CASE UNCHANGED Ctx!vars
    BY <1>2, <1>5 DEF Ctx!vars
  <1> QED BY <1>1, <1>3, <1>4, <1>5 DEF Ctx!Next, Ctx!Step

LEMMA CtxSaid == ASSUME CtxInv, [Ctx!Next]_Ctx!vars PROVE Said'
  <1> SUFFICES ASSUME NEW s \in Ctx!Scenarios, told'[s] \in Ctx!Causes
               PROVE  told'[s] = Ctx!Cause(s) /\ Caused(s)'
    BY DEF Said, Caused, Ctx!Cause
  <1>1. CASE told'[s] = told[s]
    <2>1. told[s] = Ctx!Cause(s) /\ Caused(s)
      BY <1>1 DEF CtxInv, Said
    <2>2. ~(s = "manual" /\ main = "manual" /\ at = "derive")
      BY <1>1 DEF CtxInv, Begins, Ctx!Causes, Ctx!Scenarios
    <2> QED BY <1>1, <2>1, <2>2, CausedStays
  <1>2. CASE told'[s] # told[s]
    <2>1. Ctx!Tells
      BY <1>2 DEF Ctx!Next, Ctx!Step, Ctx!vars,
           Ctx!Derive, Ctx!Call, Ctx!WorkDone, Ctx!Interrupted, Ctx!Deferred, Ctx!Over,
           Ctx!Sleep, Ctx!Cancel, Ctx!Expire, Ctx!Tick, Ctx!NotifyContext, Ctx!Signal, Ctx!Kill
    <2>2. /\ s = main /\ told'[s] = result /\ at = "print" /\ main \in Ctx!Scenarios
          /\ UNCHANGED <<ctx, canceller, caught>>
      BY <1>2, <2>1 DEF Ctx!Tells, Ctx!Running, CtxInv, Ctx!TypeOK
    <2>3. result = Ctx!Cause(s) /\ Caused(s)
      BY <2>2 DEF CtxInv, Known
    <2> QED BY <2>2, <2>3 DEF Caused
  <1> QED BY <1>1, <1>2

LEMMA CtxStep == ASSUME Times, CtxInv, [Ctx!Next]_(Ctx!vars) PROVE CtxInv'
  <1>1. Ends' /\ Begins'
    <2>1. CASE UNCHANGED Ctx!vars
      BY <2>1 DEF CtxInv, Ends, Begins, Past, Ctx!vars
    <2> QED BY <2>1, CtxMain, CtxOthers DEF Ctx!Next, Ctx!Step
  <1> QED BY <1>1, CtxTypes, CtxKnown, CtxSaid DEF CtxInv

(* An interrupted worker's scenario tells what has ended its context, and  *)
(* never takes the deferred cancel that ends it too for the cause.         *)
THEOREM CauseNamed ==
  ASSUME Times
  PROVE  /\ Ctx!Spec => []Ctx!CauseTold
         /\ Spec => []CauseTold
  <1> DEFINE Inv == program = "contexts" => CtxInv
  <1>1. CtxInv => Ctx!CauseTold
    BY DEF CtxInv, Said, Caused, Ctx!CauseTold
  <1>2. Ctx!Init => CtxInv
    BY CtxInit
  <1>3. CtxInv /\ [Ctx!Next]_(Ctx!vars) => CtxInv'
    BY CtxStep
  <1>4. Inv => CauseTold
    BY <1>1 DEF CauseTold
  <1>5. Init => Inv
    BY Begun, CtxInit
  <1>6. Inv /\ [Next]_vars => Inv'
    BY GoesOn, CtxStep
  <1> QED BY <1>1, <1>2, <1>3, <1>4, <1>5, <1>6, PTL DEF Ctx!Spec, Spec

-----------------------------------------------------------------------------
(***************************************************************************)
(* The fan-out of week 3, for any number of jobs and of workers.           *)
(***************************************************************************)
\* With no worker the results would be closed at once.
Fans == Workers \in Nat \ {0} /\ Jobs \in Nat

Fan == INSTANCE FanIn WITH Items <- 1..Jobs, returned <- main = "returned"

Busy == {w \in Chan!W : worker[w] \in {"recv", "send"}}
Has(w) == worker[w] = "send"

ChanTypes == /\ started \in 0..Workers /\ fed \in 0..Jobs
             /\ worker \in [Chan!W -> {"idle", "recv", "send", "ended"}]
             /\ job \in [Chan!W -> 0..Jobs]
             /\ got \in Seq(1..Jobs)

\* The results are closed when all workers have ended, which they do only when
\* every job has been dealt.
Closing == /\ wg = Cardinality(Busy)
           /\ \A w \in Chan!W : worker[w] = "idle" <=> w > started
           /\ main \in {"collect", "returned"} => started = Workers
           /\ "results" \in closed => main \in {"collect", "returned"} /\ wg = 0
           /\ main = "returned" => "results" \in closed
           /\ "jobs" \in closed => fed = Jobs
           /\ \A w \in Chan!W : worker[w] = "ended" => "jobs" \in closed

\* A job dealt is with one worker, or has been collected.
Dealt == /\ Fan!Range(got) \subseteq 1..fed
         /\ \A w \in Chan!W : Has(w) => job[w] \in (1..fed) \ Fan!Range(got)
         /\ \A v, w \in Chan!W : Has(v) /\ Has(w) /\ job[v] = job[w] => v = w
         /\ \A j \in 1..fed : j \in Fan!Range(got) \/ \E w \in Chan!W : Has(w) /\ job[w] = j

ChanInv == ChanTypes /\ Closing /\ Dealt

(* Counting the workers that are neither idle nor over. *)
LEMMA BusyCount ==
  ASSUME Fans
  PROVE  /\ IsFiniteSet(Busy) /\ Cardinality(Busy) \in Nat
         /\ Cardinality(Busy) = 0 => Busy = {}
         /\ \A w \in Chan!W \ Busy : Cardinality(Busy \cup {w}) = Cardinality(Busy) + 1
         /\ \A w \in Busy : Cardinality(Busy \ {w}) = Cardinality(Busy) - 1
  <1>1. IsFiniteSet(Chan!W)
    BY FS_Interval DEF Fans, Chan!W
  <1>2. IsFiniteSet(Busy)
    BY <1>1, FS_Subset DEF Busy
  <1> QED BY <1>2, FS_CardinalityType, FS_EmptySet, FS_AddElement, FS_RemoveElement

(* What a result more makes of the results. *)
LEMMA OneMore ==
  ASSUME got \in Seq(1..Jobs), NEW j \in 1..Jobs, got' = Append(got, j)
  PROVE  got' \in Seq(1..Jobs) /\ Fan!Range(got)' = Fan!Range(got) \cup {j}
  <1>1. /\ got' \in Seq(1..Jobs) /\ DOMAIN got' = DOMAIN got \cup {Len(got) + 1}
        /\ got'[Len(got) + 1] = j /\ Len(got) + 1 \notin DOMAIN got
        /\ \A i \in DOMAIN got : got'[i] = got[i]
    OBVIOUS
  <1> QED BY <1>1 DEF Fan!Range

(* When the results are closed, they are all there. *)
LEMMA AllCollected ==
  ASSUME Fans, ChanInv, main \in {"collect", "returned"}, "results" \in closed
  PROVE  Fan!Range(got) = 1..Jobs
  <1>1. Busy = {}
    BY BusyCount DEF ChanInv, Closing
  <1>2. \A w \in Chan!W : worker[w] = "ended"
    <2>1. started = Workers /\ \A w \in Chan!W : worker[w] = "idle" <=> w > started
      BY DEF ChanInv, Closing
    <2>2. \A w \in Chan!W : worker[w] # "idle"
      BY <2>1 DEF Chan!W, Fans
    <2> QED BY <1>1, <2>2 DEF ChanInv, ChanTypes, Busy
  <1>3. 1 \in Chan!W
    BY DEF Fans, Chan!W
  <1>4. fed = Jobs
    BY <1>2, <1>3 DEF ChanInv, Closing
  <1> QED BY <1>2, <1>4 DEF ChanInv, Dealt, Has

LEMMA ChanInit == ASSUME Fans, Chan!Init PROVE ChanInv
  <1> USE DEF Chan!Init
  <1>1. ChanTypes
    BY DEF ChanTypes, Fans
  <1>2. Busy = {} /\ wg = 0
    BY DEF Busy
  <1>3. Closing
    BY <1>2, FS_EmptySet DEF Closing, Chan!W
  <1>4. Fan!Range(got) = {} /\ 1..fed = {}
    BY DEF Fan!Range
  <1>5. Dealt
    BY <1>4 DEF Dealt, Has
  <1> QED BY <1>1, <1>3, <1>5 DEF ChanInv

\* What the invariant is about, but for main and closed.
hands == <<started, fed, worker, job, wg, got>>

(* The steps that touch neither the workers nor the jobs. *)
LEMMA ChanAside ==
  ASSUME ChanInv, UNCHANGED hands,
         main' \in {"collect", "returned"} => started = Workers,
         "results" \in closed' => main' \in {"collect", "returned"} /\ wg = 0,
         main' = "returned" => "results" \in closed',
         "jobs" \in closed' => fed = Jobs, "jobs" \in closed => "jobs" \in closed'
  PROVE  ChanInv'
  <1> USE DEF ChanInv, hands
  <1>1. ChanTypes'
    BY DEF ChanTypes
  <1>2. Closing'
    BY DEF Closing, Busy
  <1>3. Dealt'
    BY DEF Dealt, Has, Fan!Range
  <1> QED BY <1>1, <1>2, <1>3

LEMMA ChanStep == ASSUME Fans, ChanInv, [Chan!Next]_(Chan!vars) PROVE ChanInv'
  <1>0. wg \in Nat
    BY BusyCount DEF ChanInv, Closing
  <1>1. CASE Chan!Rendezvous \/ Chan!GreeterPrints \/ Chan!BufferSend \/ Chan!BufferReceive
    <2>1. /\ UNCHANGED hands /\ closed' = closed
          /\ main' = main \/ (main' \notin {"collect", "returned"} /\ main \notin {"collect", "returned"})
      BY <1>1 DEF Chan!Rendezvous, Chan!GreeterPrints, Chan!BufferSend, Chan!BufferReceive,
                  Chan!pool, hands
    <2> QED BY <2>1, ChanAside DEF ChanInv, Closing
  <1>2. CASE Chan!Produce \/ Chan!ProduceCloses \/ Chan!RangeEnds
    <2>1. /\ UNCHANGED hands /\ closed' \in {closed, closed \cup {"out"}}
          /\ main = "range" /\ main' \in {"range", "fanOut"}
      BY <1>2 DEF Chan!Produce, Chan!ProduceCloses, Chan!RangeEnds, Chan!pool, hands
    <2> QED BY <2>1, ChanAside DEF ChanInv, Closing
  <1>3. CASE Chan!FanOutDone \/ Chan!FeederCloses \/ Chan!CloserCloses \/ Chan!Return
    <2>1. CASE Chan!FanOutDone
      BY <2>1, ChanAside DEF ChanInv, Closing, Chan!FanOutDone, Chan!pool, hands
    <2>2. CASE Chan!FeederCloses
      BY <2>2, ChanAside DEF ChanInv, Closing, Chan!FeederCloses, Chan!pool, hands
    <2>3. CASE Chan!CloserCloses
      BY <2>3, ChanAside DEF ChanInv, Closing, Chan!CloserCloses, Chan!pool, hands
    <2>4. CASE Chan!Return
      BY <2>4, ChanAside DEF ChanInv, Closing, Chan!Return, Chan!pool, hands
    <2> QED BY <1>3, <2>1, <2>2, <2>3, <2>4
  <1>4. CASE Chan!FanOut
    <2> DEFINE w == started + 1
    <2>0. w \in Chan!W /\ w > started /\ \A v \in Chan!W : v > w <=> (v > started /\ v # w)
      <3>1. started \in Nat /\ started < Workers /\ Workers \in Nat
        BY <1>4 DEF Chan!FanOut, ChanInv, ChanTypes, Fans
      <3>2. w \in 1..Workers /\ w > started
        BY <3>1
      <3>3. ASSUME NEW v \in 1..Workers PROVE v > w <=> (v > started /\ v # w)
        BY <3>1
      <3> QED BY <3>2, <3>3 DEF Chan!W
    <2>1. /\ worker[w] = "idle" /\ main = "fanOut" /\ started' = w /\ started' \in 0..Workers
          /\ worker' = [worker EXCEPT ![w] = "recv"] /\ wg' = wg + 1
          /\ UNCHANGED <<main, fed, job, closed, got>>
      <3>1. w \in 0..Workers
        BY <2>0 DEF Chan!W, Fans
      <3> QED BY <1>4, <2>0, <3>1 DEF Chan!FanOut, ChanInv, Closing
    <2> HIDE DEF w
    <2>2. ChanTypes'
      BY <2>0, <2>1 DEF ChanInv, ChanTypes
    <2>3. Busy' = Busy \cup {w} /\ w \in Chan!W \ Busy
      BY <2>0, <2>1 DEF ChanInv, ChanTypes, Busy
    <2>4. wg' = Cardinality(Busy')
      BY <2>1, <2>3, BusyCount DEF ChanInv, Closing
    <2>5. \A v \in Chan!W : (worker'[v] = "idle" <=> v > started')
                         /\ (worker'[v] = "ended" <=> worker[v] = "ended")
      BY <2>0, <2>1 DEF ChanInv, ChanTypes, Closing
    <2>6. Closing'
      BY <2>1, <2>4, <2>5 DEF ChanInv, Closing
    <2>7. \A v \in Chan!W : Has(v)' <=> Has(v)
      BY <2>1 DEF ChanInv, ChanTypes, Has
    <2>8. Dealt'
      <3>1. fed' = fed /\ job' = job /\ Fan!Range(got)' = Fan!Range(got) /\ Dealt
        BY <2>1 DEF ChanInv, Fan!Range
      <3> QED BY <2>7, <3>1 DEF Dealt
    <2> QED BY <2>2, <2>6, <2>8 DEF ChanInv
  <1>5. ASSUME NEW w \in Chan!W, Chan!JobSend(w) PROVE ChanInv'
    <2>1. /\ fed < Jobs /\ worker[w] = "recv" /\ fed' = fed + 1
          /\ worker' = [worker EXCEPT ![w] = "send"] /\ job' = [job EXCEPT ![w] = fed + 1]
          /\ UNCHANGED <<main, started, wg, closed, got>>
      BY <1>5 DEF Chan!JobSend
    <2>2. ChanTypes'
      BY <2>1 DEF ChanInv, ChanTypes, Fans
    <2>3. Busy' = Busy
      BY <2>1 DEF ChanInv, ChanTypes, Busy
    <2>4. \A v \in Chan!W : (worker'[v] = "idle" <=> worker[v] = "idle")
                         /\ (worker'[v] = "ended" <=> worker[v] = "ended")
      BY <2>1 DEF ChanInv, ChanTypes
    <2>5. "jobs" \notin closed
      BY <2>1 DEF ChanInv, ChanTypes, Closing, Fans
    <2>6. Closing'
      BY <2>1, <2>3, <2>4, <2>5 DEF ChanInv, Closing
    <2>7. /\ Has(w)' /\ ~Has(w) /\ job'[w] = fed + 1
          /\ \A v \in Chan!W \ {w} : Has(v)' = Has(v) /\ job'[v] = job[v]
      BY <2>1 DEF ChanInv, ChanTypes, Has
    <2>8. Fan!Range(got)' = Fan!Range(got)
      BY <2>1 DEF Fan!Range
    <2>9. /\ 1..fed \subseteq 1..(fed + 1) /\ fed + 1 \in 1..(fed + 1) /\ fed + 1 \notin 1..fed
          /\ \A j \in 1..(fed + 1) : j = fed + 1 \/ j \in 1..fed
      BY DEF ChanInv, ChanTypes, Fans
    <2>10. Dealt'
      <3>1. Fan!Range(got)' \subseteq 1..fed'
        BY <2>1, <2>8, <2>9 DEF ChanInv, Dealt
      <3>2. \A v \in Chan!W : Has(v)' => job'[v] \in (1..fed') \ Fan!Range(got)'
        BY <2>1, <2>7, <2>8, <2>9 DEF ChanInv, Dealt
      <3>3. \A u, v \in Chan!W : Has(u)' /\ Has(v)' /\ job'[u] = job'[v] => u = v
        BY <2>1, <2>7, <2>9 DEF ChanInv, Dealt
      <3>4. \A j \in 1..fed' : j \in Fan!Range(got)' \/ \E v \in Chan!W : Has(v)' /\ job'[v] = j
        <4> SUFFICES ASSUME NEW j \in 1..fed', j \notin Fan!Range(got)'
                     PROVE  \E v \in Chan!W : Has(v)' /\ job'[v] = j
          OBVIOUS
        <4>1. CASE j = fed + 1
          BY <2>7, <4>1
        <4>2. CASE j \in 1..fed
          <5>1. PICK v \in Chan!W : Has(v) /\ job[v] = j
            BY <2>8, <4>2 DEF ChanInv, Dealt
          <5> QED BY <2>7, <5>1
        <4> QED BY <2>1, <2>9, <4>1, <4>2
      <3> QED BY <3>1, <3>2, <3>3, <3>4 DEF Dealt
    <2> QED BY <2>2, <2>6, <2>10 DEF ChanInv
  <1>6. ASSUME NEW w \in Chan!W, Chan!ResultSend(w) PROVE ChanInv'
    <2>1. /\ main = "collect" /\ worker[w] = "send" /\ got' = Append(got, job[w])
          /\ worker' = [worker EXCEPT ![w] = "recv"]
          /\ UNCHANGED <<main, started, fed, job, wg, closed>>
      BY <1>6 DEF Chan!ResultSend
    <2>2. job[w] \in 1..fed /\ job[w] \in 1..Jobs /\ job[w] \notin Fan!Range(got)
      BY <2>1 DEF ChanInv, ChanTypes, Dealt, Has, Fans
    <2>3. got' \in Seq(1..Jobs) /\ Fan!Range(got)' = Fan!Range(got) \cup {job[w]}
      BY <2>1, <2>2, OneMore DEF ChanInv, ChanTypes
    <2>4. ChanTypes'
      BY <2>1, <2>3 DEF ChanInv, ChanTypes
    <2>5. Busy' = Busy
      BY <2>1 DEF ChanInv, ChanTypes, Busy
    <2>6. \A v \in Chan!W : (worker'[v] = "idle" <=> worker[v] = "idle")
                         /\ (worker'[v] = "ended" <=> worker[v] = "ended")
      BY <2>1 DEF ChanInv, ChanTypes
    <2>7. Closing'
      BY <2>1, <2>5, <2>6 DEF ChanInv, Closing
    <2>8. ~Has(w)' /\ Has(w) /\ \A v \in Chan!W \ {w} : Has(v)' = Has(v)
      BY <2>1 DEF ChanInv, ChanTypes, Has
    <2>9. Dealt'
      <3>1. Fan!Range(got)' \subseteq 1..fed'
        BY <2>1, <2>2, <2>3 DEF ChanInv, Dealt
      <3>2. \A v \in Chan!W : Has(v)' => job'[v] \in (1..fed') \ Fan!Range(got)'
        BY <2>1, <2>3, <2>8 DEF ChanInv, Dealt
      <3>3. \A u, v \in Chan!W : Has(u)' /\ Has(v)' /\ job'[u] = job'[v] => u = v
        BY <2>1, <2>8 DEF ChanInv, Dealt
      <3>4. \A j \in 1..fed' : j \in Fan!Range(got)' \/ \E v \in Chan!W : Has(v)' /\ job'[v] = j
        <4> SUFFICES ASSUME NEW j \in 1..fed, j \notin Fan!Range(got)'
                     PROVE  \E v \in Chan!W : Has(v)' /\ job[v] = j
          BY <2>1
        <4>1. PICK v \in Chan!W : Has(v) /\ job[v] = j
          BY <2>3 DEF ChanInv, Dealt
        <4>2. v # w
          BY <2>3, <4>1
        <4> QED BY <2>8, <4>1, <4>2
      <3> QED BY <3>1, <3>2, <3>3, <3>4 DEF Dealt
    <2> QED BY <2>4, <2>7, <2>9 DEF ChanInv
  <1>7. ASSUME NEW w \in Chan!W, Chan!WorkerDone(w) PROVE ChanInv'
    <2>1. /\ worker[w] = "recv" /\ "jobs" \in closed
          /\ worker' = [worker EXCEPT ![w] = "ended"] /\ wg' = wg - 1
          /\ UNCHANGED <<main, started, fed, job, closed, got>>
      BY <1>7 DEF Chan!WorkerDone
    <2>2. ChanTypes'
      BY <2>1 DEF ChanInv, ChanTypes
    <2>3. Busy' = Busy \ {w} /\ w \in Busy
      BY <2>1 DEF ChanInv, ChanTypes, Busy
    <2>4. wg' = Cardinality(Busy') /\ wg # 0
      BY <2>1, <2>3, BusyCount DEF ChanInv, Closing
    <2>5. \A v \in Chan!W : worker'[v] = "idle" <=> worker[v] = "idle"
      BY <2>1 DEF ChanInv, ChanTypes
    <2>6. Closing'
      BY <2>1, <2>4, <2>5 DEF ChanInv, Closing
    <2>7. \A v \in Chan!W : Has(v)' <=> Has(v)
      BY <2>1 DEF ChanInv, ChanTypes, Has
    <2>8. Dealt'
      BY <2>1, <2>7 DEF ChanInv, Dealt, Fan!Range
    <2> QED BY <2>2, <2>6, <2>8 DEF ChanInv
  <1>8. CASE UNCHANGED Chan!vars
    <2>1. UNCHANGED hands /\ main' = main /\ closed' = closed
      BY <1>8 DEF Chan!vars, Chan!pool, hands
    <2> QED BY <2>1, ChanAside DEF ChanInv, Closing
  <1> QED BY <1>1, <1>2, <1>3, <1>4, <1>5, <1>6, <1>7, <1>8
          DEF Chan!Next, Chan!Step, Chan!Main, Chan!Finished

(* Every step is a step of FanIn, or none. *)
LEMMA ChanFan == ASSUME Fans, ChanInv, [Chan!Next]_(Chan!vars) PROVE [Fan!Next]_(Fan!vars)
  <1> SUFFICES Fan!Next \/ (got' = got /\ (main' = "returned") = (main = "returned"))
    BY DEF Fan!vars
  <1>1. CASE Chan!Rendezvous \/ Chan!GreeterPrints \/ Chan!BufferSend \/ Chan!BufferReceive
    BY <1>1 DEF Chan!Rendezvous, Chan!GreeterPrints, Chan!BufferSend, Chan!BufferReceive
  <1>2. CASE \/ Chan!Produce \/ Chan!ProduceCloses \/ Chan!RangeEnds \/ Chan!FanOut
             \/ Chan!FanOutDone \/ Chan!FeederCloses \/ Chan!CloserCloses \/ UNCHANGED Chan!vars
    BY <1>2 DEF Chan!Produce, Chan!ProduceCloses, Chan!RangeEnds, Chan!FanOut, Chan!FanOutDone,
                Chan!FeederCloses, Chan!CloserCloses, Chan!vars
  <1>3. CASE Chan!Return
    <2>1. /\ main = "collect" /\ main' = "returned" /\ got' = got
          /\ Fan!Range(got) = 1..Jobs
      BY <1>3, AllCollected DEF Chan!Return
    <2>2. ~(main = "returned") /\ (main' = "returned") = TRUE
      BY <2>1
    <2> QED BY <2>1, <2>2, Zenon DEF Fan!Next, Fan!Return
  <1>4. ASSUME NEW w \in Chan!W, Chan!ResultSend(w) PROVE Fan!Next
    <2>1. job[w] \in 1..Jobs /\ job[w] \notin Fan!Range(got)
      BY <1>4 DEF Chan!ResultSend, ChanInv, ChanTypes, Dealt, Has, Fans
    <2>2. main = "collect" /\ main' = main /\ got' = Append(got, job[w])
      BY <1>4 DEF Chan!ResultSend
    <2>3. ~(main = "returned") /\ (main' = "returned") = (main = "returned")
      BY <2>2
    <2> QED BY <2>1, <2>2, <2>3, Zenon DEF Fan!Next, Fan!Collect
  <1>5. ASSUME NEW w \in Chan!W, Chan!JobSend(w) \/ Chan!WorkerDone(w)
        PROVE  got' = got /\ main' = main
    BY <1>5 DEF Chan!JobSend, Chan!WorkerDone
  <1> QED BY <1>1, <1>2, <1>3, <1>4, <1>5 DEF Chan!Next, Chan!Step, Chan!Main, Chan!Finished

(* fanOutCollect collects the result of every job once, and returns when,  *)
(* and only when, it has them all: the program, and the run of which it is *)
(* one, implement FanIn.                                                   *)
THEOREM ChannelsRefine ==
  ASSUME Fans
  PROVE  /\ Chan!Spec => Fan!Spec
         /\ Spec => ImplementsFanIn
  <1> DEFINE Inv == program = "channels" => ChanInv
  <1>1. Chan!Init => Fan!Init
    BY DEF Chan!Init, Fan!Init
  <1>2. ChanInv /\ [Chan!Next]_(Chan!vars) => [Fan!Next]_(Fan!vars)
    BY ChanFan
  <1>3. Chan!Init => ChanInv
    BY ChanInit
  <1>4. ChanInv /\ [Chan!Next]_(Chan!vars) => ChanInv'
    BY ChanStep
  <1>5. Init => Inv
    BY Begun, ChanInit
  <1>6. Inv /\ [Next]_vars => Inv'
    BY GoesOn, ChanStep
  <1>7. Init => FanOut!Init
    <2> SUFFICES ASSUME Init PROVE FanOut!Init
      OBVIOUS
    <2>1. CASE program = "channels"
      <3>1. got = <<>> /\ main # "returned"
        BY <2>1, Begun DEF Chan!Init
      <3> QED BY <2>1, <3>1 DEF FanOut!Init
    <2>2. CASE program # "channels"
      BY <2>2 DEF FanOut!Init
    <2> QED BY <2>1, <2>2
  <1>8. Inv /\ [Next]_vars => [FanOut!Next]_(FanOut!vars)
    <2> SUFFICES ASSUME Inv, [Next]_vars PROVE [FanOut!Next]_(FanOut!vars)
      OBVIOUS
    <2> DEFINE Got == IF program = "channels" THEN got ELSE <<>>
               Over == program = "channels" /\ main = "returned"
    <2>1. CASE program = "channels"
      <3>1. program' = program /\ [Fan!Next]_(Fan!vars)
        BY <2>1, GoesOn, ChanFan
      <3>2. /\ Got = got /\ Got' = got' /\ Over = (main = "returned") /\ Over' = (main = "returned")'
        BY <2>1, <3>1
      <3>3. CASE UNCHANGED Fan!vars
        BY <3>2, <3>3, Zenon DEF Fan!vars, FanOut!vars
      <3>4. ASSUME NEW j \in 1..Jobs, Fan!Collect(j) PROVE FanOut!Collect(j)
        BY <3>2, <3>4, Zenon DEF Fan!Collect, FanOut!Collect, Fan!Range, FanOut!Range
      <3>5. ASSUME Fan!Return PROVE FanOut!Return
        <4>1. /\ ~(main = "returned") /\ (main' = "returned") = TRUE
              /\ got' = got /\ Fan!Range(got) = 1..Jobs
          BY <3>5, Zenon DEF Fan!Return
        <4>2. main # "returned" /\ main' = "returned"
          BY <4>1
        <4>3. ~Over /\ Over' = TRUE
          BY <2>1, <3>1, <4>2
        <4>4. Got' = Got
          BY <3>2, <4>1
        <4>5. FanOut!Range(Got) = 1..Jobs
          <5>1. FanOut!Range(got) = 1..Jobs
            BY <4>1 DEF Fan!Range, FanOut!Range
          <5>2. FanOut!Range(Got) = FanOut!Range(got)
            BY <2>1
          <5> QED BY <5>1, <5>2
        <4> QED BY <4>3, <4>4, <4>5, Zenon DEF FanOut!Return
      <3> QED BY <3>1, <3>3, <3>4, <3>5 DEF Fan!Next, FanOut!Next
    <2>2. CASE program # "channels"
      <3>1. Got' = Got /\ Over' = Over
        BY <2>2, GoesOn
      <3> QED BY <3>1, Zenon DEF FanOut!vars
    <2> QED BY <2>1, <2>2
  <1> QED BY <1>1, <1>2, <1>3, <1>4, <1>5, <1>6, <1>7, <1>8, PTL
          DEF Chan!Spec, Fan!Spec, Spec, ImplementsFanIn, FanOut!Spec

-----------------------------------------------------------------------------
(* The number of calls of either kind. *)
Timed == Fetches \in Nat /\ LeakyCalls \in Nat

\* A call that main has seen the end of; what a report finds.
Over(c) == c < call \/ (c = call /\ main # "select")
Found == \A c \in Sel!Calls : sender[c] = "ended" \/ (sender[c] = "send" /\ c > Fetches)

SelTypes == /\ main \in {"next", "select", "reported"} /\ call \in 0..(Fetches + LeakyCalls)
            /\ sender \in [Sel!Calls -> {"idle", "sleep", "send", "ended"}]
            /\ outcome \in [Sel!Calls -> {"none", "value", "timeout"}]
            /\ buf \in SUBSET (1..Fetches)
            /\ main = "select" => call \in Sel!Calls

\* An unbuffered send has ended exactly when the call has got its value.
Handed(c) == /\ sender[c] = "idle" <=> c > call
             /\ outcome[c] # "none" <=> Over(c)
             /\ c > Fetches => (outcome[c] = "value" <=> sender[c] = "ended")

SelInv == /\ SelTypes
          /\ \A c \in Sel!Calls : Handed(c)
          /\ main = "reported" => call = Fetches + LeakyCalls /\ Found

LEMMA CallCount ==
  ASSUME Timed
  PROVE  Sel!Cardinality(Sel!Calls) = Fetches + LeakyCalls /\ Sel!Calls = 1..(Fetches + LeakyCalls)
  <1>1. \A S : Sel!Cardinality(S) = Cardinality(S)
    BY Zenon DEF Cardinality, Sel!Cardinality
  <1> DEFINE n == Fetches + LeakyCalls
  <1>2. n \in Nat
    BY DEF Timed
  <1> HIDE DEF n
  <1>3. Cardinality(1..n) = n
    <2>1. Cardinality(1..n) = IF 1 > n THEN 0 ELSE n - 1 + 1
      BY <1>2, FS_Interval
    <2> QED BY <1>2, <2>1
  <1> QED BY <1>1, <1>3, Zenon DEF Sel!Calls, n

LEMMA SelInit == ASSUME Timed, Sel!Init PROVE SelInv
  <1>1. call = 0 /\ main = "next" /\ buf = {}
    BY DEF Sel!Init
  <1>2. \A c \in Sel!Calls : c > 0 /\ sender[c] = "idle" /\ outcome[c] = "none"
    BY CallCount DEF Sel!Init
  <1> QED BY <1>1, <1>2, CallCount DEF Sel!Init, SelInv, SelTypes, Handed, Over, Timed

LEMMA SelStep == ASSUME Timed, SelInv, [Sel!Next]_(Sel!vars) PROVE SelInv'
  <1> USE CallCount
  <1>1. CASE UNCHANGED Sel!vars
    BY <1>1 DEF Sel!vars, SelInv, SelTypes, Handed, Over, Found
  <1>2. CASE Sel!Start
    <2>1. /\ main = "next" /\ call < Fetches + LeakyCalls /\ main' = "select"
          /\ call' = call + 1 /\ sender' = [sender EXCEPT ![call + 1] = "sleep"]
          /\ UNCHANGED <<buf, outcome>>
      BY <1>2 DEF Sel!Start, Sel!Goto
    <2>2. call + 1 \in Sel!Calls /\ SelTypes'
      BY <2>1 DEF SelInv, SelTypes, Timed
    <2>3. \A c \in Sel!Calls : Handed(c)'
      BY <2>1, <2>2 DEF SelInv, SelTypes, Handed, Over, Timed
    <2> QED BY <2>1, <2>2, <2>3 DEF SelInv
  <1>3. ASSUME NEW c \in Sel!Calls, Sel!Wake(c) \/ Sel!SendBuffered(c) PROVE SelInv'
    <2>1. /\ UNCHANGED <<main, call, outcome>>
          /\ \/ /\ sender[c] = "sleep" /\ sender' = [sender EXCEPT ![c] = "send"]
                /\ buf' = buf
             \/ /\ sender[c] = "send" /\ sender' = [sender EXCEPT ![c] = "ended"]
                /\ c <= Fetches /\ buf' = buf \cup {c}
      BY <1>3 DEF Sel!Wake, Sel!SendBuffered, Sel!Goto, Sel!Cap, Timed
    <2>2. SelTypes'
      <3>1. /\ sender' \in [Sel!Calls -> {"idle", "sleep", "send", "ended"}]
            /\ UNCHANGED Sel!Calls
        BY <2>1 DEF SelInv, SelTypes, Sel!Calls
      <3>2. c <= Fetches => c \in 1..Fetches
        BY DEF Timed
      <3>3. buf' \in SUBSET (1..Fetches)
        BY <2>1, <3>2 DEF SelInv, SelTypes
      <3> QED BY <2>1, <3>1, <3>3 DEF SelInv, SelTypes
    <2>3. \A d \in Sel!Calls : Handed(d)'
      BY <2>1 DEF SelInv, SelTypes, Handed, Over, Timed
    <2>4. main # "reported"
      BY <2>1 DEF SelInv, Found, Timed
    <2> QED BY <2>1, <2>2, <2>3, <2>4 DEF SelInv
  <1>4. ASSUME NEW c \in Sel!Calls, Sel!SendRendezvous(c) PROVE SelInv'
    <2>1. /\ main = "select" /\ call = c /\ sender[c] = "send" /\ c > Fetches /\ main' = "next"
          /\ sender' = [sender EXCEPT ![c] = "ended"]
          /\ outcome' = [outcome EXCEPT ![c] = "value"] /\ UNCHANGED <<call, buf>>
      BY <1>4 DEF Sel!SendRendezvous, Sel!Goto, Sel!Ends, Sel!Cap, Timed
    <2>2. SelTypes' /\ \A d \in Sel!Calls : Handed(d)'
      BY <2>1 DEF SelInv, SelTypes, Handed, Over, Timed
    <2> QED BY <2>1, <2>2 DEF SelInv
  <1>5. CASE Sel!Receive \/ Sel!Timeout
    <2>1. /\ main = "select" /\ main' = "next" /\ UNCHANGED <<call, sender>>
          /\ \/ /\ call \in buf /\ buf' = buf \ {call}
                /\ outcome' = [outcome EXCEPT ![call] = "value"]
             \/ buf' = buf /\ outcome' = [outcome EXCEPT ![call] = "timeout"]
      BY <1>5 DEF Sel!Receive, Sel!Timeout, Sel!Ends
    <2>2. call \in Sel!Calls /\ outcome[call] = "none" /\ (call \in buf => call <= Fetches)
      BY <2>1 DEF SelInv, SelTypes, Handed, Over, Timed
    <2>3. SelTypes'
      BY <2>1, <2>2 DEF SelInv, SelTypes
    <2>4. \A d \in Sel!Calls : Handed(d)'
      BY <2>1, <2>2 DEF SelInv, SelTypes, Handed, Over, Timed
    <2> QED BY <2>1, <2>3, <2>4 DEF SelInv
  <1>6. CASE Sel!Report
    <2>1. /\ main = "next" /\ call = Fetches + LeakyCalls /\ main' = "reported"
          /\ \A c \in Sel!Calls : sender[c] = "ended" \/ (sender[c] = "send" /\ c > Fetches)
          /\ UNCHANGED <<call, sender, buf, outcome>>
      BY <1>6 DEF Sel!Report, Sel!Cap, Timed
    <2> QED BY <2>1 DEF SelInv, SelTypes, Handed, Over, Found
  <1>7. ASSUME NEW w \in Sel!W, Sel!StartWorker(w) \/ Sel!WorkerDone(w) PROVE SelInv'
    <2>1. UNCHANGED <<main, call, sender, buf, outcome>>
      BY <1>7 DEF Sel!StartWorker, Sel!WorkerDone
    <2> QED BY <2>1 DEF SelInv, SelTypes, Handed, Over, Found
  <1> QED BY <1>1, <1>2, <1>3, <1>4, <1>5, <1>6, <1>7
          DEF Sel!Next, Sel!Step, Sel!StartFetch, Sel!StartLeaky, Sel!Finished, Sel!vars

LEMMA SelTells == ASSUME Timed, SelInv, main = "reported" PROVE Sel!LeaksExactly
  <1>1. ASSUME NEW c \in Sel!Calls
        PROVE  sender[c] = "send" <=> outcome[c] = "timeout" /\ c > Fetches
    <2>1. Over(c)
      BY CallCount DEF SelInv, Over, Timed
    <2> QED BY <2>1 DEF SelInv, SelTypes, Handed, Found
  <1>2. \A c \in Sel!Calls : sender[c] # "send" => sender[c] = "ended"
    BY DEF SelInv, Found
  <1> QED BY <1>1, <1>2 DEF Sel!LeaksExactly, Sel!Leaked, Sel!TimedOut

(* When leakDemo reports, and from then on, exactly the leaky calls that   *)
(* timed out have left a goroutine blocked in its send, and all others     *)
(* have ended: what LeaksExactly asks of the end, for any number of calls  *)
(* of the program and of the run of which it is one.                       *)
THEOREM LeaksTold ==
  ASSUME Timed
  PROVE  /\ Sel!Spec => [](main = "reported" => Sel!LeaksExactly)
         /\ Spec => [](program = "select" /\ main = "reported" => Sel!LeaksExactly)
  <1> DEFINE Inv == program = "select" => SelInv
  <1>1. Sel!Init => SelInv
    BY SelInit
  <1>2. SelInv /\ [Sel!Next]_(Sel!vars) => SelInv'
    BY SelStep
  <1>3. SelInv => (main = "reported" => Sel!LeaksExactly)
    BY SelTells
  <1>4. Init => Inv
    BY Begun, SelInit
  <1>5. Inv /\ [Next]_vars => Inv'
    BY GoesOn, SelStep
  <1>6. Inv => (program = "select" /\ main = "reported" => Sel!LeaksExactly)
    BY SelTells
  <1> HIDE DEF Inv
  <1> QED BY <1>1, <1>2, <1>3, <1>4, <1>5, <1>6, PTL DEF Sel!Spec, Spec

=============================================================================
