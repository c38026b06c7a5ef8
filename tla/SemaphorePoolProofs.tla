------------------------- MODULE SemaphorePoolProofs -------------------------
(***************************************************************************)
(* RunSemaphore for every number of tasks and every limit: the bound holds *)
(* because the tokens in the channel are the tasks that hold a slot, and   *)
(* the gauge counts only tasks that hold one.                              *)
(***************************************************************************)
EXTENDS SemaphorePool, MetricsProofs

Live == {t \in Tasks : pc[t] \notin {"idle", "ended"}}

\* Who holds a slot, who is counted inside, who wg waits for.
Slots == /\ sem = Cardinality(Holders) /\ sem <= Limit
         /\ \A t \in Tasks : phase[t] # "out" => pc[t] = "work"
         /\ high <= Limit

Waited == /\ wg = Cardinality(Live)
          /\ \A t \in Tasks : pc[t] = "idle" <=> t > spawned
          /\ main # "spawn" => spawned = N
          /\ main = "returned" => wg = 0

PoolTypes == /\ main \in {"spawn", "wait", "returned"} /\ spawned \in 0..N
             /\ pc \in [Tasks -> {"idle", "acquire", "work", "release", "done", "ended"}]
             /\ sem \in Nat /\ wg \in Nat
             /\ cancelled \in BOOLEAN

IInv == PoolTypes /\ MInv /\ Slots /\ Waited

-----------------------------------------------------------------------------
LEMMA InitIInv == Init => IInv
  <1> SUFFICES ASSUME Init PROVE IInv
    OBVIOUS
  <1> USE PoolAssumption DEF Init
  <1>1. MInv
    BY MetricsInit
  <1>2. Cardinality({}) = 0 /\ Holders = {} /\ Live = {}
    BY FS_EmptySet DEF Holders, Live
  <1>3. PoolTypes
    <2>1. pc \in [Tasks -> {"idle", "acquire", "work", "release", "done", "ended"}]
      OBVIOUS
    <2>2. cancelled \in BOOLEAN
      OBVIOUS
    <2> QED BY <2>1, <2>2 DEF PoolTypes
  <1>4. Slots
    BY <1>2 DEF Slots, MInit
  <1>5. Waited
    BY <1>2 DEF Waited
  <1> QED BY <1>1, <1>3, <1>4, <1>5 DEF IInv

(* Every step of the pool is a step of the gauge, or leaves it alone. *)
LEMMA GaugeStep == IInv /\ [Next]_vars => [MNext]_mvars
  <1> SUFFICES ASSUME [Next]_vars PROVE MNext \/ UNCHANGED mvars
    OBVIOUS
  <1>1. CASE Spawn \/ SpawnDone \/ Return \/ Cancel \/ Finished
    BY <1>1 DEF Spawn, SpawnDone, Return, Cancel, Finished, vars
  <1>2. ASSUME NEW t \in Tasks, Enter(t) \/ Leave(t) PROVE MNext
    BY <1>2 DEF Enter, Leave, MNext
  <1>3. ASSUME NEW t \in Tasks, Acquire(t) \/ Abandon(t) \/ Release(t) \/ Done(t)
        PROVE  UNCHANGED mvars
    BY <1>3 DEF Acquire, Abandon, Release, Done
  <1>4. CASE UNCHANGED vars
    BY <1>4 DEF vars
  <1> QED BY <1>1, <1>2, <1>3, <1>4 DEF Next, Step, Task

LEMMA TypesStep == IInv /\ [Next]_vars => PoolTypes'
  <1> SUFFICES ASSUME IInv, [Next]_vars PROVE PoolTypes'
    OBVIOUS
  <1> USE PoolAssumption DEF IInv, PoolTypes, Goto, mainVars
  <1>0. Live \in SUBSET Tasks
    BY DEF Live
  <1>1. CASE Spawn
    BY <1>1 DEF Spawn
  <1>2. CASE SpawnDone \/ Return \/ Cancel \/ Finished \/ UNCHANGED vars
    BY <1>2 DEF SpawnDone, Return, Cancel, Finished, vars
  <1>3. ASSUME NEW t \in Tasks, Acquire(t) \/ Abandon(t) \/ Release(t)
        PROVE  PoolTypes'
    BY <1>3 DEF Acquire, Abandon, Release
  <1>4. ASSUME NEW t \in Tasks, Enter(t) \/ Leave(t) PROVE PoolTypes'
    BY <1>4 DEF Enter, Leave
  <1>5. ASSUME NEW t \in Tasks, Done(t) PROVE PoolTypes'
    <2>1. t \in Live
      BY <1>5 DEF Done, Live
    <2>2. wg # 0
      BY <1>0, <2>1, TaskCount DEF Waited
    <2> QED BY <1>5, <2>2 DEF Done
  <1> QED BY <1>1, <1>2, <1>3, <1>4, <1>5 DEF Next, Step, Task

(* A slot is taken and given back by the task that holds it. *)
LEMMA SlotsStep == IInv /\ [Next]_vars => Slots'
  <1> SUFFICES ASSUME IInv, [Next]_vars PROVE Slots'
    OBVIOUS
  <1> USE PoolAssumption DEF IInv, PoolTypes, Slots, Goto, mainVars
  <1>0. Holders \in SUBSET Tasks
    BY DEF Holders
  <1>1. ASSUME UNCHANGED <<pc, sem, mvars>> PROVE Slots'
    BY <1>1 DEF Holders, mvars
  <1>2. CASE SpawnDone \/ Return \/ Cancel \/ Finished \/ UNCHANGED vars
    BY <1>1, <1>2 DEF SpawnDone, Return, Cancel, Finished, vars
  <1>3. CASE Spawn
    <2>1. Holders' = Holders
      BY <1>3 DEF Spawn, Holders
    <2> QED BY <1>3, <2>1 DEF Spawn, mvars
  <1>4. ASSUME NEW t \in Tasks, Acquire(t) PROVE Slots'
    <2>1. Holders' = Holders \cup {t} /\ t \in Tasks \ Holders
      BY <1>4 DEF Acquire, Holders
    <2>2. sem' = Cardinality(Holders')
      BY <1>0, <1>4, <2>1, TaskCount DEF Acquire
    <2> QED BY <1>4, <2>2 DEF Acquire, mvars
  <1>5. ASSUME NEW t \in Tasks, Abandon(t) \/ Done(t) PROVE Slots'
    <2>1. Holders' = Holders
      BY <1>5 DEF Abandon, Done, Holders
    <2> QED BY <1>5, <2>1 DEF Abandon, Done, mvars
  <1>6. ASSUME NEW t \in Tasks, Release(t) PROVE Slots'
    <2>1. Holders' = Holders \ {t} /\ t \in Holders
      BY <1>6 DEF Release, Holders
    <2>2. sem' = Cardinality(Holders')
      BY <1>0, <1>6, <2>1, TaskCount DEF Release
    <2> QED BY <1>6, <2>2 DEF Release, mvars
  <1>7. ASSUME NEW t \in Tasks, Leave(t) PROVE Slots'
    <2>1. Holders' = Holders
      BY <1>7 DEF Leave, Holders
    <2> QED BY <1>7, <2>1 DEF Leave, Exit, MInv, MTypeOK
  <1>8. ASSUME NEW t \in Tasks, Enter(t) PROVE Slots'
    <2>1. Holders' = Holders /\ sem' = sem
      BY <1>8 DEF Enter, Holders
    <2>2. \A u \in Tasks : phase'[u] # "out" => pc'[u] = "work"
      BY <1>8 DEF Enter, Add, Load, CompareAndSwap, MInv, MTypeOK
    <2>3. high' <= Limit
      <3>1. CASE Add(t)
        <4>1. Counted \cup {t} \subseteq Holders /\ t \notin Counted
          BY <1>8, <3>1 DEF Enter, Add, Counted, Holders
        <4>2. current + 1 <= Cardinality(Holders)
          <5>1. Counted \in SUBSET Tasks /\ Counted \cup {t} \in SUBSET Tasks
            BY DEF Counted
          <5>2. Cardinality(Counted \cup {t}) = current + 1
            BY <4>1, <5>1, TaskCount DEF MInv
          <5> QED BY <1>0, <4>1, <5>2, TaskCount
        <4>3. Cardinality(Holders) \in Nat
          BY <1>0, TaskCount
        <4> QED BY <3>1, <4>2, <4>3 DEF Add, MInv, MTypeOK
      <3>2. CASE Load(t) \/ CompareAndSwap(t)
        BY <3>2 DEF Load, CompareAndSwap
      <3> QED BY <1>8, <3>1, <3>2 DEF Enter
    <2> QED BY <2>1, <2>2, <2>3
  <1> QED BY <1>2, <1>3, <1>4, <1>5, <1>6, <1>7, <1>8 DEF Next, Step, Task

(* The WaitGroup counts the goroutines that have started and not ended. *)
LEMMA WaitedStep == IInv /\ [Next]_vars => Waited'
  <1> SUFFICES ASSUME IInv, [Next]_vars PROVE Waited'
    OBVIOUS
  <1> USE PoolAssumption DEF IInv, PoolTypes, Waited, Goto, mainVars
  <1>0. Live \in SUBSET Tasks
    BY DEF Live
  <1>1. CASE Spawn
    <2>1. Live' = Live \cup {spawned + 1} /\ spawned + 1 \in Tasks \ Live
      BY <1>1 DEF Spawn, Live
    <2>2. wg' = Cardinality(Live')
      BY <1>0, <1>1, <2>1, TaskCount DEF Spawn
    <2> QED BY <1>1, <2>2 DEF Spawn
  <1>2. CASE SpawnDone \/ Return \/ Cancel \/ Finished \/ UNCHANGED vars
    BY <1>2 DEF SpawnDone, Return, Cancel, Finished, vars, Live
  <1>3. ASSUME NEW t \in Tasks,
               Acquire(t) \/ Abandon(t) \/ Leave(t) \/ Release(t) \/ Enter(t)
        PROVE  Waited'
    <2>1. Live' = Live
      BY <1>3 DEF Acquire, Abandon, Leave, Release, Enter, Live
    <2> QED BY <1>3, <2>1 DEF Acquire, Abandon, Leave, Release, Enter
  <1>4. ASSUME NEW t \in Tasks, Done(t) PROVE Waited'
    <2>1. Live' = Live \ {t} /\ t \in Live
      BY <1>4 DEF Done, Live
    <2>2. wg' = Cardinality(Live') /\ main # "returned"
      BY <1>0, <1>4, <2>1, TaskCount DEF Done
    <2> QED BY <1>4, <2>2 DEF Done
  <1> QED BY <1>1, <1>2, <1>3, <1>4 DEF Next, Step, Task

(* The strengthened invariant holds in every run of the pool.              *)
THEOREM Invariance == Spec => []IInv
  <1>1. IInv /\ [Next]_vars => IInv'
    BY TypesStep, SlotsStep, WaitedStep, GaugeStep, MetricsStep DEF IInv
  <1> QED BY InitIInv, <1>1, PTL DEF Spec

-----------------------------------------------------------------------------
(* At most Limit tasks are ever inside, and the mark never says more. *)
THEOREM BoundHolds == Spec => []Bounded
  <1>1. IInv => Bounded
    <2> SUFFICES ASSUME IInv PROVE Bounded
      OBVIOUS
    <2>1. Counted \subseteq Holders /\ Holders \in SUBSET Tasks
      BY DEF IInv, Slots, Counted, Holders
    <2>2. current <= Cardinality(Holders)
      BY <2>1, TaskCount DEF IInv, MInv
    <2> QED BY <2>2, PoolAssumption
         DEF IInv, MInv, MTypeOK, Carried, PoolTypes, Slots, Bounded
  <1> QED BY Invariance, <1>1, PTL

(* The mark is the true maximum whenever no task is updating it. *)
THEOREM MarkExact == Spec => []PeakExact
  <1>1. IInv => PeakExact
    BY MetricsExact DEF IInv
  <1> QED BY Invariance, <1>1, PTL

(* The mark never goes down. *)
THEOREM MarkMonotone == Spec => PeakMonotone
  <1>1. IInv /\ [Next]_vars => [peak' >= peak]_mvars
    BY GaugeStep, MetricsMonotone DEF IInv
  <1> QED BY Invariance, <1>1, PTL DEF Spec, PeakMonotone

(* A returned call has left no task, slot or count behind. *)
THEOREM CleanReturn == Spec => []ReturnsClean
  <1>1. IInv => ReturnsClean
    <2> SUFFICES ASSUME IInv, main = "returned"
                 PROVE  current = 0 /\ sem = 0 /\ \A t \in Tasks : pc[t] = "ended"
      BY DEF ReturnsClean
    <2>1. Live \in SUBSET Tasks
      BY DEF Live
    <2>2. Live = {}
      BY <2>1, TaskCount DEF IInv, Waited
    <2>3. \A t \in Tasks : pc[t] = "ended"
      BY <2>2, PoolAssumption DEF IInv, Waited, Live
    <2>4. Holders = {} /\ Counted = {}
      BY <2>3 DEF IInv, Slots, Holders, Counted
    <2> QED BY <2>3, <2>4, FS_EmptySet DEF IInv, Slots, MInv
  <1> QED BY Invariance, <1>1, PTL

(* Every variable keeps its type. *)
THEOREM TypeCorrect == Spec => []TypeOK
  <1>1. IInv => TypeOK
    <2> SUFFICES ASSUME IInv PROVE TypeOK
      OBVIOUS
    <2>1. Live \in SUBSET Tasks /\ Tasks \in SUBSET Tasks
      BY DEF Live
    <2>2. Cardinality(Tasks) = N
      BY FS_Interval, PoolAssumption
    <2>3. wg \in 0..N
      BY <2>1, <2>2, TaskCount, PoolAssumption DEF IInv, Waited
    <2> QED BY <2>3, PoolAssumption DEF IInv, PoolTypes, Slots, MInv, TypeOK
  <1> QED BY Invariance, <1>1, PTL

(* The pool implements BoundedRun: a slot taken is a task started, and the *)
(* call returns only when every task has ended or been given up.           *)
THEOREM Refinement == Spec => ImplementsBoundedRun
  <1> DEFINE Over == {t \in Tasks : pc[t] \in {"done", "ended"}}
  <1>1. Init => Abstract!Init
    <2> SUFFICES ASSUME Init PROVE Abstract!Init
      OBVIOUS
    <2>1. Holders = {} /\ Over = {}
      BY DEF Init, Holders
    <2>2. (main = "returned") = FALSE
      BY DEF Init
    <2> QED BY <2>1, <2>2, Zenon DEF Abstract!Init
  <1>2. IInv /\ [Next]_vars => [Abstract!Next]_Abstract!vars
    <2> SUFFICES ASSUME IInv, [Next]_vars
                 PROVE  Abstract!Next \/ UNCHANGED Abstract!vars
      OBVIOUS
    <2> USE PoolAssumption DEF IInv, PoolTypes, Goto
    <2>1. ASSUME Holders' = Holders, Over' = Over,
                 (main' = "returned") = (main = "returned")
          PROVE  UNCHANGED Abstract!vars
      BY <2>1, Zenon DEF Abstract!vars
    <2>2. CASE Spawn \/ SpawnDone \/ Cancel \/ Finished \/ UNCHANGED vars
      <3>1. Holders' = Holders /\ Over' = Over
        BY <2>2 DEF Spawn, SpawnDone, Cancel, Finished, vars, Holders
      <3>2. (main' = "returned") = (main = "returned")
        BY <2>2 DEF Spawn, SpawnDone, Cancel, Finished, vars, mainVars
      <3> QED BY <2>1, <3>1, <3>2
    <2>3. ASSUME NEW t \in Tasks, Enter(t) \/ Leave(t) \/ Done(t)
          PROVE  UNCHANGED Abstract!vars
      <3>1. Holders' = Holders /\ Over' = Over
        BY <2>3 DEF Enter, Leave, Done, Holders
      <3>2. (main' = "returned") = (main = "returned")
        BY <2>3 DEF Enter, Leave, Done, mainVars
      <3> QED BY <2>1, <3>1, <3>2
    <2>4. ASSUME NEW t \in Tasks, Acquire(t) PROVE Abstract!Start(t)
      <3>1. /\ t \notin Holders \cup Over
            /\ Holders' = Holders \cup {t} /\ Over' = Over
        BY <2>4 DEF Acquire, Holders
      <3>2. Abstract!Cardinality(Holders) < Limit
        BY <2>4 DEF Acquire, Slots, Cardinality, Abstract!Cardinality
      <3>3. (main' = "returned") = (main = "returned")
        BY <2>4 DEF Acquire, mainVars
      <3> QED BY <3>1, <3>2, <3>3, Zenon DEF Abstract!Start
    <2>5. ASSUME NEW t \in Tasks, Abandon(t) PROVE Abstract!GiveUp(t)
      <3>1. /\ t \notin Holders \cup Over
            /\ Holders' = Holders /\ Over' = Over \cup {t}
        BY <2>5 DEF Abandon, Holders
      <3>2. (main' = "returned") = (main = "returned")
        BY <2>5 DEF Abandon, mainVars
      <3> QED BY <3>1, <3>2, Zenon DEF Abstract!GiveUp
    <2>6. ASSUME NEW t \in Tasks, Release(t) PROVE Abstract!Finish(t)
      <3>1. /\ t \in Holders
            /\ Holders' = Holders \ {t} /\ Over' = Over \cup {t}
        BY <2>6 DEF Release, Holders
      <3>2. (main' = "returned") = (main = "returned")
        BY <2>6 DEF Release, mainVars
      <3> QED BY <3>1, <3>2, Zenon DEF Abstract!Finish
    <2>7. CASE Return
      <3>1. Live \in SUBSET Tasks
        BY DEF Live
      <3>2. Live = {}
        BY <2>7, <3>1, TaskCount DEF Return, Waited
      <3>3. Over = Tasks
        BY <2>7, <3>2 DEF Return, Waited, Live
      <3>4. Holders' = Holders /\ Over' = Over
        BY <2>7 DEF Return, Holders
      <3>5. ~(main = "returned") /\ (main' = "returned") = TRUE
        BY <2>7 DEF Return
      <3> QED BY <3>3, <3>4, <3>5, Zenon DEF Abstract!Return, Abstract!Next
    <2> QED BY <2>2, <2>3, <2>4, <2>5, <2>6, <2>7
         DEF Next, Step, Task, Abstract!Next
  <1> QED BY <1>1, <1>2, Invariance, PTL DEF Spec, ImplementsBoundedRun, Abstract!Spec

=============================================================================
