---------------------------- MODULE MetricsProofs ----------------------------
(***************************************************************************)
(* The gauge is exact for any number of tasks in any interleaving: current *)
(* counts the tasks inside, and the high-water mark loses no update.  The  *)
(* pools that carry the gauge inherit both by MetricsStep.                 *)
(***************************************************************************)
EXTENDS Metrics, FiniteSetTheorems, TLAPS

\* A task in enter carries a value not above high, and one about to swap has
\* loaded a mark below its value that has not gone down since.
Locals ==
    /\ \A t \in Tasks : phase[t] \in {"load", "swap"} => cur[t] <= high
    /\ \A t \in Tasks : phase[t] = "swap" => old[t] <= peak /\ old[t] < cur[t]

\* The mark is the maximum, or a task in enter still carries it.
Carried == /\ peak <= high
           /\ peak = high \/ \E t \in Entering : cur[t] = high

MInv == /\ MTypeOK
        /\ current = Cardinality(Counted)
        /\ Locals
        /\ Carried

-----------------------------------------------------------------------------
(* Adding or removing one task changes a cardinality by one. *)
LEMMA TaskCount ==
  ASSUME NEW P \in SUBSET Tasks
  PROVE  /\ IsFiniteSet(P) /\ Cardinality(P) \in Nat
         /\ Cardinality(P) = 0 => P = {}
         /\ \A Q \in SUBSET P : Cardinality(Q) <= Cardinality(P)
         /\ \A t \in Tasks \ P : Cardinality(P \cup {t}) = Cardinality(P) + 1
         /\ \A t \in P : Cardinality(P \ {t}) = Cardinality(P) - 1
  <1>1. IsFiniteSet(P)
    BY TasksAssumption, FS_Subset
  <1>2. \A Q \in SUBSET P : Cardinality(Q) <= Cardinality(P)
    BY <1>1, FS_Subset
  <1>3. \A t \in Tasks \ P : Cardinality(P \cup {t}) = Cardinality(P) + 1
    BY <1>1, FS_AddElement
  <1>4. \A t \in P : Cardinality(P \ {t}) = Cardinality(P) - 1
    BY <1>1, FS_RemoveElement
  <1> QED BY <1>1, <1>2, <1>3, <1>4, FS_CardinalityType, FS_EmptySet

LEMMA MetricsInit == MInit => MInv
  <1>1. Cardinality({}) = 0
    BY FS_EmptySet
  <1>2. MInit => Counted = {}
    BY DEF MInit, Counted
  <1> QED BY <1>1, <1>2 DEF MInit, MInv, MTypeOK, Locals, Carried

LEMMA MetricsStep == MInv /\ [MNext]_mvars => MInv'
  <1> SUFFICES ASSUME MInv, [MNext]_mvars PROVE MInv'
    OBVIOUS
  <1> USE DEF MInv, MTypeOK, Locals, Carried, Entering
  <1>0. Counted \in SUBSET Tasks
    BY DEF Counted
  <1>1. ASSUME NEW t \in Tasks, Add(t) PROVE MInv'
    <2>1. Counted' = Counted \cup {t} /\ t \in Tasks \ Counted
      BY <1>1 DEF Add, Counted
    <2>2. current' = Cardinality(Counted')
      BY <1>0, <1>1, <2>1, TaskCount DEF Add
    <2>3. MTypeOK' /\ Locals'
      BY <1>1 DEF Add
    <2>4. Carried'
      <3>1. CASE current + 1 > high
        <4>1. phase'[t] = "load" /\ cur'[t] = high' /\ peak' = peak
          BY <1>1, <3>1 DEF Add
        <4> QED BY <4>1, <1>1, <3>1 DEF Add
      <3>2. CASE ~(current + 1 > high)
        <4>1. high' = high /\ peak' = peak
          BY <1>1, <3>2 DEF Add
        <4>2. \A u \in Entering : u # t /\ u \in Entering' /\ cur'[u] = cur[u]
          BY <1>1 DEF Add
        <4> QED BY <4>1, <4>2
      <3> QED BY <3>1, <3>2
    <2> QED BY <2>2, <2>3, <2>4
  <1>2. ASSUME NEW t \in Tasks, Load(t) PROVE MInv'
    <2>1. Counted' = Counted
      BY <1>2 DEF Load, Counted
    <2>2. MTypeOK' /\ Locals'
      BY <1>2 DEF Load
    <2>3. Carried'
      <3>1. CASE cur[t] <= peak
        BY <1>2, <3>1 DEF Load
      <3>2. CASE ~(cur[t] <= peak)
        BY <1>2, <3>2 DEF Load
      <3> QED BY <3>1, <3>2
    <2> QED BY <1>2, <2>1, <2>2, <2>3 DEF Load
  <1>3. ASSUME NEW t \in Tasks, CompareAndSwap(t) PROVE MInv'
    <2>1. Counted' = Counted
      BY <1>3 DEF CompareAndSwap, Counted
    <2>2. MTypeOK' /\ Locals'
      BY <1>3 DEF CompareAndSwap
    <2>3. Carried'
      <3>1. CASE peak = old[t]
        <4>1. peak' = cur[t] /\ high' = high /\ peak < cur[t] /\ cur[t] <= high
          BY <1>3, <3>1 DEF CompareAndSwap
        <4>2. \A u \in Entering : u # t => u \in Entering' /\ cur'[u] = cur[u]
          BY <1>3, <3>1 DEF CompareAndSwap
        <4> QED BY <4>1, <4>2
      <3>2. CASE peak # old[t]
        BY <1>3, <3>2 DEF CompareAndSwap
      <3> QED BY <3>1, <3>2
    <2> QED BY <1>3, <2>1, <2>2, <2>3 DEF CompareAndSwap
  <1>4. ASSUME NEW t \in Tasks, Exit(t) PROVE MInv'
    <2>1. Counted' = Counted \ {t} /\ t \in Counted
      BY <1>4 DEF Exit, Counted
    <2>2. current' = Cardinality(Counted') /\ current' \in Nat
      BY <1>0, <1>4, <2>1, TaskCount DEF Exit
    <2>3. MTypeOK' /\ Locals'
      BY <1>4, <2>2 DEF Exit
    <2>4. Carried'
      BY <1>4 DEF Exit
    <2> QED BY <2>2, <2>3, <2>4
  <1>5. CASE UNCHANGED mvars
    BY <1>5 DEF mvars, Counted
  <1> QED BY <1>1, <1>2, <1>3, <1>4, <1>5 DEF MNext

LEMMA MetricsExact == MInv => PeakExact
  BY DEF MInv, Carried, PeakExact

LEMMA MetricsMonotone == MInv /\ [MNext]_mvars => [peak' >= peak]_mvars
  <1> SUFFICES ASSUME MInv, MNext PROVE peak' >= peak
    OBVIOUS
  <1> USE DEF MInv, MTypeOK, Locals
  <1>1. ASSUME NEW t \in Tasks, CompareAndSwap(t) PROVE peak' >= peak
    BY <1>1 DEF CompareAndSwap
  <1>2. ASSUME NEW t \in Tasks, Add(t) \/ Load(t) \/ Exit(t) PROVE peak' >= peak
    BY <1>2 DEF Add, Load, Exit
  <1> QED BY <1>1, <1>2 DEF MNext

=============================================================================
