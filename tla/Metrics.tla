------------------------------- MODULE Metrics -------------------------------
(***************************************************************************)
(* The concurrency gauge of week 4, exercise 2: two atomic counters, the   *)
(* number of tasks inside and its high-water mark, the latter kept by a    *)
(* compare-and-swap retry loop.  One step per atomic operation.            *)
(***************************************************************************)
EXTENDS Integers, FiniteSets

CONSTANT Tasks        \* the tasks that call enter and exit

ASSUME TasksAssumption == IsFiniteSet(Tasks)

VARIABLES current,    \* how many tasks are inside
          peak,       \* the high-water mark
          phase,      \* where each task is in enter, exit
          cur, old,   \* enter's locals, per task
          high        \* history: the largest value current ever had

mvars == <<current, peak, phase, cur, old, high>>

MInit == /\ current = 0 /\ peak = 0 /\ high = 0
         /\ phase = [t \in Tasks |-> "out"]
         /\ cur = [t \in Tasks |-> 0]
         /\ old = [t \in Tasks |-> 0]

\* cur := m.current.Add(1)
Add(t) == /\ phase[t] = "out"
          /\ current' = current + 1
          /\ cur' = [cur EXCEPT ![t] = current + 1]
          /\ high' = IF current + 1 > high THEN current + 1 ELSE high
          /\ phase' = [phase EXCEPT ![t] = "load"]
          /\ UNCHANGED <<peak, old>>

\* old := m.peak.Load(); enter returns when cur <= old.
Load(t) == /\ phase[t] = "load"
           /\ old' = [old EXCEPT ![t] = peak]
           /\ phase' = [phase EXCEPT ![t] = IF cur[t] <= peak THEN "in" ELSE "swap"]
           /\ UNCHANGED <<current, peak, cur, high>>

\* Mutant: peak is stored without comparing it with what was loaded.
CompareAndSwap_Store(t) ==
    /\ phase[t] = "swap"
    /\ peak' = cur[t]
    /\ phase' = [phase EXCEPT ![t] = "in"]
    /\ UNCHANGED <<current, cur, old, high>>

\* m.peak.CompareAndSwap(old, cur), and round the loop again if it fails.
CompareAndSwap(t) ==
    /\ phase[t] = "swap"
    /\ \/ /\ peak = old[t]
          /\ peak' = cur[t]
          /\ phase' = [phase EXCEPT ![t] = "in"]
       \/ /\ peak # old[t]
          /\ phase' = [phase EXCEPT ![t] = "load"]
          /\ UNCHANGED peak
    /\ UNCHANGED <<current, cur, old, high>>

\* m.current.Add(-1)
Exit(t) == /\ phase[t] = "in"
           /\ current' = current - 1
           /\ phase' = [phase EXCEPT ![t] = "out"]
           /\ UNCHANGED <<peak, cur, old, high>>

MNext == \E t \in Tasks : Add(t) \/ Load(t) \/ CompareAndSwap(t) \/ Exit(t)

MSpec == MInit /\ [][MNext]_mvars

-----------------------------------------------------------------------------
Entering == {t \in Tasks : phase[t] \in {"load", "swap"}}
Counted == {t \in Tasks : phase[t] # "out"}

(* Every variable has its type. *)
MTypeOK == /\ current \in Nat /\ peak \in Nat /\ high \in Nat
           /\ phase \in [Tasks -> {"out", "load", "swap", "in"}]
           /\ cur \in [Tasks -> Nat] /\ old \in [Tasks -> Nat]

(* Whenever no task is inside enter, the mark is exact: it is the largest  *)
(* number of tasks that were ever inside at once.  No update is lost to a  *)
(* concurrent one, and a stale one never overwrites it.                    *)
PeakExact == Entering = {} => peak = high

(* The mark never goes down. *)
PeakMonotone == [][peak' >= peak]_mvars

=============================================================================
