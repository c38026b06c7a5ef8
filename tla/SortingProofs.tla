---------------------------- MODULE SortingProofs ----------------------------
(***************************************************************************)
(* The programs whose results are sorted, and what runs beside them.       *)
(*                                                                         *)
(* SquareAll, for every input slice and every number of workers: no channel*)
(* misuse, nothing lost or duplicated, the sorted squares returned, and the*)
(* refinement of FanIn.  The invariant Progress says how far each goroutine*)
(* can be, given where the others are; the WaitGroup's counter is the      *)
(* number of forwarders that have not called Done.                         *)
(*                                                                         *)
(* FuzzParseQuery, for inputs of any length: the second parse reads again, *)
(* field by field, what String has written of the first query.             *)
(*                                                                         *)
(* The error chains and the functions of notesx, for arguments of any size.*)
(***************************************************************************)
EXTENDS FanPipeline, MCFunctions, FiniteSetTheorems, WellFoundedInduction, TLAPS

-----------------------------------------------------------------------------
(* A set of natural numbers that is not empty has a least element. *)
LEMMA Least ==
  ASSUME NEW T \in SUBSET Nat, T # {}
  PROVE  \E x \in T : \A y \in T : x <= y
  <1> DEFINE Below == {ss \in Nat \X Nat : ss[1] < ss[2]}
  <1>1. OpToRel(<, Nat) = Below
    BY Zenon DEF OpToRel
  <1>2. IsWellFoundedOn(Below, Nat)
    BY <1>1, NatLessThanWellFounded, Zenon
  <1>3. \A x, y \in Nat : y < x => <<y, x>> \in Below
    OBVIOUS
  <1> HIDE DEF Below
  <1>4. \E x \in T : \A y \in T : <<y, x>> \notin Below
    BY <1>2, WFMin, Zenon
  <1>5. \E x \in T : \A y \in T : ~ (y < x)
    BY <1>3, <1>4, Zenon
  <1>6. \A x, y \in T : ~ (y < x) => x <= y
    OBVIOUS
  <1> QED BY <1>5, <1>6

(* Induction, as a fact about sets of numbers. *)
LEMMA Induction ==
  ASSUME NEW S \in SUBSET Nat, 0 \in S, \A n \in S : n + 1 \in S
  PROVE  S = Nat
  <1> SUFFICES ASSUME Nat \ S # {} PROVE FALSE
    OBVIOUS
  <1>1. PICK m \in Nat \ S : \A k \in Nat \ S : m <= k
    BY Least
  <1>2. m - 1 \in Nat
    BY <1>1
  <1> QED BY <1>1, <1>2

(* r can be put in order by the order p. *)
Sorts(p, n, r) == /\ p \in [1..n -> 1..n]
                  /\ \A i, j \in 1..n : p[i] = p[j] => i = j
                  /\ \A i, j \in 1..n : i < j => r[p[i]] <= r[p[j]]

LEMMA Insert ==
  ASSUME NEW n \in Nat, NEW r \in [1..n+1 -> Int], NEW p, Sorts(p, n, r)
  PROVE  \E w : Sorts(w, n + 1, r)
  <1>0. /\ \A i \in 1..n : p[i] \in 1..n /\ r[p[i]] \in Int
        /\ r[n + 1] \in Int
    <2>1. n + 1 \in 1..n+1 /\ 1..n \subseteq 1..n+1
      OBVIOUS
    <2>2. \A i \in 1..n : p[i] \in 1..n
      BY DEF Sorts
    <2> QED BY <2>1, <2>2
  <1> DEFINE Above == {i \in 1..n : r[p[i]] > r[n + 1]} \cup {n + 1}
  <1>1. PICK k \in Above : \A i \in Above : k <= i
    <2>1. Above \in SUBSET Nat /\ Above # {}
      OBVIOUS
    <2> HIDE DEF Above
    <2> QED BY <2>1, Least
  <1>2. /\ k \in 1..n+1
        /\ \A i \in 1..n : i < k => r[p[i]] <= r[n + 1]
    <2>1. k \in 1..n+1
      OBVIOUS
    <2>2. ASSUME NEW i \in 1..n, i < k PROVE r[p[i]] <= r[n + 1]
      <3>1. i \notin Above
        BY <1>1, <2>1, <2>2
      <3> QED BY <3>1, <1>0
    <2> QED BY <2>1, <2>2
  <1>3. k <= n => r[n + 1] < r[p[k]]
    OBVIOUS
  <1> HIDE DEF Above
  <1>4. \A i \in 1..n : i >= k => r[n + 1] <= r[p[i]]
    <2> SUFFICES ASSUME NEW i \in 1..n, i >= k PROVE r[n + 1] <= r[p[i]]
      OBVIOUS
    <2>1. k \in 1..n /\ r[n + 1] < r[p[k]]
      BY <1>2, <1>3
    <2>2. r[p[k]] <= r[p[i]]
      BY <1>0, <2>1 DEF Sorts
    <2> QED BY <1>0, <2>1, <2>2
  <1> DEFINE w == [i \in 1..n+1 |-> IF i < k THEN p[i] ELSE IF i = k THEN n + 1 ELSE p[i - 1]]
  <1>5. w \in [1..n+1 -> 1..n+1]
    BY <1>2 DEF Sorts
  <1>6. /\ \A i \in 1..n+1 : i < k => i \in 1..n /\ w[i] = p[i] /\ p[i] \in 1..n
        /\ w[k] = n + 1
        /\ \A i \in 1..n+1 : i > k => i - 1 \in 1..n /\ w[i] = p[i - 1] /\ p[i - 1] \in 1..n
    <2>1. ASSUME NEW i \in 1..n+1, i < k
          PROVE  i \in 1..n /\ w[i] = p[i] /\ p[i] \in 1..n
      BY <1>0, <1>2, <2>1
    <2>2. w[k] = n + 1
      BY <1>2
    <2>3. ASSUME NEW i \in 1..n+1, i > k
          PROVE  i - 1 \in 1..n /\ w[i] = p[i - 1] /\ p[i - 1] \in 1..n
      <3>1. i - 1 \in 1..n /\ ~(i < k) /\ i # k
        BY <1>2, <2>3
      <3> QED BY <1>0, <3>1
    <2> QED BY <2>1, <2>2, <2>3
  <1> HIDE DEF w
  <1>7. ASSUME NEW i \in 1..n+1, NEW j \in 1..n+1, i < j
        PROVE  w[i] # w[j] /\ r[w[i]] <= r[w[j]]
    <2>0. i \in Int /\ j \in Int /\ k \in Int
      BY <1>2
    <2>1. CASE j < k
      <3>1. i < k
        BY <2>0, <2>1, <1>7
      <3>2. i \in 1..n /\ j \in 1..n /\ w[i] = p[i] /\ w[j] = p[j]
        BY <2>1, <3>1, <1>6
      <3> QED BY <3>2, <1>7 DEF Sorts
    <2>2. CASE j = k
      <3>1. i < k
        BY <2>0, <2>2, <1>7
      <3>2. /\ i \in 1..n /\ p[i] \in 1..n /\ w[i] = p[i] /\ w[j] = n + 1
            /\ r[p[i]] <= r[n + 1]
        BY <3>1, <2>2, <1>6, <1>2
      <3> QED BY <3>2
    <2>3. CASE j > k /\ i < k
      <3>1. /\ i \in 1..n /\ j - 1 \in 1..n /\ i < j - 1
            /\ w[i] = p[i] /\ w[j] = p[j - 1]
        BY <2>0, <2>3, <1>6
      <3> QED BY <3>1 DEF Sorts
    <2>4. CASE j > k /\ i = k
      <3>1. /\ j - 1 \in 1..n /\ j - 1 >= k /\ p[j - 1] \in 1..n
            /\ w[j] = p[j - 1] /\ w[i] = n + 1
        BY <2>0, <2>4, <1>6
      <3> QED BY <3>1, <1>4
    <2>5. CASE i > k
      <3>1. /\ i - 1 \in 1..n /\ j - 1 \in 1..n /\ i - 1 < j - 1
            /\ w[i] = p[i - 1] /\ w[j] = p[j - 1]
        BY <2>0, <2>5, <1>6, <1>7
      <3> QED BY <3>1 DEF Sorts
    <2> QED BY <2>0, <2>1, <2>2, <2>3, <2>4, <2>5
  <1>8. Sorts(w, n + 1, r)
    <2>1. ASSUME NEW i \in 1..n+1, NEW j \in 1..n+1, w[i] = w[j] PROVE i = j
      <3>1. ~(i < j) /\ ~(j < i)
        BY <1>7, <2>1
      <3> QED BY <3>1
    <2>2. \A i, j \in 1..n+1 : i < j => r[w[i]] <= r[w[j]]
      BY <1>7
    <2> QED BY <1>5, <2>1, <2>2 DEF Sorts
  <1> QED BY <1>8

(* Every finite sequence of numbers can be sorted: insertion sort. *)
LEMMA Sortable == \A n \in Nat : \A r \in [1..n -> Int] : \E p : Sorts(p, n, r)
  <1> DEFINE S == {n \in Nat : \A r \in [1..n -> Int] : \E p : Sorts(p, n, r)}
  <1>1. 0 \in S
    <2> SUFFICES ASSUME NEW r PROVE Sorts([i \in 1..0 |-> i], 0, r)
      OBVIOUS
    <2> QED BY DEF Sorts
  <1>2. ASSUME NEW n \in S PROVE n + 1 \in S
    <2> SUFFICES ASSUME NEW r \in [1..n+1 -> Int] PROVE \E w : Sorts(w, n + 1, r)
      OBVIOUS
    <2> DEFINE t == [i \in 1..n |-> r[i]]
    <2>1. t \in [1..n -> Int]
      OBVIOUS
    <2>2. PICK p : Sorts(p, n, t)
      BY <2>1
    <2>3. Sorts(p, n, r)
      BY <2>2 DEF Sorts
    <2> HIDE DEF t
    <2> QED BY <2>3, Insert
  <1>3. S \in SUBSET Nat
    OBVIOUS
  <1> HIDE DEF S
  <1>4. S = Nat
    BY <1>1, <1>2, <1>3, Induction
  <1> QED BY <1>4 DEF S

(* An injective rearrangement of 1..n takes every place. *)
LEMMA Onto ==
  ASSUME NEW n \in Nat, NEW p \in [1..n -> 1..n], IsInjective(p)
  PROVE  \A k \in 1..n : \E i \in 1..n : p[i] = k
  <1>1. p \in Injection(1..n, 1..n)
    BY Zenon DEF Injection
  <1>2. IsFiniteSet(1..n)
    BY FS_Interval
  <1>3. p \in Surjection(1..n, 1..n)
    BY <1>1, <1>2, FS_Injection
  <1> QED BY <1>3 DEF Surjection

(* Numbers can be put in order, so that is what SortedBy does. *)
InPlace(t, s, r, n) == \E p : Sorts(p, n, r) /\ t = [i \in 1..n |-> s[p[i]]]

LEMMA InOrder ==
  \A n \in Nat : \A r \in [1..n -> Int] : \A s : DOMAIN s = 1..n =>
     InPlace(SortedBy(s, r), s, r, n)
  <1> SUFFICES ASSUME NEW n \in Nat, NEW r \in [1..n -> Int], NEW s, DOMAIN s = 1..n
               PROVE  InPlace(SortedBy(s, r), s, r, n)
    OBVIOUS
  <1> DEFINE p == CHOOSE w \in Orders(r) : TRUE
  <1>1. ASSUME NEW w \in [1..n -> 1..n]
        PROVE  w \in Orders(r) <=> Sorts(w, n, r)
    <2>1. DOMAIN r = 1..n /\ Rearranged(r, w) = [i \in 1..n |-> r[w[i]]]
      BY DEF Rearranged
    <2>2. IsInjective(w) <=> \A i, j \in 1..n : w[i] = w[j] => i = j
      BY DEF IsInjective
    <2>3. Ascending(Rearranged(r, w)) <=> \A i, j \in 1..n : i < j => r[w[i]] <= r[w[j]]
      <3> DEFINE a == [i \in 1..n |-> r[w[i]]]
      <3>1. DOMAIN a = 1..n /\ \A i \in 1..n : a[i] = r[w[i]] /\ r[w[i]] \in Int
        OBVIOUS
      <3>2. Rearranged(r, w) = a
        BY <2>1
      <3> HIDE DEF a
      <3>3. Ascending(a) <=> \A i, j \in 1..n : i < j => a[i] <= a[j]
        BY <3>1, Zenon DEF Ascending
      <3>4. ASSUME NEW i \in 1..n, NEW j \in 1..n
            PROVE  a[i] <= a[j] <=> r[w[i]] <= r[w[j]]
        BY <3>1
      <3> QED BY <3>2, <3>3, <3>4, Zenon
    <2>4. Orders(r) = {x \in [1..n -> 1..n] : IsInjective(x) /\ Ascending(Rearranged(r, x))}
      <3>1. DOMAIN r = 1..n
        OBVIOUS
      <3> QED BY <3>1, Zenon DEF Orders
    <2> QED BY <2>2, <2>3, <2>4, Zenon DEF Sorts
  <1>2. Orders(r) # {}
    <2>1. PICK w : Sorts(w, n, r)
      BY Sortable
    <2> QED BY <1>1, <2>1 DEF Sorts
  <1>3. p \in Orders(r)
    BY <1>2
  <1>4. p \in [1..n -> 1..n]
    <2>1. DOMAIN r = 1..n
      OBVIOUS
    <2> HIDE DEF p
    <2> QED BY <1>3, <2>1 DEF Orders
  <1>5. SortedBy(s, r) = [i \in 1..n |-> s[p[i]]]
    BY Zenon DEF SortedBy, Rearranged
  <1>6. Sorts(p, n, r)
    <2> HIDE DEF p
    <2> QED BY <1>1, <1>3, <1>4
  <1> HIDE DEF p
  <1> QED BY <1>5, <1>6, Zenon DEF InPlace

(* sort.Ints: a rearrangement of s, in order. *)
LEMMA SortedInts ==
  \A n \in Nat : \A s \in [1..n -> Int] :
     \E p \in [1..n -> 1..n] :
        /\ IsInjective(p)
        /\ \A k \in 1..n : \E i \in 1..n : p[i] = k
        /\ Ints(s) = [i \in 1..n |-> s[p[i]]]
        /\ \A i, j \in 1..n : i < j => s[p[i]] <= s[p[j]]
  <1> SUFFICES ASSUME NEW n \in Nat, NEW s \in [1..n -> Int]
               PROVE  \E p \in [1..n -> 1..n] :
                         /\ IsInjective(p)
                         /\ \A k \in 1..n : \E i \in 1..n : p[i] = k
                         /\ Ints(s) = [i \in 1..n |-> s[p[i]]]
                         /\ \A i, j \in 1..n : i < j => s[p[i]] <= s[p[j]]
    OBVIOUS
  <1>1. PICK p : Sorts(p, n, s) /\ Ints(s) = [i \in 1..n |-> s[p[i]]]
    <2>1. DOMAIN s = 1..n
      OBVIOUS
    <2>2. InPlace(SortedBy(s, s), s, s, n)
      BY <2>1, InOrder
    <2> QED BY <2>2, Zenon DEF InPlace, Ints
  <1>2. /\ p \in [1..n -> 1..n]
        /\ \A i, j \in 1..n : p[i] = p[j] => i = j
        /\ \A i, j \in 1..n : i < j => s[p[i]] <= s[p[j]]
    BY <1>1 DEF Sorts
  <1>3. IsInjective(p)
    BY <1>2 DEF IsInjective
  <1>4. \A k \in 1..n : \E i \in 1..n : p[i] = k
    BY <1>2, <1>3, Onto
  <1> QED BY <1>1, <1>2, <1>3, <1>4

-----------------------------------------------------------------------------
Pending == {s \in Stages : forward[s] # "done"}

\* What SquareAll has started so far.
Spawned ==
    /\ main = "gen" => started = 0
    /\ main = "gen" <=> gen = "idle"
    /\ \A s \in Stages : square[s] = "idle" <=>
           main = "gen" \/ (main = "stages" /\ s > started)
    /\ \A s \in Stages : forward[s] = "idle" <=>
           main \in {"gen", "stages"} \/ (main = "forwarders" /\ s > started)
    /\ closer = "idle" <=> main \in {"gen", "stages", "forwarders"}

\* Who may have ended, and what that says of the goroutines before it.
Ended ==
    /\ Source \in closed <=> gen = "done"
    /\ gen = "done" => next = Len(In) + 1
    /\ \A s \in Stages : s \in closed <=> square[s] = "done"
    /\ \A s \in Stages : square[s] = "done" => gen = "done"
    /\ \A s \in Stages : forward[s] = "done" => square[s] = "done"
    /\ Out \in closed <=> closer = "done"
    /\ closer = "done" => wg = 0
    /\ main = "returned" => closer = "done"

Counted == wg = IF main \in {"gen", "stages"} THEN 0 ELSE Cardinality(Pending)

Progress == Spawned /\ Ended /\ Counted

IInv == TypeOK /\ Progress /\ Conserved

-----------------------------------------------------------------------------
(* There is at least one stage, and the channel numbers do not collide. *)
LEMMA Shape == /\ W \in Nat \ {0} /\ Source \notin Stages /\ Out \notin Stages
               /\ Source # Out /\ Stages \subseteq Channels
               /\ Source \in Channels /\ Out \in Channels
               /\ Len(In) \in Nat
  BY InAssumption, WorkersAssumption DEF W, Source, Out, Stages, Channels

(* Appending a new element to an injective sequence keeps it injective. *)
LEMMA AppendNew ==
  ASSUME NEW S, NEW w \in Seq(S), NEW e \in S
  PROVE  /\ Append(w, e) \in Seq(S)
         /\ Range(Append(w, e)) = Range(w) \cup {e}
         /\ IsInjective(w) /\ e \notin Range(w) => IsInjective(Append(w, e))
  <1> DEFINE r == Append(w, e)
  <1>1. /\ r \in Seq(S) /\ Len(w) \in Nat /\ Len(r) = Len(w) + 1
        /\ DOMAIN w = 1..Len(w) /\ DOMAIN r = 1..Len(w)+1
        /\ \A k \in 1..Len(w) : r[k] = w[k]
        /\ r[Len(w)+1] = e
    OBVIOUS
  <1>2. Range(r) = Range(w) \cup {e}
    BY <1>1 DEF Range
  <1>3. ASSUME IsInjective(w), e \notin Range(w) PROVE IsInjective(r)
    <2>1. ASSUME NEW a \in 1..Len(w)+1, NEW b \in 1..Len(w)+1, r[a] = r[b], a # b
          PROVE FALSE
      <3>1. CASE a \in 1..Len(w) /\ b \in 1..Len(w)
        BY <1>1, <1>3, <2>1, <3>1 DEF IsInjective
      <3>2. CASE a = Len(w)+1 \/ b = Len(w)+1
        BY <1>1, <1>3, <2>1, <3>2 DEF Range
      <3> QED BY <1>1, <3>1, <3>2
    <2> QED BY <1>1, <2>1 DEF IsInjective
  <1> QED BY <1>1, <1>2, <1>3

(* A set of stages is finite and has at most W elements. *)
LEMMA StageCount ==
  ASSUME NEW P \in SUBSET Stages
  PROVE  /\ IsFiniteSet(P) /\ Cardinality(P) \in 0..W
         /\ Cardinality(P) = 0 => P = {}
         /\ Cardinality(Stages) = W
         /\ \A s \in P : Cardinality(P \ {s}) = Cardinality(P) - 1
  <1>1. IsFiniteSet(Stages) /\ Cardinality(Stages) = W
    BY Shape, FS_Interval DEF Stages
  <1>2. IsFiniteSet(P) /\ Cardinality(P) <= Cardinality(Stages)
    BY <1>1, FS_Subset
  <1>3. \A s \in P : Cardinality(P \ {s}) = Cardinality(P) - 1
    BY <1>2, FS_RemoveElement
  <1> QED BY <1>1, <1>2, <1>3, FS_CardinalityType, FS_EmptySet, Shape

-----------------------------------------------------------------------------
(* The WaitGroup counts the forwarders that have not called Done. *)
LEMMA CountedStep == IInv /\ [Next]_vars => Counted'
  <1> SUFFICES ASSUME IInv, [Next]_vars PROVE Counted'
    OBVIOUS
  <1> USE Shape DEF IInv, TypeOK, StagePC, Progress, Spawned, Ended, Counted
  <1>1. Pending \in SUBSET Stages
    BY DEF Pending
  <1>2. ASSUME Pending' = Pending, wg' = wg,
               main' \in {"gen", "stages"} <=> main \in {"gen", "stages"}
        PROVE  Counted'
    BY <1>2
  <1>3. CASE MainGen
    BY <1>2, <1>3 DEF MainGen, Pending, mainVars, genVars, stageVars, forwardVars
  <1>4. CASE MainStartStage
    BY <1>2, <1>4 DEF MainStartStage, Pending, mainVars, genVars, stageVars, forwardVars
  <1>5. CASE MainStartCloser
    BY <1>2, <1>5 DEF MainStartCloser, Pending, mainVars, genVars, stageVars, forwardVars
  <1>6. CASE MainReturn
    BY <1>2, <1>6 DEF MainReturn, Pending, mainVars, genVars, stageVars, forwardVars
  <1>7. CASE GenClose
    BY <1>2, <1>7 DEF GenClose, Pending, mainVars, genVars, stageVars, forwardVars
  <1>8. CASE CloserClose
    BY <1>2, <1>8 DEF CloserClose, Pending, mainVars, genVars, stageVars, forwardVars
  <1>9. CASE MainStartForward
    BY <1>2, <1>9 DEF MainStartForward, Pending, mainVars, genVars, stageVars, forwardVars
  <1>10. ASSUME NEW s \in Stages, GenSend(s) PROVE Counted'
    BY <1>2, <1>10 DEF GenSend, Pending, mainVars, genVars, stageVars, forwardVars
  <1>11. ASSUME NEW s \in Stages, SquareSend(s) PROVE Counted'
    BY <1>2, <1>11 DEF SquareSend, Pending, mainVars, genVars, stageVars, forwardVars
  <1>12. ASSUME NEW s \in Stages, SquareClose(s) PROVE Counted'
    BY <1>2, <1>12 DEF SquareClose, Pending, mainVars, genVars, stageVars, forwardVars
  <1>13. ASSUME NEW s \in Stages, ForwardSend(s) PROVE Counted'
    BY <1>2, <1>13 DEF ForwardSend, Pending, mainVars, genVars, stageVars, forwardVars
  <1>14. CASE MainAdd
    <2>1. Pending' = Stages
      BY <1>14 DEF MainAdd, Pending
    <2>2. Cardinality(Stages) = W
      BY StageCount
    <2> QED BY <1>14, <2>1, <2>2 DEF MainAdd
  <1>15. ASSUME NEW s \in Stages, ForwardDone(s) PROVE Counted'
    <2>1. Pending' = Pending \ {s} /\ s \in Pending
      BY <1>15 DEF ForwardDone, Pending
    <2>2. Cardinality(Pending') = Cardinality(Pending) - 1
      BY <1>1, <2>1, StageCount
    <2> QED BY <1>15, <2>2 DEF ForwardDone, mainVars, genVars, stageVars, forwardVars
  <1>16. CASE UNCHANGED vars
    BY <1>2, <1>16 DEF vars, Pending, mainVars, genVars, stageVars, forwardVars
  <1> QED BY <1>3, <1>4, <1>5, <1>6, <1>7, <1>8, <1>9, <1>10, <1>11, <1>12, <1>13, <1>14,
             <1>15, <1>16 DEF Next, Step, Main, Finished

(* Every variable keeps its type along every step. *)
LEMMA TypeStep == IInv /\ [Next]_vars => TypeOK'
  <1> SUFFICES ASSUME IInv, [Next]_vars PROVE TypeOK'
    OBVIOUS
  <1> USE Shape DEF IInv, TypeOK, StagePC
  <1>1. wg' \in 0..W
    <2>1. Pending' \in SUBSET Stages
      BY DEF Pending
    <2> QED BY <2>1, CountedStep, StageCount DEF Counted
  <1>2. CASE MainGen
    BY <1>1, <1>2 DEF MainGen, mainVars, genVars, stageVars, forwardVars
  <1>3. CASE MainStartStage
    BY <1>1, <1>3 DEF MainStartStage, mainVars, genVars, stageVars, forwardVars, Stages
  <1>4. CASE MainAdd
    BY <1>1, <1>4 DEF MainAdd, mainVars, genVars, stageVars, forwardVars
  <1>5. CASE MainStartForward
    BY <1>1, <1>5 DEF MainStartForward, mainVars, genVars, stageVars, forwardVars, Stages
  <1>6. CASE MainStartCloser
    BY <1>1, <1>6 DEF MainStartCloser, mainVars, genVars, stageVars, forwardVars, Stages
  <1>7. CASE MainReturn
    BY <1>1, <1>7 DEF MainReturn, mainVars, genVars, stageVars, forwardVars
  <1>8. CASE GenClose
    BY <1>1, <1>8 DEF GenClose, mainVars, genVars, stageVars, forwardVars
  <1>9. CASE CloserClose
    BY <1>1, <1>9 DEF CloserClose, mainVars, genVars, stageVars, forwardVars
  <1>10. ASSUME NEW s \in Stages, GenSend(s) PROVE TypeOK'
    BY <1>1, <1>10 DEF GenSend, mainVars, genVars, stageVars, forwardVars, Items
  <1>11. ASSUME NEW s \in Stages, SquareSend(s) PROVE TypeOK'
    BY <1>1, <1>11 DEF SquareSend, mainVars, genVars, stageVars, forwardVars
  <1>12. ASSUME NEW s \in Stages, SquareClose(s) PROVE TypeOK'
    BY <1>1, <1>12 DEF SquareClose, mainVars, genVars, stageVars, forwardVars
  <1>13. ASSUME NEW s \in Stages, ForwardDone(s) PROVE TypeOK'
    BY <1>1, <1>13 DEF ForwardDone, mainVars, genVars, stageVars, forwardVars
  <1>14. ASSUME NEW s \in Stages, ForwardSend(s) PROVE TypeOK'
    <2>1. carried[s] \in Items
      BY <1>14 DEF ForwardSend, Conserved, InForward, Items
    <2>2. got' \in Seq(Items)
      BY <1>14, <2>1, AppendNew DEF ForwardSend
    <2> QED BY <1>1, <1>14, <2>2 DEF ForwardSend, mainVars, genVars, stageVars, forwardVars
  <1>15. CASE UNCHANGED vars
    BY <1>15 DEF vars, mainVars, genVars, stageVars, forwardVars
  <1> QED BY <1>2, <1>3, <1>4, <1>5, <1>6, <1>7, <1>8, <1>9, <1>10, <1>11, <1>12, <1>13, <1>14,
             <1>15 DEF Next, Step, Main, Finished

(* Where each goroutine is, given where the others are. *)
LEMMA ProgressStep == IInv /\ [Next]_vars => Progress'
  <1> SUFFICES ASSUME IInv, [Next]_vars PROVE Spawned' /\ Ended'
    BY CountedStep DEF Progress
  <1> USE Shape DEF IInv, TypeOK, StagePC, Progress, Spawned, Ended
  <1>0. closer = "done" => \A s \in Stages : forward[s] = "done"
    <2> SUFFICES ASSUME closer = "done" PROVE Pending = {}
      BY DEF Pending
    <2>1. Pending \in SUBSET Stages
      BY DEF Pending
    <2>2. Cardinality(Pending) = 0
      BY DEF Counted
    <2> QED BY <2>1, <2>2, StageCount
  <1>1. CASE MainGen
    <2>1. Spawned'
      BY <1>1 DEF MainGen, mainVars, genVars, stageVars, forwardVars, Stages
    <2>2. Ended'
      BY <1>0, <1>1 DEF MainGen, mainVars, genVars, stageVars, forwardVars
    <2> QED BY <2>1, <2>2
  <1>2. CASE MainStartStage
    <2>1. Spawned'
      BY <1>2 DEF MainStartStage, mainVars, genVars, stageVars, forwardVars, Stages
    <2>2. Ended'
      BY <1>0, <1>2 DEF MainStartStage, mainVars, genVars, stageVars, forwardVars, Stages
    <2> QED BY <2>1, <2>2
  <1>3. CASE MainAdd
    <2>1. Spawned'
      BY <1>3 DEF MainAdd, mainVars, genVars, stageVars, forwardVars, Stages
    <2>2. Ended'
      BY <1>0, <1>3 DEF MainAdd, mainVars, genVars, stageVars, forwardVars
    <2> QED BY <2>1, <2>2
  <1>4. CASE MainStartForward
    <2>1. Spawned'
      BY <1>4 DEF MainStartForward, mainVars, genVars, stageVars, forwardVars, Stages
    <2>2. Ended'
      BY <1>0, <1>4 DEF MainStartForward, mainVars, genVars, stageVars, forwardVars, Stages
    <2> QED BY <2>1, <2>2
  <1>5. CASE MainStartCloser
    <2>1. Spawned'
      BY <1>5 DEF MainStartCloser, mainVars, genVars, stageVars, forwardVars, Stages
    <2>2. Ended'
      BY <1>0, <1>5 DEF MainStartCloser, mainVars, genVars, stageVars, forwardVars, Stages
    <2> QED BY <2>1, <2>2
  <1>6. CASE MainReturn
    <2>1. Spawned'
      BY <1>6 DEF MainReturn, mainVars, genVars, stageVars, forwardVars
    <2>2. Ended'
      BY <1>0, <1>6 DEF MainReturn, mainVars, genVars, stageVars, forwardVars
    <2> QED BY <2>1, <2>2
  <1>7. CASE GenClose
    <2>1. Spawned'
      BY <1>7 DEF GenClose, mainVars, genVars, stageVars, forwardVars, Items
    <2>2. Ended'
      BY <1>0, <1>7 DEF GenClose, mainVars, genVars, stageVars, forwardVars, Items
    <2> QED BY <2>1, <2>2
  <1>8. CASE CloserClose
    <2>1. Spawned'
      BY <1>8 DEF CloserClose, mainVars, genVars, stageVars, forwardVars
    <2>2. Ended'
      BY <1>0, <1>8 DEF CloserClose, mainVars, genVars, stageVars, forwardVars
    <2> QED BY <2>1, <2>2
  <1>9. ASSUME NEW s \in Stages, GenSend(s) PROVE Spawned' /\ Ended'
    <2>1. Spawned'
      BY <1>9 DEF GenSend, mainVars, genVars, stageVars, forwardVars, Items
    <2>2. Ended'
      BY <1>0, <1>9 DEF GenSend, mainVars, genVars, stageVars, forwardVars, Items
    <2> QED BY <2>1, <2>2
  <1>10. ASSUME NEW s \in Stages, SquareSend(s) PROVE Spawned' /\ Ended'
    <2>1. Spawned'
      BY <1>10 DEF SquareSend, mainVars, genVars, stageVars, forwardVars
    <2>2. Ended'
      BY <1>0, <1>10 DEF SquareSend, mainVars, genVars, stageVars, forwardVars
    <2> QED BY <2>1, <2>2
  <1>11. ASSUME NEW s \in Stages, SquareClose(s) PROVE Spawned' /\ Ended'
    <2>1. Spawned'
      BY <1>11 DEF SquareClose, mainVars, genVars, stageVars, forwardVars
    <2>2. Ended'
      BY <1>0, <1>11 DEF SquareClose, mainVars, genVars, stageVars, forwardVars
    <2> QED BY <2>1, <2>2
  <1>12. ASSUME NEW s \in Stages, ForwardSend(s) PROVE Spawned' /\ Ended'
    <2>1. Spawned'
      BY <1>12 DEF ForwardSend, mainVars, genVars, stageVars, forwardVars
    <2>2. Ended'
      BY <1>0, <1>12 DEF ForwardSend, mainVars, genVars, stageVars, forwardVars
    <2> QED BY <2>1, <2>2
  <1>13. ASSUME NEW s \in Stages, ForwardDone(s) PROVE Spawned' /\ Ended'
    <2>1. Spawned'
      BY <1>13 DEF ForwardDone, mainVars, genVars, stageVars, forwardVars
    <2>2. Ended'
      BY <1>0, <1>13 DEF ForwardDone, mainVars, genVars, stageVars, forwardVars
    <2> QED BY <2>1, <2>2
  <1>14. CASE UNCHANGED vars
    BY <1>14 DEF vars, mainVars, genVars, stageVars, forwardVars
  <1> QED BY <1>1, <1>2, <1>3, <1>4, <1>5, <1>6, <1>7, <1>8, <1>9, <1>10, <1>11, <1>12, <1>13,
             <1>14 DEF Next, Step, Main, Finished

(* Items are neither lost nor duplicated by any step. *)
LEMMA ConservedStep == IInv /\ [Next]_vars => Conserved'
  <1> SUFFICES ASSUME IInv, [Next]_vars PROVE Conserved'
    OBVIOUS
  <1> USE Shape DEF IInv, TypeOK, StagePC, Conserved
  <1>1. ASSUME next' = next, got' = got, squared' = squared, carried' = carried,
               InSquare' = InSquare, InForward' = InForward
        PROVE  Conserved'
    BY <1>1
  <1>2. CASE MainGen
    <2>1. InSquare' = InSquare /\ InForward' = InForward
      BY <1>2 DEF MainGen, InSquare, InForward, mainVars, genVars, stageVars, forwardVars
    <2> QED BY <1>1, <1>2, <2>1 DEF MainGen, mainVars, genVars, stageVars, forwardVars
  <1>3. CASE MainStartStage
    <2>1. InSquare' = InSquare /\ InForward' = InForward
      BY <1>3 DEF MainStartStage, InSquare, InForward, mainVars, genVars, stageVars,
         forwardVars, Spawned, Progress, Stages
    <2> QED BY <1>1, <1>3, <2>1 DEF MainStartStage, mainVars, genVars, stageVars, forwardVars
  <1>4. CASE MainAdd
    <2>1. InSquare' = InSquare /\ InForward' = InForward
      BY <1>4 DEF MainAdd, InSquare, InForward, mainVars, genVars, stageVars, forwardVars
    <2> QED BY <1>1, <1>4, <2>1 DEF MainAdd, mainVars, genVars, stageVars, forwardVars
  <1>5. CASE MainStartForward
    <2>1. InSquare' = InSquare /\ InForward' = InForward
      BY <1>5 DEF MainStartForward, InSquare, InForward, mainVars, genVars, stageVars,
         forwardVars, Spawned, Progress, Stages
    <2> QED BY <1>1, <1>5, <2>1 DEF MainStartForward, mainVars, genVars, stageVars, forwardVars
  <1>6. CASE MainStartCloser
    <2>1. InSquare' = InSquare /\ InForward' = InForward
      BY <1>6 DEF MainStartCloser, InSquare, InForward, mainVars, genVars, stageVars,
         forwardVars, Spawned, Progress, Stages
    <2> QED BY <1>1, <1>6, <2>1 DEF MainStartCloser, mainVars, genVars, stageVars, forwardVars
  <1>7. CASE MainReturn
    <2>1. InSquare' = InSquare /\ InForward' = InForward
      BY <1>7 DEF MainReturn, InSquare, InForward, mainVars, genVars, stageVars, forwardVars
    <2> QED BY <1>1, <1>7, <2>1 DEF MainReturn, mainVars, genVars, stageVars, forwardVars
  <1>8. CASE GenClose
    <2>1. InSquare' = InSquare /\ InForward' = InForward
      BY <1>8 DEF GenClose, InSquare, InForward, mainVars, genVars, stageVars, forwardVars
    <2> QED BY <1>1, <1>8, <2>1 DEF GenClose, mainVars, genVars, stageVars, forwardVars
  <1>9. CASE CloserClose
    <2>1. InSquare' = InSquare /\ InForward' = InForward
      BY <1>9 DEF CloserClose, InSquare, InForward, mainVars, genVars, stageVars, forwardVars
    <2> QED BY <1>1, <1>9, <2>1 DEF CloserClose, mainVars, genVars, stageVars, forwardVars
  <1>10. ASSUME NEW s \in Stages, SquareClose(s) PROVE Conserved'
    <2>1. InSquare' = InSquare /\ InForward' = InForward
      BY <1>10 DEF SquareClose, InSquare, InForward, mainVars, genVars, stageVars, forwardVars
    <2> QED BY <1>1, <1>10, <2>1 DEF SquareClose, mainVars, genVars, stageVars, forwardVars
  <1>11. ASSUME NEW s \in Stages, ForwardDone(s) PROVE Conserved'
    <2>1. InSquare' = InSquare /\ InForward' = InForward
      BY <1>11 DEF ForwardDone, InSquare, InForward, mainVars, genVars, stageVars, forwardVars
    <2> QED BY <1>1, <1>11, <2>1 DEF ForwardDone, mainVars, genVars, stageVars, forwardVars
  <1>12. ASSUME NEW s \in Stages, GenSend(s) PROVE Conserved'
    <2>1. /\ InSquare' = InSquare \cup {s} /\ s \notin InSquare
          /\ InForward' = InForward /\ next' = next + 1
          /\ squared' = [squared EXCEPT ![s] = next]
          /\ carried' = carried /\ got' = got
      BY <1>12 DEF GenSend, InSquare, InForward, mainVars, genVars, stageVars, forwardVars
    <2>2. /\ next \in Nat /\ \A t \in InSquare : t \in Stages /\ t # s
          /\ \A t \in InSquare : squared'[t] = squared[t]
          /\ squared'[s] = next
      BY <2>1 DEF InSquare
    <2>3. \A i \in 1..next'-1 :
            \/ i \in Range(got')
            \/ \E t \in InSquare' : squared'[t] = i
            \/ \E u \in InForward' : carried'[u] = i
      <3> TAKE i \in 1..next'-1
      <3>1. CASE i = next
        BY <2>1, <2>2, <3>1
      <3>2. CASE i \in 1..next-1
        BY <2>1, <2>2, <3>2
      <3> QED BY <2>1, <2>2, <3>1, <3>2
    <2>4. \A t \in InSquare' :
            /\ squared'[t] \in 1..next'-1 /\ squared'[t] \notin Range(got')
            /\ \A u \in InForward' : carried'[u] # squared'[t]
            /\ \A u \in InSquare' : u # t => squared'[u] # squared'[t]
      BY <2>1, <2>2
    <2>5. \A t \in InForward' :
            /\ carried'[t] \in 1..next'-1 /\ carried'[t] \notin Range(got')
            /\ \A u \in InForward' : u # t => carried'[u] # carried'[t]
      BY <2>1, <2>2
    <2>6. IsInjective(got') /\ \A i \in Range(got') : i < next'
      <3>1. Range(got) \subseteq Items
        BY DEF Range
      <3>2. \A i \in Range(got) : i \in Int /\ i < next
        BY <3>1 DEF Items
      <3> QED BY <2>1, <2>2, <3>2
    <2> QED BY <2>3, <2>4, <2>5, <2>6
  <1>13. ASSUME NEW s \in Stages, SquareSend(s) PROVE Conserved'
    <2>1. /\ InSquare' = InSquare \ {s} /\ s \in InSquare
          /\ InForward' = InForward \cup {s} /\ s \notin InForward
          /\ carried' = [carried EXCEPT ![s] = squared[s]]
          /\ squared' = squared /\ got' = got /\ next' = next
      BY <1>13 DEF SquareSend, InSquare, InForward, mainVars, genVars, stageVars, forwardVars
    <2>2. \A t \in InForward : t \in Stages
      BY DEF InForward
    <2> QED BY <2>1, <2>2
  <1>14. ASSUME NEW s \in Stages, ForwardSend(s) PROVE Conserved'
    <2>1. /\ InForward' = InForward \ {s} /\ s \in InForward
          /\ InSquare' = InSquare /\ squared' = squared /\ carried' = carried
          /\ next' = next /\ got' = Append(got, carried[s])
      BY <1>14 DEF ForwardSend, InSquare, InForward, mainVars, genVars, stageVars, forwardVars
    <2>2. carried[s] \in Items
      BY <2>1 DEF Items
    <2>3. Range(got') = Range(got) \cup {carried[s]} /\ IsInjective(got')
      BY <2>1, <2>2, AppendNew
    <2> QED BY <2>1, <2>2, <2>3
  <1>15. CASE UNCHANGED vars
    BY <1>1, <1>15 DEF vars, InSquare, InForward, mainVars, genVars, stageVars, forwardVars
  <1> QED BY <1>2, <1>3, <1>4, <1>5, <1>6, <1>7, <1>8, <1>9, <1>10, <1>11, <1>12, <1>13, <1>14,
             <1>15 DEF Next, Step, Main, Finished

-----------------------------------------------------------------------------
LEMMA InitIInv == Init => IInv
  <1> SUFFICES ASSUME Init PROVE IInv
    OBVIOUS
  <1> USE Shape DEF Init
  <1>1. TypeOK
    BY DEF TypeOK, StagePC
  <1>2. Progress
    BY DEF Progress, Spawned, Ended, Counted, Stages
  <1>3. Conserved
    BY DEF Conserved, InSquare, InForward, Range, IsInjective
  <1> QED BY <1>1, <1>2, <1>3 DEF IInv

(* The strengthened invariant holds in every run of the pipeline.          *)
THEOREM Invariance == Spec => []IInv
  <1>1. IInv /\ [Next]_vars => IInv'
    BY TypeStep, ProgressStep, ConservedStep DEF IInv
  <1> QED BY InitIInv, <1>1, PTL DEF Spec

(* Type correctness of SquareAll for every input and worker count. *)
THEOREM TypeCorrect == Spec => []TypeOK
  <1>1. IInv => TypeOK
    BY DEF IInv
  <1> QED BY Invariance, <1>1, PTL

(* Every item the source has sent is in exactly one place. *)
THEOREM NothingLost == Spec => []Conserved
  <1>1. IInv => Conserved
    BY DEF IInv
  <1> QED BY Invariance, <1>1, PTL

(* No send on, and no second close of, a closed channel: the closer runs   *)
(* only once the WaitGroup has counted every forwarder out.                *)
THEOREM NoChannelPanic == Spec => []ChannelsSafe
  <1>1. IInv => ChannelsSafe
    <2> SUFFICES ASSUME IInv PROVE ChannelsSafe
      OBVIOUS
    <2>1. Pending \in SUBSET Stages
      BY DEF Pending
    <2>2. Out \in closed => Pending = {}
      BY <2>1, StageCount DEF IInv, Progress, Spawned, Ended, Counted
    <2> QED BY <2>2 DEF IInv, Progress, Ended, ChannelsSafe, Pending
  <1> QED BY Invariance, <1>1, PTL

(* Once the merged channel is closed, every item is with the caller and    *)
(* every goroutine but the caller has ended.                               *)
LEMMA OutClosed ==
  IInv /\ Out \in closed =>
      /\ Range(got) = Items /\ gen = "done" /\ closer = "done"
      /\ \A s \in Stages : square[s] = "done" /\ forward[s] = "done"
  <1> SUFFICES ASSUME IInv, Out \in closed
               PROVE  /\ Range(got) = Items /\ gen = "done" /\ closer = "done"
                      /\ \A s \in Stages : square[s] = "done" /\ forward[s] = "done"
    OBVIOUS
  <1>1. Pending \in SUBSET Stages
    BY DEF Pending
  <1>2. Pending = {}
    BY <1>1, StageCount DEF IInv, Progress, Spawned, Ended, Counted
  <1>3. /\ gen = "done" /\ closer = "done"
        /\ \A s \in Stages : square[s] = "done" /\ forward[s] = "done"
    BY <1>2, Shape DEF IInv, Progress, Ended, Pending, Stages
  <1>4. next = Len(In) + 1
    BY <1>3 DEF IInv, Progress, Ended
  <1>5. Items \subseteq Range(got)
    BY <1>3, <1>4, Shape DEF IInv, Conserved, InSquare, InForward, Items
  <1>6. Range(got) \subseteq Items
    BY DEF IInv, TypeOK, Range
  <1> QED BY <1>3, <1>5, <1>6

(* When SquareAll returns, every item has been collected and every         *)
(* goroutine it started has run its last statement.                        *)
THEOREM NoGoroutineOutlivesTheCall == Spec => []ReturnsDrained
  <1>1. IInv => ReturnsDrained
    BY OutClosed DEF IInv, Progress, Ended, ReturnsDrained, AllDone
  <1> QED BY Invariance, <1>1, PTL

(* The slice that is returned is the sort of what was collected. *)
SortedSquares == Ints(Squares(got))
ResultSorted == main = "returned" => result = SortedSquares

LEMMA ResultInvariance == Spec => []ResultSorted
  <1>1. Init => ResultSorted
    BY DEF Init, ResultSorted
  <1>2. ResultSorted /\ [Next]_vars => ResultSorted'
    <2> SUFFICES ASSUME ResultSorted, [Next]_vars PROVE ResultSorted'
      OBVIOUS
    <2>0. got' = got => SortedSquares' = SortedSquares
      BY Zenon DEF SortedSquares, Squares
    <2>1. CASE MainReturn
      <3>1. result' = SortedSquares /\ got' = got
        BY <2>1, Zenon DEF MainReturn, SortedSquares
      <3> QED BY <2>0, <3>1 DEF ResultSorted
    <2>2. CASE UNCHANGED <<main, got, result>>
      BY <2>0, <2>2 DEF ResultSorted
    <2>3. ASSUME NEW s \in Stages, ForwardSend(s) PROVE ResultSorted'
      BY <2>3 DEF ForwardSend, ResultSorted
    <2>4. CASE MainGen \/ MainStartStage \/ MainAdd \/ MainStartForward \/ MainStartCloser
      BY <2>4 DEF ResultSorted, MainGen, MainStartStage, MainAdd, MainStartForward, MainStartCloser
    <2>5. CASE GenClose \/ CloserClose \/ Finished \/ UNCHANGED vars
      BY <2>2, <2>5 DEF GenClose, CloserClose, Finished, vars, mainVars
    <2>6. ASSUME NEW s \in Stages, GenSend(s) \/ SquareSend(s) \/ SquareClose(s) \/ ForwardDone(s)
          PROVE  UNCHANGED <<main, got, result>>
      BY <2>6 DEF GenSend, SquareSend, SquareClose, ForwardDone, mainVars
    <2> QED BY <2>1, <2>2, <2>3, <2>4, <2>5, <2>6 DEF Next, Step, Main
  <1> QED BY <1>1, <1>2, PTL DEF Spec

(* h has the elements of g, in the order c. *)
Shuffled(c, D, g, h) == /\ IsFiniteSet(D)
                        /\ c \in [D -> DOMAIN g] /\ IsInjective(c)
                        /\ \A k \in DOMAIN g : \E i \in D : c[i] = k
                        /\ DOMAIN h = D /\ \A i \in D : h[i] = g[c[i]]

(* Taking the elements of g in another order leaves their bag as it is. *)
LEMMA SameBag == \A c, D, g, h : Shuffled(c, D, g, h) => ToBag(h) = ToBag(g)
  <1> SUFFICES ASSUME NEW c, NEW D, NEW g, NEW h, Shuffled(c, D, g, h)
               PROVE  ToBag(h) = ToBag(g)
    BY Zenon
  <1> USE DEF Shuffled
  <1> DEFINE A(x) == {i \in DOMAIN h : h[i] = x}
             B(x) == {k \in DOMAIN g : g[k] = x}
  <1>2. Range(h) = Range(g)
    BY DEF Range
  <1>3. ASSUME NEW x PROVE Cardinality(A(x)) = Cardinality(B(x))
    <2> DEFINE b == [i \in A(x) |-> c[i]]
    <2>1. A(x) \subseteq D
      OBVIOUS
    <2>2. IsFiniteSet(A(x))
      BY <2>1, FS_Subset
    <2>3. b \in Bijection(A(x), B(x))
      BY DEF Bijection, Injection, Surjection, IsInjective
    <2>4. ExistsBijection(A(x), B(x))
      BY <2>3 DEF ExistsBijection
    <2> HIDE DEF A, B
    <2> QED BY <2>2, <2>4, FS_Bijection
  <1>4. ToBag(h) = [x \in Range(h) |-> Cardinality(A(x))]
    BY Zenon DEF ToBag
  <1>5. ToBag(g) = [x \in Range(g) |-> Cardinality(B(x))]
    BY Zenon DEF ToBag
  <1> HIDE DEF A, B
  <1> QED BY <1>2, <1>3, <1>4, <1>5

(* The slice returned is sorted, and each value is in it as often as it is *)
(* among the squares of `in`.                                              *)
THEOREM SquaresReturned == Spec => []ReturnsSquares
  <1>1. IInv /\ ResultSorted => ReturnsSquares
    <2> SUFFICES ASSUME IInv, ResultSorted, main = "returned"
                 PROVE  /\ \A i, j \in DOMAIN result : i < j => result[i] <= result[j]
                        /\ ToBag(result) = ToBag(Squares([i \in Items |-> i]))
      BY DEF ReturnsSquares
    <2>1. /\ got \in Seq(Items) /\ IsInjective(got) /\ Range(got) = Items
      BY OutClosed DEF IInv, TypeOK, Conserved, Progress, Ended
    <2> DEFINE n == Len(got)
               s == Squares(got)
    <2>2. n \in Nat /\ DOMAIN got = 1..n /\ \A k \in 1..n : got[k] \in Items
      BY <2>1
    <2>3. s \in [1..n -> Int]
      <3>1. \A k \in Items : In[k] \in Int
        BY InAssumption DEF Items
      <3> QED BY <2>2, <3>1 DEF Squares
    <2>4. result = Ints(s)
      BY Zenon DEF ResultSorted, SortedSquares
    <2>5. PICK p \in [1..n -> 1..n] :
             /\ IsInjective(p)
             /\ \A k \in 1..n : \E i \in 1..n : p[i] = k
             /\ Ints(s) = [i \in 1..n |-> s[p[i]]]
             /\ \A i, j \in 1..n : i < j => s[p[i]] <= s[p[j]]
      <3> HIDE DEF n, s
      <3> QED BY <2>2, <2>3, SortedInts
    <2>6. result = [i \in 1..n |-> s[p[i]]]
      BY <2>4, <2>5, Zenon
    <2>7. \A i, j \in DOMAIN result : i < j => result[i] <= result[j]
      <3> HIDE DEF n, s
      <3> QED BY <2>5, <2>6
    <2> DEFINE c == [i \in 1..n |-> got[p[i]]]
               g == Squares([i \in Items |-> i])
    <2>8. /\ \A i \in 1..n : p[i] \in 1..n /\ got[p[i]] \in Items
          /\ \A i, j \in 1..n : p[i] = p[j] => i = j
          /\ \A i, j \in 1..n : got[i] = got[j] => i = j
      BY <2>1, <2>2, <2>5 DEF IsInjective
    <2>9. c \in [1..n -> Items] /\ IsInjective(c)
      <3> HIDE DEF n
      <3>1. ASSUME NEW i \in 1..n, NEW j \in 1..n, got[p[i]] = got[p[j]] PROVE i = j
        <4>1. p[i] \in 1..n /\ p[j] \in 1..n
          BY <2>8
        <4> QED BY <2>8, <3>1, <4>1
      <3> QED BY <2>8, <3>1 DEF IsInjective
    <2>12. \A e \in Items : \E i \in 1..n : c[i] = e
      <3>1. \A k \in 1..n : \E i \in 1..n : p[i] = k
        BY <2>5
      <3>2. \A e \in Items : \E k \in 1..n : got[k] = e
        BY <2>1, <2>2 DEF Range
      <3> QED BY <3>1, <3>2
    <2>10. DOMAIN g = Items /\ result = [i \in 1..n |-> g[c[i]]]
      BY <2>2, <2>5, <2>6 DEF Squares
    <2>11. ToBag(result) = ToBag(g)
      <3>1. IsFiniteSet(1..n)
        BY <2>2, FS_Interval
      <3>2. Shuffled(c, 1..n, g, result)
        <4> HIDE DEF c, g, n
        <4> QED BY <2>9, <2>10, <2>12, <3>1 DEF Shuffled
      <3> HIDE DEF c, g, n
      <3> QED BY <3>2, SameBag
    <2> QED BY <2>7, <2>10, <2>11
  <1> QED BY Invariance, ResultInvariance, <1>1, PTL

(* Each step of the goroutines is a step of FanIn, or invisible to it: the *)
(* pipeline collects each item at most once and returns only with all.     *)
THEOREM Refinement == Spec => Abstract!Spec
  <1>1. Init => Abstract!Init
    BY DEF Init, Abstract!Init
  <1>2. IInv /\ IInv' /\ [Next]_vars => [Abstract!Next]_Abstract!vars
    <2> SUFFICES ASSUME IInv, IInv', [Next]_vars
                 PROVE  Abstract!Next \/ UNCHANGED Abstract!vars
      OBVIOUS
    <2> USE DEF Abstract!vars
    <2>1. CASE MainGen
      BY <2>1 DEF MainGen, mainVars
    <2>2. CASE MainStartStage
      BY <2>2 DEF MainStartStage, mainVars
    <2>3. CASE MainAdd
      BY <2>3 DEF MainAdd, mainVars
    <2>4. CASE MainStartForward
      BY <2>4 DEF MainStartForward, mainVars
    <2>5. CASE MainStartCloser
      BY <2>5 DEF MainStartCloser, mainVars
    <2>6. CASE GenClose
      BY <2>6 DEF GenClose, mainVars
    <2>7. CASE CloserClose
      BY <2>7 DEF CloserClose, mainVars
    <2>8. ASSUME NEW s \in Stages, GenSend(s) PROVE UNCHANGED Abstract!vars
      BY <2>8 DEF GenSend, mainVars
    <2>9. ASSUME NEW s \in Stages, SquareSend(s) PROVE UNCHANGED Abstract!vars
      BY <2>9 DEF SquareSend, mainVars
    <2>10. ASSUME NEW s \in Stages, SquareClose(s) PROVE UNCHANGED Abstract!vars
      BY <2>10 DEF SquareClose, mainVars
    <2>11. ASSUME NEW s \in Stages, ForwardDone(s) PROVE UNCHANGED Abstract!vars
      BY <2>11 DEF ForwardDone, mainVars
    <2>12. CASE MainReturn
      <3>1. Range(got) = Items /\ got' = got /\ main = "collect" /\ main' = "returned"
        BY <2>12, OutClosed DEF MainReturn
      <3>2. ~(main = "returned") /\ (main' = "returned") = TRUE
        BY <3>1
      <3> QED BY <3>1, <3>2, Zenon DEF Abstract!Next, Abstract!Return, Abstract!Range, Range
    <2>13. ASSUME NEW s \in Stages, ForwardSend(s) PROVE Abstract!Next
      <3>1. carried[s] \in Items /\ carried[s] \notin Range(got)
        BY <2>13, Shape DEF ForwardSend, IInv, TypeOK, Conserved, InForward, Items
      <3>2. /\ main = "collect" /\ main' = main
            /\ got' = Append(got, carried[s])
        BY <2>13 DEF ForwardSend
      <3>3. ~(main = "returned") /\ (main' = "returned") = (main = "returned")
        BY <3>2
      <3> QED BY <3>1, <3>2, <3>3, Zenon DEF Abstract!Next, Abstract!Collect, Abstract!Range, Range
    <2>14. CASE UNCHANGED vars
      BY <2>14 DEF vars, mainVars
    <2> QED BY <2>1, <2>2, <2>3, <2>4, <2>5, <2>6, <2>7, <2>8, <2>9, <2>10, <2>11, <2>12,
               <2>13, <2>14 DEF Next, Step, Main, Finished
  <1> QED BY <1>1, <1>2, Invariance, PTL DEF Spec, Abstract!Spec

-----------------------------------------------------------------------------
(* The parser and the fuzz function around it, for inputs of any length. *)
\* What the pieces of an input can be, once they have been accepted.
AllValues == {Parser!Values[i] : i \in 1..6}
Pieces == {"", "#x", "a", "b"}
TagValues == {v \in AllValues : v # Parser!Empty /\ Head(v) # "#x"}
Terms == {<<"#x">>, <<"a">>, <<"b">>}

(* Values are not empty, and Rank tells them apart. *)
LEMMA RankOfValues ==
  /\ \A v \in AllValues : v \in Seq(Pieces) /\ v # <<>>
  /\ \A v \in AllValues : Parser!Rank(v) \in Int
  /\ \A v, w \in AllValues : Parser!Rank(v) = Parser!Rank(w) => v = w
  <1>1. DOMAIN Parser!Values = 1..6
    BY DEF Parser!Values
  <1>2. \A v \in AllValues : v \in Seq(Pieces) /\ v # <<>>
    <2>1. /\ Parser!Values[1] = <<"">> /\ Parser!Values[2] = <<"#x">>
          /\ Parser!Values[3] = <<"", "a">> /\ Parser!Values[4] = <<"a">>
          /\ Parser!Values[5] = <<"a", "b">> /\ Parser!Values[6] = <<"b">>
      BY DEF Parser!Values, Parser!Empty
    <2>2. /\ <<"">> \in Seq(Pieces) /\ <<"#x">> \in Seq(Pieces)
          /\ <<"a">> \in Seq(Pieces) /\ <<"b">> \in Seq(Pieces)
          /\ <<"", "a">> \in Seq(Pieces) /\ <<"a", "b">> \in Seq(Pieces)
      BY DEF Pieces
    <2>3. /\ <<"">> # <<>> /\ <<"#x">> # <<>> /\ <<"a">> # <<>> /\ <<"b">> # <<>>
          /\ <<"", "a">> # <<>> /\ <<"a", "b">> # <<>>
      OBVIOUS
    <2>4. ASSUME NEW v \in AllValues
          PROVE  \/ v = Parser!Values[1] \/ v = Parser!Values[2] \/ v = Parser!Values[3]
                 \/ v = Parser!Values[4] \/ v = Parser!Values[5] \/ v = Parser!Values[6]
      <3>1. PICK i \in 1..6 : v = Parser!Values[i]
        BY DEF AllValues
      <3>2. i = 1 \/ i = 2 \/ i = 3 \/ i = 4 \/ i = 5 \/ i = 6
        OBVIOUS
      <3> QED BY <3>1, <3>2
    <2> QED BY <2>1, <2>2, <2>3, <2>4, Zenon
  <1>3. ASSUME NEW v \in AllValues
        PROVE  Parser!Rank(v) \in 1..6 /\ Parser!Values[Parser!Rank(v)] = v
    <2>1. \E i \in 1..6 : Parser!Values[i] = v
      BY DEF AllValues
    <2>2. Parser!Rank(v) = CHOOSE i \in 1..6 : Parser!Values[i] = v
      BY <1>1 DEF Parser!Rank
    <2> QED BY <2>1, <2>2
  <1>4. \A v, w \in AllValues : Parser!Rank(v) = Parser!Rank(w) => v = w
    BY <1>3
  <1> QED BY <1>2, <1>3, <1>4

(* A rearrangement of a sequence in order that is in order is the same one.*)
Ascends(a, n) == \A i, j \in 1..n : i < j => a[i] <= a[j]

LEMMA OneOrder ==
  \A n \in Nat : \A a \in [1..n -> Int] : \A p :
     Sorts(p, n, a) /\ Ascends(a, n) => \A i \in 1..n : a[p[i]] = a[i]
  <1> SUFFICES ASSUME NEW n \in Nat, NEW a \in [1..n -> Int], NEW p, Sorts(p, n, a),
                      \A i, j \in 1..n : i < j => a[i] <= a[j]
               PROVE  \A i \in 1..n : a[p[i]] = a[i]
    BY DEF Ascends
  <1>0. \A i \in 1..n : p[i] \in 1..n /\ a[i] \in Int /\ a[p[i]] \in Int
    BY DEF Sorts
  <1>1. ASSUME NEW i \in 1..n, a[p[i]] < a[i] PROVE FALSE
    <2>1. ASSUME NEW k \in 1..i PROVE p[k] \in 1..i-1
      <3>1. k \in 1..n /\ a[p[k]] <= a[p[i]]
        BY <1>0 DEF Sorts
      <3>2. a[p[k]] < a[i]
        BY <1>0, <1>1, <3>1
      <3>3. ~(p[k] = i) /\ ~(i < p[k])
        BY <1>0, <3>1, <3>2
      <3> QED BY <1>0, <3>1, <3>3
    <2> DEFINE f == [k \in 1..i |-> p[k]]
    <2>2. f \in [1..i -> 1..i-1]
      BY <2>1
    <2>3. /\ IsFiniteSet(1..i) /\ Cardinality(1..i) = i
          /\ IsFiniteSet(1..i-1) /\ Cardinality(1..i-1) = i - 1
      BY FS_Interval
    <2>4. \E x, y \in 1..i : x # y /\ f[x] = f[y]
      <3>1. Cardinality(1..i-1) < Cardinality(1..i)
        BY <2>3
      <3> HIDE DEF f
      <3> QED BY <2>2, <2>3, <3>1, FS_PigeonHole, Zenon
    <2>5. PICK x \in 1..i, y \in 1..i : x # y /\ p[x] = p[y]
      BY <2>4
    <2>6. x \in 1..n /\ y \in 1..n
      OBVIOUS
    <2> QED BY <2>5, <2>6 DEF Sorts
  <1>2. ASSUME NEW i \in 1..n, a[p[i]] > a[i] PROVE FALSE
    <2>1. ASSUME NEW k \in i..n PROVE p[k] \in i+1..n
      <3>1. k \in 1..n /\ a[p[i]] <= a[p[k]]
        BY <1>0 DEF Sorts
      <3>2. a[i] < a[p[k]]
        BY <1>0, <1>2, <3>1
      <3>3. ~(p[k] = i) /\ ~(p[k] < i)
        BY <1>0, <3>1, <3>2
      <3> QED BY <1>0, <3>1, <3>3
    <2> DEFINE f == [k \in i..n |-> p[k]]
    <2>2. f \in [i..n -> i+1..n]
      BY <2>1
    <2>3. /\ IsFiniteSet(i..n) /\ Cardinality(i..n) = n - i + 1
          /\ IsFiniteSet(i+1..n) /\ Cardinality(i+1..n) = n - i
      BY FS_Interval
    <2>4. \E x, y \in i..n : x # y /\ f[x] = f[y]
      <3>1. Cardinality(i+1..n) < Cardinality(i..n)
        BY <2>3
      <3> HIDE DEF f
      <3> QED BY <2>2, <2>3, <3>1, FS_PigeonHole, Zenon
    <2>5. PICK x \in i..n, y \in i..n : x # y /\ p[x] = p[y]
      BY <2>4
    <2>6. x \in 1..n /\ y \in 1..n
      OBVIOUS
    <2> QED BY <2>5, <2>6 DEF Sorts
  <1> QED BY <1>0, <1>1, <1>2

(* The sorting of the other modules is this one. *)
LEMMA SameSorting ==
  \A s, r : Parser!SortedBy(s, r) = SortedBy(s, r) /\ Pure!SortedBy(s, r) = SortedBy(s, r)
  BY Zenon DEF SortedBy, Orders, Ascending, Rearranged, IsInjective,
     Parser!SortedBy, Parser!Orders, Parser!Ascending, Parser!Rearranged, Parser!IsInjective,
     Pure!SortedBy, Pure!Orders, Pure!Ascending, Pure!Rearranged, Pure!IsInjective

(* sort.Strings on values: a rearrangement, in the order of the ranks. *)
LEMMA SortStringsOrder ==
  \A s \in Seq(AllValues) : \E p :
     /\ Sorts(p, Len(s), [i \in 1..Len(s) |-> Parser!Rank(s[i])])
     /\ Parser!SortStrings(s) = [i \in 1..Len(s) |-> s[p[i]]]
  <1> SUFFICES ASSUME NEW s \in Seq(AllValues)
               PROVE  \E p : /\ Sorts(p, Len(s), [i \in 1..Len(s) |-> Parser!Rank(s[i])])
                             /\ Parser!SortStrings(s) = [i \in 1..Len(s) |-> s[p[i]]]
    OBVIOUS
  <1> DEFINE n == Len(s)
             r == [i \in 1..n |-> Parser!Rank(s[i])]
  <1>1. n \in Nat /\ DOMAIN s = 1..n /\ \A i \in 1..n : s[i] \in AllValues
    OBVIOUS
  <1>2. r \in [1..n -> Int]
    BY <1>1, RankOfValues
  <1>3. Parser!SortStrings(s) = SortedBy(s, r)
    BY <1>1, SameSorting, Zenon DEF Parser!SortStrings
  <1>4. InPlace(SortedBy(s, r), s, r, n)
    <2> HIDE DEF n, r
    <2> QED BY <1>1, <1>2, InOrder
  <1> HIDE DEF n, r
  <1>5. \E p : Sorts(p, n, r) /\ Parser!SortStrings(s) = [i \in 1..n |-> s[p[i]]]
    BY <1>3, <1>4, Zenon DEF InPlace
  <1> QED BY <1>5, Zenon DEF n, r

(* Sorting keeps to the values there are, and a second time does nothing. *)
LEMMA SortStringsTwice ==
  \A V \in SUBSET AllValues : \A s \in Seq(V) :
     /\ Parser!SortStrings(s) \in Seq(V)
     /\ Parser!SortStrings(Parser!SortStrings(s)) = Parser!SortStrings(s)
  <1> SUFFICES ASSUME NEW V \in SUBSET AllValues, NEW s \in Seq(V)
               PROVE  /\ Parser!SortStrings(s) \in Seq(V)
                      /\ Parser!SortStrings(Parser!SortStrings(s)) = Parser!SortStrings(s)
    OBVIOUS
  <1> DEFINE n == Len(s)
             t == Parser!SortStrings(s)
             Ranks(u) == [i \in 1..n |-> Parser!Rank(u[i])]
  <1>1. n \in Nat /\ s \in Seq(AllValues) /\ \A i \in 1..n : s[i] \in V
    OBVIOUS
  <1>2. PICK p : Sorts(p, n, Ranks(s)) /\ t = [i \in 1..n |-> s[p[i]]]
    BY <1>1, SortStringsOrder
  <1>3. \A i \in 1..n : p[i] \in 1..n /\ t[i] = s[p[i]] /\ t[i] \in V
    BY <1>1, <1>2 DEF Sorts
  <1>4. t \in Seq(V) /\ Len(t) = n /\ t \in Seq(AllValues)
    <2>1. t \in [1..n -> V]
      BY <1>2, <1>3
    <2> HIDE DEF t, n
    <2> QED BY <1>1, <2>1
  <1>5. PICK o : Sorts(o, n, Ranks(t)) /\ Parser!SortStrings(t) = [i \in 1..n |-> t[o[i]]]
    <2> HIDE DEF t
    <2> QED BY <1>4, SortStringsOrder
  <1>6. Ranks(t) \in [1..n -> Int]
    BY <1>3, RankOfValues
  <1>7. ASSUME NEW i \in 1..n, NEW j \in 1..n, i < j
        PROVE  Ranks(t)[i] <= Ranks(t)[j]
    <2>1. Ranks(s)[p[i]] <= Ranks(s)[p[j]]
      <3> HIDE DEF t, n, Ranks
      <3> QED BY <1>2, <1>7 DEF Sorts
    <2>2. /\ Ranks(t)[i] = Parser!Rank(t[i]) /\ Ranks(t)[j] = Parser!Rank(t[j])
          /\ Ranks(s)[p[i]] = Parser!Rank(s[p[i]]) /\ Ranks(s)[p[j]] = Parser!Rank(s[p[j]])
      <3> HIDE DEF t
      <3> QED BY <1>3
    <2>3. t[i] = s[p[i]] /\ t[j] = s[p[j]]
      BY <1>3
    <2> HIDE DEF t, n, Ranks
    <2> QED BY <2>1, <2>2, <2>3
  <1> DEFINE a == Ranks(t)
  <1>8. \A i \in 1..n : a[o[i]] = a[i]
    <2>1. a \in [1..n -> Int] /\ Ascends(a, n)
      BY <1>6, <1>7 DEF Ascends
    <2>2. n \in Nat /\ Sorts(o, n, a)
      BY <1>1, <1>5
    <2> HIDE DEF a, n
    <2> QED BY <2>1, <2>2, OneOrder
  <1>9. ASSUME NEW i \in 1..n PROVE t[o[i]] = t[i]
    <2>1. o[i] \in 1..n
      BY <1>5 DEF Sorts
    <2>2. Parser!Rank(t[o[i]]) = Parser!Rank(t[i])
      <3> HIDE DEF t
      <3> QED BY <1>8, <2>1
    <2>3. t[i] \in AllValues /\ t[o[i]] \in AllValues
      BY <1>3, <2>1
    <2> HIDE DEF t, n
    <2> QED BY <2>2, <2>3, RankOfValues
  <1>10. Parser!SortStrings(t) = t
    BY <1>2, <1>5, <1>9
  <1> QED BY <1>4, <1>10

Letters == Pieces \cup {"c", "tag", "author"}

(* The fields an input is made of. *)
LEMMA FieldKinds ==
  \A f \in Parser!Fields :
     /\ f \in Seq(Letters) /\ Len(f) >= 1
     /\ Len(f) = 1 => f \in Terms
     /\ Len(f) > 1 /\ Head(f) \in {"tag", "author"} => Tail(f) \in AllValues
  <1> SUFFICES ASSUME NEW f \in Parser!Fields
               PROVE  /\ f \in Seq(Letters) /\ Len(f) >= 1
                      /\ Len(f) = 1 => f \in Terms
                      /\ Len(f) > 1 /\ Head(f) \in {"tag", "author"} => Tail(f) \in AllValues
    OBVIOUS
  <1>0. \A x, y \in Letters : /\ <<x>> \in Seq(Letters) /\ Len(<<x>>) = 1
                              /\ <<x, y>> \in Seq(Letters) /\ Len(<<x, y>>) = 2
                              /\ Head(<<x, y>>) = x
    OBVIOUS
  <1>1. CASE f \in Terms
    <2>1. "#x" \in Letters /\ "a" \in Letters /\ "b" \in Letters
      BY DEF Letters, Pieces
    <2> HIDE DEF Letters
    <2>2. PICK x \in Letters : f = <<x>>
      BY <1>1, <2>1 DEF Terms
    <2> QED BY <1>0, <1>1, <2>2
  <1>2. CASE f = <<"c", "a">> \/ f = <<"", "">>
    <2>1. "c" \in Letters /\ "a" \in Letters /\ "" \in Letters
      BY DEF Letters, Pieces
    <2>2. PICK x \in Letters, y \in Letters : f = <<x, y>> /\ x \notin {"tag", "author"}
      BY <1>2, <2>1
    <2>3. f \in Seq(Letters) /\ Len(f) = 2 /\ Head(f) = x
      BY <1>0, <2>2
    <2> QED BY <2>2, <2>3
  <1>3. ASSUME NEW word \in {"tag", "author"}, NEW v \in AllValues, f = <<word>> \o v
        PROVE  /\ f \in Seq(Letters) /\ Len(f) > 1 /\ Tail(f) = v
    <2>1. v \in Seq(Letters) /\ v # <<>> /\ word \in Letters
      BY RankOfValues DEF Letters
    <2> QED BY <1>3, <2>1
  <1>4. DOMAIN Parser!Values = 1..6
    BY DEF Parser!Values
  <1>5. \/ f \in Terms \/ f = <<"c", "a">> \/ f = <<"", "">>
        \/ \E word \in {"tag", "author"} : \E v \in AllValues : f = <<word>> \o v
    <2>1. \/ f \in Terms \/ f = <<"c", "a">> \/ f = <<"", "">>
          \/ \E word \in {"tag", "author"} : \E i \in 1..6 : f = <<word>> \o Parser!Values[i]
      <3>1. f \in Terms \cup {<<"c", "a">>, <<"", "">>}
                        \cup Parser!Keyed("tag") \cup Parser!Keyed("author")
        BY Zenon DEF Parser!Fields, Terms
      <3>2. \A word : f \in Parser!Keyed(word) => \E i \in 1..6 : f = <<word>> \o Parser!Values[i]
        BY <1>4 DEF Parser!Keyed
      <3> HIDE DEF Terms
      <3> QED BY <3>1, <3>2, Zenon
    <2> QED BY <2>1, Zenon DEF AllValues
  <1>6. ASSUME NEW word \in {"tag", "author"}, NEW v \in AllValues, f = <<word>> \o v
        PROVE  Tail(f) \in AllValues /\ Len(f) > 1 /\ f \in Seq(Letters)
    <2>1. f \in Seq(Letters) /\ Len(f) > 1 /\ Tail(f) = v
      BY <1>3, <1>6
    <2> QED BY <2>1, Zenon
  <1>7. ASSUME NEW word \in {"tag", "author"}, NEW v \in AllValues, f = <<word>> \o v
        PROVE  Len(f) >= 1 /\ Len(f) # 1
    BY <1>6, <1>7
  <1> QED BY <1>1, <1>2, <1>5, <1>6, <1>7

(* A key in front of a value is what a field with that key is cut into. *)
LEMMA KeyedField ==
  \A v \in AllValues : \A word \in Letters :
     LET f == <<word>> \o v
     IN  /\ f \in Seq(Letters) /\ Len(f) > 1 /\ Len(f) # 1
         /\ Head(f) = word /\ Tail(f) = v
  <1> SUFFICES ASSUME NEW v \in AllValues, NEW word \in Letters
               PROVE  LET f == <<word>> \o v
                      IN  /\ f \in Seq(Letters) /\ Len(f) > 1 /\ Len(f) # 1
                          /\ Head(f) = word /\ Tail(f) = v
    OBVIOUS
  <1>1. v \in Seq(Letters) /\ v # <<>>
    BY RankOfValues DEF Letters
  <1> QED BY <1>1

LEMMA TermsAreValues ==
  /\ Terms \subseteq AllValues /\ TagValues \subseteq AllValues
  /\ Parser!Empty \in AllValues
  /\ \A x \in Terms : x \in Seq(Letters) /\ Len(x) = 1
  <1>1. Parser!Values[1] = Parser!Empty /\ Parser!Values[2] = <<"#x">>
        /\ Parser!Values[4] = <<"a">> /\ Parser!Values[6] = <<"b">>
    BY DEF Parser!Values
  <1>2. \A i \in 1..6 : Parser!Values[i] \in AllValues
    BY DEF AllValues
  <1>3. Terms \subseteq AllValues
    BY <1>1, <1>2 DEF Terms
  <1>4. ASSUME NEW x \in Terms PROVE x \in Seq(Letters) /\ Len(x) = 1
    <2>1. "#x" \in Letters /\ "a" \in Letters /\ "b" \in Letters
      BY DEF Letters, Pieces
    <2> HIDE DEF Letters
    <2>2. PICK l \in Letters : x = <<l>>
      BY <2>1 DEF Terms
    <2> QED BY <2>2
  <1> QED BY <1>1, <1>2, <1>3, <1>4 DEF TagValues

Queries == [tags : Seq(TagValues), author : AllValues, terms : Seq(Terms)]

\* What is written out of the first query, piece by piece.
OldTags == Parser!SortStrings(first.tags)
OldTerms == Parser!SortStrings(first.terms)
Authors == IF first.author = Parser!Empty THEN 0 ELSE 1
Written == Len(OldTags) + Authors + Len(OldTerms)

IsWritten(L) ==
  /\ L \in Seq(Seq(Letters)) /\ Len(L) = Written
  /\ \A i \in 1..Len(OldTags) : L[i] = <<"tag">> \o OldTags[i]
  /\ Authors = 1 => L[Len(OldTags) + 1] = <<"author">> \o first.author
  /\ \A i \in 1..Len(OldTerms) : L[Len(OldTags) + Authors + i] = OldTerms[i]

LEMMA OldPieces ==
  ASSUME first \in Queries
  PROVE  /\ OldTags \in Seq(TagValues) /\ OldTerms \in Seq(Terms)
         /\ Parser!SortStrings(OldTags) = OldTags
         /\ Parser!SortStrings(OldTerms) = OldTerms
         /\ Len(OldTags) \in Nat /\ Len(OldTerms) \in Nat
  <1>1. first.tags \in Seq(TagValues) /\ first.terms \in Seq(Terms)
    BY DEF Queries
  <1>2. OldTags \in Seq(TagValues) /\ OldTerms \in Seq(Terms)
    BY <1>1, SortStringsTwice, TermsAreValues DEF OldTags, OldTerms
  <1> QED BY <1>1, <1>2, SortStringsTwice, TermsAreValues DEF OldTags, OldTerms

(* A function on 1..n is a sequence of length n; what joins two sequences. *)
LEMMA SeqFrom ==
  \A S : \A n \in Nat : \A f \in [1..n -> S] : f \in Seq(S) /\ Len(f) = n
  OBVIOUS

Joins(c, a, b) == /\ Len(c) = Len(a) + Len(b)
                  /\ \A i \in 1..Len(a) : c[i] = a[i]
                  /\ \A i \in 1..Len(b) : c[Len(a) + i] = b[i]

LEMMA Join ==
  \A S : \A a \in Seq(S) : \A b \in Seq(S) : a \o b \in Seq(S) /\ Joins(a \o b, a, b)
  BY DEF Joins

LEMMA WhatIsWritten ==
  ASSUME first \in Queries PROVE IsWritten(Parser!String(first))
  <1> DEFINE T == [i \in DOMAIN OldTags |-> <<"tag">> \o OldTags[i]]
             A == IF first.author # Parser!Empty
                  THEN << <<"author">> \o first.author >> ELSE <<>>
  <1>1. Parser!String(first) = T \o A \o OldTerms
    BY DEF Parser!String, OldTags, OldTerms
  <1>2. /\ OldTags \in Seq(TagValues) /\ OldTerms \in Seq(Terms) /\ first.author \in AllValues
        /\ Len(OldTags) \in Nat /\ Len(OldTerms) \in Nat
    BY OldPieces DEF Queries
  <1>3. /\ T \in Seq(Seq(Letters)) /\ Len(T) = Len(OldTags)
        /\ \A i \in 1..Len(OldTags) : T[i] = <<"tag">> \o OldTags[i]
    <2>1. \A i \in 1..Len(OldTags) : <<"tag">> \o OldTags[i] \in Seq(Letters)
      <3>1. "tag" \in Letters
        BY DEF Letters
      <3>2. \A i \in 1..Len(OldTags) : OldTags[i] \in AllValues
        BY <1>2, TermsAreValues
      <3> QED BY <3>1, <3>2, KeyedField
    <2>2. DOMAIN OldTags = 1..Len(OldTags)
      BY <1>2
    <2>3. T \in [1..Len(OldTags) -> Seq(Letters)]
      BY <2>1, <2>2
    <2>4. \A i \in 1..Len(OldTags) : T[i] = <<"tag">> \o OldTags[i]
      BY <2>2
    <2> HIDE DEF T
    <2>5. T \in Seq(Seq(Letters)) /\ Len(T) = Len(OldTags)
      BY <1>2, <2>3, SeqFrom, Zenon
    <2> QED BY <2>4, <2>5
  <1>4. /\ A \in Seq(Seq(Letters)) /\ Len(A) = Authors
        /\ Authors = 1 => A[1] = <<"author">> \o first.author
    <2>1. <<"author">> \o first.author \in Seq(Letters)
      BY <1>2, KeyedField DEF Letters
    <2> HIDE DEF Letters
    <2> QED BY <2>1 DEF Authors
  <1>5. OldTerms \in Seq(Seq(Letters))
    BY <1>2, TermsAreValues
  <1>6. Authors \in {0, 1}
    BY DEF Authors
  <1> HIDE DEF T, A
  <1> DEFINE S == Seq(Letters)
             B == T \o A
             L == B \o OldTerms
  <1> HIDE DEF S
  <1>7. /\ B \in Seq(S) /\ Len(B) = Len(OldTags) + Authors
        /\ \A i \in 1..Len(OldTags) : B[i] = T[i]
        /\ Authors = 1 => B[Len(OldTags) + 1] = A[1]
    <2>1. T \in Seq(S) /\ A \in Seq(S)
      BY <1>3, <1>4 DEF S
    <2>2. B \in Seq(S) /\ Joins(B, T, A)
      BY <2>1, Join, Zenon
    <2> HIDE DEF B, S
    <2> QED BY <2>2, <1>3, <1>4, <1>6 DEF Joins
  <1> HIDE DEF B
  <1>8. /\ L \in Seq(S) /\ Len(L) = Len(B) + Len(OldTerms)
        /\ \A i \in 1..Len(B) : L[i] = B[i]
        /\ \A i \in 1..Len(OldTerms) : L[Len(B) + i] = OldTerms[i]
    <2>1. B \in Seq(S) /\ OldTerms \in Seq(S)
      BY <1>5, <1>7 DEF S
    <2>2. L \in Seq(S) /\ Joins(L, B, OldTerms)
      BY <2>1, Join, Zenon
    <2> HIDE DEF L
    <2> QED BY <2>2 DEF Joins
  <1>9. L = Parser!String(first)
    BY <1>1 DEF B
  <1> HIDE DEF L
  <1>10. /\ \A i \in 1..Len(OldTags) : L[i] = <<"tag">> \o OldTags[i]
         /\ Authors = 1 => L[Len(OldTags) + 1] = <<"author">> \o first.author
    <2>1. \A i \in 1..Len(OldTags) : i \in 1..Len(B)
      BY <1>2, <1>6, <1>7
    <2>2. Authors = 1 => Len(OldTags) + 1 \in 1..Len(B)
      BY <1>2, <1>7
    <2>3. \A i \in 1..Len(OldTags) : L[i] = B[i] /\ B[i] = T[i] /\ T[i] = <<"tag">> \o OldTags[i]
      BY <1>3, <1>7, <1>8, <2>1
    <2>4. Authors = 1 => /\ L[Len(OldTags) + 1] = B[Len(OldTags) + 1]
                         /\ B[Len(OldTags) + 1] = A[1] /\ A[1] = <<"author">> \o first.author
      BY <1>4, <1>7, <1>8, <2>2, Zenon
    <2> QED BY <2>3, <2>4, Zenon
  <1>11. L \in Seq(Seq(Letters)) /\ Len(L) = Written
    BY <1>7, <1>8 DEF S, Written
  <1>12. \A i \in 1..Len(OldTerms) : L[Len(OldTags) + Authors + i] = OldTerms[i]
    BY <1>7, <1>8
  <1> QED BY <1>9, <1>10, <1>11, <1>12, Zenon DEF IsWritten

(* The fields left when k of the written ones have been read, and the      *)
(* query that has been built of those.                                     *)
Left(k) == /\ fields \in Seq(Seq(Letters)) /\ Len(fields) = Written - k
           /\ \A i \in 1..Written - k : fields[i] = Parser!String(first)[k + i]

Read(k) == /\ q \in Queries
           /\ \A i \in 1..Len(q.tags) : q.tags[i] = OldTags[i]
           /\ \A i \in 1..Len(q.terms) : q.terms[i] = OldTerms[i]
           /\ k <= Len(OldTags) =>
                 Len(q.tags) = k /\ q.author = Parser!Empty /\ Len(q.terms) = 0
           /\ k > Len(OldTags) =>
                 /\ Len(q.tags) = Len(OldTags) /\ q.author = first.author
                 /\ Len(q.terms) = k - Len(OldTags) - Authors

FirstParse == /\ fields \in Seq(Parser!Fields) /\ q \in Queries
              /\ verdict \in {"parsing", "rejected", "panicked"}

SecondParse == /\ first \in Queries /\ verdict \in {"parsing", "ok"}
               /\ verdict = "parsing" => \E k \in 0..Written : Left(k) /\ Read(k)
               /\ verdict = "ok" => Parser!String(q) = Parser!String(first)

Parse == /\ pass \in {1, 2}
         /\ pass = 1 => FirstParse
         /\ pass = 2 => SecondParse

LEMMA HeadAndTail ==
  \A S : \A f \in Seq(S) : Len(f) > 0 =>
     /\ Head(f) = f[1] /\ Head(f) \in S /\ Tail(f) \in Seq(S) /\ Len(Tail(f)) = Len(f) - 1
     /\ \A i \in 1..Len(f) - 1 : Tail(f)[i] = f[i + 1]
  OBVIOUS

LEMMA EmptyOrNot ==
  \A S : \A f \in Seq(S) : Len(f) \in Nat /\ (f = <<>> <=> Len(f) = 0)
  OBVIOUS

LEMMA WrittenIsNat ==
  ASSUME first \in Queries
  PROVE  /\ Len(OldTags) \in Nat /\ Len(OldTerms) \in Nat /\ Authors \in {0, 1}
         /\ Written = Len(OldTags) + Authors + Len(OldTerms) /\ Written \in Nat
  <1>1. Len(OldTags) \in Nat /\ Len(OldTerms) \in Nat
    BY OldPieces
  <1>2. Authors \in {0, 1}
    BY DEF Authors
  <1> QED BY <1>1, <1>2 DEF Written

(* One more field is read; what is left is what comes after it.            *)
LEMMA FieldRead ==
  ASSUME first \in Queries, NEW k \in 0..Written, Left(k), Parser!Parsing
  PROVE  /\ k < Written /\ k + 1 \in 0..Written
         /\ Parser!Field = Parser!String(first)[k + 1]
         /\ Tail(fields) \in Seq(Seq(Letters)) /\ Len(Tail(fields)) = Written - (k + 1)
         /\ \A i \in 1..Written - (k + 1) : Tail(fields)[i] = Parser!String(first)[k + 1 + i]
  <1>1. Written \in Nat
    BY WrittenIsNat
  <1>2. fields \in Seq(Seq(Letters)) /\ fields # <<>>
    BY DEF Left, Parser!Parsing
  <1>3. Len(fields) = Written - k /\ Len(fields) > 0
    <2>1. Len(fields) \in Nat /\ Len(fields) # 0
      BY <1>2, EmptyOrNot, Zenon
    <2> QED BY <2>1 DEF Left
  <1>4. /\ Head(fields) = fields[1]
        /\ Tail(fields) \in Seq(Seq(Letters)) /\ Len(Tail(fields)) = Len(fields) - 1
        /\ \A i \in 1..Len(fields) - 1 : Tail(fields)[i] = fields[i + 1]
    BY <1>2, <1>3, HeadAndTail, Zenon
  <1>5. k < Written /\ k + 1 \in 0..Written /\ Len(Tail(fields)) = Written - (k + 1)
    BY <1>1, <1>3, <1>4
  <1> DEFINE L == Parser!String(first)
  <1>6. \A i \in 1..Written - k : fields[i] = L[k + i]
    BY DEF Left
  <1> HIDE DEF L
  <1>7. Head(fields) = L[k + 1]
    <2>1. 1 \in 1..Written - k
      BY <1>1, <1>5
    <2> QED BY <1>4, <1>6, <2>1
  <1>8. \A i \in 1..Written - (k + 1) : Tail(fields)[i] = L[k + 1 + i]
    <2> SUFFICES ASSUME NEW i \in 1..Written - (k + 1) PROVE Tail(fields)[i] = L[k + 1 + i]
      OBVIOUS
    <2>1. i \in 1..Len(fields) - 1 /\ i + 1 \in 1..Written - k /\ k + (i + 1) = k + 1 + i
      BY <1>1, <1>3
    <2>2. Tail(fields)[i] = fields[i + 1] /\ fields[i + 1] = L[k + (i + 1)]
      BY <1>4, <1>6, <2>1
    <2> QED BY <2>1, <2>2
  <1> QED BY <1>4, <1>5, <1>7, <1>8 DEF L, Parser!Field

(* Which field of the written ones it is, by how many came before it.      *)
LEMMA WhichField ==
  ASSUME first \in Queries, NEW k \in 0..Written, k < Written,
         Parser!Field = Parser!String(first)[k + 1]
  PROVE  \/ /\ k < Len(OldTags) /\ Len(Parser!Field) > 1 /\ Len(Parser!Field) # 1
            /\ Head(Parser!Field) = "tag"
            /\ Parser!Val = OldTags[k + 1] /\ Parser!Val \in TagValues
         \/ /\ k = Len(OldTags) /\ Authors = 1
            /\ Len(Parser!Field) > 1 /\ Len(Parser!Field) # 1
            /\ Head(Parser!Field) = "author"
            /\ Parser!Val = first.author /\ Parser!Val \in AllValues
            /\ Parser!Val # Parser!Empty
         \/ /\ k >= Len(OldTags) + Authors /\ Len(Parser!Field) = 1
            /\ Parser!Field = OldTerms[k - Len(OldTags) - Authors + 1]
            /\ Parser!Field \in Terms
  <1>1. /\ Len(OldTags) \in Nat /\ Len(OldTerms) \in Nat /\ Authors \in {0, 1}
        /\ Written = Len(OldTags) + Authors + Len(OldTerms)
    BY WrittenIsNat
  <1>2. IsWritten(Parser!String(first))
    BY WhatIsWritten
  <1>3. CASE k < Len(OldTags)
    <2>1. k + 1 \in 1..Len(OldTags)
      BY <1>1, <1>3
    <2>2. Parser!Field = <<"tag">> \o OldTags[k + 1]
      BY <1>2, <2>1 DEF IsWritten
    <2>3. OldTags[k + 1] \in TagValues
      BY <2>1, OldPieces
    <2>4. OldTags[k + 1] \in AllValues /\ "tag" \in Letters
      BY <2>3, TermsAreValues DEF Letters
    <2>5. /\ Len(Parser!Field) > 1 /\ Len(Parser!Field) # 1
          /\ Head(Parser!Field) = "tag" /\ Tail(Parser!Field) = OldTags[k + 1]
      BY <2>2, <2>4, KeyedField, Zenon
    <2> QED BY <1>3, <2>3, <2>5 DEF Parser!Val
  <1>4. CASE k = Len(OldTags) /\ Authors = 1
    <2>1. Parser!Field = <<"author">> \o first.author
      BY <1>2, <1>4 DEF IsWritten
    <2>2. first.author \in AllValues /\ "author" \in Letters
      BY DEF Queries, Letters
    <2>3. /\ Len(Parser!Field) > 1 /\ Len(Parser!Field) # 1
          /\ Head(Parser!Field) = "author" /\ Tail(Parser!Field) = first.author
      BY <2>1, <2>2, KeyedField, Zenon
    <2>4. first.author # Parser!Empty
      BY <1>4 DEF Authors
    <2> QED BY <1>4, <2>2, <2>3, <2>4 DEF Parser!Val
  <1>5. CASE k >= Len(OldTags) + Authors
    <2> DEFINE j == k - Len(OldTags) - Authors + 1
    <2>1. j \in 1..Len(OldTerms) /\ k + 1 = Len(OldTags) + Authors + j
      BY <1>1, <1>5
    <2> HIDE DEF j
    <2>2. Parser!Field = OldTerms[j]
      BY <1>2, <2>1 DEF IsWritten
    <2>3. OldTerms[j] \in Terms
      BY <2>1, OldPieces
    <2>4. Len(Parser!Field) = 1
      BY <2>2, <2>3, TermsAreValues
    <2> QED BY <1>5, <2>2, <2>3, <2>4 DEF j
  <1> QED BY <1>1, <1>3, <1>4, <1>5

Grown(t, s, x) == /\ Len(t) = Len(s) + 1 /\ t[Len(s) + 1] = x
                  /\ \A i \in 1..Len(s) : t[i] = s[i]

LEMMA Appended ==
  \A S : \A s \in Seq(S) : \A x \in S : Append(s, x) \in Seq(S) /\ Grown(Append(s, x), s, x)
  BY DEF Grown

Same(s, t) == Len(s) = Len(t) /\ \A i \in 1..Len(s) : s[i] = t[i]

LEMMA SameElements ==
  \A S : \A s \in Seq(S) : \A t \in Seq(S) : Same(s, t) => s = t
  BY DEF Same

(* The first parse makes queries of tags, an author and terms.             *)
LEMMA FirstStep ==
  ASSUME FirstParse, pass = 1, Parser!Next, ~Parser!Reparse
  PROVE  FirstParse' /\ pass' = 1
  <1>1. /\ fields \in Seq(Parser!Fields) /\ q \in Queries
        /\ q.tags \in Seq(TagValues) /\ q.author \in AllValues /\ q.terms \in Seq(Terms)
        /\ verdict \in {"parsing", "rejected", "panicked"}
    BY DEF FirstParse, Queries
  <1>2. ASSUME Parser!Parsing
        PROVE  Parser!Field \in Parser!Fields /\ Tail(fields) \in Seq(Parser!Fields)
    <2>1. Len(fields) \in Nat /\ Len(fields) # 0
      BY <1>1, <1>2, EmptyOrNot, Zenon DEF Parser!Parsing
    <2>2. Len(fields) > 0
      BY <2>1
    <2> QED BY <1>1, <2>2, HeadAndTail, Zenon DEF Parser!Field
  <1>3. ASSUME NEW query \in Queries, Parser!Parsing, Parser!Accept(query)
        PROVE  FirstParse' /\ pass' = 1
    BY <1>1, <1>2, <1>3 DEF Parser!Accept, FirstParse
  <1>4. Parser!Query \in Queries
    BY TermsAreValues DEF Parser!Query, Queries
  <1>5. ASSUME Parser!Reject PROVE FirstParse' /\ pass' = 1
    BY <1>1, <1>4, <1>5 DEF Parser!Reject, FirstParse
  <1>6. ASSUME Parser!Term PROVE FirstParse' /\ pass' = 1
    <2>1. Parser!Parsing /\ Parser!Field \in Terms
      BY <1>2, <1>6, FieldKinds, Zenon DEF Parser!Term
    <2>2. [q EXCEPT !.terms = Append(@, Parser!Field)] \in Queries
      <3>1. Append(q.terms, Parser!Field) \in Seq(Terms)
        BY <1>1, <2>1, Appended, Zenon
      <3> QED BY <1>1, <3>1 DEF Queries
    <2> QED BY <1>3, <1>6, <2>1, <2>2, Zenon DEF Parser!Term
  <1>7. ASSUME NEW word \in {"tag", "author"}, Parser!HasKey(word) PROVE Parser!Val \in AllValues
    BY <1>2, <1>7, FieldKinds, Zenon DEF Parser!HasKey, Parser!Val
  <1>8. ASSUME Parser!Tag PROVE FirstParse' /\ pass' = 1
    <2>1. Parser!Parsing /\ Parser!Val \in TagValues
      <3>1. Parser!Val \in AllValues
        BY <1>7, <1>8, Zenon DEF Parser!Tag
      <3> QED BY <1>8, <3>1, Zenon DEF Parser!Tag, Parser!HasKey, TagValues
    <2>2. [q EXCEPT !.tags = Append(@, Parser!Val)] \in Queries
      <3>1. Append(q.tags, Parser!Val) \in Seq(TagValues)
        BY <1>1, <2>1, Appended, Zenon
      <3> QED BY <1>1, <3>1 DEF Queries
    <2> QED BY <1>3, <1>8, <2>1, <2>2, Zenon DEF Parser!Tag
  <1>9. ASSUME Parser!Author PROVE FirstParse' /\ pass' = 1
    <2>1. Parser!Parsing /\ Parser!Val \in AllValues
      BY <1>7, <1>9, Zenon DEF Parser!Author, Parser!HasKey
    <2>2. [q EXCEPT !.author = Parser!Val] \in Queries
      BY <1>1, <2>1 DEF Queries
    <2> QED BY <1>3, <1>9, <2>1, <2>2, Zenon DEF Parser!Author
  <1>10. ASSUME Parser!TagPanics PROVE FirstParse' /\ pass' = 1
    BY <1>1, <1>10 DEF Parser!TagPanics, FirstParse
  <1>11. ASSUME Parser!Finished PROVE FirstParse' /\ pass' = 1
    BY <1>1, <1>11 DEF Parser!Finished, Parser!vars, FirstParse
  <1>12. ~Parser!Compare
    BY DEF Parser!Compare
  <1> QED BY <1>5, <1>6, <1>8, <1>9, <1>10, <1>11, <1>12, Zenon
          DEF Parser!Next, Parser!TagRejected, Parser!AuthorRejected, Parser!UnknownField

LEMMA Restarted ==
  first \in Queries /\ fields = Parser!String(first) /\ q = Parser!Query /\ verdict = "parsing"
     => SecondParse
  <1> SUFFICES ASSUME first \in Queries, fields = Parser!String(first), q = Parser!Query,
                      verdict = "parsing"
               PROVE  SecondParse
    OBVIOUS
  <1>1. IsWritten(Parser!String(first)) /\ Written \in Nat /\ Len(OldTags) \in Nat
    BY WhatIsWritten, WrittenIsNat
  <1>2. Left(0)
    <2>1. fields \in Seq(Seq(Letters)) /\ Len(fields) = Written
      BY <1>1 DEF IsWritten
    <2>2. \A i \in 1..Written - 0 : fields[i] = Parser!String(first)[0 + i]
      BY <1>1
    <2> QED BY <1>1, <2>1, <2>2 DEF Left
  <1>3. Read(0)
    <2>1. q \in Queries /\ q.author = Parser!Empty /\ Len(q.tags) = 0 /\ Len(q.terms) = 0
      BY TermsAreValues DEF Parser!Query, Queries
    <2> QED BY <1>1, <2>1 DEF Read
  <1> QED BY <1>1, <1>2, <1>3 DEF SecondParse

(* What String has written is parsed again from the start.                 *)
LEMMA SecondStart ==
  FirstParse /\ Parser!Reparse => SecondParse' /\ pass' = 2
  <1> SUFFICES ASSUME FirstParse, Parser!Reparse PROVE SecondParse' /\ pass' = 2
    OBVIOUS
  <1>1. q \in Queries /\ q.tags \in Seq(TagValues)
    BY DEF FirstParse, Queries
  <1>2. verdict' = "parsing" /\ first' = q /\ pass' = 2
        /\ fields' = Parser!String(q) /\ q' = Parser!Query
    <2>1. \A i \in DOMAIN q.tags : q.tags[i] # Parser!Empty
      <3>1. \A i \in DOMAIN q.tags : q.tags[i] \in TagValues
        BY <1>1
      <3> QED BY <3>1, Zenon DEF TagValues
    <2> QED BY <2>1, Zenon DEF Parser!Reparse
  <1>3. (/\ first \in Queries /\ fields = Parser!String(first) /\ q = Parser!Query
         /\ verdict = "parsing")'
    BY <1>1, <1>2
  <1>4. SecondParse'
    BY <1>3, Restarted, PTL
  <1> QED BY <1>2, <1>4

LEMMA SameFirst ==
  ASSUME first' = first
  PROVE  /\ OldTags' = OldTags /\ OldTerms' = OldTerms /\ Authors' = Authors
         /\ Written' = Written /\ Parser!String(first)' = Parser!String(first)
  <1>1. OldTags' = OldTags /\ OldTerms' = OldTerms /\ Authors' = Authors
    BY DEF OldTags, OldTerms, Authors
  <1>2. Written' = Written
    BY <1>1 DEF Written
  <1>3. Parser!String(first)' = Parser!String(first)
    OBVIOUS
  <1> QED BY <1>1, <1>2, <1>3

(* The fields left once one more has been read.                            *)
LEMMA OneLess ==
  ASSUME first \in Queries, NEW k \in 0..Written, Left(k), Parser!Parsing,
         first' = first, fields' = Tail(fields)
  PROVE  Left(k + 1)'
  <1> DEFINE L == Parser!String(first)
             All == Written
             f == Tail(fields)
  <1>1. /\ f \in Seq(Seq(Letters)) /\ Len(f) = All - (k + 1)
        /\ \A i \in 1..All - (k + 1) : f[i] = L[k + 1 + i]
    BY FieldRead
  <1>2. fields' = f /\ Written' = All /\ Parser!String(first)' = L
    BY SameFirst
  <1> HIDE DEF L, All, f
  <1> QED BY <1>1, <1>2 DEF Left

(* And the query with it.                                                  *)
LEMMA ReadTag ==
  ASSUME first \in Queries, NEW k \in 0..Written, Read(k), k < Len(OldTags),
         NEW v \in TagValues, v = OldTags[k + 1],
         first' = first, q' = [q EXCEPT !.tags = Append(@, v)]
  PROVE  Read(k + 1)'
  <1>1. Len(OldTags) \in Nat /\ Written \in Nat
    BY WrittenIsNat
  <1>2. /\ q \in Queries /\ q.tags \in Seq(TagValues) /\ Len(q.tags) = k
        /\ q.author = Parser!Empty /\ Len(q.terms) = 0
        /\ \A i \in 1..Len(q.tags) : q.tags[i] = OldTags[i]
        /\ \A i \in 1..Len(q.terms) : q.terms[i] = OldTerms[i]
    BY <1>1 DEF Read, Queries
  <1> DEFINE s == Append(q.tags, v)
  <1>3. /\ s \in Seq(TagValues) /\ Len(s) = k + 1
        /\ \A i \in 1..k : s[i] = q.tags[i]
        /\ s[k + 1] = v
    <2>1. s \in Seq(TagValues) /\ Grown(s, q.tags, v)
      BY <1>2, Appended, Zenon
    <2> HIDE DEF s
    <2> QED BY <1>2, <2>1 DEF Grown
  <1>4. \A i \in 1..k + 1 : s[i] = OldTags[i]
    <2> HIDE DEF s
    <2> QED BY <1>2, <1>3
  <1>5. /\ q' \in Queries /\ q'.tags = s /\ q'.author = Parser!Empty /\ q'.terms = q.terms
    BY <1>2, <1>3 DEF Queries
  <1>6. OldTags' = OldTags /\ OldTerms' = OldTerms
    BY SameFirst
  <1> HIDE DEF s
  <1>7. k + 1 <= Len(OldTags)
    BY <1>1
  <1> QED BY <1>2, <1>3, <1>4, <1>5, <1>6, <1>7 DEF Read

LEMMA ReadAuthor ==
  ASSUME first \in Queries, NEW k \in 0..Written, Read(k), k = Len(OldTags), Authors = 1,
         first' = first, q' = [q EXCEPT !.author = first.author]
  PROVE  Read(k + 1)'
  <1>1. Len(OldTags) \in Nat /\ Written \in Nat
    BY WrittenIsNat
  <1>2. /\ q \in Queries /\ Len(q.tags) = k /\ Len(q.terms) = 0
        /\ \A i \in 1..Len(q.tags) : q.tags[i] = OldTags[i]
        /\ \A i \in 1..Len(q.terms) : q.terms[i] = OldTerms[i]
    BY <1>1 DEF Read
  <1>3. q' \in Queries /\ q'.tags = q.tags /\ q'.author = first.author /\ q'.terms = q.terms
    BY <1>2 DEF Queries
  <1>4. OldTags' = OldTags /\ OldTerms' = OldTerms /\ Authors' = Authors
    BY SameFirst
  <1>5. k + 1 > Len(OldTags) /\ (k + 1) - Len(OldTags) - Authors = 0
    BY <1>1
  <1> QED BY <1>2, <1>3, <1>4, <1>5 DEF Read

LEMMA ReadTerm ==
  ASSUME first \in Queries, NEW k \in 0..Written, Read(k), k >= Len(OldTags) + Authors,
         NEW x \in Terms, x = OldTerms[k - Len(OldTags) - Authors + 1],
         first' = first, q' = [q EXCEPT !.terms = Append(@, x)]
  PROVE  Read(k + 1)'
  <1>1. Len(OldTags) \in Nat /\ Written \in Nat /\ Authors \in {0, 1}
    BY WrittenIsNat
  <1>2. /\ q \in Queries /\ q.terms \in Seq(Terms) /\ Len(q.tags) = Len(OldTags)
        /\ \A i \in 1..Len(q.tags) : q.tags[i] = OldTags[i]
        /\ \A i \in 1..Len(q.terms) : q.terms[i] = OldTerms[i]
    BY <1>1 DEF Read, Queries
  <1>3. q.author = first.author /\ Len(q.terms) = k - Len(OldTags) - Authors
    <2>1. CASE k > Len(OldTags)
      BY <2>1 DEF Read
    <2>2. CASE k = Len(OldTags)
      <3>1. Authors = 0
        BY <1>1, <2>2
      <3>2. first.author = Parser!Empty
        BY <3>1 DEF Authors
      <3> QED BY <1>1, <2>2, <3>1, <3>2 DEF Read
    <2> QED BY <1>1, <2>1, <2>2
  <1> DEFINE s == Append(q.terms, x)
             n == Len(q.terms)
  <1>4. /\ s \in Seq(Terms) /\ Len(s) = n + 1
        /\ \A i \in 1..n : s[i] = q.terms[i]
        /\ s[n + 1] = x
    <2>1. s \in Seq(Terms) /\ Grown(s, q.terms, x)
      BY <1>2, Appended, Zenon
    <2> HIDE DEF s
    <2> QED BY <2>1 DEF Grown
  <1>5. \A i \in 1..n + 1 : s[i] = OldTerms[i]
    <2>1. n \in Nat /\ x = OldTerms[n + 1]
      BY <1>1, <1>3
    <2>2. \A i \in 1..n : q.terms[i] = OldTerms[i]
      BY <1>2
    <2> HIDE DEF s, n
    <2> QED BY <1>4, <2>1, <2>2
  <1>6. q' \in Queries /\ q'.tags = q.tags /\ q'.author = q.author /\ q'.terms = s
    BY <1>2, <1>4 DEF Queries
  <1>7. OldTags' = OldTags /\ OldTerms' = OldTerms /\ Authors' = Authors
    BY SameFirst
  <1>8. k + 1 > Len(OldTags) /\ n + 1 = (k + 1) - Len(OldTags) - Authors
    BY <1>1, <1>3
  <1>9. ~(k + 1 <= Len(OldTags))
    BY <1>1, <1>8
  <1> HIDE DEF s, n
  <1> QED BY <1>2, <1>3, <1>4, <1>5, <1>6, <1>7, <1>8, <1>9 DEF Read

(* All that was written has been read: the same query, as it is written.   *)
LEMMA AllRead ==
  ASSUME first \in Queries, NEW k \in 0..Written, Left(k), Read(k), fields = <<>>
  PROVE  /\ Parser!canonical(q) = Parser!canonical(first)
         /\ Parser!String(q) = Parser!String(first)
  <1>1. /\ Len(OldTags) \in Nat /\ Len(OldTerms) \in Nat /\ Authors \in {0, 1}
        /\ Written = Len(OldTags) + Authors + Len(OldTerms) /\ Written \in Nat
    BY WrittenIsNat
  <1>2. k = Written
    BY <1>1 DEF Left
  <1>3. /\ q \in Queries /\ first \in Queries
        /\ q.tags \in Seq(TagValues) /\ q.terms \in Seq(Terms)
        /\ \A i \in 1..Len(q.tags) : q.tags[i] = OldTags[i]
        /\ \A i \in 1..Len(q.terms) : q.terms[i] = OldTerms[i]
    BY DEF Read, Queries
  <1>4. Len(q.tags) = Len(OldTags) /\ Len(q.terms) = Len(OldTerms) /\ q.author = first.author
    <2>1. CASE k > Len(OldTags)
      BY <1>1, <1>2, <2>1 DEF Read
    <2>2. CASE k = Len(OldTags)
      <3>1. Authors = 0 /\ Len(OldTerms) = 0
        BY <1>1, <1>2, <2>2
      <3>2. first.author = Parser!Empty
        BY <3>1 DEF Authors
      <3> QED BY <1>1, <2>2, <3>1, <3>2 DEF Read
    <2> QED BY <1>1, <1>2, <2>1, <2>2
  <1>5. q.tags = OldTags /\ q.terms = OldTerms
    <2>1. OldTags \in Seq(TagValues) /\ OldTerms \in Seq(Terms)
      BY OldPieces
    <2>2. Same(q.tags, OldTags) /\ Same(q.terms, OldTerms)
      BY <1>3, <1>4 DEF Same
    <2> QED BY <1>3, <2>1, <2>2, SameElements, Zenon
  <1>6. /\ Parser!SortStrings(q.tags) = OldTags /\ Parser!SortStrings(q.terms) = OldTerms
        /\ Parser!SortStrings(first.tags) = OldTags /\ Parser!SortStrings(first.terms) = OldTerms
    BY <1>5, OldPieces DEF OldTags, OldTerms
  <1>7. Parser!canonical(q) = Parser!canonical(first)
    BY <1>3, <1>4, <1>6 DEF Parser!canonical, Queries
  <1>8. Parser!String(q) = Parser!String(first)
    BY <1>4, <1>6 DEF Parser!String
  <1> QED BY <1>7, <1>8

(* The second parse can only accept, and finds the first query again.      *)
LEMMA SecondStep ==
  ASSUME SecondParse, pass = 2, Parser!Next
  PROVE  SecondParse' /\ pass' = 2
  <1>1. first \in Queries /\ verdict \in {"parsing", "ok"}
    BY DEF SecondParse
  <1>2. CASE verdict = "ok"
    <2>1. ~Parser!Parsing /\ verdict # "parsing"
      BY <1>2 DEF Parser!Parsing
    <2>2. Parser!Finished
      BY <2>1, Zenon DEF Parser!Next, Parser!Term, Parser!TagPanics, Parser!TagRejected,
         Parser!Tag, Parser!AuthorRejected, Parser!Author, Parser!UnknownField, Parser!HasKey,
         Parser!Reparse, Parser!Compare
    <2>3. q' = q /\ first' = first /\ pass' = pass /\ verdict' = verdict
      BY <2>2 DEF Parser!Finished, Parser!vars
    <2>4. Parser!String(q) = Parser!String(first)
      BY <1>2 DEF SecondParse
    <2>5. Parser!String(q)' = Parser!String(q) /\ Parser!String(first)' = Parser!String(first)
      BY <2>3
    <2>6. first' \in Queries /\ verdict' = "ok"
      BY <1>1, <1>2, <2>3
    <2> QED BY <2>3, <2>4, <2>5, <2>6 DEF SecondParse
  <1>3. CASE verdict = "parsing" /\ fields = <<>>
    <2>1. PICK k \in 0..Written : Left(k) /\ Read(k)
      BY <1>3 DEF SecondParse
    <2>2. /\ Parser!canonical(q) = Parser!canonical(first)
          /\ Parser!String(q) = Parser!String(first)
      BY <1>1, <1>3, <2>1, AllRead
    <2>3. Parser!Compare
      <3>1. ~Parser!Parsing /\ ~Parser!Reparse /\ ~Parser!Finished
        BY <1>3 DEF Parser!Parsing, Parser!Reparse, Parser!Finished
      <3> QED BY <3>1, Zenon DEF Parser!Next, Parser!Term, Parser!TagPanics, Parser!TagRejected,
         Parser!Tag, Parser!AuthorRejected, Parser!Author, Parser!UnknownField, Parser!HasKey
    <2>4. verdict' = "ok" /\ q' = q /\ first' = first /\ pass' = pass
      BY <2>2, <2>3, Zenon DEF Parser!Compare
    <2>5. Parser!String(q)' = Parser!String(q) /\ Parser!String(first)' = Parser!String(first)
      BY <2>4
    <2> QED BY <1>1, <2>2, <2>4, <2>5 DEF SecondParse
  <1>4. CASE Parser!Parsing
    <2>1. verdict = "parsing" /\ fields # <<>>
      BY <1>4 DEF Parser!Parsing
    <2>2. PICK k \in 0..Written : Left(k) /\ Read(k)
      BY <2>1 DEF SecondParse
    <2>3. /\ k < Written /\ k + 1 \in 0..Written
          /\ Parser!Field = Parser!String(first)[k + 1]
      BY <1>1, <1>4, <2>2, FieldRead
    <2>4. ~Parser!Reparse /\ ~Parser!Compare /\ ~Parser!Finished
      BY <2>1 DEF Parser!Reparse, Parser!Compare, Parser!Finished
    <2>5. ASSUME NEW query, Parser!Accept(query), Read(k + 1)'
          PROVE  SecondParse' /\ pass' = 2
      <3>1. /\ fields' = Tail(fields) /\ first' = first /\ pass' = 2 /\ verdict' = "parsing"
        BY <2>1, <2>5 DEF Parser!Accept
      <3>2. Left(k + 1)'
        BY <1>1, <1>4, <2>2, <3>1, OneLess
      <3>3. k + 1 \in 0..Written'
        BY <2>3, <3>1, SameFirst
      <3>4. first' \in Queries
        BY <1>1, <3>1
      <3> QED BY <2>5, <3>1, <3>2, <3>3, <3>4 DEF SecondParse
    <2>6. CASE /\ k < Len(OldTags) /\ Len(Parser!Field) > 1 /\ Len(Parser!Field) # 1
               /\ Head(Parser!Field) = "tag"
               /\ Parser!Val = OldTags[k + 1] /\ Parser!Val \in TagValues
      <3>1. Parser!Val # Parser!Empty /\ Head(Parser!Val) # "#x"
        BY <2>6, Zenon DEF TagValues
      <3>2. "author" # "tag"
        OBVIOUS
      <3>3. Parser!Tag
        BY <2>4, <2>6, <3>1, <3>2, Zenon DEF Parser!Next, Parser!Term, Parser!TagPanics,
           Parser!TagRejected, Parser!AuthorRejected, Parser!Author, Parser!UnknownField,
           Parser!HasKey
      <3>4. Parser!Accept([q EXCEPT !.tags = Append(@, Parser!Val)])
        BY <3>3, Zenon DEF Parser!Tag
      <3>5. first' = first /\ q' = [q EXCEPT !.tags = Append(@, Parser!Val)]
        BY <3>4 DEF Parser!Accept
      <3>6. Read(k + 1)'
        BY <1>1, <2>2, <2>6, <3>5, ReadTag
      <3> QED BY <2>5, <3>4, <3>6
    <2>7. CASE /\ k = Len(OldTags) /\ Authors = 1
               /\ Len(Parser!Field) > 1 /\ Len(Parser!Field) # 1
               /\ Head(Parser!Field) = "author"
               /\ Parser!Val = first.author /\ Parser!Val \in AllValues
               /\ Parser!Val # Parser!Empty
      <3>2. "author" # "tag"
        OBVIOUS
      <3>3. Parser!Author
        BY <2>4, <2>7, <3>2, Zenon DEF Parser!Next, Parser!Term, Parser!TagPanics,
           Parser!TagRejected, Parser!Tag, Parser!AuthorRejected, Parser!UnknownField,
           Parser!HasKey
      <3>4. Parser!Accept([q EXCEPT !.author = Parser!Val])
        BY <3>3, Zenon DEF Parser!Author
      <3>5. first' = first /\ q' = [q EXCEPT !.author = first.author]
        BY <2>7, <3>4 DEF Parser!Accept
      <3>6. Read(k + 1)'
        BY <1>1, <2>2, <2>7, <3>5, ReadAuthor
      <3> QED BY <2>5, <3>4, <3>6
    <2>8. CASE /\ k >= Len(OldTags) + Authors /\ Len(Parser!Field) = 1
               /\ Parser!Field = OldTerms[k - Len(OldTags) - Authors + 1]
               /\ Parser!Field \in Terms
      <3>1. ~(Len(Parser!Field) > 1)
        BY <2>8
      <3>2. Parser!Term
        BY <2>4, <2>8, <3>1, Zenon DEF Parser!Next, Parser!TagPanics,
           Parser!TagRejected, Parser!Tag, Parser!AuthorRejected, Parser!Author,
           Parser!UnknownField, Parser!HasKey
      <3>3. Parser!Accept([q EXCEPT !.terms = Append(@, Parser!Field)])
        BY <3>2, Zenon DEF Parser!Term
      <3>4. first' = first /\ q' = [q EXCEPT !.terms = Append(@, Parser!Field)]
        BY <3>3 DEF Parser!Accept
      <3>5. Read(k + 1)'
        BY <1>1, <2>2, <2>8, <3>4, ReadTerm
      <3> QED BY <2>5, <3>3, <3>5
    <2> QED BY <1>1, <2>3, <2>6, <2>7, <2>8, WhichField
  <1> QED BY <1>1, <1>2, <1>3, <1>4, Zenon DEF Parser!Parsing

LEMMA ParseInit == Parser!Init => Parse
  <1> SUFFICES ASSUME Parser!Init PROVE Parse
    OBVIOUS
  <1>1. fields \in Seq(Parser!Fields)
    <2>1. PICK n \in 0..MaxFields : fields \in [1..n -> Parser!Fields]
      BY Zenon DEF Parser!Init, Parser!Inputs
    <2>2. n \in Nat
      OBVIOUS
    <2> QED BY <2>1, <2>2, SeqFrom, Zenon
  <1>2. q \in Queries /\ pass = 1 /\ verdict = "parsing"
    BY TermsAreValues DEF Parser!Init, Parser!Query, Queries
  <1> QED BY <1>1, <1>2 DEF Parse, FirstParse

LEMMA ParseStays ==
  ASSUME Parse, UNCHANGED Parser!vars PROVE Parse'
  <1>1. /\ fields' = fields /\ q' = q /\ first' = first /\ pass' = pass
        /\ verdict' = verdict
    BY DEF Parser!vars
  <1>2. ASSUME FirstParse PROVE FirstParse'
    BY <1>1, <1>2 DEF FirstParse
  <1>3. ASSUME SecondParse PROVE SecondParse'
    <2>1. \A k : Left(k)' <=> Left(k)
      BY <1>1, SameFirst DEF Left
    <2>2. \A k : Read(k)' <=> Read(k)
      BY <1>1, SameFirst DEF Read
    <2>3. Parser!String(q)' = Parser!String(q) /\ Parser!String(first)' = Parser!String(first)
      BY <1>1
    <2> QED BY <1>1, <1>3, <2>1, <2>2, <2>3, SameFirst DEF SecondParse
  <1> QED BY <1>1, <1>2, <1>3 DEF Parse

LEMMA ParseStep ==
  ASSUME Parse, Parser!Next PROVE Parse'
  <1>1. CASE pass = 1 /\ Parser!Reparse
    <2>1. SecondParse' /\ pass' = 2
      BY <1>1, SecondStart DEF Parse
    <2> QED BY <2>1 DEF Parse
  <1>2. CASE pass = 1 /\ ~Parser!Reparse
    <2>1. FirstParse' /\ pass' = 1
      BY <1>2, FirstStep DEF Parse
    <2> QED BY <2>1 DEF Parse
  <1>3. CASE pass = 2
    <2>1. SecondParse' /\ pass' = 2
      BY <1>3, SecondStep DEF Parse
    <2> QED BY <2>1 DEF Parse
  <1> QED BY <1>1, <1>2, <1>3 DEF Parse

LEMMA ParseMeans == Parse => Parser!RoundTrips
  <1> SUFFICES ASSUME Parse PROVE Parser!RoundTrips
    OBVIOUS
  <1>1. verdict \in {"parsing", "rejected", "panicked", "ok"}
    BY DEF Parse, FirstParse, SecondParse
  <1>2. verdict = "panicked" => pass = 1
    BY DEF Parse, SecondParse
  <1>3. verdict = "ok" => Parser!String(q) = Parser!String(first)
    BY DEF Parse, FirstParse, SecondParse
  <1> QED BY <1>1, <1>2, <1>3 DEF Parser!RoundTrips

(* However long the input: the parser accepts what String has written, and *)
(* reads the same query from it.                                           *)
THEOREM QueryRoundTrips == Parser!Spec => []Parser!RoundTrips
  <1>1. Parse /\ [Parser!Next]_(Parser!vars) => Parse'
    BY ParseStays, ParseStep
  <1> QED BY <1>1, ParseInit, ParseMeans, PTL DEF Parser!Spec

(* The same of the run in which the parser is one of the programs.         *)
THEOREM RunRoundTrips == MCSpec => []RoundTrips
  <1> DEFINE Inv == program = "query" => Parse
  <1>1. MCInit => Inv
    <2>1. MCInit /\ program = "query" => Parser!Init
      BY DEF MCInit
    <2> QED BY <2>1, ParseInit
  <1>2. Inv /\ [MCNext]_MCvars => Inv'
    <2> SUFFICES ASSUME Inv, [MCNext]_MCvars, program' = "query" PROVE Parse'
      OBVIOUS
    <2>1. CASE program = "query" /\ Parser!Next
      BY <2>1, ParseStep
    <2>2. CASE UNCHANGED MCvars
      <3>1. UNCHANGED Parser!vars /\ program = "query"
        BY <2>2 DEF MCvars, parserOnly, Parser!vars
      <3> QED BY <3>1, ParseStays
    <2> QED BY <2>1, <2>2 DEF MCNext
  <1>3. Inv => RoundTrips
    BY ParseMeans DEF RoundTrips
  <1> HIDE DEF Inv
  <1> QED BY <1>1, <1>2, <1>3, PTL DEF MCSpec

-----------------------------------------------------------------------------
(* The error chains, for any time and any number of wrappings.             *)
Leaves == {"ErrNoRows", "23505", "23514"}
Layers == Leaves \cup {"fmt", "QueryError", "ErrNotFound", "ErrConflict", "ExpiredError"}

DbErrs == {<<>>} \cup {err \in Seq(Layers) : \E leaf \in Leaves : Chain!Is(err, leaf)}

(* Through wrappings that unwrap, what is seen is the leaf.                *)
LEMMA SeenThrough ==
  ASSUME NEW err \in Seq(Layers), NEW leaf \in Layers, leaf # "fmt", Chain!Is(err, leaf),
         NEW target \in Layers, target # "fmt"
  PROVE  Chain!Sees(err, target) <=> target = leaf
  <1> DEFINE n == Len(err)
  <1>1. n \in Nat /\ n > 0 /\ DOMAIN err = 1..n /\ err[n] = leaf
    BY DEF Chain!Is
  <1>2. \A i \in 1..n - 1 : err[i] = "fmt"
    BY DEF Chain!Is
  <1> HIDE DEF n
  <1>3. ASSUME Chain!Sees(err, target) PROVE target = leaf
    <2>1. PICK i \in 1..n : err[i] = target
      BY <1>1, <1>3 DEF Chain!Sees
    <2>2. i = n
      BY <1>1, <1>2, <2>1
    <2> QED BY <1>1, <2>1, <2>2
  <1>4. ASSUME target = leaf PROVE Chain!Sees(err, target)
    <2>1. n \in DOMAIN err /\ err[n] = target
      BY <1>1, <1>4
    <2>2. \A k \in 1..n - 1 : err[k] \in Chain!Unwraps
      BY <1>2 DEF Chain!Unwraps
    <2> QED BY <2>1, <2>2 DEF Chain!Sees
  <1> QED BY <1>3, <1>4

(* Nothing is seen in nil, nor behind a QueryError.                        *)
LEMMA SeenNot ==
  /\ \A target : ~Chain!Sees(<<>>, target)
  /\ \A err \in Seq(Layers) : \A target \in Layers \ {"QueryError"} :
        ~Chain!Sees(<<"QueryError">> \o err, target)
  <1>1. \A target : ~Chain!Sees(<<>>, target)
    BY DEF Chain!Sees
  <1>2. ASSUME NEW err \in Seq(Layers), NEW target \in Layers, target # "QueryError",
               Chain!Sees(<<"QueryError">> \o err, target)
        PROVE  FALSE
    <2> DEFINE e == <<"QueryError">> \o err
    <2>1. DOMAIN e = 1..Len(err) + 1 /\ e[1] = "QueryError" /\ Len(err) \in Nat
      OBVIOUS
    <2> HIDE DEF e
    <2>2. PICK i \in DOMAIN e : e[i] = target /\ \A k \in 1..i - 1 : e[k] \in Chain!Unwraps
      BY <1>2, Zenon DEF Chain!Sees, e
    <2>3. i # 1
      BY <1>2, <2>1, <2>2
    <2>4. 1 \in 1..i - 1
      BY <2>1, <2>3
    <2>5. "QueryError" \in Chain!Unwraps
      BY <2>1, <2>2, <2>4
    <2> QED BY <2>5 DEF Chain!Unwraps
  <1> QED BY <1>1, <1>2

LEMMA Looked ==
  ASSUME key \in {"fresh", "stale", "ghost"}, now \in Nat
  PROVE  LET l == Chain!lookup(key, now)   w == Chain!query(key, now) IN
         /\ Chain!Sees(l, "ErrNotFound") <=> key = "ghost"
         /\ Chain!Sees(l, "ExpiredError")
               <=> key = "stale" \/ (key = "fresh" /\ now > Chain!data.fresh)
         /\ l = <<>> <=> w = <<>>
         /\ l # <<"ErrNotFound">>
         /\ ~Chain!Sees(w, "ErrNotFound") /\ ~Chain!Sees(w, "ExpiredError")
  <1> DEFINE l == Chain!lookup(key, now)
             w == Chain!query(key, now)
             NotFound == <<"fmt", "ErrNotFound">>
             Expired == <<"fmt", "ExpiredError">>
  <1>1. /\ key = "ghost" => l = NotFound
        /\ key = "stale" => l = Expired
        /\ key = "fresh" => l = IF now > Chain!data.fresh THEN Expired ELSE <<>>
    BY DEF Chain!lookup, Chain!data
  <1>2. /\ NotFound \in Seq(Layers) /\ Chain!Is(NotFound, "ErrNotFound")
        /\ Expired \in Seq(Layers) /\ Chain!Is(Expired, "ExpiredError")
    BY DEF Layers, Chain!Is
  <1>3. /\ "ErrNotFound" \in Layers /\ "ExpiredError" \in Layers
        /\ "ErrNotFound" # "fmt" /\ "ExpiredError" # "fmt" /\ "ErrNotFound" # "ExpiredError"
    BY DEF Layers
  <1>4. /\ Chain!Sees(NotFound, "ErrNotFound") /\ ~Chain!Sees(NotFound, "ExpiredError")
        /\ Chain!Sees(Expired, "ExpiredError") /\ ~Chain!Sees(Expired, "ErrNotFound")
    BY <1>2, <1>3, SeenThrough
  <1>5. ~Chain!Sees(<<>>, "ErrNotFound") /\ ~Chain!Sees(<<>>, "ExpiredError")
    BY SeenNot
  <1>6. w = IF l = <<>> THEN <<>> ELSE <<"QueryError">> \o l
    BY DEF Chain!query
  <1>7. l \in {<<>>, NotFound, Expired}
    BY <1>1
  <1>8. l \in Seq(Layers) /\ l # <<"ErrNotFound">>
    <2>1. <<>> # <<"ErrNotFound">> /\ NotFound # <<"ErrNotFound">> /\ Expired # <<"ErrNotFound">>
      OBVIOUS
    <2>2. <<>> \in Seq(Layers)
      OBVIOUS
    <2> HIDE DEF NotFound, Expired, l
    <2> QED BY <1>2, <1>7, <2>1, <2>2
  <1>9. ~Chain!Sees(w, "ErrNotFound") /\ ~Chain!Sees(w, "ExpiredError")
    <2>1. "ErrNotFound" \in Layers \ {"QueryError"} /\ "ExpiredError" \in Layers \ {"QueryError"}
      BY DEF Layers
    <2> HIDE DEF l, w
    <2> QED BY <1>5, <1>6, <1>8, <2>1, SeenNot
  <1>10. l = <<>> <=> w = <<>>
    <2>1. <<"QueryError">> \o l # <<>>
      <3> HIDE DEF l
      <3> QED BY <1>8
    <2> HIDE DEF l, w
    <2> QED BY <1>6, <2>1
  <1>11. NotFound # <<>> /\ Expired # <<>>
    OBVIOUS
  <1> HIDE DEF l, w, NotFound, Expired
  <1> QED BY <1>1, <1>3, <1>4, <1>5, <1>8, <1>9, <1>10, Zenon DEF l, w

LEMMA Classified ==
  ASSUME dbErr \in DbErrs
  PROVE  LET c == Chain!classifyConflict(dbErr) IN
         /\ Chain!Sees(c, "ErrNotFound") <=> Chain!Is(dbErr, "ErrNoRows")
         /\ Chain!Sees(c, "ErrConflict") <=> Chain!Is(dbErr, "23505")
         /\ dbErr = <<>> \/ Chain!Is(dbErr, "23514") => c = dbErr
  <1> DEFINE c == Chain!classifyConflict(dbErr)
  <1>1. c = IF Chain!Sees(dbErr, "ErrNoRows") THEN <<"ErrNotFound">>
            ELSE IF Chain!Sees(dbErr, "23505") THEN <<"ErrConflict">> ELSE dbErr
    BY Zenon DEF Chain!classifyConflict
  <1> HIDE DEF c
  <1>2. /\ {"ErrNotFound", "ErrConflict", "ErrNoRows", "23505", "23514"} \subseteq Layers
        /\ "ErrNotFound" # "fmt" /\ "ErrConflict" # "fmt" /\ "ErrNotFound" # "ErrConflict"
        /\ "ErrNoRows" # "fmt" /\ "23505" # "fmt" /\ "23514" # "fmt"
        /\ "ErrNoRows" # "23505" /\ "ErrNoRows" # "23514" /\ "23505" # "23514"
        /\ "ErrNoRows" # "ErrNotFound" /\ "ErrNoRows" # "ErrConflict"
        /\ "23505" # "ErrNotFound" /\ "23505" # "ErrConflict"
        /\ "23514" # "ErrNotFound" /\ "23514" # "ErrConflict"
    BY DEF Layers, Leaves
  <1>3. CASE dbErr = <<>>
    <2>1. c = <<>> /\ ~Chain!Sees(c, "ErrNotFound") /\ ~Chain!Sees(c, "ErrConflict")
      BY <1>1, <1>3, SeenNot
    <2>2. \A x : ~Chain!Is(dbErr, x)
      BY <1>3 DEF Chain!Is
    <2> QED BY <1>3, <2>1, <2>2 DEF c
  <1>4. ASSUME NEW leaf \in Leaves, dbErr \in Seq(Layers), Chain!Is(dbErr, leaf)
        PROVE  /\ Chain!Sees(c, "ErrNotFound") <=> Chain!Is(dbErr, "ErrNoRows")
               /\ Chain!Sees(c, "ErrConflict") <=> Chain!Is(dbErr, "23505")
               /\ dbErr = <<>> \/ Chain!Is(dbErr, "23514") => c = dbErr
    <2>1. \A x : Chain!Is(dbErr, x) <=> x = leaf
      BY <1>4 DEF Chain!Is
    <2>2. \A x \in Layers : x # "fmt" => (Chain!Sees(dbErr, x) <=> x = leaf)
      <3>1. leaf \in Layers /\ leaf # "fmt"
        BY DEF Layers, Leaves
      <3> QED BY <1>4, <3>1, SeenThrough
    <2>3. leaf = "ErrNoRows" \/ leaf = "23505" \/ leaf = "23514"
      BY DEF Leaves
    <2>4. dbErr # <<>>
      BY <1>4 DEF Chain!Is
    <2>5. ASSUME NEW x \in Layers, NEW y \in Layers, x # "fmt", y # "fmt"
          PROVE  Chain!Sees(<<x>>, y) <=> y = x
      <3>1. <<x>> \in Seq(Layers) /\ Chain!Is(<<x>>, x)
        BY DEF Chain!Is
      <3> QED BY <2>5, <3>1, SeenThrough
    <2>6. CASE leaf = "ErrNoRows"
      <3>1. c = <<"ErrNotFound">>
        BY <1>1, <1>2, <2>2, <2>6
      <3>2. Chain!Sees(c, "ErrNotFound") /\ ~Chain!Sees(c, "ErrConflict")
        BY <1>2, <2>5, <3>1
      <3> QED BY <1>2, <2>1, <2>4, <2>6, <3>2
    <2>7. CASE leaf = "23505"
      <3>1. c = <<"ErrConflict">>
        BY <1>1, <1>2, <2>2, <2>7
      <3>2. ~Chain!Sees(c, "ErrNotFound") /\ Chain!Sees(c, "ErrConflict")
        BY <1>2, <2>5, <3>1
      <3> QED BY <1>2, <2>1, <2>4, <2>7, <3>2
    <2>8. CASE leaf = "23514"
      <3>1. c = dbErr
        BY <1>1, <1>2, <2>2, <2>8
      <3>2. ~Chain!Sees(c, "ErrNotFound") /\ ~Chain!Sees(c, "ErrConflict")
        BY <1>2, <2>2, <2>8, <3>1
      <3> QED BY <1>2, <2>1, <2>8, <3>1, <3>2
    <2> QED BY <2>3, <2>6, <2>7, <2>8
  <1> QED BY <1>3, <1>4 DEF DbErrs, c

(* Whatever is looked up, whenever, and however often a database error is  *)
(* wrapped: errors.Is and errors.As recognise what the program says.       *)
THEOREM ErrorsRecognised ==
  key \in {"fresh", "stale", "ghost"} /\ now \in Nat /\ dbErr \in DbErrs => Chain!Agrees
  BY Looked, Classified, Zenon DEF Chain!Agrees

-----------------------------------------------------------------------------
(* The functions of notesx, for notes of any size. *)
Notes == [title : Pure!Texts(Nat), body : Pure!Texts(Nat), tags : Seq(Pure!Texts(Nat))]

LEMMA MinOf ==
  ASSUME NEW S \in SUBSET Nat, S # {}
  PROVE  Pure!Min(S) \in S /\ \A x \in S : Pure!Min(S) <= x
  <1>1. \E x \in S : \A y \in S : x <= y
    BY Least
  <1> QED BY <1>1 DEF Pure!Min

LEMMA TagErrs ==
  \A tag \in Pure!Texts(Nat) :
     /\ Pure!TagErr(tag) \in {"nil", "ErrEmptyTag", "ErrTagTooLong"}
     /\ Pure!TagErr(tag) = "nil" <=> Pure!Good(tag)
  BY DEF Pure!Texts, Pure!TagErr, Pure!Good, Pure!MaxTagLen

(* Which of the rules are kept, as far as a note keeps them. *)
LEMMA KeptSoFar ==
  ASSUME NEW n \in Notes
  PROVE  /\ Pure!Kept(n, 0)
         /\ Pure!Kept(n, 1) <=> n.title.utf8 /\ n.body.utf8
         /\ Pure!Kept(n, 2) <=> Pure!Kept(n, 1) /\ n.title.runes # 0
         /\ Pure!Kept(n, 3) <=> Pure!Kept(n, 2) /\ ~(n.title.runes > Pure!MaxTitleLen)
         /\ Pure!Kept(n, 4) <=> Pure!Kept(n, 3) /\ ~(n.body.runes > Pure!MaxBodyLen)
         /\ Pure!Kept(n, 5) <=> Pure!Kept(n, 4) /\ ~(Len(n.tags) > Pure!MaxTags)
  <1>1. /\ n.title.runes \in Nat /\ n.body.runes \in Nat /\ Len(n.tags) \in Nat
        /\ Pure!MaxTitleLen \in Nat /\ Pure!MaxBodyLen \in Nat /\ Pure!MaxTags \in Nat
    BY DEF Notes, Pure!Texts, Pure!MaxTitleLen, Pure!MaxBodyLen, Pure!MaxTags
  <1> QED BY <1>1 DEF Pure!Kept

LEMMA Validated == \A n \in Notes : Pure!Validates(n)
  <1> SUFFICES ASSUME NEW n \in Notes PROVE Pure!Validates(n)
    OBVIOUS
  <1> DEFINE Wrong == {i \in DOMAIN n.tags : Pure!TagErr(n.tags[i]) # "nil"}
             first_ == Pure!Min(Wrong)
             err == Pure!ValidateNote(n)
             K(k) == Pure!Kept(n, k)
  <1>1. err = IF ~K(1) THEN "ErrInvalidUTF8"
              ELSE IF ~K(2) THEN "ErrEmptyTitle"
              ELSE IF ~K(3) THEN "ErrTitleTooLong"
              ELSE IF ~K(4) THEN "ErrBodyTooLong"
              ELSE IF ~K(5) THEN "ErrTooManyTags"
              ELSE IF Wrong # {} THEN Pure!TagErr(n.tags[first_]) ELSE "nil"
    <2>1. err = IF ~n.title.utf8 \/ ~n.body.utf8 THEN "ErrInvalidUTF8"
                ELSE IF n.title.runes = 0 THEN "ErrEmptyTitle"
                ELSE IF n.title.runes > Pure!MaxTitleLen THEN "ErrTitleTooLong"
                ELSE IF n.body.runes > Pure!MaxBodyLen THEN "ErrBodyTooLong"
                ELSE IF Len(n.tags) > Pure!MaxTags THEN "ErrTooManyTags"
                ELSE IF Wrong # {} THEN Pure!TagErr(n.tags[first_]) ELSE "nil"
      BY Zenon DEF Pure!ValidateNote
    <2> HIDE DEF Wrong, first_, err
    <2> QED BY <2>1, KeptSoFar
  <1>2. K(0) /\ (K(2) => K(1)) /\ (K(3) => K(2)) /\ (K(4) => K(3)) /\ (K(5) => K(4))
    BY KeptSoFar
  <1>3. /\ DOMAIN n.tags = 1..Len(n.tags)
        /\ \A i \in DOMAIN n.tags : n.tags[i] \in Pure!Texts(Nat)
    BY DEF Notes
  <1>4. ASSUME Wrong # {}
        PROVE  /\ first_ \in DOMAIN n.tags
               /\ Pure!TagErr(n.tags[first_]) \in {"ErrEmptyTag", "ErrTagTooLong"}
               /\ \A i \in 1..first_ - 1 : Pure!Good(n.tags[i])
    <2>1. Wrong \in SUBSET Nat
      BY <1>3
    <2>2. first_ \in Wrong /\ \A i \in Wrong : first_ <= i
      <3> HIDE DEF Wrong
      <3> QED BY <1>4, <2>1, MinOf
    <2>3. first_ \in 1..Len(n.tags) /\ Pure!TagErr(n.tags[first_]) # "nil"
      <3> HIDE DEF first_
      <3> QED BY <1>3, <2>2
    <2> HIDE DEF first_
    <2>4. ASSUME NEW i \in 1..first_ - 1 PROVE Pure!Good(n.tags[i])
      <3>1. i \in DOMAIN n.tags /\ i \notin Wrong
        BY <1>3, <2>2, <2>3
      <3> QED BY <1>3, <3>1, TagErrs
    <2> QED BY <1>3, <2>3, <2>4, TagErrs
  <1>5. Wrong = {} <=> \A i \in DOMAIN n.tags : Pure!Good(n.tags[i])
    BY <1>3, TagErrs
  <1>6. /\ DOMAIN Pure!NoteErrs = 1..5
        /\ Pure!NoteErrs[1] = "ErrInvalidUTF8" /\ Pure!NoteErrs[2] = "ErrEmptyTitle"
        /\ Pure!NoteErrs[3] = "ErrTitleTooLong" /\ Pure!NoteErrs[4] = "ErrBodyTooLong"
        /\ Pure!NoteErrs[5] = "ErrTooManyTags"
    BY DEF Pure!NoteErrs
  <1> DEFINE e == IF Wrong # {} THEN Pure!TagErr(n.tags[first_]) ELSE "nil"
  <1>7. e \in {"nil", "ErrEmptyTag", "ErrTagTooLong"} /\ (e = "nil" <=> Wrong = {})
    <2> HIDE DEF Wrong, first_
    <2> QED BY <1>4
  <1>8. err = IF ~K(1) THEN "ErrInvalidUTF8"
              ELSE IF ~K(2) THEN "ErrEmptyTitle"
              ELSE IF ~K(3) THEN "ErrTitleTooLong"
              ELSE IF ~K(4) THEN "ErrBodyTooLong"
              ELSE IF ~K(5) THEN "ErrTooManyTags" ELSE e
    BY <1>1, Zenon
  <1> HIDE DEF err, e, Wrong, K, first_
  <1>9. /\ err = "ErrInvalidUTF8" <=> ~K(1)
        /\ err = "ErrEmptyTitle" <=> K(1) /\ ~K(2)
        /\ err = "ErrTitleTooLong" <=> K(2) /\ ~K(3)
        /\ err = "ErrBodyTooLong" <=> K(3) /\ ~K(4)
        /\ err = "ErrTooManyTags" <=> K(4) /\ ~K(5)
        /\ err \in {"nil", "ErrEmptyTag", "ErrTagTooLong"} <=> K(5)
        /\ K(5) => err = e
    BY <1>2, <1>7, <1>8
  <1>10. ASSUME NEW k \in 1..5
         PROVE  err = Pure!NoteErrs[k] <=> K(k - 1) /\ ~K(k)
    <2>1. k = 1 \/ k = 2 \/ k = 3 \/ k = 4 \/ k = 5
      OBVIOUS
    <2>2. CASE k = 1
      BY <1>2, <1>6, <1>9, <2>2
    <2>3. CASE k = 2
      BY <1>2, <1>6, <1>9, <2>3
    <2>4. CASE k = 3
      BY <1>2, <1>6, <1>9, <2>4
    <2>5. CASE k = 4
      BY <1>2, <1>6, <1>9, <2>5
    <2>6. CASE k = 5
      BY <1>2, <1>6, <1>9, <2>6
    <2> QED BY <2>1, <2>2, <2>3, <2>4, <2>5, <2>6
  <1>11. err = "nil" <=> K(5) /\ \A i \in DOMAIN n.tags : Pure!Good(n.tags[i])
    BY <1>5, <1>7, <1>9
  <1>12. ASSUME err \in {"ErrEmptyTag", "ErrTagTooLong"}
         PROVE  \E i \in DOMAIN n.tags : /\ err = Pure!TagErr(n.tags[i])
                                         /\ \A j \in 1..i - 1 : Pure!Good(n.tags[j])
    <2>1. Wrong # {} /\ err = e
      BY <1>7, <1>9, <1>12
    <2>2. err = Pure!TagErr(n.tags[first_])
      BY <2>1 DEF e
    <2> QED BY <1>4, <2>1, <2>2
  <1> QED BY <1>6, <1>10, <1>11, <1>12, Zenon DEF Pure!Validates, err, K

(* The bags of notesx are those of the pipeline. *)
LEMMA SameCardinality == \A S : Pure!Cardinality(S) = Cardinality(S)
  BY Zenon DEF Cardinality, Pure!Cardinality

LEMMA SameToBag == \A s : Pure!ToBag(s) = ToBag(s)
  BY SameCardinality, Zenon DEF ToBag, Pure!ToBag, Range, Pure!Range

(* A document has the note's tags in order, and the note keeps its own. *)
GivenTags == [name : Int, pad : BOOLEAN]

LEMMA Rendered == \A tags \in Seq(GivenTags) : Pure!Renders(tags)
  <1> SUFFICES ASSUME NEW tags \in Seq(GivenTags) PROVE Pure!Renders(tags)
    OBVIOUS
  <1> DEFINE n == Len(tags)
             trimmed == [i \in 1..n |-> [name |-> tags[i].name, pad |-> FALSE]]
             r == [i \in 1..n |-> tags[i].name]
             sorted == SortedBy(trimmed, r)
             after == Pure!RenderNoteMarkdown(tags)
  <1>1. n \in Nat /\ DOMAIN tags = 1..n /\ \A i \in 1..n : tags[i].name \in Int
    <2>1. n \in Nat /\ DOMAIN tags = 1..n /\ \A i \in 1..n : tags[i] \in GivenTags
      OBVIOUS
    <2>2. \A t \in GivenTags : t.name \in Int
      BY DEF GivenTags
    <2> QED BY <2>1, <2>2
  <1>2. DOMAIN trimmed = 1..n /\ r \in [1..n -> Int] /\ DOMAIN r = 1..n
    BY <1>1
  <1>3. Pure!Names(tags) = r /\ Pure!Names(trimmed) = r
    BY <1>1 DEF Pure!Names
  <1>4. after.note = tags /\ after.document = sorted
    <2> DEFINE before == [own |-> tags, note |-> tags]
               given == [i \in DOMAIN tags |-> [name |-> tags[i].name, pad |-> FALSE]]
               end == [before EXCEPT !["own"] = Pure!SortedBy(given, Pure!Names(given))]
    <2>1. after = [document |-> end["own"], note |-> end["note"]]
      BY Zenon DEF Pure!RenderNoteMarkdown, Pure!Tags
    <2>2. given = trimmed
      BY <1>1, Zenon
    <2>3. Pure!SortedBy(given, Pure!Names(given)) = sorted
      <3> HIDE DEF given, trimmed, r
      <3> QED BY <1>3, <2>2, SameSorting, Zenon
    <2>4. end["own"] = sorted /\ end["note"] = tags
      <3> HIDE DEF sorted, given
      <3> QED BY <2>3
    <2> HIDE DEF end, sorted, after
    <2> QED BY <2>1, <2>4
  <1>5. PICK p : Sorts(p, n, r) /\ sorted = [i \in 1..n |-> trimmed[p[i]]]
    <2>1. InPlace(SortedBy(trimmed, r), trimmed, r, n)
      <3> HIDE DEF trimmed, r, n
      <3> QED BY <1>1, <1>2, InOrder
    <2> HIDE DEF trimmed, r, n
    <2> QED BY <2>1, Zenon DEF InPlace, sorted
  <1> DEFINE doc == Pure!Names(after.document)
  <1>6. /\ p \in [1..n -> 1..n] /\ \A i, j \in 1..n : p[i] = p[j] => i = j
        /\ \A i, j \in 1..n : i < j => r[p[i]] <= r[p[j]]
    <2> HIDE DEF r, n
    <2> QED BY <1>5 DEF Sorts
  <1>7. doc = [i \in 1..n |-> r[p[i]]]
    <2>1. \A i \in 1..n : sorted[i] = trimmed[p[i]] /\ p[i] \in 1..n
      <3> HIDE DEF sorted, trimmed, n
      <3> QED BY <1>5, <1>6
    <2>2. ASSUME NEW i \in 1..n PROVE sorted[i].name = r[p[i]]
      <3> HIDE DEF sorted, n
      <3>1. p[i] \in 1..n /\ sorted[i] = trimmed[p[i]]
        BY <2>1
      <3> DEFINE k == p[i]
      <3>2. trimmed[k] = [name |-> tags[k].name, pad |-> FALSE] /\ r[k] = tags[k].name
        BY <3>1
      <3> HIDE DEF trimmed, r
      <3> QED BY <3>1, <3>2
    <2>3. DOMAIN sorted = 1..n
      <3> HIDE DEF sorted, trimmed, n
      <3> QED BY <1>5
    <2> HIDE DEF sorted, r, n, after
    <2> QED BY <1>4, <2>2, <2>3, Zenon DEF Pure!Names
  <1> HIDE DEF doc, r, n
  <1>8. Pure!Ascending(doc)
    <2>1. DOMAIN doc = 1..n /\ \A i \in 1..n : doc[i] = r[p[i]] /\ r[p[i]] \in Int
      BY <1>2, <1>6, <1>7
    <2> QED BY <1>6, <2>1 DEF Pure!Ascending
  <1>9. Pure!ToBag(doc) = Pure!ToBag(Pure!Names(tags))
    <2>1. IsFiniteSet(1..n)
      BY <1>1, FS_Interval
    <2>2. IsInjective(p) /\ \A k \in 1..n : \E i \in 1..n : p[i] = k
      <3>1. IsInjective(p)
        BY <1>6 DEF IsInjective
      <3> QED BY <1>1, <1>6, <3>1, Onto
    <2>3. Shuffled(p, 1..n, r, doc)
      BY <1>2, <1>6, <1>7, <2>1, <2>2 DEF Shuffled
    <2> QED BY <1>3, <2>3, SameBag, SameToBag
  <1> QED BY <1>4, <1>8, <1>9, Zenon DEF Pure!Renders, doc

(* Flattening is defined for every sequence of sequences. *)
Flattens(f, seqs, n) == f = [i \in 1..n |-> IF i = 1 THEN seqs[i] ELSE f[i-1] \o seqs[i]]

LEMMA FlattenExists == \A seqs : \A n \in Nat : \E f : Flattens(f, seqs, n)
  <1> SUFFICES ASSUME NEW seqs PROVE \A n \in Nat : \E f : Flattens(f, seqs, n)
    OBVIOUS
  <1> DEFINE T == {n \in Nat : \E f : Flattens(f, seqs, n)}
  <1>1. 0 \in T
    <2>1. Flattens([i \in 1..0 |-> i], seqs, 0)
      BY DEF Flattens
    <2> QED BY <2>1
  <1>2. ASSUME NEW n \in T PROVE n + 1 \in T
    <2>1. PICK f : Flattens(f, seqs, n)
      OBVIOUS
    <2> DEFINE g == [i \in 1..n+1 |-> IF i <= n THEN f[i]
                                      ELSE IF i = 1 THEN seqs[i] ELSE f[i-1] \o seqs[i]]
    <2>2. ASSUME NEW i \in 1..n+1
          PROVE  g[i] = IF i = 1 THEN seqs[i] ELSE g[i-1] \o seqs[i]
      <3>1. i - 1 \in 1..n => g[i - 1] = f[i - 1]
        OBVIOUS
      <3>2. i # 1 => i - 1 \in 1..n
        OBVIOUS
      <3>3. i <= n => f[i] = IF i = 1 THEN seqs[i] ELSE f[i-1] \o seqs[i]
        <4> SUFFICES ASSUME i <= n PROVE f[i] = IF i = 1 THEN seqs[i] ELSE f[i-1] \o seqs[i]
          OBVIOUS
        <4>1. i \in 1..n
          OBVIOUS
        <4> QED BY <2>1, <4>1, Zenon DEF Flattens
      <3>4. g[i] = IF i <= n THEN f[i] ELSE IF i = 1 THEN seqs[i] ELSE f[i-1] \o seqs[i]
        BY Zenon
      <3> HIDE DEF g
      <3> QED BY <3>1, <3>2, <3>3, <3>4, Zenon
    <2>3. g = [i \in 1..n+1 |-> g[i]]
      BY Zenon
    <2> HIDE DEF g
    <2>4. g = [i \in 1..n+1 |-> IF i = 1 THEN seqs[i] ELSE g[i-1] \o seqs[i]]
      BY <2>2, <2>3, Zenon
    <2>5. Flattens(g, seqs, n + 1)
      BY <2>4, Zenon DEF Flattens
    <2> QED BY <2>5
  <1>3. T \in SUBSET Nat
    OBVIOUS
  <1> HIDE DEF T
  <1>4. T = Nat
    BY <1>1, <1>2, <1>3, Induction
  <1> QED BY <1>4 DEF T

LEMMA Flattened == \A S : \A seqs \in Seq(Seq(S)) : Pure!FlattenSeq(seqs) \in Seq(S)
  <1> SUFFICES ASSUME NEW S, NEW seqs \in Seq(Seq(S)) PROVE Pure!FlattenSeq(seqs) \in Seq(S)
    OBVIOUS
  <1>1. Len(seqs) \in Nat /\ \A i \in 1..Len(seqs) : seqs[i] \in Seq(S)
    OBVIOUS
  <1>2. CASE Len(seqs) = 0
    <2>1. Pure!FlattenSeq(seqs) = seqs
      BY <1>2 DEF Pure!FlattenSeq
    <2>2. seqs = <<>>
      BY <1>2
    <2> QED BY <2>1, <2>2
  <1>3. CASE Len(seqs) # 0
    <2> DEFINE f == CHOOSE g : Flattens(g, seqs, Len(seqs))
    <2>1. Pure!FlattenSeq(seqs) = f[Len(seqs)]
      BY <1>3, Zenon DEF Pure!FlattenSeq, Flattens
    <2>2. Flattens(f, seqs, Len(seqs))
      BY <1>1, FlattenExists, Zenon
    <2> HIDE DEF f
    <2> DEFINE T == {n \in Nat : n + 1 <= Len(seqs) => f[n + 1] \in Seq(S)}
    <2>3. \A i \in 1..Len(seqs) : f[i] = IF i = 1 THEN seqs[i] ELSE f[i-1] \o seqs[i]
      BY <2>2, Zenon DEF Flattens
    <2>4. 0 \in T
      <3>1. 1 \in 1..Len(seqs)
        BY <1>1, <1>3
      <3>2. f[1] \in Seq(S)
        BY <1>1, <2>3, <3>1, Zenon
      <3> QED BY <3>2
    <2>5. ASSUME NEW n \in T PROVE n + 1 \in T
      <3>0. n \in Nat
        OBVIOUS
      <3>1. ASSUME n + 1 + 1 <= Len(seqs) PROVE f[n + 1 + 1] \in Seq(S)
        <4>1. n + 1 + 1 \in 1..Len(seqs) /\ n + 1 + 1 # 1 /\ n + 1 + 1 - 1 = n + 1
          BY <1>1, <3>0, <3>1
        <4>2. f[n + 1 + 1] = f[n + 1] \o seqs[n + 1 + 1]
          <5> DEFINE k == n + 1 + 1
          <5>1. k \in 1..Len(seqs) /\ k # 1 /\ k - 1 = n + 1
            BY <4>1
          <5> HIDE DEF k, T
          <5>2. f[k] = f[k - 1] \o seqs[k]
            BY <2>3, <5>1, Zenon
          <5> QED BY <5>1, <5>2 DEF k
        <4>3. f[n + 1] \in Seq(S)
          BY <1>1, <3>0, <3>1
        <4> QED BY <1>1, <4>1, <4>2, <4>3
      <3> QED BY <3>0, <3>1
    <2>6. T \in SUBSET Nat
      OBVIOUS
    <2> HIDE DEF T
    <2>7. T = Nat
      BY <2>4, <2>5, <2>6, Induction
    <2> DEFINE k == Len(seqs) - 1
    <2>8. k \in Nat /\ k + 1 = Len(seqs) /\ k + 1 <= Len(seqs)
      BY <1>1, <1>3
    <2>9. \A n \in Nat : n + 1 <= Len(seqs) => f[n + 1] \in Seq(S)
      BY <2>7, Zenon DEF T
    <2> HIDE DEF k
    <2>10. f[k + 1] \in Seq(S)
      BY <2>8, <2>9
    <2> QED BY <2>1, <2>8, <2>10
  <1> QED BY <1>2, <1>3

Visit == [tag : Nat, id : Nat]

LEMMA Visited == \A notes \in Seq(Seq(Nat)) : Pure!Visits(notes) \in Seq(Visit)
  <1> SUFFICES ASSUME NEW notes \in Seq(Seq(Nat)) PROVE Pure!Visits(notes) \in Seq(Visit)
    OBVIOUS
  <1> DEFINE of(n) == [i \in DOMAIN notes[n] |-> [tag |-> notes[n][i], id |-> n]]
             seqs == [n \in DOMAIN notes |-> of(n)]
  <1>1. ASSUME NEW n \in DOMAIN notes PROVE of(n) \in Seq(Visit)
    <2>1. n \in Nat /\ notes[n] \in Seq(Nat)
      OBVIOUS
    <2> DEFINE s == notes[n]
    <2>2. s \in Seq(Nat) /\ DOMAIN s = 1..Len(s) /\ Len(s) \in Nat /\ \A i \in 1..Len(s) : s[i] \in Nat
      BY <2>1
    <2>3. of(n) = [i \in 1..Len(s) |-> [tag |-> s[i], id |-> n]]
      BY <2>2, Zenon
    <2> HIDE DEF of, s
    <2>4. of(n) \in [1..Len(s) -> Visit]
      BY <2>1, <2>2, <2>3 DEF Visit
    <2> QED BY <2>2, <2>4, SeqFrom
  <1>2. DOMAIN notes = 1..Len(notes) /\ Len(notes) \in Nat
    OBVIOUS
  <1> HIDE DEF of
  <1>3. seqs \in Seq(Seq(Visit))
    <2>1. seqs \in [1..Len(notes) -> Seq(Visit)]
      BY <1>1, <1>2
    <2> QED BY <1>2, <2>1
  <1>4. Pure!Visits(notes) = Pure!FlattenSeq(seqs)
    BY Zenon DEF Pure!Visits, of
  <1> HIDE DEF seqs
  <1> QED BY <1>3, <1>4, Flattened

LEMMA VisitAt ==
  \A v \in Seq(Visit) : \A i \in 1..Len(v) : v[i].tag \in Nat /\ v[i].id \in Nat
  <1>1. \A d \in Visit : d.tag \in Nat /\ d.id \in Nat
    BY DEF Visit
  <1>2. \A v \in Seq(Visit) : \A i \in 1..Len(v) : v[i] \in Visit
    OBVIOUS
  <1> QED BY <1>1, <1>2

(* What the index has under a key, and which visits it comes from. *)
Under(idx, k) == IF k \in DOMAIN idx THEN idx[k] ELSE <<>>

Carriers(v, n, t) == {j \in 1..n : v[j].tag = t}

Found(v, n, t) == Cardinality(Carriers(v, n, t))

LEMMA OneMore ==
  \A v, t : \A n \in Nat :
     /\ Found(v, n, t) \in Nat /\ Found(v, 0, t) = 0
     /\ Found(v, n + 1, t) = IF v[n + 1].tag = t THEN Found(v, n, t) + 1 ELSE Found(v, n, t)
  <1> SUFFICES ASSUME NEW v, NEW t, NEW n \in Nat
               PROVE  /\ Found(v, n, t) \in Nat /\ Found(v, 0, t) = 0
                      /\ Found(v, n + 1, t) = IF v[n + 1].tag = t THEN Found(v, n, t) + 1
                                              ELSE Found(v, n, t)
    OBVIOUS
  <1> DEFINE A == Carriers(v, n, t)
  <1>1. IsFiniteSet(A)
    <2>1. A \subseteq 1..n
      BY DEF Carriers
    <2>2. IsFiniteSet(1..n)
      BY FS_Interval
    <2> HIDE DEF A
    <2> QED BY <2>1, <2>2, FS_Subset
  <1>2. Carriers(v, n + 1, t) = IF v[n + 1].tag = t THEN A \cup {n + 1} ELSE A
    BY DEF Carriers
  <1>3. n + 1 \notin A /\ Carriers(v, 0, t) = {}
    BY DEF Carriers
  <1> HIDE DEF A
  <1>4. Cardinality(A) \in Nat /\ Cardinality(A \cup {n + 1}) = Cardinality(A) + 1
    BY <1>1, <1>3, FS_AddElement, FS_CardinalityType
  <1>5. Cardinality(Carriers(v, 0, t)) = 0
    BY <1>3, FS_EmptySet
  <1> QED BY <1>2, <1>4, <1>5 DEF Found, A

LEMMA SameKey == \A s, t : Pure!Key(s) = Pure!Key(t) <=> s = t
  BY DEF Pure!Key

Longer(r, idx, k, id) ==
  /\ DOMAIN r = DOMAIN idx \cup {k}
  /\ \A j : Under(idx, j) \in Seq(Nat) =>
        Under(r, j) = IF j = k THEN Append(Under(idx, j), id) ELSE Under(idx, j)

LEMMA AtEnd == \A idx, k : \A id \in Nat : Longer(Pure!AppendAt(idx, k, id), idx, k, id)
  <1> SUFFICES ASSUME NEW idx, NEW k, NEW id \in Nat
               PROVE  Longer(Pure!AppendAt(idx, k, id), idx, k, id)
    OBVIOUS
  <1> DEFINE r == Pure!AppendAt(idx, k, id)
             more(j) == IF j = k THEN <<id>> ELSE <<>>
  <1>1. r = [j \in DOMAIN idx \cup {k} |-> Under(idx, j) \o more(j)]
    BY Zenon DEF Pure!AppendAt, Under
  <1>2. \A s \in Seq(Nat) : s \o <<id>> = Append(s, id) /\ s \o <<>> = s
    OBVIOUS
  <1>3. ASSUME NEW j, Under(idx, j) \in Seq(Nat)
        PROVE  Under(r, j) = IF j = k THEN Append(Under(idx, j), id) ELSE Under(idx, j)
    <2>1. CASE j \in DOMAIN idx \cup {k}
      <3>1. Under(r, j) = Under(idx, j) \o more(j)
        BY <1>1, <2>1, Zenon DEF Under
      <3> QED BY <1>2, <1>3, <3>1, Zenon
    <2>2. CASE j \notin DOMAIN idx \cup {k}
      <3>1. Under(r, j) = <<>> /\ Under(idx, j) = <<>> /\ j # k
        BY <1>1, <2>2, Zenon DEF Under
      <3> QED BY <3>1, Zenon
    <2> QED BY <2>1, <2>2, Zenon
  <1>4. DOMAIN r = DOMAIN idx \cup {k}
    BY <1>1, Zenon
  <1> QED BY <1>3, <1>4, Zenon DEF Longer

(* The index after n visits: each tag's visits in order. *)
HasTag(s, v, n, t) == /\ s \in Seq(Nat) /\ Len(s) = Found(v, n, t)
                      /\ \A i \in 1..n : v[i].tag = t =>
                            /\ Found(v, i, t) \in 1..Len(s)
                            /\ s[Found(v, i, t)] = v[i].id

Has(idx, v, n) == /\ DOMAIN idx = {Pure!Key(v[i].tag) : i \in 1..n}
                  /\ \A t : HasTag(Under(idx, Pure!Key(t)), v, n, t)

LEMMA TagGrows ==
  \A v \in Seq(Visit) : \A n \in Nat : \A s, t : n + 1 <= Len(v) /\ HasTag(s, v, n, t) =>
     HasTag(IF v[n + 1].tag = t THEN Append(s, v[n + 1].id) ELSE s, v, n + 1, t)
  <1> SUFFICES ASSUME NEW v \in Seq(Visit), NEW n \in Nat, NEW s, NEW t,
                      n + 1 <= Len(v), HasTag(s, v, n, t)
               PROVE  HasTag(IF v[n + 1].tag = t THEN Append(s, v[n + 1].id) ELSE s, v, n + 1, t)
    OBVIOUS
  <1> DEFINE last == v[n + 1]
  <1>1. last.id \in Nat
    <2>1. n + 1 \in 1..Len(v)
      OBVIOUS
    <2> QED BY <2>1, VisitAt
  <1>2. /\ s \in Seq(Nat) /\ Len(s) = Found(v, n, t) /\ Len(s) \in Nat
        /\ \A i \in 1..n : v[i].tag = t => /\ Found(v, i, t) \in 1..Len(s)
                                           /\ s[Found(v, i, t)] = v[i].id
    BY DEF HasTag
  <1>3. \A i \in 1..n+1 : i \in 1..n \/ i = n + 1
    OBVIOUS
  <1>4. Found(v, n + 1, t) = IF last.tag = t THEN Found(v, n, t) + 1 ELSE Found(v, n, t)
    BY OneMore, Zenon
  <1>5. CASE last.tag = t
    <2> DEFINE r == Append(s, last.id)
    <2>1. /\ r \in Seq(Nat) /\ Len(r) = Len(s) + 1 /\ r[Len(s) + 1] = last.id
          /\ \A k \in 1..Len(s) : r[k] = s[k]
      BY <1>1, <1>2
    <2>2. Found(v, n + 1, t) = Len(s) + 1
      BY <1>2, <1>4, <1>5
    <2> HIDE DEF r
    <2>3. ASSUME NEW i \in 1..n+1, v[i].tag = t
          PROVE  Found(v, i, t) \in 1..Len(r) /\ r[Found(v, i, t)] = v[i].id
      <3>1. CASE i \in 1..n
        <4>1. Found(v, i, t) \in 1..Len(s) /\ s[Found(v, i, t)] = v[i].id
          BY <1>2, <2>3, <3>1
        <4> QED BY <1>2, <2>1, <4>1
      <3>2. CASE i = n + 1
        BY <1>2, <2>1, <2>2, <3>2
      <3> QED BY <1>3, <3>1, <3>2
    <2>4. HasTag(r, v, n + 1, t)
      BY <2>1, <2>2, <2>3 DEF HasTag
    <2> QED BY <1>5, <2>4 DEF r
  <1>6. CASE last.tag # t
    <2>1. Found(v, n + 1, t) = Len(s)
      BY <1>2, <1>4, <1>6
    <2>2. HasTag(s, v, n + 1, t)
      BY <1>2, <1>3, <1>6, <2>1 DEF HasTag
    <2> QED BY <1>6, <2>2
  <1> QED BY <1>5, <1>6

LEMMA HasMore ==
  \A v \in Seq(Visit) : \A n \in Nat : \A idx : n + 1 <= Len(v) /\ Has(idx, v, n) =>
     Has(Pure!AppendAt(idx, Pure!Key(v[n + 1].tag), v[n + 1].id), v, n + 1)
  <1> SUFFICES ASSUME NEW v \in Seq(Visit), NEW n \in Nat, NEW idx,
                      n + 1 <= Len(v), Has(idx, v, n)
               PROVE  Has(Pure!AppendAt(idx, Pure!Key(v[n + 1].tag), v[n + 1].id), v, n + 1)
    OBVIOUS
  <1> DEFINE r == Pure!AppendAt(idx, Pure!Key(v[n + 1].tag), v[n + 1].id)
             now_ == Pure!Key(v[n + 1].tag)
  <1>1. v[n + 1].id \in Nat
    <2>1. n + 1 \in 1..Len(v)
      OBVIOUS
    <2> QED BY <2>1, VisitAt
  <1>2. DOMAIN r = {Pure!Key(v[i].tag) : i \in 1..n+1}
    <2>1. DOMAIN r = DOMAIN idx \cup {now_}
      <3>1. Longer(r, idx, now_, v[n + 1].id)
        BY <1>1, AtEnd
      <3> HIDE DEF r, now_
      <3> QED BY <3>1, Zenon DEF Longer
    <2>2. DOMAIN idx = {Pure!Key(v[i].tag) : i \in 1..n}
      BY DEF Has
    <2>3. 1..n+1 = 1..n \cup {n + 1}
      OBVIOUS
    <2> HIDE DEF r
    <2> QED BY <2>1, <2>2, <2>3, Zenon
  <1>3. ASSUME NEW t PROVE HasTag(Under(r, Pure!Key(t)), v, n + 1, t)
    <2> DEFINE s == Under(idx, Pure!Key(t))
    <2>1. HasTag(s, v, n, t)
      BY Zenon DEF Has
    <2>2. s \in Seq(Nat)
      BY <2>1 DEF HasTag
    <2>3. Under(r, Pure!Key(t)) = IF Pure!Key(t) = now_ THEN Append(s, v[n + 1].id) ELSE s
      <3>1. Longer(r, idx, now_, v[n + 1].id)
        BY <1>1, AtEnd
      <3> HIDE DEF r, now_
      <3> QED BY <2>2, <3>1, Zenon DEF Longer
    <2>4. Pure!Key(t) = now_ <=> v[n + 1].tag = t
      BY SameKey, Zenon
    <2>5. HasTag(IF v[n + 1].tag = t THEN Append(s, v[n + 1].id) ELSE s, v, n + 1, t)
      <3> HIDE DEF s
      <3> QED BY <2>1, TagGrows
    <2> HIDE DEF s, r, now_
    <2> QED BY <2>3, <2>4, <2>5, Zenon
  <1> HIDE DEF r
  <1>4. Has(r, v, n + 1)
    BY <1>2, <1>3, Zenon DEF Has
  <1> QED BY <1>4 DEF r

(* BuildTagIndexSlow's and BuildTagIndexFast's loops. *)
Slow(f, v, n) ==
  f = [m \in 0..n |-> IF m = 0 THEN <<>>
                      ELSE Pure!AppendAt(f[m - 1], Pure!Key(v[m].tag), v[m].id)]

Fast(g, v, n) ==
  g = [m \in 0..n |->
         IF m = 0 THEN [b |-> <<>>, idx |-> <<>>]
         ELSE LET at == Pure!Reset(g[m - 1].b) \o Pure!Key(v[m].tag)
              IN  [b |-> at, idx |-> Pure!AppendAt(g[m - 1].idx, at, v[m].id)]]

LEMMA SlowExists == \A v : \A n \in Nat : \E f : Slow(f, v, n)
  <1> SUFFICES ASSUME NEW v PROVE \A n \in Nat : \E f : Slow(f, v, n)
    OBVIOUS
  <1> DEFINE T == {n \in Nat : \E f : Slow(f, v, n)}
             next_(x, m) == Pure!AppendAt(x, Pure!Key(v[m].tag), v[m].id)
  <1>1. 0 \in T
    <2> DEFINE f == [m \in 0..0 |-> <<>>]
    <2>1. \A m \in 0..0 : m = 0
      OBVIOUS
    <2>2. f = [m \in 0..0 |-> IF m = 0 THEN <<>> ELSE next_(f[m - 1], m)]
      BY <2>1, Zenon
    <2>3. Slow(f, v, 0)
      BY <2>2, Zenon DEF Slow
    <2> QED BY <2>3
  <1>2. ASSUME NEW n \in T PROVE n + 1 \in T
    <2>1. PICK f : Slow(f, v, n)
      OBVIOUS
    <2>2. \A m \in 0..n : f[m] = IF m = 0 THEN <<>> ELSE next_(f[m - 1], m)
      BY <2>1, Zenon DEF Slow
    <2>3. n \in Nat
      OBVIOUS
    <2> DEFINE g == [m \in 0..n+1 |-> IF m <= n THEN f[m] ELSE next_(f[m - 1], m)]
    <2> HIDE DEF next_, T
    <2>4. ASSUME NEW m \in 0..n+1
          PROVE  g[m] = IF m = 0 THEN <<>> ELSE next_(g[m - 1], m)
      <3>1. m # 0 => m - 1 \in 0..n /\ m - 1 \in 0..n+1 /\ m - 1 <= n
        BY <2>3
      <3>2. m <= n => m \in 0..n
        BY <2>3
      <3>3. m = 0 => m <= n
        BY <2>3
      <3>4. m # 0 => g[m - 1] = f[m - 1]
        BY <3>1
      <3>5. g[m] = IF m <= n THEN f[m] ELSE next_(f[m - 1], m)
        BY Zenon
      <3> HIDE DEF g
      <3> QED BY <2>2, <3>2, <3>3, <3>4, <3>5, Zenon
    <2>5. g = [m \in 0..n+1 |-> g[m]]
      BY Zenon
    <2> HIDE DEF g
    <2>6. g = [m \in 0..n+1 |-> IF m = 0 THEN <<>> ELSE next_(g[m - 1], m)]
      BY <2>4, <2>5, Zenon
    <2>7. Slow(g, v, n + 1)
      BY <2>6, Zenon DEF Slow, next_
    <2> QED BY <2>3, <2>7 DEF T
  <1>3. T \in SUBSET Nat
    OBVIOUS
  <1> HIDE DEF T
  <1>4. T = Nat
    BY <1>1, <1>2, <1>3, Induction
  <1> QED BY <1>4 DEF T

(* Once reset, the builder holds the key of the tag alone. *)
LEMMA KeyAlone == \A x, t : Pure!Reset(x) \o Pure!Key(t) = Pure!Key(t)
  <1> SUFFICES ASSUME NEW x, NEW t PROVE Pure!Reset(x) \o Pure!Key(t) = Pure!Key(t)
    OBVIOUS
  <1>1. \A S : \A s \in Seq(S) : <<>> \o s = s
    OBVIOUS
  <1>2. Pure!Key(t) \in Seq({t, ":"})
    BY DEF Pure!Key
  <1> QED BY <1>1, <1>2, Zenon DEF Pure!Reset

(* The fast loop makes the slow one's index. *)
LEMMA SameIndex ==
  \A v : \A n \in Nat : \A f : Slow(f, v, n) =>
     /\ \E g : Fast(g, v, n)
     /\ \A g : Fast(g, v, n) => \A m \in 0..n : g[m].idx = f[m]
  <1> SUFFICES ASSUME NEW v, NEW n \in Nat, NEW f, Slow(f, v, n)
               PROVE  /\ \E g : Fast(g, v, n)
                      /\ \A g : Fast(g, v, n) => \A m \in 0..n : g[m].idx = f[m]
    OBVIOUS
  <1> DEFINE next_(x, m) == Pure!AppendAt(x, Pure!Key(v[m].tag), v[m].id)
             fst(m) == [b |-> Pure!Key(v[m].tag), idx |-> next_(f[m - 1], m)]
  <1>1. \A m \in 0..n : f[m] = IF m = 0 THEN <<>> ELSE next_(f[m - 1], m)
    BY Zenon DEF Slow
  <1>2. ASSUME NEW g
        PROVE  Fast(g, v, n) <=>
                 g = [m \in 0..n |->
                        IF m = 0 THEN [b |-> <<>>, idx |-> <<>>]
                        ELSE [b |-> Pure!Key(v[m].tag), idx |-> next_(g[m - 1].idx, m)]]
    <2> DEFINE at(m) == Pure!Reset(g[m - 1].b) \o Pure!Key(v[m].tag)
    <2>1. \A m : at(m) = Pure!Key(v[m].tag)
      BY KeyAlone, Zenon
    <2>2. Fast(g, v, n) <=>
             g = [m \in 0..n |->
                    IF m = 0 THEN [b |-> <<>>, idx |-> <<>>]
                    ELSE [b |-> at(m), idx |-> Pure!AppendAt(g[m - 1].idx, at(m), v[m].id)]]
      BY Zenon DEF Fast
    <2> HIDE DEF at
    <2> QED BY <2>1, <2>2, Zenon
  <1>3. \E g : Fast(g, v, n)
    <2> DEFINE g == [m \in 0..n |-> [b |-> IF m = 0 THEN <<>> ELSE Pure!Key(v[m].tag),
                                     idx |-> f[m]]]
    <2> HIDE DEF next_
    <2>1. ASSUME NEW m \in 0..n, m # 0 PROVE g[m - 1].idx = f[m - 1]
      <3>1. m - 1 \in 0..n
        BY <2>1
      <3> QED BY <3>1
    <2>2. ASSUME NEW m \in 0..n
          PROVE  g[m] = IF m = 0 THEN [b |-> <<>>, idx |-> <<>>]
                        ELSE [b |-> Pure!Key(v[m].tag), idx |-> next_(g[m - 1].idx, m)]
      <3>1. g[m] = [b |-> IF m = 0 THEN <<>> ELSE Pure!Key(v[m].tag), idx |-> f[m]]
        BY Zenon
      <3> HIDE DEF g
      <3> QED BY <1>1, <2>1, <3>1, Zenon
    <2>3. g = [m \in 0..n |-> g[m]]
      BY Zenon
    <2> HIDE DEF g
    <2>4. Fast(g, v, n)
      BY <1>2, <2>2, <2>3, Zenon
    <2> QED BY <2>4
  <1>4. ASSUME NEW g, Fast(g, v, n) PROVE \A m \in 0..n : g[m].idx = f[m]
    <2>1. \A m \in 0..n :
             g[m] = IF m = 0 THEN [b |-> <<>>, idx |-> <<>>]
                    ELSE [b |-> Pure!Key(v[m].tag), idx |-> next_(g[m - 1].idx, m)]
      BY <1>2, <1>4, Zenon
    <2> HIDE DEF next_
    <2>2. ASSUME NEW m \in 0..n
          PROVE  g[m].idx = IF m = 0 THEN <<>> ELSE next_(g[m - 1].idx, m)
      <3> DEFINE x == next_(g[m - 1].idx, m)
      <3>1. g[m] = IF m = 0 THEN [b |-> <<>>, idx |-> <<>>]
                   ELSE [b |-> Pure!Key(v[m].tag), idx |-> x]
        BY <2>1, Zenon
      <3> HIDE DEF x
      <3>2. CASE m = 0
        BY <3>1, <3>2
      <3>3. CASE m # 0
        <4>1. g[m] = [b |-> Pure!Key(v[m].tag), idx |-> x]
          BY <3>1, <3>3, Zenon
        <4>2. g[m].idx = x
          BY <4>1
        <4> QED BY <3>3, <4>2, Zenon DEF x
      <3> QED BY <3>2, <3>3
    <2> DEFINE T == {m \in Nat : m <= n => g[m].idx = f[m]}
    <2>3. 0 \in T
      <3>1. 0 \in 0..n
        OBVIOUS
      <3> QED BY <1>1, <2>2, <3>1
    <2>4. ASSUME NEW m \in T PROVE m + 1 \in T
      <3>0. m \in Nat /\ (m <= n => g[m].idx = f[m])
        OBVIOUS
      <3> HIDE DEF T
      <3>1. ASSUME m + 1 <= n PROVE g[m + 1].idx = f[m + 1]
        <4> DEFINE k == m + 1
        <4>1. k \in 0..n /\ k # 0 /\ k - 1 = m /\ g[m].idx = f[m]
          BY <3>0, <3>1
        <4> HIDE DEF k
        <4>2. g[k].idx = next_(g[k - 1].idx, k) /\ f[k] = next_(f[k - 1], k)
          BY <1>1, <2>2, <4>1, Zenon
        <4> QED BY <4>1, <4>2, Zenon DEF k
      <3> QED BY <3>0, <3>1 DEF T
    <2>5. T \in SUBSET Nat
      OBVIOUS
    <2> HIDE DEF T
    <2>6. T = Nat
      BY <2>3, <2>4, <2>5, Induction
    <2>7. \A m \in 0..n : m \in Nat /\ m <= n
      OBVIOUS
    <2> QED BY <2>6, <2>7 DEF T
  <1> QED BY <1>3, <1>4

LEMMA SlowHas ==
  \A v \in Seq(Visit) : \A f : Slow(f, v, Len(v)) => Has(f[Len(v)], v, Len(v))
  <1> SUFFICES ASSUME NEW v \in Seq(Visit), NEW f, Slow(f, v, Len(v))
               PROVE  Has(f[Len(v)], v, Len(v))
    OBVIOUS
  <1> DEFINE T == {n \in Nat : n <= Len(v) => Has(f[n], v, n)}
             next_(x, m) == Pure!AppendAt(x, Pure!Key(v[m].tag), v[m].id)
  <1>1. Len(v) \in Nat
    OBVIOUS
  <1>2. \A m \in 0..Len(v) : f[m] = IF m = 0 THEN <<>> ELSE next_(f[m - 1], m)
    BY Zenon DEF Slow
  <1>3. 0 \in T
    <2>1. f[0] = <<>>
      <3>1. 0 \in 0..Len(v)
        BY <1>1
      <3> QED BY <1>2, <3>1, Zenon
    <2>2. DOMAIN f[0] = {} /\ 1..0 = {}
      BY <2>1
    <2>3. ASSUME NEW t PROVE HasTag(Under(f[0], Pure!Key(t)), v, 0, t)
      <3>1. Under(f[0], Pure!Key(t)) = <<>>
        BY <2>2, Zenon DEF Under
      <3>2. Found(v, 0, t) = 0
        BY OneMore
      <3> QED BY <2>2, <3>1, <3>2 DEF HasTag
    <2>4. Has(f[0], v, 0)
      BY <2>2, <2>3 DEF Has
    <2> QED BY <2>4
  <1>4. ASSUME NEW n \in T PROVE n + 1 \in T
    <2>0. n \in Nat /\ (n <= Len(v) => Has(f[n], v, n))
      OBVIOUS
    <2> HIDE DEF T
    <2>1. ASSUME n + 1 <= Len(v) PROVE Has(f[n + 1], v, n + 1)
      <3> DEFINE k == n + 1
      <3>1. k \in 0..Len(v) /\ k # 0 /\ k - 1 = n /\ Has(f[n], v, n)
        BY <1>1, <2>0, <2>1
      <3>2. Has(next_(f[n], k), v, k)
        BY <2>0, <2>1, <3>1, HasMore
      <3> HIDE DEF k, next_
      <3>3. f[k] = next_(f[n], k)
        BY <1>2, <3>1, Zenon
      <3> QED BY <3>2, <3>3 DEF k
    <2> QED BY <2>0, <2>1 DEF T
  <1>5. T \in SUBSET Nat
    OBVIOUS
  <1> HIDE DEF T
  <1>6. T = Nat
    BY <1>3, <1>4, <1>5, Induction
  <1> QED BY <1>1, <1>6 DEF T

(* The two loops make one index, with every tag's notes in order. *)
LEMMA Indexed == \A notes \in Seq(Seq(Nat)) : Pure!Indexes(notes)
  <1> SUFFICES ASSUME NEW notes \in Seq(Seq(Nat)) PROVE Pure!Indexes(notes)
    OBVIOUS
  <1> DEFINE v == Pure!Visits(notes)
             n == Len(v)
             f == CHOOSE x : Slow(x, v, n)
             g == CHOOSE x : Fast(x, v, n)
  <1>1. v \in Seq(Visit)
    BY Visited
  <1> DEFINE slow == Pure!BuildTagIndexSlow(notes)
             fast == Pure!BuildTagIndexFast(notes)
  <1>2. slow = f[n]
    BY Zenon DEF Pure!BuildTagIndexSlow, Slow
  <1>3. fast = g[n].idx
    BY Zenon DEF Pure!BuildTagIndexFast, Fast
  <1> HIDE DEF v
  <1>4. n \in Nat /\ n \in 0..n /\ DOMAIN v = 1..n
    BY <1>1
  <1>5. Slow(f, v, n)
    <2> HIDE DEF n
    <2> QED BY <1>4, SlowExists, Zenon
  <1> HIDE DEF f, fast, slow
  <1>6. Fast(g, v, n)
    <2>1. \E x : Fast(x, v, n)
      BY <1>4, <1>5, SameIndex
    <2> QED BY <2>1, Zenon
  <1> HIDE DEF g
  <1>7. fast = f[n]
    BY <1>3, <1>4, <1>5, <1>6, SameIndex
  <1>8. Has(fast, v, n)
    BY <1>1, <1>5, <1>7, SlowHas
  <1>9. DOMAIN fast = {Pure!Key(v[i].tag) : i \in DOMAIN v}
    BY <1>4, <1>8, Zenon DEF Has
  <1>10. ASSUME NEW i \in DOMAIN v
         PROVE  LET Carry == {j \in DOMAIN v : v[j].tag = v[i].tag} IN
                /\ Len(fast[Pure!Key(v[i].tag)]) = Pure!Cardinality(Carry)
                /\ fast[Pure!Key(v[i].tag)][Pure!Cardinality({j \in Carry : j <= i})] = v[i].id
    <2> DEFINE t == v[i].tag
               s == fast[Pure!Key(t)]
               Carry == {j \in DOMAIN v : v[j].tag = t}
    <2>1. Pure!Key(t) \in DOMAIN fast /\ HasTag(Under(fast, Pure!Key(t)), v, n, t)
      BY <1>8, <1>9, Zenon DEF Has
    <2>2. HasTag(s, v, n, t)
      BY <2>1, Zenon DEF Under
    <2>3. i \in 1..n /\ i \in Nat
      BY <1>4
    <2>4. Carry = Carriers(v, n, t) /\ {j \in Carry : j <= i} = Carriers(v, i, t)
      BY <1>4, <2>3 DEF Carriers
    <2> HIDE DEF s, Carry, t
    <2>5. Len(s) = Found(v, n, t) /\ s[Found(v, i, t)] = v[i].id
      BY <2>2, <2>3 DEF HasTag, t
    <2> QED BY <2>4, <2>5, SameCardinality, Zenon DEF Found, s, Carry, t
  <1> QED BY <1>2, <1>7, <1>9, <1>10, Zenon DEF Pure!Indexes, fast, slow, v

(* The functions of notesx, whatever they are given: ValidateNote reports  *)
(* the first rule broken, a document has its tags sorted, and the two ways *)
(* to build an index agree and leave no note out.                          *)
THEOREM NotesxCorrect ==
  /\ \A n \in Notes : Pure!Validates(n)
  /\ \A tags \in Seq(GivenTags) : Pure!Renders(tags)
  /\ \A notes \in Seq(Seq(Nat)) : Pure!Indexes(notes)
  BY Validated, Rendered, Indexed

(* The inputs of the run are among these. *)
LEMMA Bounded == \A S : \A n \in Nat : Pure!BoundedSeq(S, n) \subseteq Seq(S)
  <1> SUFFICES ASSUME NEW S, NEW n \in Nat, NEW s \in Pure!BoundedSeq(S, n) PROVE s \in Seq(S)
    OBVIOUS
  <1>1. PICK m \in 0..n : s \in [1..m -> S]
    BY DEF Pure!BoundedSeq, Pure!SeqOf
  <1> QED BY <1>1, SeqFrom

LEMMA NotesGiven ==
  /\ \A L \in SUBSET Nat : Pure!Texts(L) \subseteq Pure!Texts(Nat)
  /\ Pure!TagLists \subseteq Seq(Pure!Texts(Nat))
  <1>1. ASSUME NEW L \in SUBSET Nat PROVE Pure!Texts(L) \subseteq Pure!Texts(Nat)
    BY DEF Pure!Texts
  <1>2. ASSUME NEW list \in Pure!TagLists PROVE list \in Seq(Pure!Texts(Nat))
    <2> DEFINE more(k) == [i \in 1..k |-> [utf8 |-> TRUE, runes |-> 1]]
               lengths == {0, Pure!MaxTagLen, Pure!MaxTagLen + 1}
    <2>1. PICK s \in Pure!BoundedSeq(Pure!Texts(lengths), 2), k \in {0, Pure!MaxTags - 1} :
             list = s \o more(k)
      <3> DEFINE S == Pure!BoundedSeq(Pure!Texts(lengths), 2)
                 K == {0, Pure!MaxTags - 1}
      <3>1. Pure!TagLists = {s \o more(k) : s \in S, k \in K}
        BY DEF Pure!TagLists
      <3> HIDE DEF S, K, more
      <3>2. \E s \in S, k \in K : list = s \o more(k)
        BY <3>1
      <3> QED BY <3>2, Zenon DEF S, K, more
    <2>2. k \in Nat /\ lengths \in SUBSET Nat
      BY DEF Pure!MaxTags, Pure!MaxTagLen
    <2>3. s \in Seq(Pure!Texts(Nat))
      <3> HIDE DEF lengths
      <3>1. s \in Seq(Pure!Texts(lengths)) /\ Pure!Texts(lengths) \subseteq Pure!Texts(Nat)
        BY <1>1, <2>2, Bounded
      <3> QED BY <3>1
    <2>4. more(k) \in Seq(Pure!Texts(Nat))
      <3>1. [utf8 |-> TRUE, runes |-> 1] \in Pure!Texts(Nat)
        BY DEF Pure!Texts
      <3>2. more(k) \in [1..k -> Pure!Texts(Nat)]
        BY <3>1
      <3> QED BY <2>2, <3>2, SeqFrom
    <2> HIDE DEF more
    <2> QED BY <2>1, <2>3, <2>4
  <1> QED BY <1>1, <1>2

LEMMA IndexGiven ==
  /\ Pure!BoundedSeq(Pure!BoundedSeq(1..2, 2), 3) \subseteq Seq(Seq(Nat))
  /\ \A n \in 7..9 : Pure!MakeNotes(n) \in Seq(Seq(Nat))
  <1>1. Pure!BoundedSeq(Pure!BoundedSeq(1..2, 2), 3) \subseteq Seq(Seq(Nat))
    <2> DEFINE S == Pure!BoundedSeq(1..2, 2)
    <2>1. S \subseteq Seq(Nat)
      <3>1. S \subseteq Seq(1..2)
        BY Bounded
      <3>2. Seq(1..2) \subseteq Seq(Nat)
        OBVIOUS
      <3> QED BY <3>1, <3>2
    <2> HIDE DEF S
    <2>2. Pure!BoundedSeq(S, 3) \subseteq Seq(S)
      BY Bounded
    <2>3. Seq(S) \subseteq Seq(Seq(Nat))
      BY <2>1
    <2> QED BY <2>2, <2>3 DEF S
  <1>2. ASSUME NEW n \in 7..9 PROVE Pure!MakeNotes(n) \in Seq(Seq(Nat))
    <2>1. \A i \in 1..n : (i - 1) % 8 \in Nat /\ i % 8 \in Nat
      OBVIOUS
    <2>2. Pure!MakeNotes(n) \in [1..n -> Seq(Nat)]
      BY <2>1 DEF Pure!MakeNotes
    <2> QED BY <2>2, SeqFrom
  <1> QED BY <1>1, <1>2

Given ==
  /\ program = "functions" => \/ fn = "ValidateNote" /\ arg \in Notes
                              \/ fn = "RenderNoteMarkdown" /\ arg \in Seq(GivenTags)
                              \/ fn = "BuildTagIndex" /\ arg \in Seq(Seq(Nat))
  /\ program = "errors" => key \in {"fresh", "stale", "ghost"} /\ now \in Nat /\ dbErr \in DbErrs

LEMMA GivenFunctions ==
  Pure!Init => \/ fn = "ValidateNote" /\ arg \in Notes
               \/ fn = "RenderNoteMarkdown" /\ arg \in Seq(GivenTags)
               \/ fn = "BuildTagIndex" /\ arg \in Seq(Seq(Nat))
  <1> DEFINE titles == {0, 1, Pure!MaxTitleLen, Pure!MaxTitleLen + 1}
             bodies == {0, Pure!MaxBodyLen, Pure!MaxBodyLen + 1}
  <1>1. titles \in SUBSET Nat /\ bodies \in SUBSET Nat
    BY DEF Pure!MaxTitleLen, Pure!MaxBodyLen
  <1> HIDE DEF titles, bodies
  <1>2. [title : Pure!Texts(titles), body : Pure!Texts(bodies), tags : Pure!TagLists]
           \subseteq Notes
    <2>1. Pure!Texts(titles) \subseteq Pure!Texts(Nat) /\ Pure!Texts(bodies) \subseteq Pure!Texts(Nat)
      BY <1>1, NotesGiven
    <2> QED BY <2>1, NotesGiven DEF Notes
  <1>3. Pure!BoundedSeq([name : 1..3, pad : BOOLEAN], 3) \subseteq Seq(GivenTags)
    <2> DEFINE S == [name : 1..3, pad : BOOLEAN]
    <2>1. S \subseteq GivenTags
      BY DEF GivenTags
    <2> HIDE DEF S
    <2>2. Pure!BoundedSeq(S, 3) \subseteq Seq(S)
      BY Bounded
    <2>3. Seq(S) \subseteq Seq(GivenTags)
      BY <2>1
    <2> QED BY <2>2, <2>3 DEF S
  <1>4. ASSUME Pure!Init
        PROVE  \/ /\ fn = "ValidateNote"
                  /\ arg \in [title : Pure!Texts(titles), body : Pure!Texts(bodies),
                              tags : Pure!TagLists]
               \/ /\ fn = "RenderNoteMarkdown"
                  /\ arg \in Pure!BoundedSeq([name : 1..3, pad : BOOLEAN], 3)
               \/ /\ fn = "BuildTagIndex"
                  /\ arg \in Pure!BoundedSeq(Pure!BoundedSeq(1..2, 2), 3)
                               \cup {Pure!MakeNotes(n) : n \in 7..9}
    BY <1>4, Zenon DEF Pure!Init, titles, bodies
  <1>5. {Pure!MakeNotes(n) : n \in 7..9} \subseteq Seq(Seq(Nat))
    BY IndexGiven
  <1> QED BY <1>2, <1>3, <1>4, <1>5, IndexGiven, Zenon

LEMMA GivenErrors ==
  Chain!Init => key \in {"fresh", "stale", "ghost"} /\ now \in Nat /\ dbErr \in DbErrs
  <1>1. ASSUME NEW leaf \in Leaves, NEW err \in Chain!Wrapped(leaf) PROVE err \in DbErrs
    <2>1. leaf \in Layers /\ "fmt" \in Layers
      BY DEF Layers
    <2>2. CASE err = <<leaf>>
      BY <2>1, <2>2 DEF DbErrs, Chain!Is
    <2>3. CASE err = <<"fmt", leaf>>
      BY <2>1, <2>3 DEF DbErrs, Chain!Is
    <2>4. CASE err = <<"fmt", "fmt", leaf>>
      BY <2>1, <2>4 DEF DbErrs, Chain!Is
    <2> QED BY <1>1, <2>2, <2>3, <2>4 DEF Chain!Wrapped
  <1>2. Chain!Init => /\ key \in {"fresh", "stale", "ghost"} /\ now \in 0..2
                      /\ dbErr \in {<<>>} \cup UNION {Chain!Wrapped(e) : e \in Leaves}
    BY Zenon DEF Chain!Init, Leaves
  <1>3. {<<>>} \cup UNION {Chain!Wrapped(e) : e \in Leaves} \subseteq DbErrs
    <2>1. <<>> \in DbErrs
      BY Zenon DEF DbErrs
    <2> QED BY <1>1, <2>1, Zenon
  <1> QED BY <1>2, <1>3

(* The functions and the error chains of the run do what they promise. *)
THEOREM RunAgrees == MCSpec => []FunctionsAgree
  <1>1. MCInit => Given
    BY GivenFunctions, GivenErrors DEF MCInit, Given
  <1>2. Given /\ [MCNext]_MCvars => Given'
    <2> SUFFICES ASSUME Given, [MCNext]_MCvars PROVE Given'
      OBVIOUS
    <2>1. UNCHANGED <<program, fn, arg, key, now, dbErr>>
      BY DEF MCNext, MCvars, inputs
    <2> QED BY <2>1 DEF Given
  <1>3. Given => FunctionsAgree
    <2>1. Given /\ program = "functions" => Pure!Agrees
      BY NotesxCorrect DEF Given, Pure!Agrees
    <2>2. Given /\ program = "errors" => Chain!Agrees
      BY ErrorsRecognised DEF Given
    <2> QED BY <2>1, <2>2 DEF FunctionsAgree
  <1> QED BY <1>1, <1>2, <1>3, PTL DEF MCSpec

=============================================================================
