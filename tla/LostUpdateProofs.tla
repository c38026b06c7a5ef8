-------------------------- MODULE LostUpdateProofs --------------------------
(***************************************************************************)
(* The row increments for every number of goroutines, connections and      *)
(* failing statements.  The argument: who holds the row's lock is read off *)
(* the program counters, what a transaction has read is still the row when *)
(* it writes (under the lock, or because the version says so), and a call  *)
(* is over exactly when it is in the row or has reported an error.         *)
(***************************************************************************)
EXTENDS LostUpdate, FiniteSetTheorems, TLAPS

InTransaction == {"select", "update", "commit"}

HoldsLock(c) == pc[c] = "commit" \/ (mode = "forupdate" /\ pc[c] = "update")

\* The lock and the connections are held by those who are where they need them.
Holding == \A c \in Callers :
    /\ mode = "version" => pc[c] \notin InTransaction
    /\ mode # "version" => pc[c] # "cas"
    /\ lock = c <=> HoldsLock(c)
    /\ c \in conns <=> pc[c] \in InTransaction

\* What a goroutine knows of the row.
Known == \A c \in Callers :
    /\ mode = "forupdate" /\ pc[c] = "update" => seen[c] = n
    /\ mode = "forupdate" /\ pc[c] = "commit" => seen[c] = n + 1
    /\ mode = "racy" /\ pc[c] = "update" => seen[c] <= Cardinality(applied)
    /\ mode = "racy" /\ pc[c] = "commit" => seen[c] \in 1..Cardinality(applied) + 1
    /\ mode = "version" /\ pc[c] = "cas" => seenVersion[c] = seen[c]

\* Whose increment is in the row, and who has been told of an error.
Outcomes == \A c \in Callers :
    /\ c \in applied \cup failed => pc[c] \in {"error", "done"}
    /\ pc[c] = "error" => c \in failed
    /\ pc[c] = "done" => c \in applied \cup failed

Reported == {c \in failed : pc[c] = "done"}

Collected ==
    /\ errs = Cardinality(Reported)
    /\ main # "wait" => /\ \A c \in Callers : pc[c] = "done"
                        /\ main = "error" <=> failed # {}
    /\ main = "OK" => n = Goroutines

Counts == /\ Cured => n = Cardinality(applied)
          /\ mode = "version" => version = n
          /\ mode # "version" => version = 0
          /\ n <= Cardinality(applied)
          /\ applied # {} => n >= 1

IInv == TypeOK /\ Holding /\ Known /\ Outcomes /\ Collected /\ Counts

-----------------------------------------------------------------------------
(* Sets of goroutines are finite; one more member counts one more. *)
LEMMA CallerCount ==
  ASSUME NEW P \in SUBSET Callers
  PROVE  /\ IsFiniteSet(P) /\ Cardinality(P) \in 0..Goroutines
         /\ Cardinality(P) = 0 <=> P = {}
         /\ Cardinality(Callers) = Goroutines
         /\ \A c \in Callers \ P : Cardinality(P \cup {c}) = Cardinality(P) + 1
  <1>1. IsFiniteSet(Callers) /\ Cardinality(Callers) = Goroutines
    BY RunAssumption, FS_Interval DEF Callers
  <1>2. IsFiniteSet(P) /\ Cardinality(P) <= Goroutines
    BY <1>1, FS_Subset
  <1>3. \A c \in Callers \ P : Cardinality(P \cup {c}) = Cardinality(P) + 1
    BY <1>2, FS_AddElement
  <1> QED BY <1>1, <1>2, <1>3, FS_CardinalityType, FS_EmptySet, RunAssumption

LEMMA InitIInv == Init => IInv
  <1> SUFFICES ASSUME Init PROVE IInv
    OBVIOUS
  <1> USE RunAssumption DEF Init, Callers, NoOne
  <1>1. Cardinality({}) = 0 /\ Reported = {}
    BY FS_EmptySet DEF Reported
  <1>2. TypeOK
    BY DEF TypeOK, PC
  <1>3. Holding /\ Known /\ Outcomes
    BY DEF Holding, Known, Outcomes, HoldsLock, InTransaction
  <1>4. Collected /\ Counts
    BY <1>1 DEF Collected, Counts, Cured
  <1> QED BY <1>2, <1>3, <1>4 DEF IInv

-----------------------------------------------------------------------------
(* What the steps of one goroutine do to the row: nothing, or they add its *)
(* increment to it.  With a cure the row then moves by exactly one.        *)
Applies(c) == /\ c \in Callers \ applied /\ pc[c] \in {"commit", "cas"}
              /\ pc'[c] \in {"error", "done"}
              /\ applied' = applied \cup {c}
              /\ Cured => n' = n + 1
              /\ mode = "racy" => n' \in 1..Cardinality(applied) + 1
              /\ mode = "version" => version' = n'
              /\ mode # "version" => version' = version

LEMMA CommittedApplies ==
  ASSUME IInv, NEW c \in Callers, pc[c] = "commit", Committed(c),
         pc'[c] \in {"error", "done"}
  PROVE  Applies(c)
  <1>1. c \notin applied /\ mode # "version"
    BY DEF IInv, Outcomes, Holding, InTransaction
  <1>2. mode = "forupdate" => seen[c] = n + 1
    BY DEF IInv, Known
  <1>3. mode = "racy" => seen[c] \in 1..Cardinality(applied) + 1
    BY DEF IInv, Known
  <1> QED BY <1>1, <1>2, <1>3 DEF Applies, Committed, Cured, IInv, TypeOK, Modes

LEMMA WonApplies ==
  ASSUME IInv, NEW c \in Callers, pc[c] = "cas", version = seenVersion[c], Won(c),
         pc'[c] \in {"error", "done"}
  PROVE  Applies(c)
  <1>1. c \notin applied /\ mode = "version"
    BY DEF IInv, Outcomes, Holding
  <1>2. version = n /\ seen[c] = n
    BY <1>1 DEF IInv, Known, Counts
  <1> QED BY <1>1, <1>2 DEF Applies, Won, Cured

(* Every step leaves what is committed alone or applies one increment. *)
LEMMA RowStep ==
  IInv /\ [Next]_vars => UNCHANGED <<n, version, applied>> \/ \E c \in Callers : Applies(c)
  <1> SUFFICES ASSUME IInv, [Next]_vars
               PROVE  UNCHANGED <<n, version, applied>> \/ \E c \in Callers : Applies(c)
    OBVIOUS
  <1> USE DEF row, Goto
  <1>0. pc \in [Callers -> PC]
    BY DEF IInv, TypeOK
  <1>1. ASSUME NEW c \in Callers,
               Begin(c) \/ SelectPlain(c) \/ SelectForUpdate(c) \/ Update(c)
               \/ SelectVersion(c) \/ SendError(c) \/ FailBefore(c)
        PROVE  UNCHANGED <<n, version, applied>>
    BY <1>1 DEF Begin, SelectPlain, SelectForUpdate, Update, SelectVersion, SendError, FailBefore
  <1>2. ASSUME NEW c \in Callers, Commit(c) \/ FailAfterCommit(c) PROVE Applies(c)
    BY <1>0, <1>2, CommittedApplies DEF Commit, FailAfterCommit
  <1>3. ASSUME NEW c \in Callers, FailAfterUpdate(c) PROVE Applies(c)
    BY <1>0, <1>3, WonApplies DEF FailAfterUpdate
  <1>4. ASSUME NEW c \in Callers, UpdateVersion(c)
        PROVE  Applies(c) \/ UNCHANGED <<n, version, applied>>
    BY <1>0, <1>4, WonApplies DEF UpdateVersion
  <1>5. CASE Return \/ FinalCount \/ Finished \/ UNCHANGED vars
    BY <1>5 DEF Return, FinalCount, Finished, vars
  <1> QED BY <1>1, <1>2, <1>3, <1>4, <1>5 DEF Next, Step, Caller, Fault

LEMMA CountsStep == IInv /\ [Next]_vars => Counts' /\ n' \in 0..Goroutines /\ version' \in 0..Goroutines
  <1> SUFFICES ASSUME IInv, [Next]_vars
               PROVE  Counts' /\ n' \in 0..Goroutines /\ version' \in 0..Goroutines
    OBVIOUS
  <1>1. mode' = mode
    BY DEF Next, Step, Caller, Fault, Begin, SelectPlain, SelectForUpdate, Update, Commit,
           SelectVersion, UpdateVersion, SendError, FailBefore, FailAfterCommit,
           FailAfterUpdate, Failing, Return, FinalCount, Finished, vars
  <1>2. /\ applied \in SUBSET Callers /\ n \in 0..Goroutines /\ version \in 0..Goroutines
        /\ Cardinality(applied) \in 0..Goroutines
    BY CallerCount DEF IInv, TypeOK
  <1>3. CASE UNCHANGED <<n, version, applied>>
    BY <1>1, <1>2, <1>3 DEF IInv, Counts, Cured
  <1>4. ASSUME NEW c \in Callers, Applies(c)
        PROVE  Counts' /\ n' \in 0..Goroutines /\ version' \in 0..Goroutines
    <2>1. /\ applied' \in SUBSET Callers /\ applied' # {}
          /\ Cardinality(applied') = Cardinality(applied) + 1
          /\ Cardinality(applied') \in 1..Goroutines
      BY <1>2, <1>4, CallerCount DEF Applies
    <2>2. CASE Cured
      <3>1. n' = Cardinality(applied') /\ (mode = "version" => version' = n')
        BY <1>4, <2>1, <2>2 DEF Applies, IInv, Counts
      <3> QED BY <1>1, <1>4, <2>1, <2>2, <3>1, RunAssumption DEF Applies, Counts, IInv, Cured
    <2>3. CASE ~Cured
      <3>1. mode = "racy" /\ n' \in 1..Cardinality(applied') /\ version' = 0
        BY <1>2, <1>4, <2>1, <2>3 DEF Applies, IInv, Counts, Cured
      <3> QED BY <1>1, <2>1, <2>3, <3>1, RunAssumption DEF Counts, Cured
    <2> QED BY <2>2, <2>3
  <1> QED BY <1>3, <1>4, RowStep

-----------------------------------------------------------------------------
(* The other variables keep their types. *)
LEMMA TypesStep == IInv /\ [Next]_vars => TypeOK'
  <1> SUFFICES ASSUME IInv, [Next]_vars PROVE TypeOK'
    OBVIOUS
  <1>0. n' \in 0..Goroutines /\ version' \in 0..Goroutines
    BY CountsStep
  <1>T. TypeOK
    BY DEF IInv
  <1>1. n \in 0..Goroutines /\ version \in 0..Goroutines
    BY <1>T DEF TypeOK
  <1>2. seen \in [Callers -> Nat] /\ errs \in Nat /\ faults \in 0..MaxFaults
    BY <1>T DEF TypeOK
  <1>3. \A c \in Callers : seen[c] + 1 \in Nat
    <2> TAKE c \in Callers
    <2>1. seen[c] \in Nat
      BY <1>2
    <2> QED BY <2>1
  <1>4. errs + 1 \in Nat /\ (faults < MaxFaults => faults + 1 \in 0..MaxFaults)
    BY <1>2, RunAssumption
  <1>N. n \in Nat /\ version \in Nat
    BY <1>1, RunAssumption
  <1> USE <1>0, <1>N, <1>3, <1>4 DEF TypeOK, Goto, row, Unlock, Connect, Disconnect
  <1>P. {"begin", "select", "update", "commit", "cas", "error", "done"} = PC
    BY DEF PC
  <1>5. ASSUME NEW c \in Callers, Begin(c) PROVE TypeOK'
    BY <1>T, <1>P, <1>5 DEF Begin
  <1>6. ASSUME NEW c \in Callers, SelectPlain(c) PROVE TypeOK'
    BY <1>T, <1>P, <1>6 DEF SelectPlain
  <1>7. ASSUME NEW c \in Callers, SelectForUpdate(c) PROVE TypeOK'
    BY <1>T, <1>P, <1>7 DEF SelectForUpdate
  <1>8. ASSUME NEW c \in Callers, Update(c) PROVE TypeOK'
    BY <1>T, <1>P, <1>8 DEF Update
  <1>9. ASSUME NEW c \in Callers, Commit(c) PROVE TypeOK'
    BY <1>T, <1>P, <1>9 DEF Commit, Committed
  <1>10. ASSUME NEW c \in Callers, SelectVersion(c) PROVE TypeOK'
    BY <1>T, <1>P, <1>10 DEF SelectVersion
  <1>11. ASSUME NEW c \in Callers, UpdateVersion(c) PROVE TypeOK'
    BY <1>T, <1>P, <1>11 DEF UpdateVersion, Won
  <1>12. ASSUME NEW c \in Callers, SendError(c) PROVE TypeOK'
    BY <1>T, <1>P, <1>12 DEF SendError
  <1>13. ASSUME NEW c \in Callers, FailBefore(c) PROVE TypeOK'
    BY <1>T, <1>P, <1>13, RunAssumption DEF FailBefore, Failing
  <1>14. ASSUME NEW c \in Callers, FailAfterCommit(c) PROVE TypeOK'
    BY <1>T, <1>P, <1>14, RunAssumption DEF FailAfterCommit, Failing, Committed
  <1>15. ASSUME NEW c \in Callers, FailAfterUpdate(c) PROVE TypeOK'
    BY <1>T, <1>P, <1>15, RunAssumption DEF FailAfterUpdate, Failing, Won
  <1>16. CASE Return \/ Finished \/ UNCHANGED vars
    BY <1>T, <1>16 DEF Return, Finished, vars
  <1>17. CASE FinalCount
    BY <1>T, <1>17, RunAssumption DEF FinalCount
  <1> QED BY <1>5, <1>6, <1>7, <1>8, <1>9, <1>10, <1>11, <1>12, <1>13, <1>14, <1>15, <1>16, <1>17
          DEF Next, Step, Caller, Fault

(* A lock or a connection is taken and given back by the goroutine itself. *)
LEMMA HoldingStep == IInv /\ [Next]_vars => Holding'
  <1> SUFFICES ASSUME IInv, [Next]_vars PROVE Holding'
    OBVIOUS
  <1>0. 0 \notin Callers
    BY DEF Callers
  <1> USE <1>0 DEF IInv, TypeOK, Holding, HoldsLock, InTransaction, Goto, row, Unlock,
                   Connect, Disconnect, NoOne
  <1>1. ASSUME NEW c \in Callers, Begin(c) PROVE Holding'
    BY <1>1 DEF Begin
  <1>2. ASSUME NEW c \in Callers, SelectPlain(c) PROVE Holding'
    BY <1>2 DEF SelectPlain
  <1>3. ASSUME NEW c \in Callers, SelectForUpdate(c) PROVE Holding'
    BY <1>3 DEF SelectForUpdate
  <1>4. ASSUME NEW c \in Callers, Update(c) PROVE Holding'
    BY <1>4 DEF Update
  <1>5. ASSUME NEW c \in Callers, Commit(c) PROVE Holding'
    BY <1>5 DEF Commit, Committed
  <1>6. ASSUME NEW c \in Callers, SelectVersion(c) PROVE Holding'
    BY <1>6 DEF SelectVersion
  <1>7. ASSUME NEW c \in Callers, UpdateVersion(c) PROVE Holding'
    BY <1>7 DEF UpdateVersion, Won
  <1>8. ASSUME NEW c \in Callers, SendError(c) PROVE Holding'
    BY <1>8 DEF SendError
  <1>9. ASSUME NEW c \in Callers, FailBefore(c) PROVE Holding'
    BY <1>9 DEF FailBefore, Failing
  <1>10. ASSUME NEW c \in Callers, FailAfterCommit(c) PROVE Holding'
    BY <1>10 DEF FailAfterCommit, Failing, Committed
  <1>11. ASSUME NEW c \in Callers, FailAfterUpdate(c) PROVE Holding'
    BY <1>11 DEF FailAfterUpdate, Failing, Won
  <1>12. CASE Return \/ FinalCount \/ Finished \/ UNCHANGED vars
    BY <1>12 DEF Return, FinalCount, Finished, vars
  <1> QED BY <1>1, <1>2, <1>3, <1>4, <1>5, <1>6, <1>7, <1>8, <1>9, <1>10, <1>11, <1>12
          DEF Next, Step, Caller, Fault

(* A call that is over is in the row or has reported an error. *)
LEMMA OutcomesStep == IInv /\ [Next]_vars => Outcomes'
  <1> SUFFICES ASSUME IInv, [Next]_vars PROVE Outcomes'
    OBVIOUS
  <1> USE DEF IInv, TypeOK, Outcomes, Goto, row
  <1>1. ASSUME NEW c \in Callers,
               Begin(c) \/ SelectPlain(c) \/ SelectForUpdate(c) \/ Update(c) \/ SelectVersion(c)
        PROVE  Outcomes'
    BY <1>1 DEF Begin, SelectPlain, SelectForUpdate, Update, SelectVersion
  <1>2. ASSUME NEW c \in Callers, Commit(c) PROVE Outcomes'
    BY <1>2 DEF Commit, Committed
  <1>3. ASSUME NEW c \in Callers, UpdateVersion(c) PROVE Outcomes'
    BY <1>3 DEF UpdateVersion, Won
  <1>4. ASSUME NEW c \in Callers, SendError(c) PROVE Outcomes'
    BY <1>4 DEF SendError
  <1>5. ASSUME NEW c \in Callers, Fault(c) PROVE Outcomes'
    BY <1>5 DEF Fault, FailBefore, FailAfterCommit, FailAfterUpdate, Failing, Committed, Won
  <1>6. CASE Return \/ FinalCount \/ Finished \/ UNCHANGED vars
    BY <1>6 DEF Return, FinalCount, Finished, vars
  <1> QED BY <1>1, <1>2, <1>3, <1>4, <1>5, <1>6 DEF Next, Step, Caller

(* What was read under the lock, or under a version, is still the row. *)
LEMMA KnownStep == IInv /\ [Next]_vars => Known'
  <1> SUFFICES ASSUME IInv, [Next]_vars PROVE Known'
    OBVIOUS
  <1>0. /\ pc \in [Callers -> PC] /\ seen \in [Callers -> Nat]
        /\ seenVersion \in [Callers -> Nat] /\ applied \in SUBSET Callers
        /\ n \in Int /\ Cardinality(applied) \in Nat
    <2>1. /\ pc \in [Callers -> PC] /\ seen \in [Callers -> Nat]
          /\ seenVersion \in [Callers -> Nat] /\ applied \in SUBSET Callers
          /\ n \in 0..Goroutines
      BY DEF IInv, TypeOK
    <2> QED BY <2>1, RunAssumption, CallerCount
  <1>1. ASSUME NEW c \in Callers, Applies(c), mode' = mode, seen' = seen,
               seenVersion' = seenVersion, \A d \in Callers \ {c} : pc'[d] = pc[d]
        PROVE  Known'
    <2>1. Cardinality(applied') = Cardinality(applied) + 1
      BY <1>0, <1>1, CallerCount DEF Applies
    <2>2. mode = "forupdate" => \A d \in Callers \ {c} : pc[d] \notin {"update", "commit"}
      BY <1>1 DEF Applies, IInv, Holding, HoldsLock
    <2> QED BY <1>0, <1>1, <2>1, <2>2 DEF Applies, IInv, Known
  <1>2. ASSUME UNCHANGED <<n, version, applied>>,
               UNCHANGED <<mode, seen, seenVersion>>,
               \A c \in Callers : pc'[c] \in {"update", "commit", "cas"} => pc'[c] = pc[c]
        PROVE  Known'
    BY <1>0, <1>2 DEF IInv, Known
  <1> USE <1>0 DEF Goto, row
  <1>3. ASSUME NEW c \in Callers, Begin(c) \/ SendError(c) PROVE Known'
    BY <1>2, <1>3 DEF Begin, SendError
  <1>4. ASSUME NEW c \in Callers, SelectPlain(c) PROVE Known'
    <2>1. n <= Cardinality(applied) /\ mode = "racy" /\ applied' = applied
      BY <1>4 DEF SelectPlain, IInv, Counts
    <2> QED BY <1>4, <2>1 DEF SelectPlain, IInv, Known
  <1>5. ASSUME NEW c \in Callers, SelectForUpdate(c) PROVE Known'
    BY <1>5 DEF SelectForUpdate, IInv, Known
  <1>6. ASSUME NEW c \in Callers, Update(c) PROVE Known'
    <2>1. mode # "version"
      BY <1>6 DEF Update, IInv, Holding, InTransaction
    <2> QED BY <1>6, <2>1 DEF Update, IInv, Known
  <1>7. ASSUME NEW c \in Callers, SelectVersion(c) PROVE Known'
    <2>1. version = n /\ mode = "version"
      BY <1>7 DEF SelectVersion, IInv, Counts
    <2> QED BY <1>7, <2>1 DEF SelectVersion, IInv, Known
  <1>8. ASSUME NEW c \in Callers, Commit(c) \/ FailAfterCommit(c) PROVE Known'
    <2>1. Applies(c)
      BY <1>8, CommittedApplies DEF Commit, FailAfterCommit
    <2> QED BY <1>1, <1>8, <2>1 DEF Commit, FailAfterCommit, Failing
  <1>9. ASSUME NEW c \in Callers, UpdateVersion(c) PROVE Known'
    <2>1. CASE version = seenVersion[c]
      <3>1. Applies(c)
        BY <1>9, <2>1, WonApplies DEF UpdateVersion
      <3> QED BY <1>1, <1>9, <3>1 DEF UpdateVersion
    <2>2. CASE version # seenVersion[c]
      BY <1>2, <1>9, <2>2 DEF UpdateVersion
    <2> QED BY <2>1, <2>2
  <1>10. ASSUME NEW c \in Callers, FailAfterUpdate(c) PROVE Known'
    <2>1. Applies(c)
      BY <1>10, WonApplies DEF FailAfterUpdate
    <2> QED BY <1>1, <1>10, <2>1 DEF FailAfterUpdate, Failing
  <1>11. ASSUME NEW c \in Callers, FailBefore(c) PROVE Known'
    BY <1>2, <1>11 DEF FailBefore, Failing
  <1>12. CASE Return \/ FinalCount \/ Finished \/ UNCHANGED vars
    BY <1>2, <1>12 DEF Return, FinalCount, Finished, vars
  <1> QED BY <1>3, <1>4, <1>5, <1>6, <1>7, <1>8, <1>9, <1>10, <1>11, <1>12
          DEF Next, Step, Caller, Fault

(* The runner's channel holds one error for every failed call that is over. *)
LEMMA CollectedStep == IInv /\ [Next]_vars => Collected'
  <1> SUFFICES ASSUME IInv, [Next]_vars PROVE Collected'
    OBVIOUS
  <1>0. /\ pc \in [Callers -> PC] /\ failed \in SUBSET Callers
        /\ Reported \in SUBSET Callers
    BY DEF IInv, TypeOK, Reported
  <1> USE <1>0 DEF Goto, row
  <1>1. ASSUME NEW c \in Callers, main' = main, errs' = errs, pc[c] # "done",
               \A d \in Callers \ {c} : pc'[d] = pc[d],
               \/ failed' = failed \cup {c} /\ pc'[c] = "error"
               \/ failed' = failed /\ c \notin failed
        PROVE  Collected'
    <2>1. Reported' = Reported
      BY <1>1 DEF Reported
    <2>2. main = "wait"
      BY <1>1 DEF IInv, Collected
    <2> QED BY <1>1, <2>1, <2>2 DEF IInv, Collected
  <1>2. ASSUME NEW c \in Callers,
               Begin(c) \/ SelectPlain(c) \/ SelectForUpdate(c) \/ Update(c)
               \/ SelectVersion(c) \/ Commit(c) \/ UpdateVersion(c)
        PROVE  Collected'
    <2>1. c \notin failed
      BY <1>2 DEF Begin, SelectPlain, SelectForUpdate, Update, SelectVersion, Commit,
                  UpdateVersion, IInv, Outcomes
    <2> QED BY <1>1, <1>2, <2>1 DEF Begin, SelectPlain, SelectForUpdate, Update,
                                    SelectVersion, Commit, UpdateVersion
  <1>3. ASSUME NEW c \in Callers, Fault(c) PROVE Collected'
    <2>1. /\ main' = main /\ errs' = errs /\ failed' = failed \cup {c}
          /\ pc[c] # "done" /\ pc' = [pc EXCEPT ![c] = "error"]
      BY <1>3 DEF Fault, FailBefore, FailAfterCommit, FailAfterUpdate, Failing
    <2>2. pc'[c] = "error" /\ \A d \in Callers \ {c} : pc'[d] = pc[d]
      BY <2>1
    <2> QED BY <1>1, <2>1, <2>2
  <1>4. ASSUME NEW c \in Callers, SendError(c) PROVE Collected'
    <2>1. c \in failed /\ main = "wait"
      BY <1>4 DEF SendError, IInv, Outcomes, Collected
    <2>2. Reported' = Reported \cup {c} /\ c \notin Reported
      BY <1>4, <2>1 DEF SendError, Reported
    <2>3. errs' = Cardinality(Reported')
      BY <1>4, <2>2, CallerCount DEF SendError, IInv, Collected
    <2> QED BY <1>4, <2>1, <2>3 DEF SendError, Collected
  <1>5. CASE Return
    <2>1. Reported = failed /\ Reported' = Reported
      BY <1>5 DEF Return, Reported
    <2>2. errs > 0 <=> failed # {}
      <3>1. errs = Cardinality(failed) /\ errs \in Nat
        BY <2>1, CallerCount DEF IInv, Collected
      <3> QED BY <3>1, CallerCount
    <2>3. /\ main' \in {"error", "count"} /\ (main' = "error" <=> failed # {})
          /\ pc' = pc /\ failed' = failed /\ errs' = errs
          /\ \A c \in Callers : pc[c] = "done"
      BY <1>5, <2>2 DEF Return
    <2> QED BY <2>1, <2>3 DEF IInv, Collected
  <1>6. CASE FinalCount
    <2>1. Reported' = Reported /\ failed = {} /\ main' # "error"
      BY <1>6 DEF FinalCount, Reported, IInv, Collected
    <2>2. main' = "OK" => n = Goroutines
      <3>1. n \in 0..Goroutines /\ (main' = "OK" => n = Goroutines \/ Goroutines = 0)
        BY <1>6 DEF FinalCount, IInv, TypeOK
      <3> QED BY <3>1
    <2> QED BY <1>6, <2>1, <2>2 DEF FinalCount, IInv, Collected
  <1>7. CASE Finished \/ UNCHANGED vars
    BY <1>7 DEF Finished, vars, IInv, Collected, Reported
  <1> QED BY <1>2, <1>3, <1>4, <1>5, <1>6, <1>7 DEF Next, Step, Caller

-----------------------------------------------------------------------------
(* The strengthened invariant holds in every run of the increments.        *)
THEOREM Invariance == Spec => []IInv
  <1>1. IInv /\ [Next]_vars => IInv'
    BY TypesStep, HoldingStep, KnownStep, OutcomesStep, CollectedStep, CountsStep DEF IInv
  <1> QED BY InitIInv, <1>1, PTL DEF Spec

(* At every moment, whatever fails and whichever answer is lost, the row   *)
(* counts the committed increments under both cures, and never more than   *)
(* those without one.                                                      *)
THEOREM RowExact == Spec => []Exact
  <1>1. IInv => Exact
    BY DEF IInv, Counts, Exact
  <1> QED BY Invariance, <1>1, PTL

(* A nil error means that the increment is in the row, and OK from main    *)
(* that all of them are.                                                   *)
THEOREM NilMeansApplied == Spec => []Acknowledged
  <1>1. IInv => Acknowledged
    <2> SUFFICES ASSUME IInv PROVE Acknowledged
      OBVIOUS
    <2>1. \A c \in Callers : pc[c] = "done" /\ c \notin failed => c \in applied
      BY DEF IInv, Outcomes
    <2>2. ASSUME main = "count", Cured PROVE n = Goroutines
      <3>1. \A c \in Callers : c \in applied
        BY <2>1, <2>2 DEF IInv, Collected
      <3>2. applied = Callers
        BY <3>1 DEF IInv, TypeOK
      <3>3. Cardinality(Callers) = Goroutines
        BY CallerCount
      <3> QED BY <2>2, <3>2, <3>3 DEF IInv, Counts
    <2> QED BY <2>1, <2>2 DEF IInv, Collected, Acknowledged
  <1> QED BY Invariance, <1>1, PTL

(* The runner reports an error exactly when a call did, and returns with   *)
(* every connection and the row's lock given back.                         *)
THEOREM VerdictTrue == Spec => []Verdict
  <1>1. IInv => Verdict
    <2> SUFFICES ASSUME IInv, main # "wait"
                 PROVE  (main = "error" <=> failed # {}) /\ conns = {} /\ lock = NoOne
      BY DEF Verdict
    <2>1. \A c \in Callers : pc[c] = "done"
      BY DEF IInv, Collected
    <2>2. \A c \in Callers : lock # c /\ c \notin conns
      BY <2>1 DEF IInv, Holding, HoldsLock, InTransaction
    <2> QED BY <2>2 DEF IInv, TypeOK, Collected
  <1> QED BY Invariance, <1>1, PTL

(* FOR UPDATE and the version check each implement a counter that applies  *)
(* every increment at most once and loses none.                            *)
THEOREM Refinement == Spec => ImplementsIncrements
  <1>1. Init => Abstract!Init
    BY DEF Init, Abstract!Init
  <1>2. IInv /\ [Next]_vars => [Abstract!Next]_Abstract!vars
    <2> SUFFICES ASSUME IInv, [Next]_vars
                 PROVE  Abstract!Next \/ UNCHANGED Abstract!vars
      OBVIOUS
    <2>0. mode' = mode
      BY DEF Next, Step, Caller, Fault, Begin, SelectPlain, SelectForUpdate, Update, Commit,
             SelectVersion, UpdateVersion, SendError, FailBefore, FailAfterCommit,
             FailAfterUpdate, Failing, Return, FinalCount, Finished, vars
    <2>1. CASE UNCHANGED <<n, version, applied>>
      BY <2>0, <2>1 DEF Abstract!vars, Cured
    <2>2. ASSUME NEW c \in Callers, Applies(c), Cured PROVE Abstract!Next
      <3>1. Cured' /\ n' = n + 1 /\ c \notin applied /\ applied' = applied \cup {c}
        BY <2>0, <2>2 DEF Applies, Cured
      <3> QED BY <2>2, <3>1 DEF Abstract!Next, Abstract!Apply
    <2>3. CASE ~Cured
      BY <2>0, <2>3 DEF Abstract!vars, Cured
    <2> QED BY <2>1, <2>2, <2>3, RowStep
  <1> QED BY <1>1, <1>2, Invariance, PTL DEF Spec, ImplementsIncrements, Abstract!Spec

=============================================================================
