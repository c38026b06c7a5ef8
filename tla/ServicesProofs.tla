--------------------------- MODULE ServicesProofs ---------------------------
(***************************************************************************)
(* The services of MCServices, for any number of clients: the audited      *)
(* transaction, the connection pool, the item service, the interceptors,   *)
(* the middleware, the metrics and the traces, each by itself and as one   *)
(* of the run's programs.                                                  *)
(* First the transaction: for any runs of main and of its test, and any    *)
(* number of faults, a note and its audit row come and stay together.      *)
(***************************************************************************)
EXTENDS MCServices, FiniteSetTheorems, SequenceTheorems, TLAPS

(* The run is one of its programs from the first state on.                 *)
LEMMA Begun == ASSUME Init
               PROVE  /\ program = "items" => Item!Init
                      /\ program = "audit" => Db!Init
                      /\ program = "interceptors" => Rpc!Init
                      /\ program = "pool" => Pg!Init
                      /\ program = "middleware" => Web!Init
                      /\ program = "traces" => Traced!Init
                      /\ program = "metrics" => Metric!Init
  BY DEF Init

LEMMA GoesOn == ASSUME [Next]_vars
                PROVE  /\ program' = program
                       /\ program = "items" => [Item!Next]_(Item!vars)
                       /\ program = "audit" => [Db!Next]_(Db!vars)
                       /\ program = "interceptors" => [Rpc!Next]_(Rpc!vars)
                       /\ program = "pool" => [Pg!Next]_(Pg!vars)
                       /\ program = "middleware" => [Web!Next]_(Web!vars)
                       /\ program = "traces" => [Traced!Next]_(Traced!vars)
                       /\ program = "metrics" => [Metric!Next]_(Metric!vars)
  <1>1. CASE UNCHANGED vars
    BY <1>1 DEF vars, frames, webOnly, itemOnly, auditOnly, rpcOnly, pgOnly, tracedOnly, metricOnly,
                Web!vars, Item!vars, Item!store, Db!vars, Db!db, Rpc!vars, Pg!vars, Pg!conns,
                Traced!vars, Traced!spans, Metric!vars
  <1>2. CASE Next
    BY <1>2 DEF Next
  <1> QED BY <1>1, <1>2

-----------------------------------------------------------------------------
\* Each process is at a call of its script, and inside createWithAudit only
\* when the call is one.
Creates(p) == Db!Call(p).op = "create"
Placed == \A p \in Db!Processes : /\ at[p] \in 1..Len(Db!Script(p))
                                  /\ pc[p] # "call" => Creates(p)

NoteOf(p) == <<"notes", Db!Call(p).id>>
AuditOf(p) == <<"audit", Db!Call(p).id>>

\* What a live transaction has written follows from where its process is.
Written(p) == status[p] = "running" =>
                 /\ pc[p] \in {"call", "note"} => written[Db!Tx(p)] = {}
                 /\ pc[p] = "audit" => written[Db!Tx(p)] = {NoteOf(p)}
                 /\ pc[p] = "commit" => /\ written[Db!Tx(p)] = {NoteOf(p), AuditOf(p)}
                                        /\ Db!Call(p).actor = Db!Short
NotYet(p) == \A i \in 1..4 : i > at[p] => written[<<p, i>>] = {}
Writes == \A p \in Db!Processes : Written(p)
Later == \A p \in Db!Processes : NotYet(p)

\* Nobody writes a note that another writes or that there is.
Exclusive == \A t \in Db!Transactions, i \in Db!Ids : <<"notes", i>> \in written[t] =>
                /\ i \notin notes
                /\ \A u \in Db!Transactions : u # t => <<"notes", i>> \notin written[u]

\* nil is returned only after the commit, which only a short actor reaches.
Verdict(p) == /\ pc[p] = "rollback" => err[p]
              /\ pc[p] = "return" /\ ~err[p] => Db!Call(p).id \in notes /\ Db!Call(p).actor = Db!Short
Verdicts == \A p \in Db!Processes : Verdict(p)

AuditInv == Db!Atomic /\ Placed /\ Writes /\ Later /\ Exclusive /\ Verdicts

-----------------------------------------------------------------------------
(* The calls of main and of the test. *)
LEMMA Scripts ==
  /\ \A p \in Mains : /\ Len(Db!Script(p)) = 4
                      /\ Db!Script(p)[1] = Db!Create("ok-1", Db!Short) /\ Db!Script(p)[2] = Db!Exists("ok-1")
                      /\ Db!Script(p)[3] = Db!Create("bad-1", Db!Long) /\ Db!Script(p)[4] = Db!Exists("bad-1")
  /\ \A p \in Db!Processes \ Mains : /\ Len(Db!Script(p)) = 2
                                     /\ Db!Script(p)[1] = Db!Create("tx-test", Db!Long)
                                     /\ Db!Script(p)[2] = Db!Exists("tx-test")
  BY DEF Db!Script

(* What that means for the call a process is at. *)
LEMMA Calls ==
  ASSUME NEW p \in Db!Processes, at[p] \in 1..Len(Db!Script(p))
  PROVE  /\ Db!Call(p).id \in Db!Ids /\ at[p] \in 1..4 /\ Db!Tx(p) \in Db!Transactions
         /\ Creates(p) => /\ at[p] < Len(Db!Script(p))
                          /\ Db!Call(p).actor = Db!Short => Db!Call(p).id = "ok-1"
                          /\ p \in Mains /\ at[p] # 3 => Db!Call(p).actor = Db!Short
         /\ Db!Call(p).op = "exists" =>
              /\ at[p] = Len(Db!Script(p)) => Db!Call(p).id # "ok-1"
              /\ p \in Mains => at[p] > 1
         /\ Creates(p) \/ Db!Call(p).op = "exists"
         /\ Creates(p) => ~(Db!Call(p).op = "exists")
  <1>1. /\ p \in Mains => Len(Db!Script(p)) = 4 /\ at[p] \in {1, 2, 3, 4}
        /\ p \notin Mains => Len(Db!Script(p)) = 2 /\ at[p] \in {1, 2}
    <2>1. (p \in Mains => Len(Db!Script(p)) = 4) /\ (p \notin Mains => Len(Db!Script(p)) = 2)
      BY Scripts
    <2>2. CASE p \in Mains
      <3>1. at[p] \in 1..4
        BY <2>1, <2>2
      <3> QED BY <2>1, <2>2, <3>1
    <2>3. CASE p \notin Mains
      <3>1. at[p] \in 1..2
        BY <2>1, <2>3
      <3> QED BY <2>1, <2>3, <3>1
    <2> QED BY <2>2, <2>3
  <1>2. /\ p \in Mains /\ at[p] = 1 => Db!Call(p) = Db!Create("ok-1", Db!Short)
        /\ p \in Mains /\ at[p] = 2 => Db!Call(p) = Db!Exists("ok-1")
        /\ p \in Mains /\ at[p] = 3 => Db!Call(p) = Db!Create("bad-1", Db!Long)
        /\ p \in Mains /\ at[p] = 4 => Db!Call(p) = Db!Exists("bad-1")
        /\ p \notin Mains /\ at[p] = 1 => Db!Call(p) = Db!Create("tx-test", Db!Long)
        /\ p \notin Mains /\ at[p] = 2 => Db!Call(p) = Db!Exists("tx-test")
    BY Scripts DEF Db!Call
  <1>3. at[p] \in 1..4 /\ Db!Tx(p) \in Db!Transactions
    BY <1>1 DEF Db!Tx, Db!Transactions
  <1>4. \A i, a : /\ Db!Create(i, a).op = "create" /\ Db!Create(i, a).id = i /\ Db!Create(i, a).actor = a
                 /\ Db!Exists(i).op = "exists" /\ Db!Exists(i).id = i
    BY DEF Db!Create, Db!Exists
  <1>5. Db!Short # Db!Long
    BY DEF Db!Short, Db!Long
  <1>6. CASE p \in Mains
    <2>0. Len(Db!Script(p)) = 4
      BY <1>1, <1>6
    <2>1. CASE at[p] = 1
      <3>1. Db!Call(p).op = "create" /\ Db!Call(p).id = "ok-1" /\ Db!Call(p).actor = Db!Short
        BY <1>2, <1>4, <1>6, <2>1
      <3> QED BY <1>3, <1>5, <2>0, <2>1, <3>1 DEF Creates, Db!Ids
    <2>2. CASE at[p] = 2
      <3>1. Db!Call(p).op = "exists" /\ Db!Call(p).id = "ok-1"
        BY <1>2, <1>4, <1>6, <2>2
      <3> QED BY <1>3, <2>0, <2>2, <3>1 DEF Creates, Db!Ids
    <2>3. CASE at[p] = 3
      <3>1. Db!Call(p).op = "create" /\ Db!Call(p).id = "bad-1" /\ Db!Call(p).actor = Db!Long
        BY <1>2, <1>4, <1>6, <2>3
      <3> QED BY <1>3, <1>5, <2>0, <2>3, <3>1 DEF Creates, Db!Ids
    <2>4. CASE at[p] = 4
      <3>1. Db!Call(p).op = "exists" /\ Db!Call(p).id = "bad-1"
        BY <1>2, <1>4, <1>6, <2>4
      <3> QED BY <1>3, <2>0, <2>4, <3>1 DEF Creates, Db!Ids
    <2> QED BY <1>1, <1>6, <2>1, <2>2, <2>3, <2>4
  <1>7. CASE p \notin Mains
    BY <1>1, <1>2, <1>3, <1>4, <1>5, <1>7 DEF Creates, Db!Ids
  <1> QED BY <1>6, <1>7

-----------------------------------------------------------------------------
StoreTypes == /\ notes \subseteq Db!Ids /\ audits \in [Db!Ids -> Nat]
              /\ written \in [Db!Transactions -> SUBSET ({"notes", "audit"} \X Db!Ids)]
PlaceTypes == /\ at \in [Db!Processes -> 1..4]
              /\ pc \in [Db!Processes -> {"call", "note", "audit", "commit", "rollback", "return"}]
EndTypes == /\ err \in [Db!Processes -> BOOLEAN]
            /\ status \in [Db!Processes -> {"running", "ok", "failed", "broken", "crashed"}]
            /\ faults \in 0..MaxFaults
Paired == \A i \in Db!Ids : audits[i] = IF i \in notes THEN 1 ELSE 0
OnlyGood == notes \subseteq {"ok-1"}
Told == \A p \in Db!Processes : status[p] # "broken"
StayedGood == \A p \in Mains : at[p] > 1 => "ok-1" \in notes

LEMMA AtomicParts == Db!Atomic <=> /\ StoreTypes /\ PlaceTypes /\ EndTypes
                                   /\ Paired /\ OnlyGood /\ Told /\ StayedGood
  BY DEF Db!Atomic, Db!TypeOK, StoreTypes, PlaceTypes, EndTypes, Told, Paired, OnlyGood, StayedGood

LEMMA AuditInit == ASSUME MaxFaults \in Nat, Db!Init PROVE AuditInv
  <1>1. StoreTypes /\ PlaceTypes /\ EndTypes /\ Paired /\ OnlyGood /\ Told /\ StayedGood
    BY DEF Db!Init, StoreTypes, PlaceTypes, EndTypes, Paired, OnlyGood, Told, StayedGood,
           Db!Processes
  <1>2. ASSUME NEW p \in Db!Processes PROVE 1 \in 1..Len(Db!Script(p))
    BY Scripts
  <1>3. Placed
    BY <1>2 DEF Db!Init, Placed
  <1>4. \A t \in Db!Transactions : written[t] = {}
    BY DEF Db!Init
  <1>5. ASSUME NEW p \in Db!Processes, NEW i \in 1..4 PROVE <<p, i>> \in Db!Transactions
    BY DEF Db!Transactions
  <1>6. Writes /\ Later
    <2>1. Later
      BY <1>4, <1>5 DEF Later, NotYet
    <2>2. ASSUME NEW p \in Db!Processes PROVE written[Db!Tx(p)] = {} /\ pc[p] = "call"
      <3>1. at[p] = 1 /\ 1 \in 1..4 /\ pc[p] = "call"
        BY DEF Db!Init
      <3> QED BY <1>4, <1>5, <3>1 DEF Db!Tx
    <2> QED BY <2>1, <2>2 DEF Writes, Written
  <1>7. Exclusive
    BY <1>4 DEF Exclusive
  <1>8. Verdicts
    BY DEF Db!Init, Verdicts, Verdict
  <1> QED BY <1>1, <1>3, <1>6, <1>7, <1>8, AtomicParts DEF AuditInv

(* A step takes its process on in its call, past it, or to its end. *)
LEMMA Placing ==
  ASSUME AuditInv, NEW p \in Db!Processes, Db!Step(p)
  PROVE  PlaceTypes' /\ Placed'
  <1>0. PlaceTypes /\ Placed
    BY AtomicParts DEF AuditInv
  <1>1. /\ at[p] \in 1..Len(Db!Script(p)) /\ at[p] \in 1..4
        /\ pc[p] # "call" => Creates(p)
        /\ Creates(p) => at[p] < Len(Db!Script(p))
        /\ Len(Db!Script(p)) \in {2, 4}
    <2>1. Len(Db!Script(p)) \in {2, 4}
      BY Scripts
    <2> QED BY <1>0, <2>1, Calls DEF Placed
  <1>2. CASE at' = at /\ (pc' = pc \/ (Creates(p) /\ \E to \in {"note", "audit", "commit", "rollback", "return"} :
                                         pc' = [pc EXCEPT ![p] = to]))
    BY <1>0, <1>1, <1>2 DEF PlaceTypes, Placed, Creates, Db!Call
  <1>3. CASE Db!NextCall(p) /\ at[p] < Len(Db!Script(p))
    <2>1. at[p] + 1 \in 1..4 /\ at[p] + 1 \in 1..Len(Db!Script(p))
      <3>1. Len(Db!Script(p)) = 2 \/ Len(Db!Script(p)) = 4
        BY <1>1
      <3>2. at[p] \in Nat /\ at[p] >= 1 /\ at[p] < Len(Db!Script(p))
        BY <1>1, <1>3
      <3>3. CASE Len(Db!Script(p)) = 2
        <4>1. at[p] = 1
          BY <3>2, <3>3
        <4> QED BY <3>3, <4>1
      <3>4. CASE Len(Db!Script(p)) = 4
        <4>1. at[p] \in {1, 2, 3}
          BY <3>2, <3>4
        <4> QED BY <3>4, <4>1
      <3> QED BY <3>1, <3>3, <3>4
    <2>2. PlaceTypes'
      BY <1>0, <1>3, <2>1 DEF PlaceTypes, Db!NextCall
    <2>3. ASSUME NEW q \in Db!Processes
          PROVE  at'[q] \in 1..Len(Db!Script(q)) /\ (pc'[q] # "call" => q # p /\ at'[q] = at[q] /\ pc'[q] = pc[q])
      BY <1>0, <1>3, <2>1 DEF PlaceTypes, Placed, Db!NextCall
    <2>4. Placed'
      BY <1>0, <2>3 DEF Placed, Creates, Db!Call
    <2> QED BY <2>2, <2>4
  <1>4. \/ at' = at /\ pc' = pc
        \/ at' = at /\ Creates(p) /\ \E to \in {"note", "audit", "commit", "rollback", "return"} :
                                         pc' = [pc EXCEPT ![p] = to]
        \/ Db!NextCall(p) /\ at[p] < Len(Db!Script(p))
    BY <1>1 DEF Db!Step, Db!Begin, Db!InsertNote, Db!DuplicateNote, Db!InsertAudit, Db!CheckFails,
                Db!Commit, Db!CommitAnswerLost, Db!StatementFails, Db!BeginFails, Db!Rollback,
                Db!Returned, Db!Query, Db!QueryFails, Db!Crash, Db!End, Db!Goto, Db!Apply, Db!db,
                Creates
  <1> QED BY <1>2, <1>3, <1>4

(* A process ends well or badly, and its faults are counted. *)
LEMMA Ending ==
  ASSUME AuditInv, NEW p \in Db!Processes, Db!Step(p), MaxFaults \in Nat
  PROVE  EndTypes' /\ Told'
  <1>0. EndTypes /\ Told /\ OnlyGood
    BY AtomicParts DEF AuditInv
  <1>1. /\ at[p] \in 1..Len(Db!Script(p))
        /\ Db!Call(p).op = "exists" /\ at[p] = Len(Db!Script(p)) => Db!Call(p).id # "ok-1"
    BY Calls DEF AuditInv, Placed
  <1>2. ~(at[p] < Len(Db!Script(p))) => at[p] = Len(Db!Script(p))
    <2>1. Len(Db!Script(p)) \in {2, 4}
      BY Scripts
    <2> QED BY <1>1, <2>1
  <1>3. faults' \in 0..MaxFaults
    BY <1>0 DEF Db!Step, Db!Begin, Db!InsertNote, Db!DuplicateNote, Db!InsertAudit, Db!CheckFails,
                Db!Commit, Db!CommitAnswerLost, Db!StatementFails, Db!BeginFails, Db!Rollback,
                Db!Returned, Db!Query, Db!QueryFails, Db!Crash, Db!Fault, EndTypes
  <1>4. err' = err \/ \E b \in BOOLEAN : err' = [err EXCEPT ![p] = b]
    BY DEF Db!Step, Db!Begin, Db!InsertNote, Db!DuplicateNote, Db!InsertAudit, Db!CheckFails,
           Db!Commit, Db!CommitAnswerLost, Db!StatementFails, Db!BeginFails, Db!Rollback,
           Db!Returned, Db!Query, Db!QueryFails, Db!Crash, Db!Failed
  <1>5. status' = status \/ \E how \in {"ok", "failed", "crashed"} : status' = [status EXCEPT ![p] = how]
    BY <1>0, <1>1, <1>2 DEF Db!Step, Db!Begin, Db!InsertNote, Db!DuplicateNote, Db!InsertAudit,
                            Db!CheckFails, Db!Commit, Db!CommitAnswerLost, Db!StatementFails,
                            Db!BeginFails, Db!Rollback, Db!Returned, Db!Query, Db!QueryFails,
                            Db!Crash, Db!NextCall, Db!End, OnlyGood
  <1> QED BY <1>0, <1>3, <1>4, <1>5 DEF EndTypes, Told

(* The tables a step leaves, and what its transaction has written. *)
Untouched == notes' = notes /\ audits' = audits
LEMMA Effects ==
  ASSUME AuditInv, NEW p \in Db!Processes, Db!Step(p)
  PROVE  \/ /\ Untouched /\ written' = written
         \/ /\ Untouched /\ written' = [written EXCEPT ![Db!Tx(p)] = @ \cup {NoteOf(p)}]
            /\ status[p] = "running" /\ pc[p] = "note" /\ pc' = [pc EXCEPT ![p] = "audit"]
            /\ at' = at
            /\ Db!Call(p).id \notin notes
            /\ \A t \in Db!Transactions : NoteOf(p) \notin written[t]
         \/ /\ Untouched /\ written' = [written EXCEPT ![Db!Tx(p)] = @ \cup {AuditOf(p)}]
            /\ status[p] = "running" /\ pc[p] = "audit" /\ pc' = [pc EXCEPT ![p] = "commit"]
            /\ at' = at /\ Db!Call(p).actor = Db!Short
         \/ /\ Db!Apply(Db!Tx(p))
            /\ status[p] = "running" /\ pc[p] = "commit" /\ at' = at
            /\ \/ pc' = [pc EXCEPT ![p] = "return"] /\ err' = err
               \/ pc' = [pc EXCEPT ![p] = "rollback"] /\ err' = [err EXCEPT ![p] = TRUE]
         \/ /\ Untouched /\ written' = [written EXCEPT ![Db!Tx(p)] = {}]
            /\ status[p] = "running" /\ pc[p] = "rollback" /\ pc' = [pc EXCEPT ![p] = "return"]
            /\ at' = at
  BY DEF Db!Step, Db!Begin, Db!InsertNote, Db!DuplicateNote, Db!InsertAudit, Db!CheckFails,
         Db!Commit, Db!CommitAnswerLost, Db!StatementFails, Db!BeginFails, Db!Rollback,
         Db!Returned, Db!Query, Db!QueryFails, Db!Crash, Db!End, Db!NextCall, Db!Goto, Db!Write,
         Db!db, Untouched, NoteOf, AuditOf, Db!Failed

(* The transaction a commit makes visible: one new note and its audit row. *)
LEMMA Committing ==
  ASSUME AuditInv, NEW p \in Db!Processes, status[p] = "running", pc[p] = "commit", Db!Apply(Db!Tx(p))
  PROVE  /\ Db!Call(p).id = "ok-1" /\ "ok-1" \notin notes
         /\ notes' = notes \cup {"ok-1"}
         /\ audits' = [audits EXCEPT !["ok-1"] = 1]
         /\ written' = [written EXCEPT ![Db!Tx(p)] = {}]
         /\ \A t \in Db!Transactions : t # Db!Tx(p) => <<"notes", "ok-1">> \notin written[t]
  <1>1. /\ written[Db!Tx(p)] = {NoteOf(p), AuditOf(p)} /\ Db!Call(p).actor = Db!Short
        /\ Creates(p)
    BY DEF AuditInv, Writes, Written, Placed
  <1>2. Db!Call(p).id = "ok-1" /\ "ok-1" \in Db!Ids /\ Db!Tx(p) \in Db!Transactions
    BY <1>1, Calls DEF AuditInv, Placed, Db!Ids
  <1>3. written[Db!Tx(p)] = {<<"notes", "ok-1">>, <<"audit", "ok-1">>}
    BY <1>1, <1>2 DEF NoteOf, AuditOf
  <1>4. <<"notes", "ok-1">> \in written[Db!Tx(p)]
    BY <1>3
  <1>5. /\ "ok-1" \notin notes
        /\ \A t \in Db!Transactions : t # Db!Tx(p) => <<"notes", "ok-1">> \notin written[t]
    BY <1>2, <1>4 DEF AuditInv, Exclusive
  <1>6. \A i : /\ <<"notes", i>> \in written[Db!Tx(p)] <=> i = "ok-1"
               /\ <<"audit", i>> \in written[Db!Tx(p)] <=> i = "ok-1"
    BY <1>3
  <1>7. notes' = notes \cup {"ok-1"} /\ written' = [written EXCEPT ![Db!Tx(p)] = {}]
    BY <1>2, <1>6 DEF Db!Apply
  <1>8. audits' = [audits EXCEPT !["ok-1"] = 1]
    <2>1. Paired /\ audits \in [Db!Ids -> Nat]
      BY AtomicParts DEF AuditInv, StoreTypes
    <2>2. audits' = [i \in Db!Ids |-> audits[i] + IF i = "ok-1" THEN 1 ELSE 0]
      BY <1>6 DEF Db!Apply
    <2>3. audits["ok-1"] = 0
      BY <1>2, <1>5, <2>1 DEF Paired
    <2>4. ASSUME NEW i \in Db!Ids
          PROVE  audits[i] + (IF i = "ok-1" THEN 1 ELSE 0) = IF i = "ok-1" THEN 1 ELSE audits[i]
      <3>1. audits[i] \in Nat
        BY <2>1
      <3> QED BY <2>3, <3>1
    <2>5. audits' = [i \in Db!Ids |-> IF i = "ok-1" THEN 1 ELSE audits[i]]
      BY <2>2, <2>4
    <2> QED BY <2>1, <2>5
  <1> QED BY <1>2, <1>5, <1>7, <1>8

(* The committed rows: a note comes with its audit row, and is a good one. *)
LEMMA Tables ==
  ASSUME AuditInv, NEW p \in Db!Processes, Db!Step(p)
  PROVE  StoreTypes' /\ Paired' /\ OnlyGood' /\ notes \subseteq notes'
  <1>0. StoreTypes /\ Paired /\ OnlyGood
    BY AtomicParts DEF AuditInv
  <1>1. /\ Db!Call(p).id \in Db!Ids /\ Db!Tx(p) \in Db!Transactions
        /\ NoteOf(p) \in {"notes", "audit"} \X Db!Ids /\ AuditOf(p) \in {"notes", "audit"} \X Db!Ids
    BY Calls DEF AuditInv, Placed, NoteOf, AuditOf
  <1>2. CASE Untouched /\ \/ written' = written
                          \/ written' = [written EXCEPT ![Db!Tx(p)] = @ \cup {NoteOf(p)}]
                          \/ written' = [written EXCEPT ![Db!Tx(p)] = @ \cup {AuditOf(p)}]
                          \/ written' = [written EXCEPT ![Db!Tx(p)] = {}]
    BY <1>0, <1>1, <1>2 DEF Untouched, StoreTypes, Paired, OnlyGood
  <1>3. CASE Db!Apply(Db!Tx(p)) /\ status[p] = "running" /\ pc[p] = "commit"
    <2>1. /\ notes' = notes \cup {"ok-1"} /\ audits' = [audits EXCEPT !["ok-1"] = 1]
          /\ written' = [written EXCEPT ![Db!Tx(p)] = {}] /\ "ok-1" \in Db!Ids
      BY <1>1, <1>3, Committing
    <2>2. StoreTypes' /\ OnlyGood' /\ notes \subseteq notes'
      BY <1>0, <1>1, <2>1 DEF StoreTypes, OnlyGood
    <2>3. Paired'
      BY <1>0, <2>1 DEF StoreTypes, Paired
    <2> QED BY <2>2, <2>3
  <1> QED BY <1>2, <1>3, Effects

(* A run of main past its first call has seen that call's note committed. *)
LEMMA GoodNotes ==
  ASSUME AuditInv, NEW p \in Db!Processes, Db!Step(p)
  PROVE  StayedGood'
  <1>0. StayedGood /\ notes \subseteq notes' /\ PlaceTypes
    BY Tables, AtomicParts DEF AuditInv
  <1>1. CASE at' = at
    BY <1>0, <1>1 DEF StayedGood
  <1>2. CASE Db!NextCall(p) /\ (p \in Mains => "ok-1" \in notes)
    BY <1>0, <1>2 DEF StayedGood, Db!NextCall, PlaceTypes, Db!Processes
  <1>3. ASSUME at' # at PROVE Db!NextCall(p) /\ (p \in Mains => "ok-1" \in notes)
    <2>1. /\ at[p] \in 1..Len(Db!Script(p))
          /\ pc[p] = "return" => Creates(p)
          /\ pc[p] = "return" /\ ~err[p] => Db!Call(p).id \in notes /\ Db!Call(p).actor = Db!Short
      BY DEF AuditInv, Placed, Verdicts, Verdict
    <2>2. Db!Query(p) \/ Db!QueryFails(p) \/ Db!Returned(p)
      BY <1>3 DEF Db!Step, Db!Begin, Db!InsertNote, Db!DuplicateNote, Db!InsertAudit,
                  Db!CheckFails, Db!Commit, Db!CommitAnswerLost, Db!StatementFails, Db!BeginFails,
                  Db!Rollback, Db!Crash, Db!End
    <2>3. CASE Db!Query(p) \/ Db!QueryFails(p)
      <3>1. Db!NextCall(p) /\ Db!Call(p).op = "exists"
        BY <1>3, <2>3 DEF Db!Query, Db!QueryFails, Db!End
      <3>2. p \in Mains => at[p] > 1
        BY <2>1, <3>1, Calls
      <3> QED BY <1>0, <3>1, <3>2 DEF StayedGood
    <2>4. CASE Db!Returned(p)
      <3>1. Db!NextCall(p) /\ (err[p] = (Db!Call(p).actor = Db!Long) \/ (p \in Mains /\ at[p] = 3)) /\ Creates(p)
        BY <1>3, <2>1, <2>4 DEF Db!Returned, Db!End
      <3>2. CASE p \in Mains /\ at[p] = 3
        BY <1>0, <3>1, <3>2 DEF StayedGood
      <3>3. CASE p \in Mains /\ at[p] # 3
        <4>1. Db!Call(p).actor = Db!Short /\ Db!Call(p).id = "ok-1" /\ Db!Short # Db!Long
          BY <2>1, <3>1, <3>3, Calls DEF Db!Short, Db!Long
        <4>2. ~err[p]
          BY <3>1, <3>3, <4>1
        <4> QED BY <2>1, <2>4, <3>1, <4>1, <4>2 DEF Db!Returned
      <3> QED BY <3>1, <3>2, <3>3
    <2> QED BY <2>2, <2>3, <2>4
  <1> QED BY <1>1, <1>2, <1>3

(* Two transactions never write one note. *)
LEMMA OneWriter ==
  ASSUME AuditInv, NEW p \in Db!Processes, Db!Step(p)
  PROVE  Exclusive'
  <1>0. StoreTypes /\ Exclusive /\ Db!Tx(p) \in Db!Transactions /\ Db!Call(p).id \in Db!Ids
    BY AtomicParts, Calls DEF AuditInv, Placed
  <1>1. CASE Untouched /\ \/ written' = written
                          \/ written' = [written EXCEPT ![Db!Tx(p)] = @ \cup {AuditOf(p)}]
                          \/ written' = [written EXCEPT ![Db!Tx(p)] = {}]
    <2>1. ASSUME NEW t \in Db!Transactions, NEW i \in Db!Ids, <<"notes", i>> \in written'[t]
          PROVE  <<"notes", i>> \in written[t]
      BY <1>0, <1>1, <2>1 DEF StoreTypes, AuditOf
    <2> QED BY <1>0, <1>1, <2>1 DEF Exclusive, Untouched
  <1>2. CASE /\ Untouched /\ written' = [written EXCEPT ![Db!Tx(p)] = @ \cup {NoteOf(p)}]
             /\ Db!Call(p).id \notin notes
             /\ \A t \in Db!Transactions : NoteOf(p) \notin written[t]
    <2>1. ASSUME NEW t \in Db!Transactions, NEW i \in Db!Ids
          PROVE  /\ <<"notes", i>> \in written'[t] <=>
                      <<"notes", i>> \in written[t] \/ (t = Db!Tx(p) /\ i = Db!Call(p).id)
                 /\ i = Db!Call(p).id => <<"notes", i>> \notin written[t]
      BY <1>0, <1>2 DEF StoreTypes, NoteOf
    <2> QED BY <1>0, <1>2, <2>1 DEF Exclusive, Untouched
  <1>3. CASE Db!Apply(Db!Tx(p)) /\ status[p] = "running" /\ pc[p] = "commit"
    <2>1. /\ notes' = notes \cup {"ok-1"}
          /\ written' = [written EXCEPT ![Db!Tx(p)] = {}]
          /\ \A t \in Db!Transactions : t # Db!Tx(p) => <<"notes", "ok-1">> \notin written[t]
      BY <1>3, Committing
    <2>2. ASSUME NEW t \in Db!Transactions, NEW i \in Db!Ids, <<"notes", i>> \in written'[t]
          PROVE  <<"notes", i>> \in written[t] /\ i # "ok-1"
      BY <1>0, <2>1, <2>2 DEF StoreTypes
    <2> QED BY <1>0, <2>1, <2>2 DEF Exclusive
  <1> QED BY <1>1, <1>2, <1>3, Effects

(* A step is its own process's: the others stay where they are, and so do  *)
(* their transactions.                                                     *)
LEMMA Alone ==
  ASSUME AuditInv, NEW p \in Db!Processes, Db!Step(p), NEW q \in Db!Processes, q # p
  PROVE  /\ at'[q] = at[q] /\ pc'[q] = pc[q] /\ err'[q] = err[q] /\ status'[q] = status[q]
         /\ \A i \in 1..4 : written'[<<q, i>>] = written[<<q, i>>]
  <1>1. PlaceTypes /\ EndTypes /\ StoreTypes
    BY AtomicParts DEF AuditInv
  <1>2. at'[q] = at[q] /\ pc'[q] = pc[q] /\ err'[q] = err[q] /\ status'[q] = status[q]
    BY <1>1 DEF Db!Step, Db!Begin, Db!InsertNote, Db!DuplicateNote, Db!InsertAudit, Db!CheckFails,
                Db!Commit, Db!CommitAnswerLost, Db!StatementFails, Db!BeginFails, Db!Rollback,
                Db!Returned, Db!Query, Db!QueryFails, Db!Crash, PlaceTypes, EndTypes, Db!Goto,
                Db!Failed, Db!NextCall, Db!End
  <1>3. ASSUME NEW i \in 1..4 PROVE <<q, i>> \in Db!Transactions /\ <<q, i>> # Db!Tx(p)
    BY DEF Db!Transactions, Db!Tx
  <1>4. \/ written' = written
        \/ \E s : written' = [written EXCEPT ![Db!Tx(p)] = s]
    BY Effects DEF Db!Apply
  <1> QED BY <1>1, <1>2, <1>3, <1>4 DEF StoreTypes

(* What the process of a step has written after it. *)
LEMMA OwnWrites ==
  ASSUME AuditInv, NEW p \in Db!Processes, Db!Step(p)
  PROVE  Written(p)' /\ NotYet(p)'
  <1>0. /\ PlaceTypes /\ EndTypes /\ StoreTypes /\ Written(p) /\ NotYet(p)
        /\ at[p] \in 1..4 /\ Db!Tx(p) \in Db!Transactions
    BY AtomicParts, Calls DEF AuditInv, Placed, Writes, Later
  <1>1. CASE at' = at
    <2>1. Db!Tx(p)' = Db!Tx(p) /\ Db!Call(p)' = Db!Call(p) /\ NoteOf(p)' = NoteOf(p) /\ AuditOf(p)' = AuditOf(p)
      BY <1>1 DEF Db!Tx, Db!Call, NoteOf, AuditOf
    <2>2. NotYet(p)'
      <3>1. ASSUME NEW i \in 1..4, i > at[p] PROVE <<p, i>> \in Db!Transactions /\ <<p, i>> # Db!Tx(p)
        BY <1>0, <3>1 DEF Db!Transactions, Db!Tx
      <3>2. \/ written' = written
            \/ \E s : written' = [written EXCEPT ![Db!Tx(p)] = s]
        BY Effects DEF Db!Apply
      <3> QED BY <1>0, <1>1, <3>1, <3>2 DEF StoreTypes, NotYet
    <2>3. Written(p)'
      <3>1. CASE Db!InsertNote(p)
        BY <1>0, <2>1, <3>1 DEF Db!InsertNote, Db!Goto, Db!Write, Written, PlaceTypes, StoreTypes,
                                NoteOf
      <3>2. CASE Db!InsertAudit(p)
        BY <1>0, <2>1, <3>2 DEF Db!InsertAudit, Db!Goto, Db!Write, Written, PlaceTypes, StoreTypes,
                                NoteOf, AuditOf
      <3>3. CASE Db!Begin(p)
        BY <1>0, <2>1, <3>3 DEF Db!Begin, Db!Goto, Written, PlaceTypes, Db!db
      <3>4. CASE \/ Db!DuplicateNote(p) \/ Db!CheckFails(p) \/ Db!StatementFails(p) \/ Db!BeginFails(p)
                 \/ Db!Commit(p) \/ Db!CommitAnswerLost(p) \/ Db!Rollback(p)
        <4>1. pc'[p] \in {"rollback", "return"}
          BY <1>0, <3>4 DEF Db!DuplicateNote, Db!CheckFails, Db!StatementFails, Db!BeginFails,
                            Db!Commit, Db!CommitAnswerLost, Db!Rollback, Db!Goto, PlaceTypes
        <4> QED BY <4>1 DEF Written
      <3>5. CASE Db!Returned(p) \/ Db!Query(p) \/ Db!QueryFails(p) \/ Db!Crash(p)
        <4>1. ~Db!NextCall(p)
          BY <1>0, <1>1 DEF Db!NextCall, PlaceTypes
        <4>2. status'[p] # "running"
          BY <1>0, <3>5, <4>1 DEF Db!Returned, Db!Query, Db!QueryFails, Db!Crash, Db!End, EndTypes
        <4> QED BY <4>2 DEF Written
      <3> QED BY <3>1, <3>2, <3>3, <3>4, <3>5 DEF Db!Step
    <2> QED BY <2>2, <2>3
  <1>2. CASE Db!NextCall(p) /\ written' = written
    <2>1. at'[p] = at[p] + 1 /\ at'[p] \in 1..4 /\ pc'[p] = "call"
      BY <1>0, <1>2, Placing DEF Db!NextCall, PlaceTypes
    <2>2. written'[<<p, at'[p]>>] = {}
      BY <1>0, <1>2, <2>1 DEF NotYet
    <2>3. NotYet(p)'
      BY <1>0, <1>2, <2>1 DEF NotYet
    <2> QED BY <2>1, <2>2, <2>3 DEF Written, Db!Tx
  <1>3. at' = at \/ (Db!NextCall(p) /\ written' = written)
    BY DEF Db!Step, Db!Begin, Db!InsertNote, Db!DuplicateNote, Db!InsertAudit, Db!CheckFails,
           Db!Commit, Db!CommitAnswerLost, Db!StatementFails, Db!BeginFails, Db!Rollback,
           Db!Returned, Db!Query, Db!QueryFails, Db!Crash, Db!End, Db!db
  <1> QED BY <1>1, <1>2, <1>3

(* nil means that the note is there. *)
LEMMA OwnVerdict ==
  ASSUME AuditInv, NEW p \in Db!Processes, Db!Step(p)
  PROVE  Verdict(p)'
  <1>0. /\ PlaceTypes /\ EndTypes /\ Verdict(p) /\ notes \subseteq notes'
    BY AtomicParts, Tables DEF AuditInv, Verdicts
  <1>1. CASE Db!Commit(p)
    <2>1. Db!Call(p).id \in notes'
      BY <1>1, Committing DEF Db!Commit, Db!Goto
    <2>2. Db!Call(p).actor = Db!Short /\ Db!Call(p)' = Db!Call(p)
      BY <1>1 DEF AuditInv, Writes, Written, Db!Commit, Db!Goto, Db!Call
    <2> QED BY <1>0, <1>1, <2>1, <2>2 DEF Db!Commit, Db!Goto, Verdict, PlaceTypes
  <1>2. CASE \/ Db!DuplicateNote(p) \/ Db!CheckFails(p) \/ Db!StatementFails(p) \/ Db!BeginFails(p)
             \/ Db!CommitAnswerLost(p)
    <2>1. err'[p]
      BY <1>0, <1>2 DEF Db!DuplicateNote, Db!CheckFails, Db!StatementFails, Db!BeginFails,
                        Db!CommitAnswerLost, Db!Failed, EndTypes
    <2> QED BY <2>1 DEF Verdict
  <1>3. CASE Db!Rollback(p)
    <2>1. err'[p]
      BY <1>0, <1>3 DEF Db!Rollback, Db!Goto, Verdict
    <2> QED BY <2>1 DEF Verdict
  <1>4. CASE Db!Begin(p) \/ Db!InsertNote(p) \/ Db!InsertAudit(p)
    BY <1>0, <1>4 DEF Db!Begin, Db!InsertNote, Db!InsertAudit, Db!Goto, Verdict, PlaceTypes
  <1>5. CASE Db!Returned(p) \/ Db!Query(p) \/ Db!QueryFails(p) \/ Db!Crash(p)
    <2>1. notes' = notes /\ err' = err /\ (Db!NextCall(p) \/ UNCHANGED <<at, pc>>)
      BY <1>5 DEF Db!Returned, Db!Query, Db!QueryFails, Db!Crash, Db!End, Db!db
    <2> QED BY <1>0, <2>1 DEF Verdict, Db!NextCall, PlaceTypes, Db!Call
  <1> QED BY <1>1, <1>2, <1>3, <1>4, <1>5 DEF Db!Step

LEMMA StepKeeps ==
  ASSUME AuditInv, MaxFaults \in Nat, NEW p \in Db!Processes, Db!Step(p)
  PROVE  AuditInv'
  <1>1. StoreTypes' /\ PlaceTypes' /\ EndTypes' /\ Paired' /\ OnlyGood' /\ Told' /\ StayedGood'
    BY Placing, Ending, Tables, GoodNotes
  <1>2. Db!Atomic'
    BY <1>1, AtomicParts DEF Db!Atomic, Db!TypeOK, StoreTypes, PlaceTypes, EndTypes, Paired,
                             OnlyGood, Told, StayedGood
  <1>3. ASSUME NEW q \in Db!Processes, q # p
        PROVE  Written(q)' /\ NotYet(q)' /\ Verdict(q)'
    <2>1. /\ at'[q] = at[q] /\ pc'[q] = pc[q] /\ err'[q] = err[q] /\ status'[q] = status[q]
          /\ \A i \in 1..4 : written'[<<q, i>>] = written[<<q, i>>]
      BY <1>3, Alone
    <2>2. /\ Written(q) /\ NotYet(q) /\ Verdict(q) /\ notes \subseteq notes'
          /\ at[q] \in 1..4
      BY Tables, Calls DEF AuditInv, Placed, Writes, Later, Verdicts
    <2>3. /\ Db!Call(q)' = Db!Call(q) /\ NoteOf(q)' = NoteOf(q) /\ AuditOf(q)' = AuditOf(q)
          /\ Db!Tx(q)' = Db!Tx(q) /\ Db!Tx(q) = <<q, at[q]>>
      BY <2>1 DEF Db!Call, NoteOf, AuditOf, Db!Tx
    <2>4. written'[Db!Tx(q)'] = written[Db!Tx(q)]
      BY <2>1, <2>2, <2>3
    <2>5. Written(q)'
      BY <2>1, <2>2, <2>3, <2>4 DEF Written
    <2>6. NotYet(q)'
      BY <2>1, <2>2 DEF NotYet
    <2>7. Verdict(q)'
      BY <2>1, <2>2, <2>3 DEF Verdict
    <2> QED BY <2>5, <2>6, <2>7
  <1>4. Writes' /\ Later' /\ Verdicts'
    BY <1>3, OwnWrites, OwnVerdict DEF Writes, Later, Verdicts
  <1> QED BY <1>2, <1>4, Placing, OneWriter DEF AuditInv

(* The server's own rollback takes only what nobody works on any more. *)
LEMMA ReapKeeps ==
  ASSUME AuditInv, NEW p \in Db!Processes, NEW i \in 1..4, Db!Reap(p, i)
  PROVE  AuditInv'
  <1>0. StoreTypes /\ <<p, i>> \in Db!Transactions
    BY AtomicParts DEF AuditInv, Db!Transactions
  <1>1. \A t \in Db!Transactions : written'[t] = IF t = <<p, i>> THEN {} ELSE written[t]
    BY <1>0 DEF Db!Reap, StoreTypes
  <1>2. Db!Atomic'
    <2>1. written' \in [Db!Transactions -> SUBSET ({"notes", "audit"} \X Db!Ids)]
      BY <1>0 DEF Db!Reap, StoreTypes
    <2> QED BY <2>1 DEF AuditInv, Db!Atomic, Db!TypeOK, Db!Reap
  <1>3. ASSUME NEW q \in Db!Processes PROVE Written(q)' /\ NotYet(q)' /\ Verdict(q)' /\ Creates(q)' = Creates(q)
    <2>1. /\ Written(q) /\ NotYet(q) /\ Verdict(q) /\ at[q] \in 1..4
      BY Calls DEF AuditInv, Placed, Writes, Later, Verdicts
    <2>2. /\ Db!Call(q)' = Db!Call(q) /\ NoteOf(q)' = NoteOf(q) /\ AuditOf(q)' = AuditOf(q)
          /\ Db!Tx(q)' = Db!Tx(q) /\ Db!Tx(q) = <<q, at[q]>> /\ Creates(q)' = Creates(q)
      BY DEF Db!Reap, Db!Call, NoteOf, AuditOf, Db!Tx, Creates
    <2>3. \A j \in 1..4 : <<q, j>> \in Db!Transactions
      BY DEF Db!Transactions
    <2>4. NotYet(q)'
      BY <1>1, <2>1, <2>3 DEF NotYet, Db!Reap
    <2>5. CASE Db!Tx(q) = <<p, i>>
      <3>1. q = p /\ at[p] = i
        BY <2>2, <2>5
      <3>2. status[q] # "running" \/ pc[q] = "return"
        BY <3>1 DEF Db!Reap
      <3> QED BY <2>1, <2>2, <2>4, <3>2 DEF Written, Verdict, Db!Reap
    <2>6. CASE Db!Tx(q) # <<p, i>>
      <3>1. written'[Db!Tx(q)'] = written[Db!Tx(q)]
        BY <1>1, <2>1, <2>2, <2>3, <2>6
      <3> QED BY <2>1, <2>2, <2>4, <3>1 DEF Written, Verdict, Db!Reap
    <2> QED BY <2>5, <2>6
  <1>4. Exclusive'
    <2>1. ASSUME NEW t \in Db!Transactions, NEW k \in Db!Ids, <<"notes", k>> \in written'[t]
          PROVE  <<"notes", k>> \in written[t]
      BY <1>1, <2>1
    <2> QED BY <2>1 DEF AuditInv, Exclusive, Db!Reap
  <1>5. Placed'
    BY <1>3 DEF AuditInv, Placed, Db!Reap
  <1> QED BY <1>2, <1>3, <1>4, <1>5 DEF AuditInv, Writes, Later, Verdicts

(* So AuditInv is inductive. *)
LEMMA AuditStep == ASSUME MaxFaults \in Nat, AuditInv, [Db!Next]_(Db!vars) PROVE AuditInv'
  <1>1. CASE UNCHANGED Db!vars
    <2>0. /\ notes' = notes /\ audits' = audits /\ written' = written /\ at' = at
          /\ pc' = pc /\ err' = err /\ status' = status /\ faults' = faults
      BY <1>1 DEF Db!vars, Db!db
    <2>1. Db!Atomic'
      BY <2>0 DEF AuditInv, Db!Atomic, Db!TypeOK
    <2>2. ASSUME NEW q \in Db!Processes
          PROVE  Written(q)' /\ NotYet(q)' /\ Verdict(q)' /\ Creates(q)' = Creates(q)
      <3>1. Written(q) /\ NotYet(q) /\ Verdict(q)
        BY DEF AuditInv, Writes, Later, Verdicts
      <3>2. /\ Db!Call(q)' = Db!Call(q) /\ NoteOf(q)' = NoteOf(q) /\ AuditOf(q)' = AuditOf(q)
            /\ Db!Tx(q)' = Db!Tx(q) /\ Creates(q)' = Creates(q)
        BY <2>0 DEF Db!Call, NoteOf, AuditOf, Db!Tx, Creates
      <3> QED BY <2>0, <3>1, <3>2 DEF Written, NotYet, Verdict
    <2>3. Placed' /\ Exclusive'
      BY <2>0, <2>2 DEF AuditInv, Placed, Exclusive
    <2> QED BY <2>1, <2>2, <2>3 DEF AuditInv, Writes, Later, Verdicts
  <1>2. CASE Db!Next
    BY <1>1, <1>2, StepKeeps, ReapKeeps DEF Db!Next, Db!Finished
  <1> QED BY <1>1, <1>2

(* The invariant of createWithAudit holds, whatever fails or dies.         *)
THEOREM AuditInvariance == ASSUME MaxFaults \in Nat PROVE Db!Spec => []AuditInv
  <1>1. Db!Init => AuditInv
    BY AuditInit
  <1>2. AuditInv /\ [Db!Next]_(Db!vars) => AuditInv'
    BY AuditStep
  <1> QED BY <1>1, <1>2, PTL DEF Db!Spec

LEMMA AuditTells == ASSUME AuditInv PROVE Db!Atomic
  BY DEF AuditInv

(* createWithAudit is atomic, however many programs and tests run at once  *)
(* and whatever fails or dies: a note has exactly one audit row, no note   *)
(* of a rejected call is ever seen, and the note of a call that returned   *)
(* nil stays.                                                              *)
THEOREM AuditAtomic ==
  ASSUME MaxFaults \in Nat
  PROVE  /\ Db!Spec => []Db!Atomic
         /\ Spec => []Atomic
  <1> DEFINE Inv == program = "audit" => AuditInv
  <1>1. AuditInv => Db!Atomic
    BY AuditTells
  <1>2. Inv => Atomic
    BY AuditTells DEF Atomic
  <1>3. Init => Inv
    BY Begun, AuditInit
  <1>4. Inv /\ [Next]_vars => Inv'
    BY GoesOn, AuditStep
  <1> QED BY <1>1, <1>2, <1>3, <1>4, AuditInvariance, PTL DEF Spec

-----------------------------------------------------------------------------
(* newPool.  At each place of main the pool is as that place wants it, and *)
(* the ping is the only connection beyond the pool's first ones.           *)
PoolAt == /\ main \in {"parse", "create"} => pool = "none" /\ toOpen = 0 /\ dialing = 0
          /\ main \in {"ping", "run"} => pool = "open"
          /\ main \in {"close", "deferred"} => pool = "closing"
          /\ main \in {"failed", "done"} => pool \in {"none", "closed"} /\ dialing = 0
          /\ main # "ping" => ping = "none"
          /\ pool # "open" => idle = 0
Beyond == IF main = "ping" /\ ping = "none" THEN 0 ELSE IF ping = "none" THEN 1 ELSE 0
Conns == /\ toOpen + dialing <= Pg!MinConns
         /\ toOpen + dialing + idle <= Pg!MinConns + Beyond

PoolInv == Pg!TypeOK /\ PoolAt /\ Conns

(* Nothing happens to the pool that PoolInv does not foresee. *)
LEMMA PoolInit == ASSUME Pg!Init PROVE PoolInv
  BY DEF Pg!MinConns, Pg!Init, PoolInv, Pg!TypeOK, PoolAt, Conns, Beyond

LEMMA PoolStep == ASSUME PoolInv, [Pg!Next]_(Pg!vars) PROVE PoolInv'
  <1> USE DEF Pg!MinConns, Pg!MaxConns
  <1> USE DEF PoolInv, Pg!TypeOK, PoolAt, Conns, Beyond, Pg!Goes, Pg!conns
  <1>1. CASE Pg!Refused \/ Pg!ParseConfig
    BY <1>1 DEF Pg!Refused, Pg!ParseConfig
  <1>2. CASE Pg!NewWithConfig
    BY <1>2 DEF Pg!NewWithConfig
  <1>3. CASE Pg!PingAcquire
    BY <1>3 DEF Pg!PingAcquire
  <1>4. CASE Pg!PingDialled
    BY <1>4 DEF Pg!PingDialled
  <1>5. CASE Pg!PingOk
    BY <1>5 DEF Pg!PingOk
  <1>6. CASE Pg!PingFails
    BY <1>6 DEF Pg!PingFails
  <1>7. CASE Pg!Closed
    BY <1>7 DEF Pg!Closed
  <1>8. CASE Pg!Run
    BY <1>8 DEF Pg!Run
  <1>9. CASE Pg!Dial
    BY <1>9 DEF Pg!Dial
  <1>10. CASE Pg!Dialled
    BY <1>10 DEF Pg!Dialled
  <1>11. CASE Pg!DialFails
    BY <1>11 DEF Pg!DialFails
  <1>12. CASE UNCHANGED Pg!vars
    BY <1>12 DEF Pg!vars
  <1> QED BY <1>1, <1>2, <1>3, <1>4, <1>5, <1>6, <1>7, <1>8, <1>9, <1>10, <1>11, <1>12
          DEF Pg!Next, Pg!Finished

(* The invariant of newPool and its pool holds.                            *)
THEOREM PoolInvariance == Pg!Spec => []PoolInv
  <1>1. Pg!Init => PoolInv
    BY PoolInit
  <1>2. PoolInv /\ [Pg!Next]_(Pg!vars) => PoolInv'
    BY PoolStep
  <1> QED BY <1>1, <1>2, PTL DEF Pg!Spec

LEMMA PoolTells == ASSUME PoolInv PROVE Pg!PoolOwned
  BY DEF PoolInv, PoolAt, Pg!PoolOwned

(* newPool hands over an open pool nobody pings any more, or leaves no     *)
(* pool and no connection behind.                                          *)
THEOREM PoolHandedOver ==
  /\ Pg!Spec => []Pg!PoolOwned
  /\ Spec => []PoolOwned
  <1> DEFINE Inv == program = "pool" => PoolInv
  <1>1. PoolInv => Pg!PoolOwned
    BY PoolTells
  <1>2. Inv => PoolOwned
    BY PoolTells DEF PoolOwned
  <1>3. Init => Inv
    BY Begun, PoolInit
  <1>4. Inv /\ [Next]_vars => Inv'
    BY GoesOn, PoolStep
  <1> QED BY <1>1, <1>2, <1>3, <1>4, PoolInvariance, PTL DEF Spec

-----------------------------------------------------------------------------
(* The item service.  A created item is there once it is in the map. *)
Seen == INSTANCE ItemStore
          WITH Requests <- Clients, Ids <- Numbers,
               answer <- [r \in Clients |-> IF pc[r] = "store" THEN Item!None ELSE answer[r]]

\* There is an ID for each request that asks for one.
Enough == IsFiniteSet(Clients) /\ 1..Cardinality(Clients) \subseteq Numbers

Locked == {"increment", "mint", "store", "unlock"}
ItemTypes == /\ kind \in [Clients -> Item!Kinds]
             /\ pc \in [Clients -> Locked \cup {"begin", "lock", "read", "runlock", "write", "done"}]
             /\ answer = [r \in Clients |-> answer[r]]
             /\ seq \in Nat

\* One request at a time holds the write lock.
Locks == /\ writer = {r \in Clients : pc[r] \in Locked}
         /\ \A r, q \in writer : r = q

Pending == \A r \in Clients : pc[r] \in {"begin", "lock", "increment", "mint", "read"}
                                 => answer[r] = Item!None

\* seq counts the requests that have got a number, and the map has the items
\* under all of them but the one that is being created.
Numbered == {r \in Clients : pc[r] = "mint" \/ answer[r].status = 201}
Creating(r) == pc[r] \in {"mint", "store"}
Serial == /\ seq = Cardinality(Numbered)
          /\ (\A r \in Clients : ~Creating(r)) => DOMAIN items = 1..seq
          /\ \A r \in Clients : Creating(r) => seq > 0 /\ DOMAIN items = 1..(seq - 1)
          /\ \A r \in Clients : pc[r] = "store" => answer[r] = Item!Promise!Created(r, seq)

Asked == \A r \in Clients : pc[r] = "read" => kind[r].id \in Numbers

ItemInv == ItemTypes /\ Locks /\ Pending /\ Asked /\ Serial

LEMMA ItemStatuses == /\ Item!None.status = 0
                      /\ \A c : Item!Promise!Failure(c).status = c
                      /\ \A r, i : /\ Item!Promise!Created(r, i).status = 201
                                   /\ Item!Promise!Created(r, i).id = i
                                   /\ Item!Promise!Found(r, i).status = 200
  BY DEF Item!None, Item!Promise!None, Item!Promise!Failure, Item!Promise!Created, Item!Promise!Found

LEMMA ItemInit == ASSUME Item!Init PROVE ItemInv
  <1>1. Numbered = {}
    BY ItemStatuses DEF Item!Init, Numbered
  <1>2. seq = Cardinality(Numbered) /\ seq = 0 /\ DOMAIN items = 1..seq
    BY <1>1, FS_EmptySet DEF Item!Init, Item!NoItems
  <1>3. ItemTypes
    BY DEF Item!Init, ItemTypes, Locked
  <1>4. Locks /\ Pending /\ Asked
    BY DEF Item!Init, Locks, Locked, Pending, Asked
  <1>5. Serial
    BY <1>2 DEF Item!Init, Serial, Creating
  <1> QED BY <1>3, <1>4, <1>5 DEF ItemInv

(* The steps that neither number a request nor touch the map. *)
Answering(r) == \/ Item!BadRequest(r) \/ Item!Validation(r) \/ Item!Read(r)
Passing(r) == \/ Item!Decode(r) \/ Item!Lock(r) \/ Item!Unlock(r)
              \/ Item!RLock(r) \/ Item!RUnlock(r) \/ Item!Write(r)

LEMMA ItemPlain ==
  ASSUME ItemInv, NEW r \in Clients, Answering(r) \/ Passing(r)
  PROVE  ItemInv'
  <1>0. /\ pc \in [Clients -> Locked \cup {"begin", "lock", "read", "runlock", "write", "done"}]
        /\ answer = [q \in Clients |-> answer[q]]
    BY DEF ItemInv, ItemTypes
  <1>1. UNCHANGED <<kind, seq, items>>
    BY DEF Answering, Passing, Item!BadRequest, Item!Validation, Item!Read,
       Item!Decode, Item!Lock, Item!Unlock, Item!RLock, Item!RUnlock, Item!Write, Item!store
  <1>2. \E from, to \in Locked \cup {"begin", "lock", "read", "runlock", "write", "done"} :
           /\ pc[r] = from /\ pc' = [pc EXCEPT ![r] = to]
           /\ ~(from \in {"mint", "store"}) /\ ~(to \in {"mint", "store"})
    BY DEF Answering, Passing, Item!BadRequest, Item!Validation, Item!Read,
       Item!Decode, Item!Lock, Item!Unlock, Item!RLock, Item!RUnlock, Item!Write, Item!Goto, Locked
  <1>3. \/ answer' = answer
        \/ /\ answer[r] = Item!None
           /\ \E a : a.status # 201 /\ answer' = [answer EXCEPT ![r] = a]
    <2>1. CASE Answering(r)
      <3>1. pc[r] \in {"begin", "read"}
        BY <2>1 DEF Answering, Item!BadRequest, Item!Validation, Item!Read, Item!Goto
      <3>2. answer[r] = Item!None
        BY <3>1 DEF ItemInv, Pending
      <3>3. \/ Item!Answer(r, Item!Promise!Failure(400))
            \/ Item!Answer(r, Item!Promise!Failure(422))
            \/ Item!Answer(r, Item!Promise!Failure(404))
            \/ \E q, i : Item!Answer(r, Item!Promise!Found(q, i))
        BY <2>1 DEF Answering, Item!BadRequest, Item!Validation, Item!Read
      <3>4. \E a : Item!Answer(r, a) /\ a.status # 201
        BY <3>3, ItemStatuses
      <3> QED BY <3>2, <3>4 DEF Item!Answer
    <2>2. CASE Passing(r)
      BY <2>2 DEF Passing, Item!Decode, Item!Lock, Item!Unlock, Item!RLock, Item!RUnlock, Item!Write
    <2> QED BY <2>1, <2>2
  <1>4. ItemTypes'
    BY <1>0, <1>1, <1>2, <1>3 DEF ItemInv, ItemTypes
  <1>5. Locks'
    <2>1. CASE Item!Lock(r)
      BY <1>0, <2>1 DEF Item!Lock, Item!Goto, ItemInv, Locks, Locked
    <2>2. CASE Item!Unlock(r)
      BY <1>0, <2>2 DEF Item!Unlock, Item!Goto, ItemInv, Locks, Locked
    <2>3. CASE Answering(r) \/ Item!Decode(r) \/ Item!RLock(r) \/ Item!RUnlock(r) \/ Item!Write(r)
      <3>1. /\ writer' = writer
            /\ \E to : pc[r] \notin Locked /\ to \notin Locked /\ pc' = [pc EXCEPT ![r] = to]
        BY <2>3 DEF Answering, Item!BadRequest, Item!Validation, Item!Read, Item!Decode,
           Item!RLock, Item!RUnlock, Item!Write, Item!Goto, Item!store, Locked
      <3>2. \A q \in Clients : pc'[q] \in Locked <=> pc[q] \in Locked
        BY <1>0, <3>1
      <3> QED BY <3>1, <3>2 DEF ItemInv, Locks
    <2> QED BY <2>1, <2>2, <2>3 DEF Passing
  <1>6. Pending'
    <2>1. \A q \in Clients : q # r => pc'[q] = pc[q] /\ answer'[q] = answer[q]
      BY <1>0, <1>2, <1>3
    <2>2. pc'[r] \in {"begin", "lock", "increment", "mint", "read"} =>
            pc[r] \in {"begin", "lock"} /\ answer' = answer
      <3>1. Answering(r) => pc'[r] \in {"write", "runlock"}
        BY <1>0 DEF Answering, Item!BadRequest, Item!Validation, Item!Read, Item!Goto
      <3>2. Item!Unlock(r) \/ Item!RUnlock(r) \/ Item!Write(r) => pc'[r] \in {"write", "done"}
        BY <1>0 DEF Item!Unlock, Item!RUnlock, Item!Write, Item!Goto
      <3>3. Item!Decode(r) \/ Item!Lock(r) \/ Item!RLock(r) => pc[r] \in {"begin", "lock"} /\ answer' = answer
        BY DEF Item!Decode, Item!Lock, Item!RLock, Item!Goto
      <3> QED BY <3>1, <3>2, <3>3 DEF Passing
    <2> QED BY <2>1, <2>2 DEF ItemInv, Pending
  <1>7. \A q \in Clients : /\ Creating(q)' <=> Creating(q)
                           /\ pc'[q] = "store" <=> pc[q] = "store"
                           /\ pc'[q] = "store" => answer'[q] = answer[q]
                           /\ pc'[q] = "mint" \/ answer'[q].status = 201
                                <=> pc[q] = "mint" \/ answer[q].status = 201
    BY <1>0, <1>2, <1>3, ItemStatuses DEF Creating
  <1>8. Numbered' = Numbered
    BY <1>7 DEF Numbered
  <1>9. Serial'
    BY <1>1, <1>7, <1>8 DEF ItemInv, Serial
  <1>10. Asked'
    <2>1. \A q \in Clients : q # r => pc'[q] = pc[q]
      BY <1>0, <1>2
    <2>2. pc'[r] = "read" => kind[r].id \in Numbers
      <3>1. kind[r].op = "GET" => kind[r].id \in Numbers
        BY DEF ItemInv, ItemTypes, Item!Kinds
      <3>2. pc'[r] = "read" => Item!RLock(r)
        BY <1>0 DEF Answering, Passing, Item!BadRequest, Item!Validation, Item!Read,
           Item!Decode, Item!Lock, Item!Unlock, Item!RUnlock, Item!Write, Item!Goto
      <3> QED BY <3>1, <3>2 DEF Item!RLock
    <2> QED BY <1>1, <2>1, <2>2 DEF ItemInv, Asked
  <1> QED BY <1>4, <1>5, <1>6, <1>9, <1>10 DEF ItemInv

(* A number is taken, and the item goes into the map, under the lock. *)
LEMMA ItemAlone ==
  ASSUME ItemInv, NEW r \in Clients, pc[r] \in Locked, NEW q \in Clients, q # r
  PROVE  pc[q] \notin Locked /\ ~Creating(q)
  BY DEF ItemInv, Locks, Locked, Creating

LEMMA ItemIncrement ==
  ASSUME ItemInv, Enough, NEW r \in Clients, Item!Increment(r)
  PROVE  ItemInv'
  <1>0. /\ pc \in [Clients -> Locked \cup {"begin", "lock", "read", "runlock", "write", "done"}]
        /\ pc[r] = "increment" /\ pc' = [pc EXCEPT ![r] = "mint"] /\ seq' = seq + 1
        /\ UNCHANGED <<kind, writer, readers, items, answer>> /\ seq \in Nat
    BY DEF ItemInv, ItemTypes, Item!Increment, Item!Goto
  <1>1. answer[r] = Item!None
    BY <1>0 DEF ItemInv, Pending
  <1>2. r \notin Numbered /\ Numbered' = Numbered \cup {r}
    BY <1>0, <1>1, ItemStatuses DEF Numbered
  <1>3. seq' = Cardinality(Numbered')
    <2>1. IsFiniteSet(Numbered)
      BY FS_Subset DEF Enough, Numbered
    <2>2. Cardinality(Numbered \cup {r}) = Cardinality(Numbered) + 1
      BY <1>2, <2>1, FS_AddElement
    <2> QED BY <1>0, <1>2, <2>2 DEF ItemInv, Serial
  <1>4. \A q \in Clients : q # r => pc[q] \notin Locked /\ ~Creating(q) /\ pc'[q] = pc[q]
    BY <1>0, ItemAlone DEF Locked
  <1>5. DOMAIN items = 1..seq
    <2>1. ~Creating(r)
      BY <1>0 DEF Creating
    <2> QED BY <1>4, <2>1 DEF ItemInv, Serial
  <1>6. pc'[r] = "mint" /\ seq' > 0 /\ seq' - 1 = seq
    BY <1>0
  <1>7. Serial'
    <2>1. \A q \in Clients : Creating(q)' <=> q = r
      BY <1>4, <1>6 DEF Creating
    <2>2. \A q \in Clients : pc'[q] # "store"
      BY <1>4, <1>6 DEF Locked
    <2> QED BY <1>0, <1>3, <1>5, <1>6, <2>1, <2>2 DEF Serial
  <1>8. ItemTypes' /\ Locks' /\ Pending' /\ Asked'
    BY <1>0 DEF ItemInv, ItemTypes, Locks, Locked, Pending, Asked
  <1> QED BY <1>7, <1>8 DEF ItemInv

LEMMA ItemMint ==
  ASSUME ItemInv, NEW r \in Clients, Item!Mint(r)
  PROVE  ItemInv'
  <1>0. /\ pc \in [Clients -> Locked \cup {"begin", "lock", "read", "runlock", "write", "done"}]
        /\ answer = [q \in Clients |-> answer[q]]
        /\ pc[r] = "mint" /\ pc' = [pc EXCEPT ![r] = "store"]
        /\ answer' = [answer EXCEPT ![r] = Item!Promise!Created(r, seq)]
        /\ UNCHANGED <<kind, writer, readers, seq, items>>
    BY DEF ItemInv, ItemTypes, Item!Mint, Item!Goto, Item!Answer, Item!store
  <1>1. answer'[r] = Item!Promise!Created(r, seq) /\ answer'[r].status = 201 /\ pc'[r] = "store"
    BY <1>0, ItemStatuses
  <1>2. \A q \in Clients : q # r => answer'[q] = answer[q] /\ pc'[q] = pc[q] /\ pc[q] \notin Locked
    BY <1>0, ItemAlone DEF Locked
  <1>3. Numbered' = Numbered
    BY <1>0, <1>1, <1>2 DEF Numbered
  <1>4. \A q \in Clients : /\ Creating(q)' <=> Creating(q)
                           /\ pc'[q] = "store" => q = r
    BY <1>0, <1>1, <1>2 DEF Creating, Locked
  <1>5. Serial'
    BY <1>0, <1>1, <1>3, <1>4 DEF ItemInv, Serial
  <1>6. ItemTypes' /\ Locks' /\ Pending' /\ Asked'
    <2>1. ItemTypes'
      BY <1>0 DEF ItemInv, ItemTypes, Locked
    <2>2. Locks'
      BY <1>0 DEF ItemInv, Locks, Locked
    <2>3. Pending'
      BY <1>0, <1>1, <1>2 DEF ItemInv, Pending
    <2>4. Asked'
      BY <1>0, <1>1, <1>2 DEF ItemInv, Asked
    <2> QED BY <2>1, <2>2, <2>3, <2>4
  <1> QED BY <1>5, <1>6 DEF ItemInv

LEMMA ItemStored ==
  ASSUME ItemInv, NEW r \in Clients, Item!Store(r)
  PROVE  ItemInv'
  <1>0. /\ pc \in [Clients -> Locked \cup {"begin", "lock", "read", "runlock", "write", "done"}]
        /\ pc[r] = "store" /\ pc' = [pc EXCEPT ![r] = "unlock"]
        /\ UNCHANGED <<kind, writer, readers, seq, answer>> /\ seq \in Nat
    BY DEF ItemInv, ItemTypes, Item!Store, Item!Goto
  <1>1. answer[r] = Item!Promise!Created(r, seq) /\ seq > 0 /\ DOMAIN items = 1..(seq - 1)
    BY <1>0 DEF ItemInv, Serial, Creating
  <1>2. answer[r].id = seq /\ answer[r].status = 201
    BY <1>1, ItemStatuses
  <1>3. DOMAIN items' = 1..seq
    <2>1. DOMAIN items' = DOMAIN items \cup {seq}
      BY <1>2 DEF Item!Store
    <2> QED BY <1>0, <1>1, <2>1
  <1>4. \A q \in Clients : q # r => pc'[q] = pc[q] /\ pc[q] \notin Locked
    BY <1>0, ItemAlone DEF Locked
  <1>5. Numbered' = Numbered
    BY <1>0, <1>2, <1>4 DEF Numbered
  <1>6. \A q \in Clients : ~Creating(q)' /\ pc'[q] # "store"
    BY <1>0, <1>4 DEF Creating, Locked
  <1>7. Serial'
    BY <1>0, <1>3, <1>5, <1>6 DEF ItemInv, Serial
  <1>8. ItemTypes' /\ Locks' /\ Pending' /\ Asked'
    BY <1>0 DEF ItemInv, ItemTypes, Locks, Locked, Pending, Asked
  <1> QED BY <1>7, <1>8 DEF ItemInv

(* ItemInv is inductive. *)
LEMMA ItemStep == ASSUME Enough, ItemInv, [Item!Next]_(Item!vars) PROVE ItemInv'
  <1>1. CASE UNCHANGED Item!vars
    <2>1. UNCHANGED <<kind, pc, writer, readers, seq, items, answer>>
      BY <1>1 DEF Item!vars, Item!store
    <2>2. Numbered' = Numbered
      BY <2>1 DEF Numbered
    <2> QED BY <2>1, <2>2 DEF ItemInv, ItemTypes, Locks, Pending, Asked, Serial, Creating
  <1>2. CASE Item!Next
    BY <1>1, <1>2, ItemPlain, ItemIncrement, ItemMint, ItemStored
       DEF Item!Next, Item!Finished, Item!Step, Answering, Passing
  <1> QED BY <1>1, <1>2

(* The invariant of the item service holds, for any finite set of          *)
(* clients.                                                                *)
THEOREM ItemInvariance == ASSUME Enough PROVE Item!Spec => []ItemInv
  <1>1. Item!Init => ItemInv
    BY ItemInit
  <1>2. ItemInv /\ [Item!Next]_(Item!vars) => ItemInv'
    BY ItemStep
  <1> QED BY <1>1, <1>2, PTL DEF Item!Spec

\* The store with the answers a client can know of.
Mapped == [r \in Clients |-> IF pc[r] = "store" THEN Item!None ELSE answer[r]]

LEMMA SameNames == /\ Seen!None = Item!None
                   /\ \A c : Seen!Failure(c) = Item!Promise!Failure(c)
                   /\ \A r, i : /\ Seen!Created(r, i) = Item!Promise!Created(r, i)
                                /\ Seen!Found(r, i) = Item!Promise!Found(r, i)
  BY DEF Item!None, Item!Promise!None, Item!Promise!Failure, Item!Promise!Created, Item!Promise!Found,
         Seen!None, Seen!Failure, Seen!Created, Seen!Found

(* What a step that answers one request does to the mapped answers. *)
LEMMA Mapping ==
  ASSUME ItemInv, NEW r \in Clients,
         pc[r] \in {"begin", "read", "store"}, pc'[r] # "store",
         \A q \in Clients : q # r => pc'[q] = pc[q] /\ answer'[q] = answer[q]
  PROVE  Mapped[r] = Item!None /\ Mapped' = [Mapped EXCEPT ![r] = answer'[r]]
  BY DEF ItemInv, Pending, Mapped

LEMMA MappingOf ==
  ASSUME ItemInv, NEW r \in Clients, NEW from \in {"begin", "read"}, NEW to \in {"write", "runlock"},
         NEW a, pc[r] = from, pc' = [pc EXCEPT ![r] = to], answer' = [answer EXCEPT ![r] = a]
  PROVE  Mapped[r] = Item!None /\ Mapped' = [Mapped EXCEPT ![r] = a]
  <1>1. /\ answer'[r] = a /\ pc'[r] # "store"
        /\ \A q \in Clients : q # r => pc'[q] = pc[q] /\ answer'[q] = answer[q]
    BY DEF ItemInv, ItemTypes
  <1> QED BY <1>1, Mapping

(* What a step of a handler is in ItemStore. *)
LEMMA ItemSeen ==
  ASSUME Enough, ItemInv, [Item!Next]_(Item!vars)
  PROVE  [Seen!Next]_(Seen!vars)
  <1> SUFFICES Seen!Next \/ (items' = items /\ Mapped' = Mapped)
    BY DEF Seen!vars, Mapped
  <1>0. ItemTypes
    BY DEF ItemInv
  <1>1. CASE UNCHANGED Item!vars
    BY <1>1 DEF Item!vars, Item!store, Mapped
  <1>2. ASSUME NEW r \in Clients, Passing(r) \/ Item!Increment(r)
        PROVE  items' = items /\ Mapped' = Mapped
    <2>1. items' = items /\ answer' = answer
      BY <1>2 DEF Passing, Item!Decode, Item!Lock, Item!Unlock, Item!RLock, Item!RUnlock,
                  Item!Write, Item!Increment, Item!store
    <2>2. \A q \in Clients : pc'[q] = "store" <=> pc[q] = "store"
      BY <1>0, <1>2 DEF Passing, Item!Decode, Item!Lock, Item!Unlock, Item!RLock, Item!RUnlock,
                  Item!Write, Item!Increment, Item!Goto, ItemTypes
    <2> QED BY <2>1, <2>2 DEF Mapped
  <1>3. ASSUME NEW r \in Clients, Item!Mint(r)
        PROVE  items' = items /\ Mapped' = Mapped
    <2>1. pc[r] = "mint" /\ answer[r] = Item!None /\ items' = items
      BY <1>3 DEF Item!Mint, Item!Goto, Item!store, ItemInv, Pending
    <2>2. pc'[r] = "store" /\ \A q \in Clients : q # r => pc'[q] = pc[q] /\ answer'[q] = answer[q]
      BY <1>0, <1>3 DEF Item!Mint, Item!Goto, Item!Answer, ItemTypes
    <2> QED BY <2>1, <2>2 DEF Mapped
  <1>4. ASSUME NEW r \in Clients, Item!BadRequest(r) \/ Item!Validation(r)
        PROVE  Seen!Next
    <2>1. PICK c \in {400, 422} : /\ pc[r] = "begin" /\ pc' = [pc EXCEPT ![r] = "write"]
                                  /\ answer' = [answer EXCEPT ![r] = Item!Promise!Failure(c)]
                                  /\ items' = items
      BY <1>4 DEF Item!BadRequest, Item!Validation, Item!Goto, Item!store, Item!Answer
    <2>2. Mapped[r] = Item!None /\ Mapped' = [Mapped EXCEPT ![r] = Item!Promise!Failure(c)]
      BY <2>1, MappingOf
    <2>3. Mapped[r] = Seen!None /\ Mapped' = [Mapped EXCEPT ![r] = Seen!Failure(c)]
      <3>1. Item!Promise!Failure(c) = Seen!Failure(c)
        BY SameNames
      <3> QED BY <2>2, <3>1, SameNames
    <2>4. Seen!Reject(r)
      <3>1. Seen!Answer(r, Seen!Failure(c))
        BY <2>3 DEF Seen!Answer, Seen!Unanswered, Mapped
      <3> QED BY <2>1, <3>1 DEF Seen!Reject
    <2> QED BY <2>4 DEF Seen!Next
  <1>5. ASSUME NEW r \in Clients, Item!Read(r) PROVE Seen!Next
    <2>1. /\ kind[r].id \in Numbers /\ items' = items
          /\ pc[r] = "read" /\ pc' = [pc EXCEPT ![r] = "runlock"]
      BY <1>5 DEF Item!Read, Item!Goto, Item!store, ItemInv, Asked
    <2> DEFINE a == IF kind[r].id \in DOMAIN items THEN Seen!Found(items[kind[r].id], kind[r].id)
                                                   ELSE Seen!Failure(404)
    <2>2. answer' = [answer EXCEPT ![r] = a]
      BY <1>5, SameNames DEF Item!Read, Item!Answer
    <2>3. Mapped[r] = Seen!None /\ Mapped' = [Mapped EXCEPT ![r] = a]
      <3> HIDE DEF a
      <3> QED BY <2>1, <2>2, MappingOf, SameNames
    <2>4. Seen!Get(r, kind[r].id)
      BY <2>1, <2>3 DEF Seen!Get, Seen!Answer, Seen!Unanswered, Mapped
    <2> QED BY <2>1, <2>4 DEF Seen!Next
  <1>6. ASSUME NEW r \in Clients, Item!Store(r) PROVE Seen!Next
    <2>1. /\ answer[r] = Item!Promise!Created(r, seq) /\ seq > 0 /\ seq \in Nat
          /\ DOMAIN items = 1..(seq - 1)
          /\ pc[r] = "store" /\ pc' = [pc EXCEPT ![r] = "unlock"] /\ answer' = answer
      BY <1>0, <1>6 DEF Item!Store, Item!Goto, ItemInv, Serial, Creating, ItemTypes
    <2>2. seq \in Numbers
      <3>1. Cardinality(Numbered) <= Cardinality(Clients) /\ Cardinality(Clients) \in Nat
        BY FS_Subset, FS_CardinalityType DEF Enough, Numbered
      <3>2. seq \in 1..Cardinality(Clients)
        BY <2>1, <3>1 DEF ItemInv, Serial
      <3> QED BY <3>2 DEF Enough
    <2>3. seq \notin DOMAIN items
      BY <2>1
    <2>4. items' = [j \in DOMAIN items \cup {seq} |-> IF j = seq THEN r ELSE items[j]]
      BY <1>6, <2>1, ItemStatuses DEF Item!Store
    <2>5. Mapped[r] = Seen!None /\ Mapped' = [Mapped EXCEPT ![r] = Seen!Created(r, seq)]
      <3>1. /\ pc'[r] # "store"
            /\ \A q \in Clients : q # r => pc'[q] = pc[q] /\ answer'[q] = answer[q]
        BY <1>0, <2>1 DEF ItemTypes
      <3> QED BY <2>1, <3>1, Mapping, SameNames
    <2>6. Seen!Create(r, seq)
      BY <2>3, <2>4, <2>5 DEF Seen!Create, Seen!Answer, Seen!Unanswered, Mapped
    <2> QED BY <2>2, <2>6 DEF Seen!Next
  <1> QED BY <1>1, <1>2, <1>3, <1>4, <1>5, <1>6
          DEF Item!Next, Item!Finished, Item!Step, Passing

(* The handlers of the item service implement ItemStore, for any requests: *)
(* each takes effect in one step, every create under an ID of its own.     *)
THEOREM ItemsImplementStore ==
  ASSUME Enough
  PROVE  Item!Spec => Seen!Spec
  <1>1. Item!Init => Seen!Init
    BY SameNames DEF Item!Init, Item!NoItems, Seen!Init
  <1>2. ItemInv /\ [Item!Next]_(Item!vars) => [Seen!Next]_(Seen!vars)
    BY ItemSeen
  <1> QED BY <1>1, <1>2, ItemInvariance, PTL DEF Item!Spec, Seen!Spec

(* In the run the same store is seen, while its program is the item        *)
(* service; of another program nothing is.                                 *)
StoreItems == IF program = "items" THEN items ELSE Item!NoItems
StoreAnswer == [r \in Clients |-> IF program # "items" \/ pc[r] = "store" THEN Item!None ELSE answer[r]]

LEMMA SameStore ==
  ASSUME program = "items", program' = program, [Seen!Next]_(Seen!vars)
  PROVE  [Store!Next]_(Store!vars)
  <1>0. /\ StoreItems = items /\ StoreItems' = items'
        /\ StoreAnswer = Mapped /\ StoreAnswer' = Mapped'
    BY DEF StoreItems, StoreAnswer, Mapped
  <1>1. ASSUME NEW r \in Clients, NEW a, Seen!Answer(r, a) PROVE Store!Answer(r, a)
    <2>1. Mapped[r] = Seen!None /\ Mapped' = [Mapped EXCEPT ![r] = a]
      BY <1>1 DEF Seen!Answer, Seen!Unanswered, Mapped
    <2>2. StoreAnswer[r] = Store!None /\ StoreAnswer' = [StoreAnswer EXCEPT ![r] = a]
      BY <1>0, <2>1 DEF Seen!None, Store!None
    <2> QED BY <2>2 DEF Store!Answer, Store!Unanswered, StoreAnswer
  <1>2. ASSUME NEW r \in Clients, Seen!Reject(r) PROVE Store!Reject(r)
    <2>1. PICK c \in {400, 422} : Seen!Answer(r, Seen!Failure(c)) /\ items' = items
      BY <1>2 DEF Seen!Reject
    <2>2. Store!Answer(r, Store!Failure(c)) /\ StoreItems' = StoreItems
      BY <1>0, <1>1, <2>1 DEF Seen!Failure, Store!Failure
    <2> QED BY <2>2 DEF Store!Reject, StoreItems
  <1>3. ASSUME NEW r \in Clients, NEW i \in Numbers, Seen!Create(r, i) PROVE Store!Create(r, i)
    <2>1. /\ i \notin DOMAIN items /\ Seen!Answer(r, Seen!Created(r, i))
          /\ items' = [j \in DOMAIN items \cup {i} |-> IF j = i THEN r ELSE items[j]]
      BY <1>3 DEF Seen!Create
    <2>2. /\ i \notin DOMAIN StoreItems /\ Store!Answer(r, Store!Created(r, i))
          /\ StoreItems' = [j \in DOMAIN StoreItems \cup {i} |-> IF j = i THEN r ELSE StoreItems[j]]
      BY <1>0, <1>1, <2>1 DEF Seen!Created, Store!Created
    <2> QED BY <2>2 DEF Store!Create, StoreItems
  <1>4. ASSUME NEW r \in Clients, NEW i \in Numbers, Seen!Get(r, i) PROVE Store!Get(r, i)
    <2> DEFINE a == IF i \in DOMAIN items THEN Seen!Found(items[i], i) ELSE Seen!Failure(404)
    <2>1. Mapped[r] = Seen!None /\ Mapped' = [Mapped EXCEPT ![r] = a] /\ items' = items
      BY <1>4 DEF Seen!Get, Seen!Answer, Seen!Unanswered, Mapped
    <2>2. /\ \A j \in DOMAIN items : Seen!Found(items[j], i) = Store!Found(items[j], i)
          /\ Seen!Failure(404) = Store!Failure(404) /\ Seen!None = Store!None
      BY DEF Seen!Found, Store!Found, Seen!Failure, Store!Failure, Seen!None, Store!None
    <2>3. a = IF i \in DOMAIN StoreItems THEN Store!Found(StoreItems[i], i) ELSE Store!Failure(404)
      BY <1>0, <2>2
    <2> HIDE DEF a
    <2>4. StoreAnswer[r] = Store!None /\ StoreAnswer' = [StoreAnswer EXCEPT ![r] = a]
          /\ StoreItems' = StoreItems
      BY <1>0, <2>1, <2>2
    <2> QED BY <2>3, <2>4, Zenon DEF Store!Get, Store!Answer, Store!Unanswered, StoreItems, StoreAnswer
  <1>5. CASE Seen!Next
    BY <1>2, <1>3, <1>4, <1>5 DEF Seen!Next, Store!Next
  <1>6. CASE UNCHANGED Seen!vars
    <2>1. items' = items /\ Mapped' = Mapped
      BY <1>6 DEF Seen!vars, Mapped
    <2>2. StoreItems' = StoreItems /\ StoreAnswer' = StoreAnswer
      BY <1>0, <2>1
    <2> QED BY <2>2 DEF Store!vars, StoreItems, StoreAnswer
  <1> QED BY <1>5, <1>6

(* And so the run, whose other programs leave the store empty,             *)
(* implements it.                                                          *)
THEOREM RunImplementsStore == ASSUME Enough PROVE Spec => ImplementsItemStore
  <1> DEFINE Inv == program = "items" => ItemInv
  <1>1. Init => Inv
    BY Begun, ItemInit
  <1>2. Inv /\ [Next]_vars => Inv'
    BY GoesOn, ItemStep
  <1>3. Init => Store!Init
    <2> SUFFICES ASSUME Init PROVE StoreItems = Item!NoItems /\ StoreAnswer = [r \in Clients |-> Store!None]
      BY DEF Store!Init, StoreItems, StoreAnswer, Item!NoItems
    <2>1. CASE program = "items"
      BY <2>1, Begun DEF Item!Init, StoreItems, StoreAnswer, Item!None, Item!Promise!None, Store!None
    <2>2. CASE program # "items"
      BY <2>2 DEF StoreItems, StoreAnswer, Item!None, Item!Promise!None, Store!None
    <2> QED BY <2>1, <2>2
  <1>4. Inv /\ [Next]_vars => [Store!Next]_(Store!vars)
    <2> SUFFICES ASSUME Inv, [Next]_vars PROVE [Store!Next]_(Store!vars)
      OBVIOUS
    <2>1. CASE program = "items"
      BY <2>1, GoesOn, ItemSeen, SameStore
    <2>2. CASE program # "items"
      <3>1. StoreItems' = StoreItems /\ StoreAnswer' = StoreAnswer
        BY <2>2, GoesOn DEF StoreItems, StoreAnswer
      <3> QED BY <3>1 DEF Store!vars, StoreItems, StoreAnswer
    <2> QED BY <2>1, <2>2
  <1> QED BY <1>1, <1>2, <1>3, <1>4, PTL DEF Spec, ImplementsItemStore, Store!Spec

-----------------------------------------------------------------------------
(* The interceptor chain.  A call's only line is written on its way up: by *)
(* loggingUnary with the handler's result, or by recoveryUnary, whose line *)
(* tells of a panic that loggingUnary did not see.                         *)
CallLine(cd) == [msg |-> "grpc call", code |-> cd, level |-> Rpc!levelFor(cd)]
PanicLine == [msg |-> "panic recovered", code |-> "Internal", level |-> "ERROR"]
Returns(c) == ~Rpc!Panics(req[c]) /\ code[c] = Rpc!Result(req[c])
Completed(c) == \/ Returns(c) /\ lines[c] = <<CallLine(code[c])>>
                \/ Rpc!Panics(req[c]) /\ code[c] = "Internal" /\ lines[c] = <<PanicLine>>

CallInv(c) ==
    /\ client[c] = "idle" => way[c] = "none"
    /\ way[c] \in {"none", "down", "panic"} => lines[c] = <<>>
    /\ way[c] = "panic" => Rpc!Panics(req[c]) /\ depth[c] \in {1, 2}
    /\ way[c] = "up" => depth[c] \in {0, 1, 2}
    /\ way[c] = "up" /\ depth[c] = 2 => Returns(c) /\ lines[c] = <<>>
    /\ way[c] = "up" /\ depth[c] = 1 => Returns(c) /\ lines[c] = <<CallLine(code[c])>>
    /\ way[c] = "up" /\ depth[c] = 0 => Completed(c)
    /\ way[c] = "sent" => Completed(c)
    /\ client[c] \in Rpc!Codes => way[c] = "sent" /\ client[c] = code[c]

RpcTypes == /\ req \in [Callers -> Rpc!Requests \cup {Rpc!NoRequest}]
            /\ depth \in [Callers -> 0..3]
            /\ way \in [Callers -> {"none", "down", "up", "panic", "sent"}]
            /\ code \in [Callers -> Rpc!Codes]
            /\ client \in [Callers -> Rpc!Codes \cup {"idle", "waiting", "DeadlineExceeded"}]
            /\ lines = [c \in Callers |-> lines[c]]
            /\ conn \in {"open", "closed"}
            /\ grpcSrv \in {"serving", "stopped"}

RpcInv == RpcTypes /\ \A c \in Callers : CallInv(c)

(* Which frame is which. *)
LEMMA Frames ==
  ASSUME NEW c \in Callers
  PROVE  /\ Len(Rpc!Chain) = 2 /\ Rpc!Frames = {1, 2}
         /\ Rpc!In(c, "recoveryUnary") <=> depth[c] = 1
         /\ Rpc!In(c, "loggingUnary") <=> depth[c] = 2
  <1>1. Len(Rpc!Chain) = 2 /\ Rpc!Chain[1] = "recoveryUnary" /\ Rpc!Chain[2] = "loggingUnary"
    BY DEF Rpc!Chain
  <1>2. Rpc!Frames = {1, 2}
    BY <1>1 DEF Rpc!Frames
  <1> QED BY <1>1, <1>2 DEF Rpc!In

(* The handler's own results are never Internal, and levels follow codes. *)
LEMMA Results ==
  /\ \A r : Rpc!Result(r) \in Rpc!Codes \ {"Internal"}
  /\ \A cd \in Rpc!Codes : /\ Rpc!levelFor(cd) \in Rpc!Levels
                           /\ Rpc!levelFor(cd) = "ERROR" <=> cd = "Internal"
  <1>1. \A r : Rpc!Result(r) \in Rpc!Codes \ {"Internal"}
    BY DEF Rpc!Result, Rpc!Codes
  <1>2. ASSUME NEW cd \in Rpc!Codes
        PROVE  /\ Rpc!levelFor(cd) \in Rpc!Levels
               /\ Rpc!levelFor(cd) = "ERROR" <=> cd = "Internal"
    BY DEF Rpc!levelFor, Rpc!Levels, Rpc!Codes
  <1> QED BY <1>1, <1>2

LEMMA OneMore == \A l : Append(<<>>, l) = <<l>>
  OBVIOUS

(* A step of one call or its client leaves every other call alone. *)
CallStep(c) == Rpc!Goroutine(c) \/ Rpc!Client(c)
LEMMA CallTypes ==
  ASSUME RpcInv, NEW c \in Callers, CallStep(c)
  PROVE  /\ RpcTypes'
         /\ \A d \in Callers \ {c} : /\ req'[d] = req[d] /\ depth'[d] = depth[d] /\ way'[d] = way[d]
                                     /\ code'[d] = code[d] /\ client'[d] = client[d]
                                     /\ lines'[d] = lines[d]
  <1>0. RpcTypes
    BY DEF RpcInv
  <1>1. Len(Rpc!Chain) = 2 /\ Rpc!Frames = {1, 2}
    BY Frames
  <1>2. CASE Rpc!Descend(c)
    BY <1>0, <1>1, <1>2 DEF Rpc!Descend, RpcTypes
  <1>3. CASE Rpc!Handle(c)
    <2>1. Rpc!Result(req[c]) \in Rpc!Codes
      BY Results
    <2> QED BY <1>0, <1>1, <1>3, <2>1 DEF Rpc!Handle, Rpc!Out, RpcTypes
  <1>4. CASE Rpc!HandlerPanics(c)
    BY <1>0, <1>1, <1>4 DEF Rpc!HandlerPanics, Rpc!Out, RpcTypes
  <1>9. \A m, cd, v : Rpc!Log(c, m, cd, v) => \E l : lines' = [lines EXCEPT ![c] = l]
    BY Zenon DEF Rpc!Log
  <1>5. CASE Rpc!LogCall(c) \/ Rpc!Unwind(c) \/ Rpc!NoPanic(c)
    <2>1. depth[c] \in {1, 2} /\ (Rpc!Unwind(c) => depth[c] = 2)
      BY <1>5, Frames DEF Rpc!LogCall, Rpc!Unwind, Rpc!NoPanic
    <2>2. /\ UNCHANGED <<req, way, code, client, conn, grpcSrv>>
          /\ depth' = [depth EXCEPT ![c] = @ - 1]
          /\ lines' = lines \/ \E l : lines' = [lines EXCEPT ![c] = l]
      <3>1. CASE Rpc!LogCall(c)
        <4>1. \E l : lines' = [lines EXCEPT ![c] = l]
          BY <1>9, <3>1 DEF Rpc!LogCall
        <4> QED BY <3>1, <4>1 DEF Rpc!LogCall, Rpc!Out
      <3>2. CASE Rpc!Unwind(c)
        BY <2>1, <3>2 DEF Rpc!Unwind, Rpc!Out
      <3>3. CASE Rpc!NoPanic(c)
        BY <3>3 DEF Rpc!NoPanic, Rpc!Out
      <3> QED BY <1>5, <3>1, <3>2, <3>3
    <2> QED BY <1>0, <2>1, <2>2 DEF RpcTypes
  <1>6. CASE Rpc!Recover(c)
    <2>1. depth[c] = 1
      BY <1>6, Frames DEF Rpc!Recover
    <2>2. /\ UNCHANGED <<req, client, conn, grpcSrv>>
          /\ depth' = [depth EXCEPT ![c] = @ - 1] /\ way' = [way EXCEPT ![c] = "up"]
          /\ code' = [code EXCEPT ![c] = "Internal"]
          /\ \E l : lines' = [lines EXCEPT ![c] = l]
      BY <1>9, <1>6 DEF Rpc!Recover, Rpc!Out
    <2>3. depth[c] - 1 \in 0..1 /\ "Internal" \in Rpc!Codes
      BY <2>1 DEF Rpc!Codes
    <2> QED BY <1>0, <2>1, <2>2, <2>3 DEF RpcTypes
  <1>7. CASE Rpc!Reply(c)
    BY <1>0, <1>7 DEF Rpc!Reply, RpcTypes
  <1>8. CASE Rpc!Client(c)
    BY <1>0, <1>8 DEF Rpc!Client, Rpc!Deadline, Rpc!Call, RpcTypes
  <1> QED BY <1>2, <1>3, <1>4, <1>5, <1>6, <1>7, <1>8 DEF CallStep, Rpc!Goroutine

(* How a call's way leads to its answer. *)
LEMMA CallWay ==
  ASSUME RpcInv, NEW c \in Callers, CallStep(c)
  PROVE  CallInv(c)'
  <1>0. RpcTypes /\ CallInv(c)
    BY DEF RpcInv
  <1>1. /\ Len(Rpc!Chain) = 2 /\ Rpc!Frames = {1, 2}
        /\ Rpc!In(c, "recoveryUnary") <=> depth[c] = 1
        /\ Rpc!In(c, "loggingUnary") <=> depth[c] = 2
    BY Frames
  <1>12. /\ depth \in [Callers -> 0..3] /\ code \in [Callers -> Rpc!Codes]
         /\ way \in [Callers -> {"none", "down", "up", "panic", "sent"}]
    BY <1>0 DEF RpcTypes
  <1> USE DEF RpcTypes, CallInv, Returns, Completed, Rpc!Out
  <1>2. CASE Rpc!Descend(c)
    BY <1>0, <1>1, <1>2 DEF Rpc!Descend
  <1>3. CASE Rpc!Handle(c)
    BY <1>0, <1>1, <1>3, Results DEF Rpc!Handle
  <1>4. CASE Rpc!HandlerPanics(c)
    BY <1>0, <1>1, <1>4 DEF Rpc!HandlerPanics
  <1>5. CASE Rpc!LogCall(c)
    <2>1. lines'[c] = <<CallLine(code[c])>>
      BY <1>0, <1>1, <1>5, OneMore DEF Rpc!LogCall, Rpc!Log, CallLine
    <2>2. /\ depth[c] = 2 /\ depth'[c] = 1 /\ way[c] = "up" /\ way'[c] = "up"
          /\ UNCHANGED <<req, code, client>>
      <3> HIDE DEF RpcTypes, CallInv, Returns, Completed
      <3>1. depth[c] = 2
        BY <1>1, <1>5 DEF Rpc!LogCall
      <3>2. depth'[c] = depth[c] - 1
        BY <1>12, <1>5 DEF Rpc!LogCall
      <3>3. depth'[c] = 1
        BY <3>1, <3>2
      <3>4. way[c] = "up" /\ UNCHANGED <<req, client>> /\ UNCHANGED <<way, code>>
        BY <1>5 DEF Rpc!LogCall
      <3>5. way'[c] = "up"
        BY <1>12, <1>5 DEF Rpc!LogCall
      <3> QED BY <3>1, <3>3, <3>4, <3>5
    <2>3. Returns(c) /\ (Returns(c)' <=> Returns(c)) /\ client[c] \notin Rpc!Codes /\ client[c] # "idle"
      BY <1>0, <2>2 DEF Returns
    <2> HIDE DEF Returns
    <2> QED BY <2>1, <2>2, <2>3
  <1>6. CASE Rpc!Unwind(c)
    BY <1>0, <1>1, <1>6 DEF Rpc!Unwind
  <1>7. CASE Rpc!NoPanic(c)
    BY <1>0, <1>1, <1>7 DEF Rpc!NoPanic
  <1>8. CASE Rpc!Recover(c)
    <2>1. lines'[c] = <<PanicLine>>
      BY <1>0, <1>1, <1>8, OneMore DEF Rpc!Recover, Rpc!Log, PanicLine
    <2>2. /\ depth[c] = 1 /\ depth'[c] = 0 /\ way[c] = "panic" /\ way'[c] = "up"
          /\ code'[c] = "Internal" /\ UNCHANGED <<req, client>>
      <3> HIDE DEF RpcTypes, CallInv, Returns, Completed
      <3>1. depth[c] = 1
        BY <1>1, <1>8 DEF Rpc!Recover
      <3>2. depth'[c] = depth[c] - 1
        BY <1>12, <1>8 DEF Rpc!Recover
      <3>3. depth'[c] = 0
        BY <3>1, <3>2
      <3>4. way[c] = "panic" /\ UNCHANGED <<req, client>> /\ way' = [way EXCEPT ![c] = "up"] /\ code' = [code EXCEPT ![c] = "Internal"]
        BY <1>8 DEF Rpc!Recover
      <3>5. way'[c] = "up" /\ code'[c] = "Internal"
        BY <1>12, <1>8 DEF Rpc!Recover
      <3> QED BY <3>1, <3>3, <3>4, <3>5
    <2>3. /\ Rpc!Panics(req[c]) /\ client[c] \notin Rpc!Codes /\ client[c] # "idle"
      BY <1>0, <2>2
    <2>4. Completed(c)'
      BY <2>1, <2>2, <2>3
    <2> HIDE DEF Completed, Returns
    <2> QED BY <2>2, <2>3, <2>4
  <1>9. CASE Rpc!Reply(c)
    <2>1. /\ way[c] = "up" /\ depth[c] = 0 /\ way'[c] = "sent" /\ UNCHANGED <<req, depth, code, lines>>
          /\ client'[c] = IF client[c] = "waiting" THEN code[c] ELSE client[c]
      BY <1>0, <1>9 DEF Rpc!Reply
    <2>2. Completed(c) /\ Completed(c)'
      <3>1. Completed(c)
        BY <1>0, <2>1
      <3> QED BY <2>1, <3>1
    <2>3. client'[c] # "idle" /\ (client'[c] \in Rpc!Codes => client'[c] = code[c])
      BY <1>0, <2>1 DEF Rpc!Codes
    <2> HIDE DEF Completed, Returns
    <2> QED BY <2>1, <2>2, <2>3
  <1>10. CASE Rpc!Deadline(c)
    BY <1>0, <1>10 DEF Rpc!Deadline, Rpc!Codes
  <1>11. ASSUME NEW r \in Rpc!Requests, Rpc!Call(c, r) PROVE CallInv(c)'
    BY <1>0, <1>11 DEF Rpc!Call, Rpc!Codes
  <1> QED BY <1>2, <1>3, <1>4, <1>5, <1>6, <1>7, <1>8, <1>9, <1>10, <1>11
          DEF CallStep, Rpc!Goroutine, Rpc!Client

(* RpcInv is inductive: a step of one call leaves the others alone. *)
LEMMA RpcInit == ASSUME Rpc!Init PROVE RpcInv
  BY DEF Rpc!Init, RpcInv, RpcTypes, CallInv, Rpc!Codes

LEMMA RpcStep == ASSUME RpcInv, [Rpc!Next]_(Rpc!vars) PROVE RpcInv'
  <1>1. CASE UNCHANGED <<req, depth, way, code, client, lines>> /\ conn' \in {"open", "closed"}
             /\ grpcSrv' \in {"serving", "stopped"}
    BY <1>1 DEF RpcInv, RpcTypes, CallInv, Completed, Returns
  <1>2. ASSUME NEW c \in Callers, CallStep(c) PROVE RpcInv'
    <2>1. \A d \in Callers \ {c} : CallInv(d)'
      BY <1>2, CallTypes DEF RpcInv, CallInv, Completed, Returns
    <2> QED BY <1>2, <2>1, CallTypes, CallWay DEF RpcInv
  <1>3. CASE Rpc!Close \/ Rpc!GracefulStop \/ Rpc!Finished \/ UNCHANGED Rpc!vars
    <2>1. /\ UNCHANGED <<req, depth, way, code, client, lines>> /\ conn' \in {"open", "closed"}
          /\ grpcSrv' \in {"serving", "stopped"}
      BY <1>3 DEF Rpc!Close, Rpc!GracefulStop, Rpc!Finished, Rpc!vars, RpcInv, RpcTypes
    <2> QED BY <1>1, <2>1
  <1> QED BY <1>2, <1>3 DEF Rpc!Next, CallStep

(* The invariant of the interceptor chain holds, for any calls.            *)
THEOREM RpcInvariance == Rpc!Spec => []RpcInv
  <1>1. Rpc!Init => RpcInv
    BY RpcInit
  <1>2. RpcInv /\ [Rpc!Next]_(Rpc!vars) => RpcInv'
    BY RpcStep
  <1> QED BY <1>1, <1>2, PTL DEF Rpc!Spec

(* What a finished call has logged. *)
LEMMA LinesOf ==
  ASSUME RpcInv, NEW c \in Callers
  PROVE  /\ lines[c] = <<>> \/ lines[c] = <<CallLine(code[c])>> \/ lines[c] = <<PanicLine>>
         /\ way[c] = "sent" => Completed(c)
         /\ lines[c] = <<>> => \A m : Rpc!Logged(c, m) = {}
         /\ lines[c] = <<CallLine(code[c])>> => /\ Rpc!Logged(c, "grpc call") = {1}
                                                /\ Rpc!Logged(c, "panic recovered") = {}
         /\ lines[c] = <<PanicLine>> => /\ Rpc!Logged(c, "grpc call") = {}
                                        /\ Rpc!Logged(c, "panic recovered") = {1}
  <1>0. CallInv(c) /\ RpcTypes
    BY DEF RpcInv
  <1>1. lines[c] = <<>> \/ lines[c] = <<CallLine(code[c])>> \/ lines[c] = <<PanicLine>>
    BY <1>0 DEF CallInv, Completed, RpcTypes
  <1>2. CallLine(code[c]).msg = "grpc call" /\ PanicLine.msg = "panic recovered"
    BY DEF CallLine, PanicLine
  <1>3. lines[c] = <<>> => \A m : Rpc!Logged(c, m) = {}
    BY DEF Rpc!Logged
  <1>4. ASSUME NEW l, lines[c] = <<l>>
        PROVE  \A m : Rpc!Logged(c, m) = IF l.msg = m THEN {1} ELSE {}
    <2>1. DOMAIN lines[c] = {1} /\ lines[c][1] = l
      BY <1>4
    <2> QED BY <2>1 DEF Rpc!Logged
  <1>5. way[c] = "sent" => Completed(c)
    BY <1>0 DEF CallInv
  <1> QED BY <1>1, <1>2, <1>3, <1>4, <1>5

LEMMA PanicTells == ASSUME RpcInv PROVE Rpc!PanicContained
  <1>1. grpcSrv # "crashed"
    BY DEF RpcInv, RpcTypes
  <1>2. ASSUME NEW c \in Callers
        PROVE  /\ way[c] = "sent" => (Rpc!Logged(c, "panic recovered") # {} <=> code[c] = "Internal")
               /\ client[c] = "Internal" => ~Rpc!Invalid(req[c])
    <2>1. /\ way[c] = "sent" => Completed(c)
          /\ client[c] = "Internal" => way[c] = "sent" /\ code[c] = "Internal"
      BY DEF RpcInv, CallInv, Rpc!Codes
    <2>2. Returns(c) => code[c] # "Internal"
      BY Results DEF Returns
    <2>3. code[c] = "Internal" /\ Completed(c) => Rpc!Panics(req[c]) /\ lines[c] = <<PanicLine>>
      BY <2>2 DEF Completed
    <2>4. code[c] # "Internal" /\ Completed(c) => lines[c] = <<CallLine(code[c])>>
      BY DEF Completed
    <2> QED BY <2>1, <2>3, <2>4, LinesOf DEF Rpc!Panics
  <1> QED BY <1>1, <1>2 DEF Rpc!PanicContained

(* A panic stays with its own call: the process goes on, and the caller of *)
(* a panicking handler, and nobody else, is told Internal.                 *)
THEOREM PanicStays ==
  /\ Rpc!Spec => []Rpc!PanicContained
  /\ Spec => []PanicContained
  <1> DEFINE Inv == program = "interceptors" => RpcInv
  <1>1. RpcInv => Rpc!PanicContained
    BY PanicTells
  <1>2. Inv => PanicContained
    BY PanicTells DEF PanicContained
  <1>3. Init => Inv
    BY Begun, RpcInit
  <1>4. Inv /\ [Next]_vars => Inv'
    BY GoesOn, RpcStep
  <1> QED BY <1>1, <1>2, <1>3, <1>4, RpcInvariance, PTL DEF Spec

LEMMA LineTells == ASSUME RpcInv PROVE Rpc!LogAgrees
  <1>0. RpcTypes
    BY DEF RpcInv
  <1>1. ASSUME NEW c \in Callers
        PROVE  /\ lines[c] \in Seq(Rpc!Line)
               /\ \A i \in DOMAIN lines[c] : lines[c][i].level = "ERROR" <=> lines[c][i].code = "Internal"
    <2>1. code[c] \in Rpc!Codes
      BY <1>0 DEF RpcTypes
    <2>2. CallLine(code[c]) \in Rpc!Line /\ PanicLine \in Rpc!Line
      BY <2>1, Results DEF CallLine, PanicLine, Rpc!Line, Rpc!Codes, Rpc!Levels
    <2>3. /\ CallLine(code[c]).level = "ERROR" <=> CallLine(code[c]).code = "Internal"
          /\ PanicLine.level = "ERROR" <=> PanicLine.code = "Internal"
      BY <2>1, Results DEF CallLine, PanicLine
    <2>4. lines[c] = <<>> \/ lines[c] = <<CallLine(code[c])>> \/ lines[c] = <<PanicLine>>
      BY LinesOf
    <2>5. CASE lines[c] = <<>>
      BY <2>5
    <2>6. ASSUME NEW l \in Rpc!Line, l.level = "ERROR" <=> l.code = "Internal", lines[c] = <<l>>
          PROVE  /\ lines[c] \in Seq(Rpc!Line)
                 /\ \A i \in DOMAIN lines[c] : lines[c][i].level = "ERROR" <=> lines[c][i].code = "Internal"
      BY <2>6
    <2> QED BY <2>2, <2>3, <2>4, <2>5, <2>6
  <1>2. ASSUME NEW c \in Callers
        PROVE  /\ \A i, j \in Rpc!Logged(c, "grpc call") : i = j
               /\ way[c] = "sent" => \A i \in Rpc!Logged(c, "grpc call") : lines[c][i].code = code[c]
               /\ client[c] \in Rpc!Codes \ {"Internal"} => Rpc!Logged(c, "grpc call") # {}
    <2>1. CallLine(code[c]).code = code[c]
      BY DEF CallLine
    <2>2. client[c] \in Rpc!Codes \ {"Internal"} => Completed(c) /\ code[c] # "Internal"
      BY DEF RpcInv, CallInv
    <2>3. client[c] \in Rpc!Codes \ {"Internal"} => lines[c] = <<CallLine(code[c])>>
      BY <2>2 DEF Completed
    <2>4. lines[c] = <<CallLine(code[c])>> => lines[c][1].code = code[c]
      BY <2>1
    <2>5. \/ Rpc!Logged(c, "grpc call") = {}
          \/ Rpc!Logged(c, "grpc call") = {1} /\ lines[c][1].code = code[c]
      BY <2>4, LinesOf
    <2>6. lines[c] = <<CallLine(code[c])>> => Rpc!Logged(c, "grpc call") = {1}
      BY LinesOf
    <2> QED BY <2>3, <2>5, <2>6
  <1>3. Rpc!TypeOK
    <2>1. lines \in [Callers -> Seq(Rpc!Line)]
      BY <1>0, <1>1 DEF RpcTypes
    <2>2. depth \in [Callers -> 0..Len(Rpc!Chain) + 1]
      BY <1>0 DEF RpcTypes, Rpc!Chain
    <2> QED BY <1>0, <2>1, <2>2 DEF RpcTypes, Rpc!TypeOK
  <1> QED BY <1>1, <1>2, <1>3 DEF Rpc!LogAgrees

(* The log agrees with what callers are told, for any calls. *)
THEOREM LogTells ==
  /\ Rpc!Spec => []Rpc!LogAgrees
  /\ Spec => []LogAgrees
  <1> DEFINE Inv == program = "interceptors" => RpcInv
  <1>1. RpcInv => Rpc!LogAgrees
    BY LineTells
  <1>2. Inv => LogAgrees
    BY LineTells DEF LogAgrees
  <1>3. Init => Inv
    BY Begun, RpcInit
  <1>4. Inv /\ [Next]_vars => Inv'
    BY GoesOn, RpcStep
  <1> QED BY <1>1, <1>2, <1>3, <1>4, RpcInvariance, PTL DEF Spec

-----------------------------------------------------------------------------
(***************************************************************************)
(* The middleware chains.  What a request has said and got is read off its *)
(* path, its depth and its way.                                            *)
(***************************************************************************)
\* The logging frame, and the handler under the chain.
LoggerAt == IF app = "week5" THEN 2 ELSE 1
HandlerAt == IF app = "week5" THEN 5 ELSE 2

WebId(r) == IF app = "week5" /\ sent[r] # NoId THEN sent[r] ELSE Web!MintedBy(r)
StatusOf(r) == CASE path[r] \in {"ok", "notes"} -> 200
                 [] path[r] = "other" -> 404
                 [] OTHER -> 500

AllIds == WebIds \cup {NoId} \cup {Web!MintedBy(r) : r \in WebRequests}
LogLines == [msg : {"started", "fetching", "failure", "recovered", "completed"},
             level : {"INFO", "ERROR"}, status : {0, 200, 404, 500}, id : AllIds]
WebTypes == /\ app \in Web!Apps
            /\ path \in [WebRequests -> Web!Paths(app)]
            /\ sent \in [WebRequests -> WebIds \cup {NoId}]
            /\ depth \in [WebRequests -> 0..5]
            /\ way \in [WebRequests -> {"down", "up", "panic", "done"}]
            /\ ctxId \in [WebRequests -> AllIds] /\ lineId \in [WebRequests -> AllIds]
            /\ echoed \in [WebRequests -> AllIds]
            /\ rec \in [WebRequests -> {200, 404, 500}]
            /\ wire \in [WebRequests -> {0, 200, 404, 500}]
            /\ lines \in [WebRequests -> Seq(LogLines)]

\* Only a panic of week 5 comes up as one, as far as Recoverer; and what has
\* been answered is what the path asks for, which the recorder has seen.
Comes(r) ==
    /\ way[r] = "down" => depth[r] \in 1..HandlerAt /\ wire[r] = 0 /\ rec[r] = 200
    /\ way[r] = "panic" => /\ app = "week5" /\ path[r] = "panic" /\ depth[r] \in {3, 4}
                           /\ wire[r] = 0 /\ rec[r] = 200
    /\ way[r] \in {"up", "done"} => /\ wire[r] = StatusOf(r) /\ rec[r] = StatusOf(r)
                                    /\ depth[r] \in 0..HandlerAt - 1
                                    /\ path[r] = "panic" => depth[r] <= 2
    /\ way[r] = "done" => depth[r] = 0

\* The ID is known inside the first frame, and to the logging frame's line.
Inside(r) == way[r] # "down" \/ depth[r] > 1
Knows(r) == /\ Inside(r) => ctxId[r] = WebId(r) /\ (app = "week5" => echoed[r] = WebId(r))
            /\ way[r] # "down" \/ depth[r] > LoggerAt => lineId[r] = WebId(r)

\* The completion line is written when the logging frame is left, and is the last.
Logged(r) == way[r] \in {"up", "done"} /\ depth[r] < LoggerAt
Says(r) == /\ ~Inside(r) => lines[r] = <<>>
           /\ \A i \in DOMAIN lines[r] : lines[r][i].id = WebId(r)
           /\ Logged(r) => /\ Web!Completed(r) = {Len(lines[r])}
                           /\ Len(lines[r]) \in DOMAIN lines[r]
                           /\ lines[r][Len(lines[r])].status = wire[r]
           /\ ~Logged(r) => Web!Completed(r) = {}

WebInv == WebTypes /\ \A r \in WebRequests : Comes(r) /\ Knows(r) /\ Says(r)

(* Which frame is where. *)
LEMMA WebPlaces == /\ LoggerAt \in {1, 2} /\ HandlerAt \in {2, 5}
                   /\ app = "week5" => LoggerAt = 2 /\ HandlerAt = 5
                   /\ app # "week5" => LoggerAt = 1 /\ HandlerAt = 2
  BY DEF LoggerAt, HandlerAt

LEMMA WebFrames ==
  ASSUME app \in Web!Apps, NEW r \in WebRequests
  PROVE  /\ Web!Length = HandlerAt - 1
         /\ Web!In(r, {"RequestID"}) <=> app = "week5" /\ depth[r] = 1
         /\ Web!In(r, {"Logger"}) <=> app = "week5" /\ depth[r] = 2
         /\ Web!In(r, {"Recoverer"}) <=> app = "week5" /\ depth[r] = 3
         /\ Web!In(r, {"Recoverer", "Timeout"}) <=> app = "week5" /\ depth[r] \in {3, 4}
         /\ Web!In(r, {"RequestLogger"}) <=> app = "week9" /\ depth[r] = 1
         /\ Web!In(r, Web!Recorders) <=> depth[r] = LoggerAt
         /\ LoggerAt \in 1..2 /\ Web!Chain(app)[LoggerAt] \in Web!Recorders
  <1>1. CASE app = "week5"
    <2>1. /\ Len(Web!Chain(app)) = 4
          /\ Web!Chain(app)[1] = "RequestID" /\ Web!Chain(app)[2] = "Logger"
          /\ Web!Chain(app)[3] = "Recoverer" /\ Web!Chain(app)[4] = "Timeout"
      BY <1>1 DEF Web!Chain
    <2>2. LoggerAt = 2 /\ HandlerAt = 5
      BY <1>1 DEF LoggerAt, HandlerAt
    <2>3. Web!Length = 4
      BY <2>1 DEF Web!Length
    <2>4. ASSUME NEW F
          PROVE  Web!In(r, F) <=>
                     \/ depth[r] = 1 /\ "RequestID" \in F
                     \/ depth[r] = 2 /\ "Logger" \in F
                     \/ depth[r] = 3 /\ "Recoverer" \in F
                     \/ depth[r] = 4 /\ "Timeout" \in F
      <3>1. depth[r] \in 1..4 <=> depth[r] \in {1, 2, 3, 4}
        OBVIOUS
      <3>2. depth[r] \in {1, 2, 3, 4} \/ ~Web!In(r, F)
        BY <2>3, <3>1 DEF Web!In
      <3> QED BY <2>1, <2>3, <3>2 DEF Web!In
    <2>5. /\ Web!In(r, {"RequestID"}) <=> depth[r] = 1
          /\ Web!In(r, {"Logger"}) <=> depth[r] = 2
          /\ Web!In(r, {"Recoverer"}) <=> depth[r] = 3
          /\ Web!In(r, {"Recoverer", "Timeout"}) <=> depth[r] \in {3, 4}
          /\ ~Web!In(r, {"RequestLogger"})
          /\ Web!In(r, Web!Recorders) <=> depth[r] = 2
      BY <2>4 DEF Web!Recorders
    <2>6. /\ Web!Length = HandlerAt - 1 /\ LoggerAt \in 1..2
          /\ Web!Chain(app)[LoggerAt] \in Web!Recorders
          /\ Web!In(r, Web!Recorders) <=> depth[r] = LoggerAt
      BY <2>1, <2>2, <2>3, <2>5 DEF Web!Recorders
    <2>7. app # "week9"
      BY <1>1
    <2> QED BY <1>1, <2>5, <2>6, <2>7
  <1>2. CASE app = "week9"
    <2>1. Len(Web!Chain(app)) = 1 /\ Web!Chain(app)[1] = "RequestLogger"
      BY <1>2 DEF Web!Chain
    <2>2. LoggerAt = 1 /\ HandlerAt = 2
      BY <1>2 DEF LoggerAt, HandlerAt
    <2>3. Web!Length = 1
      BY <2>1 DEF Web!Length
    <2>4. ASSUME NEW F PROVE Web!In(r, F) <=> depth[r] = 1 /\ "RequestLogger" \in F
      <3>1. depth[r] \in 1..1 <=> depth[r] = 1
        OBVIOUS
      <3> QED BY <2>1, <2>3, <3>1 DEF Web!In
    <2>5. /\ ~Web!In(r, {"RequestID"}) /\ ~Web!In(r, {"Logger"})
          /\ ~Web!In(r, {"Recoverer"}) /\ ~Web!In(r, {"Recoverer", "Timeout"})
          /\ Web!In(r, {"RequestLogger"}) <=> depth[r] = 1
          /\ Web!In(r, Web!Recorders) <=> depth[r] = 1
      BY <2>4 DEF Web!Recorders
    <2>6. /\ Web!Length = HandlerAt - 1 /\ LoggerAt \in 1..2
          /\ Web!Chain(app)[LoggerAt] \in Web!Recorders
          /\ Web!In(r, Web!Recorders) <=> depth[r] = LoggerAt
      BY <2>1, <2>2, <2>3, <2>5 DEF Web!Recorders
    <2>7. app # "week5"
      BY <1>2
    <2> QED BY <1>2, <2>5, <2>6, <2>7
  <1> QED BY <1>1, <1>2 DEF Web!Apps

\* From f to g, nothing but what r has may change.
Only(f, g, r) == g = [q \in WebRequests |-> g[q]] /\ \A q \in WebRequests \ {r} : g[q] = f[q]

LEMMA Changed == \A T : \A f \in [WebRequests -> T], r \in WebRequests : \A v :
                    Only(f, f, r) /\ Only(f, [f EXCEPT ![r] = v], r)
  BY DEF Only

\* A step of r is one of r alone.
Solely(r) == /\ app' = app /\ path' = path /\ sent' = sent
             /\ Only(depth, depth', r) /\ Only(way, way', r) /\ Only(ctxId, ctxId', r)
             /\ Only(lineId, lineId', r) /\ Only(echoed, echoed', r) /\ Only(rec, rec', r)
             /\ Only(wire, wire', r) /\ Only(lines, lines', r)

\* What is typed of one request.
Typed(q) == /\ depth[q] \in 0..5 /\ way[q] \in {"down", "up", "panic", "done"}
            /\ ctxId[q] \in AllIds /\ lineId[q] \in AllIds /\ echoed[q] \in AllIds
            /\ rec[q] \in {200, 404, 500} /\ wire[q] \in {0, 200, 404, 500}
            /\ lines[q] \in Seq(LogLines)

LEMMA WebOthers ==
  ASSUME WebInv, NEW r \in WebRequests, Solely(r),
         (Typed(r) /\ Comes(r) /\ Knows(r) /\ Says(r))'
  PROVE  WebInv'
  <1>0. /\ app' = app /\ path' = path /\ sent' = sent /\ AllIds' = AllIds /\ LogLines' = LogLines
    BY DEF Solely, AllIds, LogLines
  <1>1. WebTypes'
    <2> HIDE DEF AllIds, LogLines
    <2>1. /\ app' \in Web!Apps /\ path' \in [WebRequests -> Web!Paths(app')]
          /\ sent' \in [WebRequests -> WebIds \cup {NoId}]
      BY <1>0 DEF WebInv, WebTypes
    <2>2. ASSUME NEW q \in WebRequests PROVE Typed(q)'
      <3>1. CASE q = r
        BY <3>1
      <3>2. CASE q # r
        <4>1. /\ depth'[q] = depth[q] /\ way'[q] = way[q] /\ ctxId'[q] = ctxId[q]
              /\ lineId'[q] = lineId[q] /\ echoed'[q] = echoed[q] /\ rec'[q] = rec[q]
              /\ wire'[q] = wire[q] /\ lines'[q] = lines[q]
          BY <3>2 DEF Solely, Only
        <4>2. Typed(q)
          BY DEF WebInv, WebTypes, Typed
        <4> QED BY <1>0, <4>1, <4>2 DEF Typed
      <3> QED BY <3>1, <3>2
    <2>3. \A q \in WebRequests : /\ depth'[q] \in 0..5 /\ way'[q] \in {"down", "up", "panic", "done"}
                                 /\ ctxId'[q] \in AllIds /\ lineId'[q] \in AllIds /\ echoed'[q] \in AllIds
      BY <1>0, <2>2 DEF Typed
    <2>4. \A q \in WebRequests : /\ rec'[q] \in {200, 404, 500} /\ wire'[q] \in {0, 200, 404, 500}
                                 /\ lines'[q] \in Seq(LogLines)
      BY <1>0, <2>2 DEF Typed
    <2>5. /\ depth' = [q \in WebRequests |-> depth'[q]] /\ way' = [q \in WebRequests |-> way'[q]]
          /\ ctxId' = [q \in WebRequests |-> ctxId'[q]] /\ lineId' = [q \in WebRequests |-> lineId'[q]]
          /\ echoed' = [q \in WebRequests |-> echoed'[q]] /\ rec' = [q \in WebRequests |-> rec'[q]]
          /\ wire' = [q \in WebRequests |-> wire'[q]] /\ lines' = [q \in WebRequests |-> lines'[q]]
      BY Zenon DEF Solely, Only
    <2>6. depth' \in [WebRequests -> 0..5] /\ way' \in [WebRequests -> {"down", "up", "panic", "done"}]
      BY <2>3, <2>5
    <2>7. ctxId' \in [WebRequests -> AllIds] /\ lineId' \in [WebRequests -> AllIds]
          /\ echoed' \in [WebRequests -> AllIds]
      BY <2>3, <2>5
    <2>8. /\ rec' \in [WebRequests -> {200, 404, 500}] /\ wire' \in [WebRequests -> {0, 200, 404, 500}]
          /\ lines' \in [WebRequests -> Seq(LogLines)]
      BY <2>4, <2>5
    <2> QED BY <1>0, <2>1, <2>6, <2>7, <2>8 DEF WebTypes
  <1>2. ASSUME NEW q \in WebRequests, q # r PROVE (Comes(q) /\ Knows(q) /\ Says(q))'
    <2>1. /\ depth'[q] = depth[q] /\ way'[q] = way[q] /\ ctxId'[q] = ctxId[q] /\ lineId'[q] = lineId[q]
          /\ echoed'[q] = echoed[q] /\ rec'[q] = rec[q] /\ wire'[q] = wire[q] /\ lines'[q] = lines[q]
          /\ app' = app /\ path' = path /\ sent' = sent
      BY <1>0, <1>2 DEF Solely, Only
    <2>2. WebId(q)' = WebId(q) /\ StatusOf(q)' = StatusOf(q) /\ LoggerAt' = LoggerAt /\ HandlerAt' = HandlerAt
      BY <2>1 DEF WebId, StatusOf, LoggerAt, HandlerAt
    <2>3. Inside(q)' = Inside(q) /\ Logged(q)' = Logged(q) /\ Web!Completed(q)' = Web!Completed(q)
      BY <2>1, <2>2 DEF Inside, Logged, Web!Completed
    <2>4. Comes(q) /\ Knows(q) /\ Says(q)
      BY DEF WebInv
    <2>5. Comes(q)'
      BY <2>1, <2>2, <2>4 DEF Comes
    <2>6. Knows(q)'
      BY <2>1, <2>2, <2>3, <2>4 DEF Knows
    <2>7. Says(q)'
      BY <2>1, <2>2, <2>3, <2>4 DEF Says
    <2> QED BY <2>5, <2>6, <2>7
  <1> QED BY <1>1, <1>2 DEF WebInv

(* A line more, or none. *)
LEMMA QuietLines ==
  ASSUME WebInv, NEW r \in WebRequests, UNCHANGED <<app, sent>>, lines'[r] = lines[r],
         Inside(r) => Inside(r)', Logged(r)' <=> Logged(r), Logged(r) => wire'[r] = wire[r]
  PROVE  Says(r)'
  <1>1. WebId(r)' = WebId(r) /\ Web!Completed(r)' = Web!Completed(r) /\ Says(r)
    BY DEF WebInv, WebId, Web!Completed
  <1> QED BY <1>1 DEF Says

LEMMA LogsLine ==
  ASSUME WebInv, NEW r \in WebRequests, UNCHANGED <<app, sent>>, Inside(r)',
         NEW l \in LogLines, lines'[r] = Append(lines[r], l), l.id = WebId(r),
         ~Logged(r), Logged(r)' <=> l.msg = "completed", Logged(r)' => l.status = wire'[r]
  PROVE  Says(r)' /\ lines'[r] \in Seq(LogLines)
  <1> DEFINE old == lines[r]
             new == Append(old, l)
             n == Len(old) + 1
  <1>1. old \in Seq(LogLines) /\ Says(r)
    BY DEF WebInv, WebTypes
  <1> HIDE DEF old
  <1>2. /\ new \in Seq(LogLines) /\ Len(new) = n /\ DOMAIN new = DOMAIN old \cup {n}
        /\ n \notin DOMAIN old /\ new[n] = l /\ \A i \in DOMAIN old : new[i] = old[i]
    BY <1>1
  <1>3. lines'[r] = new /\ WebId(r)' = WebId(r)
    BY DEF old, WebId
  <1> HIDE DEF new, n
  <1>4. \A i \in DOMAIN old : old[i].msg # "completed" /\ old[i].id = WebId(r)
    BY <1>1 DEF Says, Web!Completed, old
  <1>5. Web!Completed(r)' = IF l.msg = "completed" THEN {n} ELSE {}
    BY <1>2, <1>3, <1>4 DEF Web!Completed
  <1>6. \A i \in DOMAIN new : new[i].id = WebId(r)
    BY <1>2, <1>4
  <1> QED BY <1>2, <1>3, <1>5, <1>6 DEF Says

LEMMA WebInit == ASSUME Web!Init PROVE WebInv
  <1> USE DEF Web!Init
  <1>1. WebTypes
    <2>1. <<>> \in Seq(LogLines) /\ NoId \in AllIds
      BY DEF AllIds
    <2> QED BY <2>1 DEF WebTypes
  <1>2. ASSUME NEW r \in WebRequests PROVE Comes(r) /\ Knows(r) /\ Says(r)
    <2>1. /\ depth[r] = 1 /\ way[r] = "down" /\ wire[r] = 0 /\ rec[r] = 200 /\ lines[r] = <<>>
      BY <1>2
    <2> HIDE DEF Web!Init
    <2>2. ~Inside(r) /\ ~Logged(r) /\ Web!Completed(r) = {} /\ DOMAIN lines[r] = {}
      BY <2>1 DEF Inside, Logged, Web!Completed
    <2>3. Comes(r) /\ Knows(r)
      BY <2>1, <2>2, WebPlaces DEF Comes, Knows
    <2> QED BY <2>1, <2>2, <2>3 DEF Says
  <1> QED BY <1>1, <1>2 DEF WebInv

\* The steps of a request, in three groups: down, at the handler, up.
Downward(r) == Web!EnterRequestID(r) \/ Web!EnterLogger(r) \/ Web!EnterRequestLogger(r) \/ Web!EnterOther(r)
AtHandler(r) == Web!Body(r) \/ Web!Error(r) \/ Web!Boom(r)
Upward(r) == \/ Web!LeaveLogger(r) \/ Web!LeaveRequestLogger(r) \/ Web!LeaveOther(r)
             \/ Web!Unwind(r) \/ Web!Recover(r) \/ Web!Finish(r)

(* What is known of a request that takes a step. *)
LEMMA WebBefore ==
  ASSUME WebInv, NEW r \in WebRequests
  PROVE  /\ Comes(r) /\ Knows(r) /\ Says(r)
         /\ depth[r] \in 0..5 /\ way[r] \in {"down", "up", "panic", "done"}
         /\ {ctxId[r], lineId[r], echoed[r], WebId(r), Web!MintedBy(r)} \subseteq AllIds
         /\ rec[r] \in {200, 404, 500} /\ wire[r] \in {0, 200, 404, 500}
         /\ lines[r] \in Seq(LogLines) /\ path[r] \in Web!Paths(app)
         /\ app \in {"week5", "week9"}
         /\ app = "week5" => LoggerAt = 2 /\ HandlerAt = 5
         /\ app = "week9" => LoggerAt = 1 /\ HandlerAt = 2
  <1>1. Web!MintedBy(r) \in AllIds /\ WebId(r) \in AllIds
    BY DEF WebInv, WebTypes, AllIds, WebId
  <1> HIDE DEF AllIds, LogLines
  <1>2. Comes(r) /\ Knows(r) /\ Says(r)
    BY DEF WebInv
  <1>3. /\ depth[r] \in 0..5 /\ way[r] \in {"down", "up", "panic", "done"}
        /\ rec[r] \in {200, 404, 500} /\ wire[r] \in {0, 200, 404, 500}
    BY DEF WebInv, WebTypes
  <1>4. /\ {ctxId[r], lineId[r], echoed[r], WebId(r), Web!MintedBy(r)} \subseteq AllIds
        /\ lines[r] \in Seq(LogLines) /\ path[r] \in Web!Paths(app)
    BY <1>1 DEF WebInv, WebTypes
  <1>5. app \in {"week5", "week9"}
    BY DEF WebInv, WebTypes, Web!Apps
  <1> QED BY <1>2, <1>3, <1>4, <1>5, WebPlaces

LEMMA TypedThen ==
  ASSUME NEW r \in WebRequests,
         depth'[r] \in 0..5, way'[r] \in {"down", "up", "panic", "done"},
         {ctxId'[r], lineId'[r], echoed'[r]} \subseteq AllIds,
         rec'[r] \in {200, 404, 500}, wire'[r] \in {0, 200, 404, 500}, lines'[r] \in Seq(LogLines)
  PROVE  Typed(r)'
  <1>1. AllIds' = AllIds /\ LogLines' = LogLines
    BY DEF AllIds, LogLines
  <1> HIDE DEF AllIds, LogLines
  <1> QED BY <1>1 DEF Typed

(* What r alone may have changed, an action's assignments show. *)
Solo(f, g, r) == g = f \/ \E v : g = [f EXCEPT ![r] = v]

LEMMA SoloOnly ==
  ASSUME WebTypes, NEW r \in WebRequests
  PROVE  /\ Solo(depth, depth', r) => Only(depth, depth', r)
         /\ Solo(way, way', r) => Only(way, way', r)
         /\ Solo(ctxId, ctxId', r) => Only(ctxId, ctxId', r)
         /\ Solo(lineId, lineId', r) => Only(lineId, lineId', r)
         /\ Solo(echoed, echoed', r) => Only(echoed, echoed', r)
         /\ Solo(rec, rec', r) => Only(rec, rec', r)
         /\ Solo(wire, wire', r) => Only(wire, wire', r)
         /\ Solo(lines, lines', r) => Only(lines, lines', r)
  <1>1. Solo(depth, depth', r) => Only(depth, depth', r)
    <2>1. depth \in [WebRequests -> 0..5]
      BY DEF WebTypes
    <2> QED BY <2>1, Changed, Zenon DEF Solo
  <1>2. Solo(way, way', r) => Only(way, way', r)
    <2>1. way \in [WebRequests -> {"down", "up", "panic", "done"}]
      BY DEF WebTypes
    <2> QED BY <2>1, Changed, Zenon DEF Solo
  <1>3. Solo(ctxId, ctxId', r) => Only(ctxId, ctxId', r)
    <2>1. ctxId \in [WebRequests -> AllIds]
      BY DEF WebTypes
    <2> QED BY <2>1, Changed, Zenon DEF Solo
  <1>4. Solo(lineId, lineId', r) => Only(lineId, lineId', r)
    <2>1. lineId \in [WebRequests -> AllIds]
      BY DEF WebTypes
    <2> QED BY <2>1, Changed, Zenon DEF Solo
  <1>5. Solo(echoed, echoed', r) => Only(echoed, echoed', r)
    <2>1. echoed \in [WebRequests -> AllIds]
      BY DEF WebTypes
    <2> QED BY <2>1, Changed, Zenon DEF Solo
  <1>6. Solo(rec, rec', r) => Only(rec, rec', r)
    <2> DEFINE T == {200, 404, 500}
    <2>1. rec \in [WebRequests -> T]
      BY DEF WebTypes
    <2> HIDE DEF T
    <2> QED BY <2>1, Changed, Zenon DEF Solo
  <1>7. Solo(wire, wire', r) => Only(wire, wire', r)
    <2> DEFINE T == {0, 200, 404, 500}
    <2>1. wire \in [WebRequests -> T]
      BY DEF WebTypes
    <2> HIDE DEF T
    <2> QED BY <2>1, Changed, Zenon DEF Solo
  <1>8. Solo(lines, lines', r) => Only(lines, lines', r)
    <2>1. lines \in [WebRequests -> Seq(LogLines)]
      BY DEF WebTypes
    <2> QED BY <2>1, Changed, Zenon DEF Solo
  <1> QED BY <1>1, <1>2, <1>3, <1>4, <1>5, <1>6, <1>7, <1>8

LEMMA WebSolely == ASSUME WebTypes, NEW r \in WebRequests, Web!Step(r) PROVE Solely(r)
  <1> DEFINE Its == /\ app' = app /\ path' = path /\ sent' = sent
                    /\ Solo(depth, depth', r) /\ Solo(way, way', r) /\ Solo(ctxId, ctxId', r)
                    /\ Solo(lineId, lineId', r) /\ Solo(echoed, echoed', r) /\ Solo(rec, rec', r)
                    /\ Solo(wire, wire', r) /\ Solo(lines, lines', r)
  <1>1. \A l : Web!Log(r, l) => Solo(lines, lines', r)
    BY Zenon DEF Web!Log, Solo
  <1>2. \A m, lv : Web!HandlerLogs(r, m, lv) => Solo(lines, lines', r)
    BY <1>1, Zenon DEF Web!HandlerLogs, Solo
  <1>3. \A d, st : Web!WriteHeader(r, d, st) => Solo(rec, rec', r) /\ Solo(wire, wire', r)
    <2>1. ASSUME NEW d, NEW st, Web!WriteHeader(r, d, st)
          PROVE  Solo(rec, rec', r) /\ Solo(wire, wire', r)
      BY <2>1, Zenon DEF Web!WriteHeader, Solo
    <2> QED BY <2>1
  <1>4. \A by : Web!Move(r, by) => Solo(depth, depth', r)
    BY Zenon DEF Web!Move, Solo
  <1>5. \A f : Solo(f, f, r) /\ \A v : Solo(f, [f EXCEPT ![r] = v], r)
    BY Zenon DEF Solo
  <1>6. Web!EnterRequestID(r) => Its
    <2>1. Web!EnterRequestID(r) => UNCHANGED <<app, path, sent, way, lineId, rec, wire, lines>>
      BY Zenon DEF Web!EnterRequestID
    <2>2. Web!EnterRequestID(r) => Solo(depth, depth', r)
      BY <1>4, Zenon DEF Web!EnterRequestID
    <2>3. Web!EnterRequestID(r) => Solo(ctxId, ctxId', r) /\ Solo(echoed, echoed', r)
      <3>1. PICK id : id = IF sent[r] = NoId THEN Web!MintedBy(r) ELSE sent[r]
        OBVIOUS
      <3>2. Web!EnterRequestID(r) => ctxId' = [ctxId EXCEPT ![r] = id] /\ echoed' = [echoed EXCEPT ![r] = id]
        BY <3>1 DEF Web!EnterRequestID
      <3> QED BY <1>5, <3>2, Zenon
    <2> QED BY <2>1, <2>2, <2>3, <1>5
  <1>7. Web!EnterLogger(r) => Its
    BY <1>1, <1>2, <1>3, <1>4, <1>5 DEF Web!EnterLogger
  <1>8. Web!EnterRequestLogger(r) => Its
    BY <1>1, <1>2, <1>3, <1>4, <1>5 DEF Web!EnterRequestLogger
  <1>9. Web!EnterOther(r) => Its
    BY <1>1, <1>2, <1>3, <1>4, <1>5 DEF Web!EnterOther
  <1>10. Web!Body(r) => Its
    <2>1. Web!Body(r) => UNCHANGED <<app, path, sent, ctxId, lineId, rec, echoed>>
      BY Zenon DEF Web!Body
    <2>2. Web!Body(r) => Solo(depth, depth', r)
      BY <1>4, Zenon DEF Web!Body
    <2>3. Web!Body(r) => Solo(way, way', r)
      BY <1>5 DEF Web!Body
    <2>4. Web!Body(r) => Solo(wire, wire', r)
      <3>1. PICK ok : ok = 200
        OBVIOUS
      <3>2. Web!Body(r) => wire' = [wire EXCEPT ![r] = ok]
        BY <3>1 DEF Web!Body
      <3> QED BY <1>5, <3>2, Zenon
    <2>5. Web!Body(r) => Solo(lines, lines', r)
      BY <1>2, Zenon DEF Web!Body
    <2> QED BY <2>1, <2>2, <2>3, <2>4, <2>5, <1>5
  <1>11. Web!Error(r) => Its
    <2>1. Web!Error(r) => UNCHANGED <<app, path, sent, ctxId, lineId, echoed>>
      BY Zenon DEF Web!Error
    <2>2. Web!Error(r) => Solo(depth, depth', r)
      BY <1>4, Zenon DEF Web!Error
    <2>3. Web!Error(r) => Solo(way, way', r)
      BY <1>5 DEF Web!Error
    <2>4. Web!Error(r) => Solo(rec, rec', r) /\ Solo(wire, wire', r)
      BY <1>3 DEF Web!Error
    <2>5. Web!Error(r) => Solo(lines, lines', r)
      BY <1>2, Zenon DEF Web!Error
    <2> QED BY <2>1, <2>2, <2>3, <2>4, <2>5, <1>5
  <1>12. Web!Boom(r) => Its
    BY <1>1, <1>2, <1>3, <1>4, <1>5 DEF Web!Boom
  <1>13. Web!LeaveLogger(r) => Its
    BY <1>1, <1>2, <1>3, <1>4, <1>5 DEF Web!LeaveLogger
  <1>14. Web!LeaveRequestLogger(r) => Its
    BY <1>1, <1>2, <1>3, <1>4, <1>5 DEF Web!LeaveRequestLogger
  <1>15. Web!LeaveOther(r) => Its
    BY <1>1, <1>2, <1>3, <1>4, <1>5 DEF Web!LeaveOther
  <1>16. Web!Unwind(r) => Its
    BY <1>1, <1>2, <1>3, <1>4, <1>5 DEF Web!Unwind
  <1>17. Web!Recover(r) => Its
    <2>1. Web!Recover(r) => UNCHANGED <<app, path, sent, ctxId, lineId, echoed>>
      BY Zenon DEF Web!Recover
    <2>2. Web!Recover(r) => Solo(depth, depth', r)
      BY <1>4, Zenon DEF Web!Recover
    <2>3. Web!Recover(r) => Solo(way, way', r)
      BY <1>5 DEF Web!Recover
    <2>4. Web!Recover(r) => Solo(rec, rec', r) /\ Solo(wire, wire', r)
      BY <1>3 DEF Web!Recover
    <2>5. Web!Recover(r) => Solo(lines, lines', r)
      BY <1>1, Zenon DEF Web!Recover
    <2> QED BY <2>1, <2>2, <2>3, <2>4, <2>5, <1>5
  <1>18. Web!Finish(r) => Its
    BY <1>1, <1>2, <1>3, <1>4, <1>5 DEF Web!Finish
  <1> HIDE DEF Its
  <1>19. Its
    BY <1>6, <1>7, <1>8, <1>9, <1>10, <1>11, <1>12, <1>13, <1>14, <1>15, <1>16, <1>17, <1>18 DEF Web!Step
  <1> QED BY <1>19, SoloOnly, Zenon DEF Its, Solely

LEMMA DownStep == ASSUME WebInv, NEW r \in WebRequests, Downward(r) PROVE WebInv'
  <1> USE DEF Web!Move, Web!Log
  <1>0. WebTypes /\ app \in Web!Apps
    BY DEF WebInv, WebTypes
  <1>1. CASE Web!EnterRequestID(r)
    <2>1. Solely(r)
      BY <1>0, <1>1, WebSolely DEF Web!Step
    <2>2. /\ app = "week5" /\ way[r] = "down" /\ depth[r] = 1
          /\ depth'[r] = 2 /\ ctxId'[r] = WebId(r) /\ echoed'[r] = WebId(r)
          /\ way'[r] = way[r] /\ lineId'[r] = lineId[r] /\ rec'[r] = rec[r] /\ wire'[r] = wire[r]
          /\ lines'[r] = lines[r]
      BY <1>0, <1>1, WebFrames DEF Web!EnterRequestID, WebTypes, WebId
    <2>3. app' = app /\ WebId(r)' = WebId(r) /\ LoggerAt' = 2 /\ HandlerAt' = 5
      BY <2>1, <2>2 DEF Solely, WebId, LoggerAt, HandlerAt
    <2>4. Comes(r)' /\ Knows(r)'
      BY <2>2, <2>3, WebBefore DEF Comes, Knows, Inside
    <2>5. Says(r)'
      BY <2>1, <2>2, <2>3, QuietLines DEF Solely, Inside, Logged
    <2>6. Typed(r)'
      BY <2>2, <2>3, WebBefore, TypedThen
    <2> QED BY <2>1, <2>4, <2>5, <2>6, WebOthers
  <1>2. CASE Web!EnterLogger(r)
    <2>1. Solely(r)
      BY <1>0, <1>2, WebSolely DEF Web!Step
    <2>2. /\ app = "week5" /\ way[r] = "down" /\ depth[r] = 2
          /\ depth'[r] = 3 /\ lineId'[r] = ctxId[r]
          /\ way'[r] = way[r] /\ ctxId'[r] = ctxId[r] /\ echoed'[r] = echoed[r]
          /\ rec'[r] = rec[r] /\ wire'[r] = wire[r] /\ lines'[r] = lines[r]
      BY <1>0, <1>2, WebFrames DEF Web!EnterLogger, WebTypes
    <2>3. app' = app /\ WebId(r)' = WebId(r) /\ LoggerAt' = 2 /\ HandlerAt' = 5
      BY <2>1, <2>2 DEF Solely, WebId, LoggerAt, HandlerAt
    <2>4. Comes(r)' /\ Knows(r)'
      BY <2>2, <2>3, WebBefore DEF Comes, Knows, Inside
    <2>5. Says(r)'
      BY <2>1, <2>2, <2>3, QuietLines DEF Solely, Inside, Logged
    <2>6. Typed(r)'
      BY <2>2, <2>3, WebBefore, TypedThen
    <2> QED BY <2>1, <2>4, <2>5, <2>6, WebOthers
  <1>3. CASE Web!EnterRequestLogger(r)
    <2> DEFINE l == Web!Line("started", "INFO", 0, Web!MintedBy(r))
    <2>1. Solely(r)
      BY <1>0, <1>3, WebSolely DEF Web!Step
    <2>2. /\ app = "week9" /\ way[r] = "down" /\ depth[r] = 1
          /\ depth'[r] = 2 /\ ctxId'[r] = Web!MintedBy(r) /\ lineId'[r] = Web!MintedBy(r)
          /\ way'[r] = way[r] /\ echoed'[r] = echoed[r] /\ rec'[r] = rec[r] /\ wire'[r] = wire[r]
      BY <1>0, <1>3, WebFrames DEF Web!EnterRequestLogger, WebTypes
    <2>3. /\ app' = app /\ LoggerAt' = 1 /\ HandlerAt' = 2 /\ LoggerAt = 1
          /\ WebId(r) = Web!MintedBy(r) /\ WebId(r)' = Web!MintedBy(r)
      BY <2>1, <2>2 DEF Solely, WebId, LoggerAt, HandlerAt
    <2>4. Comes(r)' /\ Knows(r)'
      BY <2>2, <2>3, WebBefore DEF Comes, Knows, Inside
    <2>5. l \in LogLines /\ l.id = WebId(r) /\ l.msg = "started"
      BY <2>3, WebBefore DEF LogLines, Web!Line
    <2>6. lines'[r] = Append(lines[r], l)
      BY <1>0, <1>3 DEF Web!EnterRequestLogger, WebTypes
    <2> HIDE DEF l
    <2>7. Says(r)' /\ lines'[r] \in Seq(LogLines)
      <3>1. Inside(r)' /\ ~Logged(r) /\ ~Logged(r)'
        BY <2>2, <2>3 DEF Inside, Logged
      <3> QED BY <2>1, <2>5, <2>6, <3>1, LogsLine DEF Solely
    <2>8. Typed(r)'
      BY <2>2, <2>3, <2>7, WebBefore, TypedThen
    <2> QED BY <2>1, <2>4, <2>7, <2>8, WebOthers
  <1>4. CASE Web!EnterOther(r)
    <2>1. Solely(r)
      BY <1>0, <1>4, WebSolely DEF Web!Step
    <2>2. /\ app = "week5" /\ way[r] = "down" /\ depth[r] \in {3, 4}
          /\ depth'[r] = depth[r] + 1 /\ lineId'[r] = lineId[r]
          /\ way'[r] = way[r] /\ ctxId'[r] = ctxId[r] /\ echoed'[r] = echoed[r]
          /\ rec'[r] = rec[r] /\ wire'[r] = wire[r] /\ lines'[r] = lines[r]
      BY <1>0, <1>4, WebFrames DEF Web!EnterOther, WebTypes
    <2>3. app' = app /\ WebId(r)' = WebId(r) /\ LoggerAt' = 2 /\ HandlerAt' = 5
      BY <2>1, <2>2 DEF Solely, WebId, LoggerAt, HandlerAt
    <2>4. Comes(r)' /\ Knows(r)'
      BY <2>2, <2>3, WebBefore DEF Comes, Knows, Inside
    <2>5. Says(r)'
      BY <2>1, <2>2, <2>3, QuietLines DEF Solely, Inside, Logged
    <2>6. Typed(r)'
      BY <2>2, <2>3, WebBefore, TypedThen
    <2> QED BY <2>1, <2>4, <2>5, <2>6, WebOthers
  <1> QED BY <1>1, <1>2, <1>3, <1>4 DEF Downward

(* The handler answers, or panics, having logged at most one line. *)
LEMMA HandlerSays ==
  ASSUME WebInv, NEW r \in WebRequests, Solely(r), way[r] = "down", depth[r] = HandlerAt,
         ~Logged(r)', Inside(r)', NEW m \in {"fetching", "failure"}, NEW lv \in {"INFO", "ERROR"},
         Web!HandlerLogs(r, m, lv) \/ UNCHANGED lines
  PROVE  Says(r)' /\ lines'[r] \in Seq(LogLines)
  <1>1. Inside(r) /\ ~Logged(r) /\ ctxId[r] = WebId(r)
    BY WebBefore DEF Inside, Logged, Knows
  <1>2. CASE lines' = lines
    BY <1>1, <1>2, QuietLines, WebBefore DEF Solely, LogLines, AllIds
  <1>3. CASE lines' # lines
    <2> DEFINE l == Web!Line(m, lv, 0, ctxId[r])
    <2>1. l \in LogLines /\ l.id = WebId(r) /\ l.msg = m
      BY <1>1, WebBefore DEF LogLines, Web!Line
    <2>2. lines'[r] = Append(lines[r], l)
      BY <1>3 DEF WebInv, WebTypes, Web!HandlerLogs, Web!Log
    <2> HIDE DEF l
    <2> QED BY <1>1, <2>1, <2>2, LogsLine DEF Solely
  <1> QED BY <1>2, <1>3

LEMMA HandlerStep == ASSUME WebInv, NEW r \in WebRequests, AtHandler(r) PROVE WebInv'
  <1> USE DEF Web!Move
  <1>0. WebTypes /\ app \in Web!Apps
    BY DEF WebInv, WebTypes
  <1>1. CASE Web!Body(r)
    <2>1. Solely(r)
      BY <1>0, <1>1, WebSolely DEF Web!Step
    <2>2. /\ way[r] = "down" /\ depth[r] = HandlerAt
          /\ depth'[r] = HandlerAt - 1 /\ way'[r] = "up" /\ wire'[r] = 200 /\ rec'[r] = rec[r]
          /\ ctxId'[r] = ctxId[r] /\ lineId'[r] = lineId[r] /\ echoed'[r] = echoed[r]
          /\ path[r] \in {"ok", "notes"}
      BY <1>0, <1>1, WebFrames, WebPlaces DEF Web!Body, WebTypes
    <2>3. /\ app' = app /\ path' = path /\ LoggerAt' = LoggerAt /\ HandlerAt' = HandlerAt
          /\ WebId(r)' = WebId(r) /\ StatusOf(r)' = 200
      BY <2>1, <2>2 DEF Solely, WebId, StatusOf, LoggerAt, HandlerAt
    <2>4. Comes(r)' /\ Knows(r)'
      BY <2>2, <2>3, WebBefore DEF Comes, Knows, Inside
    <2>5. Inside(r)' /\ ~Logged(r)'
      BY <2>2, <2>3, WebBefore DEF Inside, Logged
    <2>6. Says(r)' /\ lines'[r] \in Seq(LogLines)
      BY <1>1, <2>1, <2>2, <2>5, HandlerSays DEF Web!Body
    <2>7. Typed(r)'
      BY <2>2, <2>3, <2>6, WebBefore, TypedThen
    <2> QED BY <2>1, <2>4, <2>6, <2>7, WebOthers
  <1>2. CASE Web!Error(r)
    <2>1. Solely(r)
      BY <1>0, <1>2, WebSolely DEF Web!Step
    <2>2. /\ way[r] = "down" /\ depth[r] = HandlerAt /\ path[r] \in {"boom", "other"}
          /\ depth'[r] = HandlerAt - 1 /\ way'[r] = "up"
          /\ ctxId'[r] = ctxId[r] /\ lineId'[r] = lineId[r] /\ echoed'[r] = echoed[r]
      BY <1>0, <1>2, WebFrames, WebPlaces DEF Web!Error, WebTypes
    <2>3. /\ app' = app /\ path' = path /\ LoggerAt' = LoggerAt /\ HandlerAt' = HandlerAt
          /\ WebId(r)' = WebId(r) /\ StatusOf(r)' = IF path[r] = "boom" THEN 500 ELSE 404
      BY <2>1, <2>2 DEF Solely, WebId, StatusOf, LoggerAt, HandlerAt
    <2>4. rec'[r] = StatusOf(r)' /\ wire'[r] = StatusOf(r)'
      <3>1. \E i \in 1..depth[r] - 1 : Web!Chain(app)[i] \in Web!Recorders
        BY <1>0, <2>2, WebFrames, WebPlaces
      <3>2. wire[r] = 0
        BY <2>2, WebBefore DEF Comes
      <3> QED BY <1>0, <1>2, <2>3, <3>1, <3>2 DEF Web!Error, Web!WriteHeader, WebTypes
    <2>5. Comes(r)' /\ Knows(r)'
      BY <2>2, <2>3, <2>4, WebBefore DEF Comes, Knows, Inside
    <2>6. Inside(r)' /\ ~Logged(r)'
      BY <2>2, <2>3, WebBefore DEF Inside, Logged
    <2>7. Says(r)' /\ lines'[r] \in Seq(LogLines)
      BY <1>2, <2>1, <2>2, <2>6, HandlerSays DEF Web!Error
    <2>8. Typed(r)'
      BY <2>2, <2>3, <2>4, <2>7, WebBefore, TypedThen
    <2> QED BY <2>1, <2>5, <2>7, <2>8, WebOthers
  <1>3. CASE Web!Boom(r)
    <2>1. Solely(r)
      BY <1>0, <1>3, WebSolely DEF Web!Step
    <2>2. /\ way[r] = "down" /\ depth[r] = HandlerAt
          /\ depth'[r] = HandlerAt - 1 /\ way'[r] = "panic" /\ wire'[r] = wire[r] /\ rec'[r] = rec[r]
          /\ ctxId'[r] = ctxId[r] /\ lineId'[r] = lineId[r] /\ echoed'[r] = echoed[r]
          /\ path[r] = "panic" /\ app = "week5" /\ lines' = lines
      <3>1. path[r] = "panic" /\ path[r] \in Web!Paths(app)
        BY <1>0, <1>3 DEF Web!Boom, WebTypes
      <3>2. app = "week5"
        BY <1>0, <3>1 DEF Web!Apps, Web!Paths
      <3> QED BY <1>0, <1>3, <3>1, <3>2, WebFrames, WebPlaces DEF Web!Boom, WebTypes
    <2>3. /\ app' = app /\ path' = path /\ LoggerAt' = 2 /\ HandlerAt' = 5 /\ HandlerAt = 5
          /\ WebId(r)' = WebId(r)
      BY <2>1, <2>2 DEF Solely, WebId, LoggerAt, HandlerAt
    <2>4. Comes(r)' /\ Knows(r)'
      BY <2>2, <2>3, WebBefore DEF Comes, Knows, Inside
    <2>5. Inside(r)' /\ ~Logged(r)'
      BY <2>2, <2>3, WebBefore DEF Inside, Logged
    <2>6. Says(r)' /\ lines'[r] \in Seq(LogLines)
      BY <2>1, <2>2, <2>5, HandlerSays
    <2>7. Typed(r)'
      BY <2>2, <2>3, <2>6, WebBefore, TypedThen
    <2> QED BY <2>1, <2>4, <2>6, <2>7, WebOthers
  <1> QED BY <1>1, <1>2, <1>3 DEF AtHandler

LEMMA UpStep == ASSUME WebInv, NEW r \in WebRequests, Upward(r) PROVE WebInv'
  <1> USE DEF Web!Move, Web!Log
  <1>0. WebTypes /\ app \in Web!Apps
    BY DEF WebInv, WebTypes
  <1>1. CASE Web!LeaveLogger(r)
    <2> DEFINE l == Web!Line("completed", IF rec[r] >= 500 THEN "ERROR" ELSE "INFO", rec[r], lineId[r])
    <2>1. Solely(r)
      BY <1>0, <1>1, WebSolely DEF Web!Step
    <2>2. /\ app = "week5" /\ way[r] = "up" /\ depth[r] = 2
          /\ depth'[r] = 1 /\ way'[r] = way[r] /\ ctxId'[r] = ctxId[r] /\ lineId'[r] = lineId[r]
          /\ echoed'[r] = echoed[r] /\ rec'[r] = rec[r] /\ wire'[r] = wire[r]
      <3> HIDE DEF l
      <3> QED BY <1>0, <1>1, WebFrames DEF Web!LeaveLogger, WebTypes
    <2>3. /\ app' = app /\ path' = path /\ LoggerAt' = 2 /\ LoggerAt = 2 /\ HandlerAt' = HandlerAt
          /\ WebId(r)' = WebId(r) /\ StatusOf(r)' = StatusOf(r)
      BY <2>1, <2>2 DEF Solely, WebId, StatusOf, LoggerAt, HandlerAt
    <2>4. Comes(r)' /\ Knows(r)'
      BY <2>2, <2>3, WebBefore DEF Comes, Knows, Inside
    <2>5. rec[r] = wire[r] /\ lineId[r] = WebId(r) /\ rec[r] \in {200, 404, 500}
      BY <2>2, WebBefore DEF Comes, Knows
    <2>6. l \in LogLines /\ l.id = WebId(r) /\ l.msg = "completed" /\ l.status = wire'[r]
      BY <2>2, <2>5, WebBefore DEF LogLines, Web!Line
    <2>7. lines'[r] = Append(lines[r], l)
      BY <1>0, <1>1 DEF Web!LeaveLogger, WebTypes
    <2>8. Inside(r)' /\ ~Logged(r) /\ Logged(r)'
      BY <2>2, <2>3 DEF Inside, Logged
    <2> HIDE DEF l
    <2>9. Says(r)' /\ lines'[r] \in Seq(LogLines)
      BY <2>1, <2>6, <2>7, <2>8, LogsLine DEF Solely
    <2>10. Typed(r)'
      BY <2>2, <2>9, WebBefore, TypedThen
    <2> QED BY <2>1, <2>4, <2>9, <2>10, WebOthers
  <1>2. CASE Web!LeaveRequestLogger(r)
    <2> DEFINE l == Web!Line("completed", "INFO", rec[r], lineId[r])
    <2>1. Solely(r)
      BY <1>0, <1>2, WebSolely DEF Web!Step
    <2>2. /\ app = "week9" /\ way[r] = "up" /\ depth[r] = 1
          /\ depth'[r] = 0 /\ way'[r] = way[r] /\ ctxId'[r] = ctxId[r] /\ lineId'[r] = lineId[r]
          /\ echoed'[r] = echoed[r] /\ rec'[r] = rec[r] /\ wire'[r] = wire[r]
      <3> HIDE DEF l
      <3> QED BY <1>0, <1>2, WebFrames DEF Web!LeaveRequestLogger, WebTypes
    <2>3. /\ app' = app /\ path' = path /\ LoggerAt' = 1 /\ LoggerAt = 1 /\ HandlerAt' = HandlerAt
          /\ WebId(r)' = WebId(r) /\ StatusOf(r)' = StatusOf(r)
      BY <2>1, <2>2 DEF Solely, WebId, StatusOf, LoggerAt, HandlerAt
    <2>4. Comes(r)' /\ Knows(r)'
      BY <2>2, <2>3, WebBefore DEF Comes, Knows, Inside
    <2>5. rec[r] = wire[r] /\ lineId[r] = WebId(r) /\ rec[r] \in {200, 404, 500}
      BY <2>2, WebBefore DEF Comes, Knows
    <2>6. l \in LogLines /\ l.id = WebId(r) /\ l.msg = "completed" /\ l.status = wire'[r]
      BY <2>2, <2>5, WebBefore DEF LogLines, Web!Line
    <2>7. lines'[r] = Append(lines[r], l)
      BY <1>0, <1>2 DEF Web!LeaveRequestLogger, WebTypes
    <2>8. Inside(r)' /\ ~Logged(r) /\ Logged(r)'
      BY <2>2, <2>3 DEF Inside, Logged
    <2> HIDE DEF l
    <2>9. Says(r)' /\ lines'[r] \in Seq(LogLines)
      BY <2>1, <2>6, <2>7, <2>8, LogsLine DEF Solely
    <2>10. Typed(r)'
      BY <2>2, <2>9, WebBefore, TypedThen
    <2> QED BY <2>1, <2>4, <2>9, <2>10, WebOthers
  <1>3. CASE Web!LeaveOther(r)
    <2>1. Solely(r)
      BY <1>0, <1>3, WebSolely DEF Web!Step
    <2>2. /\ way[r] = "up" /\ way'[r] = "up" /\ depth[r] > 0
          /\ depth[r] # LoggerAt /\ depth'[r] = depth[r] - 1
          /\ ctxId'[r] = ctxId[r] /\ lineId'[r] = lineId[r] /\ echoed'[r] = echoed[r]
          /\ rec'[r] = rec[r] /\ wire'[r] = wire[r] /\ lines'[r] = lines[r]
      <3>1. way[r] = "up" /\ depth[r] > 0 /\ depth[r] # LoggerAt
        BY <1>0, <1>3, WebFrames DEF Web!LeaveOther
      <3>2. /\ depth' = [depth EXCEPT ![r] = @ - 1]
            /\ way' = way /\ ctxId' = ctxId /\ lineId' = lineId /\ echoed' = echoed
            /\ rec' = rec /\ wire' = wire /\ lines' = lines
        BY <1>3 DEF Web!LeaveOther
      <3>3. depth'[r] = depth[r] - 1
        BY <1>0, <3>2 DEF WebTypes
      <3> QED BY <3>1, <3>2, <3>3
    <2>3. /\ app' = app /\ path' = path /\ LoggerAt' = LoggerAt /\ HandlerAt' = HandlerAt
          /\ WebId(r)' = WebId(r) /\ StatusOf(r)' = StatusOf(r)
      BY <2>1, <2>2 DEF Solely, WebId, StatusOf, LoggerAt, HandlerAt
    <2>4. Comes(r)' /\ Knows(r)'
      BY <2>2, <2>3, WebBefore DEF Comes, Knows, Inside
    <2>5. Inside(r) /\ Inside(r)' /\ (Logged(r)' <=> Logged(r))
      BY <2>2, <2>3, WebBefore DEF Comes, Inside, Logged
    <2>6. Says(r)'
      BY <2>1, <2>2, <2>5, QuietLines DEF Solely
    <2>7. Typed(r)'
      BY <2>2, WebBefore, TypedThen
    <2> QED BY <2>1, <2>4, <2>6, <2>7, WebOthers
  <1>4. CASE Web!Unwind(r)
    <2>1. Solely(r)
      BY <1>0, <1>4, WebSolely DEF Web!Step
    <2>2. /\ way[r] = "panic" /\ way'[r] = "panic" /\ depth'[r] = depth[r] - 1
          /\ ~(app = "week5" /\ depth[r] = 3)
          /\ ctxId'[r] = ctxId[r] /\ lineId'[r] = lineId[r] /\ echoed'[r] = echoed[r]
          /\ rec'[r] = rec[r] /\ wire'[r] = wire[r] /\ lines'[r] = lines[r]
      <3>1. way[r] = "panic" /\ ~(app = "week5" /\ depth[r] = 3)
        BY <1>0, <1>4, WebFrames DEF Web!Unwind
      <3>2. /\ depth' = [depth EXCEPT ![r] = @ - 1]
            /\ way' = way /\ ctxId' = ctxId /\ lineId' = lineId /\ echoed' = echoed
            /\ rec' = rec /\ wire' = wire /\ lines' = lines
        BY <1>4 DEF Web!Unwind
      <3>3. depth'[r] = depth[r] - 1
        BY <1>0, <3>2 DEF WebTypes
      <3> QED BY <3>1, <3>2, <3>3
    <2>3. /\ app' = app /\ path' = path /\ LoggerAt' = LoggerAt /\ HandlerAt' = HandlerAt
          /\ WebId(r)' = WebId(r) /\ StatusOf(r)' = StatusOf(r)
      BY <2>1, <2>2 DEF Solely, WebId, StatusOf, LoggerAt, HandlerAt
    <2>4. Comes(r)' /\ Knows(r)'
      BY <2>2, <2>3, WebBefore DEF Comes, Knows, Inside
    <2>5. Inside(r) /\ Inside(r)' /\ (Logged(r)' <=> Logged(r))
      BY <2>2, <2>3, WebBefore DEF Comes, Inside, Logged
    <2>6. Says(r)'
      BY <2>1, <2>2, <2>5, QuietLines DEF Solely
    <2>7. Typed(r)'
      <3>1. depth[r] > 0 /\ depth[r] \in 0..5
        BY <1>0, <1>4 DEF Web!Unwind, WebTypes
      <3>2. depth'[r] \in 0..5
        BY <2>2, <3>1
      <3> QED BY <2>2, <3>2, WebBefore, TypedThen
    <2> QED BY <2>1, <2>4, <2>6, <2>7, WebOthers
  <1>5. CASE Web!Recover(r)
    <2> DEFINE l == Web!Line("recovered", "ERROR", 500, ctxId[r])
    <2>1. Solely(r)
      BY <1>0, <1>5, WebSolely DEF Web!Step
    <2>2. /\ app = "week5" /\ way[r] = "panic" /\ depth[r] = 3
          /\ depth'[r] = 2 /\ way'[r] = "up"
          /\ ctxId'[r] = ctxId[r] /\ lineId'[r] = lineId[r] /\ echoed'[r] = echoed[r]
      <3> HIDE DEF l
      <3> QED BY <1>0, <1>5, WebFrames DEF Web!Recover, WebTypes
    <2>3. path[r] = "panic" /\ wire[r] = 0 /\ ctxId[r] = WebId(r)
      BY <2>2, WebBefore DEF Comes, Knows, Inside
    <2>4. /\ app' = app /\ path' = path /\ LoggerAt' = 2 /\ HandlerAt' = 5 /\ LoggerAt = 2
          /\ WebId(r)' = WebId(r) /\ StatusOf(r)' = 500
      BY <2>1, <2>2, <2>3 DEF Solely, WebId, StatusOf, LoggerAt, HandlerAt
    <2>5. rec'[r] = 500 /\ wire'[r] = 500
      <3>1. \E i \in 1..depth[r] - 1 : Web!Chain(app)[i] \in Web!Recorders
        BY <1>0, <2>2, <2>4, WebFrames
      <3>2. Web!WriteHeader(r, depth[r], 500)
        BY <1>5 DEF Web!Recover
      <3> QED BY <1>0, <2>3, <3>1, <3>2 DEF Web!WriteHeader, WebTypes
    <2>6. Comes(r)' /\ Knows(r)'
      BY <2>2, <2>4, <2>5, WebBefore DEF Comes, Knows, Inside
    <2>7. l \in LogLines /\ l.id = WebId(r) /\ l.msg = "recovered"
      BY <2>3, WebBefore DEF LogLines, Web!Line
    <2>8. lines'[r] = Append(lines[r], l)
      BY <1>0, <1>5 DEF Web!Recover, WebTypes
    <2>9. Inside(r)' /\ ~Logged(r) /\ ~Logged(r)'
      BY <2>2, <2>4 DEF Inside, Logged
    <2> HIDE DEF l
    <2>10. Says(r)' /\ lines'[r] \in Seq(LogLines)
      BY <2>1, <2>7, <2>8, <2>9, LogsLine DEF Solely
    <2>11. Typed(r)'
      BY <2>2, <2>5, <2>10, WebBefore, TypedThen
    <2> QED BY <2>1, <2>6, <2>10, <2>11, WebOthers
  <1>6. CASE Web!Finish(r)
    <2>1. Solely(r)
      BY <1>0, <1>6, WebSolely DEF Web!Step
    <2>2. /\ way[r] \in {"up", "panic"} /\ way'[r] = "done"
          /\ depth[r] = 0 /\ depth'[r] = depth[r]
          /\ ctxId'[r] = ctxId[r] /\ lineId'[r] = lineId[r] /\ echoed'[r] = echoed[r]
          /\ rec'[r] = rec[r] /\ wire'[r] = wire[r] /\ lines'[r] = lines[r]
      BY <1>0, <1>6, WebFrames DEF Web!Finish, WebTypes
    <2>3. /\ app' = app /\ path' = path /\ LoggerAt' = LoggerAt /\ HandlerAt' = HandlerAt
          /\ WebId(r)' = WebId(r) /\ StatusOf(r)' = StatusOf(r)
      BY <2>1, <2>2 DEF Solely, WebId, StatusOf, LoggerAt, HandlerAt
    <2>4. Comes(r)' /\ Knows(r)'
      BY <2>2, <2>3, WebBefore DEF Comes, Knows, Inside
    <2>5. Inside(r) /\ Inside(r)' /\ (Logged(r)' <=> Logged(r))
      BY <2>2, <2>3, WebBefore DEF Comes, Inside, Logged
    <2>6. Says(r)'
      BY <2>1, <2>2, <2>5, QuietLines DEF Solely
    <2>7. Typed(r)'
      BY <2>2, WebBefore, TypedThen
    <2> QED BY <2>1, <2>4, <2>6, <2>7, WebOthers
  <1> QED BY <1>1, <1>2, <1>3, <1>4, <1>5, <1>6 DEF Upward

LEMMA WebStep == ASSUME WebInv, [Web!Next]_(Web!vars) PROVE WebInv'
  <1>1. CASE UNCHANGED Web!vars
    <2>1. ASSUME NEW r \in WebRequests PROVE (Comes(r) /\ Knows(r) /\ Says(r))'
      <3>1. /\ app' = app /\ path' = path /\ sent' = sent /\ depth' = depth /\ way' = way
            /\ ctxId' = ctxId /\ lineId' = lineId /\ echoed' = echoed /\ rec' = rec /\ wire' = wire
            /\ lines' = lines
        BY <1>1 DEF Web!vars
      <3>2. Comes(r) /\ Knows(r) /\ Says(r)
        BY DEF WebInv
      <3>3. /\ WebId(r)' = WebId(r) /\ StatusOf(r)' = StatusOf(r) /\ LoggerAt' = LoggerAt
            /\ HandlerAt' = HandlerAt
        BY <3>1 DEF WebId, StatusOf, LoggerAt, HandlerAt
      <3>4. Inside(r)' = Inside(r) /\ Logged(r)' = Logged(r) /\ Web!Completed(r)' = Web!Completed(r)
        BY <3>1, <3>3 DEF Inside, Logged, Web!Completed
      <3>5. Comes(r)' /\ Knows(r)'
        BY <3>1, <3>2, <3>3, <3>4 DEF Comes, Knows
      <3>6. Says(r)'
        BY <3>1, <3>2, <3>3, <3>4 DEF Says
      <3> QED BY <3>5, <3>6
    <2>2. WebTypes'
      BY <1>1 DEF Web!vars, WebInv, WebTypes, AllIds, LogLines
    <2> QED BY <2>1, <2>2 DEF WebInv
  <1>2. ASSUME NEW r \in WebRequests, Web!Step(r) PROVE WebInv'
    <2>1. Downward(r) \/ AtHandler(r) \/ Upward(r)
      BY <1>2 DEF Web!Step, Downward, AtHandler, Upward
    <2> QED BY <2>1, DownStep, HandlerStep, UpStep
  <1> QED BY <1>1, <1>2 DEF Web!Next, Web!Finished

(* The invariant of the chains holds, for any requests and IDs.            *)
THEOREM WebInvariance == Web!Spec => []WebInv
  <1>1. Web!Init => WebInv
    BY WebInit
  <1>2. WebInv /\ [Web!Next]_(Web!vars) => WebInv'
    BY WebStep
  <1> QED BY <1>1, <1>2, PTL DEF Web!Spec

(* What a finished request has said and got. *)
LEMMA WebTells == ASSUME WebInv PROVE Web!OneTrueLine
  <1> SUFFICES ASSUME NEW r \in WebRequests, way[r] = "done"
               PROVE  /\ wire[r] # 0
                      /\ \E i \in DOMAIN lines[r] : /\ Web!Completed(r) = {i}
                                                    /\ lines[r][i].status = wire[r]
                      /\ path[r] \in {"panic", "boom"} <=> wire[r] = 500
                      /\ \A i \in DOMAIN lines[r] :
                             /\ lines[r][i].id \in {Web!MintedBy(r), sent[r]} \ {NoId}
                             /\ app = "week5" => lines[r][i].id = echoed[r]
    BY DEF Web!OneTrueLine
  <1>1. wire[r] = StatusOf(r) /\ path[r] \in {"ok", "panic", "notes", "boom", "other"}
    BY WebBefore DEF Comes, Web!Paths
  <1>2. wire[r] # 0 /\ (path[r] \in {"panic", "boom"} <=> wire[r] = 500)
    BY <1>1 DEF StatusOf
  <1>3. Logged(r)
    BY WebBefore DEF Comes, Logged
  <1>4. \E i \in DOMAIN lines[r] : Web!Completed(r) = {i} /\ lines[r][i].status = wire[r]
    BY <1>3, WebBefore DEF Says
  <1>5. WebId(r) \in {Web!MintedBy(r), sent[r]} \ {NoId}
    BY MintedAssumption DEF WebId
  <1>6. app = "week5" => echoed[r] = WebId(r)
    BY WebBefore DEF Knows, Inside
  <1>7. \A i \in DOMAIN lines[r] : lines[r][i].id = WebId(r)
    BY WebBefore DEF Says
  <1> QED BY <1>2, <1>4, <1>5, <1>6, <1>7

(* Every request, a panicking one included, ends with one completion line  *)
(* that has the status sent and its own ID, for any requests and IDs.      *)
THEOREM OneLineEach ==
  /\ Web!Spec => []Web!OneTrueLine
  /\ Spec => []OneTrueLine
  <1> DEFINE Inv == program = "middleware" => WebInv
  <1>1. WebInv => Web!OneTrueLine
    BY WebTells
  <1>2. Inv => OneTrueLine
    BY WebTells DEF OneTrueLine
  <1>3. Init => Inv
    BY Begun, WebInit
  <1>4. Inv /\ [Next]_vars => Inv'
    BY GoesOn, WebStep
  <1> QED BY <1>1, <1>2, <1>3, <1>4, WebInvariance, PTL DEF Spec

-----------------------------------------------------------------------------
(***************************************************************************)
(* The metrics.  A series' value is the number of requests past its step.  *)
(***************************************************************************)
Visits == IsFiniteSet(Users) /\ Scrapes \in Nat

\* What r has added to the series s, by the step it has got to.
Added(s, r) == /\ Metric!Counts(s, r)
               /\ pc[r] \in {"respond", "answered"} \/ (s[2] = 0 /\ pc[r] = "inc")
Hits(s) == {r \in Users : Added(s, r)}
Due(s) == {r \in before : Metric!Counts(s, r)}
Come(s) == {r \in Users : pc[r] # "idle" /\ Metric!Counts(s, r)}

\* The recorder has the status of the answer when the handler has returned.
Recorded(r) == /\ pc[r] \in {"next", "observe", "inc"} => target[r] \in Metric!Measured
               /\ pc[r] \in {"idle", "next"} => status[r] = 200
               /\ pc[r] \in {"observe", "inc"} => status[r] = Metric!Code(target[r])

Read == scrapes > 0 => \A s \in Metric!Series \ scraping :
            scraped[s] >= Cardinality(Due(s)) /\ scraped[s] <= Cardinality(Come(s))

MetricInv == /\ Metric!TypeOK
             /\ \A r \in Users : Recorded(r)
             /\ \A s \in Metric!Series : value[s] = Cardinality(Hits(s))
             /\ \A r \in before : pc[r] = "answered"
             /\ Read

(* How a series is told from its two labels, and the series of a request.  *)
LEMMA SeriesForm == \A s \in Metric!Series : s = <<s[1], s[2]>> /\ s[2] \in {0, 200, 404}
  <1> USE DEF Metric!Series, Metric!Counters, Metric!Histograms, Metric!CodesOf, Metric!Codes
  <1>1. ASSUME NEW s \in Metric!Series PROVE s = <<s[1], s[2]>> /\ s[2] \in {0, 200, 404}
    <2>1. CASE s \in Metric!Counters
      <3>1. PICK route \in Metric!Routes : s \in {route} \X Metric!CodesOf(route)
        BY <2>1
      <3> QED BY <3>1
    <2>2. CASE s \in Metric!Histograms
      BY <2>2
    <2> QED BY <2>1, <2>2
  <1> QED BY <1>1

HistogramOf(t) == <<Metric!Route(t), 0>>
CounterOf(t) == <<Metric!Route(t), Metric!Code(t)>>
LEMMA SeriesOf ==
  \A t \in Metric!Measured : /\ HistogramOf(t) \in Metric!Series /\ CounterOf(t) \in Metric!Series
                             /\ Metric!Code(t) \in {200, 404}
  <1> USE DEF Metric!Series, Metric!Counters, Metric!Histograms, Metric!CodesOf, Metric!Codes
  <1>1. ASSUME NEW t \in Metric!Measured
        PROVE  /\ HistogramOf(t) \in Metric!Series /\ CounterOf(t) \in Metric!Series
               /\ Metric!Code(t) \in {200, 404}
    <2>1. Metric!Route(t) \in Metric!Routes
      BY DEF Metric!Routes
    <2>2. <<Metric!Route(t), 0>> \in Metric!Histograms
      BY <2>1
    <2>3. Metric!Code(t) \in Metric!CodesOf(Metric!Route(t))
      BY DEF Metric!Code, Metric!Route, Metric!Measured, Metric!Targets
    <2>4. <<Metric!Route(t), Metric!Code(t)>> \in {Metric!Route(t)} \X Metric!CodesOf(Metric!Route(t))
      BY <2>3
    <2>5. <<Metric!Route(t), Metric!Code(t)>> \in Metric!Counters
      BY <2>1, <2>4
    <2>6. Metric!Code(t) \in {200, 404}
      BY DEF Metric!Code
    <2> QED BY <2>2, <2>5, <2>6 DEF HistogramOf, CounterOf
  <1> QED BY <1>1

(* Finite sets of users. *)
LEMMA UserCount ==
  ASSUME Visits, NEW P \in SUBSET Users
  PROVE  /\ IsFiniteSet(P) /\ Cardinality(P) \in Nat
         /\ \A Q \in SUBSET P : Cardinality(Q) <= Cardinality(P)
         /\ \A r \in Users \ P : Cardinality(P \cup {r}) = Cardinality(P) + 1
  <1>1. IsFiniteSet(P)
    BY FS_Subset DEF Visits
  <1> QED BY <1>1, FS_Subset, FS_CardinalityType, FS_AddElement

LEMMA MetricInit == ASSUME Visits, Metric!Init PROVE MetricInv
  <1> USE DEF Metric!Init
  <1>1. Metric!TypeOK
    BY DEF Metric!TypeOK, Visits, Metric!Codes
  <1>2. \A r \in Users : Recorded(r)
    BY DEF Recorded
  <1>3. \A s \in Metric!Series : Hits(s) = {}
    BY DEF Hits, Added
  <1>4. Cardinality({}) = 0
    BY FS_EmptySet
  <1>5. Read
    BY DEF Read
  <1> QED BY <1>1, <1>2, <1>3, <1>4, <1>5 DEF MetricInv

(* A request that goes on, whatever it adds on the way, keeps what a scrape *)
(* has read true.                                                          *)
LEMMA ReadStays ==
  ASSUME Visits, MetricInv, NEW r \in Users, NEW to, pc[r] # "answered", to # "idle",
         pc' = [pc EXCEPT ![r] = to], UNCHANGED <<target, scraping, scraped, before, scrapes>>
  PROVE  Read' /\ \A q \in before' : pc'[q] = "answered"
  <1>1. \A q \in before : q # r /\ pc'[q] = "answered"
    BY DEF MetricInv, Metric!TypeOK
  <1>2. \A s : Metric!Counts(s, r)' = Metric!Counts(s, r) /\ Due(s)' = Due(s)
    BY DEF Metric!Counts, Due
  <1>3. ASSUME NEW s \in Metric!Series \ scraping, scrapes > 0
        PROVE  scraped[s] >= Cardinality(Due(s)) /\ scraped[s] <= Cardinality(Come(s)')
    <2>1. scraped[s] \in Nat /\ scraped[s] >= Cardinality(Due(s)) /\ scraped[s] <= Cardinality(Come(s))
      BY <1>3 DEF MetricInv, Read, Metric!TypeOK
    <2>2. Come(s) \in SUBSET Come(s)' /\ Come(s)' \in SUBSET Users
      BY DEF Come, Metric!Counts, MetricInv, Metric!TypeOK
    <2>3. Cardinality(Come(s)) <= Cardinality(Come(s)') /\ Cardinality(Come(s)) \in Nat
          /\ Cardinality(Come(s)') \in Nat
      <3>1. Come(s) \in SUBSET Users
        BY DEF Come
      <3> QED BY <2>2, <3>1, UserCount
    <2> QED BY <2>1, <2>3
  <1> QED BY <1>1, <1>2, <1>3 DEF Read

(* A step that adds nothing to any series. *)
LEMMA MetricQuiet ==
  ASSUME Visits, MetricInv, NEW r \in Users,
         Metric!Begin(r) \/ Metric!NoRoute(r) \/ Metric!Handle(r) \/ Metric!NotFound(r) \/ Metric!Respond(r)
  PROVE  MetricInv'
  <1>0. Metric!TypeOK /\ \A q \in Users : Recorded(q)
    BY DEF MetricInv
  <1>1. UNCHANGED <<server, target, value, scraping, scraped, before, scrapes>>
    BY DEF Metric!Begin, Metric!NoRoute, Metric!Handle, Metric!NotFound, Metric!Respond
  <1>2. Metric!TypeOK'
    BY <1>0 DEF Metric!TypeOK, Metric!Begin, Metric!NoRoute, Metric!Handle, Metric!NotFound,
                Metric!Respond, Metric!Goto, Metric!Codes
  <1>3. \A q \in Users : Recorded(q)'
    BY <1>0 DEF Metric!TypeOK, Metric!Begin, Metric!NoRoute, Metric!Handle, Metric!NotFound,
                Metric!Respond, Metric!Goto, Recorded, Metric!Code, Metric!Measured
  <1>4. \A s \in Metric!Series : Hits(s)' = Hits(s)
    BY <1>0, <1>1 DEF Metric!TypeOK, Metric!Begin, Metric!NoRoute, Metric!Handle, Metric!NotFound,
                Metric!Respond, Metric!Goto, Hits, Added, Metric!Counts, Recorded
  <1>5. \A s \in Metric!Series : value'[s] = Cardinality(Hits(s)')
    BY <1>1, <1>4 DEF MetricInv
  <1>6. \E to \in {"next", "respond", "observe", "answered"} :
           pc[r] # "answered" /\ to # "idle" /\ pc' = [pc EXCEPT ![r] = to]
    BY DEF Metric!Begin, Metric!NoRoute, Metric!Handle, Metric!NotFound, Metric!Respond, Metric!Goto
  <1>7. Read' /\ \A q \in before' : pc'[q] = "answered"
    BY <1>1, <1>6, ReadStays
  <1> QED BY <1>2, <1>3, <1>5, <1>7 DEF MetricInv

(* A step that adds r to the series s. *)
LEMMA MetricAdds ==
  ASSUME Visits, MetricInv, NEW r \in Users, NEW s \in Metric!Series, Metric!Add(s),
         ~ Added(s, r), Added(s, r)',
         \A u \in Metric!Series : u # s => (Added(u, r)' <=> Added(u, r)),
         \A u \in Metric!Series : \A q \in Users \ {r} : Added(u, q)' <=> Added(u, q)
  PROVE  /\ value' \in [Metric!Series -> Nat]
         /\ \A u \in Metric!Series : value'[u] = Cardinality(Hits(u)')
  <1>1. value \in [Metric!Series -> Nat] /\ \A u \in Metric!Series : value[u] = Cardinality(Hits(u))
    BY DEF MetricInv, Metric!TypeOK
  <1>2. value' = [value EXCEPT ![s] = @ + 1]
    BY DEF Metric!Add
  <1>3. Hits(s)' = Hits(s) \cup {r} /\ r \in Users \ Hits(s) /\ Hits(s) \in SUBSET Users
    BY DEF Hits
  <1>4. Cardinality(Hits(s)') = Cardinality(Hits(s)) + 1
    BY <1>3, UserCount
  <1>5. ASSUME NEW u \in Metric!Series, u # s PROVE Hits(u)' = Hits(u)
    BY <1>5 DEF Hits
  <1> HIDE DEF Hits
  <1> QED BY <1>1, <1>2, <1>4, <1>5

LEMMA MetricObserve == ASSUME Visits, MetricInv, NEW r \in Users, Metric!Observe(r) PROVE MetricInv'
  <1>0. Metric!TypeOK /\ \A q \in Users : Recorded(q)
    BY DEF MetricInv
  <1>1. /\ pc[r] = "observe" /\ pc' = [pc EXCEPT ![r] = "inc"]
        /\ Metric!Add(<<Metric!Route(target[r]), 0>>)
        /\ UNCHANGED <<server, target, status, scraping, scraped, before, scrapes>>
    BY DEF Metric!Observe, Metric!Goto
  <1>2. target[r] \in Metric!Measured
    BY <1>0, <1>1 DEF Recorded
  <1>3. HistogramOf(target[r]) \in Metric!Series
    BY <1>2, SeriesOf
  <1>4. PICK s \in Metric!Series : s = <<Metric!Route(target[r]), 0>>
    BY <1>3 DEF HistogramOf, CounterOf
  <1>5. ~ Added(s, r) /\ Added(s, r)'
    BY <1>0, <1>1, <1>4, <1>2 DEF Added, Metric!Counts, Metric!TypeOK
  <1>6. \A u \in Metric!Series : u # s => (Added(u, r)' <=> Added(u, r))
    BY <1>0, <1>1, <1>4, SeriesForm DEF Added, Metric!Counts, Metric!TypeOK
  <1>7. \A u \in Metric!Series : \A q \in Users \ {r} : Added(u, q)' <=> Added(u, q)
    BY <1>0, <1>1 DEF Added, Metric!Counts, Metric!TypeOK
  <1>8. /\ value' \in [Metric!Series -> Nat]
        /\ \A u \in Metric!Series : value'[u] = Cardinality(Hits(u)')
    BY <1>1, <1>4, <1>5, <1>6, <1>7, MetricAdds
  <1>9. Metric!TypeOK'
    BY <1>0, <1>1, <1>8 DEF Metric!TypeOK
  <1>10. \A q \in Users : Recorded(q)'
    BY <1>0, <1>1 DEF Metric!TypeOK, Recorded, Metric!Code
  <1>11. Read' /\ \A q \in before' : pc'[q] = "answered"
    BY <1>1, ReadStays
  <1> QED BY <1>8, <1>9, <1>10, <1>11 DEF MetricInv

LEMMA MetricInc == ASSUME Visits, MetricInv, NEW r \in Users, Metric!Inc(r) PROVE MetricInv'
  <1>0. Metric!TypeOK /\ \A q \in Users : Recorded(q)
    BY DEF MetricInv
  <1>1. /\ pc[r] = "inc" /\ pc' = [pc EXCEPT ![r] = "respond"]
        /\ Metric!Add(<<Metric!Route(target[r]), status[r]>>)
        /\ UNCHANGED <<server, target, status, scraping, scraped, before, scrapes>>
    BY DEF Metric!Inc, Metric!Goto
  <1>2. target[r] \in Metric!Measured /\ status[r] = Metric!Code(target[r])
    BY <1>0, <1>1 DEF Recorded
  <1>3. /\ CounterOf(target[r]) \in Metric!Series
        /\ Metric!Code(target[r]) \in {200, 404}
    BY <1>2, SeriesOf
  <1>4. PICK s \in Metric!Series : s = <<Metric!Route(target[r]), Metric!Code(target[r])>>
    BY <1>3 DEF HistogramOf, CounterOf
  <1>5. Metric!Add(s)
    BY <1>1, <1>4, <1>2
  <1>6. ~ Added(s, r) /\ Added(s, r)'
    BY <1>0, <1>1, <1>4, <1>2, <1>3 DEF Added, Metric!Counts, Metric!TypeOK
  <1>7. \A u \in Metric!Series : u # s => (Added(u, r)' <=> Added(u, r))
    BY <1>0, <1>1, <1>4, SeriesForm DEF Added, Metric!Counts, Metric!TypeOK
  <1>8. \A u \in Metric!Series : \A q \in Users \ {r} : Added(u, q)' <=> Added(u, q)
    BY <1>0, <1>1 DEF Added, Metric!Counts, Metric!TypeOK
  <1>9. /\ value' \in [Metric!Series -> Nat]
        /\ \A u \in Metric!Series : value'[u] = Cardinality(Hits(u)')
    BY <1>5, <1>6, <1>7, <1>8, MetricAdds
  <1>10. Metric!TypeOK'
    BY <1>0, <1>1, <1>9 DEF Metric!TypeOK
  <1>11. \A q \in Users : Recorded(q)'
    BY <1>0, <1>1 DEF Metric!TypeOK, Recorded, Metric!Code
  <1>12. Read' /\ \A q \in before' : pc'[q] = "answered"
    BY <1>1, ReadStays
  <1> QED BY <1>9, <1>10, <1>11, <1>12 DEF MetricInv

(* The scraper reads a value between the requests due and those begun. *)
LEMMA MetricGather ==
  ASSUME Visits, MetricInv, NEW s \in Metric!Series, Metric!Gather(s)
  PROVE  MetricInv'
  <1>0. Metric!TypeOK
    BY DEF MetricInv
  <1>1. /\ s \in scraping /\ scraped' = [scraped EXCEPT ![s] = value[s]] /\ scraping' = scraping \ {s}
        /\ UNCHANGED <<server, target, pc, status, value, before, scrapes>>
    BY DEF Metric!Gather
  <1>2. Metric!TypeOK' /\ \A q \in Users : Recorded(q)'
    BY <1>0, <1>1 DEF MetricInv, Metric!TypeOK, Recorded
  <1>3. \A u \in Metric!Series : /\ Hits(u)' = Hits(u) /\ Due(u)' = Due(u) /\ Come(u)' = Come(u)
    BY <1>1 DEF Hits, Added, Metric!Counts, Due, Come
  <1>4. \A u \in Metric!Series : value'[u] = Cardinality(Hits(u)')
    BY <1>1, <1>3 DEF MetricInv
  <1>5. \A q \in before' : pc'[q] = "answered"
    BY <1>1 DEF MetricInv
  <1>6. value[s] >= Cardinality(Due(s)) /\ value[s] <= Cardinality(Come(s))
    <2>1. /\ Hits(s) \in SUBSET Users /\ Come(s) \in SUBSET Users
          /\ Due(s) \in SUBSET Hits(s) /\ Hits(s) \in SUBSET Come(s)
      BY <1>0 DEF MetricInv, Metric!TypeOK, Hits, Added, Due, Come
    <2>2. /\ Cardinality(Hits(s)) \in Nat /\ Cardinality(Due(s)) \in Nat /\ Cardinality(Come(s)) \in Nat
          /\ Cardinality(Due(s)) <= Cardinality(Hits(s)) /\ Cardinality(Hits(s)) <= Cardinality(Come(s))
      <3>1. Due(s) \in SUBSET Users
        BY <2>1
      <3> QED BY <2>1, <3>1, UserCount
    <2> QED BY <2>2 DEF MetricInv
  <1>7. Read'
    <2>1. \A u \in Metric!Series \ scraping' : scrapes' > 0 =>
             scraped'[u] >= Cardinality(Due(u)) /\ scraped'[u] <= Cardinality(Come(u))
      <3> HIDE DEF Due, Come
      <3> QED BY <1>0, <1>1, <1>6 DEF MetricInv, Read, Metric!TypeOK
    <2> QED BY <1>3, <2>1 DEF Read
  <1> QED BY <1>2, <1>4, <1>5, <1>7 DEF MetricInv

LEMMA MetricScrape == ASSUME Visits, MetricInv, Metric!BeginScrape PROVE MetricInv'
  <1>1. /\ scraping' = Metric!Series /\ before' = Metric!Answered /\ scrapes' = scrapes + 1
        /\ scrapes < Scrapes /\ UNCHANGED <<server, target, pc, status, value, scraped>>
    BY DEF Metric!BeginScrape
  <1>2. Metric!TypeOK'
    BY <1>1 DEF MetricInv, Metric!TypeOK, Metric!Answered, Visits
  <1>3. \A q \in Users : Recorded(q)'
    BY <1>1 DEF MetricInv, Recorded
  <1>4. \A u \in Metric!Series : value'[u] = Cardinality(Hits(u)')
    <2>1. \A u \in Metric!Series : Hits(u)' = Hits(u)
      BY <1>1 DEF Hits, Added, Metric!Counts
    <2> QED BY <1>1, <2>1 DEF MetricInv
  <1>5. Read' /\ \A q \in before' : pc'[q] = "answered"
    BY <1>1 DEF Read, Metric!Answered
  <1> QED BY <1>2, <1>3, <1>4, <1>5 DEF MetricInv

LEMMA MetricStep == ASSUME Visits, MetricInv, [Metric!Next]_(Metric!vars) PROVE MetricInv'
  <1>1. CASE UNCHANGED Metric!vars \/ Metric!Exit
    <2>1. UNCHANGED <<target, pc, status, value, scraping, scraped, before, scrapes>>
          /\ (server' = server \/ server' = "stopped")
      BY <1>1 DEF Metric!vars, Metric!Exit
    <2>2. Metric!TypeOK' /\ \A q \in Users : Recorded(q)'
      BY <2>1 DEF MetricInv, Metric!TypeOK, Recorded
    <2>3. \A u : Hits(u)' = Hits(u) /\ Due(u)' = Due(u) /\ Come(u)' = Come(u)
      BY <2>1 DEF Hits, Added, Metric!Counts, Due, Come
    <2>4. \A u \in Metric!Series : value'[u] = Cardinality(Hits(u)')
      BY <2>1, <2>3 DEF MetricInv
    <2>5. Read' /\ \A q \in before' : pc'[q] = "answered"
      BY <2>1, <2>3 DEF MetricInv, Read
    <2> QED BY <2>2, <2>4, <2>5 DEF MetricInv
  <1>2. CASE Metric!BeginScrape
    BY <1>2, MetricScrape
  <1>3. CASE \E s \in Metric!Series : Metric!Gather(s)
    BY <1>3, MetricGather
  <1>4. CASE \E r \in Users : Metric!Observe(r) \/ Metric!Inc(r)
    BY <1>4, MetricObserve, MetricInc
  <1>5. CASE \E r \in Users : \/ Metric!Begin(r) \/ Metric!NoRoute(r) \/ Metric!Handle(r)
                              \/ Metric!NotFound(r) \/ Metric!Respond(r)
    BY <1>5, MetricQuiet
  <1> QED BY <1>1, <1>2, <1>3, <1>4, <1>5 DEF Metric!Next, Metric!Finished

(* A series counts what the requests past its step have added, and a      *)
(* scrape has what it read.                                                *)
THEOREM MetricInvariance == ASSUME Visits PROVE Metric!Spec => []MetricInv
  <1>1. Metric!Init => MetricInv
    BY MetricInit
  <1>2. MetricInv /\ [Metric!Next]_(Metric!vars) => MetricInv'
    BY MetricStep
  <1> QED BY <1>1, <1>2, PTL DEF Metric!Spec

LEMMA MetricTells == ASSUME Visits, MetricInv PROVE Metric!ScrapeTells
  <1>1. /\ Metric!TypeOK
        /\ scrapes > 0 => \A s \in Metric!Series \ scraping :
             scraped[s] >= Cardinality(Due(s)) /\ scraped[s] <= Cardinality(Come(s))
        /\ \A s \in Metric!Series : value[s] = Cardinality(Hits(s))
    BY DEF MetricInv, Read
  <1>2. ASSUME \A r \in Users : pc[r] \in {"idle", "answered"}
        PROVE  \A s : Hits(s) = {r \in Metric!Answered : Metric!Counts(s, r)}
    BY <1>2 DEF Hits, Added, Metric!Answered
  <1>3. \A S : Metric!Cardinality(S) = Cardinality(S)
    BY Zenon DEF Metric!Cardinality, Cardinality
  <1>4. scrapes > 0 => \A s \in Metric!Series \ scraping :
          /\ scraped[s] >= Metric!Cardinality({r \in before : Metric!Counts(s, r)})
          /\ scraped[s] <= Metric!Cardinality({r \in Users : pc[r] # "idle" /\ Metric!Counts(s, r)})
    BY <1>1, <1>3, Zenon DEF Due, Come
  <1>5. (\A r \in Users : pc[r] \in {"idle", "answered"}) => \A s \in Metric!Series :
           value[s] = Metric!Cardinality({r \in Metric!Answered : Metric!Counts(s, r)})
    BY <1>1, <1>2, <1>3, Zenon
  <1> QED BY <1>1, <1>4, <1>5, Zenon DEF Metric!ScrapeTells

(* However scrapes and requests interleave, a scrape misses none of the    *)
(* requests answered before it, and histogram and counters agree when      *)
(* nothing is in flight.                                                   *)
THEOREM ScrapesTrue ==
  ASSUME Visits
  PROVE  /\ Metric!Spec => []Metric!ScrapeTells
         /\ Spec => []ScrapeTells
  <1> DEFINE Inv == program = "metrics" => MetricInv
  <1>1. MetricInv => Metric!ScrapeTells
    BY MetricTells
  <1>2. Inv => ScrapeTells
    BY MetricTells DEF ScrapeTells
  <1>3. Init => Inv
    BY Begun, MetricInit
  <1>4. Inv /\ [Next]_vars => Inv'
    BY GoesOn, MetricStep
  <1> QED BY <1>1, <1>2, <1>3, <1>4, MetricInvariance, PTL DEF Spec

-----------------------------------------------------------------------------
(***************************************************************************)
(* The traces.  A request ends its spans innermost first and the queue is  *)
(* first in, first out, so what has been taken from it is closed: with a   *)
(* server span there is the request's whole trace.                         *)
(***************************************************************************)
Span == [req : Users, name : Traced!Names, error : BOOLEAN]
Flushing == {"flush", "flushed", "returned"}

\* The names of the spans r has ended, by the step it has got to.
Given(r) == IF pc[r] = "service" /\ kind[r] # "unsampled" THEN {"db.query.GetNote"}
            ELSE IF pc[r] = "answer" THEN Traced!SpansOf(r) \ {"server"}
            ELSE IF pc[r] = "done" THEN Traced!SpansOf(r) ELSE {}

\* What the collector has when k of the queued spans have been exported too.
Upto(k) == exported \cup {queue[j] : j \in 1..k}
Has(S, r, n) == \E x \in S : x.req = r /\ x.name = n

Said == \A s \in Upto(Len(queue)) : s.name \in Given(s.req) /\ s.error = failed[s.req]
Kept == ~troubled /\ (main \notin Flushing \/ drained) =>
           \A r \in Users : \A n \in Given(r) : Has(Upto(Len(queue)), r, n)
Whole == ~troubled => \A k \in 0..Len(queue) : \A s \in Upto(k) :
            s.name = "server" => \A n \in Traced!SpansOf(s.req) : Has(Upto(k), s.req, n)

\* The shutdown in its stages: a closed listener, no request left, no span left.
Staged == /\ main \in Flushing \cup {"drain"} => listener # "serving"
          /\ drained => main \in Flushing /\ \A r \in Users : pc[r] \in {"idle", "done"}
          /\ flushed => main \in {"flushed", "returned"} /\ queue = <<>>

TracedInv == /\ Traced!TypeOK
             /\ \A r \in Users : pc[r] \in {"query", "service"} => kind[r] # "other"
             /\ Staged /\ Said /\ Kept /\ Whole

LEMMA SpanTypes ==
  ASSUME Traced!TypeOK
  PROVE  queue \in Seq(Span) /\ exported \in SUBSET Span /\ Len(queue) \in Nat
         /\ \A k \in 0..Len(queue) : Upto(k) \in SUBSET Span
  <1>1. queue \in Seq(Span) /\ exported \in SUBSET Span
    BY DEF Traced!TypeOK, Span
  <1>2. Len(queue) \in Nat /\ \A j \in 1..Len(queue) : queue[j] \in Span
    BY <1>1
  <1> QED BY <1>1, <1>2 DEF Upto

LEMMA TracedInit == ASSUME Traced!Init PROVE TracedInv
  <1>1. queue = <<>> /\ Len(queue) = 0 /\ exported = {}
    BY DEF Traced!Init
  <1>2. \A k \in 0..Len(queue) : Upto(k) = {}
    BY <1>1 DEF Upto
  <1>3. Traced!TypeOK
    <2>1. queue \in Seq([req : Users, name : Traced!Names, error : BOOLEAN])
      BY <1>1
    <2>2. pc \in [Users -> {"idle", "query", "service", "answer", "done"}] /\ failed \in [Users -> BOOLEAN]
      BY DEF Traced!Init
    <2>3. {troubled, drained, flushed} \subseteq BOOLEAN
      BY DEF Traced!Init
    <2> QED BY <1>1, <2>1, <2>2, <2>3 DEF Traced!Init, Traced!TypeOK
  <1>4. Said /\ Whole
    BY <1>1, <1>2 DEF Said, Whole
  <1>5. Kept
    BY DEF Kept, Given, Traced!Init
  <1>6. Staged
    BY DEF Staged, Flushing, Traced!Init
  <1>7. \A r \in Users : pc[r] \in {"query", "service"} => kind[r] # "other"
    BY DEF Traced!Init
  <1> QED BY <1>3, <1>4, <1>5, <1>6, <1>7 DEF TracedInv

(* Steps of main, of the listener, and of a request that is accepted. *)
LEMMA TracedQuiet ==
  ASSUME TracedInv, UNCHANGED <<kind, failed, queue, exported, troubled>>,
         \A r \in Users : Given(r)' = Given(r),
         main' \notin Flushing \/ drained' => main \notin Flushing \/ drained
  PROVE  Said' /\ Kept' /\ Whole'
  <1>1. \A k : Upto(k)' = Upto(k)
    BY DEF Upto
  <1>2. Said'
    <2>1. \A s \in Upto(Len(queue)) : s.req \in Users
      BY SpanTypes DEF TracedInv, Span
    <2> QED BY <1>1, <2>1 DEF Said, TracedInv
  <1>3. Kept'
    BY <1>1 DEF Kept, TracedInv
  <1>4. Whole'
    BY <1>1 DEF Whole, TracedInv, Traced!SpansOf
  <1> QED BY <1>2, <1>3, <1>4

(* A span that is ended: it is queued last, unless it is not sampled or    *)
(* the tracer is being shut down, which a drained server has no request    *)
(* left to notice.                                                         *)
LEMMA TracedEnds ==
  ASSUME TracedInv, NEW r \in Users, NEW name \in Traced!Names, NEW b \in BOOLEAN,
         Traced!Ended(r, name, b), Traced!Running, pc[r] \notin {"idle", "done"},
         UNCHANGED <<main, kind, exported, troubled, drained, flushed>>,
         failed'[r] = b, Given(r) = {} \/ failed[r] = b,
         \A q \in Users \ {r} : failed'[q] = failed[q] /\ Given(q)' = Given(q),
         Given(r)' = IF kind[r] = "unsampled" THEN {} ELSE Given(r) \cup {name},
         kind[r] = "unsampled" => Given(r) = {},
         name = "server" => Traced!SpansOf(r) \subseteq Given(r) \cup {"server"}
  PROVE  queue' \in Seq(Span) /\ (flushed' => queue' = <<>>) /\ Said' /\ Kept' /\ Whole'
  <1>0. /\ queue \in Seq(Span) /\ Len(queue) \in Nat
        /\ \A k \in 0..Len(queue) : Upto(k) \in SUBSET Span
    BY SpanTypes DEF TracedInv
  <1>1. \A s \in Upto(Len(queue)) : /\ s.req \in Users /\ s.name \in Given(s.req) /\ s.error = failed[s.req]
                                    /\ s.error = failed'[s.req]
    <2>1. \A s \in Upto(Len(queue)) : s.req \in Users /\ s.name \in Given(s.req) /\ s.error = failed[s.req]
      BY <1>0 DEF TracedInv, Said, Span
    <2> QED BY <2>1
  <1>2. \A q \in Users : Given(q) \subseteq Given(q)'
    OBVIOUS
  <1>3. \A q : Traced!SpansOf(q)' = Traced!SpansOf(q)
    BY DEF Traced!SpansOf
  <1>4. CASE kind[r] = "unsampled" \/ main \in {"flush", "flushed"}
    <2>1. queue' = queue /\ \A k : Upto(k)' = Upto(k)
      BY <1>4 DEF Traced!Ended, Upto
    <2>2. Said'
      BY <1>1, <1>2, <2>1 DEF Said
    <2>3. Kept'
      <3>1. CASE kind[r] = "unsampled"
        <4>1. \A q \in Users : Given(q)' = Given(q)
          BY <3>1
        <4> QED BY <2>1, <4>1 DEF Kept, TracedInv
      <3>2. CASE main \in {"flush", "flushed"}
        <4>1. ~drained
          BY DEF TracedInv, Staged
        <4> QED BY <3>2, <4>1 DEF Kept, Flushing
      <3> QED BY <1>4, <3>1, <3>2
    <2>4. Whole'
      BY <1>3, <2>1 DEF Whole, TracedInv
    <2> QED BY <1>0, <2>1, <2>2, <2>3, <2>4 DEF TracedInv, Staged
  <1>5. CASE kind[r] # "unsampled" /\ main \notin {"flush", "flushed"}
    <2> DEFINE x == [req |-> r, name |-> name, error |-> b]
    <2>0. PICK n \in Nat : n = Len(queue)
      BY <1>0
    <2>1. x \in Span /\ queue' = Append(queue, x)
      BY <1>5 DEF Traced!Ended, Span
    <2>2. /\ queue' \in Seq(Span) /\ Len(queue') = n + 1 /\ queue'[n + 1] = x
          /\ \A j \in 1..n : queue'[j] = queue[j]
      BY <1>0, <2>0, <2>1, AppendProperties
    <2>3. /\ \A k \in 0..n : Upto(k)' = Upto(k)
          /\ \A k : k = n + 1 => Upto(k)' = Upto(n) \cup {x}
      <3>1. \A k \in 0..n : Upto(k)' = Upto(k)
        BY <2>2 DEF Upto
      <3>2. {queue'[j] : j \in 1..(n + 1)} = {queue[j] : j \in 1..n} \cup {x}
        BY <2>2
      <3>3. \A k : k = n + 1 => Upto(k)' = exported' \cup {queue'[j] : j \in 1..(n + 1)}
        BY Zenon DEF Upto
      <3>4. Upto(n) = exported \cup {queue[j] : j \in 1..n}
        BY DEF Upto
      <3> QED BY <3>1, <3>2, <3>3, <3>4
    <2>4. ~flushed
      BY <1>5 DEF TracedInv, Staged, Traced!Running
    <2>5. x.req = r /\ x.name = name /\ x.error = b
      OBVIOUS
    <2> HIDE DEF x
    <2>6. Upto(Len(queue))' = Upto(n) \cup {x}
      <3>1. Upto(Len(queue))' = exported' \cup {queue'[j] : j \in 1..Len(queue')}
        BY DEF Upto
      <3>2. Upto(n + 1)' = exported' \cup {queue'[j] : j \in 1..(n + 1)}
        BY DEF Upto
      <3>3. Upto(n + 1)' = Upto(n) \cup {x}
        BY <2>3
      <3> QED BY <2>2, <3>1, <3>2, <3>3
    <2>7. Said'
      <3>1. name \in Given(r)'
        BY <1>5
      <3>2. \A s \in Upto(n) \cup {x} : s.name \in Given(s.req)' /\ s.error = failed'[s.req]
        BY <1>1, <1>2, <2>0, <2>5, <3>1
      <3> QED BY <2>6, <3>2 DEF Said
    <2>8. Kept'
      <3>1. SUFFICES ASSUME ~troubled, NEW q \in Users, NEW m \in Given(q)'
                     PROVE  Has(Upto(n) \cup {x}, q, m)
        BY <2>6 DEF Kept
      <3>2. \A p \in Users : \A l \in Given(p) : Has(Upto(n), p, l)
        BY <1>5, <2>0, <3>1 DEF TracedInv, Kept, Flushing, Traced!Running
      <3>3. m \in Given(q) \/ (q = r /\ m = name)
        BY <1>5
      <3> QED BY <2>5, <3>2, <3>3 DEF Has
    <2>9. Whole'
      <3>1. SUFFICES ASSUME ~troubled, NEW k \in 0..(n + 1), NEW s \in Upto(k)', s.name = "server",
                            NEW m \in Traced!SpansOf(s.req)
                     PROVE  Has(Upto(k)', s.req, m)
        <4>1. 0..Len(queue)' = 0..(n + 1)
          BY <2>2
        <4> QED BY <1>3, <4>1 DEF Whole
      <3>2. CASE k \in 0..n
        BY <2>0, <2>3, <3>1, <3>2 DEF TracedInv, Whole
      <3>3. CASE k = n + 1 /\ s \in Upto(n)
        <4>1. Has(Upto(n), s.req, m)
          BY <2>0, <3>1, <3>3 DEF TracedInv, Whole
        <4>2. Upto(k)' = Upto(n) \cup {x}
          BY <2>3, <3>3
        <4> QED BY <4>1, <4>2 DEF Has
      <3>4. CASE k = n + 1 /\ s = x
        <4>1. m \in Given(r) \cup {"server"} /\ name = "server" /\ s.req = r
          BY <2>5, <3>1, <3>4
        <4>2. m \in Given(r) => Has(Upto(n), r, m)
          BY <1>5, <2>0, <3>1 DEF TracedInv, Kept, Flushing, Traced!Running
        <4>3. Upto(k)' = Upto(n) \cup {x}
          BY <2>3, <3>4
        <4> QED BY <2>5, <4>1, <4>2, <4>3 DEF Has
      <3>5. k \in 0..n \/ k = n + 1
        OBVIOUS
      <3>6. k = n + 1 => s \in Upto(n) \/ s = x
        BY <2>3, <3>1
      <3> QED BY <3>2, <3>3, <3>4, <3>5, <3>6
    <2> QED BY <2>2, <2>4, <2>7, <2>8, <2>9
  <1> QED BY <1>4, <1>5

LEMMA TracedSpan ==
  ASSUME TracedInv, NEW r \in Users,
         Traced!Query(r) \/ Traced!QueryCancelled(r) \/ Traced!Service(r) \/ Traced!Answer(r)
  PROVE  TracedInv'
  <1> DEFINE Goes(from, to) == pc[r] = from /\ pc' = [pc EXCEPT ![r] = to]
             Ends(name, b) == Traced!Ended(r, name, b) /\ failed' = [failed EXCEPT ![r] = b]
             Adds(name) ==    /\ Given(r)' = IF kind[r] = "unsampled" THEN {} ELSE Given(r) \cup {name}
                              /\ name = "server" => Traced!SpansOf(r) \subseteq Given(r) \cup {"server"}
             Facts(from, to, name, b) == /\ Goes(from, to) /\ Ends(name, b) /\ Adds(name)
                                         /\ Given(r) = {} \/ failed[r] = b
  <1>0. /\ Traced!TypeOK /\ pc \in [Users -> {"idle", "query", "service", "answer", "done"}]
        /\ failed \in [Users -> BOOLEAN] /\ kind \in [Users -> Traced!Kinds]
        /\ pc[r] \in {"query", "service"} => kind[r] # "other"
    BY DEF TracedInv, Traced!TypeOK
  <1>1. UNCHANGED <<main, listener, kind, exported, troubled, drained, flushed>> /\ Traced!Running
    BY DEF Traced!Query, Traced!QueryCancelled, Traced!Service, Traced!Answer, Traced!Goto
  <1>2. ASSUME Traced!Query(r) \/ Traced!QueryCancelled(r)
        PROVE  \E b \in BOOLEAN : Facts("query", "service", "db.query.GetNote", b)
    <2>1. Goes("query", "service")
      BY <1>2 DEF Traced!Query, Traced!QueryCancelled, Traced!Goto
    <2>2. \E b \in BOOLEAN : Ends("db.query.GetNote", b)
      <3>1. Ends("db.query.GetNote", kind[r] = "zero") \/ Ends("db.query.GetNote", TRUE)
        BY <1>2 DEF Traced!Query, Traced!QueryCancelled
      <3> HIDE DEF Ends
      <3> QED BY <3>1
    <2>3. Given(r) = {} /\ Given(r)' = IF kind[r] = "unsampled" THEN {} ELSE {"db.query.GetNote"}
      BY <1>0, <1>1, <2>1 DEF Given
    <2>4. PICK b \in BOOLEAN : Ends("db.query.GetNote", b)
      BY <2>2
    <2>5. Adds("db.query.GetNote")
      BY <2>3
    <2> HIDE DEF Goes, Ends, Adds
    <2> QED BY <2>1, <2>3, <2>4, <2>5
  <1>3. ASSUME Traced!Service(r)
        PROVE  \E b \in BOOLEAN : Facts("service", "answer", "service.GetNote", b)
    <2>1. Goes("service", "answer") /\ failed' = failed /\ Traced!Ended(r, "service.GetNote", failed[r])
      BY <1>3 DEF Traced!Service, Traced!Goto
    <2>2. PICK b \in BOOLEAN : b = failed[r]
      BY <1>0
    <2>3. Ends("service.GetNote", b)
      BY <1>0, <2>1, <2>2
    <2>4. Adds("service.GetNote")
      BY <1>0, <1>1, <2>1 DEF Given, Traced!SpansOf, Traced!Names
    <2> HIDE DEF Goes, Ends, Adds
    <2> QED BY <2>1, <2>2, <2>3, <2>4
  <1>4. ASSUME Traced!Answer(r)
        PROVE  \E b \in BOOLEAN : Facts("answer", "done", "server", b)
    <2>1. Goes("answer", "done") /\ failed' = failed /\ Traced!Ended(r, "server", failed[r])
      BY <1>4 DEF Traced!Answer, Traced!Goto
    <2>2. PICK b \in BOOLEAN : b = failed[r]
      BY <1>0
    <2>3. Ends("server", b)
      BY <1>0, <2>1, <2>2
    <2>4. Adds("server")
      BY <1>0, <1>1, <2>1 DEF Given, Traced!SpansOf, Traced!Names
    <2> HIDE DEF Goes, Ends, Adds
    <2> QED BY <2>1, <2>2, <2>3, <2>4
  <1>5. \E name \in Traced!Names, b \in BOOLEAN : \/ Facts("query", "service", name, b)
                                                 \/ Facts("service", "answer", name, b)
                                                 \/ Facts("answer", "done", name, b)
    <2> HIDE DEF Facts
    <2> QED BY <1>2, <1>3, <1>4 DEF Traced!Names
  <1>6. PICK name \in Traced!Names, b \in BOOLEAN, from \in {"query", "service", "answer"},
             to \in {"service", "answer", "done"} :
                Facts(from, to, name, b) /\ (from = "query" \/ to # "service")
    <2> HIDE DEF Facts
    <2> QED BY <1>5
  <1>7. /\ failed' \in [Users -> BOOLEAN] /\ failed'[r] = b
        /\ \A q \in Users \ {r} : failed'[q] = failed[q] /\ pc'[q] = pc[q]
        /\ pc'[r] = to /\ pc[r] = from
        /\ pc' \in [Users -> {"idle", "query", "service", "answer", "done"}]
    BY <1>0, <1>6
  <1>8. \A q \in Users \ {r} : Given(q)' = Given(q)
    BY <1>1, <1>7 DEF Given, Traced!SpansOf
  <1>9. kind[r] = "unsampled" => Given(r) = {}
    BY DEF Given, Traced!SpansOf
  <1>10. pc[r] \notin {"idle", "done"}
    BY <1>6, <1>7
  <1>11. queue' \in Seq(Span) /\ (flushed' => queue' = <<>>) /\ Said' /\ Kept' /\ Whole'
    BY <1>1, <1>6, <1>7, <1>8, <1>9, <1>10, TracedEnds
  <1>12. Traced!TypeOK'
    BY <1>0, <1>1, <1>7, <1>11 DEF Traced!TypeOK, Span
  <1>13. \A q \in Users : pc'[q] \in {"query", "service"} => kind'[q] # "other"
    BY <1>0, <1>1, <1>6, <1>7 DEF TracedInv
  <1>14. Staged'
    <2>1. ~drained
      BY <1>10 DEF TracedInv, Staged
    <2> QED BY <1>1, <1>11, <2>1 DEF TracedInv, Staged
  <1> QED BY <1>11, <1>12, <1>13, <1>14 DEF TracedInv

LEMMA TracedAccept == ASSUME TracedInv, NEW r \in Users, Traced!Accept(r) PROVE TracedInv'
  <1>0. /\ Traced!TypeOK /\ pc \in [Users -> {"idle", "query", "service", "answer", "done"}]
        /\ kind \in [Users -> Traced!Kinds]
    BY DEF TracedInv, Traced!TypeOK
  <1>1. /\ UNCHANGED <<main, listener, kind, failed, queue, exported, troubled, drained, flushed>>
        /\ listener = "serving" /\ pc[r] = "idle"
        /\ pc' = [pc EXCEPT ![r] = IF kind[r] = "other" THEN "answer" ELSE "query"]
    BY DEF Traced!Accept, Traced!Goto, Traced!spans
  <1>2. \A q \in Users \ {r} : pc'[q] = pc[q]
    BY <1>0, <1>1
  <1>3. pc'[r] = IF kind[r] = "other" THEN "answer" ELSE "query"
    BY <1>0, <1>1
  <1>4. \A q \in Users \ {r} : Given(q)' = Given(q)
    BY <1>1, <1>2 DEF Given, Traced!SpansOf
  <1>5. Given(r)' = Given(r)
    BY <1>1, <1>3 DEF Given, Traced!SpansOf
  <1>6. Said' /\ Kept' /\ Whole'
    BY <1>1, <1>4, <1>5, TracedQuiet
  <1>7. Traced!TypeOK'
    BY <1>0, <1>1, <1>3 DEF Traced!TypeOK
  <1>8. \A q \in Users : pc'[q] \in {"query", "service"} => kind'[q] # "other"
    BY <1>0, <1>1, <1>2, <1>3 DEF TracedInv
  <1>9. Staged'
    <2>1. ~drained
      BY <1>1 DEF TracedInv, Staged
    <2> QED BY <1>1, <2>1 DEF TracedInv, Staged
  <1> QED BY <1>6, <1>7, <1>8, <1>9 DEF TracedInv

(* main goes through its shutdown, or the listener fails or is closed. *)
Stages == \/ Traced!Listen \/ Traced!ServerError \/ Traced!InitFails \/ Traced!Notify \/ Traced!Kill
          \/ Traced!Interrupt \/ Traced!Drained \/ Traced!DrainExpires \/ Traced!Flushed
          \/ Traced!FlushExpires \/ Traced!Return

LEMMA TracedStage == ASSUME TracedInv, Stages \/ UNCHANGED Traced!vars PROVE TracedInv'
  <1>0. Traced!TypeOK /\ Staged
    BY DEF TracedInv
  <1>1. UNCHANGED <<kind, pc, failed, queue, exported, troubled>>
    BY DEF Stages, Traced!vars, Traced!spans, Traced!Listen, Traced!ServerError, Traced!InitFails,
           Traced!Notify, Traced!Kill, Traced!Interrupt, Traced!Drained, Traced!DrainExpires,
           Traced!Flushed, Traced!FlushExpires, Traced!Return
  <1>2. CASE Traced!Listen \/ Traced!ServerError \/ UNCHANGED Traced!vars
    <2>1. UNCHANGED <<main, drained, flushed>>
      BY <1>2 DEF Traced!vars, Traced!Listen, Traced!ServerError
    <2>2. /\ listener' \in {"starting", "serving", "closed", "failed"}
          /\ listener' = "serving" => listener = "serving" \/ main \in {"start", "waiting"}
      BY <1>0, <1>2 DEF Traced!vars, Traced!Listen, Traced!ServerError, Traced!TypeOK
    <2>3. Staged'
      BY <1>0, <1>1, <2>1, <2>2 DEF Staged, Flushing
    <2>4. Traced!TypeOK'
      BY <1>0, <1>1, <2>1, <2>2 DEF Traced!TypeOK
    <2>5. Said' /\ Kept' /\ Whole'
      <3>1. \A r \in Users : Given(r)' = Given(r)
        BY <1>1 DEF Given, Traced!SpansOf
      <3> QED BY <1>1, <2>1, <3>1, TracedQuiet DEF Flushing
    <2> QED BY <1>1, <2>3, <2>4, <2>5 DEF TracedInv
  <1>3. CASE \/ Traced!InitFails \/ Traced!Notify \/ Traced!Kill \/ Traced!Interrupt
             \/ Traced!Drained \/ Traced!DrainExpires
             \/ Traced!Flushed \/ Traced!FlushExpires \/ Traced!Return
    <2>1. Staged'
      <3>1. CASE Traced!InitFails \/ Traced!Notify \/ Traced!Kill
        BY <1>0, <3>1 DEF Staged, Flushing, Traced!InitFails, Traced!Notify, Traced!Kill
      <3>2. CASE Traced!Interrupt
        BY <1>0, <3>2 DEF Staged, Flushing, Traced!Interrupt
      <3>3. CASE Traced!Drained
        <4>1. \A r \in Users : pc[r] \in {"idle", "done"}
          BY <1>0, <3>3 DEF Traced!Drained, Traced!InFlight, Traced!TypeOK
        <4> QED BY <1>0, <1>1, <3>3, <4>1 DEF Staged, Flushing, Traced!Drained
      <3>4. CASE Traced!DrainExpires
        BY <1>0, <3>4 DEF Staged, Flushing, Traced!DrainExpires
      <3>5. CASE Traced!Flushed \/ Traced!FlushExpires \/ Traced!Return
        BY <1>0, <1>1, <3>5 DEF Staged, Flushing, Traced!Flushed, Traced!FlushExpires, Traced!Return
      <3> QED BY <1>3, <3>1, <3>2, <3>3, <3>4, <3>5
    <2>2. /\ main' \in {"start", "waiting", "drain", "flush", "flushed", "returned", "killed"}
          /\ listener' = listener \/ listener' = "closed"
      BY <1>3 DEF Traced!InitFails, Traced!Notify, Traced!Kill, Traced!Interrupt, Traced!Drained,
                  Traced!DrainExpires, Traced!Flushed, Traced!FlushExpires, Traced!Return
    <2>3. (drained' = drained \/ drained' = TRUE) /\ (flushed' = flushed \/ flushed' = TRUE)
      BY <1>3, Zenon DEF Traced!InitFails, Traced!Notify, Traced!Kill, Traced!Interrupt, Traced!Drained,
                  Traced!DrainExpires, Traced!Flushed, Traced!FlushExpires, Traced!Return
    <2>4. main' \notin Flushing \/ drained' => main \notin Flushing \/ drained
      <3>1. main \in Flushing => UNCHANGED drained
        BY <1>3 DEF Flushing, Traced!InitFails, Traced!Notify, Traced!Kill, Traced!Interrupt,
                  Traced!Drained, Traced!DrainExpires, Traced!Flushed, Traced!FlushExpires, Traced!Return
      <3>2. main \in Flushing => main' \in Flushing
        BY <1>3 DEF Flushing, Traced!InitFails, Traced!Notify, Traced!Kill, Traced!Interrupt,
                  Traced!Drained, Traced!DrainExpires, Traced!Flushed, Traced!FlushExpires, Traced!Return
      <3> QED BY <3>1, <3>2
    <2>5. Traced!TypeOK'
      BY <1>0, <1>1, <2>2, <2>3 DEF Traced!TypeOK
    <2>6. Said' /\ Kept' /\ Whole'
      <3>1. \A r \in Users : Given(r)' = Given(r)
        BY <1>1 DEF Given, Traced!SpansOf
      <3> QED BY <1>1, <2>4, <3>1, TracedQuiet
    <2> QED BY <1>1, <2>1, <2>5, <2>6 DEF TracedInv
  <1> QED BY <1>2, <1>3 DEF Stages

(* A batch is taken from the front of the queue. *)
LEMMA TracedExport == ASSUME TracedInv, Traced!Export PROVE TracedInv'
  <1>0. /\ Traced!TypeOK /\ queue \in Seq(Span) /\ Len(queue) \in Nat
        /\ \A k \in 0..Len(queue) : Upto(k) \in SUBSET Span
    BY SpanTypes DEF TracedInv
  <1>1. UNCHANGED <<main, listener, kind, pc, failed, drained, flushed>>
    BY DEF Traced!Export
  <1>2. PICK n \in 1..Len(queue) :
           /\ queue' = SubSeq(queue, n + 1, Len(queue))
           /\ \/ exported' = exported \cup Traced!Range(SubSeq(queue, 1, n)) /\ troubled' = troubled
              \/ exported' = exported /\ troubled' = TRUE
    BY DEF Traced!Export
  <1>3. PICK m \in Nat : m = Len(queue) - n
    BY <1>0
  <1>4. /\ queue' \in Seq(Span) /\ Len(queue') = m /\ n + m = Len(queue)
        /\ \A j \in 1..m : queue'[j] = queue[j + n]
    BY <1>0, <1>2, <1>3
  <1>5. Traced!Range(SubSeq(queue, 1, n)) = {queue[j] : j \in 1..n}
    <2>1. \A j \in 1..n : queue[j] \in Span
      BY <1>0
    <2>2. LET b == SubSeq(queue, 1, n)
          IN  b \in Seq(Span) /\ Len(b) = n /\ \A j \in 1..n : b[j] = queue[j]
      BY <1>0, <2>1, SubSeqProperties
    <2>3. DOMAIN SubSeq(queue, 1, n) = 1..n
      BY <2>2
    <2> QED BY <2>2, <2>3 DEF Traced!Range
  <1>6. \A q : Given(q)' = Given(q) /\ Traced!SpansOf(q)' = Traced!SpansOf(q)
    BY <1>1 DEF Given, Traced!SpansOf
  <1>7. ASSUME exported' = exported \cup {queue[j] : j \in 1..n}, troubled' = troubled
        PROVE  Said' /\ Kept' /\ Whole'
    <2>1. \A k \in 0..m : Upto(k)' = Upto(n + k)
      <3>1. ASSUME NEW k \in 0..m
            PROVE  {queue'[j] : j \in 1..k} = {queue[j] : j \in (n + 1)..(n + k)}
        <4>1. \A j \in 1..k : queue'[j] = queue[j + n] /\ j + n \in (n + 1)..(n + k)
          BY <1>4
        <4>2. \A j \in (n + 1)..(n + k) : j - n \in 1..k /\ queue'[j - n] = queue[j]
          BY <1>4
        <4>3. {queue'[j] : j \in 1..k} \subseteq {queue[j] : j \in (n + 1)..(n + k)}
          BY <4>1
        <4>4. {queue[j] : j \in (n + 1)..(n + k)} \subseteq {queue'[j] : j \in 1..k}
          BY <4>2
        <4> QED BY <4>3, <4>4
      <3>2. \A k \in 0..m : {queue[j] : j \in 1..n} \cup {queue[j] : j \in (n + 1)..(n + k)}
                            = {queue[j] : j \in 1..(n + k)}
        <4>1. \A k \in 0..m : 1..n \cup (n + 1)..(n + k) = 1..(n + k)
          OBVIOUS
        <4> QED BY <4>1
      <3>3. \A k \in 0..m : Upto(k)' = exported' \cup {queue'[j] : j \in 1..k}
        BY DEF Upto
      <3>4. \A k \in 0..m : Upto(n + k) = exported \cup {queue[j] : j \in 1..(n + k)}
        BY DEF Upto
      <3> QED BY <1>7, <3>1, <3>2, <3>3, <3>4
    <2>2. Upto(Len(queue))' = Upto(Len(queue))
      <3>1. Upto(Len(queue))' = exported' \cup {queue'[j] : j \in 1..Len(queue')}
        BY DEF Upto
      <3>2. Upto(m)' = exported' \cup {queue'[j] : j \in 1..m}
        BY DEF Upto
      <3>3. Upto(m)' = Upto(n + m)
        BY <2>1
      <3> QED BY <1>4, <3>1, <3>2, <3>3
    <2>3. Said' /\ Kept'
      BY <1>1, <1>6, <1>7, <2>2 DEF TracedInv, Said, Kept
    <2>4. Whole'
      <3>1. \A k \in 0..m : n + k \in 0..Len(queue)
        BY <1>4
      <3> QED BY <1>4, <1>6, <1>7, <2>1, <3>1 DEF TracedInv, Whole
    <2> QED BY <2>3, <2>4
  <1>8. ASSUME exported' = exported, troubled' = TRUE
        PROVE  Said' /\ Kept' /\ Whole'
    <2>1. Kept' /\ Whole'
      BY <1>8 DEF Kept, Whole
    <2>2. Upto(Len(queue))' \subseteq Upto(Len(queue))
      <3>1. Upto(Len(queue))' = exported' \cup {queue'[j] : j \in 1..m}
        BY <1>4 DEF Upto
      <3>2. \A j \in 1..m : queue'[j] \in {queue[i] : i \in 1..Len(queue)}
        BY <1>4
      <3> QED BY <1>8, <3>1, <3>2 DEF Upto
    <2>3. Said'
      BY <1>1, <1>6, <2>2 DEF TracedInv, Said
    <2> QED BY <2>1, <2>3
  <1>9. Said' /\ Kept' /\ Whole'
    BY <1>2, <1>5, <1>7, <1>8
  <1>10. Traced!TypeOK'
    <2>1. exported' \in SUBSET Span /\ troubled' \in BOOLEAN
      <3>1. \A j \in 1..n : queue[j] \in Span
        BY <1>0
      <3> QED BY <1>0, <1>2, <1>5, <3>1 DEF Traced!TypeOK, Span
    <2> QED BY <1>0, <1>1, <1>4, <2>1 DEF Traced!TypeOK, Span
  <1>11. Staged'
    <2>1. ~flushed
      BY <1>0, <1>2 DEF TracedInv, Staged
    <2> QED BY <1>1, <2>1 DEF TracedInv, Staged
  <1> QED BY <1>1, <1>9, <1>10, <1>11 DEF TracedInv

LEMMA TracedStep == ASSUME TracedInv, [Traced!Next]_(Traced!vars) PROVE TracedInv'
  <1>1. CASE Stages \/ UNCHANGED Traced!vars
    BY <1>1, TracedStage
  <1>2. CASE Traced!Export
    BY <1>2, TracedExport
  <1>3. CASE \E r \in Users : Traced!Accept(r)
    BY <1>3, TracedAccept
  <1>4. CASE \E r \in Users : \/ Traced!Query(r) \/ Traced!QueryCancelled(r)
                              \/ Traced!Service(r) \/ Traced!Answer(r)
    BY <1>4, TracedSpan
  <1> QED BY <1>1, <1>2, <1>3, <1>4 DEF Traced!Next, Traced!Finished, Stages

(* Any number of spans from the front of the queue hold, with a server     *)
(* span, its whole trace.                                                  *)
THEOREM TracedInvariance == Traced!Spec => []TracedInv
  <1>1. Traced!Init => TracedInv
    BY TracedInit
  <1>2. TracedInv /\ [Traced!Next]_(Traced!vars) => TracedInv'
    BY TracedStep
  <1> QED BY <1>1, <1>2, PTL DEF Traced!Spec

LEMMA TracedTells == ASSUME TracedInv PROVE Traced!TracesComplete
  <1>0. exported \in SUBSET Span /\ Len(queue) \in Nat
    BY SpanTypes DEF TracedInv
  <1>1. Upto(0) = exported /\ exported \subseteq Upto(Len(queue))
    BY DEF Upto
  <1>2. \A s \in exported : /\ s.req \in Users /\ s.name \in Given(s.req) /\ s.error = failed[s.req]
                            /\ Given(s.req) \subseteq Traced!SpansOf(s.req)
    <2>1. \A r \in Users : Given(r) \subseteq Traced!SpansOf(r)
      BY DEF TracedInv, Given, Traced!SpansOf, Traced!Names
    <2> QED BY <1>0, <1>1, <2>1 DEF TracedInv, Said, Span
  <1>3. ASSUME ~troubled, NEW s \in exported, s.name = "server"
        PROVE  /\ {x.name : x \in Traced!ExportedOf(s.req)} = Traced!SpansOf(s.req)
               /\ \A x \in Traced!ExportedOf(s.req) : x.error = s.error
    <2>1. \A n \in Traced!SpansOf(s.req) : \E x \in exported : x.req = s.req /\ x.name = n
      BY <1>0, <1>1, <1>3 DEF TracedInv, Whole, Has
    <2> QED BY <1>2, <2>1 DEF Traced!ExportedOf
  <1>4. ASSUME main = "returned", drained, flushed, ~troubled, NEW r \in Users, pc[r] # "idle"
        PROVE  {x.name : x \in Traced!ExportedOf(r)} = Traced!SpansOf(r)
    <2>1. pc[r] = "done" /\ queue = <<>>
      BY <1>4 DEF TracedInv, Staged
    <2>2. Given(r) = Traced!SpansOf(r)
      BY <2>1 DEF Given
    <2>3. Upto(Len(queue)) = exported
      BY <2>1 DEF Upto
    <2>4. \A n \in Traced!SpansOf(r) : \E x \in exported : x.req = r /\ x.name = n
      BY <1>4, <2>2, <2>3 DEF TracedInv, Kept, Has
    <2> QED BY <1>2, <2>4 DEF Traced!ExportedOf
  <1>5. Traced!TypeOK
    BY DEF TracedInv
  <1> QED BY <1>3, <1>4, <1>5, Zenon DEF Traced!TracesComplete

(* A server span is exported with its whole trace, and a complete shutdown *)
(* exports every trace, for any requests.                                  *)
THEOREM TracesWhole ==
  /\ Traced!Spec => []Traced!TracesComplete
  /\ Spec => []TracesComplete
  <1> DEFINE Inv == program = "traces" => TracedInv
  <1>1. TracedInv => Traced!TracesComplete
    BY TracedTells
  <1>2. Inv => TracesComplete
    BY TracedTells DEF TracesComplete
  <1>3. Init => Inv
    BY Begun, TracedInit
  <1>4. Inv /\ [Next]_vars => Inv'
    BY GoesOn, TracedStep
  <1> QED BY <1>1, <1>2, <1>3, <1>4, TracedInvariance, PTL DEF Spec

=============================================================================
