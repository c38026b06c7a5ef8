------------------------------ MODULE AuditTx ------------------------------
(***************************************************************************)
(* Week 6, exercise 2: runs of the program and of its test, against one    *)
(* database, at once or one after the other.  createWithAudit writes a     *)
(* note and its audit row in one transaction; any statement may fail, the  *)
(* answer to a commit may be lost, and a process may die anywhere.  The    *)
(* database is external: the rows a transaction has written become visible *)
(* at its commit, an insert of a key that an open transaction has inserted *)
(* waits for that one's end, and a transaction whose client is gone is     *)
(* rolled back some time later.                                            *)
(***************************************************************************)
EXTENDS Naturals, Sequences, FiniteSets

CONSTANTS Mains,     \* runs of main
          Tests,     \* runs of TestTransactionRollsBack
          MaxFaults  \* bound on failing statements and dying processes

Processes == Mains \cup Tests
Short == "short"
Long == "more than 64 characters"

Create(i, a) == [op |-> "create", id |-> i, actor |-> a]
Exists(i) == [op |-> "exists", id |-> i, actor |-> Short]

\* What a process does, one call after the other.
Script(p) == IF p \in Mains
             THEN <<Create("ok-1", Short), Exists("ok-1"), Create("bad-1", Long), Exists("bad-1")>>
             ELSE <<Create("tx-test", Long), Exists("tx-test")>>
Ids == {"ok-1", "bad-1", "tx-test"}
Transactions == Processes \X (1..4)

VARIABLES notes,    \* the table's committed rows, by id
          audits,   \* how many committed audit rows each id has
          written,  \* what each transaction has written and not committed
          at, pc,   \* the call each process is in, and where in it
          err,      \* whether its call of createWithAudit failed
          status,   \* "running", or how it has ended
          faults    \* how many faults there have been

db == <<notes, audits, written>>
vars == <<db, at, pc, err, status, faults>>

Init == /\ notes = {} /\ audits = [i \in Ids |-> 0]
        /\ written = [t \in Transactions |-> {}]
        /\ at = [p \in Processes |-> 1] /\ pc = [p \in Processes |-> "call"]
        /\ err = [p \in Processes |-> FALSE]
        /\ status = [p \in Processes |-> "running"]
        /\ faults = 0

Call(p) == Script(p)[at[p]]
Tx(p) == <<p, at[p]>>
Goto(p, from, to) == /\ status[p] = "running" /\ pc[p] = from
                     /\ pc' = [pc EXCEPT ![p] = to]
Fault == faults < MaxFaults /\ faults' = faults + 1
Write(t, table, i) == written' = [written EXCEPT ![t] = @ \cup {<<table, i>>}]
Failed(p) == err' = [err EXCEPT ![p] = TRUE]

-----------------------------------------------------------------------------
\* createWithAudit.  pool.Begin
Begin(p) == /\ Goto(p, "call", "note") /\ Call(p).op = "create"
            /\ err' = [err EXCEPT ![p] = FALSE]
            /\ UNCHANGED <<db, at, status, faults>>

\* Mutant: the note is inserted through the pool, not through the transaction.
InsertNote_OnPool(p) ==
    /\ Goto(p, "note", "audit")
    /\ Call(p).id \notin notes
    /\ notes' = notes \cup {Call(p).id}
    /\ UNCHANGED <<audits, written, at, err, status, faults>>

\* INSERT INTO notes, once nobody else has an uncommitted note of that id.
InsertNote(p) == /\ Goto(p, "note", "audit")
                 /\ Call(p).id \notin notes
                 /\ \A t \in Transactions : <<"notes", Call(p).id>> \notin written[t]
                 /\ Write(Tx(p), "notes", Call(p).id)
                 /\ UNCHANGED <<notes, audits, at, err, status, faults>>

\* The primary key is taken, as it is when the program runs again.
DuplicateNote(p) == /\ Goto(p, "note", "rollback")
                    /\ Call(p).id \in notes
                    /\ Failed(p)
                    /\ UNCHANGED <<db, at, status, faults>>

\* INSERT INTO audit, with CHECK (length(actor) <= 64).
InsertAudit(p) == /\ Goto(p, "audit", "commit")
                  /\ Call(p).actor = Short
                  /\ Write(Tx(p), "audit", Call(p).id)
                  /\ UNCHANGED <<notes, audits, at, err, status, faults>>

CheckFails(p) == /\ Goto(p, "audit", "rollback")
                 /\ Call(p).actor = Long
                 /\ Failed(p)
                 /\ UNCHANGED <<db, at, status, faults>>

\* The database makes a transaction's rows visible, all in one step.
Apply(t) == /\ notes' = notes \cup {i \in Ids : <<"notes", i>> \in written[t]}
            /\ audits' = [i \in Ids |-> audits[i] + IF <<"audit", i>> \in written[t] THEN 1 ELSE 0]
            /\ written' = [written EXCEPT ![t] = {}]

Commit(p) == /\ Goto(p, "commit", "return")
             /\ Apply(Tx(p))
             /\ UNCHANGED <<at, err, status, faults>>

CommitAnswerLost(p) == /\ Goto(p, "commit", "rollback")
                       /\ Apply(Tx(p))
                       /\ Failed(p) /\ Fault
                       /\ UNCHANGED <<at, status>>

StatementFails(p) == /\ \E from \in {"note", "audit", "commit"} : Goto(p, from, "rollback")
                     /\ Failed(p) /\ Fault
                     /\ UNCHANGED <<db, at, status>>

BeginFails(p) == /\ Goto(p, "call", "return") /\ Call(p).op = "create"
                 /\ Failed(p) /\ Fault
                 /\ UNCHANGED <<db, at, status>>

\* The deferred tx.Rollback; without a connection it does nothing.
Rollback(p) == /\ Goto(p, "rollback", "return")
               /\ \/ written' = [written EXCEPT ![Tx(p)] = {}] /\ UNCHANGED faults
                  \/ UNCHANGED written /\ Fault
               /\ UNCHANGED <<notes, audits, at, err, status>>

\* The server ends the transaction of a client that no longer works on it.
Reap(p, i) == /\ written[<<p, i>>] # {}
              /\ \/ status[p] # "running" \/ at[p] # i
                 \/ at[p] = i /\ pc[p] = "return"
              /\ written' = [written EXCEPT ![<<p, i>>] = {}]
              /\ UNCHANGED <<notes, audits, at, pc, err, status, faults>>

-----------------------------------------------------------------------------
\* main and the test go on to their next call, or end.
NextCall(p) == /\ at' = [at EXCEPT ![p] = @ + 1]
               /\ pc' = [pc EXCEPT ![p] = "call"]
               /\ UNCHANGED status
End(p, how) == status' = [status EXCEPT ![p] = how] /\ UNCHANGED <<at, pc>>

\* main gives up when its good call fails, the test when its bad one does not.
Returned(p) == /\ status[p] = "running" /\ pc[p] = "return"
               /\ IF err[p] = (Call(p).actor = Long) \/ (p \in Mains /\ at[p] = 3)
                  THEN NextCall(p) ELSE End(p, "failed")
               /\ UNCHANGED <<db, err, faults>>

\* noteExists.  main ignores its error and takes the answer false.
Query(p) == /\ status[p] = "running" /\ pc[p] = "call" /\ Call(p).op = "exists"
            /\ IF at[p] < Len(Script(p)) THEN NextCall(p)
               ELSE End(p, IF Call(p).id \in notes THEN "broken" ELSE "ok")
            /\ UNCHANGED <<db, err, faults>>

QueryFails(p) == /\ status[p] = "running" /\ pc[p] = "call" /\ Call(p).op = "exists"
                 /\ Fault
                 /\ IF at[p] < Len(Script(p)) THEN NextCall(p)
                    ELSE End(p, IF p \in Mains THEN "ok" ELSE "failed")
                 /\ UNCHANGED <<db, err>>

Crash(p) == /\ status[p] = "running"
            /\ End(p, "crashed") /\ Fault
            /\ UNCHANGED <<db, err>>

Step(p) == \/ Begin(p) \/ InsertNote(p) \/ DuplicateNote(p) \/ InsertAudit(p) \/ CheckFails(p)
           \/ Commit(p) \/ CommitAnswerLost(p) \/ StatementFails(p) \/ BeginFails(p)
           \/ Rollback(p) \/ Returned(p) \/ Query(p) \/ QueryFails(p) \/ Crash(p)

Finished == /\ \A p \in Processes : status[p] # "running"
            /\ \A t \in Transactions : written[t] = {}
            /\ UNCHANGED vars

Next == \/ Finished
        \/ \E p \in Processes : Step(p) \/ \E i \in 1..4 : Reap(p, i)

Spec == Init /\ [][Next]_vars

-----------------------------------------------------------------------------
TypeOK == /\ notes \subseteq Ids /\ audits \in [Ids -> Nat]
          /\ written \in [Transactions -> SUBSET ({"notes", "audit"} \X Ids)]
          /\ at \in [Processes -> 1..4]
          /\ pc \in [Processes -> {"call", "note", "audit", "commit", "rollback", "return"}]
          /\ err \in [Processes -> BOOLEAN]
          /\ status \in [Processes -> {"running", "ok", "failed", "broken", "crashed"}]
          /\ faults \in 0..MaxFaults

(* Whatever fails and whoever dies, the tables hold a note with exactly    *)
(* one audit row or neither; no note of a call whose audit row breaks the  *)
(* CHECK is ever seen, so nobody reports broken atomicity; and the note of *)
(* a call that returned nil is there from then on.                         *)
Atomic == /\ TypeOK
          /\ \A i \in Ids : audits[i] = IF i \in notes THEN 1 ELSE 0
          /\ notes \subseteq {"ok-1"}
          /\ \A p \in Processes : status[p] # "broken"
          /\ \A p \in Mains : at[p] > 1 => "ok-1" \in notes

=============================================================================
