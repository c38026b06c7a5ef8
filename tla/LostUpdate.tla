----------------------------- MODULE LostUpdate -----------------------------
(***************************************************************************)
(* Week 6, exercise 3: goroutines that increment one row of a database     *)
(* table, through incRacy, incForUpdate or incVersion, and the runner that *)
(* collects their errors.  The database and the connection pool are used   *)
(* through pgx; here they are PostgreSQL at READ COMMITTED: a statement    *)
(* sees what is committed when it starts, a writer (and FOR UPDATE) waits  *)
(* for the row's lock, and a lock is kept until the transaction ends.      *)
(*                                                                         *)
(* A statement may fail.  When a commit (or the single UPDATE of           *)
(* incVersion) reports an error, the database may have applied it or not.  *)
(***************************************************************************)
EXTENDS Integers, FiniteSets

CONSTANTS Goroutines, \* how many goroutines the runner starts
          MaxConns,   \* the pool's connections
          MaxFaults   \* bound on the statements that fail

ASSUME RunAssumption == /\ Goroutines \in Nat /\ MaxConns \in Nat \ {0}
                        /\ MaxFaults \in Nat

Callers == 1..Goroutines
NoOne == 0
Modes == {"racy", "forupdate", "version"}

VARIABLES mode,       \* which increment runs
          main,       \* where runConcurrently is
          pc,         \* where each goroutine is
          n, version, \* the row, as committed
          lock,       \* whose transaction holds the row's lock
          seen,       \* the n each goroutine read
          seenVersion,\* the version each goroutine read
          conns,      \* the goroutines that hold a connection
          errs,       \* how many errors are in the channel
          faults,     \* how many statements have failed
          applied,    \* history: whose increment the database has committed
          failed      \* history: whose call returned an error

row == <<n, version, lock, applied>>
vars == <<mode, main, pc, row, seen, seenVersion, conns, errs, faults, failed>>

Init == /\ mode \in Modes
        /\ main = "wait"
        /\ pc = [c \in Callers |-> "begin"]
        /\ n = 0 /\ version = 0 /\ lock = NoOne
        /\ seen = [c \in Callers |-> 0]
        /\ seenVersion = [c \in Callers |-> 0]
        /\ conns = {} /\ errs = 0 /\ faults = 0
        /\ applied = {} /\ failed = {}

Goto(c, from, to) == pc[c] = from /\ pc' = [pc EXCEPT ![c] = to]

-----------------------------------------------------------------------------
\* The pool: a connection for a transaction, or for one statement.
Connect(c) == Cardinality(conns) < MaxConns /\ conns' = conns \cup {c}
Disconnect(c) == conns' = conns \ {c}
Unlock(c) == lock' = IF lock = c THEN NoOne ELSE lock

\* pool.Begin waits for a connection.
Begin(c) == /\ mode # "version"
            /\ Goto(c, "begin", "select")
            /\ Connect(c)
            /\ UNCHANGED <<mode, main, row, seen, seenVersion, errs, faults, failed>>

-----------------------------------------------------------------------------
\* SELECT n, without a lock.
SelectPlain(c) == /\ mode = "racy"
                  /\ Goto(c, "select", "update")
                  /\ seen' = [seen EXCEPT ![c] = n]
                  /\ UNCHANGED <<mode, main, row, seenVersion, conns, errs, faults, failed>>

\* Mutant: FOR UPDATE is left out.
SelectForUpdate_Plain(c) ==
    /\ mode = "forupdate"
    /\ Goto(c, "select", "update")
    /\ seen' = [seen EXCEPT ![c] = n]
    /\ UNCHANGED <<mode, main, row, seenVersion, conns, errs, faults, failed>>

\* SELECT n ... FOR UPDATE waits for the row's lock, then reads.
SelectForUpdate(c) == /\ mode = "forupdate" /\ lock = NoOne
                      /\ Goto(c, "select", "update")
                      /\ lock' = c
                      /\ seen' = [seen EXCEPT ![c] = n]
                      /\ UNCHANGED <<mode, main, n, version, applied, seenVersion,
                                     conns, errs, faults, failed>>

\* UPDATE counter SET n = $1, under the row's lock; seen becomes the new value.
Update(c) == /\ lock \in {NoOne, c}
             /\ Goto(c, "update", "commit")
             /\ lock' = c
             /\ seen' = [seen EXCEPT ![c] = @ + 1]
             /\ UNCHANGED <<mode, main, n, version, applied, seenVersion, conns,
                            errs, faults, failed>>

\* The transaction's write becomes the row, and its lock is free.
Committed(c) == /\ n' = seen[c]
                /\ applied' = applied \cup {c}
                /\ Unlock(c)
                /\ UNCHANGED version

Commit(c) == /\ Goto(c, "commit", "done")
             /\ Committed(c)
             /\ Disconnect(c)
             /\ UNCHANGED <<mode, main, seen, seenVersion, errs, faults, failed>>

-----------------------------------------------------------------------------
\* incVersion: SELECT n, version, on a connection of its own.
SelectVersion(c) == /\ mode = "version" /\ Cardinality(conns) < MaxConns
                    /\ Goto(c, "begin", "cas")
                    /\ seen' = [seen EXCEPT ![c] = n]
                    /\ seenVersion' = [seenVersion EXCEPT ![c] = version]
                    /\ UNCHANGED <<mode, main, row, conns, errs, faults, failed>>

\* The row the conditional UPDATE writes.
Won(c) == /\ n' = seen[c] + 1
          /\ version' = seenVersion[c] + 1
          /\ applied' = applied \cup {c}
          /\ UNCHANGED lock

\* Mutant: the loop has no retry.
UpdateVersion_NoRetry(c) ==
    /\ Goto(c, "cas", "done")
    /\ IF version = seenVersion[c] THEN Won(c) ELSE UNCHANGED row
    /\ UNCHANGED <<mode, main, seen, seenVersion, conns, errs, faults, failed>>

\* UPDATE ... WHERE version = $3: one row and done, or none and round again.
UpdateVersion(c) ==
    /\ Cardinality(conns) < MaxConns
    /\ \/ /\ version = seenVersion[c]
          /\ Goto(c, "cas", "done")
          /\ Won(c)
       \/ /\ version # seenVersion[c]
          /\ Goto(c, "cas", "begin")
          /\ UNCHANGED row
    /\ UNCHANGED <<mode, main, seen, seenVersion, conns, errs, faults, failed>>

-----------------------------------------------------------------------------
\* Failures.  The function returns the error; the deferred Rollback ends the
\* transaction, if there is one.
Failing(c) == /\ faults < MaxFaults
              /\ faults' = faults + 1
              /\ failed' = failed \cup {c}
              /\ Disconnect(c)
              /\ UNCHANGED <<mode, main, seen, seenVersion, errs>>

\* Mutant: no Rollback is deferred, so the transaction stays open.
FailBefore_NoRollback(c) == /\ \E from \in {"begin", "select", "update", "commit", "cas"} :
                                   Goto(c, from, "error")
                            /\ faults < MaxFaults
                            /\ faults' = faults + 1
                            /\ failed' = failed \cup {c}
                            /\ UNCHANGED <<mode, main, row, conns, seen, seenVersion, errs>>

\* A statement fails and nothing of it is applied.
FailBefore(c) == /\ \E from \in {"begin", "select", "update", "commit", "cas"} :
                        Goto(c, from, "error")
                 /\ Unlock(c)
                 /\ UNCHANGED <<n, version, applied>>
                 /\ Failing(c)

\* A commit is applied, and its answer is lost.
FailAfterCommit(c) == /\ Goto(c, "commit", "error")
                      /\ Committed(c)
                      /\ Failing(c)

\* The conditional UPDATE is applied, and its answer is lost.
FailAfterUpdate(c) == /\ version = seenVersion[c]
                      /\ Goto(c, "cas", "error")
                      /\ Won(c)
                      /\ Failing(c)

-----------------------------------------------------------------------------
\* Mutant: the channel has room for one error only.
SendError_Narrow(c) == /\ errs < 1
                       /\ Goto(c, "error", "done")
                       /\ errs' = errs + 1
                       /\ UNCHANGED <<mode, main, row, seen, seenVersion, conns,
                                      faults, failed>>

\* errs <- err, into a channel with room for every goroutine.
SendError(c) == /\ errs < Goroutines
                /\ Goto(c, "error", "done")
                /\ errs' = errs + 1
                /\ UNCHANGED <<mode, main, row, seen, seenVersion, conns, faults, failed>>

\* wg.Wait(); close(errs); the first error in the channel, or nil.
Return == /\ main = "wait"
          /\ \A c \in Callers : pc[c] = "done"
          /\ main' = IF errs > 0 THEN "error" ELSE "count"
          /\ UNCHANGED <<mode, pc, row, seen, seenVersion, conns, errs, faults, failed>>

\* finalCount ignores its query's error and then returns zero; main compares.
FinalCount == /\ main = "count"
              /\ \E got \in {n} \cup (IF faults < MaxFaults THEN {0} ELSE {}) :
                    /\ main' = IF got = Goroutines THEN "OK" ELSE "LOST UPDATES"
                    /\ faults' = IF got = n THEN faults ELSE faults + 1
              /\ UNCHANGED <<mode, pc, row, seen, seenVersion, conns, errs, failed>>

Caller(c) == \/ Begin(c) \/ SelectPlain(c) \/ SelectForUpdate(c) \/ Update(c)
             \/ Commit(c) \/ SelectVersion(c) \/ UpdateVersion(c) \/ SendError(c)

Fault(c) == FailBefore(c) \/ FailAfterCommit(c) \/ FailAfterUpdate(c)

Step == Return \/ FinalCount \/ \E c \in Callers : Caller(c)

Finished == main \in {"error", "OK", "LOST UPDATES"} /\ UNCHANGED vars

Next == Step \/ Finished \/ \E c \in Callers : Fault(c)

\* Goroutines and database keep running; no statement has to fail.
Spec == Init /\ [][Next]_vars
LiveSpec == Spec /\ WF_vars(Step)

-----------------------------------------------------------------------------
PC == {"begin", "select", "update", "commit", "cas", "error", "done"}

TypeOK == /\ mode \in Modes /\ main \in {"wait", "error", "count", "OK", "LOST UPDATES"}
          /\ pc \in [Callers -> PC]
          /\ n \in 0..Goroutines /\ version \in 0..Goroutines
          /\ lock \in Callers \cup {NoOne}
          /\ seen \in [Callers -> Nat] /\ seenVersion \in [Callers -> Nat]
          /\ conns \in SUBSET Callers /\ errs \in Nat /\ faults \in 0..MaxFaults
          /\ applied \in SUBSET Callers /\ failed \in SUBSET Callers

Cured == mode # "racy"

(* With either cure the row counts the committed increments, at every      *)
(* moment, faults and lost answers included: none is lost and none is      *)
(* applied twice; in version mode the version moves with it.  The racy     *)
(* increment loses updates, but the row never counts more than was         *)
(* committed and never returns to zero.  And every variable has its type.  *)
Exact == /\ TypeOK
         /\ Cured => n = Cardinality(applied)
         /\ mode = "version" => version = n
         /\ n <= Cardinality(applied)
         /\ applied # {} => n >= 1

(* An increment whose call returned nil is in the row; when the runner     *)
(* returns nil under a cure, all of them are; and main prints OK only then *)
(* (it may still print LOST UPDATES, if finalCount's own query failed).    *)
Acknowledged ==
    /\ \A c \in Callers : pc[c] = "done" /\ c \notin failed => c \in applied
    /\ main = "count" /\ Cured => n = Goroutines
    /\ main = "OK" => n = Goroutines

(* The runner returns an error exactly when some call did, and when it has *)
(* returned no connection and no lock is left over.                        *)
Verdict == main # "wait" => /\ main = "error" <=> failed # {}
                            /\ conns = {} /\ lock = NoOne

Abstract == INSTANCE Increments
              WITH value <- IF Cured THEN n ELSE 0,
                   applied <- IF Cured THEN applied ELSE {}

(* Both cures implement a shared counter that loses nothing. *)
ImplementsIncrements == Abstract!Spec

(* The runner returns: no one waits for ever for a lock, a connection or   *)
(* room in the errors channel, and the optimistic loop ends.               *)
Returns == <>(main \in {"error", "OK", "LOST UPDATES"})

=============================================================================
