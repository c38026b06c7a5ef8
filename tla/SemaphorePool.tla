---------------------------- MODULE SemaphorePool ----------------------------
(***************************************************************************)
(* RunSemaphore of week 4, exercise 2: n goroutines, a channel of capacity *)
(* `limit` as a counting semaphore, a context that may be cancelled at any *)
(* moment, and the gauge of module Metrics around the work.                *)
(***************************************************************************)
EXTENDS Metrics

CONSTANTS N,          \* the argument n
          Limit       \* the argument limit, the semaphore's capacity

ASSUME PoolAssumption == N \in Nat /\ Limit \in Nat /\ Tasks = 1..N

VARIABLES main,       \* where RunSemaphore is
          spawned,    \* how many goroutines it has started
          pc,         \* where each task's goroutine is
          sem,        \* tokens in the channel
          wg,         \* the WaitGroup's counter
          cancelled   \* ctx is cancelled

mainVars == <<main, spawned>>
vars == <<mainVars, pc, sem, wg, cancelled, mvars>>

Init == /\ main = "spawn" /\ spawned = 0
        /\ pc = [t \in Tasks |-> "idle"]
        /\ sem = 0 /\ wg = 0
        /\ cancelled = FALSE
        /\ MInit

Goto(t, from, to) == pc[t] = from /\ pc' = [pc EXCEPT ![t] = to]

\* wg.Add(1); go func() {...}()
Spawn == /\ main = "spawn" /\ spawned < N
         /\ spawned' = spawned + 1
         /\ wg' = wg + 1
         /\ Goto(spawned + 1, "idle", "acquire")
         /\ UNCHANGED <<main, sem, cancelled, mvars>>

SpawnDone == /\ main = "spawn" /\ spawned = N
             /\ main' = "wait"
             /\ UNCHANGED <<spawned, pc, sem, wg, cancelled, mvars>>

\* The context's owner cancels it, or its deadline passes.
Cancel == /\ ~cancelled
          /\ cancelled' = TRUE
          /\ UNCHANGED <<mainVars, pc, sem, wg, mvars>>

\* Mutant: the channel is made with capacity n.
Acquire_Wide(t) == /\ sem < N
                   /\ Goto(t, "acquire", "work")
                   /\ sem' = sem + 1
                   /\ UNCHANGED <<mainVars, wg, cancelled, mvars>>

\* The first select: a slot, if there is one ...
Acquire(t) == /\ sem < Limit
              /\ Goto(t, "acquire", "work")
              /\ sem' = sem + 1
              /\ UNCHANGED <<mainVars, wg, cancelled, mvars>>

\* Mutants: the release is deferred before the slot is taken, or the select
\* does not listen to the context.
Abandon_Releases(t) == /\ cancelled /\ sem > 0
                       /\ Goto(t, "acquire", "done")
                       /\ sem' = sem - 1
                       /\ UNCHANGED <<mainVars, wg, cancelled, mvars>>
Abandon_Deaf(t) == FALSE

\* ... or the context's end.
Abandon(t) == /\ cancelled
              /\ Goto(t, "acquire", "done")
              /\ UNCHANGED <<mainVars, sem, wg, cancelled, mvars>>

\* A step of m.enter().
Enter(t) == /\ pc[t] = "work"
            /\ Add(t) \/ Load(t) \/ CompareAndSwap(t)
            /\ UNCHANGED <<mainVars, pc, sem, wg, cancelled>>

\* fakeWork ends, by its timer or by ctx; the deferred m.exit() runs.
Leave(t) == /\ Goto(t, "work", "release")
            /\ Exit(t)
            /\ UNCHANGED <<mainVars, sem, wg, cancelled>>

\* The deferred <-sem.
Release(t) == /\ sem > 0
              /\ Goto(t, "release", "done")
              /\ sem' = sem - 1
              /\ UNCHANGED <<mainVars, wg, cancelled, mvars>>

\* The deferred wg.Done().
Done(t) == /\ Goto(t, "done", "ended")
           /\ wg' = wg - 1
           /\ UNCHANGED <<mainVars, sem, cancelled, mvars>>

\* wg.Wait() returns.
Return == /\ main = "wait" /\ wg = 0
          /\ main' = "returned"
          /\ UNCHANGED <<spawned, pc, sem, wg, cancelled, mvars>>

Task(t) == \/ Acquire(t) \/ Abandon(t) \/ Enter(t) \/ Leave(t)
           \/ Release(t) \/ Done(t)

Step == Spawn \/ SpawnDone \/ Return \/ \E t \in Tasks : Task(t)

Finished == main = "returned" /\ UNCHANGED vars

Next == Step \/ Cancel \/ Finished

\* The scheduler runs whatever can run; nobody has to cancel the context.
Spec == Init /\ [][Next]_vars
LiveSpec == Spec /\ WF_vars(Step)

-----------------------------------------------------------------------------
(* Every variable has its type. *)
TypeOK == /\ main \in {"spawn", "wait", "returned"} /\ spawned \in 0..N
          /\ pc \in [Tasks -> {"idle", "acquire", "work", "release", "done", "ended"}]
          /\ sem \in 0..Limit /\ wg \in 0..N
          /\ cancelled \in BOOLEAN
          /\ MTypeOK

Holders == {t \in Tasks : pc[t] \in {"work", "release"}}

(* The promise of the pool, as the test asserts it (lines 143-153): the    *)
(* mark never exceeds the limit, and the work itself never does.           *)
Bounded == peak <= Limit /\ current <= Limit

(* When the call returns no task is left behind: none counted as inside,   *)
(* no slot still taken, every goroutine ended.                             *)
ReturnsClean == main = "returned" => /\ current = 0 /\ sem = 0
                                     /\ \A t \in Tasks : pc[t] = "ended"

Abstract == INSTANCE BoundedRun
              WITH running <- Holders,
                   ended <- {t \in Tasks : pc[t] \in {"done", "ended"}},
                   returned <- main = "returned"

(* The pool implements BoundedRun. *)
ImplementsBoundedRun == Abstract!Spec

(* With at least one slot the call returns, cancelled or not. *)
Returns == <>(main = "returned")

(* Even with no slot free, or none at all, a cancelled call returns: a     *)
(* goroutine that waits for a slot also listens to the context.            *)
CancelReturns == cancelled ~> main = "returned"

=============================================================================
