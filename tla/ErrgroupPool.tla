---------------------------- MODULE ErrgroupPool ----------------------------
(***************************************************************************)
(* RunErrgroup of week 4, exercise 2.  errgroup is a library: its Go takes *)
(* a slot before it starts the goroutine, so the caller itself waits; the  *)
(* first error is kept and cancels the derived context; Wait returns it.   *)
(***************************************************************************)
EXTENDS Metrics

CONSTANTS N,          \* the argument n
          Limit       \* the argument limit

VARIABLES main,       \* where RunErrgroup is
          spawned,    \* how many times it has called g.Go
          pc,         \* where each task's goroutine is
          sem, wg,    \* the group's slots taken and WaitGroup counter
          err,        \* the group's error is set
          cancelled,  \* the caller's context is cancelled
          saw         \* history: the tasks whose fakeWork returned ctx.Err()

mainVars == <<main, spawned>>
vars == <<mainVars, pc, sem, wg, err, cancelled, saw, mvars>>

Init == /\ main = "go" /\ spawned = 0
        /\ pc = [t \in Tasks |-> "idle"]
        /\ sem = 0 /\ wg = 0
        /\ err = FALSE /\ cancelled = FALSE /\ saw = {}
        /\ MInit

Goto(t, from, to) == pc[t] = from /\ pc' = [pc EXCEPT ![t] = to]

\* The derived context ends with the caller's, or with the first error.
CtxDone == cancelled \/ err

\* g.Go: wait for a slot, then start the goroutine.
Go == /\ main = "go" /\ spawned < N
      /\ sem < Limit
      /\ spawned' = spawned + 1
      /\ sem' = sem + 1 /\ wg' = wg + 1
      /\ Goto(spawned + 1, "idle", "work")
      /\ UNCHANGED <<main, err, cancelled, saw, mvars>>

GoDone == /\ main = "go" /\ spawned = N
          /\ main' = "wait"
          /\ UNCHANGED <<spawned, pc, sem, wg, err, cancelled, saw, mvars>>

Cancel == /\ ~cancelled
          /\ cancelled' = TRUE
          /\ UNCHANGED <<mainVars, pc, sem, wg, err, saw, mvars>>

\* A step of m.enter().
Enter(t) == /\ pc[t] = "work"
            /\ Add(t) \/ Load(t) \/ CompareAndSwap(t)
            /\ UNCHANGED <<mainVars, pc, sem, wg, err, cancelled, saw>>

\* fakeWork ends by its timer, or by the derived context; m.exit() runs.
Work(t) == /\ Goto(t, "work", "release")
           /\ Exit(t)
           /\ UNCHANGED <<mainVars, sem, wg, err, cancelled, saw>>

Interrupted(t) == /\ CtxDone
                  /\ Goto(t, "work", "failed")
                  /\ Exit(t)
                  /\ saw' = saw \cup {t}
                  /\ UNCHANGED <<mainVars, sem, wg, err, cancelled>>

\* Mutant: the task's error is dropped.
KeepError_Drops(t) == /\ Goto(t, "failed", "release")
                      /\ UNCHANGED <<mainVars, sem, wg, err, cancelled, saw, mvars>>

\* The group keeps the first error and cancels its context.
KeepError(t) == /\ Goto(t, "failed", "release")
                /\ err' = TRUE
                /\ UNCHANGED <<mainVars, sem, wg, cancelled, saw, mvars>>

Release(t) == /\ sem > 0
              /\ Goto(t, "release", "done")
              /\ sem' = sem - 1
              /\ UNCHANGED <<mainVars, wg, err, cancelled, saw, mvars>>

Done(t) == /\ Goto(t, "done", "ended")
           /\ wg' = wg - 1
           /\ UNCHANGED <<mainVars, sem, err, cancelled, saw, mvars>>

\* Mutant: the error is returned without waiting for the rest.
Wait_FirstError == /\ main = "wait" /\ (wg = 0 \/ err)
                   /\ main' = "returned"
                   /\ UNCHANGED <<spawned, pc, sem, wg, err, cancelled, saw, mvars>>

\* g.Wait() returns the group's error.
Wait == /\ main = "wait" /\ wg = 0
        /\ main' = "returned"
        /\ UNCHANGED <<spawned, pc, sem, wg, err, cancelled, saw, mvars>>

Task(t) == \/ Enter(t) \/ Work(t) \/ Interrupted(t) \/ KeepError(t)
           \/ Release(t) \/ Done(t)

Step == Go \/ GoDone \/ Wait \/ \E t \in Tasks : Task(t)

Finished == main = "returned" /\ UNCHANGED vars

Next == Step \/ Cancel \/ Finished

Spec == Init /\ [][Next]_vars

-----------------------------------------------------------------------------
TypeOK == /\ main \in {"go", "wait", "returned"} /\ spawned \in 0..N
          /\ pc \in [Tasks -> {"idle", "work", "failed", "release", "done", "ended"}]
          /\ sem \in 0..Limit /\ wg \in 0..N
          /\ err \in BOOLEAN /\ cancelled \in BOOLEAN /\ saw \in SUBSET Tasks
          /\ MTypeOK

Holders == {t \in Tasks : pc[t] \in {"work", "failed", "release"}}

(* The call returns an error exactly when some task was cut short, and only *)
(* if the caller's context was cancelled: with a context nobody cancels the *)
(* test's err is nil.  By then every task has run and ended.  And every     *)
(* variable has its type.                                                   *)
ReturnsVerdict ==
    /\ TypeOK
    /\ main = "returned" => /\ err <=> saw # {}
                            /\ err => cancelled
                            /\ current = 0 /\ sem = 0
                            /\ \A t \in Tasks : pc[t] = "ended"

=============================================================================
