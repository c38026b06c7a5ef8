----------------------------- MODULE BoundedRun -----------------------------
(***************************************************************************)
(* What a bounded pool promises: each task runs at most once, at most      *)
(* Limit run at a time, and the call returns when none is left running or  *)
(* waiting.  A task may be given up without having run.                    *)
(***************************************************************************)
EXTENDS Integers, FiniteSets

CONSTANTS Tasks, Limit

VARIABLES running, ended, returned

vars == <<running, ended, returned>>

Init == running = {} /\ ended = {} /\ returned = FALSE

Start(t) == /\ t \notin running \cup ended
            /\ Cardinality(running) < Limit
            /\ running' = running \cup {t}
            /\ UNCHANGED <<ended, returned>>

Finish(t) == /\ t \in running
             /\ running' = running \ {t}
             /\ ended' = ended \cup {t}
             /\ UNCHANGED returned

GiveUp(t) == /\ t \notin running \cup ended
             /\ ended' = ended \cup {t}
             /\ UNCHANGED <<running, returned>>

Return == /\ ~returned /\ ended = Tasks
          /\ returned' = TRUE
          /\ UNCHANGED <<running, ended>>

Next == Return \/ \E t \in Tasks : Start(t) \/ Finish(t) \/ GiveUp(t)

Spec == Init /\ [][Next]_vars

=============================================================================
