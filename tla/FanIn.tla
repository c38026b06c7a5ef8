-------------------------------- MODULE FanIn --------------------------------
(***************************************************************************)
(* What a fan-out/fan-in pipeline promises its caller, whatever channels   *)
(* and goroutines it is built from: every item handed in is collected      *)
(* exactly once, in an order nobody chooses, and the call returns when,    *)
(* and only when, the last one has been collected.                         *)
(***************************************************************************)
EXTENDS Naturals, Sequences, Functions

CONSTANT Items        \* the set of items handed to the pipeline

VARIABLES got,        \* the items collected so far, in order of arrival
          returned    \* the call has returned

vars == <<got, returned>>

Init == got = <<>> /\ returned = FALSE

\* Some item that has not been collected yet reaches the caller.
Collect(i) == /\ ~returned
              /\ i \notin Range(got)
              /\ got' = Append(got, i)
              /\ UNCHANGED returned

\* Nothing is missing any more: the call returns.
Return == /\ ~returned
          /\ Range(got) = Items
          /\ returned' = TRUE
          /\ UNCHANGED got

Next == (\E i \in Items : Collect(i)) \/ Return

\* Safety alone, and with the promise that the call does return.
Spec == Init /\ [][Next]_vars
LiveSpec == Spec /\ WF_vars(Next)

=============================================================================
