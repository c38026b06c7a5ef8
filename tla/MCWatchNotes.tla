---------------------------- MODULE MCWatchNotes ----------------------------
(* The service with clients that do as they like, when main is "absent",   *)
(* and with the program's own main as the only client.                     *)
EXTENDS NotesDriver, TLC

CONSTANTS w1, w2, work, none

MCWatchers == {w1, w2}
MCTags == {work}
MCNoFilter == none

Alone == main = "absent"
allVars == <<vars, dvars>>

MCInit == DInit \/ (Init /\ main = "absent" /\ reader = "none" /\ seen = 0)

MCNext == \/ Alone /\ Next /\ UNCHANGED dvars
          \/ ~Alone /\ (DStep \/ DOutside)
          \/ Exited /\ UNCHANGED allVars

\* As in WatchNotes; and main and its process go on while they can.
MCFairness == /\ WF_allVars(Alone /\ Create /\ UNCHANGED dvars)
              /\ WF_allVars(Alone /\ GracefulStop /\ UNCHANGED dvars)
              /\ \A w \in Watchers : WF_allVars(Alone /\ Handler(w) /\ UNCHANGED dvars)
              /\ WF_allVars(~Alone /\ DStep)

MCSpec == MCInit /\ [][MCNext]_allVars /\ MCFairness

-----------------------------------------------------------------------------
(* Every CreateNote is answered, whoever watches (WatchNotes).             *)
ServiceAnswers == Alone => CreatesAnswered

(* The server stops once its client is gone (WatchNotes), and main ends,   *)
(* well only with its goroutine, its stream and its calls over             *)
(* (NotesDriver).                                                          *)
Ends == (Alone => Stops) /\ (~Alone => DriverEnds)

=============================================================================
