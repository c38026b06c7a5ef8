----------------------------- MODULE FanPipeline -----------------------------
(***************************************************************************)
(* SquareAll of week 3, exercise 3: a source, `workers` square stages that *)
(* all read it, one forwarder per stage, and a closer, around unbuffered   *)
(* channels and one WaitGroup.  An item is its position in `in`.           *)
(*                                                                         *)
(* A step of the model is one channel operation.  The channels are         *)
(* unbuffered, so a send and the receive that takes it are one step of the *)
(* two goroutines together.                                                *)
(***************************************************************************)
EXTENDS Integers, FiniteSets, SequencesExt, Sorting

CONSTANTS In,         \* the argument `in`
          Workers     \* the argument `workers`

ASSUME InAssumption == In \in Seq(Int)
ASSUME WorkersAssumption == Workers \in Int

\* Fewer than one worker is taken as one.
W == IF Workers < 1 THEN 1 ELSE Workers
Stages == 1..W
Items == 1..Len(In)

\* The channels: the source, one per stage, and the merged one.
Source == 0
Out == W + 1
Channels == Source..Out

VARIABLES
    main,      \* where SquareAll is
    started,   \* how many stages (then forwarders) its loop has started
    gen, next, \* the source goroutine, and the item it sends next
    square,    \* the stage goroutines
    squared,   \* the item each stage received last
    forward,   \* the forwarder goroutines
    carried,   \* the item each forwarder received last
    wg,        \* the WaitGroup's counter
    closer,    \* the goroutine that waits for wg and closes Out
    closed,    \* the closed channels
    got,       \* the items SquareAll collected, in order of arrival
    result     \* what SquareAll returns

mainVars == <<main, started, got, result>>
genVars == <<gen, next>>
stageVars == <<square, squared>>
forwardVars == <<forward, carried, wg>>
vars == <<mainVars, genVars, stageVars, forwardVars, closer, closed>>

Squares(items) == [k \in DOMAIN items |-> In[items[k]] * In[items[k]]]

Init == /\ main = "gen" /\ started = 0
        /\ gen = "idle" /\ next = 1
        /\ square = [s \in Stages |-> "idle"]
        /\ squared = [s \in Stages |-> 0]
        /\ forward = [s \in Stages |-> "idle"]
        /\ carried = [s \in Stages |-> 0]
        /\ wg = 0
        /\ closer = "idle"
        /\ closed = {}
        /\ got = <<>>
        /\ result = <<>>

-----------------------------------------------------------------------------
\* gen: a loop of sends, then the deferred close.

\* The source sends its next item and stage s receives it.
GenSend(s) == /\ gen = "send" /\ next \in Items
              /\ square[s] = "recv"
              /\ next' = next + 1
              /\ square' = [square EXCEPT ![s] = "send"]
              /\ squared' = [squared EXCEPT ![s] = next]
              /\ UNCHANGED <<mainVars, gen, forwardVars, closer, closed>>

GenClose == /\ gen = "send" /\ next \notin Items
            /\ gen' = "done"
            /\ closed' = closed \cup {Source}
            /\ UNCHANGED <<mainVars, next, stageVars, forwardVars, closer>>

-----------------------------------------------------------------------------
\* square: receive, send the square, until the source is closed.

\* Mutant: the stage sends the same item again instead of receiving the next.
SquareSend_Repeats(s) == /\ square[s] = "send" /\ forward[s] = "recv"
                         /\ forward' = [forward EXCEPT ![s] = "send"]
                         /\ carried' = [carried EXCEPT ![s] = squared[s]]
                         /\ UNCHANGED <<mainVars, genVars, stageVars, wg, closer, closed>>

\* Stage s sends on its own channel and its forwarder receives.
SquareSend(s) == /\ square[s] = "send"
                 /\ forward[s] = "recv"
                 /\ square' = [square EXCEPT ![s] = "recv"]
                 /\ forward' = [forward EXCEPT ![s] = "send"]
                 /\ carried' = [carried EXCEPT ![s] = squared[s]]
                 /\ UNCHANGED <<mainVars, genVars, squared, wg, closer, closed>>

SquareClose(s) == /\ square[s] = "recv" /\ Source \in closed
                  /\ square' = [square EXCEPT ![s] = "done"]
                  /\ closed' = closed \cup {s}
                  /\ UNCHANGED <<mainVars, genVars, squared, forwardVars, closer>>

-----------------------------------------------------------------------------
\* merge: the forwarders, the WaitGroup and the closer.

\* Forwarder s sends on the merged channel and SquareAll's loop receives.
ForwardSend(s) == /\ forward[s] = "send"
                  /\ main = "collect"
                  /\ forward' = [forward EXCEPT ![s] = "recv"]
                  /\ got' = Append(got, carried[s])
                  /\ UNCHANGED <<main, started, result, genVars, stageVars,
                                 carried, wg, closer, closed>>

\* Its channel is closed: wg.Done().
ForwardDone(s) == /\ forward[s] = "recv" /\ s \in closed
                  /\ forward' = [forward EXCEPT ![s] = "done"]
                  /\ wg' = wg - 1
                  /\ UNCHANGED <<mainVars, genVars, stageVars, carried, closer, closed>>


\* wg.Wait() returns; close(out).
CloserClose == /\ closer = "wait" /\ wg = 0
               /\ closer' = "done"
               /\ closed' = closed \cup {Out}
               /\ UNCHANGED <<mainVars, genVars, stageVars, forwardVars>>

-----------------------------------------------------------------------------
\* SquareAll itself: gen, the stages, merge, the collecting loop, the sort.

MainGen == /\ main = "gen"
           /\ main' = "stages"
           /\ gen' = "send"
           /\ UNCHANGED <<started, got, result, next, stageVars, forwardVars,
                          closer, closed>>

MainStartStage == /\ main = "stages" /\ started < W
                  /\ started' = started + 1
                  /\ square' = [square EXCEPT ![started + 1] = "recv"]
                  /\ UNCHANGED <<main, got, result, genVars, squared, forwardVars,
                                 closer, closed>>

\* Mutant: wg.Add is one short.
MainAdd_OneShort == /\ main = "stages" /\ started = W
                     /\ main' = "forwarders" /\ started' = 0
                     /\ wg' = wg + (W - 1)
                     /\ UNCHANGED <<got, result, genVars, stageVars, forward, carried,
                                    closer, closed>>

\* merge adds every forwarder to wg before the first is started.
MainAdd == /\ main = "stages" /\ started = W
           /\ main' = "forwarders" /\ started' = 0
           /\ wg' = wg + W
           /\ UNCHANGED <<got, result, genVars, stageVars, forward, carried,
                          closer, closed>>

MainStartForward == /\ main = "forwarders" /\ started < W
                    /\ started' = started + 1
                    /\ forward' = [forward EXCEPT ![started + 1] = "recv"]
                    /\ UNCHANGED <<main, got, result, genVars, stageVars, carried,
                                   wg, closer, closed>>

MainStartCloser == /\ main = "forwarders" /\ started = W
                   /\ main' = "collect"
                   /\ closer' = "wait"
                   /\ UNCHANGED <<started, got, result, genVars, stageVars,
                                  forwardVars, closed>>

\* Mutants: the caller stops at the first result, or does not sort.
MainReturn_First == /\ main = "collect" /\ (Out \in closed \/ got # <<>>)
                    /\ main' = "returned"
                    /\ result' = Ints(Squares(got))
                    /\ UNCHANGED <<started, got, genVars, stageVars, forwardVars,
                                   closer, closed>>
MainReturn_Unsorted == /\ main = "collect" /\ Out \in closed
                       /\ main' = "returned"
                       /\ result' = Squares(got)
                       /\ UNCHANGED <<started, got, genVars, stageVars, forwardVars,
                                      closer, closed>>

\* The range over the merged channel ends; sort.Ints(got).
MainReturn == /\ main = "collect" /\ Out \in closed
              /\ main' = "returned"
              /\ result' = Ints(Squares(got))
              /\ UNCHANGED <<started, got, genVars, stageVars, forwardVars,
                             closer, closed>>

Main == MainGen \/ MainStartStage \/ MainAdd \/ MainStartForward
        \/ MainStartCloser \/ MainReturn

Step == \/ Main
        \/ GenClose
        \/ CloserClose
        \/ \E s \in Stages : \/ GenSend(s) \/ SquareSend(s) \/ SquareClose(s)
                             \/ ForwardSend(s) \/ ForwardDone(s)

\* Every goroutine has run its last statement.
AllDone == /\ main = "returned" /\ gen = "done" /\ closer = "done"
           /\ \A s \in Stages : square[s] = "done" /\ forward[s] = "done"

Finished == AllDone /\ UNCHANGED vars

Next == Step \/ Finished

\* The Go scheduler keeps running goroutines as long as one of them can run.
Fairness == WF_vars(Step)
Spec == Init /\ [][Next]_vars
LiveSpec == Spec /\ Fairness

-----------------------------------------------------------------------------
StagePC == {"idle", "recv", "send", "done"}

(* Every variable has its type (of result, ReturnsSquares says all). *)
TypeOK == /\ main \in {"gen", "stages", "forwarders", "collect", "returned"}
          /\ started \in 0..W
          /\ gen \in {"idle", "send", "done"}
          /\ next \in 1..Len(In)+1
          /\ square \in [Stages -> StagePC]
          /\ squared \in [Stages -> Items \cup {0}]
          /\ forward \in [Stages -> StagePC]
          /\ carried \in [Stages -> Items \cup {0}]
          /\ wg \in 0..W
          /\ closer \in {"idle", "wait", "done"}
          /\ closed \in SUBSET Channels
          /\ got \in Seq(Items)

(* No goroutine is about to send on, or to close, a channel that is closed *)
(* already, either of which would panic: one owner per channel, and for    *)
(* the merged channel the closer behind the WaitGroup.                     *)
ChannelsSafe ==
    /\ gen # "done" => Source \notin closed
    /\ closer # "done" => Out \notin closed
    /\ \A s \in Stages : /\ square[s] # "done" => s \notin closed
                         /\ forward[s] # "done" => Out \notin closed

\* The items that left the source and are not collected yet.
InSquare == {s \in Stages : square[s] = "send"}
InForward == {s \in Stages : forward[s] = "send"}

(* Whatever the interleaving, every item the source has sent is in exactly *)
(* one place: a stage's hand, a forwarder's hand, or the collected slice.  *)
Conserved ==
    /\ \A i \in 1..next-1 :
        \/ i \in Range(got)
        \/ \E s \in InSquare : squared[s] = i
        \/ \E s \in InForward : carried[s] = i
    /\ IsInjective(got)
    /\ \A s \in InSquare :
        /\ squared[s] \in 1..next-1 /\ squared[s] \notin Range(got)
        /\ \A t \in InForward : carried[t] # squared[s]
        /\ \A t \in InSquare : t # s => squared[t] # squared[s]
    /\ \A s \in InForward :
        /\ carried[s] \in 1..next-1 /\ carried[s] \notin Range(got)
        /\ \A t \in InForward : t # s => carried[t] # carried[s]
    /\ \A i \in Range(got) : i < next

(* The call returns with nothing lost: all items have been collected, and  *)
(* every goroutine the call started has already run its last statement, so *)
(* a caller that counts goroutines finds none of them (lines 128-131).     *)
ReturnsDrained == main = "returned" => Range(got) = Items /\ AllDone

(* The slice returned is sorted, and each value is in it as often as it is *)
(* among the squares of `in` (duplicates and negative inputs included).    *)
ReturnsSquares ==
    main = "returned" =>
        /\ \A i, j \in DOMAIN result : i < j => result[i] <= result[j]
        /\ ToBag(result) = ToBag(Squares([i \in Items |-> i]))

\* The promise of module FanIn, with the items of this call.
Abstract == INSTANCE FanIn WITH returned <- main = "returned"

(* The pipeline implements FanIn, its promise to return included. *)
ImplementsFanIn == Abstract!LiveSpec

(* No goroutine leaks: all of them end, and stay ended. *)
NoLeak == <>[]AllDone

=============================================================================
