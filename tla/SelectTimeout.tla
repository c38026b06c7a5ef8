--------------------------- MODULE SelectTimeout ----------------------------
(***************************************************************************)
(* The program of week 3, exercise 2: calls that wait for a goroutine's    *)
(* value or for a timer, first through fetch, whose channel has room for   *)
(* one value, then, after the WaitGroup's workers, through leakyFetch,     *)
(* whose channel has none.  Time is left out: either case of a select may  *)
(* win.                                                                    *)
(***************************************************************************)
EXTENDS Naturals, FiniteSets

CONSTANTS Fetches,    \* selectWithTimeout's calls of fetch
          LeakyCalls, \* leakDemo's calls of leakyFetch
          Workers     \* waitGroupWorkers' n

Calls == 1..(Fetches + LeakyCalls)
W == 1..Workers

\* Mutant: fetch's channel is unbuffered too.
Cap_Unbuffered(c) == 0

\* make(chan int, 1) in fetch, make(chan int) in leakyFetch.
Cap(c) == IF c <= Fetches THEN 1 ELSE 0

VARIABLES main,       \* what main is doing
          call,       \* how many calls it has made
          sender,     \* where each call's goroutine is
          buf,        \* the calls whose channel holds the value
          outcome,    \* how each call ended
          worker, wg  \* waitGroupWorkers

vars == <<main, call, sender, buf, outcome, worker, wg>>

Init == /\ main = "next" /\ call = 0
        /\ sender = [c \in Calls |-> "idle"]
        /\ buf = {}
        /\ outcome = [c \in Calls |-> "none"]
        /\ worker = [w \in W |-> "idle"] /\ wg = 0

Goto(c, from, to) == sender[c] = from /\ sender' = [sender EXCEPT ![c] = to]
Ends(result) == /\ main' = "next"
                /\ outcome' = [outcome EXCEPT ![call] = result]

\* main makes the next call, which starts its goroutine.
Start == /\ main = "next" /\ call < Cardinality(Calls)
         /\ call = Fetches => \A w \in W : worker[w] # "idle"
         /\ main' = "select" /\ call' = call + 1
         /\ Goto(call + 1, "idle", "sleep")
         /\ UNCHANGED <<buf, outcome, worker, wg>>

\* time.Sleep(delay) ends.
Wake(c) == /\ Goto(c, "sleep", "send")
           /\ UNCHANGED <<main, call, buf, outcome, worker, wg>>

\* A send into the buffer needs nobody.
SendBuffered(c) == /\ Cap(c) > 0
                   /\ Goto(c, "send", "ended")
                   /\ buf' = buf \cup {c}
                   /\ UNCHANGED <<main, call, outcome, worker, wg>>

\* Without one it needs the caller to be in its select still.
SendRendezvous(c) == /\ Cap(c) = 0 /\ main = "select" /\ call = c
                     /\ Goto(c, "send", "ended")
                     /\ Ends("value")
                     /\ UNCHANGED <<call, buf, worker, wg>>

Receive == /\ main = "select" /\ call \in buf
           /\ buf' = buf \ {call}
           /\ Ends("value")
           /\ UNCHANGED <<call, sender, worker, wg>>

\* time.After wins, a value that is ready notwithstanding.
Timeout == /\ main = "select"
           /\ Ends("timeout")
           /\ UNCHANGED <<call, sender, buf, worker, wg>>

-----------------------------------------------------------------------------
\* waitGroupWorkers, between the two kinds of calls: Add, then go.
StartWorker(w) == /\ main = "next" /\ call = Fetches
                  /\ \A v \in W : worker[v] = "idle" <=> v >= w
                  /\ worker' = [worker EXCEPT ![w] = "run"]
                  /\ wg' = wg + 1
                  /\ UNCHANGED <<main, call, sender, buf, outcome>>

WorkerDone(w) == /\ worker[w] = "run"
                 /\ worker' = [worker EXCEPT ![w] = "ended"]
                 /\ wg' = wg - 1
                 /\ UNCHANGED <<main, call, sender, buf, outcome>>

\* wg.Wait() holds main back before leakDemo.
StartLeaky == call >= Fetches /\ wg = 0 /\ Start
StartFetch == call < Fetches /\ Start

\* leakDemo sleeps until every goroutine has woken, counts them, and is over.
Report == /\ main = "next" /\ call = Cardinality(Calls)
          /\ \A c \in Calls : sender[c] = "ended" \/ (sender[c] = "send" /\ Cap(c) = 0)
          /\ main' = "reported"
          /\ UNCHANGED <<call, sender, buf, outcome, worker, wg>>

Step == \/ StartFetch \/ StartLeaky \/ Receive \/ Timeout \/ Report
        \/ \E c \in Calls : Wake(c) \/ SendBuffered(c) \/ SendRendezvous(c)
        \/ \E w \in W : StartWorker(w) \/ WorkerDone(w)

Finished == main = "reported" /\ UNCHANGED vars

Next == Step \/ Finished

Spec == Init /\ [][Next]_vars

-----------------------------------------------------------------------------
Leaked == {c \in Calls : sender[c] = "send"}
TimedOut == {c \in Calls : outcome[c] = "timeout"}

(* How it ends: exactly the leaky calls that timed out have left a         *)
(* goroutine behind, blocked in its send for ever, one a call, as          *)
(* leakyFetch's comment says (lines 100-103), and none of fetch's, whose   *)
(* callers may time out as well.                                           *)
LeaksExactly ==
    /\ main = "reported"
    /\ Leaked = {c \in TimedOut : c > Fetches}
    /\ \A c \in Calls \ Leaked : sender[c] = "ended"

=============================================================================
