---------------------------- MODULE CancelWorkers ----------------------------
(***************************************************************************)
(* Week 4, exercise 1: a worker that works for a time unless its context   *)
(* ends first, under a context that a goroutine cancels, one with a        *)
(* deadline and one that a signal cancels.  A timer is what is left of it, *)
(* in units of 100 ms; a goroutine may be late for its timer by any time.  *)
(* Package context and the runtime's signal handling are external.         *)
(***************************************************************************)
EXTENDS Integers

CONSTANTS Budget,    \* the sleep before cancel(), and the deadline
          Need,      \* how long the worker works
          Hour       \* how long it works in the signal scenario

Scenarios == {"manual", "timeout", "signal"}
Timers == {"sleep", "deadline", "work"}
Off == -1

VARIABLES main,      \* the scenario main runs, "returned" or "killed"
          at,        \* where in it main is
          left,      \* what is left of each timer, Off if it does not run
          ctx,       \* ctx.Err() of each scenario's context, "live" if nil
          canceller, \* the goroutine of the manual scenario
          caught,    \* a signal has been caught
          result,    \* what worker returned
          told       \* what each scenario has printed

vars == <<main, at, left, ctx, canceller, caught, result, told>>

\* With the argument "signal", main runs that scenario alone.
Init == /\ main \in {"manual", "signal"} /\ at = "derive"
        /\ left = [t \in Timers |-> Off]
        /\ ctx = [s \in Scenarios |-> "live"]
        /\ canceller = "none" /\ caught = FALSE
        /\ result = "none" /\ told = [s \in Scenarios |-> "none"]

Running == main \in Scenarios
Start(timer, time) == left' = [left EXCEPT ![timer] = time]

\* Of several ends of a context the first decides what Err says.
End(s, err) == ctx' = [ctx EXCEPT ![s] = IF @ = "live" THEN err ELSE @]

-----------------------------------------------------------------------------
\* Mutant: cancel() for defer cancel().
Derive_CancelsNow ==
    /\ Running /\ at = "derive" /\ at' = "call"
    /\ IF main = "timeout" THEN Start("deadline", Budget) ELSE UNCHANGED left
    /\ canceller' = IF main = "manual" THEN "started" ELSE canceller
    /\ End(main, "Canceled")
    /\ UNCHANGED <<main, caught, result, told>>

\* WithCancel and go, WithTimeout, or NotifyContext.
Derive == /\ Running /\ at = "derive" /\ at' = "call"
          /\ IF main = "timeout" THEN Start("deadline", Budget) ELSE UNCHANGED left
          /\ canceller' = IF main = "manual" THEN "started" ELSE canceller
          /\ UNCHANGED <<main, ctx, caught, result, told>>

\* worker: time.After ...
Call == /\ Running /\ at = "call" /\ at' = "select"
        /\ Start("work", IF main = "signal" THEN Hour ELSE Need)
        /\ UNCHANGED <<main, ctx, canceller, caught, result, told>>

\* ... and the two cases of its select.
WorkDone == /\ Running /\ at = "select" /\ left["work"] = 0
            /\ at' = "print" /\ result' = "no error"
            /\ UNCHANGED <<main, left, ctx, canceller, caught, told>>

Interrupted == /\ Running /\ at = "select" /\ ctx[main] # "live"
               /\ at' = "print" /\ result' = ctx[main]
               /\ UNCHANGED <<main, left, ctx, canceller, caught, told>>

\* classify(err)
Tells == /\ Running /\ at = "print" /\ at' = "deferred"
         /\ told' = [told EXCEPT ![main] = result]
         /\ UNCHANGED <<main, left, ctx, canceller, caught, result>>

\* The deferred cancel() or stop().
Deferred == /\ Running /\ at = "deferred" /\ at' = "over"
            /\ End(main, "Canceled")
            /\ left' = [left EXCEPT !["work"] = Off, !["deadline"] = Off]
            /\ UNCHANGED <<main, canceller, caught, result, told>>

Over == /\ Running /\ at = "over" /\ at' = "derive"
        /\ main' = IF main = "manual" THEN "timeout" ELSE "returned"
        /\ UNCHANGED <<left, ctx, canceller, caught, result, told>>

-----------------------------------------------------------------------------
\* The goroutine that sleeps and cancels.
Sleep == /\ Running /\ canceller = "started" /\ canceller' = "asleep"
         /\ Start("sleep", Budget)
         /\ UNCHANGED <<main, at, ctx, caught, result, told>>

Cancel == /\ Running /\ canceller = "asleep" /\ left["sleep"] = 0
          /\ canceller' = "done"
          /\ End("manual", "Canceled")
          /\ UNCHANGED <<main, at, left, caught, result, told>>

\* The context's own timer, which a cancel() stops.
Expire == /\ Running /\ left["deadline"] = 0
          /\ Start("deadline", Off)
          /\ End("timeout", "DeadlineExceeded")
          /\ UNCHANGED <<main, at, canceller, caught, result, told>>

Tick == /\ Running /\ \E t \in Timers : left[t] > 0
        /\ left' = [t \in Timers |-> IF left[t] > 0 THEN left[t] - 1 ELSE left[t]]
        /\ UNCHANGED <<main, at, ctx, canceller, caught, result, told>>

\* A signal is for NotifyContext's goroutine as long as it is registered,
\* of which it takes the first, and else ends the process.
Registered == main = "signal" /\ at \notin {"derive", "over"}

Signal == /\ Registered /\ ~caught
          /\ caught' = TRUE
          /\ UNCHANGED <<main, at, left, ctx, canceller, result, told>>

NotifyContext == /\ Registered /\ caught /\ ctx["signal"] = "live"
                 /\ End("signal", "Canceled")
                 /\ UNCHANGED <<main, at, left, canceller, caught, result, told>>

Kill == /\ Running /\ ~Registered
        /\ main' = "killed"
        /\ UNCHANGED <<at, left, ctx, canceller, caught, result, told>>

Step == \/ Derive \/ Call \/ WorkDone \/ Interrupted \/ Tells \/ Deferred \/ Over
        \/ Sleep \/ Cancel \/ Expire \/ Tick \/ NotifyContext

Next == Step \/ Signal \/ Kill

Spec == Init /\ [][Next]_vars

-----------------------------------------------------------------------------
Cause(s) == IF s = "timeout" THEN "DeadlineExceeded" ELSE "Canceled"
Causes == {"Canceled", "DeadlineExceeded"}

TypeOK == /\ main \in Scenarios \cup {"returned", "killed"}
          /\ at \in {"derive", "call", "select", "print", "deferred", "over"}
          /\ left \in [Timers -> Int] /\ \A t \in Timers : left[t] >= Off
          /\ ctx \in [Scenarios -> Causes \cup {"live"}]
          /\ canceller \in {"none", "started", "asleep", "done"}
          /\ caught \in BOOLEAN
          /\ result \in Causes \cup {"none", "no error"}
          /\ told \in [Scenarios -> Causes \cup {"none", "no error"}]

(* A scenario whose worker was interrupted tells the cause that its        *)
(* acceptance text names, which has happened: the goroutine has called     *)
(* cancel, the deadline has passed, or a signal was caught.  What a        *)
(* deferred cancel does to the context is never taken for the cause, and   *)
(* changes it no more.                                                     *)
CauseTold == /\ TypeOK
             /\ \A s \in Scenarios : told[s] \in Causes =>
                   /\ told[s] = Cause(s) /\ ctx[s] = Cause(s)
                   /\ s = "manual" => canceller = "done"
                   /\ s = "signal" => caught

=============================================================================
