---------------------------- MODULE MCWeeks3to4 -----------------------------
(* The concurrent programs of weeks 3 and 4, one at a time: `program` says *)
(* which.  They share main and wg, the pools more, and the gauge is that   *)
(* of Metrics; what one has not is 0.                                      *)
EXTENDS Metrics, Sequences

CONSTANTS Workers, Jobs, Squares, Fetches, LeakyCalls,   \* week 3
          N, Limit,                                      \* pools and counters
          Budget, Need, Hour                             \* contexts

VARIABLES program, main, wg, buf, worker,
          greeter, produced, started, fed, job, closed, got,
          call, sender, outcome,
          spawned, pc, cancelled,
          sem, err, saw,
          kind, counter, reg, mu, stored,
          at, left, ctx, canceller, caught, result, told

Chan  == INSTANCE Channels
Sel   == INSTANCE SelectTimeout
Empty == INSTANCE SemaphorePool WITH Limit <- 0
Group == INSTANCE ErrgroupPool
Count == INSTANCE Counters
Ctx   == INSTANCE CancelWorkers

week3     == <<buf, worker>>
chanOnly  == <<greeter, produced, started, fed, job, closed, got>>
selOnly   == <<call, sender, outcome>>
week4     == <<spawned, pc>>
poolOnly  == <<cancelled, sem, current, peak, phase, cur, old, high>>
groupOnly == <<err, saw>>
countOnly == <<kind, counter, reg, mu, stored>>
ctxOnly   == <<at, left, ctx, canceller, caught, result, told>>
vars == <<program, main, wg, week3, chanOnly, selOnly,
          week4, poolOnly, groupOnly, countOnly, ctxOnly>>

NoWeek3 == buf = 0 /\ worker = 0
NoChan  == /\ greeter = 0 /\ produced = 0 /\ started = 0 /\ fed = 0
           /\ job = 0 /\ closed = 0 /\ got = 0
NoSel   == call = 0 /\ sender = 0 /\ outcome = 0
NoWeek4 == spawned = 0 /\ pc = 0
NoPool  == /\ cancelled = FALSE /\ sem = 0 /\ current = 0 /\ peak = 0
           /\ phase = 0 /\ cur = 0 /\ old = 0 /\ high = 0
NoGroup == err = 0 /\ saw = 0
NoCount == kind = 0 /\ counter = 0 /\ reg = 0 /\ mu = 0 /\ stored = 0
NoCtx   == /\ at = 0 /\ left = 0 /\ ctx = 0 /\ canceller = 0
           /\ caught = 0 /\ result = 0 /\ told = 0

OnlyWeek3 == NoWeek4 /\ NoPool /\ NoGroup /\ NoCount /\ NoCtx
OnlyWeek4 == NoWeek3 /\ NoChan /\ NoSel /\ NoCtx

Init == \/ program = "channels" /\ Chan!Init /\ NoSel /\ OnlyWeek3
        \/ program = "select" /\ Sel!Init /\ NoChan /\ OnlyWeek3
        \/ program = "empty semaphore" /\ Empty!Init /\ NoGroup /\ NoCount /\ OnlyWeek4
        \/ program = "errgroup" /\ Group!Init /\ NoCount /\ OnlyWeek4
        \/ program = "counters" /\ Count!Init /\ NoPool /\ NoGroup /\ OnlyWeek4
        \/ /\ program = "contexts" /\ Ctx!Init /\ wg = 0
           /\ NoWeek3 /\ NoChan /\ NoSel /\ NoWeek4 /\ NoPool /\ NoGroup /\ NoCount

\* What the scheduler or a timer lets go on ...
Step ==
    \/ /\ program = "channels" /\ Chan!Step
       /\ UNCHANGED <<program, selOnly, week4, poolOnly, groupOnly, countOnly, ctxOnly>>
    \/ /\ program = "select" /\ Sel!Step
       /\ UNCHANGED <<program, chanOnly, week4, poolOnly, groupOnly, countOnly, ctxOnly>>
    \/ /\ program = "empty semaphore" /\ Empty!Step
       /\ UNCHANGED <<program, week3, chanOnly, selOnly, groupOnly, countOnly, ctxOnly>>
    \/ /\ program = "errgroup" /\ Group!Step
       /\ UNCHANGED <<program, week3, chanOnly, selOnly, countOnly, ctxOnly>>
    \/ /\ program = "counters" /\ Count!Step
       /\ UNCHANGED <<program, week3, chanOnly, selOnly, poolOnly, groupOnly, ctxOnly>>
    \/ /\ program = "contexts" /\ Ctx!Step
       /\ UNCHANGED <<program, wg, week3, chanOnly, selOnly,
                      week4, poolOnly, groupOnly, countOnly>>

\* ... and what somebody outside may do.
Outside ==
    \/ /\ program = "empty semaphore" /\ Empty!Cancel
       /\ UNCHANGED <<program, week3, chanOnly, selOnly, groupOnly, countOnly, ctxOnly>>
    \/ /\ program = "errgroup" /\ Group!Cancel
       /\ UNCHANGED <<program, week3, chanOnly, selOnly, countOnly, ctxOnly>>
    \/ /\ program = "contexts" /\ (Ctx!Signal \/ Ctx!Kill)
       /\ UNCHANGED <<program, wg, week3, chanOnly, selOnly,
                      week4, poolOnly, groupOnly, countOnly>>

Ended == main \in {"returned", "reported", "killed"}
Finished == Ended /\ UNCHANGED vars

Next == Step \/ Outside \/ Finished

Spec == Init /\ [][Next]_vars
LiveSpec == Spec /\ WF_vars(Step)

-----------------------------------------------------------------------------
(* Every program ends, whatever its goroutines, timers and signals do, the *)
(* pool without a slot excepted, which waits to be cancelled.              *)
Returns == <>(program = "empty semaphore" \/ Ended)

(* Even when no slot is ever free, a cancelled call returns: a goroutine   *)
(* that waits for a slot also listens to the context (SemaphorePool).      *)
CancelReturns == program = "empty semaphore" => Empty!CancelReturns

FanOut == INSTANCE FanIn
            WITH Items <- 1..Jobs,
                 got <- IF program = "channels" THEN got ELSE <<>>,
                 returned <- program = "channels" /\ main = "returned"

(* fanOutCollect's range sees every job's result once, and ends only when  *)
(* it has them all (Channels).                                             *)
ImplementsFanIn == FanOut!Spec

(* In the end exactly the leaky calls that timed out have left a goroutine *)
(* behind, as leakyFetch's comment says, lines 100-103 (SelectTimeout).    *)
LeaksExactly == <>[](program = "select" => Sel!LeaksExactly)

(* RunErrgroup returns an error exactly when a task was cut short, which   *)
(* only a cancelled context does, and every task has ended (ErrgroupPool). *)
ReturnsVerdict == program = "errgroup" => Group!ReturnsVerdict

Bounded == INSTANCE BoundedRun
             WITH running <- IF program = "errgroup" THEN Group!Holders ELSE {},
                  ended <- IF program = "errgroup"
                           THEN {t \in Tasks : pc[t] \in {"done", "ended"}} ELSE {},
                  returned <- program = "errgroup" /\ main = "returned"

(* The errgroup pool implements BoundedRun: never more than the limit runs,*)
(* and each task once.                                                     *)
GroupImplementsBoundedRun == Bounded!Spec

(* MutexCount and AtomicCount return n, RacyCount between 1 and n          *)
(* (Counters).                                                             *)
CountsAll == program = "counters" => Count!CountsAll

Shared == INSTANCE Increments
            WITH Callers <- 1..N,
                 value <- IF program = "counters" /\ Count!Synchronised THEN counter ELSE 0,
                 applied <- IF program = "counters" /\ Count!Synchronised THEN stored ELSE {}

(* Under a mutex, or with an atomic addition, no increment is lost.        *)
CountersImplementIncrements == Shared!Spec

(* An interrupted worker's scenario tells what has ended its context:      *)
(* never the deferred cancel that ends it too (CancelWorkers).             *)
CauseTold == program = "contexts" => Ctx!CauseTold

=============================================================================
