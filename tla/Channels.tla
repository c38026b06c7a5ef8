------------------------------ MODULE Channels ------------------------------
(***************************************************************************)
(* The program of week 3, exercise 1: main hands a value over a rendezvous,*)
(* fills and drains a buffered channel, ranges over a producer's channel   *)
(* and at last fans jobs out to workers and collects their results, one    *)
(* step per channel operation.  A send on an unbuffered channel is one     *)
(* step of sender and receiver together.                                   *)
(***************************************************************************)
EXTENDS Naturals, Sequences

CONSTANTS Workers,    \* goroutines that do the jobs
          Jobs,       \* how many jobs the feeder sends
          Squares     \* produce's argument n

W == 1..Workers
BufferCap == 2

VARIABLES main,       \* what main is doing
          greeter,    \* the goroutine of the rendezvous
          buf,        \* the buffered channel
          produced,   \* how many squares produce has sent
          started,    \* how many workers main has started
          fed,        \* how many jobs the feeder has sent
          worker, job,\* where each worker is, and the job it holds
          wg,         \* the WaitGroup's counter
          closed,     \* the channels that have been closed
          got         \* the results collected (by job)

pool == <<started, fed, worker, job, wg>>
vars == <<main, greeter, buf, produced, pool, closed, got>>

Init == /\ main = "rendezvous" /\ greeter = "send"
        /\ buf = <<>> /\ produced = 0
        /\ started = 0 /\ fed = 0
        /\ worker = [w \in W |-> "idle"] /\ job = [w \in W |-> 0]
        /\ wg = 0 /\ closed = {} /\ got = <<>>

-----------------------------------------------------------------------------
\* ch <- "done" meets <-ch.
Rendezvous == /\ main = "rendezvous" /\ greeter = "send"
              /\ main' = "fill" /\ greeter' = "print"
              /\ UNCHANGED <<buf, produced, pool, closed, got>>

\* The goroutine's own line, some time after the send, if main is not done first.
GreeterPrints == /\ main # "returned" /\ greeter = "print"
                 /\ greeter' = "ended"
                 /\ UNCHANGED <<main, buf, produced, pool, closed, got>>

\* Two sends that do not block: the channel has room for them.
BufferSend == /\ main = "fill" /\ Len(buf) < BufferCap
              /\ buf' = Append(buf, 10 * (Len(buf) + 1))
              /\ main' = IF Len(buf') = 2 THEN "drain" ELSE "fill"
              /\ UNCHANGED <<greeter, produced, pool, closed, got>>

BufferReceive == /\ main = "drain" /\ buf # <<>>
                 /\ buf' = Tail(buf)
                 /\ main' = IF Len(buf) = 1 THEN "range" ELSE "drain"
                 /\ UNCHANGED <<greeter, produced, pool, closed, got>>

\* produce sends a square that the range in main receives ...
Produce == /\ main = "range" /\ produced < Squares
           /\ produced' = produced + 1
           /\ UNCHANGED <<main, greeter, buf, pool, closed, got>>

\* ... and closes its channel, which ends the range.
ProduceCloses == /\ main = "range" /\ produced = Squares /\ "out" \notin closed
                 /\ closed' = closed \cup {"out"}
                 /\ UNCHANGED <<main, greeter, buf, produced, pool, got>>

RangeEnds == /\ main = "range" /\ "out" \in closed
             /\ main' = "fanOut"
             /\ UNCHANGED <<greeter, buf, produced, pool, closed, got>>

-----------------------------------------------------------------------------
\* fanOutCollect: the feeder runs already.  Mutant: wg.Add is missing.
FanOut_NoAdd == /\ main = "fanOut" /\ started < Workers
                /\ started' = started + 1
                /\ worker' = [worker EXCEPT ![started + 1] = "recv"]
                /\ UNCHANGED <<main, greeter, buf, produced, fed, job, wg, closed, got>>

\* wg.Add(1); go worker(jobs, results, &wg)
FanOut == /\ main = "fanOut" /\ started < Workers
          /\ started' = started + 1
          /\ wg' = wg + 1
          /\ worker' = [worker EXCEPT ![started + 1] = "recv"]
          /\ UNCHANGED <<main, greeter, buf, produced, fed, job, closed, got>>

\* The closer is started last; then main ranges over results.
FanOutDone == /\ main = "fanOut" /\ started = Workers
              /\ main' = "collect"
              /\ UNCHANGED <<greeter, buf, produced, pool, closed, got>>

\* jobs <- j meets a worker's receive.
JobSend(w) == /\ fed < Jobs /\ worker[w] = "recv"
              /\ fed' = fed + 1
              /\ worker' = [worker EXCEPT ![w] = "send"]
              /\ job' = [job EXCEPT ![w] = fed + 1]
              /\ UNCHANGED <<main, greeter, buf, produced, started, wg, closed, got>>

FeederCloses == /\ main \in {"fanOut", "collect"} /\ fed = Jobs /\ "jobs" \notin closed
                /\ closed' = closed \cup {"jobs"}
                /\ UNCHANGED <<main, greeter, buf, produced, pool, got>>

\* results <- j * 2 meets the range in main.
ResultSend(w) == /\ main = "collect" /\ worker[w] = "send"
                 /\ worker' = [worker EXCEPT ![w] = "recv"]
                 /\ got' = Append(got, job[w])
                 /\ UNCHANGED <<main, greeter, buf, produced, started, fed, job, wg, closed>>

\* Mutant: the worker ends without wg.Done.
WorkerDone_NoDone(w) == /\ worker[w] = "recv" /\ "jobs" \in closed
                        /\ worker' = [worker EXCEPT ![w] = "ended"]
                        /\ UNCHANGED <<main, greeter, buf, produced, started, fed, job, wg, closed, got>>

\* jobs is closed: the worker's range ends, and its deferred wg.Done runs.
WorkerDone(w) == /\ worker[w] = "recv" /\ "jobs" \in closed
                 /\ worker' = [worker EXCEPT ![w] = "ended"]
                 /\ wg' = wg - 1
                 /\ UNCHANGED <<main, greeter, buf, produced, started, fed, job, closed, got>>

\* The closer: wg.Wait(); close(results).
CloserCloses == /\ main = "collect" /\ wg = 0 /\ "results" \notin closed
                /\ closed' = closed \cup {"results"}
                /\ UNCHANGED <<main, greeter, buf, produced, pool, got>>

\* The range ends; main prints the sorted results and the program is over.
Return == /\ main = "collect" /\ "results" \in closed
          /\ main' = "returned"
          /\ UNCHANGED <<greeter, buf, produced, pool, closed, got>>

Main == Rendezvous \/ BufferSend \/ BufferReceive \/ RangeEnds
        \/ FanOut \/ FanOutDone \/ Return

Step == \/ Main \/ GreeterPrints \/ Produce \/ ProduceCloses
        \/ FeederCloses \/ CloserCloses
        \/ \E w \in W : JobSend(w) \/ ResultSend(w) \/ WorkerDone(w)

Finished == main = "returned" /\ UNCHANGED vars

Next == Step \/ Finished

Spec == Init /\ [][Next]_vars

=============================================================================
