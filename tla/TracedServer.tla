--------------------------- MODULE TracedServer ----------------------------
(***************************************************************************)
(* Week 9, exercise 2: a traced HTTP server.  A request opens three spans, *)
(* one in the other, and ends them innermost first; an ended span goes to  *)
(* the batch processor's queue, from where batches are exported.  On an    *)
(* interrupt main drains the server and then, deferred, flushes the spans, *)
(* both within a deadline.  otelhttp, the SDK's processor and exporter and *)
(* net/http are external.                                                  *)
(***************************************************************************)
EXTENDS Naturals, Sequences, Functions

CONSTANTS Requests   \* the requests

\* A note that is found, note 0, another path, a parent that is not sampled.
Kinds == {"note", "zero", "other", "unsampled"}
Names == {"server", "service.GetNote", "db.query.GetNote"}

VARIABLES main,      \* where main is, "waiting" for the interrupt at first
          listener,  \* what the goroutine around ListenAndServe does
          kind,      \* each request's kind
          pc, failed,\* where each request is; whether its query failed
          queue,     \* the spans ended and not yet exported
          exported,  \* the spans the collector has
          troubled,  \* a batch could not be exported
          drained,   \* Shutdown returned nil
          flushed    \* the tracer's shutdown returned nil

spans == <<queue, exported, troubled>>
vars == <<main, listener, kind, pc, failed, spans, drained, flushed>>

Init == /\ main = "start" /\ listener = "starting"
        /\ kind \in [Requests -> Kinds]
        /\ pc = [r \in Requests |-> "idle"]
        /\ failed = [r \in Requests |-> FALSE]
        /\ queue = <<>> /\ exported = {} /\ troubled = FALSE
        /\ drained = FALSE /\ flushed = FALSE

Running == main \notin {"returned", "killed"}
Goto(r, from, to) == Running /\ pc[r] = from /\ pc' = [pc EXCEPT ![r] = to]
InFlight == {r \in Requests : pc[r] \notin {"idle", "done", "refused"}}

\* span.End(): recorded if it is sampled and the tracer has not been shut down.
Ended(r, name, error) ==
    queue' = IF kind[r] # "unsampled" /\ main \notin {"flush", "flushed"}
             THEN Append(queue, [req |-> r, name |-> name, error |-> error]) ELSE queue

-----------------------------------------------------------------------------
\* ListenAndServe: serves, or fails and is only logged; main does not learn it.
Listen == /\ Running /\ listener = "starting"
          /\ listener' = IF main \in {"start", "waiting"} THEN "serving" ELSE "closed"
          /\ UNCHANGED <<main, kind, pc, failed, spans, drained, flushed>>

ServerError == /\ Running /\ listener \in {"starting", "serving"}
               /\ listener' = "failed"
               /\ UNCHANGED <<main, kind, pc, failed, spans, drained, flushed>>

\* otelhttp starts the server span and calls the mux.
Accept(r) == /\ listener = "serving"
             /\ Goto(r, "idle", IF kind[r] = "other" THEN "answer" ELSE "query")
             /\ UNCHANGED <<main, listener, kind, failed, spans, drained, flushed>>

\* handleGetNote has called getNote, and getNote queryNote, which ends its span
\* after the delay, or when the request's context is done.
Query(r) == /\ Goto(r, "query", "service")
            /\ failed' = [failed EXCEPT ![r] = kind[r] = "zero"]
            /\ Ended(r, "db.query.GetNote", kind[r] = "zero")
            /\ UNCHANGED <<main, listener, kind, exported, troubled, drained, flushed>>

QueryCancelled(r) == /\ Goto(r, "query", "service")
                     /\ failed' = [failed EXCEPT ![r] = TRUE]
                     /\ Ended(r, "db.query.GetNote", TRUE)
                     /\ UNCHANGED <<main, listener, kind, exported, troubled, drained, flushed>>

Service(r) == /\ Goto(r, "service", "answer")
              /\ Ended(r, "service.GetNote", failed[r])
              /\ UNCHANGED <<main, listener, kind, failed, exported, troubled, drained, flushed>>

\* The answer, a 500 if getNote failed; otelhttp ends the server span.
Answer(r) == /\ Goto(r, "answer", "done")
             /\ Ended(r, "server", failed[r])
             /\ UNCHANGED <<main, listener, kind, failed, exported, troubled, drained, flushed>>

-----------------------------------------------------------------------------
\* The batch processor exports a batch, or loses it and tells the error handler.
Export == /\ Running /\ queue # <<>>
          /\ \E n \in 1..Len(queue) :
                /\ queue' = SubSeq(queue, n + 1, Len(queue))
                /\ \/ /\ exported' = exported \cup Range(SubSeq(queue, 1, n))
                      /\ UNCHANGED troubled
                   \/ /\ troubled' = TRUE
                      /\ UNCHANGED exported
          /\ UNCHANGED <<main, listener, kind, pc, failed, drained, flushed>>

-----------------------------------------------------------------------------
InitFails == /\ main = "start" /\ listener = "starting"
             /\ main' = "killed"
             /\ UNCHANGED <<listener, kind, pc, failed, spans, drained, flushed>>

\* signal.Notify; until then an interrupt kills the process.
Notify == /\ main = "start" /\ main' = "waiting"
          /\ UNCHANGED <<listener, kind, pc, failed, spans, drained, flushed>>

Kill == /\ main = "start" /\ main' = "killed"
        /\ UNCHANGED <<listener, kind, pc, failed, spans, drained, flushed>>

\* Mutant: the tracer is shut down before the server.
Interrupt_FlushFirst ==
    /\ main = "waiting" /\ main' = "flush"
    /\ drained' = TRUE
    /\ UNCHANGED <<listener, kind, pc, failed, spans, flushed>>

\* <-stop, and Shutdown closes the listener.
Interrupt == /\ main = "waiting" /\ main' = "drain"
             /\ listener' = IF listener = "serving" THEN "closed" ELSE listener
             /\ UNCHANGED <<kind, pc, failed, spans, drained, flushed>>

\* Shutdown has no connection left to wait for, or has waited for 5 seconds.
Drained == /\ main = "drain" /\ InFlight = {}
           /\ main' = "flush" /\ drained' = TRUE
           /\ UNCHANGED <<listener, kind, pc, failed, spans, flushed>>

DrainExpires == /\ main = "drain" /\ InFlight # {}
                /\ main' = "flush"
                /\ UNCHANGED <<listener, kind, pc, failed, spans, drained, flushed>>

\* The deferred shutdown(flushCtx): the queue is empty, or 5 seconds are over.
Flushed == /\ main = "flush" /\ queue = <<>>
           /\ main' = "flushed" /\ flushed' = TRUE
           /\ UNCHANGED <<listener, kind, pc, failed, spans, drained>>

FlushExpires == /\ main = "flush" /\ queue # <<>>
                /\ main' = "flushed"
                /\ UNCHANGED <<listener, kind, pc, failed, spans, drained, flushed>>

Return == /\ main = "flushed" /\ main' = "returned"
          /\ UNCHANGED <<listener, kind, pc, failed, spans, drained, flushed>>

Finished == ~Running /\ UNCHANGED vars

\* Nobody has to send the interrupt.
Next == \/ Listen \/ ServerError \/ Export
        \/ InitFails \/ Notify \/ Kill \/ Interrupt \/ Drained \/ DrainExpires
        \/ Flushed \/ FlushExpires \/ Return \/ Finished
        \/ \E r \in Requests : \/ Accept(r) \/ Query(r) \/ QueryCancelled(r)
                               \/ Service(r) \/ Answer(r)

Spec == Init /\ [][Next]_vars

-----------------------------------------------------------------------------
SpansOf(r) == CASE kind[r] = "unsampled" -> {}
                [] kind[r] = "other"     -> {"server"}
                [] OTHER                 -> Names
ExportedOf(r) == {s \in exported : s.req = r}

TypeOK == /\ main \in {"start", "waiting", "drain", "flush", "flushed", "returned", "killed"}
          /\ listener \in {"starting", "serving", "closed", "failed"}
          /\ kind \in [Requests -> Kinds]
          /\ pc \in [Requests -> {"idle", "query", "service", "answer", "done"}]
          /\ failed \in [Requests -> BOOLEAN]
          /\ queue \in Seq([req : Requests, name : Names, error : BOOLEAN])
          /\ exported \subseteq [req : Requests, name : Names, error : BOOLEAN]
          /\ {troubled, drained, flushed} \subseteq BOOLEAN

(* As long as no batch has failed, a server span at the collector has its  *)
(* whole trace with it, whose spans agree on whether the request failed;   *)
(* and if main returns after a complete drain and a complete flush, the    *)
(* collector has the trace of every request that was accepted.             *)
TracesComplete ==
    /\ TypeOK
    /\ ~troubled => \A s \in exported : s.name = "server" =>
          /\ {x.name : x \in ExportedOf(s.req)} = SpansOf(s.req)
          /\ \A x \in ExportedOf(s.req) : x.error = s.error
    /\ main = "returned" /\ drained /\ flushed /\ ~troubled =>
          \A r \in Requests : pc[r] # "idle" =>
              {x.name : x \in ExportedOf(r)} = SpansOf(r)

=============================================================================
