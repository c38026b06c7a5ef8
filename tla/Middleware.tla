----------------------------- MODULE Middleware -----------------------------
(***************************************************************************)
(* The HTTP middleware of week 5, exercise 2, and of week 9, exercise 1: a *)
(* request goes down through the chain into a handler, and its return or   *)
(* its panic comes back up.  What a frame tells the frames inside it goes  *)
(* through the context and the ResponseWriter it hands them; what a client *)
(* sees is the first header written.                                       *)
(***************************************************************************)
EXTENDS Integers, Sequences

CONSTANTS Requests,   \* the requests
          Ids,        \* request IDs: those clients may send, and one minted for each
          NoId

MintedBy(r) == <<"minted", r>>

Apps == {"week5", "week9"}

\* Mutant: Logger is put inside Recoverer.
Chain_LoggerInside(app) ==
    IF app = "week5" THEN <<"RequestID", "Recoverer", "Logger", "Timeout">>
                      ELSE <<"RequestLogger">>

\* Chain(mux, ...) and r.Use(...), outermost first.
Chain(app) == IF app = "week5" THEN <<"RequestID", "Logger", "Recoverer", "Timeout">>
                                ELSE <<"RequestLogger">>
Paths(app) == IF app = "week5" THEN {"ok", "panic", "other"}
                                ELSE {"notes", "boom", "other"}
Recorders == {"Logger", "RequestLogger"}

VARIABLES app,        \* which of the two programs runs
          path, sent, \* each request's path, and its X-Request-Id header
          depth, way, \* how deep it is; "down", "up", "panic" or "done"
          ctxId,      \* the request ID in the innermost context
          lineId,     \* the request ID in the logging frame's context
          rec,        \* the status its recorder has seen
          wire,       \* the status sent to the client, 0 before there is one
          echoed,     \* the response's X-Request-Id header
          lines       \* its lines in the log

vars == <<app, path, sent, depth, way, ctxId, lineId, rec, wire, echoed, lines>>

Init == /\ app \in Apps
        /\ path \in [Requests -> Paths(app)]
        /\ sent \in [Requests -> Ids \cup {NoId}]
        /\ depth = [r \in Requests |-> 1]
        /\ way = [r \in Requests |-> "down"]
        /\ ctxId = [r \in Requests |-> NoId]
        /\ lineId = [r \in Requests |-> NoId]
        /\ rec = [r \in Requests |-> 200]
        /\ wire = [r \in Requests |-> 0]
        /\ echoed = [r \in Requests |-> NoId]
        /\ lines = [r \in Requests |-> <<>>]

Length == Len(Chain(app))
In(r, frames) == depth[r] \in 1..Length /\ Chain(app)[depth[r]] \in frames
Move(r, by) == depth' = [depth EXCEPT ![r] = @ + by]
Log(r, line) == lines' = [lines EXCEPT ![r] = Append(@, line)]
Line(msg, level, status, id) == [msg |-> msg, level |-> level, status |-> status, id |-> id]

\* WriteHeader from depth d: recorders further out see it, the first one is sent.
WriteHeader(r, d, status) ==
    /\ rec' = [rec EXCEPT ![r] = IF \E i \in 1..d-1 : Chain(app)[i] \in Recorders
                                 THEN status ELSE @]
    /\ wire' = [wire EXCEPT ![r] = IF @ = 0 THEN status ELSE @]

-----------------------------------------------------------------------------
\* Down.  RequestID keeps the client's ID or mints one, and echoes it.
EnterRequestID(r) ==
    /\ way[r] = "down" /\ In(r, {"RequestID"})
    /\ LET id == IF sent[r] = NoId THEN MintedBy(r) ELSE sent[r]
       IN  /\ ctxId' = [ctxId EXCEPT ![r] = id]
           /\ echoed' = [echoed EXCEPT ![r] = id]
    /\ Move(r, 1)
    /\ UNCHANGED <<app, path, sent, way, lineId, rec, wire, lines>>

EnterLogger(r) ==
    /\ way[r] = "down" /\ In(r, {"Logger"})
    /\ lineId' = [lineId EXCEPT ![r] = ctxId[r]]
    /\ Move(r, 1)
    /\ UNCHANGED <<app, path, sent, way, ctxId, rec, wire, echoed, lines>>

\* RequestLogger mints an ID whatever the client sent, and logs the start.
EnterRequestLogger(r) ==
    /\ way[r] = "down" /\ In(r, {"RequestLogger"})
    /\ ctxId' = [ctxId EXCEPT ![r] = MintedBy(r)]
    /\ lineId' = [lineId EXCEPT ![r] = MintedBy(r)]
    /\ Log(r, Line("started", "INFO", 0, MintedBy(r)))
    /\ Move(r, 1)
    /\ UNCHANGED <<app, path, sent, way, rec, wire, echoed>>

\* Recoverer defers, Timeout derives a context nobody here waits for.
EnterOther(r) ==
    /\ way[r] = "down" /\ In(r, {"Recoverer", "Timeout"})
    /\ Move(r, 1)
    /\ UNCHANGED <<app, path, sent, way, ctxId, lineId, rec, wire, echoed, lines>>

\* The handlers; those of week 9 log through the context's logger.  A body
\* without a header goes out with an implicit 200, which passes no recorder.
HandlerLogs(r, msg, level) ==
    IF app = "week9" /\ path[r] # "other" THEN Log(r, Line(msg, level, 0, ctxId[r]))
                                           ELSE UNCHANGED lines

Body(r) == /\ way[r] = "down" /\ depth[r] = Length + 1
           /\ path[r] \in {"ok", "notes"}
           /\ HandlerLogs(r, "fetching", "INFO")
           /\ wire' = [wire EXCEPT ![r] = 200]
           /\ way' = [way EXCEPT ![r] = "up"]
           /\ Move(r, -1)
           /\ UNCHANGED <<app, path, sent, ctxId, lineId, rec, echoed>>

Error(r) == /\ way[r] = "down" /\ depth[r] = Length + 1
            /\ path[r] \in {"boom", "other"}
            /\ HandlerLogs(r, "failure", "ERROR")
            /\ WriteHeader(r, depth[r], IF path[r] = "boom" THEN 500 ELSE 404)
            /\ way' = [way EXCEPT ![r] = "up"]
            /\ Move(r, -1)
            /\ UNCHANGED <<app, path, sent, ctxId, lineId, echoed>>

Boom(r) == /\ way[r] = "down" /\ depth[r] = Length + 1
           /\ path[r] = "panic"
           /\ way' = [way EXCEPT ![r] = "panic"]
           /\ Move(r, -1)
           /\ UNCHANGED <<app, path, sent, ctxId, lineId, rec, wire, echoed, lines>>

-----------------------------------------------------------------------------
\* Up.  The logging frames write their line after the call, not in a defer.
LeaveLogger(r) ==
    /\ way[r] = "up" /\ In(r, {"Logger"})
    /\ Log(r, Line("completed", IF rec[r] >= 500 THEN "ERROR" ELSE "INFO", rec[r], lineId[r]))
    /\ Move(r, -1)
    /\ UNCHANGED <<app, path, sent, way, ctxId, lineId, rec, wire, echoed>>

LeaveRequestLogger(r) ==
    /\ way[r] = "up" /\ In(r, {"RequestLogger"})
    /\ Log(r, Line("completed", "INFO", rec[r], lineId[r]))
    /\ Move(r, -1)
    /\ UNCHANGED <<app, path, sent, way, ctxId, lineId, rec, wire, echoed>>

LeaveOther(r) ==
    /\ way[r] = "up" /\ ~In(r, Recorders) /\ depth[r] > 0
    /\ Move(r, -1)
    /\ UNCHANGED <<app, path, sent, way, ctxId, lineId, rec, wire, echoed, lines>>

\* A panic leaves every frame but Recoverer, which logs it and answers 500.
Unwind(r) ==
    /\ way[r] = "panic" /\ ~In(r, {"Recoverer"}) /\ depth[r] > 0
    /\ Move(r, -1)
    /\ UNCHANGED <<app, path, sent, way, ctxId, lineId, rec, wire, echoed, lines>>

Recover(r) ==
    /\ way[r] = "panic" /\ In(r, {"Recoverer"})
    /\ Log(r, Line("recovered", "ERROR", 500, ctxId[r]))
    /\ WriteHeader(r, depth[r], 500)
    /\ way' = [way EXCEPT ![r] = "up"]
    /\ Move(r, -1)
    /\ UNCHANGED <<app, path, sent, ctxId, lineId, echoed>>

\* net/http finishes the response; it would drop the connection of a panic.
Finish(r) ==
    /\ way[r] \in {"up", "panic"} /\ depth[r] = 0
    /\ way' = [way EXCEPT ![r] = "done"]
    /\ UNCHANGED <<app, path, sent, depth, ctxId, lineId, rec, wire, echoed, lines>>

Step(r) == \/ EnterRequestID(r) \/ EnterLogger(r) \/ EnterRequestLogger(r) \/ EnterOther(r)
           \/ Body(r) \/ Error(r) \/ Boom(r)
           \/ LeaveLogger(r) \/ LeaveRequestLogger(r) \/ LeaveOther(r)
           \/ Unwind(r) \/ Recover(r) \/ Finish(r)

Finished == (\A r \in Requests : way[r] = "done") /\ UNCHANGED vars

Next == Finished \/ \E r \in Requests : Step(r)

Spec == Init /\ [][Next]_vars

-----------------------------------------------------------------------------
Completed(r) == {i \in DOMAIN lines[r] : lines[r][i].msg = "completed"}

(* Every request, the panicking ones included, ends with exactly one       *)
(* completion line; it has the status the client was sent and the request  *)
(* ID of that very request, the one week 5 echoes in the response header;  *)
(* every other line about the request has the same ID.                     *)
OneTrueLine ==
    \A r \in Requests : way[r] = "done" =>
        /\ wire[r] # 0
        /\ \E i \in DOMAIN lines[r] : Completed(r) = {i} /\ lines[r][i].status = wire[r]
        /\ path[r] \in {"panic", "boom"} <=> wire[r] = 500
        /\ \A i \in DOMAIN lines[r] :
               /\ lines[r][i].id \in {MintedBy(r), sent[r]} \ {NoId}
               /\ app = "week5" => lines[r][i].id = echoed[r]

=============================================================================
