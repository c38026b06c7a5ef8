---------------------------- MODULE Interceptors ----------------------------
(***************************************************************************)
(* The unary interceptor chain of week 7, exercise 3.  A call descends     *)
(* through the chain into the handler, whose return value or panic comes   *)
(* back up through the frames it went down.  A frame without a deferred    *)
(* function is left behind by a panic; one that recovers turns the panic   *)
(* into its own return; a panic that passes the first frame ends the       *)
(* process.                                                                *)
(***************************************************************************)
EXTENDS Integers, Sequences

CONSTANT Calls        \* the RPCs clients make

\* grpc.ChainUnaryInterceptor(recoveryUnary, loggingUnary), outermost first.
Chain == <<"recoveryUnary", "loggingUnary">>
Frames == 1..Len(Chain)

\* Requests, by what the handlers' checks tell apart.
CreateRequests == [method : {"CreateNote"},
                   arg : {"empty", "BOOM", "fits", "over maxTitleLen"},
                   tags : {"at most 16", "more"}]
GetRequests == [method : {"GetNote"}, arg : {"empty", "ghost"}, tags : {"at most 16"}]
Requests == CreateRequests \cup GetRequests
NoRequest == [method |-> "none", arg |-> "empty", tags |-> "at most 16"]

Codes == {"OK", "InvalidArgument", "NotFound", "Internal"}

VARIABLES req,        \* the request of each call
          depth,      \* how many frames of the chain it is inside of
          way,        \* "down", "up" with a result, "panic", or finished
          code,       \* the result's code on its way up
          client,     \* what the caller knows
          lines,      \* the log lines of each call
          conn, grpcSrv \* the client's connection, the server

vars == <<req, depth, way, code, client, lines, conn, grpcSrv>>

Init == /\ req = [c \in Calls |-> NoRequest]
        /\ depth = [c \in Calls |-> 0]
        /\ way = [c \in Calls |-> "none"]
        /\ code = [c \in Calls |-> "OK"]
        /\ client = [c \in Calls |-> "idle"]
        /\ lines = [c \in Calls |-> <<>>]
        /\ conn = "open" /\ grpcSrv = "serving"

Alive == grpcSrv = "serving"
In(c, frame) == depth[c] \in Frames /\ Chain[depth[c]] = frame
Out(c) == depth' = [depth EXCEPT ![c] = @ - 1]
Log(c, msg, cd, level) ==
    lines' = [lines EXCEPT ![c] = Append(@, [msg |-> msg, code |-> cd, level |-> level])]

-----------------------------------------------------------------------------
\* A client calls; the server starts a goroutine at the outermost frame.
Call(c, r) == /\ Alive /\ conn = "open"
              /\ client[c] = "idle"
              /\ client' = [client EXCEPT ![c] = "waiting"]
              /\ req' = [req EXCEPT ![c] = r]
              /\ way' = [way EXCEPT ![c] = "down"]
              /\ depth' = [depth EXCEPT ![c] = 1]
              /\ UNCHANGED <<code, lines, conn, grpcSrv>>

\* handler(ctx, req): an interceptor calls the next one, the last one the handler.
Descend(c) == /\ Alive /\ way[c] = "down" /\ depth[c] \in Frames
              /\ depth' = [depth EXCEPT ![c] = @ + 1]
              /\ UNCHANGED <<req, way, code, client, lines, conn, grpcSrv>>

Invalid(r) == \/ r.arg \in {"empty", "over maxTitleLen"}
              \/ r.tags = "more"

Panics(r) == r.method = "CreateNote" /\ r.arg = "BOOM" /\ ~Invalid(r)

Result(r) == IF Invalid(r) THEN "InvalidArgument"
             ELSE IF r.method = "GetNote" THEN "NotFound" ELSE "OK"

\* The handler returns ...
Handle(c) == /\ Alive /\ way[c] = "down" /\ depth[c] = Len(Chain) + 1
             /\ ~Panics(req[c])
             /\ way' = [way EXCEPT ![c] = "up"]
             /\ code' = [code EXCEPT ![c] = Result(req[c])]
             /\ Out(c)
             /\ UNCHANGED <<req, client, lines, conn, grpcSrv>>

\* ... or panics.
HandlerPanics(c) == /\ Alive /\ way[c] = "down" /\ depth[c] = Len(Chain) + 1
                    /\ Panics(req[c])
                    /\ way' = [way EXCEPT ![c] = "panic"]
                    /\ Out(c)
                    /\ UNCHANGED <<req, code, client, lines, conn, grpcSrv>>

levelFor(cd) == CASE cd = "OK" -> "INFO"
                  [] cd = "Internal" -> "ERROR"
                  [] OTHER -> "WARN"

\* Mutant: the line is written with the code the call had when it came in.
LogCall_Early(c) == /\ Alive /\ way[c] = "up" /\ In(c, "loggingUnary")
                    /\ Log(c, "grpc call", "OK", levelFor("OK"))
                    /\ Out(c)
                    /\ UNCHANGED <<req, way, code, client, conn, grpcSrv>>


\* loggingUnary, after its handler has returned.
LogCall(c) == /\ Alive /\ way[c] = "up" /\ In(c, "loggingUnary")
              /\ Log(c, "grpc call", code[c], levelFor(code[c]))
              /\ Out(c)
              /\ UNCHANGED <<req, way, code, client, conn, grpcSrv>>

\* A panic leaves loggingUnary, which defers nothing.
Unwind(c) == /\ Alive /\ way[c] = "panic" /\ In(c, "loggingUnary")
             /\ Out(c)
             /\ grpcSrv' = IF depth[c] = 1 THEN "crashed" ELSE grpcSrv
             /\ UNCHANGED <<req, way, code, client, lines, conn>>

\* recoveryUnary's deferred function finds nothing to recover.
NoPanic(c) == /\ Alive /\ way[c] = "up" /\ In(c, "recoveryUnary")
              /\ Out(c)
              /\ UNCHANGED <<req, way, code, client, lines, conn, grpcSrv>>

\* Mutant: err is not a named result, so the recovered call returns nil.
Recover_Unnamed(c) == /\ Alive /\ way[c] = "panic" /\ In(c, "recoveryUnary")
                      /\ Log(c, "panic recovered", "Internal", "ERROR")
                      /\ way' = [way EXCEPT ![c] = "up"]
                      /\ Out(c)
                      /\ UNCHANGED <<req, code, client, conn, grpcSrv>>

\* It recovers the panic, logs it and sets the error.
Recover(c) == /\ Alive /\ way[c] = "panic" /\ In(c, "recoveryUnary")
              /\ Log(c, "panic recovered", "Internal", "ERROR")
              /\ way' = [way EXCEPT ![c] = "up"]
              /\ code' = [code EXCEPT ![c] = "Internal"]
              /\ Out(c)
              /\ UNCHANGED <<req, client, conn, grpcSrv>>

\* The server sends the status; a caller that has given up does not see it.
Reply(c) == /\ Alive /\ way[c] = "up" /\ depth[c] = 0
            /\ way' = [way EXCEPT ![c] = "sent"]
            /\ client' = [client EXCEPT ![c] = IF @ = "waiting" THEN code[c] ELSE @]
            /\ UNCHANGED <<req, depth, code, lines, conn, grpcSrv>>

-----------------------------------------------------------------------------
\* The caller's deadline passes; the handlers do not look at their context.
Deadline(c) == /\ client[c] = "waiting"
               /\ client' = [client EXCEPT ![c] = "DeadlineExceeded"]
               /\ UNCHANGED <<req, depth, way, code, lines, conn, grpcSrv>>

\* main's deferred calls: conn.Close, then GracefulStop, which waits for the
\* handlers that still run.
Close == /\ conn = "open"
         /\ \A c \in Calls : client[c] # "waiting"
         /\ conn' = "closed"
         /\ UNCHANGED <<req, depth, way, code, client, lines, grpcSrv>>

GracefulStop == /\ Alive /\ conn = "closed"
                /\ \A c \in Calls : way[c] \in {"none", "sent"}
                /\ grpcSrv' = "stopped"
                /\ UNCHANGED <<req, depth, way, code, client, lines, conn>>

Goroutine(c) == \/ Descend(c) \/ Handle(c) \/ HandlerPanics(c)
                \/ LogCall(c) \/ Unwind(c) \/ NoPanic(c) \/ Recover(c) \/ Reply(c)

Client(c) == Deadline(c) \/ \E r \in Requests : Call(c, r)

Finished == grpcSrv # "serving" /\ UNCHANGED vars

Next == Close \/ GracefulStop \/ Finished \/ \E c \in Calls : Goroutine(c) \/ Client(c)

Spec == Init /\ [][Next]_vars

-----------------------------------------------------------------------------
Levels == {"INFO", "WARN", "ERROR"}
Line == [msg : {"grpc call", "panic recovered"}, code : Codes, level : Levels]

TypeOK == /\ req \in [Calls -> Requests \cup {NoRequest}]
          /\ depth \in [Calls -> 0..Len(Chain) + 1]
          /\ way \in [Calls -> {"none", "down", "up", "panic", "sent"}]
          /\ code \in [Calls -> Codes]
          /\ client \in [Calls -> Codes \cup {"idle", "waiting", "DeadlineExceeded"}]
          /\ lines \in [Calls -> Seq(Line)]
          /\ conn \in {"open", "closed"}
          /\ grpcSrv \in {"serving", "stopped", "crashed"}

Logged(c, msg) == {i \in DOMAIN lines[c] : lines[c][i].msg = msg}

(* A panic ends neither the process nor the calls beside it, and the       *)
(* caller of a panicking handler, and no other, is told Internal.          *)
PanicContained ==
    /\ grpcSrv # "crashed"
    /\ \A c \in Calls : way[c] = "sent" =>
           (Logged(c, "panic recovered") # {} <=> code[c] = "Internal")
    /\ \A c \in Calls : client[c] = "Internal" => ~Invalid(req[c])

(* The log tells the truth: a call has at most one "grpc call" line, with  *)
(* the code its caller was sent, at level ERROR only for a server fault;   *)
(* and an answer that is not a server fault has such a line.  And every    *)
(* variable has its type.                                                  *)
LogAgrees ==
    TypeOK /\ \A c \in Calls :
        /\ \A i, j \in Logged(c, "grpc call") : i = j
        /\ way[c] = "sent" => \A i \in Logged(c, "grpc call") : lines[c][i].code = code[c]
        /\ \A i \in DOMAIN lines[c] : lines[c][i].level = "ERROR" <=> lines[c][i].code = "Internal"
        /\ client[c] \in Codes \ {"Internal"} => Logged(c, "grpc call") # {}

(* loggingUnary's comment (line 61): one structured line per RPC.          *)
OneLinePerCall == \A c \in Calls : way[c] = "sent" => Logged(c, "grpc call") # {}

=============================================================================
