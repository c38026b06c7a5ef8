----------------------------- MODULE NotesDriver ----------------------------
(***************************************************************************)
(* main of week 7, exercise 2, as the only client of the service in        *)
(* WatchNotes and in its process: it opens a stream, which a goroutine of  *)
(* its own reads, creates a note and gets it, and then takes everything    *)
(* down in order.  gRPC carries the calls and is external.                 *)
(***************************************************************************)
EXTENDS WatchNotes

CONSTANT Stream     \* main's own stream

ASSUME StreamAssumption == Stream \in Watchers

VARIABLES main,     \* where main is, "absent" if it does not run
          reader,   \* the goroutine that calls stream.Recv
          seen      \* how many events it has logged

dvars == <<main, reader, seen>>

DInit == /\ Init
         /\ main = "open" /\ reader = "none" /\ seen = 0

Goes(from, to) == main = from /\ main' = to
Exited == main \in {"exit 0", "exit 1"}
Ours == {Stream}

\* The stream is there; wg.Add, and the reader starts.
Open == /\ Goes("open", "create")
        /\ reader' = "recv"
        /\ UNCHANGED <<vars, seen>>

CallCreate == /\ Goes("create", "creating")
              /\ Call
              /\ UNCHANGED <<reader, seen>>

\* CreateNote has answered.
Created == /\ Goes("creating", "get")
           /\ seq = requested
           /\ UNCHANGED <<vars, reader, seen>>

\* GetNote: the note is there, or main gives up.
Fetch == /\ Goes("get", IF requested \in 1..seq THEN "get missing" ELSE "exit 1")
         /\ UNCHANGED <<vars, reader, seen>>

\* NotFound, or the deadline's code: both are logged.  Then main sleeps.
FetchMissing == /\ Goes("get missing", "sleep")
                /\ UNCHANGED <<vars, reader, seen>>

\* Mutant: cancelling the stream is left to the defer.
WatchCancel_Deferred == /\ Goes("sleep", "wait")
                        /\ UNCHANGED <<vars, reader, seen>>

\* watchCancel ends the stream at both ends, the handler's context included.
WatchCancel == /\ Goes("sleep", "wait")
               /\ gone' = gone \cup Ours
               /\ UNCHANGED <<requested, store, watcher, pc, filter, event, status,
                              conn, history, reader, seen>>

\* wg.Wait()
Wait == /\ Goes("wait", "close")
        /\ reader = "ended"
        /\ UNCHANGED <<vars, reader, seen>>

\* The deferred calls: the connection first, then the server.
CloseConn == Goes("close", "stop") /\ Close /\ UNCHANGED <<reader, seen>>
Stop == Goes("stop", "exit 0") /\ GracefulStop /\ UNCHANGED <<reader, seen>>

\* An error, or the deadline of two seconds, ends the process.
Fails == /\ main \in {"open", "creating", "get"} /\ main' = "exit 1"
         /\ UNCHANGED <<vars, reader, seen>>

-----------------------------------------------------------------------------
Recv == /\ reader = "recv" /\ seen < Len(sent[Stream])
        /\ seen' = seen + 1
        /\ UNCHANGED <<vars, main, reader>>

\* Canceled or another error, which may overtake what is on the way.
RecvFails == /\ reader = "recv" /\ Stream \in gone
             /\ reader' = "ended"
             /\ UNCHANGED <<vars, main, seen>>

\* The server's side, and a broken connection.
Serve == /\ \/ Create
            \/ main # "open" /\ Subscribe(Stream, NoFilter)
            \/ Handler(Stream)
         /\ UNCHANGED dvars

Break == Disconnect(Stream) /\ UNCHANGED dvars

DStep == /\ ~Exited
         /\ \/ Open \/ CallCreate \/ Created \/ Fetch \/ FetchMissing
            \/ WatchCancel \/ Wait \/ CloseConn \/ Stop
            \/ Recv \/ RecvFails \/ Serve

DOutside == ~Exited /\ (Fails \/ Break)

-----------------------------------------------------------------------------
(* The program ends, and if it ends well it has waited for everybody: the  *)
(* reader and the stream's handler are over, the note was created, and no  *)
(* RPC is left in the server.                                              *)
DriverEnds == <>(\/ main = "exit 1"
                 \/ /\ main = "exit 0"
                    /\ reader = "ended" /\ seen <= Len(sent[Stream])
                    /\ conn = "stopped" /\ pc[Stream] \in {"off", "ended"}
                    /\ requested = 1 /\ seq = 1)

=============================================================================
