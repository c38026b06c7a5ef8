----------------------------- MODULE WatchNotes -----------------------------
(***************************************************************************)
(* The notes service of week 7, exercise 2: CreateNote under the store's   *)
(* lock, the best-effort broadcast into one buffered channel, the          *)
(* WatchNotes streams that all receive from it, and the shutdown: the      *)
(* client closes its connection, then GracefulStop waits for the handlers. *)
(* A note, and its CREATED event, is its sequence number.                  *)
(***************************************************************************)
EXTENDS Integers, SequencesExt

CONSTANTS Watchers,   \* the WatchNotes streams
          Tags,       \* the tags notes carry and streams filter on
          NoFilter,   \* the empty tag_filter
          Cap,        \* the channel's capacity (64 in the code)
          MaxNotes    \* bound on the CreateNote calls

ASSUME WatchAssumption == /\ Cap \in Nat \ {0} /\ MaxNotes \in Nat
                          /\ NoFilter \notin Tags

Notes == 1..MaxNotes

VARIABLES requested,  \* CreateNote calls made so far
          seq,        \* the store's sequence number
          tags,       \* the tags of each note in the store
          watcher,    \* the channel of events
          pc,         \* where each stream's handler is
          filter,     \* the stream's tag_filter
          event,      \* the event the handler received last
          gone,       \* the streams whose context is done
          status,     \* the status each stream ended with
          conn,       \* the client's connection, and the server
          dropped, skipped, lost, \* history: events no stream delivered
          sent,       \* history: the events each stream delivered
          since       \* history: seq when the handler started

store == <<seq, tags, dropped>>
history == <<skipped, lost, sent, since>>
vars == <<requested, store, watcher, pc, filter, event, gone, status, conn, history>>

Init == /\ requested = 0 /\ seq = 0
        /\ tags = [e \in Notes |-> {}]
        /\ watcher = <<>>
        /\ pc = [w \in Watchers |-> "off"]
        /\ filter = [w \in Watchers |-> NoFilter]
        /\ event = [w \in Watchers |-> 0]
        /\ gone = {}
        /\ status = [w \in Watchers |-> "none"]
        /\ conn = "open"
        /\ dropped = {} /\ skipped = {} /\ lost = {}
        /\ sent = [w \in Watchers |-> <<>>]
        /\ since = [w \in Watchers |-> 0]

Goto(w, from, to) == pc[w] = from /\ pc' = [pc EXCEPT ![w] = to]

-----------------------------------------------------------------------------
\* CreateNote.

\* A client calls CreateNote with a title.
Call == /\ conn = "open" /\ requested < MaxNotes
        /\ requested' = requested + 1
        /\ UNCHANGED <<store, watcher, pc, filter, event, gone, status, conn, history>>

\* Mutant: the broadcast waits for room in the channel.
Create_Waits == /\ seq < requested
                /\ Len(watcher) < Cap
                /\ seq' = seq + 1
                /\ \E T \in SUBSET Tags : tags' = [tags EXCEPT ![seq + 1] = T]
                /\ watcher' = Append(watcher, seq + 1)
                /\ UNCHANGED <<requested, dropped, pc, filter, event, gone, status,
                               conn, history>>

\* store.create, with the lock held to the end of broadcast.
Create == /\ seq < requested
          /\ seq' = seq + 1
          /\ \E T \in SUBSET Tags : tags' = [tags EXCEPT ![seq + 1] = T]
          /\ IF Len(watcher) < Cap
             THEN watcher' = Append(watcher, seq + 1) /\ UNCHANGED dropped
             ELSE dropped' = dropped \cup {seq + 1} /\ UNCHANGED watcher
          /\ UNCHANGED <<requested, pc, filter, event, gone, status, conn, history>>

-----------------------------------------------------------------------------
\* The WatchNotes handler.

Subscribe(w, f) == /\ conn = "open"
                   /\ Goto(w, "off", "select")
                   /\ filter' = [filter EXCEPT ![w] = f]
                   /\ since' = [since EXCEPT ![w] = seq]
                   /\ UNCHANGED <<requested, store, watcher, event, gone, status, conn,
                                  skipped, lost, sent>>

\* Mutant: the event is read, but left in the channel for the other streams.
Receive_Peek(w) == /\ watcher # <<>>
                   /\ Goto(w, "select", "send")
                   /\ event' = [event EXCEPT ![w] = Head(watcher)]
                   /\ UNCHANGED <<requested, store, watcher, filter, gone, status, conn,
                                  history>>

\* The select takes an event, done context or not: of two ready cases either runs.
Receive(w) == /\ watcher # <<>>
              /\ Goto(w, "select", "send")
              /\ event' = [event EXCEPT ![w] = Head(watcher)]
              /\ watcher' = Tail(watcher)
              /\ UNCHANGED <<requested, store, filter, gone, status, conn, history>>

Passes(w) == filter[w] = NoFilter \/ filter[w] \in tags[event[w]]

\* Another tag: round the loop again.
Skip(w) == /\ Goto(w, "send", "select")
           /\ ~Passes(w)
           /\ skipped' = skipped \cup {event[w]}
           /\ UNCHANGED <<requested, store, watcher, filter, event, gone, status, conn,
                          lost, sent, since>>

\* Mutant: the filter is not applied.
Send_All(w) == /\ w \notin gone
               /\ Goto(w, "send", "select")
               /\ sent' = [sent EXCEPT ![w] = Append(@, event[w])]
               /\ UNCHANGED <<requested, store, watcher, filter, event, gone, status,
                              conn, skipped, lost, since>>

Send(w) == /\ Goto(w, "send", "select")
           /\ Passes(w) /\ w \notin gone
           /\ sent' = [sent EXCEPT ![w] = Append(@, event[w])]
           /\ UNCHANGED <<requested, store, watcher, filter, event, gone, status,
                          conn, skipped, lost, since>>

\* stream.Send fails once the client is gone; the handler returns its error.
SendFails(w) == /\ Goto(w, "send", "ended")
                /\ Passes(w) /\ w \in gone
                /\ lost' = lost \cup {event[w]}
                /\ status' = [status EXCEPT ![w] = "send error"]
                /\ UNCHANGED <<requested, store, watcher, filter, event, gone, conn,
                               skipped, sent, since>>

\* Mutant: the select has no case for the context.
StreamDone_Deaf(w) == FALSE

\* The select sees ctx.Done.
StreamDone(w) == /\ w \in gone
                 /\ Goto(w, "select", "ended")
                 /\ status' = [status EXCEPT ![w] = "Canceled"]
                 /\ UNCHANGED <<requested, store, watcher, filter, event, gone, conn,
                                history>>

-----------------------------------------------------------------------------
\* The client cancels one stream, or closes its connection and so all of them.
Disconnect(w) == /\ pc[w] # "off" /\ w \notin gone
                 /\ gone' = gone \cup {w}
                 /\ UNCHANGED <<requested, store, watcher, pc, filter, event, status,
                                conn, history>>

Close == /\ conn = "open" /\ seq = requested
         /\ conn' = "closed"
         /\ gone' = Watchers
         /\ UNCHANGED <<requested, store, watcher, pc, filter, event, status, history>>

\* GracefulStop returns when no handler is running.
GracefulStop == /\ conn = "closed"
                /\ \A w \in Watchers : pc[w] \in {"off", "ended"}
                /\ conn' = "stopped"
                /\ UNCHANGED <<requested, store, watcher, pc, filter, event, gone,
                               status, history>>

Handler(w) == Receive(w) \/ Skip(w) \/ Send(w) \/ SendFails(w) \/ StreamDone(w)

Client(w) == \/ \E f \in Tags \cup {NoFilter} : Subscribe(w, f)
             \/ Disconnect(w)

Finished == conn = "stopped" /\ UNCHANGED vars

Next == \/ Call \/ Create \/ Close \/ GracefulStop \/ Finished
        \/ \E w \in Watchers : Client(w) \/ Handler(w)

\* The server runs its handlers; clients owe nothing.
Fairness == /\ WF_vars(Create) /\ WF_vars(GracefulStop)
            /\ \A w \in Watchers : WF_vars(Handler(w))

Spec == Init /\ [][Next]_vars
LiveSpec == Spec /\ Fairness

-----------------------------------------------------------------------------
TypeOK == /\ requested \in 0..MaxNotes /\ seq \in 0..requested
          /\ tags \in [Notes -> SUBSET Tags]
          /\ watcher \in Seq(Notes) /\ Len(watcher) <= Cap
          /\ pc \in [Watchers -> {"off", "select", "send", "ended"}]
          /\ filter \in [Watchers -> Tags \cup {NoFilter}]
          /\ event \in [Watchers -> Notes \cup {0}]
          /\ gone \in SUBSET Watchers
          /\ status \in [Watchers -> {"none", "Canceled", "send error"}]
          /\ conn \in {"open", "closed", "stopped"}
          /\ dropped \in SUBSET Notes /\ skipped \in SUBSET Notes /\ lost \in SUBSET Notes
          /\ sent \in [Watchers -> Seq(Notes)] /\ since \in [Watchers -> 0..MaxNotes]

Held == {w \in Watchers : pc[w] = "send"}

One(b) == IF b THEN 1 ELSE 0

\* How many places event e is in.
Places(e) == One(e \in ToSet(watcher)) + One(e \in dropped) + One(e \in skipped)
             + One(e \in lost)
             + Cardinality({w \in Held : event[w] = e})
             + Cardinality({w \in Watchers : e \in ToSet(sent[w])})

(* Every created event is in exactly one place: queued, in one handler's   *)
(* hands, delivered to one stream, or given up.  None is delivered twice,  *)
(* and none vanishes without one of the three reasons.  And every variable *)
(* has its type.                                                           *)
Accounted == /\ TypeOK
             /\ \A e \in 1..seq : Places(e) = 1
             /\ IsInjective(watcher)
             /\ \A w \in Watchers : IsInjective(sent[w])

(* A stream delivers in creation order, and only what its filter lets by.  *)
Delivery == \A w \in Watchers :
    /\ \A i, j \in DOMAIN sent[w] : i < j => sent[w][i] < sent[w][j]
    /\ filter[w] # NoFilter =>
           \A i \in DOMAIN sent[w] : filter[w] \in tags[sent[w][i]]

(* The broadcast never makes a CreateNote wait for a slow or absent        *)
(* watcher: every call is answered.                                        *)
CreatesAnswered == \A k \in Notes : requested >= k ~> seq >= k

(* After the client has closed its connection the server stops: no handler *)
(* is left waiting for an event.                                           *)
Stops == conn = "closed" ~> conn = "stopped"

(* What the protocol promises (exercise-01-note-proto.proto, line 179):    *)
(* a stream with an empty filter gets the events of all notes.             *)
(* Stated where the code could keep it: the stream has been connected ever *)
(* since, nothing was dropped for lack of room, and nothing is in flight.  *)
AllNotesSeen ==
    \A w \in Watchers :
        /\ pc[w] = "select" /\ w \notin gone /\ filter[w] = NoFilter
        /\ watcher = <<>> /\ Held = {}
        => \A e \in since[w] + 1..seq : e \in dropped \/ e \in ToSet(sent[w])

=============================================================================
