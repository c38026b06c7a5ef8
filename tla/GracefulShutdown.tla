-------------------------- MODULE GracefulShutdown --------------------------
(***************************************************************************)
(* The notes server of week 5, exercise 3: runServer, which starts the     *)
(* HTTP server, waits for its failure or for a signal, and drains; and the *)
(* handlers that are in flight meanwhile, down to memRepo under its lock.  *)
(* net/http is external: Shutdown closes the listener, waits for the       *)
(* running handlers or for its deadline, and cancels no request's context. *)
(***************************************************************************)
EXTENDS Integers, FiniteSets

CONSTANT Requests     \* the clients, one connection and one request each

NoOne == "no one"
ASSUME NoOneAssumption == NoOne \notin Requests
ASSUME RequestsAssumption == IsFiniteSet(Requests)

Kinds == {"POST", "bad POST", "GET"}
Ids == 1..Cardinality(Requests)

VARIABLES main,       \* where runServer is, or main's exit status
          signalled,  \* SIGINT or SIGTERM has arrived: ctx is done
          serve,      \* the goroutine in ListenAndServe
          serverErr,  \* its buffered channel
          inShutdown, expired, \* Shutdown was called, its 10 s are over
          kind,       \* what each client asks
          pc,         \* where its connection's goroutine is
          answer,     \* what it was answered
          gone,       \* the clients that have disconnected
          cancelled,  \* the requests whose context is cancelled
          mu, seq, notes, \* memRepo; a note is the request that created it
          id          \* the ID each create was given

net == <<signalled, serve, serverErr, inShutdown, expired>>
repo == <<mu, seq, notes, id>>
conns == <<kind, pc, answer, gone, cancelled>>
vars == <<main, net, conns, repo>>

Store == INSTANCE ItemStore WITH items <- notes

Init == /\ main = "select" /\ signalled = FALSE
        /\ serve = "starting" /\ serverErr = "empty"
        /\ inShutdown = FALSE /\ expired = FALSE
        /\ kind \in [Requests -> Kinds]
        /\ pc = [r \in Requests |-> "none"]
        /\ answer = [r \in Requests |-> Store!None]
        /\ gone = {} /\ cancelled = {}
        /\ mu = NoOne /\ seq = 0 /\ notes = [i \in {} |-> NoOne]
        /\ id = [r \in Requests |-> 0]

\* Every goroutine ends with main.
Exited == main \in {"exit 0", "exit 1"}
Running == ~Exited
Goto(r, from, to) == Running /\ pc[r] = from /\ pc' = [pc EXCEPT ![r] = to]

-----------------------------------------------------------------------------
\* The goroutine serverErr <- srv.ListenAndServe().
Listen == /\ Running /\ serve = "starting"
          /\ IF inShutdown
             THEN serve' = "ended" /\ serverErr' = "ErrServerClosed"
             ELSE serve' = "accepting" /\ UNCHANGED serverErr
          /\ UNCHANGED <<main, signalled, inShutdown, expired, conns, repo>>

\* The port is taken, or the listener fails later.
ServeFails == /\ Running /\ serve \in {"starting", "accepting"} /\ ~inShutdown
              /\ serve' = "ended" /\ serverErr' = "failure"
              /\ UNCHANGED <<main, signalled, inShutdown, expired, conns, repo>>

ServeCloses == /\ Running /\ serve = "accepting" /\ inShutdown
               /\ serve' = "ended" /\ serverErr' = "ErrServerClosed"
               /\ UNCHANGED <<main, signalled, inShutdown, expired, conns, repo>>

Signal == /\ Running /\ ~signalled
          /\ signalled' = TRUE
          /\ UNCHANGED <<main, serve, serverErr, inShutdown, expired, conns, repo>>

-----------------------------------------------------------------------------
\* runServer.  Mutant: any end of ListenAndServe is a success.
SelectError_Nil == /\ main = "select" /\ serverErr # "empty"
                   /\ serverErr' = "empty"
                   /\ main' = "exit 0"
                   /\ UNCHANGED <<signalled, serve, inShutdown, expired, conns, repo>>

\* case err := <-serverErr
SelectError == /\ main = "select" /\ serverErr # "empty"
               /\ serverErr' = "empty"
               /\ main' = IF serverErr = "ErrServerClosed" THEN "exit 0" ELSE "exit 1"
               /\ UNCHANGED <<signalled, serve, inShutdown, expired, conns, repo>>

\* Mutant: it returns at once, as with srv.Close or without Shutdown.
SelectSignal_NoDrain == /\ main = "select" /\ signalled
                        /\ inShutdown' = TRUE
                        /\ main' = "exit 0"
                        /\ UNCHANGED <<signalled, serve, serverErr, expired, conns, repo>>

\* case <-ctx.Done(): srv.Shutdown closes the listener ...
SelectSignal == /\ main = "select" /\ signalled
                /\ inShutdown' = TRUE
                /\ main' = "draining"
                /\ UNCHANGED <<signalled, serve, serverErr, expired, conns, repo>>

Idle == \A r \in Requests : pc[r] \in {"none", "closed"}

\* ... returns nil when Serve has returned and no connection is left ...
Drained == /\ main = "draining" /\ serve # "accepting" /\ Idle
           /\ main' = "exit 0"
           /\ UNCHANGED <<net, conns, repo>>

Expire == /\ main = "draining" /\ ~expired
          /\ expired' = TRUE
          /\ UNCHANGED <<main, signalled, serve, serverErr, inShutdown, conns, repo>>

\* Mutant: Shutdown has no deadline.
GiveUp_Never == FALSE

\* ... or the deadline's error, which main exits with.
GiveUp == /\ main = "draining" /\ expired
          /\ main' = "exit 1"
          /\ UNCHANGED <<net, conns, repo>>

-----------------------------------------------------------------------------
\* A client connects.
Accept(r) == /\ serve = "accepting" /\ ~inShutdown
             /\ Goto(r, "none", "new")
             /\ UNCHANGED <<main, net, kind, answer, gone, cancelled, repo>>

\* Its request's header arrives and the router calls a handler ...
Header(r) == /\ r \notin gone
             /\ Goto(r, "new", IF kind[r] = "GET" THEN "get" ELSE "body")
             /\ UNCHANGED <<main, net, kind, answer, gone, cancelled, repo>>

\* ... or does not arrive within ReadHeaderTimeout, or never will.
NoHeader(r) == /\ Goto(r, "new", "closed")
               /\ UNCHANGED <<main, net, kind, answer, gone, cancelled, repo>>

\* Handler.Create decodes the body the client has sent ...
Decode(r) == /\ IF kind[r] = "POST"
                THEN Goto(r, "body", "mint") /\ UNCHANGED answer
                ELSE Goto(r, "body", "reply") /\ answer' = [answer EXCEPT ![r] = Store!Failure(400)]
             /\ UNCHANGED <<main, net, kind, gone, cancelled, repo>>

\* ... or finds that the client has gone.
DecodeFails(r) == /\ r \in gone
                  /\ Goto(r, "body", "reply")
                  /\ answer' = [answer EXCEPT ![r] = Store!Failure(400)]
                  /\ UNCHANGED <<main, net, kind, gone, cancelled, repo>>

\* Mutant: memRepo.Create does not take the lock.
Mint_NoLock(r) == /\ Goto(r, "mint", "store")
                  /\ id' = [id EXCEPT ![r] = seq + 1]
                  /\ UNCHANGED <<main, net, kind, answer, gone, cancelled, mu, seq, notes>>

\* memRepo.Create under the write lock: seq read and the ID made from it ...
Mint(r) == /\ mu = NoOne
           /\ Goto(r, "mint", "store")
           /\ mu' = r
           /\ id' = [id EXCEPT ![r] = seq + 1]
           /\ UNCHANGED <<main, net, kind, answer, gone, cancelled, seq, notes>>

\* ... seq written, the note stored, the lock given back.
Put(r) == /\ Goto(r, "store", "reply")
          /\ seq' = id[r]
          /\ notes' = [i \in DOMAIN notes \cup {id[r]} |-> IF i = id[r] THEN r ELSE notes[i]]
          /\ mu' = NoOne
          /\ answer' = [answer EXCEPT ![r] = Store!Created(r, id[r])]
          /\ UNCHANGED <<main, net, kind, gone, cancelled, id>>

\* memRepo.Get under the read lock.
Get(r) == /\ mu = NoOne
          /\ Goto(r, "get", "reply")
          /\ \E i \in Ids : answer' = [answer EXCEPT ![r] =
                   IF i \in DOMAIN notes THEN Store!Found(notes[i], i) ELSE Store!Failure(404)]
          /\ UNCHANGED <<main, net, kind, gone, cancelled, repo>>

\* The handler returns; its context is cancelled, its connection idle, which
\* ends it during a shutdown and, with no second request, soon anyway.
Reply(r) == /\ Goto(r, "reply", "closed")
            /\ cancelled' = cancelled \cup {r}
            /\ UNCHANGED <<main, net, kind, answer, gone, repo>>

\* A client goes away, and the server cancels its request's context.
Disconnect(r) == /\ Running /\ pc[r] \notin {"none", "closed"} /\ r \notin gone
                 /\ gone' = gone \cup {r}
                 /\ cancelled' = cancelled \cup {r}
                 /\ UNCHANGED <<main, net, kind, pc, answer, repo>>

Handler(r) == DecodeFails(r) \/ Mint(r) \/ Put(r) \/ Get(r) \/ Reply(r)

Client(r) == Accept(r) \/ Header(r) \/ Decode(r) \/ Disconnect(r)

Server == Listen \/ ServeCloses \/ SelectError \/ SelectSignal \/ Drained
          \/ Expire \/ GiveUp

Finished == Exited /\ UNCHANGED vars

Next == \/ Server \/ ServeFails \/ Signal \/ Finished
        \/ \E r \in Requests : Handler(r) \/ NoHeader(r) \/ Client(r)

\* runServer and its timer go on; handlers owe it nothing.
Spec == Init /\ [][Next]_vars
LiveSpec == Spec /\ WF_vars(Server)

-----------------------------------------------------------------------------
TypeOK == /\ main \in {"select", "draining", "exit 0", "exit 1"}
          /\ signalled \in BOOLEAN /\ inShutdown \in BOOLEAN /\ expired \in BOOLEAN
          /\ serve \in {"starting", "accepting", "ended"}
          /\ serverErr \in {"empty", "failure", "ErrServerClosed"}
          /\ kind \in [Requests -> Kinds]
          /\ pc \in [Requests -> {"none", "new", "body", "mint", "store", "get",
                                  "reply", "closed"}]
          /\ \A r \in Requests : answer[r].status \in {0, 400, 201, 200, 404}
          /\ gone \in SUBSET Requests /\ cancelled \in SUBSET Requests
          /\ mu \in Requests \cup {NoOne}
          /\ seq \in 0..Cardinality(Requests)
          /\ DOMAIN notes \subseteq Ids /\ \A i \in DOMAIN notes : notes[i] \in Requests
          /\ id \in [Requests -> 0..Cardinality(Requests)]

(* A clean exit cuts nobody off: every connection the server accepted has  *)
(* been served and closed, however signal, accept and bind interleave.     *)
DrainsFirst == main = "exit 0" => Idle

(* The exit status tells why: 0 only for a signal, never because serving   *)
(* failed by itself; 1 only for that or for a drain that took too long.    *)
(* And every variable has its type.                                        *)
ExitTells == /\ TypeOK
             /\ main = "exit 0" => signalled
             /\ main = "exit 1" => expired \/ (serve = "ended" /\ ~inShutdown)

(* Under every interleaving, through the shutdown and with clients that    *)
(* vanish, the handlers over memRepo answer as a service that takes each   *)
(* request in one step: no create is given the ID of another's note, and a *)
(* note once created is found, as it was created, by every later get.      *)
ImplementsItemStore == Store!Spec

(* After a signal, or when serving has failed, the process ends: no stuck  *)
(* handler, silent client or unread error keeps it.                        *)
Exits == signalled \/ serve = "ended" ~> Exited

(* The solutions' notes (SOLUTIONS.md of week 5, line 113): a request that *)
(* is still stuck when the grace period expires sees its context           *)
(* cancelled.                                                              *)
StuckAreCancelled ==
    main = "exit 1" /\ expired =>
        \A r \in Requests : pc[r] \notin {"none", "new", "closed"} => r \in cancelled

=============================================================================
