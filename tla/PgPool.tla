------------------------------- MODULE PgPool -------------------------------
(***************************************************************************)
(* newPool and main of week 6, exercise 1: parse, create, ping, and hand   *)
(* the pool over or close it.  pgxpool is external: a new pool opens its   *)
(* first connections in a goroutine, while main pings, and Close waits for *)
(* every one that is open, lent or still being opened.                     *)
(***************************************************************************)
EXTENDS Naturals

MaxConns == 10
MinConns == 2

VARIABLES main,      \* where main is
          pool,      \* "none", "open", "closing" or "closed"
          toOpen,    \* connections the pool's goroutine has still to open
          dialing,   \* connections being opened by it
          idle,      \* connections open and not lent
          ping       \* main's own: "none", "dialing" or "lent"

conns == <<toOpen, dialing, idle, ping>>
vars == <<main, pool, conns>>

Init == /\ main = "parse" /\ pool = "none"
        /\ toOpen = 0 /\ dialing = 0 /\ idle = 0 /\ ping = "none"

Goes(from, to) == main = from /\ main' = to

-----------------------------------------------------------------------------
\* No DATABASE_URL, or one that ParseConfig or NewWithConfig refuses.
Refused == /\ \E from \in {"parse", "create"} : Goes(from, "failed")
           /\ UNCHANGED <<pool, conns>>

ParseConfig == Goes("parse", "create") /\ UNCHANGED <<pool, conns>>

NewWithConfig == /\ Goes("create", "ping")
                 /\ pool' = "open" /\ toOpen' = MinConns
                 /\ UNCHANGED <<dialing, idle, ping>>

\* Ping takes an idle connection, or opens one ...
PingAcquire == /\ main = "ping" /\ ping = "none"
               /\ IF idle > 0 THEN idle' = idle - 1 /\ ping' = "lent"
                  ELSE dialing < MaxConns /\ ping' = "dialing" /\ UNCHANGED idle
               /\ UNCHANGED <<main, pool, toOpen, dialing>>

PingDialled == /\ ping = "dialing" /\ ping' = "lent"
               /\ UNCHANGED <<main, pool, toOpen, dialing, idle>>

\* ... and gives it back.
PingOk == /\ Goes("ping", "run") /\ ping = "lent"
          /\ ping' = "none" /\ idle' = idle + 1
          /\ UNCHANGED <<pool, toOpen, dialing>>

\* Mutant: the pool is not closed.
PingFails_NoClose == /\ Goes("ping", "failed") /\ ping # "none"
                     /\ ping' = "none"
                     /\ UNCHANGED <<pool, toOpen, dialing, idle>>

\* The connection cannot be opened, or breaks; then pool.Close().
PingFails == /\ Goes("ping", "close") /\ ping # "none"
             /\ ping' = "none" /\ pool' = "closing" /\ idle' = 0
             /\ UNCHANGED <<toOpen, dialing>>

\* Close returns to newPool, whose error main prints, or to main's end.
Closed == /\ pool = "closing" /\ dialing = 0
          /\ pool' = "closed"
          /\ Goes("close", "failed") \/ Goes("deferred", "done")
          /\ UNCHANGED conns

\* main's two lines, and its deferred Close.
Run == /\ Goes("run", "deferred")
       /\ pool' = "closing" /\ idle' = 0
       /\ UNCHANGED <<toOpen, dialing, ping>>

-----------------------------------------------------------------------------
\* The pool's goroutine, which a closed pool refuses.
Dial == /\ pool = "open" /\ toOpen > 0
        /\ toOpen' = toOpen - 1 /\ dialing' = dialing + 1
        /\ UNCHANGED <<main, pool, idle, ping>>

Dialled == /\ dialing > 0 /\ dialing' = dialing - 1
           /\ idle' = IF pool = "open" THEN idle + 1 ELSE idle
           /\ UNCHANGED <<main, pool, toOpen, ping>>

DialFails == /\ dialing > 0 /\ dialing' = dialing - 1
             /\ UNCHANGED <<main, pool, toOpen, idle, ping>>

Finished == main \in {"failed", "done"} /\ UNCHANGED vars

Next == \/ Refused \/ ParseConfig \/ NewWithConfig \/ PingAcquire \/ PingDialled
        \/ PingOk \/ PingFails \/ Closed \/ Run \/ Dial \/ Dialled \/ DialFails
        \/ Finished

Spec == Init /\ [][Next]_vars

-----------------------------------------------------------------------------
TypeOK == /\ main \in {"parse", "create", "ping", "run", "close", "deferred", "failed", "done"}
          /\ pool \in {"none", "open", "closing", "closed"}
          /\ toOpen \in 0..MinConns /\ dialing \in 0..MinConns /\ idle \in 0..MinConns + 1
          /\ ping \in {"none", "dialing", "lent"}

(* newPool hands over a pool that is open, or an error and nothing: no     *)
(* pool is left open behind it, and no connection open or being opened,    *)
(* whatever its goroutine is doing when the ping fails.                    *)
PoolOwned == /\ TypeOK
             /\ main = "run" => pool = "open" /\ ping = "none"
             /\ main \in {"failed", "done"} =>
                   /\ pool \in {"none", "closed"}
                   /\ dialing = 0 /\ idle = 0 /\ ping = "none"

=============================================================================
