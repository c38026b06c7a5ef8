----------------------------- MODULE MCServices -----------------------------
(* The services of weeks 5 to 9 that have no run of their own, one at a    *)
(* time: the middleware chains, the item service, the audited transactions,*)
(* the gRPC interceptors, the connection pool, the traced server and the   *)
(* measured server; `program` says which.  They share some variables; what *)
(* one has not is 0.                                                       *)
EXTENDS Integers, Sequences, TLC

CONSTANTS WebRequests, WebIds,      \* the chains' requests, and their IDs
          NoId,                     \* no ID
          Clients, Numbers,         \* the item service's requests, and its IDs
          Mains, Tests, MaxFaults,  \* the audited transactions
          Callers,                  \* the calls through the interceptors
          Users, Scrapes            \* requests and scrapes of week 9's servers

VARIABLES program, depth, way, lines, pc, main, kind, status,
          app, path, sent, ctxId, lineId, rec, wire, echoed,
          writer, readers, seq, items, answer,
          notes, audits, written, at, err, faults,
          req, code, client, conn, grpcSrv,
          pool, toOpen, dialing, idle, ping,
          listener, failed, queue, exported, troubled, drained, flushed,
          server, target, value, scraping, scraped, before, scrapes

Web    == INSTANCE Middleware WITH Requests <- WebRequests, Ids <- WebIds
Item   == INSTANCE ItemService WITH Requests <- Clients, Ids <- Numbers
Db     == INSTANCE AuditTx
Rpc    == INSTANCE Interceptors WITH Calls <- Callers
Pg     == INSTANCE PgPool
Traced == INSTANCE TracedServer WITH Requests <- Users
Metric == INSTANCE ScrapeMetrics WITH Requests <- Users

\* A minted ID is sixteen hex digits, never the empty header.
ASSUME MintedAssumption == \A r \in WebRequests : Web!MintedBy(r) # NoId

frames     == <<depth, way, lines>>
webOnly    == <<app, path, sent, ctxId, lineId, rec, wire, echoed>>
itemOnly   == <<writer, readers, seq, items, answer>>
auditOnly  == <<notes, audits, written, at, err, faults>>
rpcOnly    == <<req, code, client, conn, grpcSrv>>
pgOnly     == <<pool, toOpen, dialing, idle, ping>>
tracedOnly == <<listener, failed, queue, exported, troubled, drained, flushed>>
metricOnly == <<server, target, value, scraping, scraped, before, scrapes>>
vars == <<program, frames, pc, main, kind, status, webOnly, itemOnly, auditOnly,
          rpcOnly, pgOnly, tracedOnly, metricOnly>>

NoFrames == depth = 0 /\ way = 0 /\ lines = 0
NoWeb == /\ app = 0 /\ path = 0 /\ sent = 0 /\ ctxId = 0 /\ lineId = 0
         /\ rec = 0 /\ wire = 0 /\ echoed = 0
NoItem == writer = 0 /\ readers = 0 /\ seq = 0 /\ items = 0 /\ answer = 0
NoAudit == notes = 0 /\ audits = 0 /\ written = 0 /\ at = 0 /\ err = 0 /\ faults = 0
NoRpc == req = 0 /\ code = 0 /\ client = 0 /\ conn = 0 /\ grpcSrv = 0
NoPg == pool = 0 /\ toOpen = 0 /\ dialing = 0 /\ idle = 0 /\ ping = 0
NoTraced == /\ listener = 0 /\ failed = 0 /\ queue = 0 /\ exported = 0
            /\ troubled = 0 /\ drained = 0 /\ flushed = 0
NoMetric == /\ server = 0 /\ target = 0 /\ value = 0
            /\ scraping = 0 /\ scraped = 0 /\ before = 0 /\ scrapes = 0

Init == \/ /\ program = "middleware" /\ Web!Init
           /\ pc = 0 /\ main = 0 /\ kind = 0 /\ status = 0
           /\ NoItem /\ NoAudit /\ NoRpc /\ NoPg /\ NoTraced /\ NoMetric
        \/ /\ program = "items" /\ Item!Init
           /\ main = 0 /\ status = 0
           /\ NoFrames /\ NoWeb /\ NoAudit /\ NoRpc /\ NoPg /\ NoTraced /\ NoMetric
        \/ /\ program = "audit" /\ Db!Init
           /\ main = 0 /\ kind = 0
           /\ NoFrames /\ NoWeb /\ NoItem /\ NoRpc /\ NoPg /\ NoTraced /\ NoMetric
        \/ /\ program = "interceptors" /\ Rpc!Init
           /\ pc = 0 /\ main = 0 /\ kind = 0 /\ status = 0
           /\ NoWeb /\ NoItem /\ NoAudit /\ NoPg /\ NoTraced /\ NoMetric
        \/ /\ program = "pool" /\ Pg!Init
           /\ pc = 0 /\ kind = 0 /\ status = 0
           /\ NoFrames /\ NoWeb /\ NoItem /\ NoAudit /\ NoRpc /\ NoTraced /\ NoMetric
        \/ /\ program = "traces" /\ Traced!Init
           /\ status = 0
           /\ NoFrames /\ NoWeb /\ NoItem /\ NoAudit /\ NoRpc /\ NoPg /\ NoMetric
        \/ /\ program = "metrics" /\ Metric!Init
           /\ main = 0 /\ kind = 0
           /\ NoFrames /\ NoWeb /\ NoItem /\ NoAudit /\ NoRpc /\ NoPg /\ NoTraced

Next == \/ /\ program = "middleware" /\ Web!Next
           /\ UNCHANGED <<program, pc, main, kind, status, itemOnly, auditOnly,
                          rpcOnly, pgOnly, tracedOnly, metricOnly>>
        \/ /\ program = "items" /\ Item!Next
           /\ UNCHANGED <<program, main, status, frames, webOnly, auditOnly,
                          rpcOnly, pgOnly, tracedOnly, metricOnly>>
        \/ /\ program = "audit" /\ Db!Next
           /\ UNCHANGED <<program, main, kind, frames, webOnly, itemOnly,
                          rpcOnly, pgOnly, tracedOnly, metricOnly>>
        \/ /\ program = "interceptors" /\ Rpc!Next
           /\ UNCHANGED <<program, pc, main, kind, status, webOnly, itemOnly,
                          auditOnly, pgOnly, tracedOnly, metricOnly>>
        \/ /\ program = "pool" /\ Pg!Next
           /\ UNCHANGED <<program, pc, kind, status, frames, webOnly, itemOnly,
                          auditOnly, rpcOnly, tracedOnly, metricOnly>>
        \/ /\ program = "traces" /\ Traced!Next
           /\ UNCHANGED <<program, status, frames, webOnly, itemOnly,
                          auditOnly, rpcOnly, pgOnly, metricOnly>>
        \/ /\ program = "metrics" /\ Metric!Next
           /\ UNCHANGED <<program, main, kind, frames, webOnly, itemOnly,
                          auditOnly, rpcOnly, pgOnly, tracedOnly>>

Spec == Init /\ [][Next]_vars

Symmetry == Permutations(Users)

-----------------------------------------------------------------------------
(* Every request through a middleware chain ends with one completion line, *)
(* with the status that was sent and its own ID (Middleware).              *)
OneTrueLine == program = "middleware" => Web!OneTrueLine

Store == INSTANCE ItemStore
           WITH Requests <- Clients, Ids <- Numbers,
                items <- IF program = "items" THEN items ELSE Item!NoItems,
                answer <- [r \in Clients |-> IF program # "items" \/ pc[r] = "store"
                                            THEN Item!None ELSE answer[r]]

(* The handlers of the item service implement a service that answers each  *)
(* request in one step: however they interleave, every create is given an  *)
(* ID of its own, and a get sees no item or a whole one.  A created item   *)
(* is there when it is in the map (ItemService).                           *)
ImplementsItemStore == Store!Spec

(* A note and exactly one audit row, or neither, whatever fails and        *)
(* whoever dies; acknowledged notes stay (AuditTx).                        *)
Atomic == program = "audit" => Db!Atomic

(* A panicking handler ends neither the process nor another call, and its  *)
(* caller alone is told Internal (Interceptors).                           *)
PanicContained == program = "interceptors" => Rpc!PanicContained

(* newPool hands over an open pool, or leaves nothing behind (PgPool).     *)
PoolOwned == program = "pool" => Pg!PoolOwned

(* A call's log line has the code its caller was sent (Interceptors).      *)
LogAgrees == program = "interceptors" => Rpc!LogAgrees

(* No server span is exported without its whole trace unless a batch       *)
(* failed, and a complete shutdown exports every trace (TracedServer).     *)
TracesComplete == program = "traces" => Traced!TracesComplete

(* A scrape has every request answered before it, under the code it was    *)
(* answered with, and none that has not begun (ScrapeMetrics).             *)
ScrapeTells == program = "metrics" => Metric!ScrapeTells

=============================================================================
