--------------------------- MODULE ScrapeMetrics ---------------------------
(***************************************************************************)
(* Week 9, exercise 3: requests go through Metrics.Middleware, which sets  *)
(* the duration histogram and then the requests counter, while a scraper   *)
(* reads the registry.  The registry (external) reads the series one at a  *)
(* time and in no particular order; a short response (net/http, external)  *)
(* leaves the server after the handler has returned.                       *)
(***************************************************************************)
EXTENDS Naturals, FiniteSets

CONSTANTS Requests,   \* the requests
          Scrapes     \* bound on the scrapes

\* What a request asks for: GET /fast, GET /slow, GET /notes/{id} of note 0 or
\* of another, or POST /fast, which has no route.
Targets == {"fast", "slow", "note", "zero", "POST"}

Measured == Targets \ {"POST"}
Route(target) == IF target = "zero" THEN "note" ELSE target
Routes == {Route(t) : t \in Measured}
Codes == {200, 404}

\* The series of NewMetrics' two instruments; the only method measured is GET.
CodesOf(route) == IF route = "note" THEN Codes ELSE {200}
Counters == UNION {{route} \X CodesOf(route) : route \in Routes}
Histograms == Routes \X {0}
Series == Counters \cup Histograms

VARIABLES server,     \* "listening" or "stopped", with status 1
          target,     \* what each request asks for
          pc,         \* where it is
          status,     \* what its statusRecorder has seen
          value,      \* the value of each series
          scraping,   \* the series the scrape in progress has still to read
          scraped,    \* what the last scrape has read
          before,     \* history: the requests answered when it began
          scrapes     \* how many scrapes there have been

vars == <<server, target, pc, status, value, scraping, scraped, before, scrapes>>

Init == /\ server = "listening"
        /\ target \in [Requests -> Targets]
        /\ pc = [r \in Requests |-> "idle"]
        /\ status = [r \in Requests |-> 200]
        /\ value = [s \in Series |-> 0]
        /\ scraping = {} /\ scraped = [s \in Series |-> 0]
        /\ before = {} /\ scrapes = 0

Goto(r, from, to) == /\ server = "listening" /\ pc[r] = from
                     /\ pc' = [pc EXCEPT ![r] = to]

-----------------------------------------------------------------------------
\* The mux finds the route's middleware, or answers itself.
Begin(r) == /\ target[r] \in Measured
            /\ Goto(r, "idle", "next")
            /\ UNCHANGED <<server, target, status, value, scraping, scraped, before, scrapes>>

NoRoute(r) == /\ target[r] \notin Measured
              /\ Goto(r, "idle", "respond")
              /\ UNCHANGED <<server, target, status, value, scraping, scraped, before, scrapes>>

\* next(rec, r): a body with the implicit 200, which the recorder starts with ...
Handle(r) == /\ target[r] # "zero"
             /\ Goto(r, "next", "observe")
             /\ UNCHANGED <<server, target, status, value, scraping, scraped, before, scrapes>>

\* ... or http.Error, through the recorder's WriteHeader.
NotFound(r) == /\ target[r] = "zero"
               /\ Goto(r, "next", "observe")
               /\ status' = [status EXCEPT ![r] = 404]
               /\ UNCHANGED <<server, target, value, scraping, scraped, before, scrapes>>

Add(s) == value' = [value EXCEPT ![s] = @ + 1]

Observe(r) == /\ Goto(r, "observe", "inc")
              /\ Add(<<Route(target[r]), 0>>)
              /\ UNCHANGED <<server, target, status, scraping, scraped, before, scrapes>>

\* Mutant: the counter's label is not the recorded status.
Inc_Code200(r) == /\ Goto(r, "inc", "respond")
                  /\ Add(<<Route(target[r]), 200>>)
                  /\ UNCHANGED <<server, target, status, scraping, scraped, before, scrapes>>

Inc(r) == /\ Goto(r, "inc", "respond")
          /\ Add(<<Route(target[r]), status[r]>>)
          /\ UNCHANGED <<server, target, status, scraping, scraped, before, scrapes>>

\* The buffered response leaves, and its client has its answer.
Respond(r) == /\ Goto(r, "respond", "answered")
              /\ UNCHANGED <<server, target, status, value, scraping, scraped, before, scrapes>>

-----------------------------------------------------------------------------
Answered == {r \in Requests : pc[r] = "answered"}

\* GET /metrics
BeginScrape == /\ server = "listening" /\ scraping = {} /\ scrapes < Scrapes
               /\ scraping' = Series
               /\ before' = Answered
               /\ scrapes' = scrapes + 1
               /\ UNCHANGED <<server, target, pc, status, value, scraped>>

Gather(s) == /\ server = "listening" /\ s \in scraping
             /\ scraped' = [scraped EXCEPT ![s] = value[s]]
             /\ scraping' = scraping \ {s}
             /\ UNCHANGED <<server, target, pc, status, value, before, scrapes>>

\* ListenAndServe fails: os.Exit(1), requests and scrape or not.
Exit == /\ server = "listening"
        /\ server' = "stopped"
        /\ UNCHANGED <<target, pc, status, value, scraping, scraped, before, scrapes>>

Finished == /\ server = "stopped"
            /\ UNCHANGED vars

Next == \/ BeginScrape \/ Exit \/ Finished
        \/ \E s \in Series : Gather(s)
        \/ \E r \in Requests : \/ Begin(r) \/ NoRoute(r) \/ Handle(r) \/ NotFound(r)
                               \/ Observe(r) \/ Inc(r) \/ Respond(r)

Spec == Init /\ [][Next]_vars

-----------------------------------------------------------------------------
\* The requests a series counts.
Code(t) == IF t = "zero" THEN 404 ELSE 200
Counts(s, r) == /\ target[r] \in Measured /\ s[1] = Route(target[r])
                /\ s[2] \in {0, Code(target[r])}

TypeOK == /\ server \in {"listening", "stopped"}
          /\ target \in [Requests -> Targets]
          /\ pc \in [Requests -> {"idle", "next", "observe", "inc", "respond", "answered"}]
          /\ status \in [Requests -> Codes]
          /\ value \in [Series -> Nat] /\ scraped \in [Series -> Nat]
          /\ scraping \subseteq Series /\ before \subseteq Requests
          /\ scrapes \in 0..Scrapes

(* A finished scrape counts, in every series, at least the requests that   *)
(* had been answered when it began and no request that has not begun; and  *)
(* when nothing is in flight histogram and counter of a route agree, under *)
(* the codes the clients were sent.                                        *)
ScrapeTells ==
    /\ TypeOK
    /\ scrapes > 0 => \A s \in Series \ scraping :
          /\ scraped[s] >= Cardinality({r \in before : Counts(s, r)})
          /\ scraped[s] <= Cardinality({r \in Requests : pc[r] # "idle" /\ Counts(s, r)})
    /\ (\A r \in Requests : pc[r] \in {"idle", "answered"}) => \A s \in Series :
          value[s] = Cardinality({r \in Answered : Counts(s, r)})

=============================================================================
