# Verification of the Crunch Go exercises

The repository is a course. Its programs are the exercises of weeks 1 to 9
under `src/curriculum/week-*/exercises`: small Go programs, most of them
concurrent, with the tests and solution notes that say what they promise. Weeks
10 to 12, the lectures, the challenges and the mini-projects are prose with code
fragments and hold no program. This project models the programs in TLA+,
model-checks them with TLC and proves what matters most with TLAPS.

`W4/2` below is week 4, exercise 2. `PROJECT.json` maps every definition to its
lines and lists the hazards with the properties that cover them.

## 1. Inventory

The programs do not call one another. Inside each, goroutines interact through
channels, locks, a database, a connection or a context.

| Component | State it keeps | Operations | What is hard | What makes it correct |
|---|---|---|---|---|
| W3/1 channels, fan-out | jobs and results channels, WaitGroup | rendezvous, buffer, produce, fanOutCollect | who closes which channel, and when | each result once, no phase blocks |
| W3/2 select and timeout | a result channel per call | fetch, leakyFetch, waitGroupWorkers | a value that is late for its timer | who leaks, and nobody else |
| W3/3 pipeline `SquareAll` | source, stage and merged channels, WaitGroup | gen, square, merge, collect | shutdown order over any number of stages | nothing lost, no send on a closed channel, no leak |
| W4/1 cancellation | a context, the canceller's goroutine, timers | worker, classify, scenarios | deadline, cancel and signal race; the deferred cancel always comes | the error names the cause |
| W4/2 bounded pools | semaphore or errgroup, gauge `current`/`peak` | RunSemaphore, RunErrgroup, Metrics | compare-and-swap, cancellation, first error | the limit holds, the mark is exact, the call returns |
| W4/3 counters | one integer, a mutex | RacyCount, MutexCount, AtomicCount | lost updates | no increment lost under a lock |
| W5/1 item service | map and `seq` under an RWMutex | createItem, getItem | handlers interleave | the service is atomic |
| W5/2, W9/1 middleware | context, response recorder, log | RequestID, Logger, Recoverer, Timeout, RequestLogger | panics between frames, order of frames | one true log line a request |
| W5/3 notes server | listener, connections, `serverErr`, memRepo | runServer, Create, Get | signal, failure and drain race; deadline | drains, ends, tells why |
| W6/1 pool, classifier | the pool and its connections | newPool, classifyConflict | the ping fails while the pool's goroutine opens connections | an open pool or nothing; sentinel errors |
| W6/2 audit transaction | tables notes and audit | createWithAudit, noteExists | crash and lost answer at the commit | both rows or none |
| W6/3 lost update | one row, its lock, the pool | incRacy, incForUpdate, incVersion, runConcurrently | read-modify-write over a database | the row counts the commits |
| W7/1 protocol | none (declarations) | - | - | - |
| W7/2 notes over gRPC | notes, one buffered broadcast channel, the client's stream and reader | CreateNote, GetNote, WatchNotes, GracefulStop, main | full buffer, shared channel, vanished clients, the order of the shutdown | every event accounted for; creates never wait; server and main end |
| W7/3 interceptors | frames of a call, log | recoveryUnary, loggingUnary | panics, callers that give up | a panic stays in its call, the log agrees |
| W8/1, W8/2 | a builder, a slice of tags | ValidateNote, RenderNoteMarkdown, the two tag indexes | one buffer reused, a slice sorted in place, limits | each agrees with a reference definition |
| W8/3 query parser | none | ParseQuery, String, FuzzParseQuery | empty values | parsing and writing agree |
| W9/2 traced server | span queue, exporter | handlers, Shutdown, flush | two shutdowns in order, two deadlines | no partial trace |
| W9/3 metrics | histogram and counter | Middleware, scrape | scrape between two updates | what was answered is counted |
| W1/3 | none | NormalizeWord, ParseTopN | punctuation outside the trimmed set | an error for what is no word |
| W2/2 | none | lookup, query, QueryError | what a wrapper hides | callers recognise the cause |
| W1/1, W1/2, W2/1, W2/3 | none, or a map | demonstrations, Set, Map, Filter | - | - |

## 2. Modules

Abstract specifications:

- `FanIn`: items are collected at most once, the call returns only with all of
  them, and it returns. Implemented by `FanPipeline` (W3/3) and `Channels` (W3/1).
- `BoundedRun`: at most Limit tasks run at once, each once, and the call returns
  when all have ended. Implemented by `SemaphorePool` and `ErrgroupPool` (W4/2).
- `Increments`: a shared counter that loses nothing. Implemented by the
  synchronised modes of `Counters` (W4/3) and of `LostUpdate` (W6/3).
- `ItemStore`: a service that answers each request in one step. Implemented by
  `ItemService` (W5/1) and by the handlers of `GracefulShutdown` (W5/3).

Detailed modules; each names in its header the program it models:

| Module | Models | State and actions |
|---|---|---|
| `FanPipeline` | W3/3 | one process counter per goroutine (gen, stages, forwarders, closer, main); a send on an unbuffered channel is one step of both sides |
| `Channels` | W3/1 | main's phases, feeder, workers, closer |
| `SelectTimeout` | W3/2 | a sender per call; Receive and Timeout are the cases of the select |
| `Metrics` | W4/2's gauge | Add, Load, CompareAndSwap, Exit; composed into both pools |
| `CancelWorkers` | W4/1 | main's scenarios; what is left of each timer; the canceller; signals at any moment, the first of which NotifyContext takes |
| `SemaphorePool`, `ErrgroupPool` | W4/2 | tasks from spawn to Done, the caller's cancellation, the group's first error |
| `Counters` | W4/3 | `kind` selects one of the three functions; a plain `counter++` is a load and a store |
| `ItemService` | W5/1 | each access under `mu` is a step |
| `Middleware` | W5/2 and W9/1 | `app` selects the program; a request moves down the chain and back up as a return or a panic |
| `GracefulShutdown` | W5/3 | runServer's select and drain, the serving goroutine, connections from accept to close, memRepo |
| `AuditTx` | W6/2 | processes (runs of main and of the test) against one database, one step per statement |
| `LostUpdate` | W6/3 | `mode` selects the increment; pool, row lock, faults, the runner's errors channel |
| `PgPool` | W6/1 | newPool's and main's steps against the pool's own goroutine |
| `WatchNotes` | W7/2 | creates, the buffered channel, stream handlers and their clients |
| `NotesDriver` | W7/2's main | extends `WatchNotes` with its one real client: stream, reader, calls, deferred shutdown; its steps are composed with the service's |
| `Interceptors` | W7/3 | frames as in `Middleware`, the caller's deadline, the stop |
| `NoteQuery` | W8/3 | one round of ParseQuery's loop a step, inside the fuzz function |
| `NotesX` | W8/1, W8/2 | operators over lengths and tag names, no actions: a state is a function and its argument |
| `Sorting` | sort.Ints and sort.Strings, external | a rearrangement that does not descend; used by `FanPipeline`, `NoteQuery` and `NotesX` |
| `ErrorChains` | W2/2, W6/1's classifyConflict | operators over chains of layers; `Sees` is errors.Is and errors.As |
| `Words` | W1/3's NormalizeWord | operators over classes of runes |
| `TracedServer` | W9/2 | requests with three nested spans, the batch queue, main's two shutdowns |
| `ScrapeMetrics` | W9/3 | requests through the middleware, a scrape that reads the series one by one |

The `MC*` modules give values to constants and, for suites (section 3), put
programs side by side; the latter are open in their constants too, so that they can
be proved about. The `*Proofs` modules hold the theorems: each extends the
module it is named after, but for `SortingProofs` (the programs that sort), which extends
`FanPipeline` and the suite `MCFunctions`, `Weeks3to4Proofs` (`ErrgroupPool`, `Counters`,
`CancelWorkers`, `Channels` and `SelectTimeout`), which extends the suite `MCWeeks3to4`, and `ServicesProofs`
(`AuditTx`, `PgPool`, `ItemService`, `Interceptors`, `Middleware`,
`ScrapeMetrics`, `TracedServer`), which extends `MCServices`.
Libraries and services
that are not in `src/` (net/http, grpc-go, pgx
and PostgreSQL, the OpenTelemetry SDK, the Prometheus registry) are modelled by
what the code relies on and marked external in the map.

Where a module has definitions named `X_Y`, with a comment that begins with
"Mutant", they are plausible bugs in the definition `X`: under its run, a model
with the mutant in place violates the property the mutant is listed for.

## 3. What the runs show

Every run with "pass" explores the whole state space within its bounds. Five
programs have a run of their own. The others share one with their neighbours:
the modules `MCWeeks3to4`, `MCServices` (weeks 5 to 9) and `MCFunctions` (the fuzzed parser
and the functions without state) instantiate several programs, a variable `program` says which one is running from the start
on, and what the others would use stays idle. Programs in a suite share variables
of the same name and nothing else. A suite's properties are those of its modules,
each for its program; the refinement mappings of its programs stand there too.

| Run | Program and bounds | Property | Shows |
|---|---|---|---|
| `FanPipeline` | W3/3: 4 items, two with equal squares, 3 stages | ChannelsSafe | channels are closed once and after the last send |
| | | Conserved, ReturnsSquares | every item is in one place; the sorted squares come back |
| | | ImplementsFanIn, NoLeak | refinement of FanIn; the call returns and no goroutine is left |
| `SemaphorePool` | W4/2: 4 tasks, limit 2 | Bounded, PeakExact | the limit holds, the mark is the true maximum |
| | | ImplementsBoundedRun, Returns | refinement of BoundedRun; the call returns |
| `LostUpdate` | W6/3: 4 goroutines, 2 connections, 2 faults | Exact, Acknowledged | the row counts the commits, nil means applied |
| | | Verdict, Returns | no error is lost, nothing stays held, the runner returns |
| `WatchNotes` | W7/2: 2 watchers, 3 notes, buffer of 2 | Accounted, Delivery | every event in one place, in order, filtered |
| | | ServiceAnswers | creates never wait |
| | and, from other initial states, main as the only client | Ends | the server stops; main ends, and with status 0 only when reader, handler and calls are over |
| `GracefulShutdown` | W5/3: 2 clients of every kind | DrainsFirst, ExitTells | a clean exit cuts nobody off, the exit status tells why |
| | | ImplementsItemStore, Exits | Create and Get are atomic, no ID twice; the process ends |
| `Weeks3to4` | every program below | Returns | each ends, but for the pool without a slot |
| | W3/1: 3 workers, 4 jobs, 4 squares | ImplementsFanIn | fan-out implements FanIn |
| | W3/2: 2 buffered, 3 leaky calls | LeaksExactly | in the end exactly the leaky calls that timed out have leaked |
| | W4/1: timers of 1, 5 and 6 units | CauseTold | an interrupted worker's scenario tells what ended its context |
| | W4/2: 4 tasks, limit 0 | CancelReturns | a cancelled call returns even when no slot ever frees |
| | W4/2: errgroup, 4 tasks, limit 2 | ReturnsVerdict, GroupImplementsBoundedRun | the error says whether a task was cut short; refinement of BoundedRun |
| | W4/3: 4 goroutines | CountsAll, CountersImplementIncrements | exact under mutex and atomic, 1..n under the race; refinement of Increments |
| `Services` | W5/1: 3 requests of every kind | ImplementsItemStore | IDs are unique, a get never sees half a create |
| | W5/2, W9/1: 2 requests, every path, with and without an ID | OneTrueLine | one completion line, with the status sent and the request's own ID, panics included |
| | W6/2: 2 runs of main, 1 of the test, 2 faults | Atomic | a note and one audit row, or neither; acknowledged notes stay |
| | W7/3: 2 calls of every class | PanicContained, LogAgrees | a panic reaches its caller alone as Internal; the log agrees with the answers |
| | W6/1: 2 connections and the ping's | PoolOwned | newPool hands over an open pool, or leaves no connection behind |
| | W9/2: 2 requests of every kind | TracesComplete | a server span at the collector has its whole trace; a complete shutdown loses none |
| | W9/3: 2 requests of every kind, 1 scrape | ScrapeTells | a scrape counts everything answered before it, nothing that has not begun |
| `Functions` | W8/3: all inputs of up to 3 of 17 fields | RoundTrips | accepted queries survive being written out and parsed again |
| | W8/1, W8/2: every length at its limit and beyond; up to 3 tags, or 3 notes of 2 tags; W2/2, W6/1: every key, every wrapping | FunctionsAgree | each function agrees with its reference definition and leaves its argument alone |

Four runs end in a violation, each where the code does something else than a text
of the repository says:

- `WatchNotesShared` (`AllNotesSeen`): all streams receive from one channel, so
  an event goes to one watcher, and a filter throws away what it takes from the
  others. The protocol says a stream without a filter gets all events.
- `InterceptorsPanic` (`OneLinePerCall`): a panic passes through loggingUnary,
  which logs after the call and not in a defer; its comment promises one line
  per RPC.
- `GracefulShutdownStuck` (`StuckAreCancelled`): when the grace period expires
  nothing cancels the contexts of the requests still running; the solution
  notes say they are cancelled.

- `Words` (`ErrorMeansNoWord`): NormalizeWord trims a fixed set of ASCII
  punctuation, so a hyphen or a dash alone is returned as a word; the comment
  promises an error for a token without word characters.

A fifth divergence needs no run: `tag:` makes ParseQuery index an empty value and
panic, which the fuzz test's first invariant excludes. The file plants that bug for
the exercise and says so; `NoteQuery` has it as an action (`TagPanics`), and
RoundTrips confines it to the first parse.

### Bounds

They are the smallest at which the interesting case happens: three stages or
workers let two be in one situation while a third is elsewhere; four tasks for
two slots let tasks wait while others hold, release and race on the mark; four
goroutines on two connections let one starve another; two watchers show sharing
and a buffer of two fills with three notes; two faults let a lost answer and a
failed rollback meet. `CancelWorkers` keeps the ratio of the sleep or
deadline (100 ms) to the work (500 ms); `Hour` needs only to be longer, and
because a goroutine may be late for its timer by any time, work and cancellation
meet in either order. The proofs cover the systems of section 4 at every size.
`MaxFaults`, `MaxNotes`, `MaxFields`, `MaxRunes` and `Scrapes` bound counters that the code
does not bound; nothing else is cut off.
Symmetry is used in `Services` alone, over `Users`, the requests of week 9's two
servers, which nothing tells apart; the run's one temporal property,
ImplementsItemStore, is a safety refinement and speaks of a program without them.

### Fairness

Liveness is checked only under weak fairness of the program's own steps: the Go
scheduler runs a goroutine that can run, a timer fires, PostgreSQL answers. It
is assumed of nobody else: no client, signal, cancellation or fault has to
happen. `GracefulShutdown` assumes it of runServer alone, not of the handlers,
because its deadline must end the process without them. `WatchNotes` assumes it
of the service, and of main and its process when main is the client, not of a
failing call or connection. `Weeks3to4` assumes it of the steps of its programs,
not of cancellations and signals. `LostUpdate`'s
optimistic loop ends under it because a lost race means that another goroutine
has won. `CancelWorkers` counts time down, and everywhere else it is left out: where two timers or a timer and a value
race, either may win.

## 4. What is proved

For every value of the constants, from the named assumptions of the modules
(`InAssumption`, `WorkersAssumption`, `PoolAssumption`, `TasksAssumption`,
`RunAssumption`, `WatchAssumption`, `StreamAssumption`, `NoOneAssumption`,
`RequestsAssumption`; the runs evaluate them too). They say no more than what Go's
types and the callers give: counts are natural numbers, sets of goroutines and
clients are finite, a model value that stands for nobody is nobody. Where a
component has no such assumption in its module, the theorem has the hypothesis in
its statement: `Arguments` (n and limit are natural numbers, the tasks are 1..n),
`Times` (durations are natural numbers), `Enough` (finitely many requests, and an
ID for each), `Fans` (at least one worker, and a natural number of jobs), `Visits`
(finitely many requests), `Timed` (natural numbers of calls), `MaxFaults \in Nat`.

- `SortingProofs`, first part: the pipeline. `TypeCorrect`, `NothingLost` (Conserved),
  `NoChannelPanic` (ChannelsSafe), `NoGoroutineOutlivesTheCall`,
  `SquaresReturned` (ReturnsSquares) and
  `Refinement`: every step is a step of FanIn or a stutter. The inductive
  invariant is `TypeOK /\ Progress /\ Conserved`. Conserved alone is not
  inductive: that the merged channel is not closed too early rests on
  Progress, which says that `wg` counts the forwarders still running and
  which goroutines have ended when a channel is closed. For the result, `Sortable`
  shows by insertion that numbers can be put in order, so that `Ints` does put them in
  order; the items collected are each item once, and another order of the same
  elements has the same bag (`SameBag`).
- `SortingProofs`, second part: the programs of `MCFunctions`. `QueryRoundTrips`
  (RoundTrips), for inputs of any number of fields and `RunRoundTrips` for the run: the
  invariant `Parse` says of the first parse that it makes queries of values that can
  be written, and of the second that what is still to be read (`Left`) and what has
  been read (`Read`) are together what String has written of the first query; sorting a
  second time does nothing because ranks tell values apart (`OneOrder`).
  `NotesxCorrect`: for notes, tags and lists of notes of any length, ValidateNote
  reports the first rule broken, a document has the tags in order and the note is left alone, and
  the two index loops agree and index every visit in order (`SlowHas`, `SameIndex`).
  `ErrorsRecognised`, for any number of wrappings. `RunAgrees` (FunctionsAgree) is
  what the two say of the run.
- `MetricsProofs`. The gauge by itself, as an open system: `current` is the
  number of tasks inside, and the mark is at least what every task that has left
  its loop has seen. `MetricsExact` and `MetricsMonotone` follow. Both
  pools' proofs use them through one lemma: every step of the pool is
  a step of the gauge or leaves it alone.
- `SemaphorePoolProofs`. `BoundHolds` (Bounded), `MarkExact` (PeakExact),
  `MarkMonotone`, `CleanReturn`, `TypeCorrect`, and `Refinement`
  (ImplementsBoundedRun). The invariant adds to the gauge's that `sem` is the
  number of tasks that hold a slot (`Slots`) and that `wg` is the number not
  ended (`Waited`); the bound follows because a task inside holds a slot.
- `LostUpdateProofs`. `RowExact` (Exact), `NilMeansApplied` (Acknowledged),
  `VerdictTrue` (Verdict) and `Refinement` (ImplementsIncrements), for any number
  of goroutines, connections and faults. Exact alone is not inductive. `Holding`
  reads the lock's and the connections' owners off the program counters; `Known`
  says that what a transaction has read is still the row when it writes, under
  the lock because nobody else may write, under the version check because equal
  versions mean equal counts; `Outcomes` and `Collected` say that a call is over
  exactly when its increment is in the row or its error in the channel.
- `WatchNotesProofs`. `EachEventOnce` (Accounted) and `InOrder` (Delivery) for any
  streams, notes and capacity; `DriverSafe` repeats both for main as the client,
  whose steps are those of the service or touch none of it. Accounted becomes
  inductive as two halves, `Placed` (every event is somewhere) and `Apart`
  (nowhere twice), and Delivery with `Ordered`: the channel is in creation order,
  and whatever has left it is older than all that is in it, so what a handler takes
  is newer than what it has sent. `SoleStreamSeesAll` states the positive side of
  the divergence in `WatchNotesShared`: one stream alone does see every note.
- `GracefulShutdownProofs`. `CleanExit` (DrainsFirst), `StatusTells` (ExitTells) and
  `Refinement` (ImplementsItemStore), for any finite set of clients. `Lifecycle`
  relates runServer to the serving goroutine: ErrServerClosed can only follow the
  start of the shutdown, so the select never takes it for a failure. `Serial`
  says that the holder of the lock has the next ID and that the map's domain is
  1..seq; `Pending` that a request in progress has no answer.
- `Weeks3to4Proofs`. `CountersCount` (CountsAll, the lower bound under the race
  included) and `CountersRefine`; `GroupVerdict` (ReturnsVerdict) and
  `GroupRefines` (GroupImplementsBoundedRun), over the gauge's theorems;
  `CauseNamed` (CauseTold); `ChannelsRefine` (ImplementsFanIn);
  `LeaksTold`, the safety part of LeaksExactly: whenever leakDemo reports, it is as that says. Each states its property of the program by itself and
  of the run in which it is one of the programs; `Begun` and `GoesOn` lead from
  the one to the other: a run begins as its program does, and keeps to it. In the counters a goroutine under the mutex has in its
  register the count of those that have stored; in the group the error is set
  exactly when a failed task has got past errOnce; in the contexts (`Ends`,
  `Caused`) a context's error never changes, so a worker's result still names the
  cause when main prints it. In the fan-out a job dealt is with one worker
  or has been collected (`Dealt`), and the results are closed only when all workers
  have ended, which needs every job dealt (`Closing`): so the collector returns with
  all of them. Of a call of leakyFetch, the goroutine has ended exactly when the call has got
  its value (`Handed`).
- `ServicesProofs`. `AuditAtomic` (Atomic), `PoolHandedOver` (PoolOwned),
  `ItemsImplementStore` and `RunImplementsStore` (ImplementsItemStore),
  `PanicStays` (PanicContained), `LogTells` (LogAgrees), `OneLineEach`
  (OneTrueLine), `ScrapesTrue` (ScrapeTells) and `TracesWhole` (TracesComplete), of the program by itself and of the run, as in `Weeks3to4Proofs`. For the transaction
  the invariant says that what a live transaction has written follows from where
  its process is (`Writes`), that no two write one note nor one that there is
  (`Exclusive`), and that only a call with a short actor gets to its commit; a
  commit therefore adds a new note together with its one audit row, also when
  its answer is lost. For the pool it counts connections: those to open, being
  opened and idle, with the ping's. For the item service the write lock's owner
  is the only one between the number and the map. For the interceptors a call's
  only line is the one its return or its panic leads to, read off its depth. For
  the middleware the status a request gets follows from its path (`StatusOf`), and
  its depth and way tell what it has been sent, what its recorder has seen (`Comes`),
  where its ID is known (`Knows`) and what has been logged (`Says`); that a panic
  of week 5 is never above Recoverer is what gets it its line. One assumption,
  `MintedAssumption`: a minted ID is not the empty one. For the metrics a series'
  value is the number of requests past its step (`Hits`): all that a scrape must
  have (`Due`) are among them, and all of them have begun (`Come`), at whichever
  moment the series is read. For the traces the invariant speaks of what the
  collector would have if any number of spans were taken from the front of the
  queue (`Upto`): each such set has with a server span its whole trace (`Whole`).
  That an ended span joins a trace that is there needs `Kept`, no span of a
  request is missing until the tracer is shut down, and `Staged`, a drained server
  has no request that could end one later.

`TypeOK`, `ReturnsDrained`, `ReturnsClean` and `PeakMonotone` are stated in the
modules and proved, and no run repeats them; in the other modules the type
invariant is a conjunct of the main one.

Only model-checked: everything under fairness (NoLeak, Returns, CancelReturns,
ServiceAnswers, Ends, Exits, LeaksExactly but for its safety part, and the live half of
`FanPipeline`'s ImplementsFanIn), since the proof system does not reason about it, and
the divergences of section 3, which are counterexamples.

Where a proof needs induction over data (a sort, a flattened sequence, the loops that
build an index), it is an induction over the set of numbers for which the claim
holds: `Least`, that a set of natural numbers that is not empty has a least
element, follows from the well-founded order of the library, and `Induction` from
it. So that such sets can be written down, `Sorting` says what sort.Ints and
sort.Strings do by the existence of a rearrangement, and `NotesX` builds its indexes by
recursive functions; that those functions exist is proved as well (`FlattenExists`,
`SlowExists`, `SameIndex`).

## 5. What is not modelled

- W1/1, W1/2, W2/1: straight-line demonstrations with fixed values; a model would
  restate Go's own semantics of slices, maps, receivers and defers.
- W2/3: Set, Map and Filter are one map access or one loop each, without state
  between calls; Reduce is a TODO that panics.
- W1/3's ParseTopN (Atoi and a comparison), W8/1's Markdown layout and golden
  file, W8/2's timings.
- PgRepo of W6/1, which exists only in a comment.
- W7/1: declarations. W7/2's DeleteNote: a stub.
- Wording, formats, log attributes, durations and the values of measurements.
- Weeks 10 to 12 and all prose.

## 6. Plan

Done, in this order: the pipeline and its proof; the pools, their gauge and
their proofs; counters and lost updates; the gRPC stream and interceptors; the
HTTP server, middleware and item service; transactions; channels and select;
the query parser; tracing and metrics; the contexts of W4/1; main of W7/2 as the
service's client; the pool of W6/1; the functions of weeks 1, 2 and 8; then
the proofs of section 4, in its order.

Every safety invariant that a passing run checks is proved, and every refinement's safety.
Left: W7/2's DeleteNote and W6/1's PgRepo, once they are code.
