-------------------------- MODULE WatchNotesProofs --------------------------
(***************************************************************************)
(* The broadcast of the notes service for any number of streams, notes and *)
(* any capacity: no event is duplicated, none vanishes, and each stream    *)
(* delivers in creation order.  The argument: the channel is in creation   *)
(* order and everything outside it is older, so an event a handler takes   *)
(* is newer than all that handler has delivered.                           *)
(***************************************************************************)
EXTENDS NotesDriver, FiniteSetTheorems, TLAPS

Queued == ToSet(watcher)
SentBy(w) == ToSet(sent[w])
GivenUp == dropped \cup skipped \cup lost

Increasing(q) == \A i, j \in DOMAIN q : i < j => q[i] < q[j]

\* Only created events are anywhere.
Numbered == /\ Queued \cup GivenUp \subseteq 1..seq
            /\ \A w \in Held : event[w] \in 1..seq
            /\ \A w \in Watchers : SentBy(w) \subseteq 1..seq

\* Every created event is somewhere ...
Placed == \A e \in 1..seq :
    \/ e \in Queued \cup GivenUp
    \/ \E w \in Held : event[w] = e
    \/ \E w \in Watchers : e \in SentBy(w)

\* ... and nowhere else.
Apart ==
    /\ Queued \cap GivenUp = {}
    /\ dropped \cap skipped = {} /\ dropped \cap lost = {} /\ skipped \cap lost = {}
    /\ \A w \in Held : /\ event[w] \notin Queued \cup GivenUp
                       /\ \A v \in Watchers : event[w] \notin SentBy(v)
                       /\ \A v \in Held : event[v] = event[w] => v = w
    /\ \A w \in Watchers : \A e \in SentBy(w) :
                       /\ e \notin Queued \cup GivenUp
                       /\ \A v \in Watchers : e \in SentBy(v) => v = w

\* The channel is in creation order; what left it is older than what is in it.
Ordered ==
    /\ Increasing(watcher)
    /\ \A w \in Watchers : /\ Increasing(sent[w])
                           /\ \A x \in SentBy(w) : \A e \in Queued : x < e
                           /\ w \in Held => \A e \in Queued : event[w] < e
                           /\ w \in Held => \A x \in SentBy(w) : x < event[w]

Filtered == \A w \in Watchers :
    /\ pc[w] = "off" => sent[w] = <<>>
    /\ filter[w] # NoFilter => \A e \in SentBy(w) : filter[w] \in tags[e]

IInv == TypeOK /\ Numbered /\ Placed /\ Apart /\ Ordered /\ Filtered

\* The two steps in which a client vanishes, and main's own watchCancel.
Vanish == /\ \E W \in SUBSET Watchers : gone' = gone \cup W
          /\ UNCHANGED <<requested, store, watcher, pc, filter, event, status, conn,
                         history>>

-----------------------------------------------------------------------------
(* Appending a greater element keeps a sequence increasing. *)
LEMMA AppendGreater ==
  ASSUME NEW S \in SUBSET Int, NEW q \in Seq(S), NEW e \in S
  PROVE  /\ Append(q, e) \in Seq(S) /\ Len(Append(q, e)) = Len(q) + 1
         /\ ToSet(Append(q, e)) = ToSet(q) \cup {e}
         /\ Increasing(q) /\ (\A x \in ToSet(q) : x < e) => Increasing(Append(q, e))
  <1> DEFINE r == Append(q, e)
  <1>1. /\ r \in Seq(S) /\ Len(q) \in Nat /\ Len(r) = Len(q) + 1
        /\ DOMAIN q = 1..Len(q) /\ DOMAIN r = 1..Len(q)+1
        /\ \A k \in 1..Len(q) : r[k] = q[k]
        /\ r[Len(q)+1] = e
    OBVIOUS
  <1> HIDE DEF r
  <1>2. ToSet(r) = ToSet(q) \cup {e}
    <2>1. \A k \in 1..Len(q)+1 : k \in 1..Len(q) \/ k = Len(q)+1
      BY <1>1
    <2>2. 1..Len(q) \subseteq 1..Len(q)+1 /\ Len(q)+1 \in 1..Len(q)+1
      BY <1>1
    <2> QED BY <1>1, <2>1, <2>2, Zenon DEF ToSet
  <1>3. ASSUME Increasing(q), \A x \in ToSet(q) : x < e PROVE Increasing(r)
    <2>1. \A k \in 1..Len(q) : q[k] \in ToSet(q)
      BY <1>1 DEF ToSet
    <2> QED BY <1>1, <1>3, <2>1 DEF Increasing
  <1> QED BY <1>1, <1>2, <1>3 DEF r

(* The first element of an increasing sequence is its least, and occurs once. *)
LEMMA TailGreater ==
  ASSUME NEW S \in SUBSET Int, NEW q \in Seq(S), q # <<>>, Increasing(q)
  PROVE  /\ Tail(q) \in Seq(S) /\ Len(Tail(q)) = Len(q) - 1
         /\ Increasing(Tail(q))
         /\ Head(q) \in S /\ Head(q) \in ToSet(q)
         /\ ToSet(Tail(q)) = ToSet(q) \ {Head(q)}
         /\ \A e \in ToSet(Tail(q)) : Head(q) < e
  <1> DEFINE r == Tail(q)
  <1>1. /\ r \in Seq(S) /\ Len(q) \in Nat \ {0} /\ Len(r) = Len(q) - 1
        /\ DOMAIN q = 1..Len(q) /\ DOMAIN r = 1..Len(q)-1
        /\ \A k \in 1..Len(q)-1 : r[k] = q[k+1]
        /\ Head(q) = q[1] /\ Head(q) \in S
    OBVIOUS
  <1> HIDE DEF r
  <1>2. \A k \in 1..Len(q) : q[k] \in Int
    <2> TAKE k \in 1..Len(q)
    <2>1. q[k] \in S
      BY <1>1
    <2> QED BY <2>1
  <1>3. Increasing(r)
    <2> SUFFICES ASSUME NEW i \in 1..Len(q)-1, NEW j \in 1..Len(q)-1, i < j
                 PROVE  r[i] < r[j]
      BY <1>1 DEF Increasing
    <2>1. i+1 \in 1..Len(q) /\ j+1 \in 1..Len(q) /\ i+1 < j+1
      BY <1>1
    <2> QED BY <1>1, <2>1 DEF Increasing
  <1>4. \A k \in 1..Len(q)-1 : k+1 \in 1..Len(q) /\ q[1] < q[k+1]
    BY <1>1 DEF Increasing
  <1>5. \A k \in 1..Len(q) : k = 1 \/ (k-1 \in 1..Len(q)-1 /\ q[k] = r[k-1])
    BY <1>1
  <1>6. ToSet(r) = ToSet(q) \ {q[1]}
    <2>1. ASSUME NEW x \in ToSet(r) PROVE x \in ToSet(q) /\ x # q[1]
      <3>1. PICK k \in 1..Len(q)-1 : x = r[k]
        BY <1>1, <2>1 DEF ToSet
      <3>2. x = q[k+1] /\ k+1 \in 1..Len(q) /\ q[1] < q[k+1]
        BY <1>1, <1>4, <3>1
      <3> QED BY <1>1, <1>2, <3>2 DEF ToSet
    <2>2. ASSUME NEW x \in ToSet(q), x # q[1] PROVE x \in ToSet(r)
      <3>1. PICK k \in 1..Len(q) : x = q[k]
        BY <1>1, <2>2 DEF ToSet
      <3>2. k-1 \in 1..Len(q)-1 /\ x = r[k-1]
        BY <1>5, <2>2, <3>1
      <3> QED BY <1>1, <3>2 DEF ToSet
    <2> QED BY <2>1, <2>2
  <1>7. \A e \in ToSet(r) : q[1] < e
    BY <1>1, <1>4 DEF ToSet
  <1>8. q[1] \in ToSet(q)
    BY <1>1 DEF ToSet
  <1> QED BY <1>1, <1>3, <1>6, <1>7, <1>8 DEF r

LEMMA InitIInv == Init => IInv
  <1> SUFFICES ASSUME Init PROVE IInv
    OBVIOUS
  <1> USE WatchAssumption DEF Init
  <1>1. /\ Queued = {} /\ GivenUp = {} /\ Held = {} /\ \A w \in Watchers : SentBy(w) = {}
    BY DEF Queued, GivenUp, Held, SentBy, ToSet
  <1>2. TypeOK
    BY DEF TypeOK, Notes
  <1>3. Numbered /\ Placed /\ Apart /\ Filtered
    BY <1>1 DEF Numbered, Placed, Apart, Filtered
  <1>4. Ordered
    BY <1>1 DEF Ordered, Increasing
  <1> QED BY <1>2, <1>3, <1>4 DEF IInv

(* Every variable keeps its type. *)
LEMMA TypesStep == IInv /\ ([Next]_vars \/ Vanish) => TypeOK'
  <1> SUFFICES ASSUME IInv, [Next]_vars \/ Vanish PROVE TypeOK'
    OBVIOUS
  <1>T. TypeOK
    BY DEF IInv
  <1>0. /\ requested \in 0..MaxNotes /\ seq \in 0..requested /\ watcher \in Seq(Notes)
        /\ event \in [Watchers -> Notes \cup {0}] /\ Notes \in SUBSET Int
        /\ Len(watcher) \in Nat
    <2>1. /\ requested \in 0..MaxNotes /\ seq \in 0..requested /\ watcher \in Seq(Notes)
          /\ event \in [Watchers -> Notes \cup {0}]
      BY <1>T DEF TypeOK
    <2> QED BY <2>1 DEF Notes
  <1>H. ASSUME NEW w \in Held PROVE event[w] \in Notes
    BY <1>0, <1>H, WatchAssumption DEF IInv, Numbered, Held, Notes
  <1> USE DEF TypeOK, store, history, Goto
  <1>1. CASE Call
    <2>1. requested + 1 \in 0..MaxNotes /\ seq \in 0..requested + 1
      BY <1>0, <1>1, WatchAssumption DEF Call
    <2> QED BY <1>T, <1>1, <2>1 DEF Call
  <1>2. CASE Create
    <2>1. /\ seq' = seq + 1 /\ seq' \in 0..requested /\ seq + 1 \in Notes
          /\ requested' = requested
      BY <1>0, <1>2, WatchAssumption DEF Create, Notes
    <2>2. watcher' \in Seq(Notes) /\ Len(watcher') <= Cap
      <3>1. CASE Len(watcher) < Cap
        BY <1>0, <1>2, <2>1, <3>1, WatchAssumption DEF Create
      <3>2. CASE ~(Len(watcher) < Cap)
        BY <1>T, <1>2, <3>2 DEF Create
      <3> QED BY <3>1, <3>2
    <2>3. tags' \in [Notes -> SUBSET Tags] /\ dropped' \in SUBSET Notes
      BY <1>T, <1>2, <2>1 DEF Create
    <2> QED BY <1>T, <1>2, <2>1, <2>2, <2>3 DEF Create
  <1>3. CASE Close \/ GracefulStop \/ Finished \/ UNCHANGED vars \/ Vanish
    BY <1>T, <1>3 DEF Close, GracefulStop, Finished, vars, Vanish
  <1>4. ASSUME NEW w \in Watchers, NEW f \in Tags \cup {NoFilter}, Subscribe(w, f)
        PROVE  TypeOK'
    <2>1. seq \in 0..MaxNotes
      BY <1>0, WatchAssumption
    <2> QED BY <1>T, <1>4, <2>1 DEF Subscribe
  <1>5. ASSUME NEW w \in Watchers, Disconnect(w) \/ StreamDone(w) PROVE TypeOK'
    BY <1>T, <1>5 DEF Disconnect, StreamDone
  <1>6. ASSUME NEW w \in Watchers, Receive(w) PROVE TypeOK'
    <2>0. /\ Increasing(watcher) /\ watcher # <<>> /\ watcher' = Tail(watcher)
          /\ Len(watcher) <= Cap
      BY <1>T, <1>6 DEF Receive, IInv, Ordered
    <2>1. watcher' \in Seq(Notes) /\ Head(watcher) \in Notes /\ Len(watcher') <= Cap
      BY <1>0, <2>0, TailGreater, WatchAssumption
    <2> QED BY <1>T, <1>6, <2>1 DEF Receive
  <1>7. ASSUME NEW w \in Watchers, Skip(w) \/ SendFails(w) PROVE TypeOK'
    <2>1. w \in Held
      BY <1>7 DEF Skip, SendFails, Held
    <2> QED BY <1>T, <1>H, <1>7, <2>1 DEF Skip, SendFails
  <1>8. ASSUME NEW w \in Watchers, Send(w) PROVE TypeOK'
    <2>1. event[w] \in Notes
      BY <1>H, <1>8 DEF Send, Held
    <2>2. sent[w] \in Seq(Notes)
      BY <1>T
    <2>3. Append(sent[w], event[w]) \in Seq(Notes)
      BY <2>1, <2>2
    <2> QED BY <1>T, <1>8, <2>3 DEF Send
  <1> QED BY <1>1, <1>2, <1>3, <1>4, <1>5, <1>6, <1>7, <1>8 DEF Next, Client, Handler

-----------------------------------------------------------------------------
Whereabouts == Numbered /\ Placed /\ Apart /\ Ordered /\ Filtered

(* Steps that move no event: calls, subscriptions, and clients that go. *)
Quiet == /\ UNCHANGED <<store, watcher, event, skipped, lost, sent>>
         /\ \A w \in Watchers : pc'[w] = "send" <=> pc[w] = "send"
         /\ \A w \in Watchers : pc'[w] = "off" => pc[w] = "off"
         /\ \A w \in Watchers : filter'[w] = filter[w] \/ pc[w] = "off"

LEMMA QuietStep == IInv /\ Quiet => Whereabouts'
  <1> SUFFICES ASSUME IInv, Quiet PROVE Whereabouts'
    OBVIOUS
  <1>1. /\ Held' = Held /\ Queued' = Queued /\ GivenUp' = GivenUp
        /\ \A w \in Watchers : SentBy(w)' = SentBy(w)
        /\ seq' = seq /\ tags' = tags /\ event' = event /\ watcher' = watcher /\ sent' = sent
        /\ dropped' = dropped /\ skipped' = skipped /\ lost' = lost
    BY DEF Quiet, Held, Queued, GivenUp, SentBy, store
  <1>2. Numbered' /\ Placed'
    BY <1>1 DEF IInv, Numbered, Placed
  <1>3. Apart'
    BY <1>1 DEF IInv, Apart
  <1>4. Ordered'
    BY <1>1 DEF IInv, Ordered
  <1>5. \A w \in Watchers : pc[w] = "off" => SentBy(w) = {}
    BY DEF IInv, Filtered, SentBy, ToSet
  <1>6. Filtered'
    BY <1>1, <1>5 DEF IInv, Filtered, Quiet
  <1> QED BY <1>2, <1>3, <1>4, <1>6 DEF Whereabouts

(* A created note's event is queued, or dropped for lack of room. *)
LEMMA CreateStep == IInv /\ Create => Whereabouts'
  <1> SUFFICES ASSUME IInv, Create PROVE Whereabouts'
    OBVIOUS
  <1> DEFINE e == seq + 1
  <1>0. /\ seq \in Nat /\ e \in Notes /\ seq' = e /\ Notes \in SUBSET Int
        /\ watcher \in Seq(Notes)
    <2>1. /\ requested \in 0..MaxNotes /\ seq \in 0..requested /\ watcher \in Seq(Notes)
      BY DEF IInv, TypeOK
    <2> QED BY <2>1, WatchAssumption DEF Create, Notes
  <1>1. /\ Held' = Held /\ \A w \in Watchers : SentBy(w)' = SentBy(w)
        /\ event' = event /\ sent' = sent /\ skipped' = skipped /\ lost' = lost
        /\ filter' = filter /\ pc' = pc
        /\ \A k \in 1..seq : tags'[k] = tags[k]
    <2>1. tags \in [Notes -> SUBSET Tags]
      BY DEF IInv, TypeOK
    <2>2. \A k \in 1..seq : k \in Notes /\ k # e
      BY <1>0, WatchAssumption DEF Notes
    <2> QED BY <2>1, <2>2 DEF Create, Held, SentBy, history
  <1>2. /\ e \notin Queued \cup GivenUp
        /\ \A x \in Queued : x < e
        /\ \A w \in Held : event[w] < e
        /\ \A w \in Watchers : \A x \in SentBy(w) : x < e
        /\ \A k \in 1..e : k \in 1..seq \/ k = e
        /\ 1..seq \subseteq 1..e /\ e \in 1..e
    BY <1>0 DEF IInv, Numbered
  <1>3. \/ /\ Queued' = Queued \cup {e} /\ Increasing(watcher')
           /\ dropped' = dropped /\ GivenUp' = GivenUp
        \/ /\ Queued' = Queued /\ Increasing(watcher')
           /\ dropped' = dropped \cup {e} /\ GivenUp' = GivenUp \cup {e}
    <2>1. CASE Len(watcher) < Cap
      <3>1. watcher' = Append(watcher, e) /\ dropped' = dropped
        BY <2>1 DEF Create
      <3>2. ToSet(watcher') = Queued \cup {e} /\ Increasing(watcher')
        BY <1>0, <1>2, <3>1, AppendGreater DEF IInv, Ordered, Queued
      <3> QED BY <1>1, <3>1, <3>2 DEF Queued, GivenUp
    <2>2. CASE ~(Len(watcher) < Cap)
      BY <1>1, <2>2 DEF Create, IInv, Ordered, Queued, GivenUp
    <2> QED BY <2>1, <2>2
  <1> HIDE DEF e
  <1>4. Numbered'
    BY <1>0, <1>1, <1>2, <1>3 DEF IInv, Numbered
  <1>5. Placed'
    BY <1>0, <1>1, <1>2, <1>3 DEF IInv, Placed
  <1>6. Apart'
    <2>1. e \notin dropped /\ e \notin skipped /\ e \notin lost
      BY <1>2 DEF GivenUp
    <2>2. \A w \in Held : event[w] # e
      BY <1>2 DEF IInv, Numbered
    <2>3. \A w \in Watchers : e \notin SentBy(w)
      BY <1>2
    <2> QED BY <1>1, <1>2, <1>3, <2>1, <2>2, <2>3 DEF IInv, Apart
  <1>7. Ordered'
    BY <1>1, <1>2, <1>3 DEF IInv, Ordered
  <1>8. Filtered'
    BY <1>1 DEF IInv, Filtered, Numbered
  <1> QED BY <1>4, <1>5, <1>6, <1>7, <1>8 DEF Whereabouts

(* A handler takes the oldest event of the channel into its hands. *)
LEMMA ReceiveStep == ASSUME IInv, NEW w \in Watchers, Receive(w) PROVE Whereabouts'
  <1> DEFINE e == Head(watcher)
  <1>0. /\ watcher \in Seq(Notes) /\ Notes \in SUBSET Int /\ watcher # <<>>
        /\ watcher' = Tail(watcher) /\ Increasing(watcher)
        /\ event \in [Watchers -> Notes \cup {0}] /\ pc[w] = "select" /\ event'[w] = e
        /\ \A v \in Watchers \ {w} : event'[v] = event[v]
    <2>1. Notes \in SUBSET Int
      BY DEF Notes
    <2> QED BY <2>1 DEF IInv, TypeOK, Ordered, Receive, Goto
  <1>1. /\ e \in Queued /\ Queued' = Queued \ {e} /\ Increasing(watcher')
        /\ \A x \in Queued' : e < x
    BY <1>0, TailGreater DEF Queued
  <1>2. /\ Held' = Held \cup {w} /\ w \notin Held /\ Held \subseteq Watchers
        /\ \A v \in Watchers : SentBy(v)' = SentBy(v)
        /\ GivenUp' = GivenUp /\ dropped' = dropped /\ skipped' = skipped /\ lost' = lost
        /\ sent' = sent /\ seq' = seq /\ tags' = tags /\ filter' = filter
    <2>1. pc \in [Watchers -> {"off", "select", "send", "ended"}]
      BY DEF IInv, TypeOK
    <2> QED BY <2>1 DEF Receive, Goto, Held, SentBy, GivenUp, store, history
  <1> HIDE DEF e
  <1>3. Numbered'
    BY <1>0, <1>1, <1>2 DEF IInv, Numbered
  <1>4. Placed'
    BY <1>0, <1>1, <1>2 DEF IInv, Placed
  <1>5. Apart'
    <2>1. /\ e \notin GivenUp /\ \A v \in Watchers : e \notin SentBy(v)
          /\ \A v \in Held : event[v] # e
      BY <1>1, <1>2 DEF IInv, Apart
    <2> QED BY <1>0, <1>1, <1>2, <2>1 DEF IInv, Apart
  <1>6. Ordered'
    BY <1>0, <1>1, <1>2 DEF IInv, Ordered
  <1>7. Filtered'
    BY <1>0, <1>2 DEF IInv, Filtered, Receive, Goto, TypeOK
  <1> QED BY <1>3, <1>4, <1>5, <1>6, <1>7 DEF Whereabouts

(* A handler gives up the event in its hands. *)
LEMMA GiveUpStep ==
  ASSUME IInv, NEW w \in Watchers, Skip(w) \/ SendFails(w) PROVE Whereabouts'
  <1> DEFINE e == event[w]
  <1>1. /\ Held' = Held \ {w} /\ w \in Held /\ Held \subseteq Watchers
        /\ \A v \in Watchers : pc[v] = "off" <=> pc'[v] = "off"
    <2>1. pc \in [Watchers -> {"off", "select", "send", "ended"}]
      BY DEF IInv, TypeOK
    <2> QED BY <2>1 DEF Skip, SendFails, Goto, Held
  <1>2. /\ Queued' = Queued /\ \A v \in Watchers : SentBy(v)' = SentBy(v)
        /\ watcher' = watcher /\ sent' = sent /\ seq' = seq /\ tags' = tags
        /\ filter' = filter /\ event' = event
        /\ dropped' = dropped /\ GivenUp' = GivenUp \cup {e}
        /\ \/ skipped' = skipped \cup {e} /\ lost' = lost
           \/ skipped' = skipped /\ lost' = lost \cup {e}
    BY DEF Skip, SendFails, Queued, SentBy, GivenUp, store
  <1>3. /\ e \notin Queued \cup GivenUp /\ \A v \in Watchers : e \notin SentBy(v)
        /\ \A v \in Held' : event[v] # e
        /\ e \notin dropped /\ e \notin skipped /\ e \notin lost
    BY <1>1 DEF IInv, Apart, GivenUp
  <1> HIDE DEF e
  <1>4. Numbered'
    BY <1>1, <1>2 DEF IInv, Numbered, e
  <1>5. Placed'
    BY <1>1, <1>2 DEF IInv, Placed, e
  <1>6. Apart'
    BY <1>1, <1>2, <1>3 DEF IInv, Apart
  <1>7. Ordered'
    BY <1>1, <1>2 DEF IInv, Ordered
  <1>8. Filtered'
    BY <1>1, <1>2 DEF IInv, Filtered
  <1> QED BY <1>4, <1>5, <1>6, <1>7, <1>8 DEF Whereabouts

(* A handler delivers the event in its hands. *)
LEMMA SendStep == ASSUME IInv, NEW w \in Watchers, Send(w) PROVE Whereabouts'
  <1> DEFINE e == event[w]
  <1>1. /\ Held' = Held \ {w} /\ w \in Held /\ Held \subseteq Watchers
        /\ \A v \in Watchers : pc[v] = "off" <=> pc'[v] = "off"
        /\ pc[w] = "send"
    <2>1. pc \in [Watchers -> {"off", "select", "send", "ended"}]
      BY DEF IInv, TypeOK
    <2> QED BY <2>1 DEF Send, Goto, Held
  <1>2. /\ Queued' = Queued /\ GivenUp' = GivenUp
        /\ watcher' = watcher /\ seq' = seq /\ tags' = tags
        /\ filter' = filter /\ event' = event
        /\ dropped' = dropped /\ skipped' = skipped /\ lost' = lost
    BY DEF Send, Queued, GivenUp, store
  <1>3. sent \in [Watchers -> Seq(Notes)] /\ seq \in 0..MaxNotes
    <2>1. sent \in [Watchers -> Seq(Notes)] /\ requested \in 0..MaxNotes /\ seq \in 0..requested
      BY DEF IInv, TypeOK
    <2> QED BY <2>1, WatchAssumption
  <1>4. e \in 1..seq /\ e \in Notes /\ sent[w] \in Seq(Notes) /\ Notes \in SUBSET Int
    BY <1>1, <1>3, WatchAssumption DEF IInv, Numbered, Notes
  <1>5. /\ sent'[w] = Append(sent[w], e)
        /\ \A v \in Watchers \ {w} : sent'[v] = sent[v]
    BY <1>3 DEF Send
  <1>6. /\ \A x \in SentBy(w) : x < e
        /\ \A v \in Watchers : Increasing(sent[v])
        /\ \A x \in Queued : e < x
    BY <1>1 DEF IInv, Ordered
  <1>7. /\ SentBy(w)' = SentBy(w) \cup {e}
        /\ \A v \in Watchers \ {w} : SentBy(v)' = SentBy(v)
        /\ \A v \in Watchers : Increasing(sent'[v])
    <2>1. /\ ToSet(sent'[w]) = ToSet(sent[w]) \cup {e}
          /\ Increasing(sent'[w])
      BY <1>4, <1>5, <1>6, AppendGreater DEF SentBy
    <2> QED BY <1>5, <1>6, <2>1 DEF SentBy
  <1>8. /\ e \notin Queued \cup GivenUp /\ \A v \in Watchers : e \notin SentBy(v)
        /\ \A v \in Held' : event[v] # e
    BY <1>1 DEF IInv, Apart
  <1>9. filter[w] # NoFilter => filter[w] \in tags[e]
    BY DEF Send, Passes
  <1> HIDE DEF e
  <1>10. Numbered'
    BY <1>1, <1>2, <1>4, <1>7 DEF IInv, Numbered
  <1>11. Placed'
    BY <1>1, <1>2, <1>7 DEF IInv, Placed, e
  <1>12. Apart'
    BY <1>1, <1>2, <1>7, <1>8 DEF IInv, Apart
  <1>13. Ordered'
    BY <1>1, <1>2, <1>6, <1>7 DEF IInv, Ordered
  <1>14. Filtered'
    BY <1>1, <1>2, <1>5, <1>7, <1>9 DEF IInv, Filtered
  <1> QED BY <1>10, <1>11, <1>12, <1>13, <1>14 DEF Whereabouts

-----------------------------------------------------------------------------
LEMMA IInvStep == IInv /\ ([Next]_vars \/ Vanish) => IInv'
  <1> SUFFICES ASSUME IInv, [Next]_vars \/ Vanish PROVE Whereabouts'
    BY TypesStep DEF IInv, Whereabouts
  <1>0. pc \in [Watchers -> {"off", "select", "send", "ended"}]
        /\ filter \in [Watchers -> Tags \cup {NoFilter}]
    BY DEF IInv, TypeOK
  <1>1. CASE Call \/ Close \/ GracefulStop \/ Finished \/ UNCHANGED vars \/ Vanish
    <2>1. Quiet
      BY <1>1 DEF Call, Close, GracefulStop, Finished, vars, Vanish, Quiet, store, history
    <2> QED BY <2>1, QuietStep
  <1>2. CASE Create
    BY <1>2, CreateStep
  <1>3. ASSUME NEW w \in Watchers, Client(w) \/ StreamDone(w) PROVE Whereabouts'
    <2>1. Quiet
      BY <1>0, <1>3 DEF Client, Subscribe, Disconnect, StreamDone, Goto, Quiet, store, history
    <2> QED BY <2>1, QuietStep
  <1>4. ASSUME NEW w \in Watchers, Receive(w) \/ Skip(w) \/ Send(w) \/ SendFails(w)
        PROVE  Whereabouts'
    BY <1>4, ReceiveStep, GiveUpStep, SendStep
  <1> QED BY <1>1, <1>2, <1>3, <1>4 DEF Next, Handler

(* The strengthened invariant holds in every run of the service ...        *)
THEOREM Invariance == Spec => []IInv
  <1>1. IInv /\ [Next]_vars => IInv'
    BY IInvStep
  <1> QED BY InitIInv, <1>1, PTL DEF Spec

(* Under the program's own client too, whose watchCancel is the one step   *)
(* that is not a step of the service by itself.                            *)
DriverSpec == DInit /\ [][DStep \/ DOutside]_<<vars, dvars>>

(* ... and when its requests come from main, the client.                   *)
THEOREM DriverInvariance == DriverSpec => []IInv
  <1>1. DInit => IInv
    BY InitIInv DEF DInit
  <1>2. IInv /\ [DStep \/ DOutside]_<<vars, dvars>> => IInv'
    <2> SUFFICES ASSUME IInv, [DStep \/ DOutside]_<<vars, dvars>>
                 PROVE  [Next]_vars \/ Vanish
      BY IInvStep
    <2>1. CASE Open \/ Created \/ Fetch \/ FetchMissing \/ Wait \/ Recv \/ RecvFails \/ Fails
      BY <2>1 DEF Open, Created, Fetch, FetchMissing, Wait, Recv, RecvFails, Fails
    <2>2. CASE CallCreate \/ CloseConn \/ Stop \/ Break \/ Serve
      BY <2>2, StreamAssumption
         DEF CallCreate, CloseConn, Stop, Break, Serve, Next, Client
    <2>3. CASE WatchCancel
      BY <2>3, StreamAssumption DEF WatchCancel, Vanish, Ours
    <2>4. CASE UNCHANGED <<vars, dvars>>
      BY <2>4
    <2> QED BY <2>1, <2>2, <2>3, <2>4 DEF DStep, DOutside
  <1> QED BY <1>1, <1>2, PTL DEF DriverSpec

-----------------------------------------------------------------------------
(* An increasing sequence repeats nothing. *)
LEMMA IncreasingInjective ==
  ASSUME NEW S \in SUBSET Int, NEW q \in Seq(S), Increasing(q)
  PROVE  IsInjective(q)
  <1> SUFFICES ASSUME NEW i \in DOMAIN q, NEW j \in DOMAIN q, q[i] = q[j], i # j
               PROVE  FALSE
    BY DEF IsInjective
  <1>1. i \in Int /\ j \in Int /\ q[i] \in S
    OBVIOUS
  <1>2. q[i] \in Int
    BY <1>1
  <1>3. i < j \/ j < i
    BY <1>1
  <1> QED BY <1>2, <1>3 DEF Increasing

LEMMA Counted == IInv => \A e \in 1..seq : Places(e) = 1
  <1> SUFFICES ASSUME IInv, NEW e \in 1..seq PROVE Places(e) = 1
    OBVIOUS
  <1> DEFINE H == {w \in Held : event[w] = e}
             R == {w \in Watchers : e \in ToSet(sent[w])}
  <1>1. \A v, w \in H : v = w
    BY DEF IInv, Apart
  <1>2. \A v, w \in R : v = w
    BY DEF IInv, Apart, SentBy
  <1>3. Cardinality(H) = IF H = {} THEN 0 ELSE 1
    <2>1. ASSUME NEW w \in H PROVE H = {w}
      BY <1>1, <2>1
    <2> HIDE DEF H
    <2> QED BY <2>1, FS_EmptySet, FS_Singleton
  <1>4. Cardinality(R) = IF R = {} THEN 0 ELSE 1
    <2>1. ASSUME NEW w \in R PROVE R = {w}
      BY <1>2, <2>1
    <2> HIDE DEF R
    <2> QED BY <2>1, FS_EmptySet, FS_Singleton
  <1>5. \/ e \in Queued \cup GivenUp
        \/ H # {}
        \/ R # {}
    BY DEF IInv, Placed, SentBy
  <1>6. /\ H # {} => e \notin Queued \cup GivenUp /\ R = {}
        /\ R # {} => e \notin Queued \cup GivenUp
    BY DEF IInv, Apart, SentBy
  <1>7. /\ ~(e \in Queued /\ e \in GivenUp)
        /\ ~(e \in dropped /\ e \in skipped) /\ ~(e \in dropped /\ e \in lost)
        /\ ~(e \in skipped /\ e \in lost)
    BY DEF IInv, Apart
  <1>8. Places(e) = One(e \in Queued) + One(e \in dropped) + One(e \in skipped)
                    + One(e \in lost) + Cardinality(H) + Cardinality(R)
    BY DEF Places, Queued
  <1> HIDE DEF H, R
  <1> QED BY <1>3, <1>4, <1>5, <1>6, <1>7, <1>8 DEF One, GivenUp

LEMMA IInvImplies == IInv => Accounted /\ Delivery
  <1> SUFFICES ASSUME IInv PROVE Accounted /\ Delivery
    OBVIOUS
  <1>1. /\ watcher \in Seq(Notes) /\ \A w \in Watchers : sent[w] \in Seq(Notes)
        /\ Notes \in SUBSET Int
    <2>1. Notes \in SUBSET Int
      BY DEF Notes
    <2> QED BY <2>1 DEF IInv, TypeOK
  <1>2. IsInjective(watcher) /\ \A w \in Watchers : IsInjective(sent[w])
    BY <1>1, IncreasingInjective DEF IInv, Ordered
  <1>3. Accounted
    BY <1>2, Counted DEF IInv, Accounted
  <1>4. Delivery
    BY DEF IInv, Ordered, Filtered, Delivery, Increasing, SentBy, ToSet
  <1> QED BY <1>3, <1>4

(* Every created event is queued, in one handler's hands, delivered to one *)
(* stream, or given up for one of the three reasons, and never twice.      *)
THEOREM EachEventOnce == Spec => []Accounted
  <1> QED BY Invariance, IInvImplies, PTL

(* Each stream delivers in creation order what its filter lets by.         *)
THEOREM InOrder == Spec => []Delivery
  <1> QED BY Invariance, IInvImplies, PTL

(* Both hold for the program as it is run, main and its reader included.   *)
THEOREM DriverSafe == DriverSpec => [](Accounted /\ Delivery)
  <1> QED BY DriverInvariance, IInvImplies, PTL

-----------------------------------------------------------------------------
(* With a single stream the protocol's promise holds: what a connected     *)
(* stream without a filter misses was dropped for lack of room.  It is     *)
(* sharing the channel that breaks it.                                     *)
Sole == /\ skipped # {} => pc[Stream] # "off" /\ filter[Stream] # NoFilter
        /\ lost # {} => pc[Stream] = "ended"

THEOREM SoleStreamSeesAll ==
  ASSUME Watchers = {Stream}
  PROVE  Spec => []AllNotesSeen
  <1>1. Init => Sole
    BY DEF Init, Sole
  <1>2. IInv /\ Sole /\ [Next]_vars => Sole'
    <2> SUFFICES ASSUME IInv, Sole, [Next]_vars PROVE Sole'
      OBVIOUS
    <2> USE DEF Sole, store, history, Goto
    <2>0. /\ pc \in [Watchers -> {"off", "select", "send", "ended"}]
          /\ filter \in [Watchers -> Tags \cup {NoFilter}]
      BY DEF IInv, TypeOK
    <2>1. CASE Call \/ Create \/ Close \/ GracefulStop \/ Finished \/ UNCHANGED vars
      BY <2>1 DEF Call, Create, Close, GracefulStop, Finished, vars
    <2>2. ASSUME NEW w \in Watchers, Client(w) PROVE Sole'
      BY <2>0, <2>2 DEF Client, Subscribe, Disconnect
    <2>3. ASSUME NEW w \in Watchers, Receive(w) \/ Send(w) \/ StreamDone(w) PROVE Sole'
      BY <2>0, <2>3 DEF Receive, Send, StreamDone
    <2>4. ASSUME NEW w \in Watchers, Skip(w) \/ SendFails(w) PROVE Sole'
      BY <2>0, <2>4 DEF Skip, SendFails, Passes
    <2> QED BY <2>1, <2>2, <2>3, <2>4 DEF Next, Handler
  <1>3. IInv /\ Sole => AllNotesSeen
    <2> SUFFICES ASSUME IInv, Sole, NEW w \in Watchers,
                        pc[w] = "select", filter[w] = NoFilter, watcher = <<>>, Held = {},
                        NEW e \in since[w] + 1..seq
                 PROVE  e \in dropped \/ e \in ToSet(sent[w])
      BY DEF AllNotesSeen
    <2>1. w = Stream /\ skipped = {} /\ lost = {} /\ Queued = {}
      BY DEF Sole, Queued, ToSet
    <2>2. e \in 1..seq
      <3>1. since \in [Watchers -> 0..MaxNotes]
        BY DEF IInv, TypeOK
      <3>2. since[w] \in 0..MaxNotes
        BY <3>1
      <3> QED BY <3>2, WatchAssumption
    <2> QED BY <2>1, <2>2 DEF IInv, Placed, GivenUp, SentBy
  <1> QED BY <1>1, <1>2, <1>3, Invariance, PTL DEF Spec

=============================================================================
