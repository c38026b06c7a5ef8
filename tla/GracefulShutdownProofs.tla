----------------------- MODULE GracefulShutdownProofs -----------------------
(***************************************************************************)
(* The shutdown of the notes server for any finite set of clients: how it  *)
(* exits, whom it has served by then, and that its handlers over memRepo   *)
(* implement ItemStore.  The argument: runServer enters the drain before   *)
(* anything else may close the listener, and under the lock the next ID is *)
(* one more than the notes there are.                                      *)
(***************************************************************************)
EXTENDS GracefulShutdown, FiniteSetTheorems, TLAPS

\* What runServer, its server goroutine and Shutdown know of each other.
Lifecycle ==
    /\ main = "select" => ~inShutdown
    /\ main \in {"draining", "exit 0"} => inShutdown
    /\ inShutdown => signalled
    /\ serverErr = "ErrServerClosed" => inShutdown
    /\ serverErr # "empty" => serve = "ended"
    /\ main = "exit 0" => Idle
    /\ main = "exit 1" => expired \/ (serve = "ended" /\ ~inShutdown)

Stored == {r \in Requests : answer[r].status = 201}

\* memRepo: one creator at a time, and its ID is the next one.
Serial == /\ \A r \in Requests : mu = r <=> pc[r] = "store"
          /\ \A r \in Requests : pc[r] = "store" => id[r] = seq + 1
          /\ DOMAIN notes = 1..seq
          /\ seq = Cardinality(Stored)

\* Nobody is answered twice.
Waiting == {"none", "new", "body", "mint", "store", "get"}
Pending == \A r \in Requests : pc[r] \in Waiting => answer[r] = Store!None

\* As TypeOK; the answers are records, and a note's creator is a client.
Answers == UNION {{Store!None}, {Store!Failure(400), Store!Failure(404)},
                  {Store!Created(r, i) : r \in Requests, i \in Ids},
                  {Store!Found(r, i) : r \in Requests, i \in Ids}}

IInv == TypeOK /\ answer \in [Requests -> Answers] /\ Lifecycle /\ Serial /\ Pending

-----------------------------------------------------------------------------
(* Sets of clients are finite; one more member counts one more. *)
LEMMA RequestCount ==
  ASSUME NEW P \in SUBSET Requests
  PROVE  /\ IsFiniteSet(P) /\ Cardinality(P) \in 0..Cardinality(Requests)
         /\ Cardinality(Requests) \in Nat
         /\ \A r \in Requests \ P : /\ Cardinality(P \cup {r}) = Cardinality(P) + 1
                                    /\ Cardinality(P) + 1 \in Ids
  <1>1. IsFiniteSet(P) /\ Cardinality(P) <= Cardinality(Requests)
    BY RequestsAssumption, FS_Subset
  <1>2. Cardinality(P) \in Nat /\ Cardinality(Requests) \in Nat
    BY <1>1, RequestsAssumption, FS_CardinalityType
  <1>3. ASSUME NEW r \in Requests \ P
        PROVE  /\ Cardinality(P \cup {r}) = Cardinality(P) + 1
               /\ Cardinality(P) + 1 \in Ids
    <2>1. Cardinality(P \cup {r}) = Cardinality(P) + 1
      BY <1>1, FS_AddElement
    <2>2. P \cup {r} \in SUBSET Requests
      OBVIOUS
    <2>3. Cardinality(P \cup {r}) <= Cardinality(Requests)
      BY <2>2, RequestsAssumption, FS_Subset
    <2> QED BY <1>2, <2>1, <2>3 DEF Ids
  <1> QED BY <1>1, <1>2, <1>3

(* What an answer's status says. *)
LEMMA Statuses ==
  /\ Store!None.status = 0 /\ \A c : Store!Failure(c).status = c
  /\ \A r, i : Store!Created(r, i).status = 201 /\ Store!Found(r, i).status = 200
  /\ \A a \in Answers : a.status \in {0, 400, 201, 200, 404}
  /\ Store!None \in Answers /\ Store!Failure(400) \in Answers /\ Store!Failure(404) \in Answers
  /\ \A r \in Requests, i \in Ids : Store!Created(r, i) \in Answers /\ Store!Found(r, i) \in Answers
  <1>1. /\ Store!None.status = 0 /\ \A c : Store!Failure(c).status = c
        /\ \A r, i : Store!Created(r, i).status = 201 /\ Store!Found(r, i).status = 200
    BY DEF Store!None, Store!Failure, Store!Created, Store!Found
  <1>2. /\ Store!None \in Answers /\ Store!Failure(400) \in Answers /\ Store!Failure(404) \in Answers
        /\ \A r \in Requests, i \in Ids : Store!Created(r, i) \in Answers /\ Store!Found(r, i) \in Answers
    BY DEF Answers
  <1>3. ASSUME NEW a \in Answers PROVE a.status \in {0, 400, 201, 200, 404}
    <2>1. \/ a = Store!None \/ a = Store!Failure(400) \/ a = Store!Failure(404)
          \/ \E r \in Requests, i \in Ids : a = Store!Created(r, i) \/ a = Store!Found(r, i)
      BY DEF Answers
    <2> QED BY <1>1, <2>1
  <1> QED BY <1>1, <1>2, <1>3

\* TypeOK in three parts: those of runServer, of the connections, of memRepo.
ServerTypes == /\ main \in {"select", "draining", "exit 0", "exit 1"}
               /\ signalled \in BOOLEAN /\ inShutdown \in BOOLEAN /\ expired \in BOOLEAN
               /\ serve \in {"starting", "accepting", "ended"}
               /\ serverErr \in {"empty", "failure", "ErrServerClosed"}

ConnectionTypes == /\ kind \in [Requests -> Kinds]
                   /\ pc \in [Requests -> {"none", "new", "body", "mint", "store", "get",
                                           "reply", "closed"}]
                   /\ \A r \in Requests : answer[r].status \in {0, 400, 201, 200, 404}
                   /\ gone \in SUBSET Requests /\ cancelled \in SUBSET Requests

RepoTypes == /\ mu \in Requests \cup {NoOne}
             /\ seq \in 0..Cardinality(Requests)
             /\ DOMAIN notes \subseteq Ids /\ \A i \in DOMAIN notes : notes[i] \in Requests
             /\ id \in [Requests -> 0..Cardinality(Requests)]

LEMMA Types == /\ TypeOK <=> ServerTypes /\ ConnectionTypes /\ RepoTypes
               /\ TypeOK' <=> ServerTypes' /\ ConnectionTypes' /\ RepoTypes'
  <1>1. TypeOK <=> ServerTypes /\ ConnectionTypes /\ RepoTypes
    BY ZenonT(60) DEF TypeOK, ServerTypes, ConnectionTypes, RepoTypes
  <1>2. TypeOK' <=> ServerTypes' /\ ConnectionTypes' /\ RepoTypes'
    BY ZenonT(60) DEF TypeOK, ServerTypes, ConnectionTypes, RepoTypes
  <1> QED BY <1>1, <1>2

LEMMA InitIInv == Init => IInv
  <1> SUFFICES ASSUME Init PROVE IInv
    OBVIOUS
  <1> USE DEF Init
  <1>1. Cardinality(Requests) \in Nat
    BY RequestCount
  <1>2. answer \in [Requests -> Answers] /\ \A r \in Requests : answer[r].status = 0
    BY Statuses
  <1>3. TypeOK
    <2>1. DOMAIN notes = {} /\ 0 \in 0..Cardinality(Requests)
      BY <1>1
    <2> QED BY <1>1, <1>2, <2>1 DEF TypeOK
  <1>4. Lifecycle /\ Pending
    BY DEF Lifecycle, Pending
  <1>5. Serial
    <2>1. Stored = {} /\ Cardinality({}) = 0
      BY <1>2, FS_EmptySet DEF Stored
    <2>2. DOMAIN notes = 1..0
      OBVIOUS
    <2> QED BY <2>1, <2>2, NoOneAssumption DEF Serial
  <1> QED BY <1>2, <1>3, <1>4, <1>5 DEF IInv

-----------------------------------------------------------------------------
(* The steps of runServer and of the goroutine around ListenAndServe. *)
ServerSide == Server \/ ServeFails \/ Signal

(* The connections, except for the two steps of memRepo.Create. *)
Plain(r) == Accept(r) \/ Header(r) \/ NoHeader(r) \/ Decode(r) \/ DecodeFails(r)
            \/ Get(r) \/ Reply(r) \/ Disconnect(r)

LEMMA ServerSideStep == IInv /\ ServerSide => IInv'
  <1> SUFFICES ASSUME IInv, ServerSide PROVE IInv'
    OBVIOUS
  <1>1. UNCHANGED <<conns, repo>>
    BY DEF ServerSide, Server, ServeFails, Signal, Listen, ServeCloses, SelectError,
           SelectSignal, Drained, Expire, GiveUp, net
  <1>2. Serial' /\ Pending' /\ answer' \in [Requests -> Answers] /\ Idle' = Idle
    BY <1>1 DEF IInv, Serial, Pending, Stored, Idle, conns, repo
  <1>3. ServerTypes
    BY Types DEF IInv
  <1>4. ASSUME Listen PROVE ServerTypes' /\ Lifecycle'
    BY <1>2, <1>3, <1>4 DEF IInv, ServerTypes, Lifecycle, Running, Exited, net, Listen
  <1>5. ASSUME ServeFails PROVE ServerTypes' /\ Lifecycle'
    BY <1>2, <1>3, <1>5 DEF IInv, ServerTypes, Lifecycle, Running, Exited, net, ServeFails
  <1>6. ASSUME ServeCloses PROVE ServerTypes' /\ Lifecycle'
    BY <1>2, <1>3, <1>6 DEF IInv, ServerTypes, Lifecycle, Running, Exited, net, ServeCloses
  <1>7. ASSUME Signal PROVE ServerTypes' /\ Lifecycle'
    BY <1>2, <1>3, <1>7 DEF IInv, ServerTypes, Lifecycle, Running, Exited, net, Signal
  <1>8. ASSUME SelectError PROVE ServerTypes' /\ Lifecycle'
    BY <1>2, <1>3, <1>8 DEF IInv, ServerTypes, Lifecycle, Running, Exited, net, SelectError
  <1>9. ASSUME SelectSignal PROVE ServerTypes' /\ Lifecycle'
    BY <1>2, <1>3, <1>9 DEF IInv, ServerTypes, Lifecycle, Running, Exited, net, SelectSignal
  <1>10. ASSUME Drained PROVE ServerTypes' /\ Lifecycle'
    BY <1>2, <1>3, <1>10 DEF IInv, ServerTypes, Lifecycle, Running, Exited, net, Drained
  <1>11. ASSUME Expire PROVE ServerTypes' /\ Lifecycle'
    BY <1>2, <1>3, <1>11 DEF IInv, ServerTypes, Lifecycle, Running, Exited, net, Expire
  <1>12. ASSUME GiveUp PROVE ServerTypes' /\ Lifecycle'
    BY <1>2, <1>3, <1>12 DEF IInv, ServerTypes, Lifecycle, Running, Exited, net, GiveUp
  <1>13. ServerTypes' /\ Lifecycle'
    BY <1>4, <1>5, <1>6, <1>7, <1>8, <1>9, <1>10, <1>11, <1>12 DEF ServerSide, Server
  <1>14. TypeOK'
    <2>1. ConnectionTypes' /\ RepoTypes'
      BY <1>1, Types DEF IInv, ConnectionTypes, RepoTypes, conns, repo
    <2> QED BY <1>13, <2>1, Types
  <1> QED BY <1>2, <1>13, <1>14 DEF IInv

(* A connection makes no progress once the process has exited, and is not  *)
(* accepted before Shutdown is called, so the drain has seen all of them.  *)
LEMMA ConnectionLifecycle ==
  ASSUME IInv, NEW r \in Requests, Running, UNCHANGED <<main, net>>
  PROVE  Lifecycle'
  BY DEF IInv, Lifecycle, Running, Exited, net, Idle

LEMMA PlainStep == ASSUME IInv, NEW r \in Requests, Plain(r) PROVE IInv'
  <1> USE DEF Goto, Waiting
  <1>0. /\ pc \in [Requests -> {"none", "new", "body", "mint", "store", "get", "reply", "closed"}]
        /\ answer \in [Requests -> Answers] /\ TypeOK
    BY DEF IInv, TypeOK
  <1>1. /\ Running /\ UNCHANGED <<main, net, repo, kind>>
        /\ pc'[r] = "store" <=> pc[r] = "store"
        /\ pc'[r] \in Waiting => pc[r] \in Waiting
        /\ \A q \in Requests \ {r} : pc'[q] = pc[q]
        /\ gone' \in SUBSET Requests /\ cancelled' \in SUBSET Requests
        /\ pc' \in [Requests -> {"none", "new", "body", "mint", "store", "get", "reply", "closed"}]
    <2>0. gone \in SUBSET Requests /\ cancelled \in SUBSET Requests
      BY <1>0 DEF TypeOK
    <2>1. CASE Accept(r) \/ NoHeader(r) \/ Reply(r)
      BY <1>0, <2>0, <2>1 DEF Accept, NoHeader, Reply
    <2>2. CASE Header(r)
      BY <1>0, <2>0, <2>2 DEF Header
    <2>3. CASE Decode(r)
      BY <1>0, <2>0, <2>3 DEF Decode
    <2>4. CASE DecodeFails(r)
      BY <1>0, <2>0, <2>4 DEF DecodeFails
    <2>5. CASE Get(r)
      BY <1>0, <2>0, <2>5 DEF Get
    <2>6. CASE Disconnect(r)
      BY <1>0, <2>0, <2>6 DEF Disconnect
    <2> QED BY <2>1, <2>2, <2>3, <2>4, <2>5, <2>6 DEF Plain
  <1>2. \/ answer' = answer
        \/ /\ pc[r] \in {"body", "get"} /\ pc'[r] = "reply"
           /\ \E a \in Answers : a.status # 201 /\ answer' = [answer EXCEPT ![r] = a]
    <2>1. CASE Accept(r) \/ Header(r) \/ NoHeader(r) \/ Reply(r) \/ Disconnect(r)
      BY <2>1 DEF Accept, Header, NoHeader, Reply, Disconnect
    <2>2. CASE Decode(r) \/ DecodeFails(r)
      BY <1>0, <2>2, Statuses DEF Decode, DecodeFails
    <2>3. CASE Get(r)
      <3>1. PICK i \in Ids : answer' = [answer EXCEPT ![r] =
                   IF i \in DOMAIN notes THEN Store!Found(notes[i], i) ELSE Store!Failure(404)]
        BY <2>3 DEF Get
      <3>2. i \in DOMAIN notes => notes[i] \in Requests
        BY <1>0 DEF TypeOK
      <3>3. \E a \in Answers : a.status # 201 /\ answer' = [answer EXCEPT ![r] = a]
        <4>1. CASE i \in DOMAIN notes
          <5>1. /\ Store!Found(notes[i], i) \in Answers /\ Store!Found(notes[i], i).status # 201
                /\ answer' = [answer EXCEPT ![r] = Store!Found(notes[i], i)]
            BY <3>1, <3>2, <4>1, Statuses
          <5> QED BY <5>1
        <4>2. CASE i \notin DOMAIN notes
          <5>1. /\ Store!Failure(404) \in Answers /\ Store!Failure(404).status # 201
                /\ answer' = [answer EXCEPT ![r] = Store!Failure(404)]
            BY <3>1, <4>2, Statuses
          <5> QED BY <5>1
        <4> QED BY <4>1, <4>2
      <3> QED BY <1>0, <2>3, <3>3 DEF Get
    <2> QED BY <2>1, <2>2, <2>3 DEF Plain
  <1>3. answer' \in [Requests -> Answers]
    BY <1>0, <1>2
  <1>4. Stored' = Stored
    <2>1. pc[r] \in {"body", "get"} => answer[r].status # 201
      BY Statuses DEF IInv, Pending
    <2> QED BY <1>0, <1>2, <2>1 DEF Stored
  <1>5. Serial'
    BY <1>1, <1>4 DEF IInv, Serial, repo
  <1>6. Pending'
    <2>1. \A q \in Requests \ {r} : answer'[q] = answer[q]
      BY <1>0, <1>2
    <2>2. pc'[r] \in Waiting => answer'[r] = Store!None
      BY <1>1, <1>2 DEF IInv, Pending
    <2> QED BY <1>1, <2>1, <2>2 DEF IInv, Pending
  <1>7. TypeOK'
    <2>1. \A q \in Requests : answer'[q].status \in {0, 400, 201, 200, 404}
      BY <1>3, Statuses
    <2>2. ServerTypes'
      BY <1>0, <1>1, Types DEF ServerTypes, net
    <2>3. RepoTypes'
      BY <1>0, <1>1, Types DEF RepoTypes, repo
    <2>4. ConnectionTypes'
      <3>1. kind \in [Requests -> Kinds]
        BY <1>0, Types DEF ConnectionTypes
      <3> QED BY <3>1, <1>1, <2>1 DEF ConnectionTypes
    <2> QED BY <2>2, <2>3, <2>4, Types
  <1>8. Lifecycle'
    BY <1>1, ConnectionLifecycle
  <1> QED BY <1>3, <1>5, <1>6, <1>7, <1>8 DEF IInv

(* Under the lock, memRepo.Create takes the next ID ... *)
LEMMA MintStep == ASSUME IInv, NEW r \in Requests, Mint(r) PROVE IInv'
  <1> USE DEF Goto
  <1>0. /\ pc \in [Requests -> {"none", "new", "body", "mint", "store", "get", "reply", "closed"}]
        /\ id \in [Requests -> 0..Cardinality(Requests)] /\ TypeOK
    BY DEF IInv, TypeOK
  <1>1. /\ pc[r] = "mint" /\ pc'[r] = "store" /\ id'[r] = seq + 1
        /\ \A q \in Requests \ {r} : pc'[q] = pc[q] /\ id'[q] = id[q]
        /\ \A q \in Requests : pc[q] # "store"
        /\ mu' = r /\ UNCHANGED <<seq, notes, answer, main, net, kind, gone, cancelled>>
    BY <1>0, NoOneAssumption DEF Mint, IInv, Serial
  <1>2. r \notin Stored /\ Stored \in SUBSET Requests
    BY <1>1, Statuses DEF IInv, Pending, Waiting, Stored
  <1>3. seq + 1 \in Ids
    BY <1>2, RequestCount DEF IInv, Serial
  <1>4. Stored' = Stored
    BY <1>1 DEF Stored
  <1>5. Serial'
    BY <1>1, <1>4 DEF IInv, Serial
  <1>6. Pending' /\ answer' \in [Requests -> Answers]
    BY <1>1 DEF IInv, Pending, Waiting
  <1>7. TypeOK'
    <2>0. TypeOK /\ ServerTypes /\ ConnectionTypes /\ RepoTypes
      BY Types DEF IInv
    <2>1. seq + 1 \in 0..Cardinality(Requests)
      BY <1>3, RequestCount DEF Ids
    <2>2. ServerTypes'
      BY <2>0 DEF Mint, ServerTypes, net
    <2>3. ConnectionTypes'
      BY <2>0 DEF Mint, ConnectionTypes, net
    <2>4. RepoTypes'
      BY <2>0, <2>1 DEF Mint, RepoTypes
    <2> QED BY <2>2, <2>3, <2>4, Types
  <1>8. Lifecycle'
    BY <1>1, ConnectionLifecycle DEF Mint
  <1> QED BY <1>5, <1>6, <1>7, <1>8 DEF IInv

(* ... and stores its note under it. *)
LEMMA PutStep == ASSUME IInv, NEW r \in Requests, Put(r) PROVE IInv'
  <1> USE DEF Goto
  <1>0. /\ pc \in [Requests -> {"none", "new", "body", "mint", "store", "get", "reply", "closed"}]
        /\ answer \in [Requests -> Answers] /\ TypeOK /\ seq \in Nat
    <2>1. seq \in 0..Cardinality(Requests)
      BY DEF IInv, TypeOK
    <2>2. Cardinality(Requests) \in Nat
      BY RequestsAssumption, FS_CardinalityType
    <2>3. seq \in Nat
      BY <2>1, <2>2
    <2> QED BY <2>3, Types DEF IInv, ConnectionTypes
  <1>1. /\ pc[r] = "store" /\ pc'[r] = "reply" /\ id[r] = seq + 1
        /\ \A q \in Requests \ {r} : pc'[q] = pc[q] /\ pc[q] # "store"
        /\ mu' = NoOne /\ seq' = seq + 1 /\ id' = id
        /\ UNCHANGED <<main, net, kind, gone, cancelled>>
    BY <1>0 DEF Put, IInv, Serial
  <1>2. r \notin Stored /\ Stored \in SUBSET Requests
    BY <1>1, Statuses DEF IInv, Pending, Waiting, Stored
  <1>3. seq + 1 \in Ids
    BY <1>2, RequestCount DEF IInv, Serial
  <1>4. /\ answer' = [answer EXCEPT ![r] = Store!Created(r, seq + 1)]
        /\ answer' \in [Requests -> Answers]
    BY <1>0, <1>1, <1>3, Statuses DEF Put
  <1>5. Stored' = Stored \cup {r}
    BY <1>0, <1>4, Statuses DEF Stored
  <1>6. DOMAIN notes' = 1..seq' /\ \A i \in DOMAIN notes' : notes'[i] \in Requests
    <2>1. /\ DOMAIN notes' = DOMAIN notes \cup {seq + 1}
          /\ \A i \in DOMAIN notes' : notes'[i] = IF i = seq + 1 THEN r ELSE notes[i]
      BY <1>1 DEF Put
    <2>2. 1..seq + 1 = 1..seq \cup {seq + 1}
      BY <1>0
    <2>3. DOMAIN notes' = 1..seq'
      BY <1>1, <2>1, <2>2 DEF IInv, Serial
    <2>4. \A i \in DOMAIN notes : notes[i] \in Requests
      BY <1>0 DEF TypeOK
    <2> QED BY <2>1, <2>3, <2>4
  <1>7. Serial'
    <2>1. seq' = Cardinality(Stored')
      BY <1>1, <1>2, <1>5, RequestCount DEF IInv, Serial
    <2> QED BY <1>1, <1>6, <2>1, NoOneAssumption DEF IInv, Serial
  <1>8. Pending'
    BY <1>0, <1>1, <1>4 DEF IInv, Pending, Waiting
  <1>9. TypeOK'
    <2>1. seq' \in 0..Cardinality(Requests) /\ DOMAIN notes' \subseteq Ids
      BY <1>1, <1>3, <1>6, RequestCount DEF Ids
    <2>2. \A q \in Requests : answer'[q].status \in {0, 400, 201, 200, 404}
      BY <1>4, Statuses
    <2>3. ServerTypes'
      BY <1>0, <1>1, Types DEF ServerTypes, net
    <2>4. ConnectionTypes'
      <3>1. /\ kind \in [Requests -> Kinds]
            /\ gone \in SUBSET Requests /\ cancelled \in SUBSET Requests
        BY <1>0, Types DEF ConnectionTypes
      <3>2. pc' = [pc EXCEPT ![r] = "reply"]
        BY DEF Put
      <3> QED BY <1>0, <1>1, <2>2, <3>1, <3>2 DEF ConnectionTypes
    <2>5. RepoTypes'
      <3>1. id \in [Requests -> 0..Cardinality(Requests)]
        BY <1>0, Types DEF RepoTypes
      <3> QED BY <1>1, <1>6, <2>1, <3>1 DEF RepoTypes
    <2> QED BY <2>3, <2>4, <2>5, Types
  <1>10. Lifecycle'
    BY <1>1, ConnectionLifecycle DEF Put
  <1> QED BY <1>4, <1>7, <1>8, <1>9, <1>10 DEF IInv

(* The strengthened invariant holds in every run of the server.            *)
THEOREM Invariance == Spec => []IInv
  <1>1. IInv /\ [Next]_vars => IInv'
    <2> SUFFICES ASSUME IInv, [Next]_vars PROVE IInv'
      OBVIOUS
    <2>1. CASE UNCHANGED vars \/ Finished
      <3>0. UNCHANGED <<main, net, conns, repo>>
        BY <2>1 DEF Finished, vars
      <3>1. ServerTypes' /\ Lifecycle'
        <4>1. UNCHANGED <<main, signalled, serve, serverErr, inShutdown, expired, pc>>
          BY <3>0 DEF net, conns
        <4>2. Idle' = Idle
          BY <4>1 DEF Idle
        <4>3. ServerTypes'
          BY <4>1, Types DEF IInv, ServerTypes
        <4> QED BY <4>1, <4>2, <4>3 DEF IInv, Lifecycle
      <3>2. ConnectionTypes' /\ answer' \in [Requests -> Answers] /\ Pending'
        BY <3>0, Types DEF IInv, ConnectionTypes, conns, Pending
      <3>3. RepoTypes'
        BY <3>0, Types DEF IInv, RepoTypes, repo
      <3>4. Serial'
        BY <3>0 DEF IInv, Serial, Stored, repo, conns
      <3> QED BY <3>1, <3>2, <3>3, <3>4, Types DEF IInv
    <2> QED BY <2>1, ServerSideStep, PlainStep, MintStep, PutStep
            DEF Next, ServerSide, Handler, Client, Plain
  <1> QED BY InitIInv, <1>1, PTL DEF Spec

-----------------------------------------------------------------------------
(* A clean exit cuts nobody off: every connection that was accepted has    *)
(* been served and closed.                                                 *)
THEOREM CleanExit == Spec => []DrainsFirst
  <1>1. IInv => DrainsFirst
    BY DEF IInv, Lifecycle, DrainsFirst
  <1> QED BY Invariance, <1>1, PTL

(* The exit status is 0 only after a signal, and 1 only when serving       *)
(* failed by itself or the drain took too long.                            *)
THEOREM StatusTells == Spec => []ExitTells
  <1>1. IInv => ExitTells
    BY DEF IInv, Lifecycle, ExitTells
  <1> QED BY Invariance, <1>1, PTL

(* The handlers over memRepo implement the atomic service of ItemStore.    *)
THEOREM Refinement == Spec => ImplementsItemStore
  <1>1. Init => Store!Init
    BY DEF Init, Store!Init
  <1>2. IInv /\ [Next]_vars => [Store!Next]_Store!vars
    <2> SUFFICES ASSUME IInv, [Next]_vars PROVE Store!Next \/ UNCHANGED <<notes, answer>>
      BY DEF Store!vars
    <2>1. CASE Server \/ ServeFails \/ Signal \/ Finished \/ UNCHANGED vars
      BY <2>1 DEF Server, ServeFails, Signal, Finished, vars, conns, repo, Listen, ServeCloses,
                  SelectError, SelectSignal, Drained, Expire, GiveUp, net
    <2>2. ASSUME NEW r \in Requests,
                 Accept(r) \/ Header(r) \/ NoHeader(r) \/ Mint(r) \/ Reply(r) \/ Disconnect(r)
          PROVE  UNCHANGED <<notes, answer>>
      BY <2>2 DEF Accept, Header, NoHeader, Mint, Reply, Disconnect, repo
    <2>3. ASSUME NEW r \in Requests, Decode(r) \/ DecodeFails(r)
          PROVE  Store!Next \/ UNCHANGED <<notes, answer>>
      <3>1. UNCHANGED notes /\ pc[r] = "body"
        BY <2>3 DEF Decode, DecodeFails, Goto, repo
      <3>2. answer[r] = Store!None
        BY <3>1 DEF IInv, Pending, Waiting
      <3>3. answer' = answer \/ answer' = [answer EXCEPT ![r] = Store!Failure(400)]
        BY <2>3 DEF Decode, DecodeFails
      <3> QED BY <3>1, <3>2, <3>3 DEF Store!Next, Store!Reject, Store!Answer, Store!Unanswered
    <2>4. ASSUME NEW r \in Requests, Get(r) PROVE Store!Next
      <3>1. answer[r] = Store!None /\ UNCHANGED notes
        BY <2>4 DEF Get, Goto, repo, IInv, Pending, Waiting
      <3> QED BY <2>4, <3>1 DEF Get, Store!Next, Store!Get, Store!Answer, Store!Unanswered
    <2>5. ASSUME NEW r \in Requests, Put(r) PROVE Store!Next
      <3>1. /\ answer[r] = Store!None /\ id[r] = seq + 1
            /\ DOMAIN notes = 1..seq /\ seq \in Nat
        <4>1. seq \in 0..Cardinality(Requests)
          BY DEF IInv, TypeOK
        <4> QED BY <2>5, <4>1, RequestCount DEF Put, Goto, IInv, Pending, Waiting, Serial
      <3>2. r \notin Stored /\ Stored \in SUBSET Requests
        BY <3>1, Statuses DEF Stored
      <3>3. id[r] \in Ids /\ id[r] \notin DOMAIN notes
        <4>1. seq + 1 \in Ids
          BY <3>2, RequestCount DEF IInv, Serial
        <4> QED BY <3>1, <4>1
      <3>4. Store!Create(r, id[r])
        BY <2>5, <3>1, <3>3 DEF Put, Store!Create, Store!Answer, Store!Unanswered
      <3> QED BY <3>3, <3>4 DEF Store!Next
    <2> QED BY <2>1, <2>2, <2>3, <2>4, <2>5 DEF Next, Handler, Client
  <1> QED BY <1>1, <1>2, Invariance, PTL DEF Spec, ImplementsItemStore, Store!Spec

=============================================================================
