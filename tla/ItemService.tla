---------------------------- MODULE ItemService -----------------------------
(***************************************************************************)
(* Week 5, exercise 1: the handlers of the item service over a map and a   *)
(* counter that a sync.RWMutex guards, one step per access to what is      *)
(* shared.                                                                 *)
(***************************************************************************)
EXTENDS Integers, FiniteSets

CONSTANTS Requests,  \* the requests
          Ids        \* the IDs that requests ask for, and those that seq reaches

\* A body that decodes, one that does not, one whose name is blank.
Bodies == {"good", "malformed", "blank"}
Kinds == {[op |-> "POST", body |-> b, id |-> 0] : b \in Bodies}
         \cup {[op |-> "GET", body |-> "good", id |-> i] : i \in Ids}

VARIABLES kind,      \* what each request is
          pc,        \* where its handler is
          writer,    \* who holds mu's write lock
          readers,   \* who hold its read lock
          seq,       \* store.seq
          items,     \* store.items, by the request that created the item
          answer     \* what the handler will write, or has written

store == <<writer, readers, seq, items>>
vars == <<kind, pc, store, answer>>

Promise == INSTANCE ItemStore
None == Promise!None
NoItems == [i \in {} |-> CHOOSE r \in Requests : TRUE]

Init == /\ kind \in [Requests -> Kinds]
        /\ pc = [r \in Requests |-> "begin"]
        /\ writer = {} /\ readers = {}
        /\ seq = 0 /\ items = NoItems
        /\ answer = [r \in Requests |-> None]

Goto(r, from, to) == pc[r] = from /\ pc' = [pc EXCEPT ![r] = to]
Answer(r, a) == answer' = [answer EXCEPT ![r] = a]

-----------------------------------------------------------------------------
\* createItem reads the body; writeError maps the two errors to 400 and 422.
BadRequest(r) == /\ kind[r].op = "POST" /\ kind[r].body = "malformed"
                 /\ Goto(r, "begin", "write")
                 /\ Answer(r, Promise!Failure(400))
                 /\ UNCHANGED <<kind, store>>

Validation(r) == /\ kind[r].op = "POST" /\ kind[r].body = "blank"
                 /\ Goto(r, "begin", "write")
                 /\ Answer(r, Promise!Failure(422))
                 /\ UNCHANGED <<kind, store>>

Decode(r) == /\ kind[r].op = "POST" /\ kind[r].body = "good"
             /\ Goto(r, "begin", "lock")
             /\ UNCHANGED <<kind, store, answer>>

\* Mutant: create takes the read lock.
Lock_Shared(r) == /\ Goto(r, "lock", "increment")
                  /\ writer' = writer \cup {r}
                  /\ UNCHANGED <<kind, readers, seq, items, answer>>

\* store.create: mu.Lock
Lock(r) == /\ writer = {} /\ readers = {}
           /\ Goto(r, "lock", "increment")
           /\ writer' = {r}
           /\ UNCHANGED <<kind, readers, seq, items, answer>>

Increment(r) == /\ Goto(r, "increment", "mint")
                /\ seq' = seq + 1
                /\ UNCHANGED <<kind, writer, readers, items, answer>>

\* The item gets seq as its ID ...
Mint(r) == /\ Goto(r, "mint", "store")
           /\ Answer(r, Promise!Created(r, seq))
           /\ UNCHANGED <<kind, store>>

\* ... and goes into the map under it.
Store(r) == /\ Goto(r, "store", "unlock")
            /\ items' = [i \in DOMAIN items \cup {answer[r].id} |->
                            IF i = answer[r].id THEN r ELSE items[i]]
            /\ UNCHANGED <<kind, writer, readers, seq, answer>>

Unlock(r) == /\ Goto(r, "unlock", "write")
             /\ writer' = writer \ {r}
             /\ UNCHANGED <<kind, readers, seq, items, answer>>

-----------------------------------------------------------------------------
\* getItem and store.get
RLock(r) == /\ kind[r].op = "GET" /\ writer = {}
            /\ Goto(r, "begin", "read")
            /\ readers' = readers \cup {r}
            /\ UNCHANGED <<kind, writer, seq, items, answer>>

Read(r) == /\ Goto(r, "read", "runlock")
           /\ Answer(r, IF kind[r].id \in DOMAIN items
                        THEN Promise!Found(items[kind[r].id], kind[r].id)
                        ELSE Promise!Failure(404))
           /\ UNCHANGED <<kind, store>>

RUnlock(r) == /\ Goto(r, "runlock", "write")
              /\ readers' = readers \ {r}
              /\ UNCHANGED <<kind, writer, seq, items, answer>>

\* writeJSON
Write(r) == /\ Goto(r, "write", "done")
            /\ UNCHANGED <<kind, store, answer>>

Step(r) == \/ BadRequest(r) \/ Validation(r) \/ Decode(r)
           \/ Lock(r) \/ Increment(r) \/ Mint(r) \/ Store(r) \/ Unlock(r)
           \/ RLock(r) \/ Read(r) \/ RUnlock(r) \/ Write(r)

Finished == (\A r \in Requests : pc[r] = "done") /\ UNCHANGED vars

Next == Finished \/ \E r \in Requests : Step(r)

Spec == Init /\ [][Next]_vars

=============================================================================
