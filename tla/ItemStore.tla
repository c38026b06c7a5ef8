----------------------------- MODULE ItemStore ------------------------------
(***************************************************************************)
(* What an item service promises: every request takes effect in one step,  *)
(* between its arrival and its answer.  A create adds an item under an ID  *)
(* nobody had before; a get sees the items created so far; a request that  *)
(* is not well formed changes nothing.                                     *)
(***************************************************************************)
EXTENDS Naturals

CONSTANTS Requests, Ids

VARIABLES items,    \* the request that created each item, by ID
          answer    \* what each request is answered

vars == <<items, answer>>

None == [status |-> 0, id |-> 0, by |-> {}]
Created(r, i) == [status |-> 201, id |-> i, by |-> {r}]
Found(r, i) == [status |-> 200, id |-> i, by |-> {r}]
Failure(code) == [status |-> code, id |-> 0, by |-> {}]

Init == /\ items = [i \in {} |-> CHOOSE r \in Requests : TRUE]
        /\ answer = [r \in Requests |-> None]

Unanswered(r) == answer[r] = None
Answer(r, a) == Unanswered(r) /\ answer' = [answer EXCEPT ![r] = a]

Create(r, i) == /\ i \notin DOMAIN items
                /\ items' = [j \in DOMAIN items \cup {i} |-> IF j = i THEN r ELSE items[j]]
                /\ Answer(r, Created(r, i))

Get(r, i) == /\ Answer(r, IF i \in DOMAIN items THEN Found(items[i], i) ELSE Failure(404))
             /\ UNCHANGED items

Reject(r) == /\ \E code \in {400, 422} : Answer(r, Failure(code))
             /\ UNCHANGED items

Next == \E r \in Requests : Reject(r) \/ \E i \in Ids : Create(r, i) \/ Get(r, i)

Spec == Init /\ [][Next]_vars

=============================================================================
