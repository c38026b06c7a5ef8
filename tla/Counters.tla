------------------------------ MODULE Counters ------------------------------
(***************************************************************************)
(* RacyCount, MutexCount and AtomicCount of week 4, exercise 3: n          *)
(* goroutines increment one variable, without synchronisation, under a     *)
(* mutex, or with one atomic addition.  counter++ is a load and a store;   *)
(* the three functions differ only in what is around it.                   *)
(***************************************************************************)
EXTENDS Integers, FiniteSets

CONSTANT N            \* the argument n

Callers == 1..N
NoOne == 0
Kinds == {"racy", "mutex", "atomic"}

VARIABLES kind,       \* which of the three functions runs
          main, spawned, \* where it is, how many goroutines it has started
          pc,         \* where each goroutine is
          counter,    \* the shared variable
          reg,        \* the value each goroutine loaded
          mu,         \* who holds the mutex
          wg,         \* the WaitGroup's counter
          stored      \* history: the goroutines that have stored

vars == <<kind, main, spawned, pc, counter, reg, mu, wg, stored>>

Init == /\ kind \in Kinds
        /\ main = "spawn" /\ spawned = 0
        /\ pc = [c \in Callers |-> "idle"]
        /\ counter = 0
        /\ reg = [c \in Callers |-> 0]
        /\ mu = NoOne
        /\ wg = 0
        /\ stored = {}

Goto(c, from, to) == pc[c] = from /\ pc' = [pc EXCEPT ![c] = to]

\* wg.Add(1); go func() {...}()
Spawn == /\ main = "spawn" /\ spawned < N
         /\ spawned' = spawned + 1
         /\ wg' = wg + 1
         /\ Goto(spawned + 1, "idle", "start")
         /\ UNCHANGED <<kind, main, counter, reg, mu, stored>>

SpawnDone == /\ main = "spawn" /\ spawned = N
             /\ main' = "wait"
             /\ UNCHANGED <<kind, spawned, pc, counter, reg, mu, wg, stored>>

\* Mutant: Lock lets a second goroutine in.
Lock_Open(c) == /\ kind = "mutex"
                /\ Goto(c, "start", "load")
                /\ mu' = c
                /\ UNCHANGED <<kind, main, spawned, counter, reg, wg, stored>>

\* mu.Lock()
Lock(c) == /\ kind = "mutex" /\ mu = NoOne
           /\ Goto(c, "start", "load")
           /\ mu' = c
           /\ UNCHANGED <<kind, main, spawned, counter, reg, wg, stored>>

\* RacyCount has nothing to wait for.
Enter(c) == /\ kind = "racy"
            /\ Goto(c, "start", "load")
            /\ UNCHANGED <<kind, main, spawned, counter, reg, mu, wg, stored>>

\* counter++, the read ...
LoadCounter(c) == /\ Goto(c, "load", "store")
                  /\ reg' = [reg EXCEPT ![c] = counter]
                  /\ UNCHANGED <<kind, main, spawned, counter, mu, wg, stored>>

\* ... and the write.
StoreCounter(c) == /\ Goto(c, "store", IF kind = "mutex" THEN "unlock" ELSE "done")
                   /\ counter' = reg[c] + 1
                   /\ stored' = stored \cup {c}
                   /\ UNCHANGED <<kind, main, spawned, reg, mu, wg>>

\* mu.Unlock()
Unlock(c) == /\ Goto(c, "unlock", "done")
             /\ mu' = NoOne
             /\ UNCHANGED <<kind, main, spawned, counter, reg, wg, stored>>

\* Mutant: the atomic addition is an atomic load and an atomic store.
AtomicAdd_InTwo(c) == /\ kind = "atomic"
                      /\ Goto(c, "start", "load")
                      /\ UNCHANGED <<kind, main, spawned, counter, reg, mu, wg, stored>>

\* counter.Add(1)
AtomicAdd(c) == /\ kind = "atomic"
                /\ Goto(c, "start", "done")
                /\ counter' = counter + 1
                /\ stored' = stored \cup {c}
                /\ UNCHANGED <<kind, main, spawned, reg, mu, wg>>

\* The deferred wg.Done().
Done(c) == /\ Goto(c, "done", "ended")
           /\ wg' = wg - 1
           /\ UNCHANGED <<kind, main, spawned, counter, reg, mu, stored>>

\* wg.Wait() returns, and so does the function.
Return == /\ main = "wait" /\ wg = 0
          /\ main' = "returned"
          /\ UNCHANGED <<kind, spawned, pc, counter, reg, mu, wg, stored>>

Caller(c) == \/ Lock(c) \/ Enter(c) \/ LoadCounter(c) \/ StoreCounter(c)
             \/ Unlock(c) \/ AtomicAdd(c) \/ Done(c)

Step == Spawn \/ SpawnDone \/ Return \/ \E c \in Callers : Caller(c)

Finished == main = "returned" /\ UNCHANGED vars

Next == Step \/ Finished

Spec == Init /\ [][Next]_vars

-----------------------------------------------------------------------------
Synchronised == kind # "racy"

TypeOK == /\ kind \in Kinds
          /\ main \in {"spawn", "wait", "returned"} /\ spawned \in 0..N
          /\ pc \in [Callers -> {"idle", "start", "load", "store", "unlock",
                                 "done", "ended"}]
          /\ counter \in 0..N /\ reg \in [Callers -> 0..N]
          /\ mu \in Callers \cup {NoOne} /\ wg \in 0..N
          /\ stored \in SUBSET Callers

(* MutexCount and AtomicCount return exactly n (TestFixed, lines 116-123). *)
(* RacyCount loses updates but invents none, and the last store survives:  *)
(* with at least one goroutine the result is between 1 and n.  And every   *)
(* variable has its type.                                                  *)
CountsAll == TypeOK /\ (main = "returned" =>
    IF Synchronised THEN counter = N ELSE N > 0 => counter \in 1..N)

=============================================================================
