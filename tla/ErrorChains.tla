----------------------------- MODULE ErrorChains ----------------------------
(***************************************************************************)
(* Which errors a caller can recognise: the layers of week 2, exercise 2,  *)
(* and classifyConflict of week 6, exercise 1.  An error is the sequence   *)
(* of its layers, the outermost first, and nil is <<>>; times are hours.   *)
(***************************************************************************)
EXTENDS Integers, Sequences

VARIABLES key, now,  \* a key looked up, and when
          dbErr      \* an error from pgx

\* fmt.Errorf with %w has an Unwrap; QueryError has none yet.
Unwraps == {"fmt"}

\* errors.Is, or errors.As, of package errors.
Sees(err, target) == \E i \in DOMAIN err : /\ err[i] = target
                                           /\ \A j \in 1..i - 1 : err[j] \in Unwraps

-----------------------------------------------------------------------------
data == [fresh |-> 1, stale |-> -1]

lookup(k, t) == IF k \notin DOMAIN data THEN <<"fmt", "ErrNotFound">>
                ELSE IF t > data[k] THEN <<"fmt", "ExpiredError">>
                ELSE <<>>

query(k, t) == IF lookup(k, t) = <<>> THEN <<>> ELSE <<"QueryError">> \o lookup(k, t)

classifyConflict(err) == IF Sees(err, "ErrNoRows") THEN <<"ErrNotFound">>
                         ELSE IF Sees(err, "23505") THEN <<"ErrConflict">>
                         ELSE err

-----------------------------------------------------------------------------
\* pgx's own errors, as they are or wrapped once or twice.
Wrapped(leaf) == {<<leaf>>, <<"fmt", leaf>>, <<"fmt", "fmt", leaf>>}

Init == /\ key \in {"fresh", "stale", "ghost"} /\ now \in 0..2
        /\ dbErr \in {<<>>} \cup UNION {Wrapped(e) : e \in {"ErrNoRows", "23505", "23514"}}

\* The error is `leaf`, wrapped any number of times or not at all.
Is(err, leaf) == /\ Len(err) > 0 /\ err[Len(err)] = leaf
                 /\ \A i \in 1..Len(err) - 1 : err[i] = "fmt"

(* From lookup's error a caller recognises a missing key and an expired    *)
(* entry, and never takes one for the other; by == it recognises neither,  *)
(* and through a QueryError it sees neither, as the program prints.  And   *)
(* classifyConflict knows pgx's errors through any wrapping, passing on    *)
(* what it does not know.                                                  *)
Agrees ==
    LET l == lookup(key, now)   q == query(key, now)   c == classifyConflict(dbErr) IN
    /\ Sees(l, "ErrNotFound") <=> key = "ghost"
    /\ Sees(l, "ExpiredError") <=> key = "stale" \/ (key = "fresh" /\ now > data.fresh)
    /\ l = <<>> <=> q = <<>>
    /\ l # <<"ErrNotFound">> /\ ~Sees(q, "ErrNotFound") /\ ~Sees(q, "ExpiredError")
    /\ Sees(c, "ErrNotFound") <=> Is(dbErr, "ErrNoRows")
    /\ Sees(c, "ErrConflict") <=> Is(dbErr, "23505")
    /\ dbErr = <<>> \/ Is(dbErr, "23514") => c = dbErr

=============================================================================
