----------------------------- MODULE Increments -----------------------------
(***************************************************************************)
(* What a shared counter promises those who increment it: every increment  *)
(* is applied at most once and stays applied, so the counter is the number *)
(* of callers whose increment has been applied.                            *)
(***************************************************************************)
EXTENDS Naturals, FiniteSets

CONSTANT Callers      \* each of them increments once

VARIABLES value,      \* the counter
          applied     \* the callers whose increment it contains

vars == <<value, applied>>

Init == value = 0 /\ applied = {}

Apply(c) == /\ c \notin applied
            /\ value' = value + 1
            /\ applied' = applied \cup {c}

Next == \E c \in Callers : Apply(c)

Spec == Init /\ [][Next]_vars

=============================================================================
