-------------------------------- MODULE Words -------------------------------
(***************************************************************************)
(* NormalizeWord of week 1, exercise 3.  A token is a sequence of runes,   *)
(* each of which is a word character, one that the function trims, or any  *)
(* other, such as a hyphen or a dash; lower case changes none of the three.*)
(***************************************************************************)
EXTENDS SequencesExt

CONSTANT MaxRunes     \* bound on a token's length

VARIABLE token        \* the argument

Runes == {"word", "trimmed", "other"}
Init == token \in BoundedSeq(Runes, MaxRunes)
Spec == Init /\ [][UNCHANGED token]_token

\* strings.Trim keeps what is between the first and the last of these ...
Kept(t) == {i \in DOMAIN t : t[i] # "trimmed"}

NormalizeWord(t) == SubSeq(t, Min(Kept(t)), Max(Kept(t)))

\* ... and the function returns an error if nothing is left.
Fails(t) == Kept(t) = {}

(* "It returns an error if the token has no word characters at all"        *)
(* (lines 53-55), and for no other token.                                  *)
ErrorMeansNoWord ==
    (\A i \in DOMAIN token : token[i] # "word") <=> Fails(token)

=============================================================================
