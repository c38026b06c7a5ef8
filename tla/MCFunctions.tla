---------------------------- MODULE MCFunctions -----------------------------
(* The fuzzed query parser, the functions of package notesx and the error  *)
(* chains, over all their inputs; `program` says which.  What one has not  *)
(* is 0.                                                                   *)
EXTENDS Naturals, Sequences

CONSTANT MaxFields

VARIABLES program,
          fields, q, first, pass, verdict,
          fn, arg,
          key, now, dbErr

Parser == INSTANCE NoteQuery
Pure   == INSTANCE NotesX
Chain  == INSTANCE ErrorChains

parserOnly == <<fields, q, first, pass, verdict>>
inputs == <<fn, arg, key, now, dbErr>>
MCvars == <<program, parserOnly, inputs>>

NoParser == fields = 0 /\ q = 0 /\ first = 0 /\ pass = 0 /\ verdict = 0
NoPure == fn = 0 /\ arg = 0
NoChain == key = 0 /\ now = 0 /\ dbErr = 0

MCInit == \/ program = "query" /\ Parser!Init /\ NoPure /\ NoChain
          \/ program = "functions" /\ Pure!Init /\ NoParser /\ NoChain
          \/ program = "errors" /\ Chain!Init /\ NoParser /\ NoPure

MCNext == \/ program = "query" /\ Parser!Next /\ UNCHANGED <<program, inputs>>
          \/ program \in {"functions", "errors"} /\ UNCHANGED MCvars

MCSpec == MCInit /\ [][MCNext]_MCvars

-----------------------------------------------------------------------------
(* A query that the parser accepts has no empty tag, and is written out    *)
(* and parsed again to the same query (NoteQuery).                         *)
RoundTrips == program = "query" => Parser!RoundTrips

(* The functions of weeks 2, 6 and 8 do what their definitions promise     *)
(* (NotesX, ErrorChains).                                                  *)
FunctionsAgree == /\ program = "functions" => Pure!Agrees
                  /\ program = "errors" => Chain!Agrees

=============================================================================
