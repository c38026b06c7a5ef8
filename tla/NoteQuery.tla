------------------------------ MODULE NoteQuery ------------------------------
(***************************************************************************)
(* Week 8, exercise 3: ParseQuery, Query.String and what FuzzParseQuery    *)
(* does with them: it parses an input, writes an accepted query out again  *)
(* and parses that.  A field is the sequence of the pieces between its     *)
(* colons, so "tag:a:b" is <<"tag", "a", "b">> and "tag:" <<"tag", "">>;   *)
(* an input is a sequence of fields.                                       *)
(***************************************************************************)
EXTENDS Naturals, Sequences, Sorting

CONSTANTS MaxFields   \* bound on the fields of an input

Empty == <<"">>
\* The values of fields, in the byte order that sort.Strings uses.
Values == << Empty, <<"#x">>, <<"", "a">>, <<"a">>, <<"a", "b">>, <<"b">> >>
Rank(val) == CHOOSE i \in DOMAIN Values : Values[i] = val
SortStrings(s) == SortedBy(s, [i \in DOMAIN s |-> Rank(s[i])])

\* Words, known and unknown keys, and the lone colon.
Keyed(key) == { <<key>> \o Values[i] : i \in DOMAIN Values }
Fields == { <<"#x">>, <<"a">>, <<"b">>, <<"c", "a">>, <<"", "">> }
          \cup Keyed("tag") \cup Keyed("author")
Inputs == UNION {[1..n -> Fields] : n \in 0..MaxFields}

Query == [tags |-> <<>>, author |-> Empty, terms |-> <<>>]

VARIABLES fields,   \* the fields ParseQuery has still to read
          q,        \* the query it builds
          first,    \* what the first parse returned
          pass,     \* 1 or 2, which parse this is
          verdict   \* "parsing", or how the fuzz function ended

vars == <<fields, q, first, pass, verdict>>

Init == /\ fields \in Inputs
        /\ q = Query /\ first = Query
        /\ pass = 1 /\ verdict = "parsing"

-----------------------------------------------------------------------------
\* Mutant: the author is written without its key.
String_BareAuthor(query) ==
    LET Tag(t) == <<"tag">> \o t
        tags == SortStrings(query.tags)
    IN  [i \in DOMAIN tags |-> Tag(tags[i])]
        \o (IF query.author # Empty THEN <<query.author>> ELSE <<>>)
        \o SortStrings(query.terms)

\* Query.String, as the fields strings.Fields finds in it.
String(query) ==
    LET tags == SortStrings(query.tags)
    IN  [i \in DOMAIN tags |-> <<"tag">> \o tags[i]]
        \o (IF query.author # Empty THEN << <<"author">> \o query.author >> ELSE <<>>)
        \o SortStrings(query.terms)

canonical(query) == [query EXCEPT !.tags = SortStrings(@), !.terms = SortStrings(@)]

-----------------------------------------------------------------------------
\* One round of ParseQuery's loop: the first field is cut at its first colon.
Parsing == verdict = "parsing" /\ fields # <<>>
Field == Head(fields)
HasKey(key) == Parsing /\ Len(Field) > 1 /\ Head(Field) = key
Val == Tail(Field)

Accept(query) == /\ q' = query
                 /\ fields' = Tail(fields)
                 /\ UNCHANGED <<first, pass, verdict>>

\* An error ends the fuzz function: quietly the first time, as a failure the second.
Reject == /\ verdict' = IF pass = 1 THEN "rejected" ELSE "re-parsing failed"
          /\ q' = Query
          /\ UNCHANGED <<fields, first, pass>>

Term == Parsing /\ Len(Field) = 1 /\ Accept([q EXCEPT !.terms = Append(@, Field)])

\* val[0] with an empty val
TagPanics == /\ HasKey("tag") /\ Val = Empty
             /\ verdict' = "panicked"
             /\ UNCHANGED <<fields, q, first, pass>>

TagRejected == HasKey("tag") /\ Head(Val) = "#x" /\ Reject

Tag == /\ HasKey("tag") /\ Val # Empty /\ Head(Val) # "#x"
       /\ Accept([q EXCEPT !.tags = Append(@, Val)])

AuthorRejected == HasKey("author") /\ Val = Empty /\ Reject

\* The last author wins.
Author == HasKey("author") /\ Val # Empty /\ Accept([q EXCEPT !.author = Val])

UnknownField == /\ Parsing /\ Len(Field) > 1 /\ Head(Field) \notin {"tag", "author"}
                /\ Reject

-----------------------------------------------------------------------------
\* ParseQuery has returned a query.
Reparse == /\ verdict = "parsing" /\ fields = <<>> /\ pass = 1
           /\ IF \E i \in DOMAIN q.tags : q.tags[i] = Empty
              THEN verdict' = "empty tag" ELSE UNCHANGED verdict
           /\ first' = q /\ pass' = 2
           /\ fields' = String(q) /\ q' = Query

Compare == /\ verdict = "parsing" /\ fields = <<>> /\ pass = 2
           /\ verdict' = IF canonical(q) = canonical(first) THEN "ok" ELSE "round-trip mismatch"
           /\ UNCHANGED <<fields, q, first, pass>>

Finished == verdict # "parsing" /\ UNCHANGED vars

Next == \/ Term \/ TagPanics \/ TagRejected \/ Tag \/ AuthorRejected \/ Author
        \/ UnknownField \/ Reparse \/ Compare \/ Finished

Spec == Init /\ [][Next]_vars

-----------------------------------------------------------------------------
(* The second and third invariant of FuzzParseQuery (lines 68 and 75): no  *)
(* accepted query has an empty tag, and an accepted query that is written  *)
(* out parses again, to the same query; what is more, it is written out    *)
(* the same way then.  Only an input with a bare `tag:` may make the parser*)
(* panic (the bug the file plants), and never what String has written.     *)
RoundTrips == /\ verdict \in {"parsing", "rejected", "panicked", "ok"}
              /\ verdict = "panicked" => pass = 1
              /\ verdict = "ok" => String(q) = String(first)

=============================================================================
