------------------------------- MODULE NotesX -------------------------------
(***************************************************************************)
(* The functions of package notesx, week 8, exercises 1 and 2, each with a *)
(* reference definition.  A text is how many runes it has, the title and   *)
(* the tags after TrimSpace, and whether it is valid UTF-8; a tag that is  *)
(* sorted or indexed is a number, in the order of the strings, and padded  *)
(* with spaces or not.                                                     *)
(***************************************************************************)
EXTENDS Naturals, SequencesExt, Sorting

VARIABLES fn, arg    \* the function called, and with what

MaxTitleLen == 200
MaxBodyLen == 10000
MaxTags == 10
MaxTagLen == 32

-----------------------------------------------------------------------------
\* What is wrong with a tag.
TagErr(t) == IF t.runes = 0 THEN "ErrEmptyTag"
             ELSE IF t.runes > MaxTagLen THEN "ErrTagTooLong" ELSE "nil"

ValidateNote(n) ==
    LET Wrong == {i \in DOMAIN n.tags : TagErr(n.tags[i]) # "nil"} IN
    IF ~n.title.utf8 \/ ~n.body.utf8 THEN "ErrInvalidUTF8"
    ELSE IF n.title.runes = 0 THEN "ErrEmptyTitle"
    ELSE IF n.title.runes > MaxTitleLen THEN "ErrTitleTooLong"
    ELSE IF n.body.runes > MaxBodyLen THEN "ErrBodyTooLong"
    ELSE IF Len(n.tags) > MaxTags THEN "ErrTooManyTags"
    ELSE IF Wrong # {} THEN TagErr(n.tags[Min(Wrong)])
    ELSE "nil"

-----------------------------------------------------------------------------
\* The array that `tags` is a slice of: append([]string(nil), n.Tags...) makes
\* one of its own.  The note and the document's tags after the call.
Tags == "own"

Names(tags) == [i \in DOMAIN tags |-> tags[i].name]

RenderNoteMarkdown(given) ==
    LET before == [own |-> given, note |-> given]
        trimmed == [i \in DOMAIN given |-> [name |-> given[i].name, pad |-> FALSE]]
        after == [before EXCEPT ![Tags] = SortedBy(trimmed, Names(trimmed))]
    IN  [document |-> after[Tags], note |-> after["note"]]

-----------------------------------------------------------------------------
\* (tag, note) in the order of the two loops.
Visits(notes) == FlattenSeq([n \in DOMAIN notes |->
                     [i \in DOMAIN notes[n] |-> [tag |-> notes[n][i], id |-> n]]])

\* idx[key] = append(idx[key], id)
AppendAt(idx, key, id) ==
    [k \in DOMAIN idx \cup {key} |->
        (IF k \in DOMAIN idx THEN idx[k] ELSE <<>>) \o (IF k = key THEN <<id>> ELSE <<>>)]

\* tag:len(tag); the tag stands for its length too.
Key(tag) == <<tag, ":", tag>>

\* idx[n] is the index after n visits.
BuildTagIndexSlow(notes) ==
    LET v == Visits(notes)
        idx[n \in 0..Len(v)] ==
            IF n = 0 THEN <<>> ELSE AppendAt(idx[n - 1], Key(v[n].tag), v[n].id)
    IN  idx[Len(v)]

\* Mutant: the builder keeps what it has.
Reset_Missing(b) == b

\* strings.Builder.Reset
Reset(b) == <<>>

\* The builder and the index after n visits.
BuildTagIndexFast(notes) ==
    LET v == Visits(notes)
        run[n \in 0..Len(v)] ==
            IF n = 0 THEN [b |-> <<>>, idx |-> <<>>]
            ELSE LET key == Reset(run[n - 1].b) \o Key(v[n].tag)
                 IN  [b |-> key, idx |-> AppendAt(run[n - 1].idx, key, v[n].id)]
    IN  run[Len(v)].idx

MakeNotes(n) == [i \in 1..n |-> <<(i - 1) % 8, i % 8>>]

-----------------------------------------------------------------------------
\* Inputs: every length at its limit and one above; few tags, or just too many.
Texts(lengths) == [utf8 : BOOLEAN, runes : lengths]
TagLists == {s \o [i \in 1..k |-> [utf8 |-> TRUE, runes |-> 1]] :
                s \in BoundedSeq(Texts({0, MaxTagLen, MaxTagLen + 1}), 2),
                k \in {0, MaxTags - 1}}

Init == \/ /\ fn = "ValidateNote"
           /\ arg \in [title : Texts({0, 1, MaxTitleLen, MaxTitleLen + 1}),
                       body : Texts({0, MaxBodyLen, MaxBodyLen + 1}), tags : TagLists]
        \/ /\ fn = "RenderNoteMarkdown"
           /\ arg \in BoundedSeq([name : 1..3, pad : BOOLEAN], 3)
        \/ /\ fn = "BuildTagIndex"
           /\ arg \in BoundedSeq(BoundedSeq(1..2, 2), 3) \cup {MakeNotes(n) : n \in 7..9}

-----------------------------------------------------------------------------
\* The rules for the fields of a note, in order; Kept, the first k of them are.
NoteErrs == <<"ErrInvalidUTF8", "ErrEmptyTitle", "ErrTitleTooLong", "ErrBodyTooLong",
              "ErrTooManyTags">>

Kept(n, k) == /\ k >= 1 => n.title.utf8 /\ n.body.utf8
              /\ k >= 2 => n.title.runes >= 1
              /\ k >= 3 => n.title.runes <= MaxTitleLen
              /\ k >= 4 => n.body.runes <= MaxBodyLen
              /\ k >= 5 => Len(n.tags) <= MaxTags

Good(tag) == tag.runes \in 1..MaxTagLen

(* ValidateNote returns the error of the first rule that the note breaks   *)
(* (exercise 1, lines 66 and 67), the tags' after the others and the first *)
(* bad tag's first; bytes that are no UTF-8 in a tag break none.           *)
Validates(n) ==
    LET err == ValidateNote(n) IN
    /\ \A k \in DOMAIN NoteErrs : err = NoteErrs[k] <=> Kept(n, k - 1) /\ ~Kept(n, k)
    /\ err = "nil" <=> Kept(n, 5) /\ \A i \in DOMAIN n.tags : Good(n.tags[i])
    /\ err \in {"ErrEmptyTag", "ErrTagTooLong"} =>
          \E i \in DOMAIN n.tags : /\ err = TagErr(n.tags[i])
                                   /\ \A j \in 1..i - 1 : Good(n.tags[j])

(* Rendering sorts the tags, whatever order they come in, and leaves the   *)
(* note as it was (exercise 1, lines 100-102).                             *)
Renders(tags) ==
    LET after == RenderNoteMarkdown(tags)
        doc == Names(after.document)
    IN  after.note = tags /\ Ascending(doc) /\ ToBag(doc) = ToBag(Names(tags))

(* The two indexes agree for every input (exercise 2, lines 56-59), and    *)
(* have under each tag the notes that carry it, in order.                  *)
Indexes(notes) ==
    LET fast == BuildTagIndexFast(notes)
        v == Visits(notes)
        Carry(i) == {j \in DOMAIN v : v[j].tag = v[i].tag}
    IN  /\ fast = BuildTagIndexSlow(notes)
        /\ DOMAIN fast = {Key(v[i].tag) : i \in DOMAIN v}
        /\ \A i \in DOMAIN v :
              /\ Len(fast[Key(v[i].tag)]) = Cardinality(Carry(i))
              /\ fast[Key(v[i].tag)][Cardinality({j \in Carry(i) : j <= i})] = v[i].id

Agrees == CASE fn = "ValidateNote" -> Validates(arg)
            [] fn = "RenderNoteMarkdown" -> Renders(arg)
            [] fn = "BuildTagIndex" -> Indexes(arg)

=============================================================================
