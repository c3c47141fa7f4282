------------------------------ MODULE TextRules -------------------------------
(***************************************************************************)
(* The kernel's rules for measuring, cutting, searching, splitting and     *)
(* comparing text.  A text is a sequence of characters; a character takes  *)
(* one UTF-16 unit or two, indices count units, and a position inside a    *)
(* text counts the characters before it.                                   *)
(***************************************************************************)
EXTENDS Integers, Sequences, FiniteSets
LOCAL INSTANCE SequencesExt
LOCAL INSTANCE FiniteSetsExt

CONSTANTS
    Wide,       \* the characters of two units
    Uppers,     \* to_uppercase and to_lowercase where they give one character:
    Lowers,     \*   functions on the characters whose case changes
    CutTexts, Needles, BrokenTexts, CasedTexts,   \* the texts looked at
    Rank        \* the characters' order

VARIABLE sample    \* the texts and the index under the rules

Width(c) == IF c \in Wide THEN 2 ELSE 1

(* len *)
Units(t) == FoldLeft(LAMBDA n, c : n + Width(c), 0, t)

Head0(t, n) == SubSeq(t, 1, n)

(* byte_offset: the characters that end at or before the index *)
Offset(t, index) == Max({n \in 0 .. Len(t) : Units(Head0(t, n)) <= index})

Substring(t, start, end) == SubSeq(t, Offset(t, start) + 1, Max({Offset(t, end), Offset(t, start)}))
Prefix(t, end)           == Substring(t, 0, end)
Suffix(t, start)         == SubSeq(t, Offset(t, start) + 1, Len(t))

StartsAt(t, needle, n) == n + Len(needle) <= Len(t) /\ SubSeq(t, n + 1, n + Len(needle)) = needle

(* index_of_from: the first needle at or after the index; -1 for none *)
IndexOfFrom(t, needle, from) ==
    LET at == {n \in Offset(t, from) .. Len(t) : StartsAt(t, needle, n)}
    IN  IF at = {} THEN -1 ELSE Units(Head0(t, Min(at)))

(* match_indices: from the left, each after the end of the one before *)
Matches(t, needle) ==
    FoldLeft(LAMBDA found, n : IF StartsAt(t, needle, n) /\ (found = <<>> \/ Last(found) + Len(needle) <= n)
                               THEN Append(found, n) ELSE found,
             <<>>, [i \in 1 .. Len(t) |-> i - 1])

(* last_index_of_from: the last needle that starts at or before the index *)
LastIndexOfFrom(t, needle, from) ==
    LET at == {n \in ToSet(Matches(t, needle)) : n <= Offset(t, from)}
    IN  IF at = {} THEN -1 ELSE Units(Head0(t, Max(at)))

-----------------------------------------------------------------------------
(* One character read by a splitter: a carriage return takes the line feed  *)
(* after it                                                                 *)
Read(breaks, s, c) ==
    IF c = "nl" /\ s.cr THEN [s EXCEPT !.cr = FALSE]
    ELSE IF c \in breaks THEN [out |-> Append(s.out, s.part), part |-> <<>>, cr |-> c = "cr"]
    ELSE [s EXCEPT !.part = Append(@, c), !.cr = FALSE]

Split(breaks, t) == FoldLeft(LAMBDA s, c : Read(breaks, s, c), [out |-> <<>>, part |-> <<>>, cr |-> FALSE], t)

(* lines: no empty trailing line *)
Lines(t) ==
    LET s == Split({"nl", "cr"}, t)
    IN  IF s.part = <<>> THEN s.out ELSE Append(s.out, s.part)

(* split_linebreaks: every line break; the empty parts at the end go unless *)
(* they are kept                                                            *)
SplitLinebreaks(t, keepTrailing) ==
    LET s     == Split({"nl", "cr", "ls"}, t)
        parts == Append(s.out, s.part)
        upTo  == Max({i \in 1 .. Len(parts) : parts[i] # <<>>} \cup {1})
        kept  == SubSeq(parts, 1, upTo)
    IN  IF keepTrailing THEN parts
        ELSE IF kept = <<<<>>>> /\ t # <<>> THEN <<>> ELSE kept

(* collapse_whitespace *)
CollapseWhitespace(t) ==
    LET space(c) == c \in {" ", "nl", "cr"}
    IN  FoldLeft(LAMBDA s, c : [out |-> IF ~space(c) THEN Append(s.out, c) ELSE IF s.run THEN s.out ELSE Append(s.out, " "),
                                run |-> space(c)],
                 [out |-> <<>>, run |-> FALSE], t).out

-----------------------------------------------------------------------------
Upper(c) == IF c \in DOMAIN Uppers THEN Uppers[c] ELSE c
Lower(c) == IF c \in DOMAIN Lowers THEN Lowers[c] ELSE c

(* equals_ignore_case *)
EqualsIgnoreCase(a, b) ==
    /\ Len(a) = Len(b)
    /\ \A i \in DOMAIN a : a[i] = b[i] \/ Upper(a[i]) = Upper(b[i]) \/ Lower(Upper(a[i])) = Lower(Upper(b[i]))

(* compare_ignore_case: below zero, zero or above it *)
CompareIgnoreCase(a, b) ==
    LET low(c)  == Rank[Lower(Upper(c))]
        differs == {i \in DOMAIN a \cap DOMAIN b : a[i] # b[i] /\ low(a[i]) # low(b[i])}
    IN  IF differs # {} THEN low(a[Min(differs)]) - low(b[Min(differs)]) ELSE Len(a) - Len(b)

-----------------------------------------------------------------------------
RulesInit ==
    \/ \E t \in CutTexts, n \in Needles, k \in 0 .. 9 :
          k <= Units(t) + 1 /\ sample = [kind |-> "cut", text |-> t, needle |-> n, at |-> k]
    \/ \E t \in BrokenTexts : sample = [kind |-> "lines", text |-> t]
    \/ \E a, b, c \in CasedTexts : sample = [kind |-> "case", a |-> a, b |-> b, c |-> c]

-----------------------------------------------------------------------------
(* jstr::prefix and suffix: the two parts of a cut are the whole text and    *)
(* the first is at most as long as asked, short of it by one unit only where *)
(* a character of two would be split.                                        *)
CutKeepsAll ==
    sample.kind = "cut" =>
        LET t == sample.text  k == sample.at  n == Units(Prefix(t, k))
        IN  /\ Prefix(t, k) \o Suffix(t, k) = t
            /\ n <= k
            /\ k <= Units(t) /\ n < k => Suffix(t, k)[1] \in Wide /\ n = k - 1

(* jstr::index_of_from and last_index_of_from: an index they answer is one   *)
(* where the needle stands, no later needle at or before it is missed, and   *)
(* the two agree on where a text's only needle is.                           *)
FoundWhereItStands ==
    sample.kind = "cut" =>
        LET t == sample.text  x == sample.needle  k == sample.at
            first == IndexOfFrom(t, x, k)  last == LastIndexOfFrom(t, x, k)
            all == {Units(Head0(t, n)) : n \in {m \in 0 .. Len(t) : StartsAt(t, x, m)}}
        IN  /\ first # -1 => Substring(t, first, first + Units(x)) = x /\ ~\E i \in all : k <= i /\ i < first
            /\ last # -1 => Substring(t, last, last + Units(x)) = x
            /\ Len(x) = 1 => (last = -1 /\ ~\E i \in all : i <= k) \/ (last \in all /\ ~\E i \in all : last < i /\ i <= k)
            /\ k \in all /\ Len(x) = 1 => first = k /\ last = k

(* jstr::lines and split_linebreaks: the two splitters read the same lines,  *)
(* one without the empty part after a last break, and neither drops text.    *)
SplittersAgree ==
    sample.kind = "lines" =>
        LET t == sample.text
            trailing == t = <<>> \/ Last(t) \in {"nl", "cr"}
        IN  /\ "ls" \notin ToSet(t) => SplitLinebreaks(t, TRUE) = Lines(t) \o (IF trailing THEN <<<<>>>> ELSE <<>>)
            /\ FlattenSeq(SplitLinebreaks(t, FALSE)) = SelectSeq(t, LAMBDA c : c \notin {"nl", "cr", "ls"})
            /\ CollapseWhitespace(CollapseWhitespace(t)) = CollapseWhitespace(t)

(* jstr::compare_ignore_case: it sorts as a total order that takes exactly   *)
(* the texts equals_ignore_case calls the same for equal.                    *)
CaselessOrder ==
    sample.kind = "case" =>
        LET a == sample.a  b == sample.b  c == sample.c
        IN  /\ (CompareIgnoreCase(a, b) = 0) = EqualsIgnoreCase(a, b)
            /\ (CompareIgnoreCase(a, b) < 0) = (CompareIgnoreCase(b, a) > 0)
            /\ CompareIgnoreCase(a, b) <= 0 /\ CompareIgnoreCase(b, c) <= 0 => CompareIgnoreCase(a, c) <= 0

-----------------------------------------------------------------------------
(***************************************************************************)
(* The references [[name]] in the text a session reads: where they are     *)
(* found, outside code spans and fenced blocks, and what they expand to.   *)
(* A text is a sequence of tokens: "[[", "]]", a word, the end of a line   *)
(* and runs of one, three or four backticks, no two of which touch.        *)
(***************************************************************************)

CONSTANTS
    Texts,        \* the texts
    Component,    \* the words that name components of the project
    Known         \* the words that name its connections and tasks

VARIABLE text     \* the text expanded

Opens  == "[["
Closes == "]]"
Line   == "nl"
Run    == [t \in {"t1", "t3", "t4"} |-> CASE t = "t1" -> 1 [] t = "t3" -> 3 [] t = "t4" -> 4]
Ticks  == DOMAIN Run

(* The first position from a to b with a token of ts; b + 1 if there is none *)
FirstOf(ts, a, b) ==
    LET found == {k \in a .. b : text[k] \in ts}
    IN  IF found = {} THEN b + 1 ELSE CHOOSE k \in found : \A j \in found : k <= j

(* code_span_end: past the run that matches, or past the opening run alone *)
CodeSpanEnd(a, b) == LET close == FirstOf({text[a]}, a + 1, b) IN IF close > b THEN a + 1 ELSE close + 1

(* reference_at: a name that is there and does not begin with a bracket *)
IsReferenceAt(a, b) ==
    /\ text[a] = Opens
    /\ FirstOf({Closes}, a + 1, b) <= b
    /\ FirstOf({Closes}, a + 1, b) > a + 1
    /\ text[a + 1] # Opens

RECURSIVE RewriteLine(_, _)

(* rewrite_line on the tokens a .. b: pieces of text kept and references, in order *)
RewriteLine(a, b) ==
    IF a > b THEN <<>>
    ELSE IF text[a] \in Ticks
    THEN <<[is |-> "kept", from |-> a, to |-> CodeSpanEnd(a, b) - 1]>> \o RewriteLine(CodeSpanEnd(a, b), b)
    ELSE IF IsReferenceAt(a, b)
    THEN LET e == FirstOf({Closes}, a + 1, b) IN <<[is |-> "reference", from |-> a, to |-> e]>> \o RewriteLine(e + 1, b)
    ELSE <<[is |-> "kept", from |-> a, to |-> a]>> \o RewriteLine(a + 1, b)

(* Fence::opening: the run a line begins with, three or more; 0 if none *)
FenceAt(a) == IF a <= Len(text) /\ text[a] \in {"t3", "t4"} THEN Run[text[a]] ELSE 0

(* Mutant: any fence closes the open one *)
ClosesAny(marker, open) == marker # 0

(* Fence::closes *)
ClosesFence(marker, open) == marker >= open

RECURSIVE RewriteFrom(_, _)

(* rewrite_references from the line at a, inside a fence of length open *)
RewriteFrom(a, open) ==
    IF a > Len(text) THEN <<>>
    ELSE LET b    == IF FirstOf({Line}, a, Len(text)) > Len(text) THEN Len(text) ELSE FirstOf({Line}, a, Len(text))
             mark == FenceAt(a)
             line == <<[is |-> "kept", from |-> a, to |-> b]>>
         IN  IF open = 0
             THEN IF mark # 0 THEN line \o RewriteFrom(b + 1, mark) ELSE RewriteLine(a, b) \o RewriteFrom(b + 1, 0)
             ELSE line \o RewriteFrom(b + 1, IF ClosesFence(mark, open) THEN 0 ELSE open)

RewriteReferences ==
    IF \A k \in DOMAIN text : text[k] # Opens THEN <<[is |-> "kept", from |-> 1, to |-> Len(text)]>> ELSE RewriteFrom(1, 0)

(* expansion_of the k-th of the pieces *)
Expansion(pieces, k) ==
    LET name == text[pieces[k].from + 1]
    IN  IF name \in Known THEN "named"
        ELSE IF name \notin Component THEN "flagged"
        ELSE IF \E j \in 1 .. k - 1 : pieces[j].is = "reference" /\ text[pieces[j].from + 1] = name THEN "named"
        ELSE "described"

TextInit == text \in Texts
-----------------------------------------------------------------------------
(* A line inside a fenced block: an earlier line opened one that no line     *)
(* between closed, the opening line itself not inside another.               *)
LineStarts == {1} \cup {k + 1 : k \in {j \in DOMAIN text : text[j] = Line}}
StartOf(k) == CHOOSE s \in LineStarts : s <= k /\ \A r \in LineStarts : r <= k => r <= s

Fenced[s \in 1 .. Len(text) + 1] ==
    \E o \in LineStarts :
        /\ o < s /\ FenceAt(o) # 0 /\ ~Fenced[o]
        /\ \A c \in LineStarts : o < c /\ c < s => FenceAt(c) < FenceAt(o)

(* component_references.rs:22, "Code spans and fenced blocks are left alone. *)
(* A name that matches nothing is flagged, never dropped": the pieces are    *)
(* the whole text in order, and no reference is in a fenced block or begins  *)
(* between the first two runs of backticks of its line, if they are equal and *)
(* no bracket comes before them.                                              *)
CodeLeftAlone ==
    LET pieces == RewriteReferences
        refs   == {k \in DOMAIN pieces : pieces[k].is = "reference"}
    IN  /\ pieces # <<>> => pieces[1].from = 1 /\ pieces[Len(pieces)].to = Len(text)
        /\ \A k \in 2 .. Len(pieces) : pieces[k].from = pieces[k - 1].to + 1
        /\ \A k \in refs :
            LET p == pieces[k]
                s == StartOf(p.from)
            IN  /\ ~Fenced[s] /\ FenceAt(s) = 0
                /\ \A j \in s .. p.to : text[j] # Line
                /\ ~ \E o \in s .. p.from - 1, c \in p.from + 1 .. Len(text) :
                        /\ text[o] \in Ticks /\ text[c] = text[o] /\ StartOf(c) = s
                        /\ \A j \in s .. c - 1 : text[j] \in Ticks => j = o
                        /\ \A j \in s .. o : text[j] # Opens

(* component_references.rs:21, "The first reference to a component carries   *)
(* its description, later ones only name and folder": one description for    *)
(* each component named, and a reference in code is not one.                 *)
DescribedOnce ==
    LET pieces == RewriteReferences
        refs   == {k \in DOMAIN pieces : pieces[k].is = "reference"}
    IN  \A c \in Component :
            LET named == {k \in refs : text[pieces[k].from + 1] = c}
            IN  named # {} => Cardinality({k \in named : Expansion(pieces, k) = "described"}) = 1

-----------------------------------------------------------------------------
(***************************************************************************)
(* The search over descriptions, steps, wrapups and notes: which rows      *)
(* become hits, in which order, and the excerpt shown of each.  Texts are  *)
(* sequences of letters and single spaces, as collapse_whitespace and      *)
(* strip leave them; letters have no case.                                 *)
(***************************************************************************)

CONSTANTS
    FlatTexts,         \* the texts excerpts are taken of
    Terms,        \* the terms searched for
    Radius,       \* EXCERPT_RADIUS
    PerKind,      \* PER_KIND
    FoundRows,         \* the rows of one kind a search may meet, newest first
    SearchedIn        \* the project a search is restricted to; 0 for none

ASSUME SearchConstants == Radius \in Nat /\ PerKind \in Nat

VARIABLE query    \* what is searched: a text for its excerpt or rows for their hits

Space == "_"

(* jstr::index_of: where the term first is in the text; none is Len(t) *)
IndexOf(t, term) ==
    LET at == {k \in 0 .. Len(t) - Len(term) : SubSeq(t, k + 1, k + Len(term)) = term}
    IN  IF at = {} THEN Len(t) ELSE CHOOSE k \in at : \A j \in at : k <= j

SpacesIn(t) == {k \in 0 .. Len(t) - 1 : t[k + 1] = Space}

(* The first space at or after start, if it is before the match *)
StartAt(t, start, at) ==
    LET after == {k \in SpacesIn(t) : k >= start}
        space == CHOOSE k \in after : \A j \in after : k <= j
    IN  IF start > 0 /\ after # {} /\ space < at THEN space + 1 ELSE start

(* The last space at or before end, if it is past the match *)
EndAt(t, end, past) ==
    LET before == {k \in SpacesIn(t) : k <= end}
        space  == CHOOSE k \in before : \A j \in before : j <= k
    IN  IF end < Len(t) /\ before # {} /\ space > past THEN space ELSE end

LeastOf(a, b) == IF a < b THEN a ELSE b

(* excerpt: from and to are the places it is cut at *)
Excerpt(t, term) ==
    LET at == IndexOf(t, term)
    IN  IF at = Len(t) THEN [from |-> 0, to |-> LeastOf(Len(t), 2 * Radius)]
        ELSE [from |-> StartAt(t, IF at > Radius THEN at - Radius ELSE 0, at),
              to   |-> EndAt(t, LeastOf(Len(t), at + Len(term) + Radius), at + Len(term))]

Shown(t, term) == SubSeq(t, Excerpt(t, term).from + 1, Excerpt(t, term).to)

(* candidates_wanted: all of them when the search is scoped *)
Candidates(rows, scope) == IF scope = 0 THEN SubSeq(rows, 1, LeastOf(Len(rows), PerKind)) ELSE rows

InScope(row, scope) == scope = 0 \/ scope \in row.projects

(* description_hits, step_hits, wrapup_hits and note_hits: the candidates in scope, at most PerKind *)
HitsOf(rows, scope) ==
    LET found == SelectSeq(Candidates(rows, scope), LAMBDA r : InScope(r, scope))
    IN  SubSeq(found, 1, LeastOf(Len(found), PerKind))

(* search_scoped: a stable sort puts a title hit before a body hit *)
Ranked(hits) == SelectSeq(hits, LAMBDA h : h.title) \o SelectSeq(hits, LAMBDA h : ~h.title)

SearchInit ==
    \/ \E t \in FlatTexts, term \in Terms : query = [text |-> t, term |-> term, rows |-> <<>>, scope |-> 0]
    \/ \E rows \in FoundRows, scope \in SearchedIn : query = [text |-> <<>>, term |-> <<>>, rows |-> rows, scope |-> scope]
-----------------------------------------------------------------------------
(* excerpt, "The match with the radius either side": wherever the words are  *)
(* cut, a text that holds the term shows it whole, with at most the radius   *)
(* on each side.                                                             *)
ExcerptHoldsMatch ==
    LET t == query.text  term == query.term  at == IndexOf(t, term)  cut == Excerpt(t, term)
    IN  at < Len(t) =>
            /\ IndexOf(Shown(t, term), term) < Len(Shown(t, term))
            /\ cut.from <= at /\ at - cut.from <= Radius
            /\ cut.to >= at + Len(term) /\ cut.to - (at + Len(term)) <= Radius

(* search_in_project, "restricted to what belongs to one project": rows of   *)
(* other projects never crowd out the project's own: it finds the newest of  *)
(* them, as many as there are up to the cap, title matches first.            *)
ScopeCrowdsNothingOut ==
    LET own  == SelectSeq(query.rows, LAMBDA r : InScope(r, query.scope))
        hits == Ranked(HitsOf(query.rows, query.scope))
    IN  /\ Len(hits) = LeastOf(Len(own), PerKind)
        /\ \A k \in DOMAIN hits : \E j \in 1 .. Len(hits) : own[j] = hits[k]
        /\ \A j, k \in DOMAIN hits : j < k /\ hits[k].title => hits[j].title

(* The rules on texts, each against its reference definition.                 *)
RulesInv ==
    /\ CodeLeftAlone /\ DescribedOnce
    /\ ExcerptHoldsMatch /\ ScopeCrowdsNothingOut
    /\ CutKeepsAll /\ FoundWhereItStands /\ SplittersAgree /\ CaselessOrder
=============================================================================
