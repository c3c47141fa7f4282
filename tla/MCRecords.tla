----------------------------- MODULE MCRecords ------------------------------
(***************************************************************************)
(* The records and their texts for TLC: companies, projects and tasks,     *)
(* notes, sections, what a session is given of them, the rules on their    *)
(* texts, and the files of the claude folder. Each is explored in          *)
(* behaviours of its own, chosen in the initial state; a rule that is a    *)
(* pure function has one initial state for each of its inputs.             *)
(***************************************************************************)
EXTENDS Catalog, Notes, SessionContext, TextRules, ClaudeFolder, TLC

VARIABLE part

(* Catalog, Notes: the second name is the first in another case *)
MCFold  == [n \in {1, 2, 3} |-> IF n = 2 THEN 1 ELSE n]
MCSlug  == [l \in {"1", "2", "3", "One"} |-> CASE l = "2" -> 2 [] l = "3" -> 3 [] OTHER -> 1]
MCOwner == 1 :> 10 @@ 2 :> 10 @@ 3 :> 30

(* SessionContext *)
Row(l, p, e, k, ns, st, n) ==
    [label |-> l, project |-> p, epic |-> e, isEpic |-> k, names |-> ns, steps |-> st, note |-> n]
Mentions == {<<>>, <<1>>, <<2>>, <<3>>, <<2, 3>>, <<3, 2, 3>>}
MCWorlds ==
    {[company |-> <<[name |-> 1], [name |-> 2]>>,
      project |-> <<[label |-> 1, company |-> 1], [label |-> q, company |-> 2]>>,
      task    |-> <<Row(1, 1, IF e THEN 2 ELSE 0, FALSE, ns, TRUE, "FULL"), Row(2, 1, 0, e, ms, ~e, "REFERENCE"),
                    Row(l, 2, 0, FALSE, <<>>, FALSE, "none"), Row(3, 1, 0, FALSE, <<>>, TRUE, "none")>>] :
        q \in {1, 2}, e \in BOOLEAN, ns \in Mentions, ms \in {<<>>, <<1>>}, l \in {1, 2, 4}}
MCAnchors == {AnchorOf(e, v) : e \in {"company", "project", "task", "note", "any"}, v \in {1, 2}} \cup {AnchorOf("task", 3)}
MCRequests ==
    {<<a>> : a \in MCAnchors} \cup
    {<<a, b>> : a \in {x \in MCAnchors : x.entity \in {"project", "task"}}, b \in {x \in MCAnchors : x.entity # "any"}}

Upto(S, n) == UNION {[1 .. k -> S] : k \in 0 .. n}

(* TextRules *)
MCCut    == Upto({"a", "w", " "}, 4)
MCNeedles == {<<" ">>, <<"w">>, <<"a", "a">>, <<"a", "w">>}
MCBroken == Upto({"a", "nl", "cr", "ls", " "}, 4)
MCCased  == Upto({"s", "S", "long s", "t"}, 2)
MCUppers == [c \in {"s", "long s", "t"} |-> IF c = "t" THEN "T" ELSE "S"]
MCLowers == [c \in {"S", "T"} |-> IF c = "T" THEN "t" ELSE "s"]
MCRank   == [c \in {"S", "T", "s", "t", "long s"} |->
                CASE c = "S" -> 1 [] c = "T" -> 2 [] c = "s" -> 3 [] c = "t" -> 4 [] OTHER -> 5]
Chunks   == {<<"t1">>, <<"t3">>, <<"t4">>, <<"nl">>, <<"[[", "w", "]]">>, <<"[[">>, <<"]]">>, <<"[[", "v", "]]">>}
MCTexts  == {t \in {a \o b \o c \o d \o e : a, b, c, d, e \in Chunks} :
                \A k \in 1 .. Len(t) - 1 : ~({t[k], t[k + 1]} \subseteq {"t1", "t3", "t4"})}
MCFlat   == {t \in Upto({"a", "b", "_"}, 8) \ {<<>>} :
                /\ t[1] # "_" /\ t[Len(t)] # "_"
                /\ \A k \in 1 .. Len(t) - 1 : <<t[k], t[k + 1]>> # <<"_", "_">>}
MCTerms  == {<<"a", "b">>, <<"a", "_", "b">>}
MCRows   == Upto([title : BOOLEAN, projects : {{}, {1}, {1, 2}, {2}}], 3)

(* ClaudeFolder *)
SkillPaths ==
    {<<"skills">> \o f \o <<x>> :
        f \in Upto({"a"}, 5) \cup {<<"synced">>, <<"synced", "b">>, <<"synced", "b", "a">>, <<"a:b">>, <<".hidden", "a">>, <<"a", ".claude">>},
        x \in {"SKILL.md", "x.md"}}
PluginPaths ==
    {<<"plugins", "cache", "m", "p", "v">> \o f \o <<"SKILL.md">> :
        f \in {<<"skills", "a">>, <<".claude", "skills", "a">>, <<"a">>, <<"skills", "a", "b">>}}
OtherPaths ==
    {<<"commands">> \o f \o <<"x.md">> : f \in Upto({"a"}, 5)} \cup
    {<<"memory", "x.md">>, <<"memory", "a", "x.md">>, <<"memory", "MEMORY.md">>, <<"CLAUDE.md">>, <<"x.md">>}
MCTrees == LET paths == SkillPaths \cup PluginPaths \cup OtherPaths IN {{a, b} : a, b \in paths}
OnDisk  == {<<<<"a", "b">>>>, <<<<"a">>, <<"a", "b">>>>, <<<<"a">>>>, <<<<"a", "-", "b">>>>, <<<<"a", ".", "b">>>>, <<<<"a">>, <<"b">>>>,
            <<<<"a">>, <<"a", "-", "b">>>>, <<<<"a", "-", "b">>, <<"b">>>>, <<<<"a">>, <<"b">>, <<"b">>>>}
MCDisks == {d \cup {<<>>} : d \in {s \in SUBSET OnDisk : \A p \in s : Len(p) > 1 => SubSeq(p, 1, Len(p) - 1) \in s}}
MCRecorded == {<<<<"a">>, <<"b">>>>, <<<<"b">>>>}
MCTopics  == {[terms |-> t, pairs |-> p] : t \in {{1, 2}, {2, 3}, {3, 4}, {1}}, p \in {{12}, {34}}}
MCMemory  == {[group |-> g, terms |-> t.terms, pairs |-> t.pairs] : g \in {1, 2}, t \in MCTopics}
MCMemories == [1 .. 4 -> {m \in MCMemory : m.pairs = {12}}] \cup [1 .. 2 -> MCMemory]
MCLibrary == {[applies |-> {1}, terms |-> {1, 2, 3}, pairs |-> {34}], [applies |-> {1, 2}, terms |-> {4, 5}, pairs |-> {45}]}

-----------------------------------------------------------------------------
WorldRest ==
    world = [company |-> <<>>, project |-> <<>>, task |-> <<>>] /\ request = <<>> /\ loaded = <<>> /\ answer = Silent /\ edits = 0
HomeRest   == [t \in OnTask |-> CHOOSE p \in InProject : TRUE]
TopicsRest == compared = <<>> /\ parent = <<>> /\ pairing = <<>>
NoSample   == [kind |-> "none"]
NoQuery    == [text |-> <<>>, term |-> <<>>, rows |-> <<>>, scope |-> 0]

Init ==
    /\ part \in {"places", "tasks", "notes", "sections", "context", "rules", "references", "search", "folder", "resources", "topics"}
    /\ IF part = "tasks" THEN TasksInit ELSE PlacesInit
    /\ NotesInit /\ (part # "notes" => home = HomeRest)
    /\ SectionsInit
    /\ IF part = "context" THEN ContextInit ELSE WorldRest
    /\ IF part = "rules" THEN RulesInit ELSE sample = NoSample
    /\ IF part = "references" THEN TextInit ELSE text = <<>>
    /\ IF part = "search" THEN SearchInit ELSE query = NoQuery
    /\ IF part = "folder" THEN FolderInit ELSE looked = NoSample
    /\ ResourcesInit
    /\ IF part = "topics" THEN TopicsInit ELSE TopicsRest

inputs == <<sample, text, query, looked, part>>

Next ==
    /\ UNCHANGED inputs
    /\ \/ part = "places" /\ PlacesNext /\ UNCHANGED <<noting, paging, contexts, resources, analysing>>
       \/ part = "tasks" /\ TasksNext /\ UNCHANGED <<noting, paging, contexts, resources, analysing>>
       \/ part = "notes" /\ NotesNext /\ UNCHANGED <<catalog, paging, contexts, resources, analysing>>
       \/ part = "sections" /\ SectionsNext /\ UNCHANGED <<catalog, noting, contexts, resources, analysing>>
       \/ part = "context" /\ ContextNext /\ UNCHANGED <<catalog, noting, paging, resources, analysing>>
       \/ part = "resources" /\ ResourcesNext /\ UNCHANGED <<catalog, noting, paging, contexts, analysing>>
       \/ part = "topics" /\ TopicsNext /\ UNCHANGED <<catalog, noting, paging, contexts, resources>>

Spec == Init /\ [][Next]_<<inputs, catalog, noting, paging, contexts, resources, analysing>>

(* What is given to sessions and shown to people of texts and files.          *)
TextsInv == ContextInv /\ RulesInv /\ FolderInv
=============================================================================
