----------------------------- MODULE ClaudeFolder -----------------------------
(***************************************************************************)
(* Claude Code's home folder as the console lists it: which of its paths   *)
(* are files it edits, which files the scan finds, and the working         *)
(* directory recovered from a project folder's flattened name.  A path is  *)
(* the sequence of its segments; a name a sequence of characters.          *)
(***************************************************************************)
EXTENDS Naturals, Sequences
LOCAL INSTANCE SequencesExt
LOCAL INSTANCE FiniteSetsExt

CONSTANTS
    MaxSegments, MaxDepth,   \* MAX_SEGMENTS and MAX_DEPTH
    Trees,                   \* the files of a home folder: sets of paths
    Disks,                   \* the entries of a disk: prefix-closed sets of paths of names, the root's included
    RecordedFolders                    \* what a session recorded as its folder: paths of names

VARIABLE looked    \* the folder listed, or the disk searched for a flattened name

Hidden(s)   == s \in {".claude", ".hidden", ".."}
Markdown(s) == s \in {"SKILL.md", "MEMORY.md", "CLAUDE.md", "x.md"}

(* is_plain_segment *)
Plain(s) == s \notin {"", "a:b"} /\ ~Hidden(s)

Under(p, folder) == Len(folder) < Len(p) /\ SubSeq(p, 1, Len(folder)) = folder

(* is_plugin_skill_folder *)
IsPluginSkillFolder(rest) ==
    \/ Len(rest) = 2 /\ rest[1] = "skills"
    \/ Len(rest) = 3 /\ rest[1] = ".claude" /\ rest[2] = "skills"

(* classify, memory_kind *)
Classify(p) ==
    LET file == Last(p)  folders == Front(p)  n == Len(folders)
    IN  IF ~Markdown(file) THEN "none"
        ELSE IF n = 0 THEN IF file = "CLAUDE.md" THEN "instructions" ELSE "none"
        ELSE CASE folders[1] = "skills" -> IF n = 1 \/ file = "SKILL.md" THEN "skill" ELSE "none"
          [] folders[1] = "commands" -> "command"
          [] folders[1] = "plugins" ->
                IF /\ n >= 5 /\ folders[2] = "cache" /\ file = "SKILL.md"
                   /\ IsPluginSkillFolder(SubSeq(folders, 6, n))
                THEN "skill" ELSE "none"
          [] folders = <<"memory">> \/ (n = 3 /\ folders[1] = "projects" /\ folders[3] = "memory") ->
                IF file = "MEMORY.md" THEN "index" ELSE "memory"
          [] OTHER -> "none"

(* ResourcePath::parse: the kind of the file, "none" when it is refused *)
Parse(p) ==
    LET plain(s) == Plain(s) \/ (Under(p, <<"plugins", "cache">>) /\ s = ".claude")
    IN  IF Len(p) > MaxSegments \/ \E i \in DOMAIN p : ~plain(p[i]) THEN "none" ELSE Classify(p)

(* is_editable *)
Editable(p) == ~Under(p, <<"skills", "synced">>) /\ ~Under(p, <<"plugins">>)

-----------------------------------------------------------------------------
Visible(p) == ~\E i \in 2 .. Len(p) : Hidden(p[i])

(* markdown_files: to MaxDepth levels below the folder *)
MarkdownFiles(tree, folder) ==
    {p \in tree : /\ Under(p, folder) /\ Markdown(Last(p))
                  /\ ~\E i \in Len(folder) + 1 .. Len(p) : Hidden(p[i])
                  /\ Len(p) - Len(folder) <= MaxDepth}

(* skill_files: a markdown file of skills/, or the SKILL.md of a folder; a  *)
(* folder that has one is not searched further                              *)
SkillFiles(tree) ==
    {p \in tree :
        /\ Under(p, <<"skills">>) /\ Visible(p)
        /\ \/ Len(p) = 2 /\ Markdown(p[2])
           \/ /\ Len(p) > 2 /\ Last(p) = "SKILL.md" /\ Len(p) - 3 <= MaxDepth
              /\ ~\E i \in 2 .. Len(p) - 2 : Append(SubSeq(p, 1, i), "SKILL.md") \in tree}

(* plugin_skill_files, skill_files_in: of an installation in the cache *)
PluginSkillFiles(tree) ==
    {p \in tree : /\ Under(p, <<"plugins", "cache">>) /\ Last(p) = "SKILL.md"
                  /\ Len(p) >= 6 /\ IsPluginSkillFolder(SubSeq(p, 6, Len(p) - 1))}

(* describe: a file whose path is refused is left out *)
Described(files) == {p \in files : Parse(p) # "none"}

(* with_source *)
SourceOf(p) ==
    CASE Under(p, <<"plugins">>) -> "plugin"
      [] Len(p) = 5 /\ Under(p, <<"skills", "synced">>) -> "synced"
      [] OTHER -> "own"

(* catalog, skills and memory_groups: the files listed, by screen *)
Listing(tree) ==
    [skills   |-> Described(SkillFiles(tree)) \cup Described(PluginSkillFiles(tree)),
     commands |-> Described(MarkdownFiles(tree, <<"commands">>)),
     memories |-> {p \in Described(MarkdownFiles(tree, <<"memory">>)) : Parse(p) = "memory"}]

-----------------------------------------------------------------------------
(* flatten: anything but a letter or a digit becomes a dash *)
Flat(name) == [i \in DOMAIN name |-> IF name[i] \in {"/", ".", "-"} THEN "-" ELSE name[i]]

(* folder_name: of a path, its separators flattened too *)
FolderName(path) == FlattenSeq([i \in DOMAIN path |-> <<"-">> \o Flat(path[i])])

EntriesOf(disk, at) == {p \in disk : Len(p) = Len(at) + 1 /\ SubSeq(p, 1, Len(at)) = at}

(* found_on_disk, descend: an entry is the rest of the name, or starts it and *)
(* is searched, and a branch that dead-ends is abandoned; every path that     *)
(* some order of the entries answers                                          *)
FoundOnDisk(disk, folder) ==
    LET Descend[at \in disk, i \in 1 .. Len(folder) + 1] ==
          LET rest == SubSeq(folder, i, Len(folder))
          IN  UNION {LET flat == Flat(Last(p))
                     IN  IF rest = flat THEN {p}
                         ELSE IF IsPrefix(flat \o <<"-">>, rest) THEN Descend[p, i + Len(flat) + 1] ELSE {} : p \in EntriesOf(disk, at)}
    IN  Descend[<<>>, 2]

(* recorded_in_sessions: only a recorded folder that flattens to the name *)
RecordedInSessions(sessions, folder) == {p \in sessions : FolderName(p) = folder}

(* WorkingDirectory::recover: what it may answer; none is a guess *)
Recover(sessions, disk, folder) ==
    IF RecordedInSessions(sessions, folder) # {} THEN RecordedInSessions(sessions, folder)
    ELSE FoundOnDisk(disk, folder)

-----------------------------------------------------------------------------
FolderInit ==
    \/ \E t \in Trees : looked = [kind |-> "tree", tree |-> t]
    \/ \E d \in Disks : \E p \in d \ {<<>>}, s \in SUBSET RecordedFolders :
          looked = [kind |-> "disk", disk |-> d, from |-> p, sessions |-> s]

-----------------------------------------------------------------------------
(* ResourceScanner and ResourcePath: what the scan finds, unless a segment   *)
(* is one no path may have, is a path the other calls accept, of the kind    *)
(* its screen says: no skill, a plugin's deepest included, is lost between.  *)
FoundCanBeOpened ==
    looked.kind = "tree" =>
        \A p \in SkillFiles(looked.tree) \cup PluginSkillFiles(looked.tree) :
            "a:b" \in ToSet(p) \/ ".hidden" \in ToSet(p) \/ ".." \in ToSet(p)
            \/ (p \in Listing(looked.tree).skills /\ Parse(p) = "skill")

(* skill_files: a folder with a SKILL.md is one skill, whatever its own      *)
(* folders hold.                                                             *)
SkillIsNotABucket ==
    looked.kind = "tree" =>
        \A p, q \in SkillFiles(looked.tree) :
            Len(p) > 2 /\ p # q => ~Under(q, Front(p))

(* with_source, is_editable: a skill shown as a plugin's or as synced from    *)
(* claude.ai is one no call edits, for its provider would undo the edit.      *)
ProvidedIsNotEdited ==
    looked.kind = "tree" =>
        \A p \in Listing(looked.tree).skills : SourceOf(p) # "own" => ~Editable(p)

(* WorkingDirectory: a project's folder that is still on the disk is always  *)
(* recovered, as a path with the project's flattened name, however many      *)
(* other folders start the same way.                                         *)
FolderRecovered ==
    looked.kind = "disk" =>
        LET name == FolderName(looked.from)
            found == Recover(looked.sessions, looked.disk, name)
        IN  found # {} /\ \A p \in found : FolderName(p) = name

-----------------------------------------------------------------------------
(***************************************************************************)
(* The console's edits of a project's memories in Claude Code's folder.    *)
(* A session writes the same files at any moment.  A file carries the      *)
(* millisecond it was written in and who wrote it; the index MEMORY.md is  *)
(* the set of the lines it holds, a line being the memory it links.  A     *)
(* call is cut between its system calls; the console makes one at a time.  *)
(***************************************************************************)

CONSTANTS
    Memory,      \* the files beside the index
    MaxMillis,   \* bound: milliseconds of the clock
    MaxCalls,    \* bound: calls of the console
    MaxSessionWrites    \* bound: writes of sessions

VARIABLES
    memory,      \* each memory: the session's write it holds, 0 for the console's, and when
    index,       \* the lines of MEMORY.md
    opened,      \* the version of each memory the editor shows
    saving,      \* the console's call under way
    millis, calls,
    sessions     \* the writes of sessions so far

resources == <<memory, index, opened, saving, millis, calls, sessions>>

None == [by |-> 0, at |-> 0]
Idle == [pc |-> "idle", file |-> None, new |-> FALSE, lines |-> {}, since |-> 0]

(* What the console writes *)
ConsoleWrote == [by |-> 0, at |-> millis]

Quiet == saving.pc = "idle"
Call  == Quiet /\ calls < MaxCalls /\ calls' = calls + 1

Tick ==
    /\ millis < MaxMillis
    /\ millis' = millis + 1
    /\ UNCHANGED <<memory, index, opened, saving, calls, sessions>>

(* Claude writes a memory with its line, rewrites one, or tidies one away *)
SessionWrites(m) ==
    /\ sessions < MaxSessionWrites /\ sessions' = sessions + 1
    /\ \/ memory' = [memory EXCEPT ![m] = [by |-> sessions', at |-> millis]] /\ index' = index \cup {m}
       \/ memory[m] # None /\ memory' = [memory EXCEPT ![m] = None] /\ index' = index \ {m}
    /\ UNCHANGED <<opened, saving, millis, calls>>

(* read, ClaudeHome::read: the body and the version it was read from *)
Open(m) ==
    /\ Call /\ memory[m] # None
    /\ opened' = [opened EXCEPT ![m] = memory[m]]
    /\ UNCHANGED <<memory, index, saving, millis, sessions>>

(* ensure_same_version: a rewrite names the version it was made from, a new  *)
(* file finds nothing                                                        *)
SameVersion(current, expected) == current = expected

(* save, up to the write *)
Save(m) ==
    /\ Call
    /\ SameVersion(memory[m].at, opened[m].at)
    /\ saving' = [pc |-> "write", file |-> m, new |-> memory[m] = None, lines |-> {}, since |-> sessions]
    /\ UNCHANGED <<memory, index, opened, millis, sessions>>

(* ClaudeHome::write: beside the target, renamed over it in one step *)
WriteMemory ==
    /\ saving.pc = "write"
    /\ memory' = [memory EXCEPT ![saving.file] = ConsoleWrote]
    /\ saving' = IF saving.new THEN [saving EXCEPT !.pc = "read index"] ELSE Idle
    /\ opened' = [opened EXCEPT ![saving.file] = ConsoleWrote]
    /\ UNCHANGED <<index, millis, calls, sessions>>

(* delete, ClaudeHome::remove: refused where there is no file *)
DeleteMemory(m) ==
    /\ Call /\ memory[m] # None
    /\ memory' = [memory EXCEPT ![m] = None]
    /\ opened' = [opened EXCEPT ![m] = None]
    /\ saving' = [pc |-> "read index", file |-> m, new |-> FALSE, lines |-> {}, since |-> sessions]
    /\ UNCHANGED <<index, millis, sessions>>

(* index_body: the index as it is now *)
ReadIndex ==
    /\ saving.pc = "read index"
    /\ saving' = [saving EXCEPT !.pc = "write index", !.lines = index]
    /\ UNCHANGED <<memory, index, opened, millis, calls, sessions>>

(* with_entry, without_entry *)
WithEntry(lines, m)    == lines \cup {m}

WithoutEntry(lines, m) == lines \ {m}

(* write_index: nothing is written when nothing changed *)
Updated(lines) == IF lines = saving.lines THEN index ELSE lines

(* index_new_memory, unindex_memory *)
WriteIndex ==
    /\ saving.pc = "write index"
    /\ index' = Updated(IF saving.new THEN WithEntry(saving.lines, saving.file) ELSE WithoutEntry(saving.lines, saving.file))
    /\ saving' = Idle
    /\ UNCHANGED <<memory, opened, millis, calls, sessions>>

-----------------------------------------------------------------------------
ResourcesInit ==
    /\ memory = [m \in Memory |-> None] /\ index = {}
    /\ opened = [m \in Memory |-> None]
    /\ saving = Idle /\ millis = 1 /\ calls = 0 /\ sessions = 0

ResourcesNext ==
    \/ Tick \/ WriteMemory \/ ReadIndex \/ WriteIndex
    \/ \E m \in Memory : SessionWrites(m) \/ Open(m) \/ Save(m) \/ DeleteMemory(m)

-----------------------------------------------------------------------------
Unshown == saving.pc = "write" /\ memory[saving.file] # opened[saving.file]

(* ClaudeResourceService: "every write names the version it was made from":  *)
(* a save replaces a session's words nobody was shown only if they were      *)
(* written after the version was compared, or in the same millisecond as the *)
(* words that were.                                                          *)
ReplacesWhatItShowed ==
    Unshown => memory[saving.file].by > saving.since \/ memory[saving.file].at = opened[saving.file].at
               \/ memory[saving.file] = None

(* memory_index.rs: "A memory deleted without its line leaves a dangling     *)
(* pointer Claude would try to follow": while sessions leave the folder      *)
(* alone, between two calls the index links exactly the memories there are.  *)
IndexFollowsMemories == sessions = 0 /\ Quiet => index = {m \in Memory : memory[m] # None}

-----------------------------------------------------------------------------
(***************************************************************************)
(* The analysis of the memories: which of them an instruction file or a    *)
(* skill already repeats, and which say the same thing in several          *)
(* projects.  A memory is the terms and word pairs of its text; shares are *)
(* compared as products of whole numbers, hundredths on the other side.    *)
(* The clusters are joined one pair at a time.                             *)
(***************************************************************************)

CONSTANTS
    Library,          \* the documents: records of terms, pairs and the groups they apply to
    Memories,         \* the lists of memories analysed: group, terms, pairs
    MinTerms, MinShared,              \* MIN_TERMS, MIN_SHARED_TERMS
    CoveredTerms, CoveredPairs,       \* COVERED_TERMS, COVERED_PAIRS in hundredths
    TopicOverlap, TopicSimilarity     \* SAME_TOPIC_OVERLAP, SAME_TOPIC_SIMILARITY

VARIABLES
    compared,  \* the memories being compared
    parent,    \* Clusters::parent
    pairing    \* the pairs still to be compared, in order

analysing == <<compared, parent, pairing>>

Size(S) == Cardinality(S)

(* share >= percent / 100; nothing of nothing is 0 *)
AtLeast(part, whole, percent) == IF whole = {} THEN percent = 0 ELSE 100 * Size(part) >= percent * Size(whole)

Smaller(S, T) == IF Size(S) <= Size(T) THEN S ELSE T

(* read_group: a memory with too few terms is left out *)
ReadGroup(memories) == SelectSeq(memories, LAMBDA m : Size(m.terms) >= MinTerms)

(* covered: the documents of a memory's group that repeat it *)
Covering(m) ==
    {d \in Library : /\ m.group \in d.applies
                     /\ AtLeast(m.terms \cap d.terms, m.terms, CoveredTerms)
                     /\ AtLeast(m.pairs \cap d.pairs, m.pairs, CoveredPairs)}

(* say_the_same *)
SayTheSame(m, n) ==
    LET shared == m.terms \cap n.terms
    IN  /\ Size(shared) >= MinShared
        /\ AtLeast(shared, Smaller(m.terms, n.terms), TopicOverlap)
        /\ AtLeast(shared, m.terms \cup n.terms, TopicSimilarity)

(* analyze: what no document repeats is compared *)
WorthComparing(memories) == SelectSeq(ReadGroup(memories), LAMBDA m : Covering(m) = {})

-----------------------------------------------------------------------------
(* Clusters::root *)
Root[at \in Nat] == IF parent[at] = at THEN at ELSE Root[parent[at]]

OnThePath[at \in Nat] == {at} \cup (IF parent[at] = at THEN {} ELSE OnThePath[parent[at]])

(* Clusters::join: the paths to both roots are shortened, then one root is  *)
(* hung under the other                                                     *)
Join(i, j) ==
    LET short == [k \in DOMAIN parent |-> IF k \in OnThePath[i] \cup OnThePath[j] THEN Root[k] ELSE parent[k]]
    IN  [short EXCEPT ![Root[i]] = Root[j]]

(* Clusters::members *)
Members == {{i \in DOMAIN parent : Root[i] = r} : r \in {Root[i] : i \in DOMAIN parent}}

(* candidate_of: several memories of several projects *)
IsCandidate(members) == Size(members) >= 2 /\ Size({compared[i].group : i \in members}) >= 2

(* recurring: the next pair, joined when they say the same *)
ComparePair ==
    /\ pairing # <<>>
    /\ LET i == Head(pairing)[1]  j == Head(pairing)[2]
       IN  parent' = IF SayTheSame(compared[i], compared[j]) THEN Join(i, j) ELSE parent
    /\ pairing' = Tail(pairing)
    /\ UNCHANGED compared

Pairs(n) == FlattenSeq([i \in 1 .. n |-> [k \in 1 .. n - i |-> <<i, i + k>>]])

TopicsInit ==
    /\ \E ms \in Memories : compared = WorthComparing(ms)
    /\ parent = [i \in DOMAIN compared |-> i]
    /\ pairing = Pairs(Len(compared))

TopicsNext == ComparePair

-----------------------------------------------------------------------------
SameTopic == {<<i, j>> \in (DOMAIN compared) \X (DOMAIN compared) : i # j /\ SayTheSame(compared[i], compared[j])}

(* Reference: the memories a chain of same-saying memories leads to *)
Reach(i) ==
    LET grown[n \in 0 .. Len(compared)] ==
          IF n = 0 THEN {i} ELSE grown[n - 1] \cup {j \in DOMAIN compared : \E k \in grown[n - 1] : <<k, j>> \in SameTopic}
    IN  grown[Len(compared)]

(* recurring: when every pair was compared, the clusters are the chains of   *)
(* memories that say the same, whatever order they were joined in.           *)
ClustersAreTopics == pairing = <<>> => Members = {Reach(i) : i \in DOMAIN compared}

(* recurring, candidate_of: "one project repeating itself is a tidy-up,      *)
(* several is a rule", and nothing a document repeats word for word is       *)
(* offered again.                                                            *)
PromotedIsShared ==
    pairing = <<>> =>
        \A ms \in {ms \in Members : IsCandidate(ms)} :
            /\ \E i, j \in ms : compared[i].group # compared[j].group
            /\ \A i \in ms : \A d \in Library :
                  compared[i].group \in d.applies => ~(compared[i].terms \subseteq d.terms /\ compared[i].pairs \subseteq d.pairs)

(* The claude folder as it is scanned, written and compared.                  *)
FolderInv ==
    /\ FoundCanBeOpened /\ SkillIsNotABucket /\ ProvidedIsNotEdited /\ FolderRecovered
    /\ ReplacesWhatItShowed /\ IndexFollowsMemories
    /\ ClustersAreTopics /\ PromotedIsShared
=============================================================================
