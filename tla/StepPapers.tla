------------------------------ MODULE StepPapers ------------------------------
(***************************************************************************)
(* What is kept beside the steps of a task: the deviations sessions write, *)
(* which name a step by its number on the checklist, and the skills of the *)
(* task, its tag and its steps, with the list of them a session is given.  *)
(* The steps change underneath as StepFlow says.  SkillGroupService's      *)
(* groups are at the end.                                                  *)
(***************************************************************************)
EXTENDS StepFlow
LOCAL Ext == INSTANCE SequencesExt

CONSTANTS
    Skill,         \* names of skills
    SkillsMax,     \* SKILLS_PER_OWNER_MAX
    MaxPapers      \* bound on writes

ASSUME PaperConstants == SkillsMax \in Nat /\ MaxPapers \in Nat

VARIABLES
    deviation,     \* the task_deviation rows of the task
    taskSkill,     \* the task_skill rows: of the task under End, of a step under the step
    tagSkill,      \* the tag_skill rows of the tag the task carries, in order
    group,         \* the skill_placement rows: the group of each skill; 0 for none
    replanned,     \* numbers that came to name another step since they were written about
    papers         \* writes so far

papering == <<deviation, taskSkill, tagSkill, group, replanned, papers>>

DeviationRow == [number : Nat \ {0}, about : Step]
SkillRow     == [of : Step \cup {End}, name : Skill, position : Nat]

Checklist == SelectSeq(line, LAMBDA s : step[s].state # "draft")

(* step_at, and step_title_at of the context: a draft has no number *)
StepAt(ln, n) == IF n \in DOMAIN ln THEN ln[n] ELSE End

Paper == papers < MaxPapers /\ papers' = papers + 1

(* Mutant: a second deviation of a step is kept beside the first *)
WriteBeside(n) ==
    /\ Paper
    /\ StepAt(Checklist, n) # End
    /\ deviation' = deviation \cup {[number |-> n, about |-> StepAt(Checklist, n)]}
    /\ replanned' = replanned \ {n}
    /\ UNCHANGED <<flows, taskSkill, tagSkill, group>>

(* DeviationService::write: one per number, rewritten if it is there *)
WriteDeviation(n) ==
    /\ Paper
    /\ StepAt(Checklist, n) # End
    /\ deviation' = {d \in deviation : d.number # n} \cup {[number |-> n, about |-> StepAt(Checklist, n)]}
    /\ replanned' = replanned \ {n}
    /\ UNCHANGED <<flows, taskSkill, tagSkill, group>>

(* distinct_names: each once, in the order given *)
DistinctNames(names) ==
    LET first == {k \in DOMAIN names : \A j \in 1 .. k - 1 : names[j] # names[k]}
        at    == Ext!SetToSortSeq(first, <)
    IN  [k \in DOMAIN at |-> names[at[k]]]

(* replace_task_skills and task_skill::replace, for the task (End) or a step *)
ReplaceSkills(of, names) ==
    LET distinct == DistinctNames(names)
    IN  /\ Paper
        /\ of # End => step[of] # NoStep
        /\ Len(distinct) <= SkillsMax
        /\ taskSkill' = {r \in taskSkill : r.of # of} \cup
                            {[of |-> of, name |-> distinct[k], position |-> k - 1] : k \in DOMAIN distinct}
        /\ UNCHANGED <<flows, deviation, tagSkill, group, replanned>>

(* set_for_tag and tag_skill::replace *)
SetForTag(names) ==
    /\ Paper
    /\ Len(DistinctNames(names)) <= SkillsMax
    /\ tagSkill' = DistinctNames(names)
    /\ UNCHANGED <<flows, deviation, taskSkill, group, replanned>>

SkillsUnder(of) ==
    LET rows == {r \in taskSkill : r.of = of}
        at   == Ext!SetToSortSeq(rows, LAMBDA a, b : a.position < b.position)
    IN  [k \in DOMAIN at |-> at[k].name]

Scoped(names, scope) == [k \in DOMAIN names |-> [name |-> names[k], scope |-> scope]]

Names(list) == {list[k].name : k \in DOMAIN list}

(* skills_of: the task's, the tag's, then those of the steps still to be    *)
(* worked; one already listed at a wider scope is not listed again          *)
SkillsOf ==
    LET wide == DistinctNames(SkillsUnder(End) \o tagSkill)
        work == SelectSeq(line, LAMBDA s : step[s].state \notin {"draft"} \cup Complete)
        OfStep(s) == SelectSeq(SkillsUnder(s), LAMBDA n : \A k \in DOMAIN wide : wide[k] # n)
    IN  Ext!FoldLeft(LAMBDA l, s : l \o Scoped(OfStep(s), s), Scoped(wide, End), work)

(* rename_group: naming one that exists merges the two *)
RenameGroup(from, to) ==
    /\ Paper /\ \E n \in Skill : group[n] = from
    /\ group' = [n \in Skill |-> IF group[n] = from THEN to ELSE group[n]]
    /\ UNCHANGED <<flows, deviation, taskSkill, tagSkill, replanned>>

(* place: under the group, or out of any *)
Place(n, g) ==
    /\ Paper /\ group' = [group EXCEPT ![n] = g]
    /\ UNCHANGED <<flows, deviation, taskSkill, tagSkill, replanned>>

(* A step is added, edited, moved, removed or started; its skills go with it *)
PlanChanges ==
    /\ Paper
    /\ \E s \in Step :
          \/ Add(s) \/ Propose(s, TRUE) \/ Remove(s) \/ Delete(s) \/ MarkRunning(s)
          \/ \E draft, done \in {"keep", "yes", "no"} : Edit(s, draft, done)
          \/ \E at \in 0 .. Cardinality(Step) : MoveTo(s, at)
    /\ taskSkill' = {r \in taskSkill : r.of = End \/ step'[r.of].state # "none"}
    /\ replanned' = replanned \cup {n \in 1 .. Cardinality(Step) : StepAt(Checklist', n) # StepAt(Checklist, n)}
    /\ UNCHANGED <<deviation, tagSkill, group>>

Given == {<<>>} \cup {<<n>> : n \in Skill} \cup {<<n, m, n>> : n, m \in Skill}

PapersNext ==
    \/ PlanChanges
    \/ \E n \in 1 .. Cardinality(Step) : WriteDeviation(n)
    \/ \E of \in Step \cup {End}, names \in Given : ReplaceSkills(of, names)
    \/ \E names \in Given : SetForTag(names)
    \/ \E n \in Skill, g \in {0, 1, 2} : Place(n, g)
    \/ \E from, to \in {1, 2} : RenameGroup(from, to)

-----------------------------------------------------------------------------
(* texts.rs:15, "Writing again for a step that already has a deviation       *)
(* rewrites it": the one deviation of a number is about the step the number  *)
(* names, unless the checklist changed under it since it was written.        *)
DeviationNamesItsStep ==
    \A d \in deviation :
        /\ \A e \in deviation : d.number = e.number => d = e
        /\ d.number \notin replanned => d.about = StepAt(Checklist, d.number)

(* skills_of: whatever is assigned to the task, its tag or a step still to   *)
(* be worked reaches the session, once at its widest scope, and nothing      *)
(* else does; a skill of a finished, drafted or deleted step does not.       *)
SkillsReachTheirStep ==
    LET list == SkillsOf
    IN  /\ \A j, k \in DOMAIN list : list[j] = list[k] => j = k
        /\ \A k \in DOMAIN list : list[k].scope # End => \A j \in DOMAIN list : list[j].name = list[k].name => list[j].scope # End
        /\ \A s \in Step : step[s].state \in {"open", "running"} =>
               \A r \in taskSkill : r.of = s => \E k \in DOMAIN list : list[k].name = r.name /\ list[k].scope \in {s, End}
        /\ \A k \in DOMAIN list : list[k].scope = End \/ step[list[k].scope].state \in {"open", "running"}

(* The rows have the columns the entities declare *)
PaperTypes == deviation \subseteq DeviationRow /\ taskSkill \subseteq SkillRow

(* What is kept for a step beside its row, while the checklist changes.       *)
PapersInv == PaperTypes /\ DeviationNamesItsStep /\ SkillsReachTheirStep
=============================================================================
