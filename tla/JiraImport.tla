------------------------------ MODULE JiraImport ------------------------------
(***************************************************************************)
(* The import of Jira issues as a project's tasks: an import reads its     *)
(* source, asks Jira for the chosen issues, reads which of them have a     *)
(* task and creates the rest in one transaction.  An issue's number stands *)
(* for the label of its task.                                              *)
(***************************************************************************)
EXTENDS Naturals, Sequences
LOCAL INSTANCE SequencesExt

CONSTANTS
    Issue,        \* the issues of the bound Jira project
    Importer,     \* the imports under way
    MaxDeletions  \* bound: imported tasks deleted

ASSUME ImportConstants == Issue \subseteq Nat /\ MaxDeletions \in Nat

VARIABLES
    bound,        \* whether the project binds a Jira connection with a credential
    issueTasks,   \* the tasks imported: their labels, in order of creation
    importing,    \* each import
    deletions

imports == <<bound, issueTasks, importing, deletions>>

Import == [pc : {"idle", "search", "read", "write", "done"}, issues : SUBSET Issue]
Moves(i, pc, issues) == importing' = [importing EXCEPT ![i] = [pc |-> pc, issues |-> issues]]
Labelled == {issueTasks[n] : n \in 1 .. Len(issueTasks)}

(* source, chosen_issues_query: the keys are of the bound project, each once *)
ReadSource(i, chosen) ==
    /\ importing[i].pc = "idle" /\ bound /\ chosen # {}
    /\ Moves(i, "search", chosen)
    /\ UNCHANGED <<bound, issueTasks, deletions>>

(* search: Jira answers with those of them it has *)
Search(i, found) ==
    /\ importing[i].pc = "search" /\ found \subseteq importing[i].issues
    /\ Moves(i, "read", found)
    /\ UNCHANGED <<bound, issueTasks, deletions>>

(* imported_tasks: an issue with a task is passed over *)
ReadImported(i) ==
    /\ importing[i].pc = "read"
    /\ Moves(i, "write", importing[i].issues \ Labelled)
    /\ UNCHANGED <<bound, issueTasks, deletions>>

(* create_in refuses a label that is taken, and the whole import with it *)
CreateImported(i) ==
    /\ importing[i].pc = "write"
    /\ Moves(i, "done", {})
    /\ issueTasks' = IF importing[i].issues \cap Labelled # {} THEN issueTasks
                     ELSE issueTasks \o SetToSortSeq(importing[i].issues, <)
    /\ UNCHANGED <<bound, deletions>>

(* A person deletes an imported task, or unbinds the connection *)
DeleteImported(n) ==
    /\ deletions < MaxDeletions /\ deletions' = deletions + 1
    /\ issueTasks' = RemoveAt(issueTasks, n)
    /\ UNCHANGED <<bound, importing>>

UnbindJira ==
    /\ bound /\ bound' = FALSE
    /\ UNCHANGED <<issueTasks, importing, deletions>>

ImportInit ==
    /\ bound = TRUE /\ issueTasks = <<>> /\ deletions = 0
    /\ importing = [i \in Importer |-> [pc |-> "idle", issues |-> {}]]

ImportNext ==
    \/ \E i \in Importer :
          \/ \E s \in SUBSET Issue : ReadSource(i, s) \/ Search(i, s)
          \/ ReadImported(i) \/ CreateImported(i)
    \/ \E n \in 1 .. Len(issueTasks) : DeleteImported(n)
    \/ UnbindJira

(* An import is at one of its points with the issues it read *)
ImportTypes == \A i \in DOMAIN importing : importing[i] \in Import

(* import: "importing twice adds nothing", also when the two overlap.        *)
ImportedOnce == \A m, n \in 1 .. Len(issueTasks) : m # n => issueTasks[m] # issueTasks[n]
=============================================================================
