-------------------------------- MODULE Notes ---------------------------------
(***************************************************************************)
(* Notes: where each one lives (everywhere, with a company, with a         *)
(* project), the tasks it is on and its place among the notes of each.     *)
(* People write them in the console, sessions through rekall_note, and     *)
(* tasks and projects change under them.                                   *)
(***************************************************************************)
EXTENDS Naturals, FiniteSets

CONSTANTS
    Note, OnTask, InProject,    \* identifiers of rows
    Owner,                      \* the company of each project
    NoteTitle,                  \* titles, one for each spelling that differs by more than case
    MaxNoteWrites               \* bound on writes

ASSUME NoteConstants ==
    /\ 0 \notin InProject \cup NoteTitle /\ IsFiniteSet(OnTask)
    /\ DOMAIN Owner = InProject /\ MaxNoteWrites \in Nat

VARIABLES
    note,        \* the note rows
    noteLink,        \* the document_task rows
    home,        \* the project of each task; 0 once deleted
    standing,    \* the projects that have not been deleted
    strayed,     \* some task with notes changed project
    noteWrites   \* writes so far

noting == <<note, noteLink, home, standing, strayed, noteWrites>>

Global      == [kind |-> "GLOBAL", id |-> 0]
OfCompany(c) == [kind |-> "COMPANY", id |-> c]
OfProjectScope(p) == [kind |-> "PROJECT", id |-> p]
NoteScope   == {Global} \cup {OfCompany(Owner[p]) : p \in InProject} \cup {OfProjectScope(p) : p \in InProject}
Scopes      == NoteScope \ {OfProjectScope(p) : p \in InProject \ standing}   \* require_scope_owner

NoteRow == [title : NoteTitle, scope : NoteScope, mode : {"FULL", "REFERENCE"}, body : {"person", "session"}]
NoteLinkRow == [note : Note, task : OnTask, position : Nat]

NoNote == [title |-> 0, scope |-> Global, mode |-> "FULL", body |-> "person"]

Notes    == {n \in Note : note[n].title # 0}
OnTasks  == {t \in OnTask : home[t] # 0}

Write == noteWrites < MaxNoteWrites /\ noteWrites' = noteWrites + 1

-----------------------------------------------------------------------------
(* NoteScope::admits, for a task of project p *)
ScopeAdmits(scope, p) ==
    CASE scope.kind = "GLOBAL"  -> TRUE
      [] scope.kind = "COMPANY" -> scope.id = Owner[p]
      [] scope.kind = "PROJECT" -> scope.id = p

(* NoteScope::narrowest *)
Narrowest(tasks) ==
    LET places == {home[t] : t \in tasks}
    IN  IF places = {} THEN Global
        ELSE LET p == CHOOSE p \in places : TRUE
             IN  IF places = {p} THEN OfProjectScope(p)
                 ELSE IF \A q \in places : Owner[q] = Owner[p] THEN OfCompany(Owner[p]) ELSE Global

(* Mutant: a task outside the scope is let through *)
SettlesAnyway(scope, tasks) == TRUE

(* settle_scope: a task outside the scope is refused *)
Settles(scope, tasks) == \A t \in tasks : ScopeAdmits(scope, home[t])

NoteTasks(n) == {l.task : l \in {k \in noteLink : k.note = n}}
LinksOfTask(ls, t) == {l \in ls : l.task = t}

(* detach: the link goes and the task's notes close up, in the order of their places *)
Detached(ls, n, ts) ==
    LET kept == {l \in ls : ~(l.note = n /\ l.task \in ts)}
    IN  {IF l.task \in ts
         THEN [l EXCEPT !.position = Cardinality({k \in LinksOfTask(kept, l.task) : k.position < l.position})]
         ELSE l : l \in kept}

(* link: off the tasks no longer wanted, then last on each wanted one *)
Linked(n, tasks) ==
    LET on   == NoteTasks(n)
        kept == Detached(noteLink, n, on \ tasks)
    IN  kept \cup {[note |-> n, task |-> t, position |-> Cardinality(LinksOfTask(kept, t))] : t \in tasks \ on}

(* DocumentService::create; with no scope given, the narrowest *)
CreateNote(n, title, tasks, scope, mode) ==
    /\ n \notin Notes /\ Write
    /\ Settles(scope, tasks)
    /\ note' = [note EXCEPT ![n] = [title |-> title, scope |-> scope, mode |-> mode, body |-> "person"]]
    /\ noteLink' = Linked(n, tasks)
    /\ UNCHANGED <<home, standing, strayed>>

(* DocumentService::update *)
UpdateNote(n, title, tasks, scope, mode) ==
    /\ n \in Notes /\ Write
    /\ Settles(scope, tasks)
    /\ note' = [note EXCEPT ![n] = [title |-> title, scope |-> scope, mode |-> mode, body |-> "person"]]
    /\ noteLink' = Linked(n, tasks)
    /\ UNCHANGED <<home, standing, strayed>>

(* DocumentService::delete: taken off every task first *)
DeleteNote(n) ==
    /\ n \in Notes /\ Write
    /\ note' = [note EXCEPT ![n] = NoNote]
    /\ noteLink' = Detached(noteLink, n, NoteTasks(n))
    /\ UNCHANGED <<home, standing, strayed>>

NotesOn(t) == {l.note : l \in LinksOfTask(noteLink, t)}

(* The note of the task the title names: the first in its order *)
Clash(t, title) ==
    LET same == {l \in LinksOfTask(noteLink, t) : note[l.note].title = title}
    IN  {l.note : l \in {k \in same : \A m \in same : k.position <= m.position}}

(* Mutant: a rewritten note is handed over in full from then on *)
WriteNoteInFull(n, t, title, replace) ==
    /\ t \in OnTasks /\ Write
    /\ replace /\ n \in Clash(t, title)
    /\ note' = [note EXCEPT ![n].body = "session", ![n].mode = "FULL"]
    /\ UNCHANGED <<noteLink, home, standing, strayed>>

(* NoteService::write: rewrites the note the task carries under the title,  *)
(* if told to, or adds one to the project of the task                       *)
WriteNote(n, t, title, replace) ==
    /\ t \in OnTasks /\ Write
    /\ \/ /\ Clash(t, title) = {} /\ n \notin Notes
          /\ note' = [note EXCEPT ![n] = [title |-> title, scope |-> OfProjectScope(home[t]), mode |-> "FULL", body |-> "session"]]
          /\ noteLink' = noteLink \cup {[note |-> n, task |-> t, position |-> Cardinality(LinksOfTask(noteLink, t))]}
       \/ /\ replace /\ n \in Clash(t, title)
          /\ note' = [note EXCEPT ![n].body = "session"]
          /\ UNCHANGED noteLink
    /\ UNCHANGED <<home, standing, strayed>>

(* TaskService::update: the task to another project *)
MoveOnTask(t, p) ==
    /\ t \in OnTasks /\ p \in standing \ {home[t]} /\ Write
    /\ home' = [home EXCEPT ![t] = p]
    /\ strayed' = (strayed \/ NotesOn(t) # {})
    /\ UNCHANGED <<note, noteLink, standing>>

(* The rows the foreign keys take with tasks ts and the scope of project p *)
CascadeFrom(ts, p) ==
    LET gone == {n \in Notes : note[n].scope = OfProjectScope(p)}
    IN  /\ note' = [n \in Note |-> IF n \in gone THEN NoNote ELSE note[n]]
        /\ noteLink' = {l \in noteLink : l.note \notin gone /\ l.task \notin ts}
        /\ home' = [t \in OnTask |-> IF t \in ts THEN 0 ELSE home[t]]
        /\ standing' = standing \ {p}

DeleteOnTask(t) == t \in OnTasks /\ Write /\ CascadeFrom({t}, 0) /\ UNCHANGED strayed

DeleteInProject(p) == p \in standing /\ Write /\ CascadeFrom({t \in OnTasks : home[t] = p}, p) /\ UNCHANGED strayed

-----------------------------------------------------------------------------
NotesInit ==
    /\ note = [n \in Note |-> NoNote] /\ noteLink = {}
    /\ home \in [OnTask -> InProject]
    /\ standing = InProject /\ strayed = FALSE /\ noteWrites = 0

NotesNext ==
    \/ \E n \in Note, tasks \in SUBSET OnTasks, title \in NoteTitle, mode \in {"FULL", "REFERENCE"} :
          \E scope \in {Narrowest(tasks)} \cup Scopes : CreateNote(n, title, tasks, scope, mode)
    \/ \E n \in Notes, tasks \in SUBSET OnTasks, title \in NoteTitle :
          \E scope \in Scopes, mode \in {"FULL", "REFERENCE"} : UpdateNote(n, title, tasks, scope, mode)
    \/ \E n \in Note : DeleteNote(n)
    \/ \E n \in Note, t \in OnTask, title \in NoteTitle, replace \in BOOLEAN : WriteNote(n, t, title, replace)
    \/ \E t \in OnTask, p \in InProject : MoveOnTask(t, p)
    \/ \E t \in OnTask : DeleteOnTask(t)
    \/ \E p \in InProject : DeleteInProject(p)

-----------------------------------------------------------------------------
DenseOn(t) == {l.position : l \in LinksOfTask(noteLink, t)} = 0 .. Cardinality(LinksOfTask(noteLink, t)) - 1

(* document_task.rs: "dense from zero, per task", through attaching,         *)
(* detaching, rescoping and deleting, as long as no task with notes changes  *)
(* project.                                                                  *)
NotePlacesDense == ~strayed => \A t \in OnTask : DenseOn(t)

(* note_scope.rs: "every task it sits on has to be inside it", unless a task *)
(* with notes changes project.                                               *)
NotesInsideScope == ~strayed => \A l \in noteLink : ScopeAdmits(note[l.note].scope, home[l.task])

(* note_scope.rs: "taking it off its last task leaves it there instead of    *)
(* deleting it": a note ends only by name, or with the project that owns it. *)
ScopeKeepsNote ==
    \A n \in Notes : note'[n].title = 0 =>
        \/ note' = [note EXCEPT ![n] = NoNote] /\ home' = home
        \/ note[n].scope.kind = "PROJECT"

(* rekall_note: what a session writes stays under the title a person gave,   *)
(* in the scope and mode a person chose.                                     *)
SessionKeepsTitle ==
    \A n \in Notes : note'[n].body = "session" /\ note[n].body = "person" =>
        note'[n] = [note[n] EXCEPT !.body = "session"]

-----------------------------------------------------------------------------
(***************************************************************************)
(* The titled pages of the projects.  A person creates, renames, orders    *)
(* and deletes them in the console; a session adds one through             *)
(* rekall_project_section or rewrites the body of one, and reads them.     *)
(***************************************************************************)

CONSTANTS
    Page,         \* identifiers of rows
    OfPage,       \* the projects
    Heading,      \* titles as typed, trimmed
    Caseless,     \* what each title is, ignoring case
    MaxPageWrites \* bound on writes

ASSUME SectionConstants ==
    /\ 0 \notin OfPage /\ IsFiniteSet(Page)
    /\ DOMAIN Caseless = Heading /\ MaxPageWrites \in Nat

VARIABLES
    page,         \* the project_section rows
    pageBy,       \* who wrote last
    pageWrites    \* writes so far

paging == <<page, pageBy, pageWrites>>

PageRow == [project : OfPage, title : Heading, body : {"person", "session"}, position : Nat]
NoPage  == [project |-> 0, title |-> 0, body |-> "person", position |-> 0]

Pages(p) == {x \in Page : page[x].project = p}

PageWrite(who) == pageWrites < MaxPageWrites /\ pageWrites' = pageWrites + 1 /\ pageBy' = who

(* rules::clashing: already titled so, ignoring case *)
Clashing(p, title, except) == {x \in Pages(p) \ except : Caseless[page[x].title] = Caseless[title]}

(* A new section goes last *)
NextPlace(p) ==
    CHOOSE n \in {0} \cup {page[x].position + 1 : x \in Pages(p)} : \A x \in Pages(p) : page[x].position < n

AddPage(x, p, title, who) ==
    page' = [page EXCEPT ![x] = [project |-> p, title |-> title, body |-> who, position |-> NextPlace(p)]]

(* ProjectSectionCatalogService::create *)
CreatePage(x, p, title) ==
    /\ page[x] = NoPage /\ PageWrite("person")
    /\ Clashing(p, title, {}) = {}
    /\ AddPage(x, p, title, "person")

(* update: another title, unless another section has it, and another body *)
UpdatePage(x, title) ==
    /\ page[x] # NoPage /\ PageWrite("person")
    /\ Clashing(page[x].project, title, {x}) = {}
    /\ page' = [page EXCEPT ![x] = [project |-> @.project, title |-> title, body |-> "person", position |-> @.position]]

(* reorder: the order names every section of the project once *)
ReorderPages(p, order) ==
    /\ PageWrite("person")
    /\ page' = [x \in Page |-> IF x \in Pages(p)
                               THEN [page[x] EXCEPT !.position = (CHOOSE k \in DOMAIN order : order[k] = x) - 1]
                               ELSE page[x]]

(* delete; the places of the others stay *)
DeletePage(x) ==
    /\ page[x] # NoPage /\ PageWrite("person")
    /\ page' = [page EXCEPT ![x] = NoPage]

(* ProjectSectionService::write: adds the section, or rewrites the body of the one so titled *)
WritePage(x, p, title, replace) ==
    /\ PageWrite("session")
    /\ \/ /\ Clashing(p, title, {}) = {} /\ page[x] = NoPage
          /\ AddPage(x, p, title, "session")
       \/ /\ replace /\ x \in Clashing(p, title, {})
          /\ page' = [page EXCEPT ![x].body = "session"]

(* read by title: the first that matches *)
ReadPage(p, title) == Clashing(p, title, {})

Orders(p) == {o \in [1 .. Cardinality(Pages(p)) -> Pages(p)] : \A a, b \in DOMAIN o : o[a] = o[b] => a = b}

SectionsInit == page = [x \in Page |-> NoPage] /\ pageBy = "person" /\ pageWrites = 0

SectionsNext ==
    \/ \E x \in Page, title \in Heading :
          \/ \E p \in OfPage : CreatePage(x, p, title)
          \/ UpdatePage(x, title)
          \/ \E p \in OfPage, replace \in BOOLEAN : WritePage(x, p, title, replace)
    \/ \E p \in OfPage : \E o \in Orders(p) : ReorderPages(p, o)
    \/ \E x \in Page : DeletePage(x)

-----------------------------------------------------------------------------
(* rekall_read_sections: whoever added, renamed and rewrote sections, a      *)
(* title, however spelled, names at most one section of a project.           *)
TitleNamesOnePage == \A p \in OfPage, t \in Heading : Cardinality(ReadPage(p, t)) <= 1

(* project_section.rs, "a new section takes the next one": deleting and      *)
(* ordering never leave two sections of a project at the same place.         *)
PagePlacesApart ==
    \A x, y \in Page : page[x] # NoPage /\ page[x].project = page[y].project /\ page[x].position = page[y].position => x = y

(* project_section_catalog_service.rs:1-2, "a session can add a section but  *)
(* never rename, reorder or remove".                                         *)
SessionOnlyAdds ==
    pageBy' = "session" =>
       \A x \in Page : page[x] # NoPage =>
           page'[x] \in {page[x], [page[x] EXCEPT !.body = "session"]}

(* The rows have the columns the entities declare *)
NoteTypes ==
    /\ note \in [Note -> NoteRow \cup {NoNote}] /\ noteLink \subseteq NoteLinkRow
    /\ page \in [Page -> PageRow \cup {NoPage}]

(* Notes and sections, whoever adds, moves, rescopes and deletes.             *)
NotesInv == NoteTypes /\ NotePlacesDense /\ NotesInsideScope /\ TitleNamesOnePage /\ PagePlacesApart

(* What no step does: end a note with its last task, let a session take over  *)
(* a person's title, scope, mode or order.                                    *)
NotesKeep == [][ScopeKeepsNote /\ SessionKeepsTitle /\ SessionOnlyAdds]_<<noting, paging>>
=============================================================================
