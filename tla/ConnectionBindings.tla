-------------------------- MODULE ConnectionBindings --------------------------
(***************************************************************************)
(* One project's components, in the order a person gave them: what the     *)
(* console and the discovery of repositories do to them.  A name is a word *)
(* and a number, 1 where it carries none; a name in capitals is the same   *)
(* name.                                                                   *)
(***************************************************************************)
EXTENDS Integers, FiniteSets, Sequences
LOCAL INSTANCE FiniteSetsExt
LOCAL INSTANCE SequencesExt

CONSTANTS
    ComponentFolder,  \* the folders a component may have
    NameOf,           \* the name of each folder
    MaxComponents     \* bound: components at once

ASSUME ComponentConstants == MaxComponents \in Nat

VARIABLE components   \* the rows

Component == [name : {NameOf[f] : f \in ComponentFolder} \X (1 .. MaxComponents + 1), capitals : BOOLEAN,
              folder : ComponentFolder, position : Nat]

(* first_free_name: the number is the first that no component's name has *)
FirstFreeName(word, held) == <<word, Min({n \in 1 .. MaxComponents + 1 : ~\E c \in held : c.name = <<word, n>>})>>

(* insert_in: after the last one *)
Insert(held, name, capitals, folder) ==
    held \cup {[name |-> name, capitals |-> capitals, folder |-> folder,
                position |-> IF held = {} THEN 0 ELSE Max({c.position : c \in held}) + 1]}

(* add_for_folder_in *)
AddForFolder(held, folder) ==
    IF \E c \in held : c.folder = folder THEN held
    ELSE Insert(held, FirstFreeName(NameOf[folder], held), FALSE, folder)

-----------------------------------------------------------------------------
(* create: under the name typed, or the folder's *)
CreateComponent(name, capitals, folder) ==
    /\ Cardinality(components) < MaxComponents
    /\ ~\E c \in components : c.name = name
    /\ components' = Insert(components, name, capitals, folder)

(* update: a name no other component has, whatever its capitals *)
UpdateComponent(c, name, capitals, folder) ==
    /\ ~\E d \in components \ {c} : d.name = name
    /\ components' = (components \ {c}) \cup {[c EXCEPT !.name = name, !.capitals = capitals, !.folder = folder]}

(* reorder: every component once, numbered from the first *)
Reorder(order) ==
    components' = {[c EXCEPT !.position = order[c]] : c \in components}

DeleteComponent(c) == components' = components \ {c}

ComponentsInit == components = {}

ComponentsNext ==
    \/ \E f \in ComponentFolder, n \in 1 .. 2, u \in BOOLEAN : CreateComponent(<<NameOf[f], n>>, u, f)
    \/ \E c \in components, f, g \in ComponentFolder, u \in BOOLEAN : UpdateComponent(c, <<NameOf[g], 1>>, u, f)
    \/ \E order \in [components -> 0 .. Cardinality(components) - 1] :
          (\A c, d \in components : c # d => order[c] # order[d]) /\ Reorder(order)
    \/ \E c \in components : DeleteComponent(c)

-----------------------------------------------------------------------------
(* ProjectComponentCatalogService: through any mix of additions, edits,      *)
(* deletions, reorders and discoveries, a project's components have names    *)
(* that differ by more than capitals and positions that put them in one      *)
(* order.                                                                    *)
ComponentsApart ==
    \A c, d \in components : c # d => c.name # d.name /\ c.position # d.position

-----------------------------------------------------------------------------
(***************************************************************************)
(* The connections of an installation, the companies each is shared with,  *)
(* what one project binds of them and the discovery of the repositories in *)
(* the project's folder.  A write is one transaction; a discovery reads    *)
(* before it opens its own.                                                *)
(* Connections are numbered by label; a path is a sequence of segments.    *)
(***************************************************************************)

CONSTANTS
    Company, Home,     \* the companies, and the one the project starts in
    Connection, LabelOf,  \* the Git host connections and their labels
    HostOf,            \* the host of each connection's base URL
    RootPath,          \* the root paths a connection may have; <<>> is none
    Repositories,      \* what is under the project's folder: folder, host and path, <<>> for no origin
    MaxBindings, MaxConnectionWrites

ASSUME BindingConstants == Home \in Company /\ MaxBindings \in Nat /\ MaxConnectionWrites \in Nat

VARIABLES
    company,           \* the project's company
    moved,             \* whether the project ever changed it
    connection,        \* each connection: whether it is there, has a credential, its root path
    shared,            \* which connection is shared with which company
    bindings,          \* the project's bindings: connection, label and target
    discovery,         \* the discovery under way, and the company it read
    connectionWrites

binds    == <<company, moved, connection, shared, bindings, components, discovery, connectionWrites>>

(* external_connection, project_connection: the columns the rules read *)
Connected == [here : BOOLEAN, credential : BOOLEAN, root : RootPath]
WholeSite == <<>>
Targets   == {WholeSite} \cup {Repositories[i].path : i \in 1 .. Len(Repositories)}
Labels    == ({LabelOf[c] : c \in Connection} \cup {NameOf[f] : f \in ComponentFolder}) \X (1 .. MaxBindings + 1)

Writes == connectionWrites < MaxConnectionWrites /\ connectionWrites' = connectionWrites + 1
Here(c) == connection[c].here

-----------------------------------------------------------------------------
(* ConnectionService *)
CreateConnection(c, root, companies) ==
    /\ Writes /\ ~Here(c)
    /\ connection' = [connection EXCEPT ![c] = [here |-> TRUE, credential |-> FALSE, root |-> root]]
    /\ shared' = shared \cup ({c} \X companies)
    /\ UNCHANGED <<company, moved, bindings, components, discovery>>

(* update: the root path is set anew, and what was bound stays bound *)
UpdateConnection(c, root) ==
    /\ Writes /\ Here(c)
    /\ connection' = [connection EXCEPT ![c].root = root]
    /\ UNCHANGED <<company, moved, shared, bindings, components, discovery>>

SetCredentialOf(c, set) ==
    /\ Writes /\ Here(c)
    /\ connection' = [connection EXCEPT ![c].credential = set]
    /\ UNCHANGED <<company, moved, shared, bindings, components, discovery>>

(* require_no_binding_of *)
NoBindingOf(c, removed) == ~(company \in removed /\ \E b \in bindings : b.connection = c)

(* Mutant: a company is removed whatever its projects bind *)
SetCompaniesAnyway(c, companies) ==
    /\ Writes /\ Here(c)
    /\ shared' = {s \in shared : s[1] # c} \cup ({c} \X companies)
    /\ UNCHANGED <<company, moved, connection, bindings, components, discovery>>

(* set_companies *)
SetCompanies(c, companies) ==
    /\ Writes /\ Here(c)
    /\ NoBindingOf(c, {k \in Company : <<c, k>> \in shared} \ companies)
    /\ shared' = {s \in shared : s[1] # c} \cup ({c} \X companies)
    /\ UNCHANGED <<company, moved, connection, bindings, components, discovery>>

(* delete: its shares and bindings go with it *)
DeleteConnectionRow(c) ==
    /\ Writes /\ Here(c)
    /\ connection' = [connection EXCEPT ![c].here = FALSE]
    /\ shared' = {s \in shared : s[1] # c}
    /\ bindings' = {b \in bindings : b.connection # c}
    /\ UNCHANGED <<company, moved, components, discovery>>

(* ProjectService::update: another company, the bindings as they were *)
MoveProject(k) ==
    /\ Writes /\ k # company /\ company' = k /\ moved' = TRUE
    /\ UNCHANGED <<connection, shared, bindings, components, discovery>>

-----------------------------------------------------------------------------
(* first_free_label *)
FirstFreeLabel(wanted, taken) == <<wanted, Min({n \in 1 .. MaxBindings + 1 : <<wanted, n>> \notin taken})>>

LabelsOf(held) == {b.label : b \in held}

(* ProjectConnectionService::bind_in: whether the binding is refused *)
Refused(held, c, label, target) ==
    \/ ~Here(c) \/ <<c, company>> \notin shared
    \/ \E b \in held : b.connection = c /\ b.target = target
    \/ label \in LabelsOf(held)

Binding(c, label, target) == [connection |-> c, label |-> label, target |-> target]

(* bind, under the label typed or the connection's own made free *)
Bind(c, label, target) ==
    /\ Writes /\ Cardinality(bindings) < MaxBindings
    /\ ~Refused(bindings, c, label, target)
    /\ bindings' = bindings \cup {Binding(c, label, target)}
    /\ UNCHANGED <<company, moved, connection, shared, components, discovery>>

(* update: whether the connection is still shared is not asked again *)
UpdateBinding(b, label, target) ==
    /\ Writes /\ b \in bindings
    /\ ~\E o \in bindings \ {b} : o.connection = b.connection /\ o.target = target
    /\ label \notin LabelsOf(bindings \ {b})
    /\ bindings' = (bindings \ {b}) \cup {Binding(b.connection, label, target)}
    /\ UNCHANGED <<company, moved, connection, shared, components, discovery>>

Unbind(b) ==
    /\ Writes /\ b \in bindings /\ bindings' = bindings \ {b}
    /\ UNCHANGED <<company, moved, connection, shared, components, discovery>>

-----------------------------------------------------------------------------
(* covered_length: a root path covers whole segments; path_on: the host     *)
(* has to be the origin's                                                   *)
Covers(c, origin) == HostOf[c] = origin.host /\ IsPrefix(connection[c].root, origin.path)

(* connection_at: the longest root path, then one with a credential, then    *)
(* the first by label; 0 when none covers the repository                     *)
ConnectionAt(hosts, origin) ==
    LET candidates == {c \in hosts : Covers(c, origin)}
        longest    == {c \in candidates : \A d \in candidates : Len(connection[d].root) <= Len(connection[c].root)}
        usable     == {c \in longest : connection[c].credential}
    IN  IF candidates = {} THEN 0 ELSE IF usable = {} THEN Min(longest) ELSE Min(usable)

GitHosts(k) == {c \in Connection : Here(c) /\ <<c, k>> \in shared}

(* settle_in: a repository with an origin, covered by a connection with a    *)
(* credential, is bound unless it is; the first clone of it has a component  *)
Settle(run, repository) ==
    LET c == ConnectionAt(run.hosts, repository)
        label == FirstFreeLabel(NameOf[repository.folder], LabelsOf(run.bindings))
        bound == \E b \in run.bindings : b.connection = c /\ b.target = repository.path
    IN  IF repository.path = <<>> \/ c = 0 \/ run.refused THEN run
        ELSE IF ~connection[c].credential THEN run
        ELSE [run EXCEPT !.refused = ~bound /\ Refused(run.bindings, c, label, repository.path),
                         !.bindings = IF bound THEN @ ELSE @ \cup {Binding(c, label, repository.path)},
                         !.settled = @ \cup {<<c, repository.path>>},
                         !.components = IF <<c, repository.path>> \in run.settled THEN @ ELSE AddForFolder(@, repository.folder)]

(* discover: the project is read and its folder walked *)
BeginDiscovery ==
    /\ discovery = "none" /\ Writes /\ discovery' = company
    /\ UNCHANGED <<company, moved, connection, shared, bindings, components>>

(* Then every repository found is settled in one transaction, refused whole  *)
(* when a binding is; the connections are those of the company read first    *)
Discover ==
    /\ discovery # "none" /\ discovery' = "none"
    /\ LET run == FoldLeft(Settle, [hosts |-> GitHosts(discovery), bindings |-> bindings, components |-> components,
                                    settled |-> {}, refused |-> FALSE], Repositories)
       IN  /\ Cardinality(run.bindings) <= MaxBindings /\ Cardinality(run.components) <= MaxComponents
           /\ bindings'   = IF run.refused THEN bindings ELSE run.bindings
           /\ components' = IF run.refused THEN components ELSE run.components
    /\ UNCHANGED <<company, moved, connection, shared, connectionWrites>>

-----------------------------------------------------------------------------
BindsInit ==
    /\ company = Home /\ moved = FALSE
    /\ connection = [c \in Connection |-> [here |-> TRUE, credential |-> TRUE, root |-> <<>>]]
    /\ shared = Connection \X {Home} /\ bindings = {} /\ ComponentsInit
    /\ discovery = "none"
    /\ connectionWrites = 0

BindsNext ==
    \/ \E c \in Connection :
          \/ \E r \in RootPath, ks \in SUBSET Company : CreateConnection(c, r, ks)
          \/ \E r \in RootPath : UpdateConnection(c, r)
          \/ \E s \in BOOLEAN : SetCredentialOf(c, s)
          \/ \E ks \in SUBSET Company : SetCompanies(c, ks)
          \/ DeleteConnectionRow(c)
          \/ \E t \in Targets : Bind(c, FirstFreeLabel(LabelOf[c], LabelsOf(bindings)), t)
    \/ \E k \in Company : MoveProject(k)
    \/ \E b \in bindings :
          \/ \E l \in {x \in Labels : x[2] = 1}, t \in Targets : UpdateBinding(b, l, t)
          \/ Unbind(b)
    \/ BeginDiscovery \/ Discover
    \/ Writes /\ ComponentsNext /\ UNCHANGED <<company, moved, connection, shared, bindings, discovery>>

-----------------------------------------------------------------------------
(* bind_in, update: a project's bindings have labels of their own, and none  *)
(* says what another says already ("a second label would add nothing"),      *)
(* whoever bound them: a person, or a discovery of repositories.             *)
BindingsApart ==
    \A b, d \in bindings : b # d => b.label # d.label /\ <<b.connection, b.target>> # <<d.connection, d.target>>

(* require_associated, set_companies: while the project stays in its company *)
(* every connection it binds is shared with that company; a discovery that   *)
(* read the company before it changed included.                              *)
BoundIsShared == ~moved => \A b \in bindings : <<b.connection, company>> \in shared

(* connection_at: the longest root path wins, and an empty twin hides no     *)
(* usable connection.                                                        *)
ClosestConnection ==
    \A i \in 1 .. Len(Repositories) :
        LET origin == Repositories[i]
            c == ConnectionAt(GitHosts(company), origin)
        IN  \A d \in GitHosts(company) : Covers(d, origin) =>
               /\ c # 0 /\ Len(connection[d].root) <= Len(connection[c].root)
               /\ Len(connection[d].root) = Len(connection[c].root) /\ connection[d].credential => connection[c].credential

(* DiscoveryRun.settled: a second clone of a repository gets no component of *)
(* its own by a discovery.                                                   *)
OneComponentPerRepository ==
    discovery # "none" /\ discovery' = "none" =>
       \A i, j \in 1 .. Len(Repositories) :
           i # j /\ Repositories[i].path = Repositories[j].path /\ Repositories[i].host = Repositories[j].host =>
              ~\E c, d \in components' \ components : c.folder = Repositories[i].folder /\ d.folder = Repositories[j].folder

(* The rows have the columns the entities declare *)
BindingTypes == connection \in [Connection -> Connected] /\ components \subseteq Component

(* A project's bindings and components, whoever adds, edits or discovers them. *)
BindsInv == BindingTypes /\ BindingsApart /\ BoundIsShared /\ ComponentsApart /\ ClosestConnection
=============================================================================
