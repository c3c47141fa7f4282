------------------------------ MODULE MCOutside ------------------------------
(***************************************************************************)
(* What Rekall does with the world outside its database, for TLC: Claude's *)
(* usage and transcripts, Git, the advisories on a project's dependencies, *)
(* and the connections and their credentials.  Each is explored in         *)
(* behaviours of its own, chosen in the initial state.                     *)
(***************************************************************************)
EXTENDS ClaudeUsage, TokenLedger, Commits, Vulnerabilities, Credentials, OutsideRules, ConnectionBindings, JiraImport

VARIABLE part

(* ClaudeUsage *)
Window(k, p, r) == [key |-> k, percent |-> p, resetsAt |-> r]
MCAccount == {{}, {Window("session", 79, 2)}, {Window("session", 80, 2), Window("weekly_all", 90, 4)},
              {Window("weekly_opus", 95, -1)}, {Window("session", 95, -1)}, {Window("weekly_sonnet", 99, 3)}}
MCStored == {[id |-> 1, expiresAt |-> -1], [id |-> 2, expiresAt |-> 2], [id |-> 3, expiresAt |-> 4]}

(* TokenLedger *)
Told(side, id, n, does) ==
    [kind |-> "assistant", at |-> 0, sidechain |-> side, id |-> id, tokens |-> n,
     call |-> IF does = "none" THEN NoCall ELSE [does |-> does, task |-> "a"]]
MCSaid == {[kind |-> "user", at |-> 0, unit |-> [task |-> "a", step |-> 0]], Told(FALSE, "m", 1, "running"),
           Told(FALSE, "m", 2, "none"), Told(FALSE, "none", 1, "claimed"), Told(TRUE, "m", 1, "running")}
MCSubSaid == {Told(TRUE, "sub", 1, "none")}

(* Commits, CommitMessage *)
MCTarget == {[task |-> "a", step |-> 1]}
MCTitle == UNION {[1 .. n -> {1, 5, 9}] : n \in 1 .. 2}
MdLine(k, w) == [kind |-> k, words |-> w]
Lines == {MdLine("blank", <<>>), MdLine("fence", <<1>>), MdLine("heading", <<3>>), MdLine("text", <<2, 4>>), MdLine("text", <<13>>),
          MdLine("text", <<3, 3, 3>>), MdLine("item", <<5, 4>>), MdLine("item", <<2, 2>>)}
MCMarkdown == UNION {[1 .. n -> Lines] : n \in 1 .. 2} \cup {<<a, b, c>> \in Lines \X Lines \X Lines : b.kind \in {"blank", "text"}}

(* AdvisoryMatch: words 1 and 2 come before a release, 3 after one, 4 is the release *)
Ver(r, q) == [release |-> r, qualifier |-> q]
Word(n) == [word |-> TRUE, value |-> n]
Numb(n) == [word |-> FALSE, value |-> n]
MCUnreadable == Ver(<<>>, <<>>)
MCVersion ==
    {Ver(<<1>>, <<>>), Ver(<<1, 0, 0>>, <<>>), Ver(<<1, 2>>, <<>>), Ver(<<2>>, <<>>), Ver(<<2>>, <<Word(1)>>), Ver(<<1, 2, 0>>, <<Word(3)>>)}
    \cup {Ver(<<1, 2>>, q) : q \in {<<Word(1), Numb(1)>>, <<Word(1), Numb(2)>>, <<Word(1)>>, <<Word(2)>>, <<Word(3), Numb(1)>>, <<Word(4)>>, <<Numb(7)>>}}
Bound(o, v) == [op |-> o, version |-> v]
MCRange == {<<>>, <<Bound("<", Ver(<<1, 2>>, <<>>))>>, <<Bound(">=", Ver(<<1, 2>>, <<>>)), Bound("<", Ver(<<2>>, <<>>))>>,
            <<Bound("=", MCUnreadable)>>, <<Bound("<=", Ver(<<1>>, <<>>))>>, <<Bound(">", Ver(<<1, 2>>, <<Word(1)>>))>>}
MCDeclared == {[key |-> "x", version |-> v] : v \in {Ver(<<1>>, <<>>), Ver(<<1, 2>>, <<Word(1)>>), MCUnreadable}}
              \cup {[key |-> "y", version |-> v] : v \in {Ver(<<1>>, <<>>), Ver(<<1, 2>>, <<Word(1)>>)}}
              \cup {[key |-> "z", version |-> Ver(<<2>>, <<>>)]}

(* Vulnerabilities *)
MCProjects == <<"p", "q">>
MCAdvisory == {[id |-> 1, kind |-> "high", reaches |-> {"x1", "x2"}]}

(* ConnectionBindings *)
Repository(f, h, p) == [folder |-> f, host |-> h, path |-> p]
MCRepositories == <<Repository("/a/api", "h", <<"acme", "api">>), Repository("/b/api", "h", <<"acme", "api">>), Repository("/a/none", "h", <<>>)>>
MCNameOf  == [f \in {"/a/api", "/b/api", "/a/none"} |-> IF f = "/a/none" THEN "none" ELSE "api"]
MCHostOf  == <<"h", "h">>
MCLabelOf == <<"one", "two">>
MCRoot    == {<<>>, <<"acme">>, <<"other">>}

(* CredentialForms: one part of a kubeconfig varies at a time *)
DataOf(d, f) == [data |-> d, file |-> f]
MCData == {DataOf(Absent, Absent), DataOf("d", Absent), DataOf(BlankText, "held"), DataOf(Absent, "relative"), DataOf("e", "unreadable")}
MCClusters == [server : {Absent, "http", "https"}, skip : BOOLEAN, ca : MCData, tls : {Absent, "name"}, proxy : {Absent, BlankText, "proxy", "other scheme"}]
MCUsers == [exec : BOOLEAN, provider : {FALSE}, token : {Absent, BlankText, "t"}, tokenFile : {Absent, "relative", "held"}, basic : {TRUE},
            cert : MCData, key : {DataOf(Absent, Absent), DataOf(BlankText, "held")}]
Pasted(c, u, ns) ==
    [current |-> "ctx", clusters |-> <<[name |-> "k", item |-> c]>>, users |-> <<[name |-> "u", item |-> u]>>,
     contexts |-> <<[name |-> "ctx", item |-> [cluster |-> "k", user |-> "u", namespace |-> ns]],
                    [name |-> "lost", item |-> [cluster |-> "z", user |-> "u", namespace |-> ns]]>>]
MCKubeconfigs ==
    {Pasted(c, [NoUser EXCEPT !.token = "t"], Absent) : c \in MCClusters}
    \cup {Pasted([NoCluster EXCEPT !.server = "https", !.ca = DataOf(Absent, "held"), !.tls = "name"], u, "ns") : u \in MCUsers}
MCEmails == UNION {[1 .. k -> {"@", ":", "p"}] : k \in 0 .. 3}
MCTokens == UNION {[1 .. k -> {"@", ":", "p"}] : k \in 0 .. 2}

-----------------------------------------------------------------------------
Parts == {"usage", "ledger", "commits", "messages", "matching", "vulnerabilities", "credentials", "bindings", "import", "kube", "jira", "probe"}

Init ==
    /\ part \in Parts
    /\ UsageInit /\ LedgerInit /\ CommitsInit /\ MessageInit /\ MatchInit /\ VulnInit
    /\ CredInit /\ BindsInit /\ ImportInit /\ FormsInit
    /\ part # "credentials" => row = "unset"

Next ==
    /\ part' = part
    /\ \/ part = "usage" /\ UsageNext /\ UNCHANGED <<ledger, commits, messages, matching, vulns, credentials, binds, imports, forms>>
       \/ part = "ledger" /\ LedgerNext /\ UNCHANGED <<usage, commits, messages, matching, vulns, credentials, binds, imports, forms>>
       \/ part = "commits" /\ CommitsNext /\ UNCHANGED <<usage, ledger, messages, matching, vulns, credentials, binds, imports, forms>>
       \/ part = "messages" /\ MessageNext /\ UNCHANGED <<usage, ledger, commits, matching, vulns, credentials, binds, imports, forms>>
       \/ part = "matching" /\ MatchNext /\ UNCHANGED <<usage, ledger, commits, messages, vulns, credentials, binds, imports, forms>>
       \/ part = "vulnerabilities" /\ VulnNext /\ UNCHANGED <<usage, ledger, commits, messages, matching, credentials, binds, imports, forms>>
       \/ part = "credentials" /\ CredNext /\ UNCHANGED <<usage, ledger, commits, messages, matching, vulns, binds, imports, forms>>
       \/ part = "bindings" /\ BindsNext /\ UNCHANGED <<usage, ledger, commits, messages, matching, vulns, credentials, imports, forms>>
       \/ part = "import" /\ ImportNext /\ UNCHANGED <<usage, ledger, commits, messages, matching, vulns, credentials, binds, forms>>
       \/ part \in {"kube", "jira", "probe"}
          /\ ((part = "kube" /\ KubeNext) \/ (part = "jira" /\ JiraNext) \/ (part = "probe" /\ ProbeNext))
          /\ UNCHANGED <<usage, ledger, commits, messages, matching, vulns, credentials, binds, imports>>

Spec == Init /\ [][Next]_<<part, usage, ledger, commits, messages, matching, vulns, credentials, binds, imports, forms>>

(* What is read and computed: the hold and the token of a usage poll, the     *)
(* tokens of a transcript, a commit's message, the questions on a project's   *)
(* packages and the answers, an import of issues, and stored credentials.     *)
ReadingsInv ==
    /\ HoldOutlastsReset /\ ValidTokenUsed
    /\ CountedOnce /\ SubagentFollowsSession
    /\ SubjectFits /\ BodyWraps /\ DerivedFits
    /\ AskedOnceEach /\ NoAnswerDropped /\ OrderIsTotal
    /\ ImportTypes /\ ImportedOnce
    /\ StoredReadsBack /\ LabelReachesItsCluster /\ JiraReadsBack /\ AcceptedIsProved

(* What no step does: poll under a rate limit or hide its end, disturb what   *)
(* the person staged, fix an exposure twice, lose a verdict to a scan, give a *)
(* second clone a component.                                                  *)
OutsideKeeps ==
    [][/\ HoldObeyed /\ WaitIsTold
       /\ LeavesOthersStaged
       /\ FixedByOneTask /\ ScanKeepsVerdicts /\ UncheckedKeeps
       /\ OneComponentPerRepository]_<<usage, commits, vulns, binds>>
=============================================================================
