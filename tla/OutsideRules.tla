----------------------------- MODULE OutsideRules ------------------------------
(***************************************************************************)
(* The rules on what goes out of Rekall and what comes in, each a function *)
(* of what it is given: the message of an automatic commit, which packages *)
(* an advisory reaches, and the forms a credential takes.                  *)
(***************************************************************************)
EXTENDS Integers, FiniteSets, Sequences
LOCAL INSTANCE SequencesExt
LOCAL INSTANCE FiniteSetsExt

-----------------------------------------------------------------------------
(***************************************************************************)
(* CommitMessageGenerator: the message of an automatic commit, from the    *)
(* session's own message or from the step's detail or the wrapup.  A word  *)
(* is its length, a text the sequence of its words, a line of markdown its *)
(* kind and its words.                                                     *)
(***************************************************************************)

CONSTANTS
    SubjectMax,    \* SUBJECT_MAX
    BodyWidth,     \* BODY_WIDTH
    BodyMax,       \* DERIVED_BODY_MAX
    Marker,        \* the length of a list marker and the space after it
    TypePrefix,    \* the lengths of "fix: " and the like
    Title,         \* the titles a claim can carry
    Markdown       \* the bodies, as sequences of lines

ASSUME MessageConstants ==
    /\ SubjectMax \in Nat /\ BodyWidth \in Nat /\ BodyMax \in Nat /\ Marker \in Nat
    /\ TypePrefix \subseteq 1 .. SubjectMax

VARIABLES
    ask,       \* the prefix, title and body a message is made of, and whether the session wrote it
    message    \* the message: the length of its subject, and its lines

messages == <<ask, message>>

Line == [kind : {"blank", "item", "text", "fence", "heading"}, words : Seq(Nat)]

-----------------------------------------------------------------------------
Sum(s) == FoldLeft(LAMBDA n, w : n + w, 0, s)

(* The length of words with one space between each *)
Length(words) == IF words = <<>> THEN 0 ELSE Sum(words) + Len(words) - 1

Minus(a, b) == IF a > b THEN a - b ELSE 0

(* jstr::strip_trailing of the first n characters: a cut right after a space *)
(* loses the space                                                           *)
CutLength(words, n) ==
    IF \E i \in 1 .. Len(words) : Length(SubSeq(words, 1, i)) + 1 = n THEN n - 1 ELSE n

(* fitted: the title cut to the room the prefix leaves it *)
Fitted(prefix, words) ==
    LET room == Minus(SubjectMax, prefix)
    IN  IF Length(words) > room THEN prefix + CutLength(words, Minus(room, 1)) + 1
        ELSE prefix + Length(words)

-----------------------------------------------------------------------------
(* plain_paragraphs: fenced lines dropped, a blank line, a rule or a heading *)
(* between two paragraphs; a paragraph with a list item keeps its lines      *)
PlainParagraphs(lines) ==
    LET flush(r) == IF r.lines = <<>> THEN r ELSE [r EXCEPT !.out = Append(@, r.lines), !.lines = <<>>]
        step(r, l) ==
            IF l.kind = "fence" THEN [r EXCEPT !.fenced = ~@]
            ELSE IF r.fenced THEN r
            ELSE IF l.kind \in {"blank", "heading"} THEN flush(r)
            ELSE [r EXCEPT !.lines = Append(@, l)]
    IN  flush(FoldLeft(step, [out |-> <<>>, lines |-> <<>>, fenced |-> FALSE], lines)).out

Words(lines) == FlattenSeq([i \in 1 .. Len(lines) |-> lines[i].words])

ParagraphLength(p) == Sum([i \in 1 .. Len(p) |-> Length(p[i].words) + 1]) - 1

(* cut_at_sentence of a paragraph of plain words: at the last space *)
CutAtSpace(words) ==
    LET fits == {i \in 1 .. Len(words) : Length(SubSeq(words, 1, i)) < BodyMax}
    IN  IF fits = {} THEN <<BodyMax>>
        ELSE SubSeq(words, 1, CHOOSE i \in fits : \A j \in fits : j <= i)

(* derived_body: the opening paragraphs that fit, or the first one cut *)
DerivedBody(lines) ==
    LET step(r, p) ==
            LET size == r.size + ParagraphLength(p) + IF r.out = <<>> THEN 0 ELSE 2
            IN  IF r.full THEN r
                ELSE IF size <= BodyMax THEN [r EXCEPT !.out = Append(@, p), !.size = size]
                ELSE IF r.out # <<>> THEN [r EXCEPT !.full = TRUE]
                ELSE LET cut == CutAtSpace(Words(p))
                     IN  [out |-> << <<[kind |-> "text", words |-> cut]>> >>, size |-> Length(cut) + 1, full |-> TRUE]
    IN  FoldLeft(step, [out |-> <<>>, size |-> 0, full |-> FALSE], PlainParagraphs(lines))

-----------------------------------------------------------------------------
(* wrap_line: the words on lines of the body's width, after the marker on    *)
(* the first line and an indent as wide on the others                        *)
WrapLine(words, indent) ==
    FoldLeft(LAMBDA out, w :
        IF Last(out).words # <<>> /\ indent + Length(Append(Last(out).words, w)) > BodyWidth
        THEN Append(out, [indent |-> indent, words |-> <<w>>])
        ELSE [out EXCEPT ![Len(out)].words = Append(@, w)],
        << [indent |-> indent, words |-> <<>>] >>, words)

Blank == [indent |-> 0, words |-> <<>>]

FlushBlock(r) ==
    IF r.block = <<>> THEN r
    ELSE [r EXCEPT !.out = @ \o WrapLine(r.block, r.marker), !.block = <<>>]

(* wrap: a blank line or a list item ends the block before it; runs of blank *)
(* lines become one, and none opens or closes the body                       *)
Wrap(lines) ==
    LET blankAfter(out) == IF out = <<>> \/ Last(out) = Blank THEN out ELSE Append(out, Blank)
        stripped(out)   == IF out # <<>> /\ Last(out) = Blank THEN Front(out) ELSE out
        step(r, l) ==
            CASE l.kind = "blank" -> [FlushBlock(r) EXCEPT !.marker = 0, !.out = blankAfter(@)]
              [] l.kind = "item"  -> [FlushBlock(r) EXCEPT !.marker = Marker, !.block = l.words]
              [] OTHER            -> [r EXCEPT !.block = @ \o l.words]
    IN  stripped(FlushBlock(FoldLeft(step, [out |-> <<>>, marker |-> 0, block |-> <<>>], lines)).out)

(* Each paragraph, a blank line between two *)
Joined(paragraphs) ==
    FoldLeft(LAMBDA out, p : (IF out = <<>> THEN out ELSE Append(out, [kind |-> "blank", words |-> <<>>])) \o p,
             <<>>, paragraphs)

(* generate: the session's subject and body where it wrote them, what is     *)
(* derived where it did not                                                  *)
Generate(request) ==
    /\ ask' = request
    /\ LET body == IF request.written THEN request.body ELSE Joined(DerivedBody(request.body).out)
       IN  message' = [subject |-> Fitted(request.prefix, request.title), body |-> body, lines |-> Wrap(body)]

MessageInit ==
    /\ ask = [prefix |-> 0, title |-> <<>>, body |-> <<>>, written |-> TRUE]
    /\ message = [subject |-> 0, body |-> <<>>, lines |-> <<>>]

MessageNext == message.subject = 0 /\ \E p \in TypePrefix, t \in Title, b \in Markdown, w \in BOOLEAN :
                   Generate([prefix |-> p, title |-> t, body |-> b, written |-> w])

-----------------------------------------------------------------------------
(* SUBJECT_MAX: whatever the title and the prefix, the subject line is at    *)
(* most that long, the ellipsis of a cut title included.                     *)
SubjectFits == message.subject <= SubjectMax

(* BODY_WIDTH: a line of the body is wider than that only when it holds a    *)
(* single word, and wrapping loses no word and moves none.                   *)
BodyWraps ==
    /\ \A i \in 1 .. Len(message.lines) :
          message.lines[i].indent + Length(message.lines[i].words) > BodyWidth => Len(message.lines[i].words) = 1
    /\ Words(message.lines) = Words(message.body)

(* DERIVED_BODY_MAX: what is derived from the step's detail or the wrapup is *)
(* at most that long, blank lines between paragraphs included, and one more  *)
(* character where a single word is cut.                                     *)
DerivedFits ==
    LET d == DerivedBody(ask.body)
    IN  d.size <= BodyMax + 1 /\ (Len(d.out) > 1 => d.size <= BodyMax)

-----------------------------------------------------------------------------
(***************************************************************************)
(* Which of a project's packages an advisory reaches: how two versions     *)
(* compare, whether a version is in an advisory's range, how a project's   *)
(* packages are cut into questions to GitHub and which packages of a       *)
(* question an answer is about.  A version is read already: its release    *)
(* numbers and the parts that follow them.                                 *)
(***************************************************************************)

CONSTANTS
    Version,        \* the versions compared; one that does not read is Unreadable
    Unreadable,
    PostWord,       \* POST_RELEASE and RELEASE, as the numbers of words
    ReleaseWord,
    Ranges,          \* the ranges: sequences of [op, version]
    Declared,       \* the packages a project may declare: [key, version]
    MaxDeclared,    \* bound: packages a project declares
    PerQuestion     \* PACKAGES_PER_QUESTION

ASSUME MatchConstants == Unreadable \notin Version /\ MaxDeclared \in Nat /\ PerQuestion \in Nat \ {0}

VARIABLES project, asked    \* the packages of a project as listed, and the questions they are cut into

matching == <<project, asked>>

-----------------------------------------------------------------------------
Less == -1
Same == 0
More == 1
Order(m, n) == IF m < n THEN Less ELSE IF m > n THEN More ELSE Same

(* The first difference of two sequences of orders decides *)
FirstOf(orders, otherwise) ==
    LET differ == {i \in DOMAIN orders : orders[i] # Same}
    IN  IF differ = {} THEN otherwise ELSE orders[Min(differ)]

(* Part::compare: a number sorts before a word *)
ComparePart(a, b) ==
    IF a.word = b.word THEN Order(a.value, b.value) ELSE IF a.word THEN More ELSE Less

CompareParts(l, r) ==
    LET n == Min({Len(l), Len(r)})
    IN  FirstOf([i \in 1 .. n |-> ComparePart(l[i], r[i])], Order(Len(l), Len(r)))

(* Qualifier::of *)
Rank(parts) ==
    CASE parts = <<>> -> 1
      [] parts # <<>> /\ parts[1].word /\ parts[1].value \in ReleaseWord -> 1
      [] parts # <<>> /\ parts[1].word /\ parts[1].value \in PostWord    -> 2
      [] OTHER -> 0

CompareQualifier(l, r) ==
    IF Rank(l) = Rank(r) /\ Rank(l) # 1 THEN CompareParts(l, r) ELSE Order(Rank(l), Rank(r))

(* Version::compare: a release that runs out goes on with zeros *)
Compare(v, w) ==
    LET n == Max({Len(v.release), Len(w.release)})
        at(u, i) == IF i > Len(u.release) THEN 0 ELSE u.release[i]
    IN  FirstOf([i \in 1 .. n |-> Order(at(v, i), at(w, i))], CompareQualifier(v.qualifier, w.qualifier))

(* Operator::admits *)
Admits(op, order) ==
    CASE op = ">=" -> order # Less
      [] op = "<=" -> order # More
      [] op = ">"  -> order = More
      [] op = "<"  -> order = Less
      [] op = "="  -> order = Same

(* contains: undecided when the version or a bound does not read *)
InRange(range, v) ==
    IF range = <<>> \/ v = Unreadable \/ \E i \in DOMAIN range : range[i].version = Unreadable THEN "undecided"
    ELSE IF \A i \in DOMAIN range : Admits(range[i].op, Compare(v, range[i].version)) THEN "in" ELSE "out"

-----------------------------------------------------------------------------
(* AffectedPackage::find and reaches, of the ranges an advisory gives for    *)
(* one package: the entry that holds the version, or else the first          *)
Reaches(ranges, v) ==
    LET holds == {i \in DOMAIN ranges : InRange(ranges[i], v) = "in"}
    IN  IF holds # {} THEN "in" ELSE InRange(ranges[1], v)

(* reached_in: the packages in range or undecided, or every package named    *)
(* when GitHub and the ranges disagree                                       *)
ReachedIn(entries, question) ==
    LET named   == {i \in DOMAIN question : question[i].key \in DOMAIN entries}
        inRange == {i \in named : Reaches(entries[question[i].key], question[i].version) # "out"}
    IN  IF inRange = {} THEN named ELSE inRange

-----------------------------------------------------------------------------
(* How often the package was listed before *)
RoundOf(declared, i) == Cardinality({j \in 1 .. i - 1 : declared[j].key = declared[i].key})

Chunks(s) ==
    [c \in 1 .. (Len(s) + PerQuestion - 1) \div PerQuestion |->
        SubSeq(s, (c - 1) * PerQuestion + 1, Min({c * PerQuestion, Len(s)}))]

(* questions: in a question each name appears once, so a second version of a *)
(* package waits for a later round; rounds are cut to size                   *)
Questions(declared) ==
    LET round(k) == SelectSeq([i \in DOMAIN declared |-> [package |-> declared[i], round |-> RoundOf(declared, i)]],
                              LAMBDA d : d.round = k)
        packages(k) == [i \in DOMAIN round(k) |-> round(k)[i].package]
    IN  FlattenSeq([k \in 1 .. Len(declared) |-> Chunks(packages(k - 1))])

AskFeed(declared) ==
    /\ project' = declared
    /\ asked' = Questions(declared)

MatchInit == project = <<>> /\ asked = <<>>

MatchNext == asked = <<>> /\ \E n \in 1 .. MaxDeclared : \E declared \in [1 .. n -> Declared] : AskFeed(declared)

-----------------------------------------------------------------------------
(* questions: "each name appears once" in a question, no question is larger  *)
(* than GitHub takes, and every package is asked about, exactly as often as  *)
(* it is listed.                                                             *)
AskedOnceEach ==
    asked # <<>> =>
        /\ \A q \in DOMAIN asked :
              /\ Len(asked[q]) \in 1 .. PerQuestion
              /\ \A i, j \in DOMAIN asked[q] : asked[q][i].key = asked[q][j].key => i = j
        /\ \A d \in Declared :
              Len(SelectSeq(FlattenSeq(asked), LAMBDA p : p = d)) = Len(SelectSeq(project, LAMBDA p : p = d))

(* reached_in: an advisory GitHub answers with is never dropped when it      *)
(* names a package of the question, and a package whose range is shown to    *)
(* hold its version is always among those it reaches.                        *)
NoAnswerDropped ==
    \A q \in DOMAIN asked : \A ranges \in UNION {[1 .. n -> Ranges] : n \in 1 .. 2} : \A k \in {d.key : d \in Declared} :
        LET entries == [key \in {k} |-> ranges]
            reached == ReachedIn(entries, asked[q])
            named   == {i \in DOMAIN asked[q] : asked[q][i].key = k}
        IN  /\ named # {} => reached # {}
            /\ \A i \in named : \A r \in DOMAIN ranges :
                  InRange(ranges[r], asked[q][i].version) = "in" => i \in reached

(* version_range: the version of a declared package is totally preordered    *)
(* with any others, trailing zeros do not tell two apart, and a pre-release  *)
(* sorts before its release and that before a post-release.                  *)
OrderIsTotal ==
    \A i \in DOMAIN project, v \in Version :
        LET w == project[i].version
        IN  /\ Compare(v, w) = -Compare(w, v)
            /\ \A u \in Version : Compare(u, v) # More /\ Compare(v, w) # More => Compare(u, w) # More
            /\ Compare(w, [w EXCEPT !.release = Append(@, 0)]) = Same
            /\ v.release = w.release /\ Rank(v.qualifier) < Rank(w.qualifier) => Compare(v, w) = Less

-----------------------------------------------------------------------------
(***************************************************************************)
(* The forms a credential takes between the person and the server: the     *)
(* kubeconfig a context is imported from, the document kept of it, the one *)
(* written for a session, what a Jira credential is kept as, and what the  *)
(* answers of a server say of a credential.  An optional value is Absent   *)
(* or a value; BlankText is white space.                                       *)
(***************************************************************************)

CONSTANTS
    Kubeconfigs,   \* what a person may paste: current context, contexts, clusters, users
    Narrowed,      \* the namespaces a binding may name
    Emails, Tokens \* Jira: sequences of the characters "@", ":" and "p"

Absent  == "absent"
BlankText   == "blank"
Given(v) == v \notin {Absent, BlankText}

VARIABLES
    kept,          \* the imported clusters: label, the access selected, the document kept, the namespace
    jira,          \* the Jira credential given and what is kept of it
    probed         \* the server's answers to one check, and the outcome

forms == <<kept, jira, probed>>

-----------------------------------------------------------------------------
(* KubeconfigDocument *)
NoCluster == [server |-> Absent, skip |-> FALSE, ca |-> [data |-> Absent, file |-> Absent], tls |-> Absent, proxy |-> Absent]
NoUser    == [exec |-> FALSE, provider |-> FALSE, token |-> Absent, tokenFile |-> Absent, basic |-> FALSE,
              cert |-> [data |-> Absent, file |-> Absent], key |-> [data |-> Absent, file |-> Absent]]

Refusal == [ok |-> FALSE]
Value(v) == [ok |-> TRUE, value |-> v]

(* cluster, user, context: the first of the name *)
Named(list, name) ==
    IF \E i \in 1 .. Len(list) : list[i].name = name
    THEN Value(list[CHOOSE i \in 1 .. Len(list) : list[i].name = name /\ \A j \in 1 .. i - 1 : list[j].name # name].item)
    ELSE Refusal

(* read_referenced: a path is relative, unreadable, or what the file holds *)
Referenced(path) == IF path \in {"relative", "unreadable"} THEN Refusal ELSE Value(path)

(* inline_data: the data as written, or the file's encoded as data *)
InlineData(d) ==
    IF Given(d.data) THEN Value(d.data) ELSE IF d.file = Absent THEN Value(Absent) ELSE Referenced(d.file)

VerifiedServer(c) == IF c.server = "https" /\ ~c.skip THEN Value(c.server) ELSE Refusal

ProxyOf(c) == CASE ~Given(c.proxy) -> Value(Absent)
                [] c.proxy \in {"other scheme", "with a password"} -> Refusal
                [] OTHER -> Value(c.proxy)

(* user_kind *)
UserKind(u) ==
    CASE u.exec -> "exec"
      [] ~u.exec /\ u.provider -> "provider"
      [] ~u.exec /\ ~u.provider /\ (u.token # Absent \/ u.tokenFile # Absent) -> "token"
      [] ~u.exec /\ ~u.provider /\ u.token = Absent /\ u.tokenFile = Absent /\ (u.cert.data # Absent \/ u.cert.file # Absent) -> "certificate"
      [] OTHER -> IF u.basic THEN "basic" ELSE "nothing"

(* token_of *)
TokenOf(u) ==
    LET token == IF u.token # Absent THEN Value(u.token) ELSE Referenced(u.tokenFile)
    IN  IF token.ok /\ Given(token.value) THEN token ELSE Refusal

(* credential_of *)
CredentialOf(u) ==
    LET cert == InlineData(u.cert)
        key  == InlineData(u.key)
        token == TokenOf(u)
    IN  CASE UserKind(u) = "token" -> IF token.ok THEN Value([token |-> token.value, cert |-> Absent, key |-> Absent]) ELSE Refusal
          [] UserKind(u) = "certificate" ->
                IF cert.ok /\ key.ok /\ Absent \notin {cert.value, key.value}
                THEN Value([token |-> Absent, cert |-> cert.value, key |-> key.value]) ELSE Refusal
          [] OTHER -> Refusal

(* Kubeconfig::select *)
Select(doc, name) ==
    LET context == Named(doc.contexts, name)
        cluster == Named(doc.clusters, context.value.cluster)
        user    == Named(doc.users, context.value.user)
        c == cluster.value
    IN  IF ~context.ok THEN Refusal
        ELSE IF ~(cluster.ok /\ user.ok) THEN Refusal
        ELSE IF ~(VerifiedServer(c).ok /\ CredentialOf(user.value).ok /\ InlineData(c.ca).ok /\ ProxyOf(c).ok) THEN Refusal
        ELSE Value([context |-> name, server |-> VerifiedServer(c).value, ca |-> InlineData(c.ca).value, tls |-> c.tls,
                    proxy |-> ProxyOf(c).value, namespace |-> context.value.namespace, credential |-> CredentialOf(user.value).value])

(* KubeAccess::cluster and user: what is kept of each *)
ClusterOf(a) == [NoCluster EXCEPT !.server = a.server, !.ca.data = a.ca, !.tls = a.tls, !.proxy = a.proxy]
UserOf(a)    == [NoUser EXCEPT !.token = a.credential.token, !.cert.data = a.credential.cert, !.key.data = a.credential.key]

(* to_kubeconfig *)
ToKubeconfig(a) ==
    [current |-> a.context,
     clusters |-> <<[name |-> a.context, item |-> ClusterOf(a)]>>,
     users |-> <<[name |-> a.context, item |-> UserOf(a)]>>,
     contexts |-> <<[name |-> a.context, item |-> [cluster |-> a.context, user |-> a.context, namespace |-> a.namespace]]>>]

FromStored(doc) == Select(doc, doc.current)

-----------------------------------------------------------------------------
(* session_kubeconfig: every entry named by the binding's label; a user asks *)
(* Rekall for the label's credential, so only its name is kept here          *)
SessionKubeconfig(clusters) ==
    [current |-> IF clusters = <<>> THEN Absent ELSE clusters[1].label,
     contexts |-> [i \in 1 .. Len(clusters) |-> [name |-> clusters[i].label,
        item |-> [cluster |-> clusters[i].label, user |-> clusters[i].label,
                  namespace |-> IF Given(clusters[i].namespace) THEN clusters[i].namespace ELSE clusters[i].access.namespace]]],
     clusters |-> [i \in 1 .. Len(clusters) |-> [name |-> clusters[i].label, item |-> ClusterOf(clusters[i].access)]]]

(* prepare, then kept under the binding's label *)
ImportContext(doc, name, narrowed) ==
    LET selected == Select(doc, name)
    IN  /\ selected.ok
        /\ kept' = Append(kept, [label |-> Len(kept) + 1, access |-> selected.value, stored |-> ToKubeconfig(selected.value), namespace |-> narrowed])
        /\ UNCHANGED <<jira, probed>>

-----------------------------------------------------------------------------
(* JiraCredential: the email and the token, or "pat" and the token, with a  *)
(* colon between                                                            *)
Pat == <<"p">>
Has(text, ch) == \E i \in 1 .. Len(text) : text[i] = ch

(* cloud: the email it accepts *)
CloudEmail(email) == Has(email, "@") /\ ~Has(email, ":")

ToStored(c) == (IF c.email = <<>> THEN Pat ELSE c.email) \o <<":">> \o c.token

(* from_stored: split at the first colon *)
FromJira(text) ==
    LET at == SelectInSeq(text, LAMBDA ch : ch = ":")
        account == SubSeq(text, 1, at - 1)
        token == SubSeq(text, at + 1, Len(text))
    IN  IF at = 0 THEN Refusal
        ELSE IF account = Pat THEN Value([email |-> <<>>, token |-> token])
        ELSE IF Has(account, "@") THEN Value([email |-> account, token |-> token]) ELSE Refusal

KeepJira(email, token) ==
    /\ email = <<>> \/ CloudEmail(email)
    /\ token # <<>>
    /\ jira' = [given |-> [email |-> email, token |-> token], stored |-> ToStored([email |-> email, token |-> token])]
    /\ UNCHANGED <<kept, probed>>

-----------------------------------------------------------------------------
(* accepted: what an answer's status says; 0 is no answer *)
Accepted(status) == CASE status = 200 -> "accepted" [] status \in {401, 403} -> "rejected" [] OTHER -> "unreachable"

(* HttpConnectionProbe::kubernetes, identity: the version is open to anyone, *)
(* so the review says who signs in, or /api where there is none              *)
Kubernetes(a) ==
    IF Accepted(a.version) # "accepted" THEN Accepted(a.version)
    ELSE IF a.review = 404 THEN Accepted(a.api) ELSE Accepted(a.review)

(* ConnectionCheckService::check *)
CheckConnection(answers) ==
    /\ probed' = [answers |-> answers, outcome |-> Kubernetes(answers)]
    /\ UNCHANGED <<kept, jira>>

-----------------------------------------------------------------------------
HttpStatus == {0, 200, 401, 403, 404, 500}

FormsInit ==
    /\ kept = <<>> /\ jira = [given |-> [email |-> <<>>, token |-> Pat], stored |-> Pat \o <<":">> \o Pat]
    /\ probed = [answers |-> [version |-> 0, review |-> 0, api |-> 0], outcome |-> "unreachable"]

(* The three are independent of each other *)
KubeNext  == Len(kept) < 2 /\ \E doc \in Kubeconfigs, n \in Narrowed : \E i \in 1 .. Len(doc.contexts) : ImportContext(doc, doc.contexts[i].name, n)
JiraNext  == \E e \in Emails, t \in Tokens : KeepJira(e, t)
ProbeNext == \E v, r, a \in HttpStatus : CheckConnection([version |-> v, review |-> r, api |-> a])

-----------------------------------------------------------------------------
(* KubeAccess::from_stored: "Reads back what to_kubeconfig stored", whatever *)
(* files the pasted kubeconfig named and whatever it left blank.             *)
StoredReadsBack == \A i \in 1 .. Len(kept) : FromStored(kept[i].stored) = Value(kept[i].access)

(* session_kubeconfig: each label leads to the cluster bound under it, in    *)
(* the namespace the binding narrows it to, though two stored kubeconfigs    *)
(* name their contexts alike.                                                *)
LabelReachesItsCluster ==
    LET doc == SessionKubeconfig(kept)
    IN  \A i \in 1 .. Len(kept) :
            LET context == Named(doc.contexts, kept[i].label)
            IN  /\ context.ok /\ Named(doc.clusters, context.value.cluster) = Value(ClusterOf(kept[i].access))
                /\ context.value.namespace = IF Given(kept[i].namespace) THEN kept[i].namespace ELSE kept[i].access.namespace

(* JiraCredential::from_stored: "Reads back what to_stored kept": no token   *)
(* changes which Jira the credential is for.                                 *)
JiraReadsBack == FromJira(jira.stored) = Value(jira.given)

(* identity: a cluster "still proves it accepts the credential": the check   *)
(* says so only of a cluster one of whose closed endpoints took it.          *)
AcceptedIsProved == probed.outcome = "accepted" => 200 \in {probed.answers.review, probed.answers.api}
=============================================================================
