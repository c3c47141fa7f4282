----------------------------- MODULE ClaudeUsage -----------------------------
(***************************************************************************)
(* The account's Claude usage: a reading is fetched, cached, replaced by   *)
(* the last good one when a fetch fails, and held back while Anthropic's    *)
(* rate limit stands; and the queue's ceiling is checked on what is served. *)
(* The service's mutex is held across a fetch, so one call is in flight; a  *)
(* shutdown may come at any of its awaits.                                  *)
(***************************************************************************)
EXTENDS Integers, FiniteSets

CONSTANTS
    MaxTime,      \* bound: minutes the clock runs
    CacheTtl, DegradedTtl, RateLimitHold, RetryAfter,   \* in minutes
    ResetGrace, NoResetRecheck, UnreadableRecheck,
    Ceiling,      \* the queue's ceiling
    QueueModel,   \* the model the queue names
    Stored,       \* what the keychain and the credentials file may hold
    Account       \* what the usage endpoint may answer: sets of windows

ASSUME UsageConstants ==
    /\ {CacheTtl, DegradedTtl, RateLimitHold, ResetGrace, NoResetRecheck, UnreadableRecheck} \subseteq Nat \ {0}
    /\ RetryAfter \subseteq Nat \ {0}
    /\ \A limits \in Account : \A w \in limits : w.percent \in 0 .. 100

VARIABLES
    minute,      \* the clock
    cached,      \* State_: the last reading and when it was taken,
    cachedAt,
    lastGood,    \* the last one whose status was Ok,
    holdUntil,   \* and the end of the rate limit
    stopping,    \* release_on_shutdown was called
    poll,        \* the fetch in flight
    cut,         \* whether the shutdown's notification reached it
    served,      \* the reading last served, and when
    verdict      \* the queue's last verdict on it

usage == <<minute, cached, cachedAt, lastGood, holdUntil, stopping, poll, cut, served, verdict>>

Status == {"ok", "unauthenticated", "rateLimited", "unavailable"}
NoTime == -1
View(status, limits, retryAt) == [status |-> status, limits |-> limits, retryAt |-> retryAt]
NoView == View("none", {}, NoTime)
Go     == [clear |-> TRUE, resumeAt |-> NoTime, over |-> {}, at |-> 0]

-----------------------------------------------------------------------------
(* ClaudeCredentials::access_token: of the stored tokens the one that       *)
(* expires last, an undated one losing to any dated one, if still valid      *)
Freshest(tokens) == {t \in tokens : \A u \in tokens : u.expiresAt <= t.expiresAt}

AccessToken(tokens) == {t \in Freshest(tokens) : t.expiresAt = NoTime \/ t.expiresAt > minute}

(* usage_ceiling::counts and check *)
Counts(key) == key \in {"session", "weekly_all"} \/ key = QueueModel

Latest(times) == CHOOSE t \in times : \A u \in times : u <= t

Hold(resumeAt, over) == [clear |-> FALSE, resumeAt |-> resumeAt, over |-> over, at |-> minute]

Check(view) ==
    LET over == {w \in view.limits : Counts(w.key) /\ w.percent >= Ceiling}
        resets == {w.resetsAt : w \in over}
    IN  IF view.status # "ok" \/ view.limits = {} THEN Hold(minute + UnreadableRecheck, {})
        ELSE IF over = {} THEN Go
        ELSE IF NoTime \in resets THEN Hold(minute + NoResetRecheck, over)
        ELSE Hold((IF Latest(resets) + ResetGrace > minute THEN Latest(resets) ELSE minute) + ResetGrace, over)

-----------------------------------------------------------------------------
OnHold == minute < holdUntil

Held(until) ==
    IF lastGood # NoView THEN [lastGood EXCEPT !.retryAt = until] ELSE View("rateLimited", {}, until)

Degraded == IF lastGood # NoView THEN lastGood ELSE View("unavailable", {}, NoTime)

Serve(view) == served' = [view |-> view, at |-> minute]

Fresh ==
    /\ cached # NoView
    /\ minute - cachedAt < IF cached.status = "ok" THEN CacheTtl ELSE DegradedTtl

(* current and refresh: what is served without asking Anthropic *)
ServeKept(anew) ==
    /\ poll = "idle"
    /\ \/ stopping /\ Serve(Degraded)
       \/ ~stopping /\ OnHold /\ Serve(Held(holdUntil))
       \/ ~stopping /\ ~OnHold /\ ~anew /\ Fresh /\ Serve(cached)
    /\ UNCHANGED <<minute, cached, cachedAt, lastGood, holdUntil, stopping, poll, cut, verdict>>

Ask(anew) ==
    /\ poll = "idle" /\ ~stopping /\ ~OnHold
    /\ anew \/ ~Fresh
    /\ poll' = "token"
    /\ UNCHANGED <<minute, cached, cachedAt, lastGood, holdUntil, stopping, cut, served, verdict>>

(* read_and_cache of what the fetch came to *)
Take(fresh) ==
    /\ cached' = fresh /\ cachedAt' = minute
    /\ lastGood' = IF fresh.status = "ok" THEN fresh ELSE lastGood
    /\ Serve(fresh)
    /\ poll' = "idle" /\ cut' = FALSE
    /\ UNCHANGED <<minute, stopping, verdict>>

(* The keychain and the file are read before the request is sent *)
ReadToken(tokens) ==
    /\ poll = "token"
    /\ \/ AccessToken(tokens) = {} /\ Take(View("unauthenticated", {}, NoTime)) /\ UNCHANGED holdUntil
       \/ /\ AccessToken(tokens) # {}
          /\ poll' = "sent"
          /\ UNCHANGED <<minute, cached, cachedAt, lastGood, holdUntil, stopping, cut, served, verdict>>

(* 200 with a body that parses, 401 or 403, an error or no answer at all *)
Answered ==
    /\ poll = "sent"
    /\ \/ \E limits \in Account : Take(View("ok", limits, NoTime))
       \/ Take(View("unauthenticated", {}, NoTime))
       \/ Take(Degraded)
    /\ UNCHANGED holdUntil

(* 429: a hold of as long as it says, or of five minutes *)
RateLimited ==
    /\ poll = "sent"
    /\ \E seconds \in RetryAfter \cup {RateLimitHold} :
        /\ holdUntil' = minute + seconds
        /\ Take(Held(minute + seconds))

(* The shutdown's notification ends the request it finds waiting *)
CutOff ==
    /\ poll = "sent" /\ cut
    /\ Take(Degraded)
    /\ UNCHANGED holdUntil

(* release_on_shutdown; notify_waiters wakes only who is waiting *)
Stop ==
    /\ ~stopping
    /\ stopping' = TRUE /\ cut' = (poll = "sent")
    /\ UNCHANGED <<minute, cached, cachedAt, lastGood, holdUntil, poll, served, verdict>>

(* Worker::ceiling_verdict on the reading just served *)
CheckCeiling ==
    /\ served.at = minute /\ served.view # NoView
    /\ verdict' = Check(served.view)
    /\ UNCHANGED <<minute, cached, cachedAt, lastGood, holdUntil, stopping, poll, cut, served>>

Minute ==
    /\ minute < MaxTime
    /\ minute' = minute + 1
    /\ UNCHANGED <<cached, cachedAt, lastGood, holdUntil, stopping, poll, cut, served, verdict>>

UsageInit ==
    /\ minute = 1
    /\ cached = NoView /\ cachedAt = 0 /\ lastGood = NoView /\ holdUntil = 0
    /\ stopping = FALSE /\ poll = "idle" /\ cut = FALSE
    /\ served = [view |-> NoView, at |-> 0] /\ verdict = Go

UsageNext ==
    \/ \E anew \in BOOLEAN : ServeKept(anew) \/ Ask(anew)
    \/ \E tokens \in SUBSET Stored : ReadToken(tokens)
    \/ Answered \/ RateLimited \/ CutOff \/ Stop \/ CheckCeiling \/ Minute

-----------------------------------------------------------------------------
(* usage/mod.rs: while a rate limit stands neither a poll nor a refresh goes *)
(* out, since every request extends it.                                     *)
HoldObeyed == poll = "idle" /\ poll' = "token" => ~OnHold

(* ClaudeUsageView::retry_at: until the server stops, whatever is served     *)
(* while a wait is in force says when it ends, a last good reading included. *)
WaitIsTold ==
    served' # served /\ ~stopping /\ minute' < holdUntil' => served'.view.retryAt = holdUntil'

(* usage_ceiling::check: a hold ends after the moment it was put on, and not *)
(* before every window over the ceiling has been reset, when that is known.  *)
HoldOutlastsReset ==
    ~verdict.clear =>
        /\ verdict.resumeAt > verdict.at
        /\ NoTime \notin {w.resetsAt : w \in verdict.over}
              => \A w \in verdict.over : verdict.resumeAt > w.resetsAt

(* ClaudeCredentials::access_token: while any stored token is dated and not  *)
(* yet expired, a fetch finds a token and the one it uses is such a token.   *)
ValidTokenUsed ==
    poll # "idle" => \A tokens \in SUBSET Stored : (\E t \in tokens : t.expiresAt > minute) =>
        AccessToken(tokens) # {} /\ \A t \in AccessToken(tokens) : t.expiresAt > minute

=============================================================================
