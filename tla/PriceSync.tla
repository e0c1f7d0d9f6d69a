------------------------------ MODULE PriceSync ------------------------------
(***************************************************************************)
(* Price synchronisation: the background pass (runPriceSyncLoop in         *)
(* be/cmd/http.go, SyncAll in be/pricesync/sync.go), the "check now"       *)
(* button (RefreshCardPrice in be/handlers/refresh_price.go) and the       *)
(* set-price-sources command, over SyncURL and the limiter they share.     *)
(*                                                                         *)
(* A syncer is the loop or one click; each of their database statements    *)
(* and HTTP requests is one action, and they interleave.                   *)
(***************************************************************************)
EXTENDS RateLimiter, FiniteSets

CONSTANTS
    Cards,
    Urls,              \* listing pages
    Supported,         \* those whose source is "tcg_republic"
    NoUrl,             \* "no row in card_price_sources"
    Clicks,            \* refresh requests; each is made at most once
    Loop,              \* the background goroutine
    NoCard,
    MaxFetchAttempts,  \* maxFetchAttempts
    MaxPasses,         \* bounds the passes of the loop
    Faulty             \* may a statement or a fetch fail?

ASSUME PriceSyncAssumption ==
    /\ Supported \subseteq Urls
    /\ NoUrl \notin Urls /\ Loop \notin Clicks /\ NoCard \notin Cards
    /\ MaxFetchAttempts \in Nat \ {0} /\ MaxPasses \in Nat
    /\ Faulty \in BOOLEAN

Syncers == Clicks \cup {Loop}

VARIABLES
    source,    \* card_price_sources.url of each card
    pc, loc,   \* progress and local variables of each syncer
    queue,     \* urls the running pass has still to visit
    passes,
    requests,  \* HTTP requests this process has sent
    tried,     \* history: urls the running pass called SyncURL for
    planned,   \* history: urls it set out to visit
    owed,      \* history: the cards each click owes a check: they shared its page when
               \* it was made, and neither were they edited before the page was listed
               \* nor checked since
    skipped    \* history: those whose check it failed to record

vars == <<limiter, source, pc, loc, queue, passes, requests, tried, planned, owed, skipped>>
pass == <<queue, passes, tried, planned>>
clicked == <<owed, skipped>>

-----------------------------------------------------------------------------

PC == {"idle", "next", "list", "acquire", "fetch", "record",
       "ok", "notFound", "limited", "failed"}
Answers == {"ok", "notFound", "limited", "failed"}
Locals == [url : Urls \cup {NoUrl}, card : Cards \cup {NoCard},
           todo : SUBSET Cards, attempt : 0..MaxFetchAttempts]
NoLocals == [url |-> NoUrl, card |-> NoCard, todo |-> {}, attempt |-> 0]

Configured == {source[c] : c \in Cards} \ {NoUrl}
CardsOf(u) == {c \in Cards : source[c] = u}

Init ==
    /\ LimiterInit
    /\ source \in [Cards -> Urls \cup {NoUrl}]
    /\ pc = [s \in Syncers |-> "idle"]
    /\ loc = [s \in Syncers |-> NoLocals]
    /\ queue = {} /\ passes = 0 /\ requests = 0
    /\ tried = {} /\ planned = {}
    /\ owed = [s \in Clicks |-> {}] /\ skipped = [s \in Clicks |-> {}]

\* SyncURL is over: a click answers 204, 429 or 502, and SyncAll logs an error and
\* goes on.  (A slip: it gives the pass up.)
AnswerOrStop(s, result) ==
    /\ pc' = [pc EXCEPT ![s] = IF s # Loop THEN result
                               ELSE IF result = "ok" THEN "next" ELSE "idle"]
    /\ loc' = [loc EXCEPT ![s] = NoLocals]
Answer(s, result) ==
    /\ pc' = [pc EXCEPT ![s] = IF s = Loop THEN "next" ELSE result]
    /\ loc' = [loc EXCEPT ![s] = NoLocals]

\* One more card of the page is dealt with.  (A slip: the first failure ends it.)
OneFailureEnds(s, c, failed) ==
    IF failed \/ loc[s].todo = {c} THEN Answer(s, "ok")
    ELSE loc' = [loc EXCEPT ![s].todo = @ \ {c}] /\ UNCHANGED pc
CardDone(s, c, failed) ==
    IF loc[s].todo = {c} THEN Answer(s, "ok")
    ELSE loc' = [loc EXCEPT ![s].todo = @ \ {c}] /\ UNCHANGED pc

-----------------------------------------------------------------------------
(* RefreshCardPrice, SyncAll and set-price-sources.                        *)

Click(s, c) ==
    /\ pc[s] = "idle"
    /\ \/ source[c] = NoUrl /\ Answer(s, "notFound") /\ UNCHANGED owed
       \/ /\ source[c] # NoUrl
          /\ pc' = [pc EXCEPT ![s] = "list"]
          /\ loc' = [loc EXCEPT ![s].card = c, ![s].url = source[c]]
          /\ owed' = [owed EXCEPT ![s] = CardsOf(source[c])]
    /\ UNCHANGED <<limiter, source, pass, requests, skipped>>

StartPass ==
    /\ pc[Loop] = "idle" /\ passes < MaxPasses
    /\ pc' = [pc EXCEPT ![Loop] = "next"]
    /\ passes' = passes + 1
    /\ queue' = Configured
    /\ planned' = Configured /\ tried' = {}
    /\ UNCHANGED <<limiter, source, loc, requests, clicked>>

\* The urls after u.  (A slip: u is visited again.)
RestWith(u) == queue
Rest(u) == queue \ {u}

NextUrl(u) ==
    /\ pc[Loop] = "next" /\ u \in queue
    /\ queue' = Rest(u) /\ tried' = tried \cup {u}
    /\ loc' = [loc EXCEPT ![Loop].url = u]
    /\ pc' = [pc EXCEPT ![Loop] = "list"]
    /\ UNCHANGED <<limiter, source, passes, planned, requests, clicked>>

EndPass ==
    /\ pc[Loop] = "next" /\ queue = {}
    /\ pc' = [pc EXCEPT ![Loop] = "idle"]
    /\ tried' = {} /\ planned' = {}
    /\ UNCHANGED <<limiter, source, loc, queue, passes, requests, clicked>>

\* UpsertPriceSource.
SetSource(c, u) ==
    /\ source[c] # u
    /\ source' = [source EXCEPT ![c] = u]
    /\ owed' = [s \in Clicks |-> IF pc[s] = "list" THEN owed[s] \ {c} ELSE owed[s]]
    /\ UNCHANGED <<limiter, pc, loc, pass, requests, skipped>>

-----------------------------------------------------------------------------
(* SyncURL and fetchListingWithRetry.                                      *)

ListCards(s) ==
    LET cards == CardsOf(loc[s].url) IN
    /\ pc[s] = "list"
    /\ \/ cards = {} /\ Answer(s, "ok")
       \/ cards # {} /\ loc[s].url \notin Supported /\ Answer(s, "failed")
       \/ /\ cards # {} /\ loc[s].url \in Supported
          /\ pc' = [pc EXCEPT ![s] = "acquire"]
          /\ loc' = [loc EXCEPT ![s].todo = cards]
    /\ UNCHANGED <<limiter, source, pass, requests, clicked>>

Acquire(s) ==
    /\ pc[s] = "acquire"
    /\ \/ /\ TokenTaken
          /\ pc' = [pc EXCEPT ![s] = "fetch"]
          /\ loc' = [loc EXCEPT ![s].attempt = 1]
       \/ TokenRefused /\ Answer(s, "limited")
    /\ UNCHANGED <<source, pass, requests, clicked>>

Fetched(s) ==
    /\ pc[s] = "fetch"
    /\ requests' = requests + 1
    /\ pc' = [pc EXCEPT ![s] = "record"]
    /\ UNCHANGED <<limiter, source, loc, pass, clicked>>

\* After maxFetchAttempts there is no retry.  (A slip: one more.)
LastAttemptLate(s) == loc[s].attempt > MaxFetchAttempts
LastAttempt(s) == loc[s].attempt = MaxFetchAttempts

FetchFails(s) ==
    /\ Faulty /\ pc[s] = "fetch"
    /\ requests' = requests + 1
    /\ IF LastAttempt(s)
       THEN Answer(s, "failed")
       ELSE loc' = [loc EXCEPT ![s].attempt = @ + 1] /\ UNCHANGED pc
    /\ UNCHANGED <<limiter, source, pass, clicked>>

\* RecordPriceCheck, one transaction for the history row and last_checked_at: done,
\* or failed and skipped.
Record(s, c) ==
    /\ pc[s] = "record" /\ c \in loc[s].todo
    /\ \/ /\ CardDone(s, c, FALSE)
          /\ owed' = [k \in Clicks |-> IF k = s THEN owed[k] \ {c} ELSE owed[k]]
          /\ UNCHANGED skipped
       \/ /\ Faulty /\ CardDone(s, c, TRUE)
          /\ skipped' = [k \in Clicks |-> IF k = s THEN skipped[k] \cup {c} ELSE skipped[k]]
          /\ UNCHANGED owed
    /\ UNCHANGED <<limiter, source, pass, requests>>

\* A lookup failed, or the context was cancelled while waiting to retry.
GiveUp(s) ==
    /\ Faulty /\ pc[s] \in {"list", "fetch"}
    /\ Answer(s, "failed")
    /\ UNCHANGED <<limiter, source, pass, requests, clicked>>

-----------------------------------------------------------------------------

Time == LimiterTick /\ UNCHANGED <<source, pc, loc, pass, requests, clicked>>

Restart ==
    /\ LimiterRestart
    /\ pc' = [s \in Syncers |-> IF pc[s] \in Answers THEN pc[s]
                                ELSE IF s = Loop THEN "idle" ELSE "failed"]
    /\ queue' = {} /\ tried' = {} /\ planned' = {}
    /\ loc' = [s \in Syncers |-> NoLocals]
    /\ requests' = 0
    /\ UNCHANGED <<source, passes, clicked>>

SyncURL(s) ==
    \/ ListCards(s)
    \/ Acquire(s)
    \/ Fetched(s)
    \/ FetchFails(s)
    \/ \E c \in Cards : Record(s, c)
    \/ GiveUp(s)

SyncAll == (\E u \in Urls : NextUrl(u)) \/ EndPass

Next ==
    \/ \E s \in Clicks, c \in Cards : Click(s, c)
    \/ \E s \in Syncers : SyncURL(s)
    \/ StartPass \/ SyncAll
    \/ \E c \in Cards, u \in Urls : SetSource(c, u)
    \/ Time
    \/ Restart

\* The process schedules its goroutines, the database answers, and a click has a
\* deadline (refreshPriceTimeout).  The background pass has none: http.DefaultClient
\* waits for the site as long as it takes.  Nobody has to click or edit a source.
Fairness ==
    /\ \A s \in Clicks : WF_vars(SyncURL(s))
    /\ WF_vars(pc[Loop] # "fetch" /\ SyncURL(Loop))
    /\ WF_vars(SyncAll)

Spec == Init /\ [][Next]_vars /\ Fairness

-----------------------------------------------------------------------------

\* Every variable holds a value of its type.
TypeOK ==
    /\ LimiterTypeOK
    /\ source \in [Cards -> Urls \cup {NoUrl}]
    /\ pc \in [Syncers -> PC]
    /\ loc \in [Syncers -> Locals]
    /\ queue \in SUBSET Urls /\ tried \in SUBSET Urls /\ planned \in SUBSET Urls
    /\ passes \in 0..MaxPasses
    /\ requests \in Nat
    /\ owed \in [Clicks -> SUBSET Cards] /\ skipped \in [Clicks -> SUBSET Cards]

\* fetchListingWithRetry: "bounded rather than unbounded": no request is sent but on
\* a token, and no token pays for more than maxFetchAttempts of them.
RequestsPaid == requests <= MaxFetchAttempts * granted

\* SyncAll: an unreachable page, an unsupported source or an empty bucket is
\* "not fatal to the caller": a pass that ends has tried every url it set out to.
PassTriesEveryUrl ==
    [][pc[Loop] # "idle" /\ pc'[Loop] = "idle" => planned \subseteq tried \/ Restart]_vars

\* RefreshCardPrice answers 204: it owes no card of the page a check, whatever failed,
\* waited or was edited meanwhile, but for those whose check it failed to record.  Only
\* an edit before the page was listed takes a card, the clicked one too, out of it.
OkMeansChecked ==
    \A s \in Clicks : pc[s] = "ok" => owed[s] \subseteq skipped[s]

\* A click is answered and a pass ends, whatever fails and however empty the bucket,
\* unless the pass waits forever for one page.
EverySyncEnds ==
    \A s \in Syncers :
        pc[s] # "idle" ~> \/ pc[s] \in Answers \cup {"idle"}
                          \/ s = Loop /\ [](pc[Loop] = "fetch")

-----------------------------------------------------------------------------
(* What the comments promise and the code does not keep.                   *)

\* RefreshCardPrice: "A successful refresh updates every card sharing that url, not
\* just cardID".
RefreshUpdatesEveryCard ==
    \A s \in Clicks : pc[s] = "ok" => owed[s] = {}

=============================================================================
