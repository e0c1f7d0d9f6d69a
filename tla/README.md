# A TLA+ model of mishis4x

mishis4x is a Go server (`src/be`) with a MySQL database and a React frontend
(`src/fe`): an invite-only collection tracker for trading cards, with market
prices scraped in the background, eBay searches, and a viewer for animated
character models that can be driven from another device. This directory models
the parts of it whose correctness depends on the order in which requests,
goroutines, statements, emails and WebSocket messages happen, checks the models
with TLC on small instances, and proves the main properties with TLAPS for every
size.

Contents: [the system](#the-system) · [the modules](#the-modules) ·
[the runs](#the-runs) · [the proofs](#the-proofs) ·
[where code and comments disagree](#where-code-and-comments-disagree) ·
[not modelled](#not-modelled) ·
[what could follow](#what-could-follow)

## The system

One process serves HTTP (`be/cmd/http.go`). `net/http` gives every request a
goroutine; all of them share the database pool and one `handlers.Data`
(`be/handlers/handlers.go`), which owns the in-memory state: the attempt limiters,
the model display and the lobby. `be/pricesync` has a package-level limiter and,
when enabled, one background goroutine; `be/ebay` has a cache and a token. The
command line (`be/cmd`) runs in processes of its own against the same database.
Almost no handler opens a transaction around its statements, so what two requests
do to the database interleaves statement by statement.

| Component | State | Operations | What is hard | What makes it correct |
|---|---|---|---|---|
| Accounts and sessions (`handlers/users.go`, `password_reset.go`, `persist/sessions.go`, `password_resets.go`, `users.go`) | tables `users`, `sessions`, `password_resets` | login, logout, change password, request and confirm a reset, session lookup | a handler is several statements; any can fail or race another request's | a password change logs the others out; a reset link works once and only the latest one does |
| Attempt limiter (`handlers/attemptLimiter.go`) | a mutexed map by username or address | `locked`, `recordFailure` with sweep, `recordSuccess` | the question and the report of one request are separate critical sections | lockouts are earned, last, and concern one key; the map stays small |
| Invites and signup (`handlers/invites.go`, `admin.go`, `users.go`, `cmd/invite.go`, `persist/invites.go`) | tables `invites`, `users`, `sessions` | request, approve, deny (page and CLI), mail, sign up | races of decisions and redemptions; failures half-way through a signup or a mailing | the state machine of the table; one account for a code |
| Model display (`handlers/model_display.go`, `fe/.../ModelDisplay.tsx`) | a mutexed state and a map of one-slot channels; the page's last trigger | four writers, `broadcast`, subscribe, unsubscribe, reconnect | broadcasting happens outside the lock, several broadcasts at once | displays catch up with what they may count on; no touch is played that nobody made |
| Price sync (`pricesync`, `handlers/refresh_price.go`, `cmd/http.go`, `persist/price_sources.go`) | tables `card_price_sources`, `card_price_history`; a token bucket | background pass, manual refresh, set sources | both callers share the bucket and the tables; pages fail, hang or are edited meanwhile | the site is not asked too often; every page is tried; a success leaves no card of the page out silently |
| Price trends (`persist/price_trends.go`, `price_sources.go`, `handlers/price_trends.go`) | the same tables | record a check; market price, a week's trend, the last movers | a check is a transaction of two statements with their own times, and two can overlap on one card; ties within a second; checks that find no price; a card deleted between two reads | three queries tell one story about a card |
| eBay search (`ebay`, `handlers/ebay_listings.go`) | a mutexed LRU cache with expiry; an OAuth token under a mutex | search: cache, token, request, store | misses race; the token's mutex is held across HTTP; the token's end is counted from its arrival | list and map agree; answers have a bounded age; no search carries a dead token; every search ends |
| Ownership (`persist/ownership.go`, `handlers/collection.go`, `fe/.../OnboardCards.tsx`) | `owned_sets`, `owned_card_copies`; the form of a tab | onboard, remove, reconcile copies by count or identity | read-then-write transactions without locks; forms older than the table; a removal in two statements without a transaction | a save leaves what it asked for and touches nothing else; a removed set leaves nothing |
| Catalog import and character models (`cmd/process_set.go`, `set_price_sources.go`, `model_import.go`, `persist/collection.go`, `card_images.go`, `character_models.go`) | `sets`, `cards`, `card_images`, `card_price_sources`, `character_models` and their audio | import a file with or without `--refresh`, attach price sources, import and link a model | no transaction anywhere: killed after any statement, run again, run beside the app | a finished run has done what its file says; ids survive; nobody loses a card they own |
| Migrations and seeds (`persist/migrations.go`, `cmd/migrations.go`, `db/`) | the schema, `schema_migrations` | up, down, seed | a crash between executing a file and recording it; two processes | no gap in what was applied; down leaves nothing; a restart completes what was cut short |
| Lobby (`matchmaking`) | a slice and a counter | create, list | no lock at all | nothing is promised |
| Access gates and router, email, startup, generated types, frontend pages | configuration, none | checks, rendering | little beyond what each request does alone | - |

The interactions that matter: signup runs through the attempt limiter, an invite
and a session; login, through the limiter and a session; the admin page and the
CLI both decide on invites; the price loop and the button share `SyncURL` and its
limiter, and what they record is what the price queries read; the import commands
delete cards that the app lets people own, price and link meanwhile; every
controller shares one model display with every display page.

## The modules

In every module an action is what the code does atomically (one SQL statement or
explicit transaction, or one critical section) with the Go code up to the next
such point. Variables marked *history* in the declarations are read by no action
of the program. Operators marked "a slip" are plausible mistakes: they are not
used by the specification, and PROJECT.json says in place of which definition each
makes a property fail.

### Accounts

`Accounts.tla` numbers the bcrypt hashes of `users.password` by the write that
stored them; a client passes a comparison with the hash of the password it knows,
whatever it knows, so every login the code can accept is in the model. Sessions
and reset tokens are rows with what became of them. The handlers are `Login`
(verify, create the session), `Logout`, `Change` (authenticate, verify, write,
revoke the others), `Forgot` (look up, replace the unused links in a transaction,
mail) and `Reset` (consume the token, write, revoke all, create a session). With
`Faulty`, each statement may fail, an answer or an email may be lost and a
request may be abandoned where its context can expire.

### Attempt limiter

`AttemptLimiter.tla` has the map as a function with an `in` flag, the clock, and
requests that ask `locked` and report later: `Check`, `recordFailure` (with the
sweep of the other keys, which the code runs first), `recordSuccess`,
`NotReported` (handlers that return between the two) and `Restart`.

### Invites

`Invites.tla` has the public form (count, then insert), the decision of the admin
page and of the CLI (one conditional UPDATE each), the email and its failure, and
signup: redeem, create the user, mark, open a session. `InviteLifecycle.tla` is
the abstract specification, the state machine written in the migration of the
table with the rule that a redeemed invite brings at most one account about;
`Lifecycle` in `Invites.tla` instantiates it with the status column and the invite
each account came from.

### Model display

`ModelDisplay.tla` splits `broadcast` as the code does: the copy of state and
subscribers under the lock, then for each channel the three `select`s (try to
send, drain, send again), each one step that others can come between. The order of
the channels is any (a Go map), and any number of writers broadcast at once. The page
is modelled with its `lastTriggerRef`, which outlives a connection. A restart empties the
server and keeps the pages. Overlapping broadcasts can deliver the older copy last, so
"the display shows the state" is not what holds; what does hold needs three history
variables: `seed`, the change at which a connection subscribed, `solo`, which requests
have run without another so far, and `clean`, the newest copy that was broadcast
alone. `Due(c)`, the later of a connection's `seed` and `clean`, is what it may count on.

### Price sync

`RateLimiter.tla` is the token bucket, counted in ticks of refill instead of
floats: a token is `Interval` ticks, so fractions of a token are exact, which the
float64 arithmetic of the code is taken to be. `PriceSync.tla` extends it. A *syncer* is the background loop or
one click of "check now"; `ListCards`, `Acquire`, `Fetched`, `FetchFails`,
`Record` and `GiveUp` are the calls of `SyncURL` either makes. `StartPass`, `NextUrl` and
`EndPass` are `SyncAll` (pages in any order, where the code sorts them);
`SetSource` is the upsert of `set-price-sources`. `Supported` are the pages with a
source the code has a parser for. When a call returns, its locals are gone
(`Answer`). `Record` is one step here, done or failed and skipped; what is inside it is in
`PriceHistory`. Two variables are history: `owed`, the cards a click owes a check, which are those
that share the page it looked up, less those edited before `ListCards` reads them and those
checked since; and `skipped`, those whose check was not recorded.

### Price trends

`PriceHistory.tla` has the tables the price queries read, the writes that reach them
and a clock whose instant is the second of `recorded_at`, so that checks tie. Any number of
recorders (the loop and the clicks) run `RecordPriceCheck` statement by statement, and their
transactions overlap: `ListSource` reads card and source, `InsertCheck` takes the next id and the
second it happens in, `TouchSource` is the UPDATE with its own `NOW()`, `CommitCheck` makes both
visible (`visible`, `tx`), and `Rollback` is a failure, a deadline or a death at any point. The INSERT waits for
nobody, so it is sent and done at one instant and ids and times agree in order. The UPDATE may wait
for the card's row, which another open transaction has updated (`RowLocked`), and its
`NOW()` is when it was sent, before the wait. `UpsertPriceSource` and `DeleteCard` (whose history stays) wait for that row too.
`after` is history: the checks of the card that were committed when a row was inserted.
`MarketPrice`, `Trends` and `Moves` translate the three SQL queries over the committed rows (`Rows`); a window
function that ranks by the second alone may put either of two tied rows first, so `Trends` and `Moves` are sets of possible
answers. `QueryMovers` and `AnswerMovers` are the two statements of the home page.

### eBay search

`EbaySearch.tla` has the cache as the list and the map of the code with `get` and `set`
(each under its mutex), the token manager (`ReuseToken`, `FetchToken`, `StoreToken`,
with the mutex as `holder`: it stays held across the request for a token), and the HTTP
requests in two halves, eBay's answer (`IssueToken`, `Answer`) and its arrival
(`StoreToken`, `StoreListings`). A listing is the time at which eBay looked it up; an HTTP
request ends by the client's timeout or the deadline of the page's context, whichever
is first (`Deadline`, `Fail`). The wait for the mutex looks at no deadline. `newer` is
history: which of two cached cards was used later.

### Catalog

`Catalog.tla` has the tables and one operator for each statement the commands make of
them, with the foreign keys that matter: copies keep a card from being deleted, images and
price sources go with it. A card that is deleted and inserted again has another id, which
`gen` numbers. `CatalogImport.tla` runs `process-set` (with `--refresh` or without),
`set-price-sources` and `model-import` over it, statement by statement: get-or-create
of sets, upsert and second lookup of cards, images, the three files of a model downloaded one
by one, clips, links. Each row may be skipped, each command may end between any two
statements (`Kill`), the source of the models may change (`SourceChanges`), people own and
disown cards and link models on the page meanwhile (`App`, `PageLinks`).

### Migrations

`Migrations.tla` takes a file for what it needs, makes and drops in the schema and for
whether it inserts rows that nothing keeps from being inserted twice. A run is the list of
files the command builds from `--direction` and `--seed` (`Plan`), including its quirk that any direction but
"up" executes files without recording them; `Check`, `Execute`, `Record` and
`ClearRecords` are its statements, `Fatal` its `log.Fatal` and `Kill` the loss of the process or
of the connection. `Deploy` ships more files. `MCMigrations` instantiates it with seven of
the files under `be/db`, those that move owned cards into a table of copies, their
reversals and fixtures. A CREATE TABLE IF NOT EXISTS makes nothing where there is something already (`Made`). Two runs up may overlap; once two of them execute one file, or after a run down,
`meddled` says so and only the properties that survive that are asked for.

### Ownership

A *page* in `Ownership.tla` is one browser tab, with one request under way: it
loads the form of a set (`Load`), submits it (`Submit`: `AddOwnedSet`, then, unless the
cards were skipped, the save of the cards), may try again (`Retry`), or removes a set
(`RemoveCopies`, `RemoveSet`: two statements, each committed on its own).

The save is one transaction at MySQL's default isolation, and the statements of
different transactions interleave. `job[r].seen` is its snapshot: plain SELECTs see the
copies as they were at the first of them (`Read`). `work[r]` is what its
UPDATE, INSERT and DELETE statements have written: these see rows as committed, wait for
rows that another transaction wrote (`Unlocked`, `NoneWritten`), and reach `table` at
`Commit`. A wait that ends in a timeout or a deadlock is `Fail`. Locks on gaps and on rows a
statement finds without changing them are left out: they only rule out interleavings.
`WriteCopies` is the delete, the updates and the inserts of
`reconcileOwnedCardCopiesByID` in one step, because they write different rows that nobody
else sees before the commit. `AdjustQuantity` and `SetNewestPrice` are the two halves of
`reconcileOwnedCardCopies`: the first works from the snapshot, the second from the newest
row there is by then. Ids are UUIDv7, whose order is the order of `(created_at, id)`,
the ORDER BY of both. A request may list ids that its form did not show (`Forged`),
and cards of another set, which `Refuse` answers. One card twice in a request is not
modelled; neither is `SetCardQuantity`, which no handler calls.

## The runs

A cfg gives the sizes. Runs without liveness use symmetry in interchangeable
values. All runs but `migrations` disable deadlock checking: requests are served at most
once and clocks are bounded, so those instances come to a stop.

| Run | Shows | Bounds, and why they are enough |
|---|---|---|
| `accounts` | `LateSessionsOnly`, `OnlyLatestLinkWorks`, `ResetTokenActsOnce` | two accounts, four requests of any kind, three session and two reset tokens, failures on. A revocation involves its own request, a late login and a second revocation; four requests give one to spare. Two links are needed for one to replace the other |
| `signup` | `ImplementsLifecycle`, `AuditTrailTruthful`, `LockoutEarned`, `CountExact`, `SweepBoundsMap` | *invites*: six requests over two invites and two usernames, failures on: ask, approve against deny, two signups with one code, asking again after a lost email. *limiter*: two keys, five requests, lockout at two failures, `Window` 3, `Duration` 2, clock to 7: two windows, and a lockout that outlives the window it began in; a sweep needs a second key. 140 thousand states |
| `display` | `NeverBackwards`, `CatchesUp`, `NoPhantomTouch` | two controllers that broadcast at once, a display whose page connects twice while its first connection lingers, two changes, restarts. An overtaking needs two broadcasts and two copies; a phantom touch needs a reconnection. 1.5 million states |
| `prices` | `RequestsPaid`, `BucketBound`, `PassTriesEveryUrl`, `OkMeansChecked`, `EverySyncEnds`, `MarketShowsCurrentCheck`, `TrendsUseLastChecks`, `MoversAgreeWithTrends`, `NamelessMeansDeleted` | *sync*: one pass and one click over a supported and an unsupported page and two cards, which share a page in some initial states; a bucket of one token that refills in two ticks, so that it is full, half full and empty; two fetch attempts; failures and restarts. *overlap*: two recorders, two cards, two checks, two seconds: an overlap needs no more. *days*: three checks of one card, two sources, two prices; days of two instants, a window of two days and a clock to 5, so that checks fall together, into one day, on two and three days, and out of the window. 540 thousand states |
| `ebay_search` | `CacheAgrees`, `AnswersFresh`, `TokenOutlivesSearch`, `EvictsLeastRecent`, `RequestsEnd` | two requests at a time, each serving any number of searches, for three cards over two places: an eviction needs a third card, a reordering two requests. `TTL` and `Timeout` 1, `Patience` and `Buffer` 2, `Life` 3, clock to 4: entries and tokens expire while a request is under way. 370 thousand states |
| `migrations` | `AheadByOne`, `DuplicatesNeedALoss`, `DownEmpties`, `EventuallyMigrated` | two processes, seven files in two releases of four and seven, one kill: one kill can fall between any two statements, and a second release finds the records of the first. 450 thousand states |
| `catalog` | `FinishedMatchesCommand`, `ListedCardsKeepIds`, `OneSetPerName`, `ModelsWhole`, `OwnedCardsStay`, `TypeOK` | two commands out of seven command lines, in sequence or together, two set names, two codes, one model whose source changes once, one card owned at a time. The second file drops a code, moves one to the other set and lists one twice; a first command that is killed and a second that repairs need two runs. 530 thousand states |
| `ownership` | `SaveIsExact`, `SavesRemoveOnlyWhatTheyRead`, `GoneForGood`, `RemovedMeansEmpty` | two tabs of one user, each with one save (retried at most once) or removal; two cards in one set and a second, empty set; at most one copy at the start, of either user, which a request may list whoever owns it; at most three copies ever, quantities to two, one edited and one new copy in a save. Two new copies and an old one are what a race, a decrease by the newest and an increase over an older price need |
| `accounts_revocation_holds`, `invites_one_outstanding`, `invites_failed_mail`, `refresh_updates_every_card` | a promise of a comment or an answer that the code does not keep | the smallest instance with the counterexample |

**Two runs have parts.** `signup` and `prices` each instantiate two modules that share no variable, because
what passes between their components is arbitrary in each: the limiter's requests report whatever they
like, and recorders find whatever price. Interleaving them would multiply states and show nothing, so
a behaviour steps only one of them, chosen at the start (`part`), and an invariant is checked over all states of
its module within the bounds of the part. In `MCSignup` the limiter's callers are interchangeable by symmetry; the one request
of the invites that is no caller begins last (`OthersBeginLast`), which loses no behaviour up to
renaming requests. In `MCPrices`, `OverlapBounds` and `DaysBounds` cut `PriceHistory` into the two parts
of the table: overlapping recorders without owners, and one recorder at a time with the owner's home page.

**Bounds.** `MaxEdited`, `MaxNew` and `MaxQuantity` bound what one form asks for, `MaxRetries`
the retries, `MaxExisting` and `MaxCopies` the copies at the start and ever; `Active` are the
users with open tabs. `MaxTime` and `MaxClock` bound the clocks, `MaxVersion` the changes of the display
state, `MaxConnects` the connections of one page, `MaxPasses` the background passes, `MaxRows` and `OverlapRows` the
price checks, `OverlapClock` the clock of that part, `MaxSets` the ids of sets, `MaxOwned` the cards owned at once, `MaxRuns` the commands,
`NewestPart` the changes of a model's source and `MaxKills` the deaths of migration runs; ids and tokens are
bounded by the sets they are drawn from, and requests by being served once, except those of
eBay searches, which the clock bounds: none begins that `MaxTime` does not see to its deadline.
Hash numbers, trigger counts, tokens and HTTP requests are bounded by those.
`MaxFailed`, `Window`, `Duration`, `Capacity`, `Interval`, `MaxFetchAttempts` are
parameters of the code (5, 15 and 5 minutes, 10, 30 s, 3), scaled down for TLC and
arbitrary in the proofs. The capacity, ttl, timeouts and token buffer of the eBay search (30, 6 h,
10 s, 2 min) are too; `EbayAssumption` keeps of their relations what the
token argument needs, that the buffer covers two timeouts. `Parts` is 3 as in the code.

**Fairness.** Four specifications have some.
*Model display*: a `broadcast` that has begun goes on (no step of it blocks:
each `select` has a default), and the write loop and page deliver what is pending
on an open connection (`ServeModelDisplayWS` waits on the channel and writes with
a deadline). Nothing obliges a controller to write, a page to connect or reconnect.
*Price sync*: a click's calls return, because its context has a deadline
(`refreshPriceTimeout`); the background goroutine goes on except while it waits for
a page, because neither its context nor `http.DefaultClient` has a deadline. Its
database calls have none either: that the database answers, or the connection
breaks, is an assumption. `EverySyncEnds` is stated with that exception: a page that never
answers holds the background pass for the life of the process.
*eBay search*: time passes, an HTTP request in flight ends by its deadline
(`http.Client.Timeout`; `WF` of `Fail`), and whoever waits for the token's mutex gets it
in the end although others may take it first many times (Go's mutex hands over to a waiter after a
millisecond; `SF` of taking the turn). Nobody has to search.
*Migrations*: a run that has begun goes on, and the command is run up again in the end, with
seeds or without (`SF` of `StartUp`, which needs a free process): `compose.yaml` starts it before
every start of the app, and for a deployment the Makefile has it as a step of its own. Nobody has to
deploy or go down.

**What the properties say**, beyond types:

* `LateSessionsOnly`: after a revocation, a session on an older password is usable
  only if its own request had already passed its check. It is the strongest
  statement that holds; `RevocationHolds`, the promise of the comment, does not.
* `OnlyLatestLinkWorks`, `ResetTokenActsOnce`: of the links of one account only the
  latest can be redeemed, and only once, under concurrent requests and confirmations.
* `LockoutEarned`, `CountExact`: a running lockout began with `MaxFailed` failures of
  that key inside one window, and no count is lost, kept past a success, or shared.
* `SweepBoundsMap`: after a recorded failure the map holds only what still counts. That the sweep takes nothing
  that does is the theorem `KeysDoNotInterfere`.
* `ImplementsLifecycle`: refinement of the state machine, in particular one account for one code.
* `AuditTrailTruthful`: what the audit column may say after failures.
* `NeverBackwards`: nothing older than a connection's `Due` waits in its channel, however
  broadcasts overlap and pages reconnect. `CatchesUp`: a display that stays connected comes to
  show at least that, which is the state itself unless the last requests overlapped.
* `NoPhantomTouch`: a page plays a touch only for a trigger counted up since what it
  shows, except after the counter ran back under it, which takes a reconnection or an overlap.
* `BucketBound`: in any stretch of a process's life, loop and clicks together draw at most a bucketful
  and what was refilled. `RequestsPaid`: each token pays for at most `MaxFetchAttempts` requests.
* `MarketShowsCurrentCheck`: the comment of `RecordPriceCheck` says that its transaction keeps
  `last_checked_at` and the history from going stale against each other. What holds for overlapping transactions is stated with
  *current* checks, those that no check begun after their commit supersedes: the price on a set's
  page is what a current check found, nothing if that found nothing; the last known price is a current
  one among those that found any; and the checked-at time is missing exactly when there is no check and
  otherwise not before the time of a current one. That it is the time of the row shown does not hold: the two statements have times of their
  own, and of two overlapping transactions the one that inserted first may update last.
* `TrendsUseLastChecks`, `MoversAgreeWithTrends`: the chart and the home page use the last check of a day
  and agree with each other and with the set's page, up to checks of one second.
* `NamelessMeansDeleted`: a mover without a name was given up and deleted between two statements.
* `CacheAgrees`, `EvictsLeastRecent`: list and map name the same cards, within capacity, and the
  card that went unused the longest goes.
* `AnswersFresh`: what a page is shown is at most `TTL` and one search old, also when two misses
  of one card store their results in the other order, and however often an entry is found.
* `TokenOutlivesSearch`: no search is under way with an expired token, although `expiresAt`
  is counted from the token's arrival and a search takes its time.
* `RequestsEnd`: nobody waits forever for the token, whatever becomes of the one who fetches it.
* `FinishedMatchesCommand`: a command that skipped nothing, with no other importing or linking meanwhile, has done what its file
  says, after whatever failed or was killed before. `ListedCardsKeepIds`: and the cards it
  lists keep their ids, which images, sources and links hold on to.
* `OneSetPerName`: commands that run one at a time, killed or not, never store one name twice.
* `ModelsWhole`: a stored model is of one version unless its source changed during the download.
* `OwnedCardsStay`: no import takes a card from somebody who owns it.
* `AheadByOne`: the schema is what a prefix of the files makes and the records name that prefix or
  all but its last file. `DuplicatesNeedALoss`: rows are inserted twice only after a run died between a file and its
  record. `DownEmpties`: a run down that ends leaves nothing. `EventuallyMigrated`: whatever dies elsewhere,
  restarts bring every deployed file in.
* `PassTriesEveryUrl`: a pass that ends has tried each page it set out to, whatever failed before.
* `OkMeansChecked`: a 204 owes no card of the page a check, although page and cards are looked up in two
  statements and recordings fail. Excepted are cards edited before the cards were listed and
  cards whose recording failed; `RefreshUpdatesEveryCard`, the comment's promise, has no such exception and does not hold.
* `SaveIsExact`: a save that no other commit disturbed leaves in every card it names
  exactly what it asked for, in particular when it is a repetition of a save whose answer was lost.
* `SavesRemoveOnlyWhatTheyRead`: whatever else commits meanwhile, a save deletes only
  copies that it read, so never one that another save is adding.
* `GoneForGood`: no save brings back a copy that was deleted under it, and none turns a
  copy into one of another card.
* `RemovedMeansEmpty`: copies outlive the removal of their set only if a save
  committed after, or halfway through, the removal.

Five more are stated in the modules, or beside their proofs, and proved rather than run: `RevocationStaysInAccount` (a
session is revoked only by a request of its own account), `KeysIndependent` (a limiter's
key moves only by its own reports or the sweep), `CodesSecretUntilApproved`, `OwnRowsOnly` (whatever
ids a request lists, only copies of its user and set change) and `CodeStaysLost` (an approval whose email failed
is final: no step makes the code known, withdraws it or lets the address ask again, which is what the failure costs). So are most type invariants.

## The proofs

Each `X_proofs.tla` extends `X.tla`, and two of them more: `Accounts_proofs` is about what a login runs
through, with `AttemptLimiter`, and `PriceSync_proofs` about prices, with `RateLimiter` and
`PriceHistory`. Assumptions are the named ASSUMEs of the modules: parameters are positive naturals where the code has positive constants,
the special "none" values are not members of the sets they extend.

* **Accounts_proofs** — `TypeCorrect`, `OnlyLateSessionsSurvive`, `OnlyLatestLink`,
  `ResetTokenOnce`, `RevocationIsOwn`. The properties speak of the tables; the
  invariants add what each request in flight knows: what its locals say about
  the account, the hash it compared and the token in its hand. Without them a
  request could write for another account than the one it checked.
  Of the limiter, `AttemptsTypeCorrect`, `EveryLockoutEarned`, `CountIsExact`,
  `KeysDoNotInterfere`, `SweepKeepsMapBounded`. `IInv` adds to the types that no request is counted before
  it reported (`Fresh`) and for each key what its entry says about the recorded failures;
  lemmas on cardinalities of time spans carry the counting.
* **Invites_proofs** — `TypeCorrect`, `CodesSecret`, `AuditTrail`, `Refinement`, `LostForGood` (`CodeStaysLost`). `IInv`
  adds that a code is held by at most one signup (`OneHolder`) and that
  invites with an account are redeemed (`AccountsRedeemed`): the conditional UPDATE
  of `RedeemInvite` is what makes it inductive. Each step then maps to a step of
  `InviteLifecycle` or to a stutter. For `LostForGood`, `UnheardStep` shows action by action that an approved
  row whose code nobody knows is left as it is (`Kept`): each UPDATE asks for another status, each mail
  carries another code, and the row itself counts as outstanding for its address.
* **ModelDisplay_proofs** — `TypeCorrect`, `NothingStale` (`NeverBackwards`), `TriggersInOrder`, `TouchesAreReal`
  (`NoPhantomTouch`), for any number of controllers, displays and reconnections. `IInv` says that a broadcast only holds channels registered before it
  copied the state, both under one lock (`Fresh`); that its copy is no older than `clean` (`Holding`), because a
  broadcast that counts as alone has seen the others end; and that one which
  has run alone so far has left nothing older than its copy in the channels it is done with (`Lone`).
  The last is what a completed broadcast turns into `clean`. `TriggerInv` is about all copies of the state at
  once, in the server, in channels, held by broadcasts and on pages: none is of the future (`Dated`), and
  of those made since a connected subscriber came, a later one counts no fewer triggers (`Counted`). The
  counter runs back only in the restart or the last disconnection, which leave no subscriber to promise this to. A
  page that shows something remembers the trigger of what it shows; so a trigger it has not seen is a new one.
* **PriceSync_proofs** — of the limiter, `LimiterTypeCorrect` and `BucketBounded`: the inductive
  form (`StockBound`) adds the present content of the bucket to what was handed out
  since any tick; the sum is bounded, so handing out is. Each step of the syncers is a step of
  the limiter or leaves it alone (`StepUsesLimiter`), which gives `SyncersBounded` (`BucketBound`). `TypeCorrect`;
  `OkChecked` (`OkMeansChecked`) with `OwedInv`: until a page's cards are listed, all that a click owes
  still share its page, since an edit takes a card out; afterwards each is among the cards to do or was skipped.
  `PassesAreComplete` with `PassInv`: what was planned is tried or queued. `EveryRequestPaid`
  (`RequestsPaid`) would be a sum over the syncers; `PaidInv` says instead that there is a bill: each request so far is
  a pair of a token and an attempt, no pair is used twice, and a syncer that is fetching has
  the later attempts of a token of its own left. There are `granted * MaxFetchAttempts` pairs. Of the
  pages, `MarketIsCurrent` (`MarketShowsCurrentCheck`), `TrendsAreLastChecks` (`TrendsUseLastChecks`), `MoversAndTrends`
  (`MoversAgreeWithTrends`) and `NamelessWereDeleted` (`NamelessMeansDeleted`), for any number of recorders, cards, checks and
  days. `HistoryInv` says that ids and seconds rise together and a row comes after committed ones only (`Ordered`);
  that an open transaction's row is its own and not visible, that its stamp is not before its row, and that the source it has
  touched is still there, because it is locked (`TxInv`); and, since `last_checked_at` lives in another table than the rows, that the time on a page is missing exactly when there are no rows and
  otherwise not before that of a current one, and that a card of the catalog without a source has no rows (`CheckedInv`). The row with the highest id is of the last second and current, since a
  row is only superseded by higher ids. A commit may supersede the rows its transaction began after; that it leaves a current
  check no later than the time is because its own row is one and its stamp is not before it. That any rows and days have a last
  one comes from the well-foundedness of the naturals (`LeastNumber`). `LastTwoIs` says which two days `day_rank <= 2` leaves. `MoversInv` says that
  a card that was found is in the catalog or was deleted since.
* **Ownership_proofs** — `TypeCorrect`, `OwnRows`, `GoneStaysGone`, `RemovesOnlyRead`,
  `RemovedIsEmpty`, `SavesExactly`. The properties speak of commits; the invariant `OwnInv` says what an open
  transaction may hold until then: rows of its own user and set, never the id of a copy
  that existed and is gone, and no row that another transaction has written (`Locked`); what it read were
  copies of its user and of that card. `PageStep` and `StoreStep` say once what a step of one page leaves intact
  of the others. `ReadBefore` adds that a transaction has taken its snapshot before it
  writes and deletes only from it. `Removed` extends `RemovedMeansEmpty` to a set that is
  being removed, which makes it inductive.
  `SavesExactly` (`SaveIsExact`) needs to know how far an undisturbed save has come (`SaveInv`): what it
  read is what there is, the cards it is done with are as it was asked to make them in the table with
  its own writes, those ahead are as they were, and a card between its two statements has the right count
  (`RightCount`). Each statement changes the card in hand only (`CardWritten`), and a commit of another
  page either leaves the copies of this user as they are or disturbs the save (`SaveStore`). That the `n` newest
  of some copies are `n` (`NewestCount`) and that new copies have the prices of the request, each as
  often (`NewCount`), are lemmas by counting bijections.
* **CatalogImport_proofs** — `TypeCorrect`, `CommandsAsWritten`, `OwnersKeepCards`, `KnownSetsStay`, `SetsAreNotSplit`,
  `StoredModelsWhole`, `ListedKeepIds`, `CommandsDoTheirFile` (`FinishedMatchesCommand`), for any catalog, files and
  number of commands. The invariants come in layers, each proved from those below. `CommandsInv`: what a command
  remembers at each point of its program, with the types. `OwnedLive`: who owns a card owns one that is
  there; deleting skips those. `SetsInv`: set ids are handed out without gaps, and the sets a command has found keep their
  names and, once filled in, their status. `SerialInv`: while commands run one at a time, what a command
  did not find is still not there when it inserts. `PartsInv`: the files downloaded so far are of the version
  at the source unless that changed. `AloneInv`: nobody else runs beside a command that counts as
  alone. `FileInv` is the heart: such a command, if it skipped nothing, has at row `n` done the rows before `n`
  (`DoneInv`, stated of any state of the cards and sources, so that each statement is one lemma on operators). Of the
  rows that name one card, the last one done so far is the one its stored text must be from (`Imported`).
* **EbaySearch_proofs** — `TypeCorrect`, `ListAndMapAgree`, `LeastRecentEvicted`, `AnswersAreFresh`,
  `TokensOutliveSearches`, `StepsBackAreShort` (`SetsBackBounded`: a search stored late takes what is cached back by no more
  than one request may last). The lemmas say what moving to the front, pushing and dropping do to
  a list without repetition; with them `get` and `set` keep the invariant `CacheInv`, that the list is sorted by
  `newer`. `InTime` carries the clock arithmetic: where each request stands between its deadline, its token's
  issue and its answer. `TokensOutliveSearches` is where the assumption on `Buffer` is used.

* **Migrations_proofs** — `Plans`, `NoGaps` (`AheadByOne`), `InsertedOnce` (`DuplicatesNeedALoss`), `EmptiedByDown`
  (`DownEmpties`), for any files, processes, releases and kills. `PlanIs` computes from `Plan` and its helpers what a
  run does at each place, and `TypeInv` says that a process is at a place of the plan of its direction, alone unless it
  runs up. Each property then has an invariant of its own. `AheadInv`: the schema is that of `n` files, the
  records name `k` of them, `n` is `k` or `k + 1`, and no run up is beyond file `k + 1`, nor records one beyond `n`; so a file
  executed again after a loss is the `n`-th, and changes nothing (`OneFileMore`). `CopiesInv`: rows that are there are
  those of a file that is recorded, or about to be, unless it was lost. `DownInv`: what exists at place `a` of a run
  down, the files ahead of it drop, and a seed run after it finds nothing to refer to. That the recursive function `Built` exists at
  all is an induction, done by a least counterexample (`LayersExist`).

Only model-checked: liveness (`CatchesUp`, `EverySyncEnds`, `RequestsEnd`, `EventuallyMigrated`), which is beyond
this prover's reach. All other properties of the runs are theorems.

The assumptions of the catalog are that `None` is no set, name, code, model or row, that the commands
are well-formed (a refresh and `set-price-sources` name a set, every row of a `process-set` file has a
set's name, a `model-import` names its character, as the flag checks and the parser of the command line require),
and that a model has a version. Those of the migrations (`FilesAssumption`) are about the files under `be/db`, which
satisfy them: paths differ; no up file says IF NOT EXISTS; an up file makes nothing that a seed makes; what an up file or its
reversal makes is dropped by that reversal or an older one; and a seed, a bare INSERT, drops nothing and adds rows to tables that exist,
so that its rows go when those tables do. `DownEmpties` would not hold of files without such reversals.

## Where code and comments disagree

Four are runs that must find the violation; PROJECT.json quotes the lines.

* A login that compared the old hash before a password change inserts its session
  after the revocation and stays logged in (`RevocationHolds`).
* Two simultaneous invite requests for one address mint two codes
  (`OneOutstandingInvitePerEmail`).
* When the email of an approval on the admin page fails, the answer (`admin.go:98`) sends the administrator to the server logs for the
  link. The log has the address only, and the code is on no page either (`FailedMailLeavesLink`). The theorem `LostForGood` says what that costs. The
  command line prints the link in that case.
* "A successful refresh updates every card sharing that url" (`refresh_price.go:17-18`): a card whose check cannot be recorded is
  logged and skipped, and the answer is 204 (`RefreshUpdatesEveryCard`).

The others came up while modelling and shape what the properties say:

* `model_display.go:193-198`: a subscriber "should catch up to wherever things are *now*". With two
  controllers the broadcast with the older copy can be the last to send, and a display stays on it until
  the next change. `CatchesUp` promises `Due` instead.
* `ModelDisplay.tsx:107-111`: a left-over trigger does not "replay as a phantom touch". A page that reconnects after the
  counter was reset compares the new counter with the one it remembers. `NoPhantomTouch` names the exception.
* `sync.go:114-117`: retries are called bounded, and are, but one token pays for up to three requests,
  so pages that fail are asked more often than the limiter's rate. `RequestsPaid` states the factor.
* `ownership.go:187-189`: a form saved after another tab added a copy deletes that copy, which it never showed: the
  save removes what its transaction read, not what its page did. `SavesRemoveOnlyWhatTheyRead` is the part that holds.
* `cache.go:16-18`: the cache "never holds data longer than" six hours. An expired entry stays until it is replaced
  or evicted, it is only not shown; and its age counts from its arrival, not from eBay's answer (`AnswersFresh`).
* `migrations.go:62`: a run that dies between a file and its record executes it again, and a file whose statement
  cannot be repeated then stops every later start until somebody repairs the table by hand.
* `price_sources.go:277-280`: one transaction keeps `last_checked_at` and the history in step across a crash, but not to the
  second, and not with each other when two overlap. `MarketShowsCurrentCheck` is the part that holds.
* `price_trends.go:71`: the day's price is ranked by the second alone, where the market price also
  ranks by id: of two checks in one second the pages may show different ones.

## Not modelled

* Content: hashes, token bytes, names, prices, card data, pages and SQL are members of small sets or left
  out. Input validation decides whether a request reaches the modelled statements.
* The lobby: its slice is appended to and read by concurrent requests without a lock. What a data race on
  a slice header does is undefined, so a model would have to allow every outcome, and nothing in the
  repository promises anything of the list that could then still break.
* The owner, feature and admin gates read configuration only. Cookies' attributes,
  CSRF and headers are HTTP plumbing.
* Parsing and matching of listing pages (`tcgrepublic.go`) and of eBay's JSON: string work whose only effect on state is whether a
  price or a listing was found.
* Templates of emails; the mail service is an action that succeeds or fails.
* The `sync-prices` command: a process of its own, with its own full bucket. It
  runs `SyncAll` as the loop does, outside the bound proved for the server.
* Panics, which the loop and the router recover from; durations of single
  requests (`writeTimeout` against `refreshPriceTimeout` is listed as a hazard).
* An import of several characters (repeated `--char`), or one with both `--card` and `--card-id`; a save that names one card twice.
* Of a run up over a run down that was cut short no property speaks: the records still name every file, so it does nothing,
  and nothing in the repository says what it should do. Running down again is `DownEmpties`.
* Listing, searching and summarising the collection, listing models and streaming their bytes: reads of one statement each.
* `CreateCard`, `DeleteCardsForSet`, `DeleteSetCascade` and `SetCardQuantity` have no callers outside tests.
* Startup, configuration and logging: wiring without state after startup.
* Rendering, Dockerfiles, generated types, assets.

## What could follow

1. A composition of login, limiter and session; of the price pass with the transactions that record its checks.
2. For ownership: saves without interference as a refinement of an abstract collection, for which `SavesExactly`
   is the step.
