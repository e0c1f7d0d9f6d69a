----------------------------- MODULE EbaySearch -----------------------------
(***************************************************************************)
(* "Check prices" on eBay: GetEbayListings (be/handlers/ebay_listings.go)  *)
(* over the listings cache (be/ebay/cache.go), the token manager           *)
(* (be/ebay/oauth.go) and the two HTTP requests that a miss may cost       *)
(* (be/ebay/browse.go).                                                    *)
(*                                                                         *)
(* The cache's get and set, and the token manager's check, each hold a     *)
(* mutex and are one action.  An HTTP request is two: eBay answers, then   *)
(* the answer arrives.  A listing is the time at which eBay looked it up.  *)
(***************************************************************************)
EXTENDS Integers, Sequences, FiniteSets

CONSTANTS
    Requests, Cards,
    NoCard, NoOne,
    Capacity,   \* cacheCapacity
    TTL,        \* cacheTTL
    Timeout,    \* requestTimeout: no HTTP request outlives it
    Patience,   \* refreshPriceTimeout: no request of the page sends one after it
    Buffer,     \* tokenRefreshBuffer
    Life,       \* expires_in of a token, from the time eBay issues it
    MaxTime     \* bounds the clock

ASSUME EbayAssumption ==
    /\ Capacity \in Nat \ {0}
    /\ {TTL, Timeout, Patience, Buffer, Life, MaxTime} \subseteq Nat
    /\ 2 * Timeout <= Buffer /\ 2 * Timeout < Life
    /\ NoOne \notin Requests /\ NoCard \notin Cards

VARIABLES
    now,
    order,     \* the cached cards, the most recently used first
    items,     \* the entry of each cached card
    token,     \* accessToken with expiresAt
    holder,    \* who holds the token manager's mutex across its HTTP request
    req,       \* the requests of the page
    newer      \* history: <<c, d>> when both are cached and c was used (found or
               \* stored) after d

cache == <<order, items, newer>>
vars == <<now, cache, token, holder, req>>

-----------------------------------------------------------------------------

PC == {"idle", "queue", "oauth", "issued", "search", "found", "done"}
Times == Nat \cup {-1}     \* -1: never
Entries == [listings : Times, cachedAt : Times]
NoEntry == [listings |-> -1, cachedAt |-> -1]
Tokens == [issued : Times, expiresAt : Times]
NoToken == [issued |-> -1, expiresAt |-> -1]
Locals == [pc : PC, card : Cards \cup {NoCard},
           until : Times,       \* the deadline of the context
           deadline : Times,    \* that of the HTTP request under way
           issued : Times,      \* the token it carries
           listings : Times,    \* what eBay found
           age : Times]         \* how old it was in the end, -1 after a failure
Resting == [pc |-> "idle", card |-> NoCard, until |-> -1, deadline |-> -1,
            issued |-> -1, listings |-> -1, age |-> -1]

Cached == {c \in Cards : items[c] # NoEntry}
Fresh(c) == c \in Cached /\ now - items[c].cachedAt <= TTL
\* The cached token is used until Buffer before its end.  (A slip: to its end.)
TokenUnexpired == token # NoToken /\ now < token.expiresAt
TokenGood == token # NoToken /\ now < token.expiresAt - Buffer
Failed == [Resting EXCEPT !.pc = "done"]
\* The answer shown.
Served(found) == [Resting EXCEPT !.pc = "done", !.age = now - found]
\* An HTTP request ends with the client's timeout or the context of the page.
Deadline(r) == IF now + Timeout < req[r].until THEN now + Timeout ELSE req[r].until

Init ==
    /\ now = 0
    /\ order = <<>> /\ items = [c \in Cards |-> NoEntry] /\ newer = {}
    /\ token = NoToken /\ holder = NoOne
    /\ req = [r \in Requests |-> Resting]

-----------------------------------------------------------------------------
(* The cache.                                                              *)

\* container/list.  (A slip: the order never changes.)
MoveNothing(s, c) == s
MoveToFront(s, c) ==
    LET i == CHOOSE i \in DOMAIN s : s[i] = c
    IN  [j \in DOMAIN s |-> IF j = 1 THEN c ELSE IF j <= i THEN s[j - 1] ELSE s[j]]

PushFront(s, c) == [j \in 1..(Len(s) + 1) |-> IF j = 1 THEN c ELSE s[j - 1]]

Remove(s, i) == [j \in 1..(Len(s) - 1) |-> IF j < i THEN s[j] ELSE s[j + 1]]

Back(s) == Len(s)

Use(c) ==
    newer' = {p \in newer : p[2] # c /\ items'[p[1]] # NoEntry /\ items'[p[2]] # NoEntry}
             \cup {<<c, d>> : d \in {d \in Cards \ {c} : items'[d] # NoEntry}}

(* Finding an entry leaves it as it is.  (A slip: it counts as new again.) *)
LookedRestamped(c) == [items EXCEPT ![c].cachedAt = now]
Looked(c) == items

(* A fresh entry is found; one past its ttl stays where it is, a miss. *)
Get(c) ==
    /\ Fresh(c)
    /\ order' = MoveToFront(order, c)
    /\ items' = Looked(c)
    /\ Use(c)

Entry(found) == [listings |-> found, cachedAt |-> now]

(* The entry that `delete` leaves behind when the list drops a card.  (A slip:
   the map keeps it.) *)
DeletedNot(c) == items[c]
Deleted(c) == NoEntry

Set(c, found) ==
    LET pushed == IF c \in Cached THEN MoveToFront(order, c) ELSE PushFront(order, c)
        set == [items EXCEPT ![c] = Entry(found)]
        out == pushed[Back(pushed)]
    IN  /\ IF Len(pushed) <= Capacity
           THEN order' = pushed /\ items' = set
           ELSE /\ order' = Remove(pushed, Back(pushed))
                /\ items' = [set EXCEPT ![out] = Deleted(out)]
        /\ Use(c)

-----------------------------------------------------------------------------
(* One request of the page.                                                *)

Starts(r) == req[r].pc \in {"idle", "done"}

(* Switched off, not configured, an unknown card or a failing database. *)
Refuse(r) ==
    /\ Starts(r)
    /\ req' = [req EXCEPT ![r] = Failed]
    /\ UNCHANGED <<now, cache, token, holder>>

Hit(r, c) ==
    /\ Starts(r)
    /\ Get(c)
    /\ req' = [req EXCEPT ![r] = Served(items[c].listings)]
    /\ UNCHANGED <<now, token, holder>>

(* The bound: no search starts that the clock cannot see to its deadline. *)
Miss(r, c) ==
    /\ Starts(r) /\ now + Patience <= MaxTime
    /\ ~Fresh(c)
    /\ req' = [req EXCEPT ![r] = [Resting EXCEPT !.pc = "queue", !.card = c,
                 !.until = now + Patience]]
    /\ UNCHANGED <<now, cache, token, holder>>

Turn(r) == req[r].pc = "queue" /\ holder = NoOne

Send(r, at, tok) == [req[r] EXCEPT !.pc = at, !.issued = tok, !.deadline = Deadline(r)]

(* The cached token: the mutex is free again before the search is sent. *)
ReuseToken(r) ==
    /\ Turn(r) /\ now < req[r].until
    /\ TokenGood
    /\ req' = [req EXCEPT ![r] = Send(r, "search", token.issued)]
    /\ UNCHANGED <<now, cache, token, holder>>

(* The lock is kept while the token is fetched. *)
FetchToken(r) ==
    /\ Turn(r) /\ now < req[r].until
    /\ ~TokenGood
    /\ holder' = r
    /\ req' = [req EXCEPT ![r] = Send(r, "oauth", -1)]
    /\ UNCHANGED <<now, cache, token>>

(* Waiting for the mutex does not look at the context; sending does. *)
GiveUp(r) ==
    /\ Turn(r) /\ now >= req[r].until
    /\ req' = [req EXCEPT ![r] = Failed]
    /\ UNCHANGED <<now, cache, token, holder>>

IssueToken(r) ==
    /\ req[r].pc = "oauth"
    /\ req' = [req EXCEPT ![r].pc = "issued", ![r].issued = now]
    /\ UNCHANGED <<now, cache, token, holder>>

(* The token arrives and is stored, the mutex freed, and the search sent,
   if there is time left for it. *)
Granted(r) == [issued |-> req[r].issued, expiresAt |-> now + Life]

StoreToken(r) ==
    /\ req[r].pc = "issued"
    /\ token' = Granted(r)
    /\ holder' = NoOne
    /\ req' = [req EXCEPT ![r] =
                 IF now < req[r].until THEN Send(r, "search", req[r].issued)
                 ELSE Failed]
    /\ UNCHANGED <<now, cache>>

Answer(r) ==
    /\ req[r].pc = "search" /\ now < req[r].issued + Life
    /\ req' = [req EXCEPT ![r].pc = "found", ![r].listings = now]
    /\ UNCHANGED <<now, cache, token, holder>>

StoreListings(r) ==
    /\ req[r].pc = "found"
    /\ Set(req[r].card, req[r].listings)
    /\ req' = [req EXCEPT ![r] = Served(req[r].listings)]
    /\ UNCHANGED <<now, token, holder>>

(* The HTTP request fails, is refused, times out or answers nonsense. *)
InFlight(r) == req[r].pc \in {"oauth", "issued", "search", "found"}

\* The deferred unlock.  (A slip: none after an error.)
Kept(r) == holder
Released(r) == IF holder = r THEN NoOne ELSE holder

Fail(r) ==
    /\ InFlight(r)
    /\ holder' = Released(r)
    /\ req' = [req EXCEPT ![r] = Failed]
    /\ UNCHANGED <<now, cache, token>>

Restart ==
    /\ order' = <<>> /\ items' = [c \in Cards |-> NoEntry] /\ newer' = {}
    /\ token' = NoToken /\ holder' = NoOne
    /\ req' = [r \in Requests |-> Resting]
    /\ UNCHANGED now

(* The code's own steps take no time: what takes time are HTTP requests, which
   end by their deadlines, and the wait for a mutex that one of them holds. *)
Tick ==
    /\ now < MaxTime
    /\ \A r \in Requests : ~Turn(r) /\ (InFlight(r) => now < req[r].deadline)
    /\ now' = now + 1
    /\ UNCHANGED <<cache, token, holder, req>>

Next ==
    \/ \E r \in Requests :
         \/ Refuse(r) \/ \E c \in Cards : Hit(r, c) \/ Miss(r, c)
         \/ ReuseToken(r) \/ FetchToken(r) \/ GiveUp(r)
         \/ IssueToken(r) \/ StoreToken(r) \/ Answer(r) \/ StoreListings(r)
         \/ Fail(r)
    \/ Restart
    \/ Tick

Spec == Init /\ [][Next]_vars

(* A request in flight fails at its deadline, a free mutex goes to whoever has
   waited too long for it (Go's starvation mode), and time passes. *)
FairSpec ==
    /\ Spec
    /\ WF_vars(Tick)
    /\ \A r \in Requests : WF_vars(Fail(r)) /\ SF_vars(ReuseToken(r) \/ FetchToken(r) \/ GiveUp(r))

-----------------------------------------------------------------------------
(* Properties.                                                             *)

(* Every variable has its type. *)
TypeOK ==
    /\ now \in Nat
    /\ order \in Seq(Cards)
    /\ items \in [Cards -> Entries]
    /\ token \in Tokens
    /\ holder \in Requests \cup {NoOne}
    /\ req \in [Requests -> Locals]
    /\ newer \subseteq Cards \X Cards

(* The list and the map of the cache name the same cards, each once, and never
   more than its capacity. *)
CacheAgrees ==
    /\ {order[i] : i \in DOMAIN order} = Cached
    /\ \A i, j \in DOMAIN order : i # j => order[i] # order[j]
    /\ Len(order) <= Capacity

(* What a page is shown was true on eBay no longer ago than the ttl and the time
   one search may take: however often an entry is found, its age counts from
   when it was fetched. *)
AnswersFresh ==
    \A r \in Requests : req[r].age <= TTL + Timeout

(* No search is under way with a token that eBay has already let expire, although
   expiresAt is counted from when the token arrived. *)
TokenOutlivesSearch ==
    \A r \in Requests : req[r].pc = "search" => now < req[r].issued + Life

(* A full cache gives up the card that has gone unused the longest. *)
EvictsLeastRecent ==
    [][\A c \in Cached : items'[c] = NoEntry /\ order' # <<>> =>
          \A d \in Cached \ {c} : <<d, c>> \in newer]_vars

(* Two searches of one card may be stored in the other order, but then what was
   cached goes back by less than one search takes. *)
SetsBackBounded ==
    [][\A c \in Cached : items'[c].listings # -1 =>
          items'[c].listings >= items[c].listings - Timeout]_vars

(* Every request of the page is answered, or fails, in the end. *)
RequestsEnd == \A r \in Requests : req[r].pc = "queue" ~> req[r].pc \in {"done", "idle"}
=============================================================================
