------------------------------ MODULE Ownership ------------------------------
(***************************************************************************)
(* Who owns which copies of which cards: owned_sets and owned_card_copies  *)
(* (be/persist/ownership.go), the handlers over them                       *)
(* (be/handlers/collection.go) and the page that edits a set               *)
(* (fe/src/components/OnboardCards.tsx).                                   *)
(*                                                                         *)
(* A page is one browser tab: it loads a form, submits it as two requests, *)
(* or removes the set.  A save is one transaction at MySQL's default       *)
(* isolation: plain SELECTs see the tables as they were at its first one;  *)
(* INSERT, UPDATE and DELETE see the rows as they are, wait for rows that  *)
(* another transaction has written, and are seen by others when it         *)
(* commits.  Ids are UUIDv7 and numbered in the order they are minted,     *)
(* which is the order of (created_at, id).                                 *)
(***************************************************************************)
EXTENDS Integers, FiniteSets, Sequences

CONSTANTS
    Users, Sets, Cards,
    Active,       \* the users whose tabs are open
    SetOf,        \* cards.set_id
    Prices,       \* price_paid_cents, NULL included
    NoPrice,      \* NULL
    NoRow,        \* "no such row"
    Untouched,    \* "not written by this transaction"
    NoUser, NoSet, NoCard,
    Pages,        \* tabs that may be open at the same time
    Forged,       \* ids that a client other than the page may list
    MaxEdited,    \* bounds the cards edited in one form
    MaxNew,       \* bounds the new copies of one card in one save
    MaxQuantity,  \* bounds the quantities asked for
    MaxRetries,   \* bounds the saves retried
    MaxExisting,  \* bounds the copies at the start
    MaxCopies     \* bounds the copies ever made

ASSUME OwnershipAssumption ==
    /\ SetOf \in [Cards -> Sets]
    /\ Active \subseteq Users
    /\ NoPrice \in Prices
    /\ MaxRetries \in Nat /\ MaxEdited \in Nat /\ MaxNew \in Nat /\ MaxQuantity \in Nat
    /\ MaxCopies \in Nat /\ MaxExisting \in 0..MaxCopies
    /\ Forged \subseteq 1..MaxCopies
    /\ NoRow \notin [user : Users, card : Cards, price : Prices]
    /\ Untouched \notin [user : Users, card : Cards, price : Prices] \cup {NoRow}
    /\ NoUser \notin Users /\ NoSet \notin Sets /\ NoCard \notin Cards

VARIABLES
    table,      \* owned_card_copies, as committed
    onboarded,  \* owned_sets
    minted,     \* ids handed out by NewUUIDv7
    pc, job,    \* progress of each page and what it is working on
    work,       \* rows written by the open transaction of each page
    ever,       \* history: ids that have been in the table
    retries,    \* saves retried so far
    raced       \* history: a save of this user and set committed while the set was
                \* not onboarded or was half removed

vars == <<table, onboarded, minted, pc, job, work, retries, ever, raced>>
db == <<table, onboarded, ever, raced>>

-----------------------------------------------------------------------------

Ids == 1..MaxCopies
Row == [user : Users, card : Cards, price : Prices]
Shelves == Users \X Sets
CardsOf(s) == {c \in Cards : SetOf[c] = s}

Blank == [c \in Cards |-> {}]
NoForm == [c \in Cards |-> [i \in {} |-> NoPrice]]
Nothing == [c \in {} |-> NoCard]

\* The entry of one card in a request: the copies it should have, by id or new, or
\* (the older form) how many, and the price of the newest.
ByID(ids) == [kind : {"copies"}, listed : UNION {[I -> Prices] : I \in SUBSET ids},
              fresh : UNION {[1..n -> Prices] : n \in 0..MaxNew}]
ByCount == {e \in [kind : {"quantity"}, quantity : 0..MaxQuantity, price : Prices] :
                e.quantity = 0 => e.price = NoPrice}
Unedited(shown) == [kind |-> "copies", listed |-> shown, fresh |-> << >>]

\* The page submits every card that its form shows copies of and every card that was
\* edited; "skip this for now" submits none.
Requests(form) ==
    LET shown == {c \in Cards : form[c] # [i \in {} |-> NoPrice]}
        edits(c) == ByID(DOMAIN form[c] \cup Forged) \cup ByCount
    IN  {Nothing} \cup
        UNION {{[c \in shown \cup E |-> IF c \in E THEN e[c] ELSE Unedited(form[c])] :
                  e \in {f \in [E -> UNION {edits(c) : c \in E}] : \A c \in E : f[c] \in edits(c)}} :
               E \in {D \in SUBSET Cards : Cardinality(D) <= MaxEdited}}

NoWork == [i \in Ids |-> Untouched]

\* The copies of card c that user u has in a state t of the table.
CopiesOf(t, u, c) == {i \in Ids : t[i] # NoRow /\ t[i].user = u /\ t[i].card = c}
OnShelf(t, u, s) == UNION {CopiesOf(t, u, c) : c \in CardsOf(s)}

\* The n newest of some copies, and the newest.
Newest(n, ids) == {i \in ids : Cardinality({j \in ids : j > i}) < n}
Last(ids) == Newest(1, ids)

\* The table with the writes of page r.
Merged(r) == [i \in Ids |-> IF work[r][i] = Untouched THEN table[i] ELSE work[r][i]]
WrittenBy(r) == {i \in Ids : work[r][i] # Untouched}

\* No other transaction holds the lock of one of these rows, or of a row of these cards.
Unlocked(r, ids) == \A q \in Pages \ {r} : WrittenBy(q) \cap ids = {}
NoneWritten(r, u, C) ==
    \A q \in Pages \ {r}, c \in C :
        WrittenBy(q) \cap (CopiesOf(table, u, c) \cup CopiesOf(Merged(q), u, c)) = {}

Write(r, rows) == work' = [work EXCEPT ![r] = [i \in Ids |->
                             IF i \in DOMAIN rows THEN rows[i] ELSE @[i]]]

Entry(r) == job[r].wanted[job[r].card]
Mine(r) == job[r].seen[job[r].card]
NewIds(n) == (minted + 1)..(minted + n)

InTx == {"tx", "copies", "quantity", "price"}

JobOn(u, s, form) == [user |-> u, set |-> s, form |-> form, wanted |-> Nothing,
                      seen |-> Blank, todo |-> {}, card |-> NoCard, disturbed |-> FALSE]
NoJob == JobOn(NoUser, NoSet, NoForm)

Init ==
    /\ minted \in 0..MaxExisting
    /\ table \in {[i \in Ids |-> IF i <= minted THEN t[i] ELSE NoRow] : t \in [1..minted -> Row]}
    /\ onboarded = {us \in Shelves : OnShelf(table, us[1], us[2]) # {}}
    /\ pc = [r \in Pages |-> "idle"]
    /\ job = [r \in Pages |-> NoJob]
    /\ work = [r \in Pages |-> NoWork]
    /\ retries = 0
    /\ ever = 1..minted /\ raced = {}

\* The page is done: back on the dashboard, or on its form with an error.
JobAfter(j, place) ==
    IF place = "done" THEN NoJob
    ELSE [j EXCEPT !.seen = Blank, !.todo = {}, !.card = NoCard, !.disturbed = FALSE]
Close(r, place) ==
    /\ pc' = [pc EXCEPT ![r] = place]
    /\ work' = [work EXCEPT ![r] = NoWork]
Finish(r, place) == Close(r, place) /\ job' = [job EXCEPT ![r] = JobAfter(@, place)]

\* A commit or a single statement of page r makes t the table and j its job; the open
\* transactions of the users it concerns are disturbed.
Concerns(t, u) == \E i \in Ids, c \in Cards :
    t[i] # table[i] /\ i \in CopiesOf(t, u, c) \cup CopiesOf(table, u, c)
Store(r, t, j) ==
    /\ table' = t
    /\ ever' = ever \cup {i \in Ids : t[i] # NoRow}
    /\ job' = [q \in Pages |->
         IF q = r THEN j
         ELSE [job[q] EXCEPT !.disturbed = @ \/ (pc[q] \in InTx /\ Concerns(t, job[q].user))]]

-----------------------------------------------------------------------------
(* OnboardCards: the form and its submission.                              *)

\* ListOwnedCardsForSet: the copies of every card of the set.
Load(r, u, s) ==
    /\ pc[r] = "idle"
    /\ job' = [job EXCEPT ![r] = JobOn(u, s, [c \in Cards |->
                 [i \in CopiesOf(table, u, c) \cap OnShelf(table, u, s) |-> table[i].price]])]
    /\ pc' = [pc EXCEPT ![r] = "form"]
    /\ UNCHANGED <<db, minted, work>>

\* Saving: AddOwnedSet, after which the page goes on to the cards, if there are any.
\* It may fail, and its answer may be lost, which the page takes for a failure.
AddOwnedSet(r, w) ==
    LET added == onboarded \cup {<<job[r].user, job[r].set>>} IN
    /\ \/ w = Nothing /\ onboarded' = added /\ Finish(r, "done")
       \/ /\ w # Nothing /\ onboarded' = added
          /\ pc' = [pc EXCEPT ![r] = "tx"]
          /\ job' = [job EXCEPT ![r].wanted = w, ![r].todo = DOMAIN w]
          /\ UNCHANGED work
       \/ /\ onboarded' \in {onboarded, added}
          /\ pc' = [pc EXCEPT ![r] = "error"]
          /\ job' = [job EXCEPT ![r].wanted = w]
          /\ UNCHANGED work
    /\ UNCHANGED <<table, minted, ever, raced>>

Submit(r) ==
    /\ pc[r] = "form"
    /\ \E w \in Requests(job[r].form) : AddOwnedSet(r, w)
    /\ UNCHANGED retries

\* "Could not save your collection. Please try again."
Retry(r) ==
    /\ pc[r] = "error" /\ retries < MaxRetries
    /\ AddOwnedSet(r, job[r].wanted)
    /\ retries' = retries + 1

-----------------------------------------------------------------------------
(* SetOwnedCardsForSet, SetOwnedCards and the two ways to reconcile a card. *)

\* The cards of a request must belong to its set.
ValidCards(r) == DOMAIN job[r].wanted \subseteq CardsOf(job[r].set)

Refuse(r) ==
    /\ pc[r] = "tx" /\ ~ValidCards(r)
    /\ Finish(r, "error")
    /\ UNCHANGED <<db, minted>>

\* The rows a reconciliation starts from.
Visible(u, c) == CopiesOf(table, u, c)

\* The next card; the first one also takes the snapshot of the transaction.
Read(r, c) ==
    /\ pc[r] = "tx" /\ ValidCards(r) /\ c \in job[r].todo
    /\ LET first == job[r].todo = DOMAIN job[r].wanted IN
       job' = [job EXCEPT
            ![r].card = c, ![r].todo = @ \ {c},
            ![r].seen = IF first THEN [d \in Cards |-> Visible(job[r].user, d)] ELSE @,
            ![r].disturbed = @ /\ ~first]
    /\ pc' = [pc EXCEPT ![r] = IF job[r].wanted[c].kind = "copies" THEN "copies" ELSE "quantity"]
    /\ UNCHANGED <<db, minted, work>>

\* Rows to delete: those read and not listed.  (A slip: those there and not listed.)
UnlistedNow(r) == CopiesOf(table, job[r].user, job[r].card) \ DOMAIN Entry(r).listed
Unlisted(r) == Mine(r) \ DOMAIN Entry(r).listed

NewRow(r, p) == [user |-> job[r].user, card |-> job[r].card, price |-> p]

\* Rows to update: those read, listed and still there.  (A slip: all of those listed,
\* inserted if they are not there.)
UpsertListed(r) == DOMAIN Entry(r).listed \cap Mine(r)
Updated(r) == {i \in DOMAIN Entry(r).listed \cap Mine(r) : table[i] # NoRow}

\* reconcileOwnedCardCopiesByID: the delete, then an update or insert for each entry.
\* One action: they write different rows, and nobody sees them before the commit.
WriteCopies(r) ==
    LET entry == Entry(r)
        gone == {i \in Unlisted(r) : table[i] # NoRow}
        new == NewIds(Len(entry.fresh))
    IN
    /\ pc[r] = "copies"
    /\ minted + Len(entry.fresh) <= MaxCopies
    /\ Unlocked(r, gone \cup Updated(r))
    /\ Write(r, [i \in gone \cup Updated(r) \cup new |->
                   IF i \in new THEN NewRow(r, entry.fresh[i - minted])
                   ELSE IF i \in Updated(r) THEN NewRow(r, entry.listed[i]) ELSE NoRow])
    /\ minted' = minted + Len(entry.fresh)
    /\ pc' = [pc EXCEPT ![r] = "tx"]
    /\ UNCHANGED <<db, job>>

\* Which copies go when the quantity falls.  (A slip: the oldest.)
OldestFirst(n, ids) == {i \in ids : Cardinality({j \in ids : j < i}) < n}
ToRemove(n, ids) == Newest(n, ids)

\* reconcileOwnedCardCopies: the count, and the insert or delete that corrects it.
AdjustQuantity(r) ==
    LET have == Cardinality(Mine(r))
        want == Entry(r).quantity
        new == IF want > have THEN NewIds(want - have) ELSE {}
        gone == IF want < have THEN ToRemove(have - want, Mine(r)) ELSE {}
    IN
    /\ pc[r] = "quantity"
    /\ minted + Cardinality(new) <= MaxCopies
    /\ Unlocked(r, gone)
    /\ Write(r, [i \in {j \in gone : table[j] # NoRow} \cup new |->
                   IF i \in new THEN NewRow(r, NoPrice) ELSE NoRow])
    /\ minted' = minted + Cardinality(new)
    /\ pc' = [pc EXCEPT ![r] = IF want = 0 THEN "tx" ELSE "price"]
    /\ UNCHANGED <<db, job>>

\* UPDATE ... ORDER BY created_at DESC LIMIT 1: the newest row there is now.
SetNewestPrice(r) ==
    LET now == CopiesOf(Merged(r), job[r].user, job[r].card) IN
    /\ pc[r] = "price"
    /\ NoneWritten(r, job[r].user, {job[r].card})
    /\ Write(r, [i \in Last(now) |-> NewRow(r, Entry(r).price)])
    /\ pc' = [pc EXCEPT ![r] = "tx"]
    /\ UNCHANGED <<db, minted, job>>

\* The answer may be lost, which the page takes for a failure.
Commit(r) ==
    /\ pc[r] = "tx" /\ job[r].todo = {}
    /\ \E place \in {"done", "error"} :
         Close(r, place) /\ Store(r, Merged(r), JobAfter(job[r], place))
    /\ raced' = IF \/ <<job[r].user, job[r].set>> \notin onboarded
                   \/ \E q \in Pages : /\ pc[q] = "remove"
                                       /\ job[q].user = job[r].user /\ job[q].set = job[r].set
                THEN raced \cup {<<job[r].user, job[r].set>>} ELSE raced
    /\ UNCHANGED <<onboarded, minted>>

\* A statement fails, a lock is not to be had in time, a deadlock is broken: the
\* transaction is rolled back and the page shows an error.
Fail(r) ==
    /\ pc[r] \in InTx
    /\ Finish(r, "error")
    /\ UNCHANGED <<db, minted>>

-----------------------------------------------------------------------------
(* DeleteOwnedSet: two statements, each committed on its own.              *)

\* A slip: the error of the first statement is logged and forgotten.
RemoveCopiesForgetful(r, u, s) ==
    /\ pc[r] = "idle"
    /\ pc' = [pc EXCEPT ![r] = "remove"]
    /\ job' = [job EXCEPT ![r] = JobOn(u, s, NoForm)]
    /\ UNCHANGED <<db, minted, work>>
RemoveCopies(r, u, s) ==
    /\ pc[r] = "idle"
    /\ NoneWritten(r, u, CardsOf(s))
    /\ Store(r, [i \in Ids |-> IF i \in OnShelf(table, u, s) THEN NoRow ELSE table[i]],
             JobOn(u, s, NoForm))
    /\ raced' = raced \ {<<u, s>>}
    /\ pc' = [pc EXCEPT ![r] = "remove"]
    /\ UNCHANGED <<onboarded, minted, work>>

RemoveSet(r) ==
    /\ pc[r] = "remove"
    /\ onboarded' = onboarded \ {<<job[r].user, job[r].set>>}
    /\ Finish(r, "done")
    /\ UNCHANGED <<table, minted, ever, raced>>

RemoveFails(r) ==
    /\ pc[r] = "remove"
    /\ Finish(r, "done")
    /\ UNCHANGED <<db, minted>>

-----------------------------------------------------------------------------

SetOwnedCards(r) ==
    \/ Refuse(r)
    \/ \E c \in Cards : Read(r, c)
    \/ WriteCopies(r)
    \/ AdjustQuantity(r) \/ SetNewestPrice(r)
    \/ Commit(r)
    \/ Fail(r)

Next ==
    \E r \in Pages :
        \/ Submit(r) \/ Retry(r)
        \/ /\ \/ \E u \in Active, s \in Sets : Load(r, u, s) \/ RemoveCopies(r, u, s)
              \/ SetOwnedCards(r)
              \/ RemoveSet(r) \/ RemoveFails(r)
           /\ UNCHANGED retries

Spec == Init /\ [][Next]_vars

-----------------------------------------------------------------------------

Forms == [Cards -> UNION {[I -> Prices] : I \in SUBSET Ids}]
Wanted == UNION {[C -> ByID(Ids) \cup ByCount] : C \in SUBSET Cards}
Jobs == [user : Users \cup {NoUser}, set : Sets \cup {NoSet}, form : Forms, wanted : Wanted,
         seen : [Cards -> SUBSET Ids], todo : SUBSET Cards, card : Cards \cup {NoCard},
         disturbed : BOOLEAN]

\* Every variable holds a value of its type; ids are handed out once.
TypeOK ==
    /\ table \in [Ids -> Row \cup {NoRow}]
    /\ onboarded \in SUBSET Shelves /\ raced \in SUBSET Shelves
    /\ minted \in 0..MaxCopies /\ retries \in 0..MaxRetries
    /\ ever \in SUBSET (1..minted)
    /\ pc \in [Pages -> {"idle", "form", "done", "error", "remove"} \cup InTx]
    /\ job \in [Pages -> Jobs]
    /\ work \in [Pages -> [Ids -> Row \cup {NoRow, Untouched}]]

\* CardQuantity.Copies: "the caller's full desired end state".  What a save asks for
\* is what there is when it commits, in every card of it, if nobody else changed the
\* user's copies since it began: by id, the listed copies that exist, at their prices,
\* and the new ones, so that saving again after a lost answer changes nothing but ids;
\* by count, that many, the oldest, of which only the newest has another price.
Matches(r, c, entry, seen) ==
    LET now == CopiesOf(table', job[r].user, c)
        kept == now \cap seen
        new == now \ seen
    IN
    \/ /\ entry.kind = "copies"
       /\ kept = seen \cap DOMAIN entry.listed
       /\ \A i \in kept : table'[i].price = entry.listed[i]
       /\ \A p \in Prices : Cardinality({i \in new : table'[i].price = p})
                          = Cardinality({n \in DOMAIN entry.fresh : entry.fresh[n] = p})
    \/ /\ entry.kind = "quantity"
       /\ Cardinality(now) = entry.quantity
       /\ \A i \in now :
            /\ \A j \in seen : j < i => j \in now
            /\ (\A j \in now : j <= i) => table'[i].price = entry.price
            /\ i \in seen /\ (\E j \in now : j > i) => table'[i] = table[i]
SaveIsExact ==
    [][\A r \in Pages : Commit(r) /\ ~job[r].disturbed =>
         \A c \in DOMAIN job[r].wanted : Matches(r, c, job[r].wanted[c], job[r].seen[c])]_vars

\* Of two saves at the same time neither deletes what the other is adding: a save
\* takes away only copies that it read.
SavesRemoveOnlyWhatTheyRead ==
    [][\A r \in Pages : Commit(r) =>
         \A i \in Ids : table[i] # NoRow /\ table'[i] = NoRow =>
             i \in job[r].seen[table[i].card]]_vars

\* "it simply can't affect a row it doesn't own": whatever ids a request lists, a step
\* changes only rows of its own user and its own set.
OwnRowsOnly ==
    [][\A i \in Ids : table'[i] # table[i] =>
         \E r \in Pages : \E j \in {job[r], job'[r]} :
             /\ pc'[r] # pc[r]
             /\ \A row \in {table[i], table'[i]} \ {NoRow} :
                    row.user = j.user /\ SetOf[row.card] = j.set]_vars

\* A copy that has left the collection never comes back, however stale the save that
\* lists it, and a copy never turns into one of another card or user.
GoneForGood ==
    [][\A i \in ever :
         /\ table[i] = NoRow => table'[i] = NoRow
         /\ table[i] # NoRow /\ table'[i] # NoRow =>
                table'[i].user = table[i].user /\ table'[i].card = table[i].card]_vars

\* DeleteOwnedSet: "re-adding the set later starts from a clean slate": a set that is
\* not onboarded has no copies, whatever failed in between, unless a save committed
\* after, or halfway through, its removal.
RemovedMeansEmpty ==
    \A u \in Users, s \in Sets :
        <<u, s>> \notin onboarded /\ OnShelf(table, u, s) # {} => <<u, s>> \in raced

=============================================================================
