--------------------------- MODULE Ownership_proofs ---------------------------
(***************************************************************************)
(* Proofs about Ownership for any number of users, cards and tabs: a save  *)
(* or a removal changes only rows of its own user and set, a copy that is  *)
(* gone stays gone, a removed set is empty but for a save that raced the   *)
(* removal, and a save takes away only what it read.  The invariant        *)
(* OwnInv says what an open transaction may have read and written.         *)
(* The last part adds what an undisturbed save has done so far (SaveInv),  *)
(* which makes its result exact when it commits.                           *)
(***************************************************************************)
EXTENDS Ownership, SequenceTheorems, FiniteSetTheorems, TLAPS

\* A copy of the user and set of job j, or no copy.
OwnRow(row, j) == row = NoRow \/ (row \in Row /\ row.user = j.user /\ SetOf[row.card] = j.set)

\* The rows that page r has written are its own, under ids that it may write.
WorkIsOwn(r) ==
    \A i \in Ids : work[r][i] # Untouched =>
        /\ pc[r] \in InTx
        /\ i <= minted
        /\ OwnRow(work[r][i], job[r]) /\ OwnRow(table[i], job[r])
        /\ work[r][i] # NoRow /\ table[i] # NoRow => work[r][i].card = table[i].card
        /\ work[r][i] # NoRow /\ table[i] = NoRow => i \notin ever

\* What page r has read are ids of copies of its user and of the card.
SeenIsOwn(r) ==
    \A c \in Cards : \A i \in job[r].seen[c] :
        /\ i \in ever
        /\ table[i] # NoRow => table[i].user = job[r].user /\ table[i].card = c

\* A page past its form has a user and a set, and the card in hand is of its request.
CardInHand(r) ==
    /\ pc[r] \in {"form", "error", "remove"} \cup InTx => job[r].user \in Users /\ job[r].set \in Sets
    /\ pc[r] \in InTx => job[r].todo \subseteq DOMAIN job[r].wanted
    /\ pc[r] \in {"copies", "quantity", "price"} =>
         ValidCards(r) /\ job[r].card \in DOMAIN job[r].wanted
    /\ pc[r] = "copies" => Entry(r).kind = "copies"
    /\ pc[r] \in {"quantity", "price"} => Entry(r).kind = "quantity"

\* Row locks: no id is written by two pages.
Locked == \A r, q \in Pages : r # q => WrittenBy(r) \cap WrittenBy(q) = {}

TableInEver == \A i \in Ids : table[i] # NoRow => i \in ever

OwnInv ==
    /\ TypeOK
    /\ \A r \in Pages : WorkIsOwn(r) /\ SeenIsOwn(r) /\ CardInHand(r)
    /\ Locked
    /\ TableInEver

\* A set being removed, or removed, is empty unless a save raced the removal.
Removing(u, s) == \E q \in Pages : pc[q] = "remove" /\ job[q].user = u /\ job[q].set = s
Removed ==
    \A u \in Users, s \in Sets :
        (<<u, s>> \notin onboarded \/ Removing(u, s)) /\ OnShelf(table, u, s) # {}
            => <<u, s>> \in raced

-----------------------------------------------------------------------------
(* Requests and jobs.                                                      *)

\* A request may ask for nothing.
LEMMA NothingType == Nothing \in Wanted
<1>1. Nothing \in [{} -> ByID(Ids) \cup ByCount] /\ {} \in SUBSET Cards
  BY DEF Nothing
<1> QED
  BY <1>1 DEF Wanted

\* A page that turns to a set has a job of that type.
LEMMA NewJobType ==
    ASSUME NEW u \in Users \cup {NoUser}, NEW s \in Sets \cup {NoSet}, NEW form \in Forms
    PROVE  JobOn(u, s, form) \in Jobs
<1>1. Nothing \in Wanted
  BY NothingType
<1> QED
  BY <1>1 DEF JobOn, Jobs, Blank

\* So has a page without a form.
LEMMA NoFormType == NoForm \in Forms
<1>1. [i \in {} |-> NoPrice] \in [{} -> Prices]
  OBVIOUS
<1>2. [i \in {} |-> NoPrice] \in UNION {[I -> Prices] : I \in SUBSET Ids}
  BY <1>1
<1> QED
  BY <1>2 DEF NoForm, Forms

\* What a page submits, from a form it may show, is a request.
LEMMA RequestType ==
    ASSUME NEW form \in Forms, NEW w \in Requests(form)
    PROVE  w \in Wanted
<1>1. CASE w = Nothing
  BY <1>1, NothingType
<1>2. ASSUME w # Nothing
      PROVE  \E C \in SUBSET Cards : w \in [C -> ByID(Ids) \cup ByCount]
  <2> DEFINE shown == {c \in Cards : form[c] # [i \in {} |-> NoPrice]}
             edits(c) == ByID(DOMAIN form[c] \cup Forged) \cup ByCount
             built(E) == {[c \in shown \cup E |-> IF c \in E THEN e[c] ELSE Unedited(form[c])] :
                e \in {f \in [E -> UNION {edits(c) : c \in E}] : \A c \in E : f[c] \in edits(c)}}
  <2>1. PICK E \in SUBSET Cards : w \in built(E)
    <3>1. w \in UNION {built(E) : E \in {D \in SUBSET Cards : Cardinality(D) <= MaxEdited}}
      BY <1>2, Zenon DEF Requests
    <3> HIDE DEF built
    <3> QED
      BY <3>1
  <2>2. PICK e \in [E -> UNION {edits(c) : c \in E}] :
            /\ \A c \in E : e[c] \in edits(c)
            /\ w = [c \in shown \cup E |-> IF c \in E THEN e[c] ELSE Unedited(form[c])]
    BY <2>1
  <2>3. ASSUME NEW c \in Cards
        PROVE  edits(c) \subseteq ByID(Ids) \cup ByCount
    <3>0. PICK I \in SUBSET Ids : form[c] \in [I -> Prices]
      BY DEF Forms
    <3>1. DOMAIN form[c] \cup Forged \subseteq Ids
      BY <3>0, OwnershipAssumption DEF Ids
    <3> QED
      BY <3>1 DEF ByID
  <2>4. ASSUME NEW c \in Cards
        PROVE  Unedited(form[c]) \in ByID(Ids)
    <3>1. form[c] \in UNION {[I -> Prices] : I \in SUBSET Ids}
      BY DEF Forms
    <3>2. << >> \in [1..0 -> Prices] /\ 0 \in 0..MaxNew
      BY OwnershipAssumption
    <3> QED
      BY <3>1, <3>2 DEF Unedited, ByID
  <2>5. ASSUME NEW c \in shown \cup E
        PROVE  (IF c \in E THEN e[c] ELSE Unedited(form[c])) \in ByID(Ids) \cup ByCount
    BY <2>2, <2>3, <2>4
  <2> QED
    BY <2>2, <2>5
<1> QED
  BY <1>1, <1>2 DEF Wanted

\* The new copies of an entry: so many, each with a price.
LEMMA FreshType ==
    ASSUME NEW entry \in ByID(Ids)
    PROVE  /\ Len(entry.fresh) \in Nat /\ DOMAIN entry.fresh = 1..Len(entry.fresh)
           /\ \A n \in 1..Len(entry.fresh) : entry.fresh[n] \in Prices
<1>1. PICK n \in 0..MaxNew : entry.fresh \in [1..n -> Prices]
  BY DEF ByID
<1>2. n \in Nat
  BY OwnershipAssumption
<1>3. entry.fresh \in Seq(Prices)
  BY <1>1, <1>2, SeqDef
<1> QED
  BY <1>3, LenProperties

-----------------------------------------------------------------------------
(* What a step must show to preserve OwnInv.                               *)

Others(r) == \A q \in Pages \ {r} : pc'[q] = pc[q] /\ job'[q] = job[q] /\ work'[q] = work[q]
PageInv(r) == WorkIsOwn(r) /\ SeenIsOwn(r) /\ CardInHand(r)

\* A step of page r that leaves the table and the other pages alone.
LEMMA PageStep ==
    ASSUME OwnInv, TypeOK', NEW r \in Pages, Others(r), UNCHANGED <<table, ever>>,
           minted' >= minted, PageInv(r)',
           \A q \in Pages \ {r} : WrittenBy(r)' \cap WrittenBy(q) = {}
    PROVE  OwnInv'
<1>1. ASSUME NEW q \in Pages \ {r}
      PROVE  PageInv(q)'
  <2>1. WorkIsOwn(q)'
    <3>1. WorkIsOwn(q) /\ pc'[q] = pc[q] /\ job'[q] = job[q] /\ work'[q] = work[q]
      BY DEF OwnInv, Others
    <3>2. minted \in Int /\ minted' \in Int /\ \A i \in Ids : i \in Int
      BY OwnershipAssumption DEF OwnInv, TypeOK, Ids
    <3> QED
      BY <3>1, <3>2 DEF WorkIsOwn, OwnRow
  <2>2. SeenIsOwn(q)'
    BY DEF OwnInv, Others, SeenIsOwn
  <2>3. CardInHand(q)'
    BY DEF OwnInv, Others, CardInHand, ValidCards, Entry
  <2> QED
    BY <2>1, <2>2, <2>3 DEF PageInv
<1>2. Locked'
  <2>1. \A q \in Pages \ {r} : WrittenBy(q)' = WrittenBy(q)
    BY DEF Others, WrittenBy
  <2> QED
    BY <2>1 DEF OwnInv, Locked
<1> QED
  BY <1>1, <1>2 DEF OwnInv, PageInv, TableInEver

\* The same for a page that has written nothing when the step is done.
LEMMA IdleStep ==
    ASSUME OwnInv, TypeOK', NEW r \in Pages, Others(r), UNCHANGED <<table, ever, minted>>,
           WrittenBy(r)' = {}, SeenIsOwn(r)', CardInHand(r)'
    PROVE  OwnInv'
<1>1. WorkIsOwn(r)'
  BY DEF WorkIsOwn, WrittenBy
<1>2. minted' >= minted
  BY OwnershipAssumption DEF OwnInv, TypeOK
<1> QED
  BY <1>1, <1>2, PageStep DEF PageInv

\* What a commit or a removal leaves of the table.
Keeps(r, t) ==
    /\ \A i \in ever : table[i] = NoRow => t[i] = NoRow
    /\ \A i \in ever : table[i] # NoRow /\ t[i] # NoRow =>
            t[i].user = table[i].user /\ t[i].card = table[i].card
    /\ \A q \in Pages \ {r}, i \in Ids : i \in WrittenBy(q) => t[i] = table[i]

\* A step of page r that commits its work, or a statement of its own.
LEMMA StoreStep ==
    ASSUME OwnInv, TypeOK', NEW r \in Pages, NEW t, NEW j \in Jobs, Store(r, t, j), Keeps(r, t),
           minted' = minted, j.seen = Blank,
           WrittenBy(r)' = {}, CardInHand(r)',
           \A q \in Pages \ {r} : pc'[q] = pc[q] /\ work'[q] = work[q]
    PROVE  OwnInv'
<1>0. /\ table' = t /\ ever' = ever \cup {i \in Ids : t[i] # NoRow}
      /\ job'[r] = j
      /\ \A q \in Pages \ {r} : /\ job'[q].user = job[q].user /\ job'[q].set = job[q].set
                                /\ job'[q].wanted = job[q].wanted /\ job'[q].card = job[q].card
                                /\ job'[q].todo = job[q].todo /\ job'[q].seen = job[q].seen
  BY DEF Store, OwnInv, TypeOK, Jobs
<1>1. ASSUME NEW q \in Pages \ {r}
      PROVE  PageInv(q)'
  <2>1. WorkIsOwn(q)'
    <3>1. ASSUME NEW i \in Ids, work[q][i] # Untouched
          PROVE  /\ table'[i] = table[i]
                 /\ i \notin ever => i \notin ever' \/ table[i] # NoRow
      BY <1>0, <3>1 DEF Keeps, WrittenBy
    <3>2. WorkIsOwn(q)
      BY DEF OwnInv
    <3> QED
      BY <1>0, <3>1, <3>2 DEF WorkIsOwn, OwnRow
  <2>2. SeenIsOwn(q)'
    BY <1>0 DEF OwnInv, SeenIsOwn, Keeps
  <2>3. CardInHand(q)'
    BY <1>0 DEF OwnInv, CardInHand, ValidCards, Entry
  <2> QED
    BY <2>1, <2>2, <2>3 DEF PageInv
<1>2. PageInv(r)'
  <2>1. SeenIsOwn(r)'
    BY <1>0 DEF SeenIsOwn, Blank
  <2>2. WorkIsOwn(r)'
    BY DEF WorkIsOwn, WrittenBy
  <2> QED
    BY <2>1, <2>2 DEF PageInv
<1>3. Locked'
  <2>1. \A q \in Pages \ {r} : WrittenBy(q)' = WrittenBy(q)
    BY DEF WrittenBy
  <2> QED
    BY <2>1 DEF OwnInv, Locked
<1>4. TableInEver'
  BY <1>0 DEF TableInEver
<1> QED
  BY <1>1, <1>2, <1>3, <1>4 DEF OwnInv, PageInv

-----------------------------------------------------------------------------
(* The steps of a page outside its transaction.                            *)

Past == {"form", "error", "remove"} \cup InTx

\* A transaction that has written nothing is one.
LEMMA NoWorkType == NoWork \in [Ids -> Row \cup {NoRow, Untouched}]
BY DEF NoWork

\* A finished page holds no job, or that of its form; nothing of its transaction is left.
LEMMA JobAfterType ==
    ASSUME NEW j \in Jobs, NEW place \in {"done", "error"}
    PROVE  /\ JobAfter(j, place) \in Jobs
           /\ JobAfter(j, place).seen = Blank
           /\ place = "error" => JobAfter(j, place).user = j.user /\ JobAfter(j, place).set = j.set
<1>1. NoJob \in Jobs /\ NoJob.seen = Blank
  BY NewJobType, NoFormType DEF NoJob, JobOn
<1>2. Blank \in [Cards -> SUBSET Ids]
  BY DEF Blank
<1> QED
  BY <1>1, <1>2 DEF JobAfter, Jobs

\* A page that finishes without a commit keeps the invariant.
LEMMA FinishStep ==
    ASSUME OwnInv, NEW r \in Pages, NEW place \in {"done", "error"}, pc[r] \in Past,
           Finish(r, place), UNCHANGED <<table, ever, minted, raced>>,
           onboarded' \in SUBSET Shelves, retries' \in 0..MaxRetries
    PROVE  OwnInv'
<1>1. /\ pc' = [pc EXCEPT ![r] = place] /\ work' = [work EXCEPT ![r] = NoWork]
      /\ job' = [job EXCEPT ![r] = JobAfter(job[r], place)]
  BY DEF Finish, Close
<1>2. /\ JobAfter(job[r], place) \in Jobs /\ JobAfter(job[r], place).seen = Blank
      /\ place = "error" => /\ JobAfter(job[r], place).user = job[r].user
                            /\ JobAfter(job[r], place).set = job[r].set
  BY JobAfterType DEF OwnInv, TypeOK
<1>3. TypeOK'
  BY <1>1, <1>2, NoWorkType DEF OwnInv, TypeOK
<1>4. Others(r)
  BY <1>1 DEF Others, OwnInv, TypeOK
<1>5. WrittenBy(r)' = {}
  BY <1>1 DEF WrittenBy, NoWork, OwnInv, TypeOK
<1>6. SeenIsOwn(r)'
  BY <1>1, <1>2 DEF SeenIsOwn, Blank, OwnInv, TypeOK
<1>7. CardInHand(r)'
  BY <1>1, <1>2 DEF CardInHand, OwnInv, TypeOK, Past, InTx
<1> QED
  BY <1>3, <1>4, <1>5, <1>6, <1>7, IdleStep

\* Load only reads.
LEMMA LoadStep ==
    ASSUME OwnInv, NEW r \in Pages, NEW u \in Active, NEW s \in Sets, Load(r, u, s),
           UNCHANGED retries
    PROVE  OwnInv'
<1> DEFINE form == [c \in Cards |->
                     [i \in CopiesOf(table, u, c) \cap OnShelf(table, u, s) |-> table[i].price]]
<1>0. u \in Users
  BY OwnershipAssumption
<1>1. form \in Forms
  <2>1. ASSUME NEW c \in Cards
        PROVE  form[c] \in UNION {[I -> Prices] : I \in SUBSET Ids}
    <3> DEFINE I == CopiesOf(table, u, c) \cap OnShelf(table, u, s)
    <3>1. I \in SUBSET Ids
      BY DEF CopiesOf
    <3>2. \A i \in I : table[i].price \in Prices
      BY DEF CopiesOf, OwnInv, TypeOK, Row
    <3>3. form[c] = [i \in I |-> table[i].price]
      OBVIOUS
    <3> HIDE DEF I, form
    <3>4. form[c] \in [I -> Prices]
      BY <3>2, <3>3
    <3> QED
      BY <3>1, <3>4
  <2> QED
    BY <2>1 DEF Forms
<1> HIDE DEF form
<1>2. JobOn(u, s, form) \in Jobs
  BY <1>0, <1>1, NewJobType
<1>3. /\ pc' = [pc EXCEPT ![r] = "form"] /\ job' = [job EXCEPT ![r] = JobOn(u, s, form)]
      /\ UNCHANGED <<db, minted, work>> /\ pc[r] = "idle"
  BY DEF Load, form
<1>4. TypeOK'
  BY <1>2, <1>3 DEF OwnInv, TypeOK, db
<1>5. Others(r)
  BY <1>3 DEF Others, OwnInv, TypeOK
<1>6. WrittenBy(r)' = {}
  BY <1>3 DEF WrittenBy, WorkIsOwn, OwnInv, InTx
<1>7. SeenIsOwn(r)'
  BY <1>3 DEF SeenIsOwn, JobOn, Blank, OwnInv, TypeOK
<1>8. CardInHand(r)'
  BY <1>0, <1>3 DEF CardInHand, JobOn, OwnInv, TypeOK, InTx
<1> QED
  BY <1>3, <1>4, <1>5, <1>6, <1>7, <1>8, IdleStep DEF db

\* AddOwnedSet begins the work on the cards, or ends, and forgets no set.
LEMMA AddOwnedSetStep ==
    ASSUME OwnInv, NEW r \in Pages, pc[r] \in {"form", "error"}, NEW w \in Wanted,
           AddOwnedSet(r, w), retries' \in 0..MaxRetries
    PROVE  OwnInv' /\ pc'[r] # "remove" /\ onboarded \subseteq onboarded'
<1> DEFINE added == onboarded \cup {<<job[r].user, job[r].set>>}
<1>0. job[r].user \in Users /\ job[r].set \in Sets
  BY DEF OwnInv, CardInHand
<1>1. added \in SUBSET Shelves
  BY <1>0 DEF OwnInv, TypeOK, Shelves
<1>2. onboarded' \in {onboarded, added} /\ UNCHANGED <<table, minted, ever, raced>>
  BY DEF AddOwnedSet
<1>3. onboarded' \in SUBSET Shelves /\ onboarded \subseteq onboarded'
  BY <1>1, <1>2 DEF OwnInv, TypeOK
<1>4. CASE Finish(r, "done")
  BY <1>2, <1>3, <1>4, FinishStep DEF Past, Finish, Close, OwnInv, TypeOK
<1>5. ASSUME NEW j \in Jobs, NEW to \in {"tx", "error"},
             pc' = [pc EXCEPT ![r] = to], job' = [job EXCEPT ![r] = j], UNCHANGED work,
             j.user = job[r].user, j.set = job[r].set, j.seen = job[r].seen,
             to = "tx" => j.todo \subseteq DOMAIN j.wanted
      PROVE  OwnInv' /\ pc'[r] # "remove"
  <2>1. TypeOK'
    BY <1>2, <1>3, <1>5 DEF OwnInv, TypeOK, InTx
  <2>2. Others(r)
    BY <1>5 DEF Others, OwnInv, TypeOK
  <2>3. WrittenBy(r)' = {}
    BY <1>5 DEF WrittenBy, WorkIsOwn, OwnInv, InTx
  <2>4. SeenIsOwn(r)'
    BY <1>2, <1>5 DEF SeenIsOwn, OwnInv, TypeOK
  <2>5. CardInHand(r)'
    BY <1>0, <1>5 DEF CardInHand, OwnInv, TypeOK, InTx
  <2> QED
    BY <1>2, <1>5, <2>1, <2>2, <2>3, <2>4, <2>5, IdleStep DEF OwnInv, TypeOK
<1>6. CASE /\ pc' = [pc EXCEPT ![r] = "tx"] /\ UNCHANGED work
           /\ job' = [job EXCEPT ![r].wanted = w, ![r].todo = DOMAIN w]
  <2> DEFINE j == [job[r] EXCEPT !.wanted = w, !.todo = DOMAIN w]
  <2>1. DOMAIN w \subseteq Cards
    BY DEF Wanted
  <2>2. /\ j \in Jobs /\ j.user = job[r].user /\ j.set = job[r].set /\ j.seen = job[r].seen
        /\ j.todo = DOMAIN j.wanted
    <3>1. job[r] \in Jobs
      BY DEF OwnInv, TypeOK
    <3> QED
      BY <2>1, <3>1 DEF Jobs
  <2>3. job' = [job EXCEPT ![r] = j]
    BY <1>6
  <2> HIDE DEF j
  <2> QED
    BY <1>3, <1>5, <1>6, <2>2, <2>3
<1>7. CASE /\ pc' = [pc EXCEPT ![r] = "error"] /\ UNCHANGED work
           /\ job' = [job EXCEPT ![r].wanted = w]
  <2> DEFINE j == [job[r] EXCEPT !.wanted = w]
  <2>1. j \in Jobs /\ j.user = job[r].user /\ j.set = job[r].set /\ j.seen = job[r].seen
    BY DEF OwnInv, TypeOK, Jobs
  <2>2. job' = [job EXCEPT ![r] = j]
    BY <1>7
  <2> HIDE DEF j
  <2> QED
    BY <1>3, <1>5, <1>7, <2>1, <2>2
<1> QED
  BY <1>3, <1>4, <1>6, <1>7 DEF AddOwnedSet, Finish, Close, OwnInv, TypeOK

-----------------------------------------------------------------------------
(* The steps of a transaction.                                             *)

\* Read takes a snapshot of the user's copies, at the first card, and turns to a card.
LEMMA ReadStep ==
    ASSUME OwnInv, NEW r \in Pages, NEW c \in Cards, Read(r, c), UNCHANGED retries
    PROVE  OwnInv'
<1> DEFINE first == job[r].todo = DOMAIN job[r].wanted
           seen == IF first THEN [d \in Cards |-> Visible(job[r].user, d)] ELSE job[r].seen
           moved == job[r].disturbed /\ ~first
           j1 == [job[r] EXCEPT !.card = c, !.todo = @ \ {c}]
           j == [j1 EXCEPT !.seen = seen, !.disturbed = moved]
           to == IF job[r].wanted[c].kind = "copies" THEN "copies" ELSE "quantity"
<1>1. /\ pc[r] = "tx" /\ ValidCards(r) /\ c \in job[r].todo
      /\ pc' = [pc EXCEPT ![r] = to] /\ job' = [job EXCEPT ![r] = j]
      /\ UNCHANGED <<db, minted, work>>
  <2>1. job' = [job EXCEPT ![r] = j]
    BY DEF Read
  <2> QED
    BY <2>1 DEF Read
<1>2. /\ \A d \in Cards : \A i \in seen[d] :
             i \in ever /\ (table[i] # NoRow => table[i].user = job[r].user /\ table[i].card = d)
      /\ seen \in [Cards -> SUBSET Ids]
  <2>1. CASE first
    BY <2>1 DEF Visible, CopiesOf, OwnInv, TableInEver
  <2>2. CASE ~first
    BY <2>2 DEF OwnInv, SeenIsOwn, TypeOK, Jobs
  <2> QED
    BY <2>1, <2>2
<1>3. /\ j \in Jobs /\ j.seen = seen /\ j.card = c /\ j.user = job[r].user /\ j.set = job[r].set
      /\ j.wanted = job[r].wanted /\ j.todo = job[r].todo \ {c}
  <2>1. moved \in BOOLEAN
    OBVIOUS
  <2>2. job[r] \in Jobs
    BY DEF OwnInv, TypeOK
  <2>3. seen \in [Cards -> SUBSET Ids]
    BY <1>2
  <2> HIDE DEF moved, seen
  <2>4. /\ j1 \in Jobs /\ j1.card = c /\ j1.user = job[r].user /\ j1.set = job[r].set
        /\ j1.wanted = job[r].wanted /\ j1.todo = job[r].todo \ {c}
    BY <2>2 DEF Jobs
  <2> HIDE DEF j1
  <2> QED
    BY <2>1, <2>3, <2>4 DEF Jobs
<1>4. c \in DOMAIN job[r].wanted /\ job[r].todo \subseteq DOMAIN job[r].wanted
  BY <1>1 DEF OwnInv, CardInHand, InTx
<1>5. job[r].wanted[c] \in ByID(Ids) \cup ByCount
  BY <1>4 DEF OwnInv, TypeOK, Jobs, Wanted
<1>6. to \in {"copies", "quantity"} /\ job[r].wanted[c].kind = to
  BY <1>5 DEF ByID, ByCount
<1> HIDE DEF j, to, seen
<1>7. TypeOK'
  BY <1>1, <1>3, <1>6 DEF OwnInv, TypeOK, db, InTx
<1>8. Others(r)
  BY <1>1 DEF Others, OwnInv, TypeOK
<1>9. WorkIsOwn(r)'
  BY <1>1, <1>3, <1>6 DEF WorkIsOwn, OwnRow, OwnInv, TypeOK, InTx, db
<1>10. SeenIsOwn(r)'
  BY <1>1, <1>2, <1>3 DEF SeenIsOwn, OwnInv, TypeOK, db
<1>11. CardInHand(r)'
  <2>1. pc'[r] = to /\ job'[r] = j
    BY <1>1 DEF OwnInv, TypeOK
  <2> QED
    BY <1>1, <1>3, <1>4, <1>6, <2>1 DEF OwnInv, CardInHand, ValidCards, Entry, InTx
<1>12. \A q \in Pages \ {r} : WrittenBy(r)' \cap WrittenBy(q) = {}
  BY <1>1 DEF WrittenBy, OwnInv, Locked
<1> QED
  BY <1>1, <1>7, <1>8, <1>9, <1>10, <1>11, <1>12, PageStep
     DEF PageInv, OwnInv, TypeOK, db

\* The card that a page is reconciling, what it asks for and which copies it has read.
LEMMA InHand ==
    ASSUME OwnInv, NEW r \in Pages, pc[r] \in {"copies", "quantity", "price"}
    PROVE  /\ job[r].user \in Users /\ job[r].card \in Cards
           /\ SetOf[job[r].card] = job[r].set
           /\ pc[r] = "copies" => Entry(r) \in ByID(Ids)
           /\ pc[r] # "copies" => Entry(r) \in ByCount
           /\ \A i \in Mine(r) : /\ i \in Ids /\ i <= minted
                                 /\ table[i] # NoRow => /\ table[i] \in Row
                                                        /\ table[i].user = job[r].user
                                                        /\ table[i].card = job[r].card
<1>1. /\ job[r].user \in Users /\ ValidCards(r) /\ job[r].card \in DOMAIN job[r].wanted
      /\ pc[r] = "copies" => Entry(r).kind = "copies"
      /\ pc[r] # "copies" => Entry(r).kind = "quantity"
  BY DEF OwnInv, CardInHand, InTx
<1>2. job[r].wanted \in Wanted /\ job[r].seen \in [Cards -> SUBSET Ids]
  BY DEF OwnInv, TypeOK, Jobs
<1>3. DOMAIN job[r].wanted \subseteq Cards /\ Entry(r) \in ByID(Ids) \cup ByCount
  BY <1>1, <1>2 DEF Wanted, Entry
<1>4. job[r].card \in Cards /\ SetOf[job[r].card] = job[r].set
  BY <1>1, <1>3 DEF ValidCards, CardsOf
<1>5. \A i \in Mine(r) : /\ i \in Ids /\ i \in ever
                         /\ table[i] # NoRow => /\ table[i].user = job[r].user
                                                /\ table[i].card = job[r].card
  BY <1>2, <1>4 DEF Mine, OwnInv, SeenIsOwn
<1>6. \A i \in ever : i <= minted
  BY DEF OwnInv, TypeOK
<1> QED
  BY <1>1, <1>3, <1>4, <1>5, <1>6 DEF ByID, ByCount, OwnInv, TypeOK

\* A statement that writes rows of the card in hand, which nobody else has written.
LEMMA WriteStep ==
    ASSUME OwnInv, NEW r \in Pages, pc[r] \in {"copies", "quantity", "price"},
           NEW rows, DOMAIN rows \subseteq Ids, Write(r, rows),
           NEW to \in {"tx", "price"}, pc' = [pc EXCEPT ![r] = to],
           to = "price" => pc[r] = "quantity",
           UNCHANGED <<db, job, retries>>, minted' \in minted..MaxCopies,
           \A i \in DOMAIN rows :
              /\ i <= minted'
              /\ rows[i] = NoRow \/ \E p \in Prices : rows[i] = NewRow(r, p)
              /\ table[i] # NoRow => /\ table[i].user = job[r].user
                                     /\ table[i].card = job[r].card
              /\ rows[i] # NoRow /\ table[i] = NoRow => i \notin ever
              /\ \A q \in Pages \ {r} : i \notin WrittenBy(q)
    PROVE  OwnInv'
<1>1. /\ job[r].user \in Users /\ job[r].card \in Cards
      /\ SetOf[job[r].card] = job[r].set
  BY InHand
<1>2. \A i \in DOMAIN rows : rows[i] = NoRow \/ (/\ rows[i] \in Row /\ rows[i].user = job[r].user
                                                 /\ rows[i].card = job[r].card)
  BY <1>1 DEF NewRow, Row
<1>3. /\ work' \in [Pages -> [Ids -> Row \cup {NoRow, Untouched}]]
      /\ \A q \in Pages \ {r} : work'[q] = work[q]
      /\ \A i \in Ids : work'[r][i] = IF i \in DOMAIN rows THEN rows[i] ELSE work[r][i]
  BY <1>2 DEF Write, OwnInv, TypeOK
<1>4. minted \in 0..MaxCopies /\ minted' \in 0..MaxCopies /\ minted <= minted' /\ MaxCopies \in Nat
  BY OwnershipAssumption DEF OwnInv, TypeOK
<1>5. TypeOK'
  <2>1. ever' \in SUBSET (1..minted')
    BY <1>4 DEF OwnInv, TypeOK, db
  <2> QED
    BY <1>3, <1>4, <2>1 DEF OwnInv, TypeOK, db, InTx
<1>6. Others(r)
  BY <1>3 DEF Others, OwnInv, TypeOK
<1>7. pc'[r] = to /\ to \in InTx /\ pc[r] \in InTx
  BY DEF OwnInv, TypeOK, InTx
<1>8. WorkIsOwn(r)'
  <2> SUFFICES ASSUME NEW i \in Ids, work'[r][i] # Untouched
               PROVE  /\ i <= minted'
                      /\ OwnRow(work'[r][i], job[r]) /\ OwnRow(table[i], job[r])
                      /\ work'[r][i] # NoRow /\ table[i] # NoRow =>
                            work'[r][i].card = table[i].card
                      /\ work'[r][i] # NoRow /\ table[i] = NoRow => i \notin ever
    BY <1>7 DEF WorkIsOwn, OwnRow, db
  <2>1. CASE i \in DOMAIN rows
    BY <1>1, <1>2, <1>3, <2>1 DEF OwnRow, OwnInv, TypeOK
  <2>2. CASE i \notin DOMAIN rows
    <3>1. work'[r][i] = work[r][i]
      BY <1>3, <2>2
    <3>2. i \in Int
      BY <1>4 DEF Ids
    <3> QED
      BY <1>4, <3>1, <3>2 DEF OwnInv, WorkIsOwn
  <2> QED
    BY <2>1, <2>2
<1>9. SeenIsOwn(r)'
  BY DEF SeenIsOwn, OwnInv, db
<1>10. CardInHand(r)'
  BY <1>7 DEF CardInHand, ValidCards, Entry, OwnInv, InTx
<1>11. \A q \in Pages \ {r} : WrittenBy(r)' \cap WrittenBy(q) = {}
  BY <1>3 DEF WrittenBy, OwnInv, Locked
<1> QED
  BY <1>4, <1>5, <1>6, <1>8, <1>9, <1>10, <1>11, PageStep DEF PageInv, db

\* Deletes are of what was read, updates of rows nobody else wrote, inserts under new ids.
LEMMA WriteCopiesStep ==
    ASSUME OwnInv, NEW r \in Pages, WriteCopies(r), UNCHANGED retries
    PROVE  OwnInv'
<1> DEFINE entry == Entry(r)
           gone == {i \in Unlisted(r) : table[i] # NoRow}
           new == NewIds(Len(entry.fresh))
           rows == [i \in gone \cup Updated(r) \cup new |->
                     IF i \in new THEN NewRow(r, entry.fresh[i - minted])
                     ELSE IF i \in Updated(r) THEN NewRow(r, entry.listed[i]) ELSE NoRow]
<1>1. /\ pc[r] = "copies" /\ pc' = [pc EXCEPT ![r] = "tx"]
      /\ minted + Len(entry.fresh) <= MaxCopies /\ minted' = minted + Len(entry.fresh)
      /\ Unlocked(r, gone \cup Updated(r)) /\ Write(r, rows) /\ UNCHANGED <<db, job>>
  BY DEF WriteCopies
<1>2. entry \in ByID(Ids)
  BY <1>1, InHand
<1>3. minted \in Nat /\ MaxCopies \in Nat /\ Len(entry.fresh) \in Nat
  BY <1>2, FreshType, OwnershipAssumption DEF OwnInv, TypeOK
<1>4. /\ \A i \in new : i \in Int /\ minted < i /\ i <= minted' /\ i \in Ids
      /\ \A i \in new : entry.fresh[i - minted] \in Prices
  BY <1>1, <1>2, <1>3, FreshType DEF NewIds, Ids
<1>5. \A i \in DOMAIN entry.listed : entry.listed[i] \in Prices
  BY <1>2 DEF ByID
<1>6. \A i \in gone \cup Updated(r) :
         /\ i \in Mine(r) /\ table[i] # NoRow
         /\ i \in Updated(r) => i \in DOMAIN entry.listed
  BY DEF Unlisted, Updated
<1>7. \A i \in gone \cup Updated(r) :
         /\ i \in Ids /\ i <= minted
         /\ table[i].user = job[r].user /\ table[i].card = job[r].card
  BY <1>1, <1>6, InHand
<1>8. \A i \in ever : i <= minted
  BY DEF OwnInv, TypeOK
<1>9. \A i \in new : /\ i \notin ever /\ table[i] = NoRow
                     /\ \A q \in Pages \ {r} : i \notin WrittenBy(q)
  <2>1. \A i \in Ids : i \in Int
    BY <1>3 DEF Ids
  <2>2. \A q \in Pages : \A i \in WrittenBy(q) : i <= minted
    BY DEF OwnInv, WorkIsOwn, WrittenBy
  <2> QED
    BY <1>3, <1>4, <1>8, <2>1, <2>2 DEF OwnInv, TableInEver, WrittenBy
<1>10. DOMAIN rows = gone \cup Updated(r) \cup new
  OBVIOUS
<1>11. \A i \in DOMAIN rows :
        /\ i \in new => \E p \in Prices : rows[i] = NewRow(r, p)
        /\ i \notin new => /\ i \in gone \cup Updated(r)
                           /\ rows[i] = NoRow \/ \E p \in Prices : rows[i] = NewRow(r, p)
  BY <1>4, <1>5, <1>6
<1> HIDE DEF rows, gone, new, entry
<1>12. DOMAIN rows \subseteq Ids
  BY <1>4, <1>7, <1>10
<1>13. minted' \in minted..MaxCopies
  BY <1>1, <1>3
<1>14. ASSUME NEW i \in DOMAIN rows
       PROVE  /\ i <= minted'
              /\ rows[i] = NoRow \/ \E p \in Prices : rows[i] = NewRow(r, p)
              /\ table[i] # NoRow => table[i].user = job[r].user /\ table[i].card = job[r].card
              /\ rows[i] # NoRow /\ table[i] = NoRow => i \notin ever
              /\ \A q \in Pages \ {r} : i \notin WrittenBy(q)
  <2>1. CASE i \in new
    BY <1>4, <1>9, <1>11, <2>1
  <2>2. CASE i \notin new
    <3>1. i \in gone \cup Updated(r) /\ (rows[i] = NoRow \/ \E p \in Prices : rows[i] = NewRow(r, p))
      BY <1>11, <2>2
    <3>2. i <= minted'
      BY <1>1, <1>3, <1>7, <3>1 DEF Ids
    <3>3. \A q \in Pages \ {r} : i \notin WrittenBy(q)
      BY <1>1, <3>1 DEF Unlocked
    <3> QED
      BY <1>6, <1>7, <3>1, <3>2, <3>3
  <2> QED
    BY <2>1, <2>2
<1> QED
  BY <1>1, <1>12, <1>13, <1>14, WriteStep

\* The first half of the save by count: deletes from the snapshot, inserts under new ids.
LEMMA AdjustQuantityStep ==
    ASSUME OwnInv, NEW r \in Pages, AdjustQuantity(r), UNCHANGED retries
    PROVE  OwnInv'
<1> DEFINE have == Cardinality(Mine(r))
           want == Entry(r).quantity
           new == IF want > have THEN NewIds(want - have) ELSE {}
           gone == IF want < have THEN ToRemove(have - want, Mine(r)) ELSE {}
           rows == [i \in {j \in gone : table[j] # NoRow} \cup new |->
                     IF i \in new THEN NewRow(r, NoPrice) ELSE NoRow]
           to == IF want = 0 THEN "tx" ELSE "price"
<1>1. /\ pc[r] = "quantity" /\ pc' = [pc EXCEPT ![r] = to]
      /\ minted + Cardinality(new) <= MaxCopies /\ minted' = minted + Cardinality(new)
      /\ Unlocked(r, gone) /\ Write(r, rows) /\ UNCHANGED <<db, job>>
  BY DEF AdjustQuantity
<1>2. minted \in Nat /\ MaxCopies \in Nat
  BY OwnershipAssumption DEF OwnInv, TypeOK
<1>3. want \in Nat
  BY <1>1, InHand, OwnershipAssumption DEF ByCount
<1>4. have \in Nat
  <2>1. Mine(r) \in SUBSET (1..MaxCopies)
    BY <1>1, InHand DEF Ids
  <2>2. IsFiniteSet(1..MaxCopies)
    BY <1>2, FS_Interval
  <2> QED
    BY <2>1, <2>2, FS_Subset, FS_CardinalityType
<1>5. Cardinality(new) \in Nat /\ \A i \in new : i \in Int /\ minted < i /\ i <= minted + Cardinality(new)
  <2>1. CASE want > have
    <3>1. new = (minted + 1)..(minted + (want - have))
      BY <2>1 DEF NewIds
    <3>2. Cardinality(new) = want - have
      <4>1. minted + 1 \in Int /\ minted + (want - have) \in Int
        BY <1>2, <1>3, <1>4
      <4>2. Cardinality((minted + 1)..(minted + (want - have))) =
              IF minted + 1 > minted + (want - have) THEN 0
              ELSE (minted + (want - have)) - (minted + 1) + 1
        BY <4>1, FS_Interval
      <4> QED
        BY <1>2, <1>3, <1>4, <2>1, <3>1, <4>2
    <3> QED
      BY <1>2, <1>3, <1>4, <2>1, <3>1, <3>2
  <2>2. CASE ~(want > have)
    BY <2>2, FS_EmptySet
  <2> QED
    BY <2>1, <2>2
<1>6. gone \subseteq Mine(r)
  BY DEF ToRemove, Newest
<1>7. \A i \in gone : /\ i \in Ids /\ i <= minted
                      /\ table[i] # NoRow => table[i].user = job[r].user /\ table[i].card = job[r].card
  BY <1>1, <1>6, InHand
<1>8. to \in {"tx", "price"}
  OBVIOUS
<1>9. NoPrice \in Prices
  BY OwnershipAssumption
<1>10. /\ DOMAIN rows = {j \in gone : table[j] # NoRow} \cup new
       /\ \A i \in DOMAIN rows : rows[i] = NoRow \/ rows[i] = NewRow(r, NoPrice)
       /\ \A i \in DOMAIN rows : i \notin new => rows[i] = NoRow
  OBVIOUS
<1> HIDE DEF rows, gone, new, to, have, want
<1>11. \A i \in new : /\ i \in Ids /\ i <= minted' /\ i \notin ever /\ table[i] = NoRow
                      /\ \A q \in Pages \ {r} : i \notin WrittenBy(q)
  <2>1. \A i \in Ids : i \in Int
    BY <1>2 DEF Ids
  <2>2. \A q \in Pages : \A i \in WrittenBy(q) : i \in Ids /\ i <= minted
    BY DEF OwnInv, WorkIsOwn, WrittenBy
  <2>3. \A i \in ever : i <= minted
    BY DEF OwnInv, TypeOK
  <2>4. \A i \in new : i \in Ids /\ i <= minted'
    BY <1>1, <1>2, <1>5 DEF Ids
  <2> QED
    BY <1>2, <1>5, <2>1, <2>2, <2>3, <2>4 DEF OwnInv, TableInEver
<1>12. DOMAIN rows \subseteq Ids
  BY <1>7, <1>10, <1>11
<1>13. minted' \in minted..MaxCopies
  BY <1>1, <1>2, <1>5
<1>14. ASSUME NEW i \in DOMAIN rows
       PROVE  /\ i <= minted'
              /\ rows[i] = NoRow \/ \E p \in Prices : rows[i] = NewRow(r, p)
              /\ table[i] # NoRow => table[i].user = job[r].user /\ table[i].card = job[r].card
              /\ rows[i] # NoRow /\ table[i] = NoRow => i \notin ever
              /\ \A q \in Pages \ {r} : i \notin WrittenBy(q)
  <2>1. CASE i \in new
    BY <1>9, <1>10, <1>11, <2>1
  <2>2. CASE i \notin new
    <3>1. i \in gone /\ rows[i] = NoRow
      BY <1>10, <2>2
    <3>2. i <= minted'
      BY <1>1, <1>2, <1>5, <1>7, <3>1 DEF Ids
    <3>3. \A q \in Pages \ {r} : i \notin WrittenBy(q)
      BY <1>1, <3>1 DEF Unlocked
    <3> QED
      BY <1>7, <3>1, <3>2, <3>3
  <2> QED
    BY <2>1, <2>2
<1> QED
  BY <1>1, <1>8, <1>12, <1>13, <1>14, WriteStep

\* The second half changes the price of the newest row there is, if it is free.
LEMMA SetNewestPriceStep ==
    ASSUME OwnInv, NEW r \in Pages, SetNewestPrice(r), UNCHANGED retries
    PROVE  OwnInv'
<1> DEFINE now == CopiesOf(Merged(r), job[r].user, job[r].card)
           rows == [i \in Last(now) |-> NewRow(r, Entry(r).price)]
<1>1. /\ pc[r] = "price" /\ pc' = [pc EXCEPT ![r] = "tx"] /\ Write(r, rows)
      /\ NoneWritten(r, job[r].user, {job[r].card}) /\ UNCHANGED <<db, job, minted>>
  BY DEF SetNewestPrice
<1>2. Entry(r).price \in Prices /\ job[r].user \in Users /\ job[r].card \in Cards
  BY <1>1, InHand DEF ByCount
<1>3. \A i \in Last(now) : i \in Ids /\ i \in now
  BY DEF Last, Newest, CopiesOf
<1>4. minted \in Nat /\ minted <= MaxCopies /\ MaxCopies \in Nat
  BY OwnershipAssumption DEF OwnInv, TypeOK
<1>5. ASSUME NEW i \in now
      PROVE  /\ i <= minted
             /\ table[i] # NoRow => table[i].user = job[r].user /\ table[i].card = job[r].card
             /\ table[i] = NoRow => i \notin ever
             /\ \A q \in Pages \ {r} : i \notin WrittenBy(q)
  <2>0. i \in Ids /\ Merged(r)[i] # NoRow
        /\ Merged(r)[i].user = job[r].user /\ Merged(r)[i].card = job[r].card
    BY DEF CopiesOf
  <2>1. CASE work[r][i] = Untouched
    <3>1. Merged(r)[i] = table[i]
      BY <2>0, <2>1 DEF Merged
    <3>2. i \in CopiesOf(table, job[r].user, job[r].card) /\ i \in ever
      BY <2>0, <3>1 DEF CopiesOf, OwnInv, TableInEver
    <3>3. i <= minted
      BY <3>2 DEF OwnInv, TypeOK
    <3>4. \A q \in Pages \ {r} : i \notin WrittenBy(q)
      BY <1>1, <3>2 DEF NoneWritten
    <3> QED
      BY <2>0, <3>1, <3>3, <3>4
  <2>2. CASE work[r][i] # Untouched
    <3>1. Merged(r)[i] = work[r][i]
      BY <2>0, <2>2 DEF Merged
    <3>2. /\ i <= minted /\ OwnRow(table[i], job[r])
          /\ table[i] # NoRow => work[r][i].card = table[i].card
          /\ table[i] = NoRow => i \notin ever
      BY <2>0, <2>2, <3>1 DEF OwnInv, WorkIsOwn
    <3>3. i \in WrittenBy(r)
      BY <2>0, <2>2 DEF WrittenBy
    <3>4. \A q \in Pages \ {r} : i \notin WrittenBy(q)
      BY <3>3 DEF OwnInv, Locked
    <3> QED
      BY <2>0, <3>1, <3>2, <3>4 DEF OwnRow
  <2> QED
    BY <2>1, <2>2
<1>6. DOMAIN rows = Last(now) /\ \A i \in DOMAIN rows : rows[i] = NewRow(r, Entry(r).price)
  OBVIOUS
<1>7. DOMAIN rows \subseteq Ids
  BY <1>3
<1>8. minted' \in minted..MaxCopies
  BY <1>1, <1>4
<1>9. \A i \in DOMAIN rows :
        /\ i <= minted'
        /\ rows[i] = NoRow \/ \E p \in Prices : rows[i] = NewRow(r, p)
        /\ table[i] # NoRow => table[i].user = job[r].user /\ table[i].card = job[r].card
        /\ rows[i] # NoRow /\ table[i] = NoRow => i \notin ever
        /\ \A q \in Pages \ {r} : i \notin WrittenBy(q)
  <2> HIDE DEF rows, now
  <2> QED
    BY <1>1, <1>2, <1>3, <1>5, <1>6
<1> HIDE DEF rows
<1> QED
  BY <1>1, <1>7, <1>8, <1>9, WriteStep

\* What a commit changes are rows that the page wrote, of its user and set.
LEMMA CommitRows ==
    ASSUME OwnInv, NEW r \in Pages
    PROVE  /\ Merged(r) \in [Ids -> Row \cup {NoRow}]
           /\ Keeps(r, Merged(r))
           /\ \A i \in Ids : Merged(r)[i] # NoRow => i \in 1..minted
           /\ \A i \in Ids : Merged(r)[i] # table[i] =>
                 OwnRow(Merged(r)[i], job[r]) /\ OwnRow(table[i], job[r])
<1>1. /\ work[r] \in [Ids -> Row \cup {NoRow, Untouched}]
      /\ table \in [Ids -> Row \cup {NoRow}] /\ WorkIsOwn(r)
  BY DEF OwnInv, TypeOK
<1>2. \A i \in Ids : Merged(r)[i] = IF work[r][i] = Untouched THEN table[i] ELSE work[r][i]
  BY DEF Merged
<1>3. Merged(r) \in [Ids -> Row \cup {NoRow}]
  BY <1>1 DEF Merged
<1>4. minted \in Nat /\ ever \subseteq 1..minted
  BY OwnershipAssumption DEF OwnInv, TypeOK
<1>5. ASSUME NEW i \in Ids, Merged(r)[i] # NoRow
      PROVE  i \in 1..minted
  <2>1. CASE work[r][i] = Untouched
    BY <1>2, <1>4, <1>5, <2>1 DEF OwnInv, TableInEver
  <2>2. CASE work[r][i] # Untouched
    <3>1. i <= minted
      BY <1>1, <2>2 DEF WorkIsOwn
    <3> QED
      BY <1>4, <3>1, OwnershipAssumption DEF Ids
  <2> QED
    BY <2>1, <2>2
<1>6. ASSUME NEW i \in Ids, Merged(r)[i] # table[i]
      PROVE  OwnRow(Merged(r)[i], job[r]) /\ OwnRow(table[i], job[r])
  BY <1>1, <1>2, <1>6 DEF WorkIsOwn
<1>7. Keeps(r, Merged(r))
  <2>1. \A i \in ever : i \in Ids
    BY <1>4, OwnershipAssumption DEF OwnInv, TypeOK, Ids
  <2>2. ASSUME NEW i \in ever
        PROVE  /\ table[i] = NoRow => Merged(r)[i] = NoRow
               /\ table[i] # NoRow /\ Merged(r)[i] # NoRow =>
                    Merged(r)[i].user = table[i].user /\ Merged(r)[i].card = table[i].card
    BY <1>1, <1>2, <2>1 DEF WorkIsOwn, OwnRow
  <2>3. ASSUME NEW q \in Pages \ {r}, NEW i \in Ids, i \in WrittenBy(q)
        PROVE  Merged(r)[i] = table[i]
    BY <1>2, <2>3 DEF OwnInv, Locked, WrittenBy
  <2> QED
    BY <2>2, <2>3 DEF Keeps
<1> QED
  BY <1>3, <1>5, <1>6, <1>7

\* Storing a table keeps the types of the table, the ids and the jobs.
LEMMA StoreType ==
    ASSUME OwnInv, NEW r \in Pages, NEW t \in [Ids -> Row \cup {NoRow}], NEW j \in Jobs,
           Store(r, t, j), \A i \in Ids : t[i] # NoRow => i \in 1..minted,
           minted' = minted
    PROVE  table' \in [Ids -> Row \cup {NoRow}] /\ ever' \in SUBSET (1..minted')
           /\ job' \in [Pages -> Jobs]
<1>1. \A q \in Pages : job[q].disturbed \/ (pc[q] \in InTx /\ Concerns(t, job[q].user)) \in BOOLEAN
  BY DEF Concerns, OwnInv, TypeOK, Jobs
<1> QED
  BY <1>1 DEF Store, OwnInv, TypeOK, Jobs

\* A commit stores what OwnInv says of the transaction's own writes.
LEMMA CommitStep ==
    ASSUME OwnInv, NEW r \in Pages, Commit(r), UNCHANGED retries
    PROVE  OwnInv'
<1>1. PICK place \in {"done", "error"} :
          Close(r, place) /\ Store(r, Merged(r), JobAfter(job[r], place))
  BY DEF Commit
<1> DEFINE j == JobAfter(job[r], place)
<1>2. /\ j \in Jobs /\ j.seen = Blank
      /\ place = "error" => j.user = job[r].user /\ j.set = job[r].set
  BY JobAfterType DEF OwnInv, TypeOK
<1>3. /\ pc' = [pc EXCEPT ![r] = place] /\ work' = [work EXCEPT ![r] = NoWork]
      /\ UNCHANGED <<onboarded, minted, retries>> /\ pc[r] = "tx"
  BY <1>1 DEF Close, Commit
<1>4. raced' \in SUBSET Shelves
  BY DEF Commit, OwnInv, TypeOK, CardInHand, InTx, Shelves
<1>5. TypeOK'
  BY <1>1, <1>2, <1>3, <1>4, CommitRows, StoreType, NoWorkType DEF OwnInv, TypeOK
<1>6. WrittenBy(r)' = {}
  BY <1>3 DEF WrittenBy, NoWork, OwnInv, TypeOK
<1>7. job'[r] = j
  BY <1>1 DEF Store
<1>8. CardInHand(r)'
  BY <1>2, <1>3, <1>7 DEF CardInHand, OwnInv, TypeOK, InTx
<1>9. \A q \in Pages \ {r} : pc'[q] = pc[q] /\ work'[q] = work[q]
  BY <1>3 DEF OwnInv, TypeOK
<1> HIDE DEF j
<1> QED
  BY <1>1, <1>2, <1>3, <1>5, <1>6, <1>8, <1>9, CommitRows, StoreStep DEF j

Emptied(u, s) == [i \in Ids |-> IF i \in OnShelf(table, u, s) THEN NoRow ELSE table[i]]

\* RemoveCopies deletes copies nobody has written, and commits at once.
LEMMA RemoveCopiesStep ==
    ASSUME OwnInv, NEW r \in Pages, NEW u \in Active, NEW s \in Sets, RemoveCopies(r, u, s),
           UNCHANGED retries
    PROVE  OwnInv'
<1> DEFINE t == Emptied(u, s)
           j == JobOn(u, s, NoForm)
<1>0. u \in Users
  BY OwnershipAssumption
<1>1. /\ Store(r, t, j) /\ pc[r] = "idle" /\ pc' = [pc EXCEPT ![r] = "remove"]
      /\ NoneWritten(r, u, CardsOf(s)) /\ raced' \subseteq raced
      /\ UNCHANGED <<onboarded, minted, work, retries>>
  BY DEF RemoveCopies, Emptied
<1>2. j \in Jobs /\ j.seen = Blank /\ j.user = u /\ j.set = s
  BY <1>0, NewJobType, NoFormType DEF JobOn
<1>3. /\ t \in [Ids -> Row \cup {NoRow}]
      /\ \A i \in Ids : t[i] # NoRow => i \in 1..minted
  BY DEF Emptied, OwnInv, TypeOK, TableInEver
<1>4. Keeps(r, t)
  <2>1. \A i \in ever : i \in Ids
    BY OwnershipAssumption DEF OwnInv, TypeOK, Ids
  <2>2. ASSUME NEW q \in Pages \ {r}, NEW i \in Ids, i \in WrittenBy(q)
        PROVE  t[i] = table[i]
    <3>1. i \notin OnShelf(table, u, s)
      BY <1>1, <2>2 DEF NoneWritten, OnShelf
    <3> QED
      BY <3>1 DEF Emptied
  <2> QED
    BY <2>1, <2>2 DEF Keeps, Emptied
<1>5. TypeOK'
  BY <1>1, <1>2, <1>3, StoreType DEF OwnInv, TypeOK
<1>6. WrittenBy(r)' = {}
  BY <1>1 DEF WrittenBy, WorkIsOwn, OwnInv, InTx
<1>7. job'[r] = j
  BY <1>1 DEF Store
<1>8. CardInHand(r)'
  BY <1>0, <1>1, <1>2, <1>7 DEF CardInHand, OwnInv, TypeOK, InTx
<1>9. \A q \in Pages \ {r} : pc'[q] = pc[q] /\ work'[q] = work[q]
  BY <1>1 DEF OwnInv, TypeOK
<1> HIDE DEF j, t
<1> QED
  BY <1>1, <1>2, <1>3, <1>4, <1>5, <1>6, <1>8, <1>9, StoreStep

-----------------------------------------------------------------------------
(* The invariants.                                                         *)

\* Initially no transaction is open.
LEMMA OwnInit == Init => OwnInv
<1> SUFFICES ASSUME Init PROVE OwnInv
  OBVIOUS
<1>1. minted \in 0..MaxCopies /\ minted \in Nat
  BY OwnershipAssumption DEF Init
<1>2. PICK t \in [1..minted -> Row] : table = [i \in Ids |-> IF i <= minted THEN t[i] ELSE NoRow]
  BY DEF Init
<1>3. \A i \in Ids : /\ i \in Int /\ 1 <= i
                     /\ table[i] = IF i <= minted THEN t[i] ELSE NoRow
  BY <1>2, OwnershipAssumption DEF Ids
<1>4. table \in [Ids -> Row \cup {NoRow}]
  BY <1>1, <1>2, <1>3
<1>5. TableInEver
  BY <1>1, <1>3 DEF Init, TableInEver
<1>6. NoJob \in Jobs
  BY NewJobType, NoFormType DEF NoJob
<1>7. TypeOK
  BY <1>1, <1>4, <1>6, NoWorkType, OwnershipAssumption DEF Init, TypeOK, InTx
<1>8. ASSUME NEW r \in Pages
      PROVE  WorkIsOwn(r) /\ SeenIsOwn(r) /\ CardInHand(r) /\ WrittenBy(r) = {}
  BY DEF Init, WorkIsOwn, SeenIsOwn, CardInHand, WrittenBy, NoWork, NoJob, JobOn, Blank, InTx
<1> QED
  BY <1>5, <1>7, <1>8 DEF OwnInv, Locked

\* Every step keeps OwnInv.
LEMMA OwnNext ==
    ASSUME OwnInv, [Next]_vars
    PROVE  OwnInv'
<1>1. ASSUME NEW r \in Pages, Submit(r)
      PROVE  OwnInv'
  <2>1. PICK w \in Requests(job[r].form) : AddOwnedSet(r, w)
    BY <1>1 DEF Submit
  <2>2. w \in Wanted
    BY RequestType DEF OwnInv, TypeOK, Jobs
  <2>3. retries' \in 0..MaxRetries /\ pc[r] \in {"form", "error"}
    BY <1>1 DEF Submit, OwnInv, TypeOK
  <2> QED
    BY <2>1, <2>2, <2>3, AddOwnedSetStep
<1>2. ASSUME NEW r \in Pages, Retry(r)
      PROVE  OwnInv'
  <2>1. job[r].wanted \in Wanted
    BY DEF OwnInv, TypeOK, Jobs
  <2>2. retries' \in 0..MaxRetries
    BY <1>2, OwnershipAssumption DEF Retry, OwnInv, TypeOK
  <2> QED
    BY <1>2, <2>1, <2>2, AddOwnedSetStep DEF Retry
<1>3. ASSUME NEW r \in Pages, NEW u \in Active, NEW s \in Sets, UNCHANGED retries,
             Load(r, u, s) \/ RemoveCopies(r, u, s)
      PROVE  OwnInv'
  BY <1>3, LoadStep, RemoveCopiesStep
<1>4. ASSUME NEW r \in Pages, UNCHANGED retries,
             Refuse(r) \/ Fail(r) \/ RemoveSet(r) \/ RemoveFails(r)
      PROVE  OwnInv'
  <2>1. /\ UNCHANGED <<table, ever, minted, raced>> /\ onboarded' \subseteq onboarded
        /\ pc[r] \in Past
        /\ Finish(r, "error") \/ Finish(r, "done")
    BY <1>4 DEF Refuse, Fail, RemoveSet, RemoveFails, db, Past, InTx
  <2>2. onboarded' \in SUBSET Shelves /\ retries' \in 0..MaxRetries
    BY <1>4, <2>1 DEF OwnInv, TypeOK
  <2> QED
    BY <2>1, <2>2, FinishStep
<1>5. ASSUME NEW r \in Pages, NEW c \in Cards, UNCHANGED retries, Read(r, c)
      PROVE  OwnInv'
  BY <1>5, ReadStep
<1>6. ASSUME NEW r \in Pages, UNCHANGED retries,
             WriteCopies(r) \/ AdjustQuantity(r) \/ SetNewestPrice(r) \/ Commit(r)
      PROVE  OwnInv'
  BY <1>6, WriteCopiesStep, AdjustQuantityStep, SetNewestPriceStep, CommitStep
<1>7. CASE UNCHANGED vars
  BY <1>7 DEF vars, OwnInv, TypeOK, WorkIsOwn, OwnRow, SeenIsOwn, CardInHand, ValidCards, Entry,
              Locked, WrittenBy, TableInEver
<1> QED
  BY <1>1, <1>2, <1>3, <1>4, <1>5, <1>6, <1>7 DEF Next, SetOwnedCards

\* Every step keeps what an open transaction may have read and written.
THEOREM OwnInvariant == Spec => []OwnInv
BY OwnInit, OwnNext, PTL DEF Spec

\* Every variable of the collection holds a value of its type.
THEOREM TypeCorrect == Spec => []TypeOK
BY OwnInvariant, PTL DEF OwnInv

-----------------------------------------------------------------------------
(* What a step may do to the table.                                        *)

\* Only a commit and the first statement of a removal change the table.
LEMMA TableSteps ==
    ASSUME [Next]_vars
    PROVE  \/ UNCHANGED <<table, ever, raced>>
           \/ \E r \in Pages : Commit(r) /\ table' = Merged(r)
           \/ \E r \in Pages, u \in Active, s \in Sets :
                 RemoveCopies(r, u, s) /\ table' = Emptied(u, s)
<1>1. ASSUME NEW r \in Pages, Submit(r) \/ Retry(r)
      PROVE  UNCHANGED <<table, ever, raced>>
  BY <1>1 DEF Submit, Retry, AddOwnedSet
<1>2. ASSUME NEW r \in Pages, NEW u \in Active, NEW s \in Sets, Load(r, u, s)
      PROVE  UNCHANGED <<table, ever, raced>>
  BY <1>2 DEF Load, db
<1>3. ASSUME NEW r \in Pages, NEW u \in Active, NEW s \in Sets, RemoveCopies(r, u, s)
      PROVE  table' = Emptied(u, s)
  BY <1>3 DEF RemoveCopies, Store, Emptied
<1>4. ASSUME NEW r \in Pages, SetOwnedCards(r)
      PROVE  UNCHANGED <<table, ever, raced>> \/ (Commit(r) /\ table' = Merged(r))
  <2>1. CASE Refuse(r) \/ Fail(r)
    BY <2>1 DEF Refuse, Fail, db
  <2>2. CASE \E c \in Cards : Read(r, c)
    BY <2>2 DEF Read, db
  <2>3. CASE WriteCopies(r) \/ AdjustQuantity(r) \/ SetNewestPrice(r)
    BY <2>3 DEF WriteCopies, AdjustQuantity, SetNewestPrice, db
  <2>4. CASE Commit(r)
    BY <2>4 DEF Commit, Store
  <2> QED
    BY <1>4, <2>1, <2>2, <2>3, <2>4 DEF SetOwnedCards
<1>5. ASSUME NEW r \in Pages, RemoveSet(r) \/ RemoveFails(r)
      PROVE  UNCHANGED <<table, ever, raced>>
  BY <1>5 DEF RemoveSet, RemoveFails, db
<1>6. CASE UNCHANGED vars
  BY <1>6 DEF vars
<1> QED
  BY <1>1, <1>2, <1>3, <1>4, <1>5, <1>6 DEF Next

\* A copy that is gone never comes back, and no copy becomes another's.
THEOREM GoneStaysGone == Spec => GoneForGood
<1> DEFINE Gone == \A i \in ever :
         /\ table[i] = NoRow => table'[i] = NoRow
         /\ table[i] # NoRow /\ table'[i] # NoRow =>
                table'[i].user = table[i].user /\ table'[i].card = table[i].card
<1>1. ASSUME OwnInv, [Next]_vars
      PROVE  Gone
  <2>1. CASE UNCHANGED <<table, ever, raced>>
    BY <2>1
  <2>2. ASSUME NEW r \in Pages, table' = Merged(r)
        PROVE  Gone
    BY <1>1, <2>2, CommitRows DEF Keeps
  <2>3. ASSUME NEW u \in Active, NEW s \in Sets, table' = Emptied(u, s)
        PROVE  Gone
    <3>1. \A i \in ever : i \in Ids
      BY <1>1, OwnershipAssumption DEF OwnInv, TypeOK, Ids
    <3> QED
      BY <2>3, <3>1 DEF Emptied
  <2> QED
    BY <1>1, <2>1, <2>2, <2>3, TableSteps
<1>2. OwnInv /\ [Next]_vars => [Gone]_vars
  BY <1>1
<1> QED
  BY <1>2, OwnInvariant, PTL DEF Spec, GoneForGood

\* A step changes only rows of the user and of the set that its page works on.
THEOREM OwnRows == Spec => OwnRowsOnly
<1> DEFINE Owner(i, j) == \A row \in {table[i], table'[i]} \ {NoRow} :
                              row.user = j.user /\ SetOf[row.card] = j.set
           Own == \A i \in Ids : table'[i] # table[i] =>
                     \E r \in Pages : \E j \in {job[r], job'[r]} :
                         /\ pc'[r] # pc[r]
                         /\ Owner(i, j)
<1>1. ASSUME OwnInv, [Next]_vars
      PROVE  Own
  <2>1. CASE UNCHANGED <<table, ever, raced>>
    BY <2>1
  <2>2. ASSUME NEW r \in Pages, Commit(r), table' = Merged(r)
        PROVE  Own
    <3>1. pc'[r] # pc[r]
      BY <1>1, <2>2 DEF Commit, Close, OwnInv, TypeOK
    <3>2. ASSUME NEW i \in Ids, table'[i] # table[i]
          PROVE  Owner(i, job[r])
      BY <1>1, <2>2, <3>2, CommitRows DEF OwnRow
    <3> QED
      BY <3>1, <3>2
  <2>3. ASSUME NEW r \in Pages, NEW u \in Active, NEW s \in Sets, RemoveCopies(r, u, s),
               table' = Emptied(u, s)
        PROVE  Own
    <3>1. pc'[r] # pc[r] /\ job'[r].user = u /\ job'[r].set = s
      BY <1>1, <2>3 DEF RemoveCopies, Store, JobOn, OwnInv, TypeOK
    <3>2. ASSUME NEW i \in Ids, table'[i] # table[i]
          PROVE  Owner(i, job'[r])
      <4>1. i \in OnShelf(table, u, s) /\ table'[i] = NoRow
        BY <2>3, <3>2 DEF Emptied
      <4>2. table[i].user = u /\ SetOf[table[i].card] = s
        BY <4>1 DEF OnShelf, CopiesOf, CardsOf
      <4> QED
        BY <3>1, <4>1, <4>2
    <3> QED
      BY <3>1, <3>2
  <2> QED
    BY <1>1, <2>1, <2>2, <2>3, TableSteps
<1>2. OwnInv /\ [Next]_vars => [Own]_vars
  BY <1>1
<1> QED
  BY <1>2, OwnInvariant, PTL DEF Spec, OwnRowsOnly

-----------------------------------------------------------------------------
(* A removed set is empty.                                                 *)

\* A step that leaves the table alone, adds no page that removes, and drops no set
\* but one that a page is removing.
LEMMA QuietRemoved ==
    ASSUME Removed, UNCHANGED <<table, raced>>,
           \A q \in Pages : pc'[q] = "remove" => /\ pc[q] = "remove" /\ job'[q].user = job[q].user
                                                 /\ job'[q].set = job[q].set,
           \A u \in Users, s \in Sets :
               <<u, s>> \in onboarded => <<u, s>> \in onboarded' \/ Removing(u, s)
    PROVE  Removed'
<1>1. ASSUME NEW u \in Users, NEW s \in Sets, Removing(u, s)'
      PROVE  Removing(u, s)
  BY <1>1 DEF Removing
<1> QED
  BY <1>1 DEF Removed, OnShelf, CopiesOf

\* A page that moves on, to anything but a removal, and leaves the others alone.
LEMMA OthersRemoving ==
    ASSUME TypeOK, NEW r \in Pages, NEW to, to # "remove", pc' = [pc EXCEPT ![r] = to],
           NEW j, job' = [job EXCEPT ![r] = j]
    PROVE  \A q \in Pages : pc'[q] = "remove" => /\ pc[q] = "remove" /\ job'[q].user = job[q].user
                                                 /\ job'[q].set = job[q].set
BY DEF TypeOK

\* A commit that adds a copy of a set that is gone, or going, is a race and is noted.
LEMMA CommitRemoved ==
    ASSUME OwnInv, Removed, NEW r \in Pages, Commit(r), table' = Merged(r)
    PROVE  Removed'
<1> SUFFICES ASSUME NEW u \in Users, NEW s \in Sets,
                    <<u, s>> \notin onboarded' \/ Removing(u, s)', OnShelf(table', u, s) # {}
             PROVE  <<u, s>> \in raced'
  BY DEF Removed, OnShelf, CopiesOf
<1>1. /\ pc[r] = "tx" /\ pc'[r] \in {"done", "error"} /\ onboarded' = onboarded /\ raced \subseteq raced'
      /\ \A q \in Pages \ {r} : /\ pc'[q] = pc[q] /\ job'[q].user = job[q].user
                                /\ job'[q].set = job[q].set
  BY DEF Commit, Close, Store, OwnInv, TypeOK, Jobs
<1>2. <<u, s>> \notin onboarded \/ Removing(u, s)
  BY <1>1 DEF Removing
<1>3. CASE u = job[r].user /\ s = job[r].set
  BY <1>2, <1>3 DEF Commit, Removing
<1>4. CASE ~(u = job[r].user /\ s = job[r].set)
  <2>1. PICK c \in CardsOf(s), i \in Ids : table'[i] # NoRow /\ table'[i].user = u /\ table'[i].card = c
    BY DEF OnShelf, CopiesOf
  <2>2. table'[i] = table[i]
    BY <1>4, <2>1, CommitRows DEF OwnRow, CardsOf
  <2>3. OnShelf(table, u, s) # {}
    BY <2>1, <2>2 DEF OnShelf, CopiesOf
  <2> QED
    BY <1>1, <1>2, <2>3 DEF Removed
<1> QED
  BY <1>3, <1>4

\* The first statement of a removal leaves the set without copies.
LEMMA RemoveCopiesRemoved ==
    ASSUME OwnInv, Removed, NEW r \in Pages, NEW v \in Active, NEW x \in Sets,
           RemoveCopies(r, v, x), table' = Emptied(v, x)
    PROVE  Removed'
<1> SUFFICES ASSUME NEW u \in Users, NEW s \in Sets,
                    <<u, s>> \notin onboarded' \/ Removing(u, s)', OnShelf(table', u, s) # {}
             PROVE  <<u, s>> \in raced'
  BY DEF Removed, OnShelf, CopiesOf
<1>1. /\ onboarded' = onboarded /\ raced' = raced \ {<<v, x>>}
      /\ job'[r].user = v /\ job'[r].set = x
      /\ \A q \in Pages \ {r} : /\ pc'[q] = pc[q] /\ job'[q].user = job[q].user
                                /\ job'[q].set = job[q].set
  BY DEF RemoveCopies, Store, JobOn, OwnInv, TypeOK, Jobs
<1>2. PICK c \in CardsOf(s), i \in Ids : table'[i] # NoRow /\ table'[i].user = u /\ table'[i].card = c
  BY DEF OnShelf, CopiesOf
<1>3. table'[i] = table[i] /\ i \notin OnShelf(table, v, x)
  BY <1>2 DEF Emptied
<1>4. i \in OnShelf(table, u, s)
  BY <1>2, <1>3 DEF OnShelf, CopiesOf
<1>5. <<u, s>> # <<v, x>>
  BY <1>3, <1>4
<1>6. <<u, s>> \notin onboarded \/ Removing(u, s)
  BY <1>1, <1>5 DEF Removing
<1> QED
  BY <1>1, <1>4, <1>5, <1>6 DEF Removed

\* Every step keeps a removed set empty, but for the races that are noted.
LEMMA RemovedNext ==
    ASSUME OwnInv, Removed, [Next]_vars
    PROVE  Removed'
<1> TypeOK
  BY DEF OwnInv
<1>1. ASSUME NEW r \in Pages, NEW place \in {"done", "error"}, Finish(r, place),
             UNCHANGED <<table, raced>>,
             \A u \in Users, s \in Sets :
                 <<u, s>> \in onboarded => <<u, s>> \in onboarded' \/ Removing(u, s)
      PROVE  Removed'
  <2>1. \A q \in Pages : pc'[q] = "remove" => /\ pc[q] = "remove" /\ job'[q].user = job[q].user
                                              /\ job'[q].set = job[q].set
    BY <1>1, OthersRemoving DEF Finish, Close
  <2> QED
    BY <1>1, <2>1, QuietRemoved
<1>2. ASSUME NEW r \in Pages, NEW to, to # "remove", NEW j, pc' = [pc EXCEPT ![r] = to],
             job' = [job EXCEPT ![r] = j], UNCHANGED <<table, raced>>, onboarded \subseteq onboarded'
      PROVE  Removed'
  <2>1. \A q \in Pages : pc'[q] = "remove" => /\ pc[q] = "remove" /\ job'[q].user = job[q].user
                                              /\ job'[q].set = job[q].set
    BY <1>2, OthersRemoving
  <2> QED
    BY <1>2, <2>1, QuietRemoved
<1>3. ASSUME NEW r \in Pages, NEW w, AddOwnedSet(r, w)
      PROVE  Removed'
  <2>1. UNCHANGED <<table, raced>> /\ onboarded \subseteq onboarded'
    BY <1>3 DEF AddOwnedSet
  <2>2. CASE Finish(r, "done")
    BY <1>1, <2>1, <2>2
  <2>3. CASE /\ pc' = [pc EXCEPT ![r] = "tx"]
             /\ job' = [job EXCEPT ![r].wanted = w, ![r].todo = DOMAIN w]
    BY <1>2, <2>1, <2>3
  <2>4. CASE pc' = [pc EXCEPT ![r] = "error"] /\ job' = [job EXCEPT ![r].wanted = w]
    BY <1>2, <2>1, <2>4
  <2> QED
    BY <1>3, <2>2, <2>3, <2>4 DEF AddOwnedSet
<1>4. ASSUME NEW r \in Pages, Submit(r) \/ Retry(r)
      PROVE  Removed'
  BY <1>3, <1>4 DEF Submit, Retry
<1>5. ASSUME NEW r \in Pages, NEW u \in Active, NEW s \in Sets, Load(r, u, s)
      PROVE  Removed'
  BY <1>2, <1>5 DEF Load, db
<1>6. ASSUME NEW r \in Pages, NEW u \in Active, NEW s \in Sets, RemoveCopies(r, u, s)
      PROVE  Removed'
  BY <1>6, RemoveCopiesRemoved DEF RemoveCopies, Store, Emptied
<1>7. ASSUME NEW r \in Pages, Refuse(r) \/ Fail(r) \/ RemoveFails(r)
      PROVE  Removed'
  BY <1>1, <1>7 DEF Refuse, Fail, RemoveFails, db
<1>8. ASSUME NEW r \in Pages, RemoveSet(r)
      PROVE  Removed'
  <2>1. \A u \in Users, s \in Sets :
            <<u, s>> \in onboarded => <<u, s>> \in onboarded' \/ Removing(u, s)
    BY <1>8 DEF RemoveSet, Removing
  <2> QED
    BY <1>1, <1>8, <2>1 DEF RemoveSet
<1>9. ASSUME NEW r \in Pages, NEW c \in Cards, Read(r, c)
      PROVE  Removed'
  <2> DEFINE first == job[r].todo = DOMAIN job[r].wanted
             seen == IF first THEN [d \in Cards |-> Visible(job[r].user, d)] ELSE job[r].seen
             moved == job[r].disturbed /\ ~first
             to == IF job[r].wanted[c].kind = "copies" THEN "copies" ELSE "quantity"
             j == [job[r] EXCEPT !.card = c, !.todo = @ \ {c}, !.seen = seen, !.disturbed = moved]
  <2>1. job' = [job EXCEPT ![r] = j] /\ pc' = [pc EXCEPT ![r] = to]
    BY <1>9 DEF Read
  <2>2. UNCHANGED <<table, raced, onboarded>> /\ to # "remove"
    BY <1>9 DEF Read, db
  <2> HIDE DEF j, to
  <2> QED
    BY <1>2, <2>1, <2>2
<1>10. ASSUME NEW r \in Pages, WriteCopies(r) \/ AdjustQuantity(r) \/ SetNewestPrice(r)
       PROVE  Removed'
  <2>1. /\ UNCHANGED <<table, raced, onboarded, job>>
        /\ pc' = [pc EXCEPT ![r] = "tx"] \/ pc' = [pc EXCEPT ![r] = "price"]
    BY <1>10 DEF WriteCopies, AdjustQuantity, SetNewestPrice, db
  <2>2. job' = [job EXCEPT ![r] = job[r]]
    BY <2>1 DEF TypeOK
  <2> QED
    BY <1>2, <2>1, <2>2
<1>11. ASSUME NEW r \in Pages, Commit(r)
       PROVE  Removed'
  BY <1>11, CommitRemoved DEF Commit, Store
<1>12. CASE UNCHANGED vars
  BY <1>12 DEF vars, Removed, Removing, OnShelf, CopiesOf
<1> QED
  BY <1>4, <1>5, <1>6, <1>7, <1>8, <1>9, <1>10, <1>11, <1>12 DEF Next, SetOwnedCards

\* A set that is not onboarded has no copies, unless a save raced its removal.
THEOREM RemovedIsEmpty == Spec => []RemovedMeansEmpty
<1>1. Init => Removed
  <2> SUFFICES ASSUME Init, NEW u \in Users, NEW s \in Sets,
                      <<u, s>> \notin onboarded \/ Removing(u, s)
               PROVE  OnShelf(table, u, s) = {}
    BY DEF Removed
  <2>1. <<u, s>> \notin onboarded
    BY DEF Init, Removing
  <2>2. onboarded = {us \in Shelves : OnShelf(table, us[1], us[2]) # {}}
    BY DEF Init
  <2> QED
    BY <2>1, <2>2 DEF Shelves
<1>2. Removed => RemovedMeansEmpty
  BY DEF Removed, RemovedMeansEmpty
<1> QED
  BY <1>1, <1>2, RemovedNext, OwnInvariant, PTL DEF Spec

-----------------------------------------------------------------------------
(* A save deletes only copies that it has read.                            *)

\* A page that has written, or is about to, has read; what it deletes is among that.
ReadBefore(r) ==
    /\ pc[r] \in {"copies", "quantity", "price"} \/ WrittenBy(r) # {} =>
          job[r].todo # DOMAIN job[r].wanted
    /\ \A i \in Ids : work[r][i] = NoRow => \E c \in Cards : i \in job[r].seen[c]

\* A page between transactions has written nothing.
LEMMA ReadBeforeIdle ==
    ASSUME NEW r \in Pages, WrittenBy(r)' = {}, pc'[r] \notin {"copies", "quantity", "price"}
    PROVE  ReadBefore(r)'
BY OwnershipAssumption DEF ReadBefore, WrittenBy

\* A step of page r, which leaves what the other pages have read and written.
LEMMA ReadBeforeStep ==
    ASSUME \A q \in Pages : ReadBefore(q), NEW r \in Pages, ReadBefore(r)',
           \A q \in Pages \ {r} : /\ pc'[q] = pc[q] /\ work'[q] = work[q]
                                  /\ job'[q].todo = job[q].todo /\ job'[q].seen = job[q].seen
                                  /\ job'[q].wanted = job[q].wanted
    PROVE  \A q \in Pages : ReadBefore(q)'
BY DEF ReadBefore, WrittenBy

\* A statement that writes deletes only rows that the page has read.
LEMMA ReadBeforeWrite ==
    ASSUME OwnInv, \A q \in Pages : ReadBefore(q), NEW r \in Pages,
           pc[r] \in {"copies", "quantity", "price"},
           NEW rows, Write(r, rows), \A i \in DOMAIN rows : rows[i] = NoRow => i \in Mine(r),
           NEW to, pc' = [pc EXCEPT ![r] = to], UNCHANGED job
    PROVE  \A q \in Pages : ReadBefore(q)'
<1>1. job[r].card \in Cards
  BY InHand
<1>2. /\ \A q \in Pages \ {r} : work'[q] = work[q] /\ pc'[q] = pc[q]
      /\ \A i \in Ids : work'[r][i] = IF i \in DOMAIN rows THEN rows[i] ELSE work[r][i]
  BY DEF Write, OwnInv, TypeOK
<1>3. ReadBefore(r)'
  BY <1>1, <1>2 DEF ReadBefore, Mine
<1> QED
  BY <1>2, <1>3, ReadBeforeStep

\* Every step keeps the snapshot ahead of the writes.
LEMMA ReadBeforeNext ==
    ASSUME OwnInv, \A q \in Pages : ReadBefore(q), [Next]_vars
    PROVE  \A q \in Pages : ReadBefore(q)'
<1> TypeOK
  BY DEF OwnInv
<1>1. ASSUME NEW r \in Pages, NEW place \in {"done", "error"}, Finish(r, place)
      PROVE  \A q \in Pages : ReadBefore(q)'
  <2>1. /\ pc' = [pc EXCEPT ![r] = place] /\ work' = [work EXCEPT ![r] = NoWork]
        /\ job' = [job EXCEPT ![r] = JobAfter(job[r], place)]
    BY <1>1 DEF Finish, Close
  <2>2. ReadBefore(r)'
    BY <2>1, ReadBeforeIdle DEF WrittenBy, NoWork, TypeOK
  <2> QED
    BY <2>1, <2>2, ReadBeforeStep DEF TypeOK
<1>2. ASSUME NEW r \in Pages, WrittenBy(r) = {}, NEW to \in {"form", "tx", "error"}, NEW j,
             pc' = [pc EXCEPT ![r] = to], job' = [job EXCEPT ![r] = j], UNCHANGED work
      PROVE  \A q \in Pages : ReadBefore(q)'
  <2>1. /\ WrittenBy(r)' = {} /\ pc'[r] \notin {"copies", "quantity", "price"}
        /\ \A q \in Pages \ {r} : pc'[q] = pc[q] /\ job'[q] = job[q] /\ work'[q] = work[q]
    BY <1>2 DEF WrittenBy, TypeOK
  <2>2. ReadBefore(r)'
    BY <2>1, ReadBeforeIdle
  <2> QED
    BY <2>1, <2>2, ReadBeforeStep
<1>3. ASSUME NEW r \in Pages, pc[r] \in {"form", "error"}, NEW w, AddOwnedSet(r, w)
      PROVE  \A q \in Pages : ReadBefore(q)'
  <2>1. WrittenBy(r) = {}
    BY <1>3 DEF WrittenBy, OwnInv, WorkIsOwn, InTx
  <2>2. CASE Finish(r, "done")
    BY <1>1, <2>2
  <2>3. CASE /\ pc' = [pc EXCEPT ![r] = "tx"] /\ UNCHANGED work
             /\ job' = [job EXCEPT ![r].wanted = w, ![r].todo = DOMAIN w]
    <3>1. \E j : job' = [job EXCEPT ![r] = j]
      BY <2>3, Zenon
    <3> QED
      BY <1>2, <2>1, <2>3, <3>1
  <2>4. CASE /\ pc' = [pc EXCEPT ![r] = "error"] /\ UNCHANGED work
             /\ job' = [job EXCEPT ![r].wanted = w]
    BY <1>2, <2>1, <2>4
  <2> QED
    BY <1>3, <2>2, <2>3, <2>4 DEF AddOwnedSet
<1>4. ASSUME NEW r \in Pages, Submit(r) \/ Retry(r)
      PROVE  \A q \in Pages : ReadBefore(q)'
  BY <1>3, <1>4 DEF Submit, Retry
<1>5. ASSUME NEW r \in Pages, NEW u \in Active, NEW s \in Sets, Load(r, u, s)
      PROVE  \A q \in Pages : ReadBefore(q)'
  <2>1. WrittenBy(r) = {}
    BY <1>5 DEF Load, WrittenBy, OwnInv, WorkIsOwn, InTx
  <2> QED
    BY <1>2, <1>5, <2>1 DEF Load
<1>6. ASSUME NEW r \in Pages, NEW t, NEW j, Store(r, t, j),
             WrittenBy(r)' = {}, pc'[r] \notin {"copies", "quantity", "price"},
             \A q \in Pages \ {r} : pc'[q] = pc[q] /\ work'[q] = work[q]
      PROVE  \A q \in Pages : ReadBefore(q)'
  <2>1. \A q \in Pages \ {r} : /\ job'[q].todo = job[q].todo /\ job'[q].seen = job[q].seen
                               /\ job'[q].wanted = job[q].wanted
    BY <1>6 DEF Store, TypeOK, Jobs
  <2> QED
    BY <1>6, <2>1, ReadBeforeIdle, ReadBeforeStep
<1>7. ASSUME NEW r \in Pages, NEW u \in Active, NEW s \in Sets, RemoveCopies(r, u, s)
      PROVE  \A q \in Pages : ReadBefore(q)'
  <2>1. /\ WrittenBy(r)' = {} /\ pc'[r] = "remove"
        /\ \A q \in Pages \ {r} : pc'[q] = pc[q] /\ work'[q] = work[q]
    BY <1>7 DEF RemoveCopies, WrittenBy, OwnInv, WorkIsOwn, InTx, TypeOK
  <2> QED
    BY <1>6, <1>7, <2>1 DEF RemoveCopies
<1>8. ASSUME NEW r \in Pages, Commit(r)
      PROVE  \A q \in Pages : ReadBefore(q)'
  <2>1. PICK place \in {"done", "error"} :
            Close(r, place) /\ Store(r, Merged(r), JobAfter(job[r], place))
    BY <1>8 DEF Commit
  <2>2. /\ WrittenBy(r)' = {} /\ pc'[r] = place
        /\ \A q \in Pages \ {r} : pc'[q] = pc[q] /\ work'[q] = work[q]
    BY <2>1 DEF Close, WrittenBy, NoWork, TypeOK
  <2> QED
    BY <1>6, <2>1, <2>2
<1>9. ASSUME NEW r \in Pages, NEW c \in Cards, Read(r, c)
      PROVE  \A q \in Pages : ReadBefore(q)'
  <2> DEFINE first == job[r].todo = DOMAIN job[r].wanted
             seen == IF first THEN [d \in Cards |-> Visible(job[r].user, d)] ELSE job[r].seen
             moved == job[r].disturbed /\ ~first
             j1 == [job[r] EXCEPT !.card = c, !.todo = @ \ {c}]
             j == [j1 EXCEPT !.seen = seen, !.disturbed = moved]
             to == IF job[r].wanted[c].kind = "copies" THEN "copies" ELSE "quantity"
  <2>1. job' = [job EXCEPT ![r] = j] /\ pc' = [pc EXCEPT ![r] = to] /\ UNCHANGED work
    BY <1>9 DEF Read
  <2>2. c \in job[r].todo /\ job[r].todo \subseteq DOMAIN job[r].wanted
    BY <1>9 DEF Read, OwnInv, CardInHand, InTx
  <2>3. job[r] \in Jobs
    BY DEF TypeOK
  <2>4. j1 \in Jobs /\ j1.wanted = job[r].wanted /\ j1.todo = job[r].todo \ {c}
    BY <2>2, <2>3 DEF Jobs
  <2>5. j.wanted = job[r].wanted /\ j.todo = job[r].todo \ {c} /\ j.seen = seen
    <3> HIDE DEF j1, seen, moved
    <3> QED
      BY <2>4 DEF Jobs
  <2>6. WrittenBy(r) # {} => seen = job[r].seen
    BY DEF ReadBefore
  <2> HIDE DEF j, to, seen
  <2>7. job'[r] = j
    BY <2>1 DEF TypeOK
  <2>8. job'[r].todo # DOMAIN job'[r].wanted
    BY <2>2, <2>5, <2>7
  <2>9. \A i \in Ids : work'[r][i] = NoRow => \E d \in Cards : i \in job'[r].seen[d]
    <3>1. \A i \in Ids : work[r][i] = NoRow => i \in WrittenBy(r)
      BY OwnershipAssumption DEF WrittenBy
    <3> QED
      BY <2>1, <2>5, <2>6, <2>7, <3>1 DEF ReadBefore
  <2>10. ReadBefore(r)'
    BY <2>8, <2>9 DEF ReadBefore
  <2> QED
    BY <2>1, <2>10, ReadBeforeStep DEF TypeOK
<1>10. ASSUME NEW r \in Pages, WriteCopies(r)
       PROVE  \A q \in Pages : ReadBefore(q)'
  <2> DEFINE entry == Entry(r)
             gone == {i \in Unlisted(r) : table[i] # NoRow}
             new == NewIds(Len(entry.fresh))
             rows == [i \in gone \cup Updated(r) \cup new |->
                       IF i \in new THEN NewRow(r, entry.fresh[i - minted])
                       ELSE IF i \in Updated(r) THEN NewRow(r, entry.listed[i]) ELSE NoRow]
  <2>1. pc[r] = "copies" /\ pc' = [pc EXCEPT ![r] = "tx"] /\ Write(r, rows) /\ UNCHANGED job
    BY <1>10 DEF WriteCopies
  <2>2. gone \cup Updated(r) \subseteq Mine(r)
    BY DEF Unlisted, Updated
  <2>3. entry \in ByID(Ids) /\ job[r].user \in Users /\ job[r].card \in Cards
    BY <2>1, InHand
  <2>4. minted \in Nat /\ \A i \in new : entry.fresh[i - minted] \in Prices
    BY <2>3, FreshType, OwnershipAssumption DEF NewIds, TypeOK
  <2>5. \A i \in new : NewRow(r, entry.fresh[i - minted]) # NoRow
    BY <2>3, <2>4, OwnershipAssumption DEF NewRow
  <2>6. \A i \in DOMAIN rows : rows[i] = NoRow => i \in Mine(r)
    BY <2>2, <2>5
  <2> HIDE DEF rows
  <2> QED
    BY <2>1, <2>6, ReadBeforeWrite
<1>11. ASSUME NEW r \in Pages, AdjustQuantity(r)
       PROVE  \A q \in Pages : ReadBefore(q)'
  <2> DEFINE have == Cardinality(Mine(r))
             want == Entry(r).quantity
             new == IF want > have THEN NewIds(want - have) ELSE {}
             gone == IF want < have THEN ToRemove(have - want, Mine(r)) ELSE {}
             rows == [i \in {j \in gone : table[j] # NoRow} \cup new |->
                       IF i \in new THEN NewRow(r, NoPrice) ELSE NoRow]
             to == IF want = 0 THEN "tx" ELSE "price"
  <2>1. pc[r] = "quantity" /\ pc' = [pc EXCEPT ![r] = to] /\ Write(r, rows) /\ UNCHANGED job
    BY <1>11 DEF AdjustQuantity
  <2>2. gone \subseteq Mine(r)
    BY DEF ToRemove, Newest
  <2>3. NewRow(r, NoPrice) # NoRow
    BY <2>1, InHand, OwnershipAssumption DEF NewRow
  <2>4. \A i \in DOMAIN rows : rows[i] = NoRow => i \in Mine(r)
    BY <2>2, <2>3
  <2> HIDE DEF rows, to
  <2> QED
    BY <2>1, <2>4, ReadBeforeWrite
<1>12. ASSUME NEW r \in Pages, SetNewestPrice(r)
       PROVE  \A q \in Pages : ReadBefore(q)'
  <2> DEFINE rows == [i \in Last(CopiesOf(Merged(r), job[r].user, job[r].card)) |->
                        NewRow(r, Entry(r).price)]
  <2>1. pc[r] = "price" /\ pc' = [pc EXCEPT ![r] = "tx"] /\ Write(r, rows) /\ UNCHANGED job
    BY <1>12 DEF SetNewestPrice
  <2>2. NewRow(r, Entry(r).price) # NoRow
    BY <2>1, InHand, OwnershipAssumption DEF NewRow, ByCount
  <2>3. \A i \in DOMAIN rows : rows[i] # NoRow
    BY <2>2
  <2> HIDE DEF rows
  <2> QED
    BY <2>1, <2>3, ReadBeforeWrite
<1>13. ASSUME NEW r \in Pages, Refuse(r) \/ Fail(r) \/ RemoveSet(r) \/ RemoveFails(r)
       PROVE  \A q \in Pages : ReadBefore(q)'
  BY <1>1, <1>13 DEF Refuse, Fail, RemoveSet, RemoveFails
<1>14. CASE UNCHANGED vars
  BY <1>14 DEF vars, ReadBefore, WrittenBy
<1> QED
  BY <1>4, <1>5, <1>7, <1>8, <1>9, <1>10, <1>11, <1>12, <1>13, <1>14 DEF Next, SetOwnedCards

\* What a save takes away, it has read: it never deletes what another save is adding.
THEOREM RemovesOnlyRead == Spec => SavesRemoveOnlyWhatTheyRead
<1> DEFINE Reads == \A r \in Pages : ReadBefore(r)
           Exact == \A r \in Pages : Commit(r) =>
             \A i \in Ids : table[i] # NoRow /\ table'[i] = NoRow =>
                 i \in job[r].seen[table[i].card]
<1>1. Init => Reads
  BY OwnershipAssumption DEF Init, ReadBefore, WrittenBy, NoWork
<1>2. OwnInv /\ Reads /\ [Next]_vars => Reads'
  BY ReadBeforeNext
<1>3. ASSUME OwnInv, Reads
      PROVE  Exact
  <2> SUFFICES ASSUME NEW r \in Pages, Commit(r), NEW i \in Ids, table[i] # NoRow,
                      table'[i] = NoRow
               PROVE  i \in job[r].seen[table[i].card]
    OBVIOUS
  <2>1. work[r][i] = NoRow
    BY DEF Commit, Store, Merged
  <2>2. PICK c \in Cards : i \in job[r].seen[c]
    BY <1>3, <2>1 DEF ReadBefore
  <2>3. table[i].card = c
    BY <1>3, <2>2 DEF OwnInv, SeenIsOwn
  <2> QED
    BY <2>2, <2>3
<1>4. OwnInv /\ Reads => [Exact]_vars
  BY <1>3
<1> QED
  BY <1>1, <1>2, <1>4, OwnInvariant, PTL DEF Spec, SavesRemoveOnlyWhatTheyRead
-----------------------------------------------------------------------------
(* Counting copies.                                                        *)

\* The n newest of some copies are n, and no copy left is newer than one of them.
LEMMA NewestCount ==
    ASSUME NEW S \in SUBSET Int, IsFiniteSet(S), NEW n \in Nat, n <= Cardinality(S)
    PROVE  /\ Newest(n, S) \subseteq S
           /\ Cardinality(Newest(n, S)) = n
           /\ \A i \in Newest(n, S), j \in S : j > i => j \in Newest(n, S)
<1> DEFINE above(i) == {j \in S : j > i}
           N == Cardinality(S)
           rank == [i \in S |-> Cardinality(above(i))]
<1>0. \A i \in S : i \in Int
  OBVIOUS
<1>1. N \in Nat
  BY FS_CardinalityType
<1>2. ASSUME NEW i \in S
      PROVE  IsFiniteSet(above(i)) /\ Cardinality(above(i)) \in 0..(N - 1)
  <2>1. above(i) \in SUBSET S /\ i \notin above(i)
    OBVIOUS
  <2> HIDE DEF above
  <2>2. /\ IsFiniteSet(above(i)) /\ Cardinality(above(i)) <= N
        /\ Cardinality(S) = Cardinality(above(i)) => S = above(i)
    BY <2>1, FS_Subset
  <2>3. Cardinality(above(i)) \in Nat
    BY <2>2, FS_CardinalityType
  <2> QED
    BY <1>1, <2>1, <2>2, <2>3
<1>3. ASSUME NEW i \in S, NEW k \in S, i < k
      PROVE  Cardinality(above(k)) < Cardinality(above(i))
  <2>1. above(k) \in SUBSET above(i) /\ k \in above(i) /\ k \notin above(k)
    <3>1. \A j \in S : j \in Int /\ (j > k => j > i)
      BY <1>0, <1>3
    <3>2. ~(k > k)
      BY <1>0
    <3> QED
      BY <1>3, <3>1, <3>2
  <2>2. IsFiniteSet(above(i)) /\ Cardinality(above(i)) \in Int /\ Cardinality(above(k)) \in Int
    BY <1>1, <1>2
  <2> HIDE DEF above
  <2>3. /\ Cardinality(above(k)) <= Cardinality(above(i))
        /\ Cardinality(above(i)) = Cardinality(above(k)) => above(i) = above(k)
    BY <2>1, <2>2, FS_Subset
  <2> QED
    BY <2>1, <2>2, <2>3
<1>4. /\ \A i \in S : rank[i] = Cardinality(above(i)) /\ rank[i] \in 0..(N - 1)
      /\ rank \in [S -> 0..(N - 1)]
      /\ \A i, k \in S : i < k => rank[k] < rank[i]
  BY <1>2, <1>3
<1>5. Newest(n, S) = {i \in S : rank[i] < n}
  BY DEF Newest
<1> HIDE DEF rank, above
<1>6. rank \in Injection(S, 0..(N - 1))
  <2>1. ASSUME NEW i \in S, NEW k \in S, rank[i] = rank[k]
        PROVE  i = k
    <3>1. i \in Int /\ k \in Int /\ rank[i] \in Int /\ rank[k] \in Int
      BY <1>1, <1>4
    <3> QED
      BY <1>4, <2>1, <3>1
  <2> QED
    BY <1>4, <2>1 DEF Injection, IsInjective
<1>7. \A m \in 0..N : IsFiniteSet(0..(m - 1)) /\ Cardinality(0..(m - 1)) = m
  <2> SUFFICES ASSUME NEW m \in 0..N
               PROVE  IsFiniteSet(0..(m - 1)) /\ Cardinality(0..(m - 1)) = m
    OBVIOUS
  <2>1. 0 \in Int /\ m - 1 \in Int /\ m \in Nat
    BY <1>1
  <2>2. /\ IsFiniteSet(0..(m - 1))
        /\ Cardinality(0..(m - 1)) = IF 0 > m - 1 THEN 0 ELSE (m - 1) - 0 + 1
    BY <2>1, FS_Interval
  <2> QED
    BY <2>1, <2>2
<1>8. rank \in Surjection(S, 0..(N - 1))
  <2>1. IsFiniteSet(0..(N - 1)) /\ Cardinality(0..(N - 1)) = N
    BY <1>1, <1>7
  <2> QED
    BY <1>6, <2>1, FS_Injection
<1> DEFINE T == {i \in S : rank[i] < n}
           g == [i \in T |-> rank[i]]
<1>9. g \in Injection(T, 0..(n - 1)) /\ g \in Surjection(T, 0..(n - 1))
  <2>1. g \in [T -> 0..(n - 1)]
    <3>1. \A i \in T : rank[i] \in 0..(n - 1)
      BY <1>1, <1>4
    <3> QED
      BY <3>1
  <2>2. \A i, k \in T : g[i] = g[k] => i = k
    BY <1>6 DEF Injection, IsInjective
  <2>3. \A m \in 0..(n - 1) : \E i \in T : g[i] = m
    <3>1. \A m \in 0..(n - 1) : m \in 0..(N - 1)
      BY <1>1
    <3>2. \A m \in 0..(N - 1) : \E i \in S : rank[i] = m
      BY <1>8 DEF Surjection
    <3> QED
      BY <3>1, <3>2
  <2> QED
    BY <2>1, <2>2, <2>3 DEF Injection, IsInjective, Surjection
<1> HIDE DEF g
<1>10. Cardinality(T) = n
  <2>1. IsFiniteSet(0..(n - 1)) /\ Cardinality(0..(n - 1)) = n
    BY <1>1, <1>7
  <2> HIDE DEF T
  <2> QED
    BY <1>9, <2>1, FS_Injection
<1>11. \A i \in T, j \in S : j > i => j \in T
  <2>1. \A i \in S : i \in Int /\ rank[i] \in Int
    BY <1>1, <1>4
  <2> QED
    BY <1>4, <2>1
<1> QED
  BY <1>5, <1>10, <1>11

\* A are the ids, of L copies numbered from m + 1 in the order of a request, and B are
\* the places in the request, of which the price is p.
Numbered(A, B, m, L, fresh, p) ==
    /\ \A i : i \in A <=> i \in (m + 1)..(m + L) /\ fresh[i - m] = p
    /\ \A n : n \in B <=> n \in 1..L /\ fresh[n] = p

\* As many new copies have a price as the request has places with it.
LEMMA NewCount ==
    ASSUME NEW m \in Nat, NEW L \in Nat, NEW fresh, NEW p, NEW A, NEW B,
           Numbered(A, B, m, L, fresh, p)
    PROVE  Cardinality(A) = Cardinality(B)
<1> DEFINE g == [i \in A |-> i - m]
<1>0. /\ \A i : i \in A <=> i \in (m + 1)..(m + L) /\ fresh[i - m] = p
      /\ \A n : n \in B <=> n \in 1..L /\ fresh[n] = p
  BY DEF Numbered
<1>1. g \in [A -> B] /\ \A i \in A : g[i] = i - m /\ i \in Int
  BY <1>0
<1>2. \A i, k \in A : g[i] = g[k] => i = k
  BY <1>1
<1>3. ASSUME NEW n \in B
      PROVE  \E i \in A : g[i] = n
  <2>1. m + n \in A /\ (m + n) - m = n
    BY <1>0
  <2> HIDE DEF g
  <2> QED
    BY <1>1, <2>1
<1> HIDE DEF g
<1>4. g \in Injection(A, B) /\ g \in Surjection(A, B)
  BY <1>1, <1>2, <1>3 DEF Injection, IsInjective, Surjection
<1>5. IsFiniteSet(B)
  <2>1. IsFiniteSet(1..L) /\ B \in SUBSET (1..L)
    BY <1>0, FS_Interval
  <2> QED
    BY <2>1, FS_Subset
<1> QED
  BY <1>4, <1>5, FS_Injection

-----------------------------------------------------------------------------
(* What a save asks for is what there is when it commits.                  *)

\* The copies of card c that user u has are the same rows in two states of the table.
Same(t, o, u, c) ==
    /\ CopiesOf(t, u, c) = CopiesOf(o, u, c)
    /\ \A i \in CopiesOf(o, u, c) : t[i] = o[i]

\* State t has what an entry by id, or by count, asks for, starting from state o.
ExactByID(t, o, u, c, entry) ==
    /\ entry.kind = "copies"
    /\ CopiesOf(t, u, c) \cap CopiesOf(o, u, c) = CopiesOf(o, u, c) \cap DOMAIN entry.listed
    /\ \A i \in CopiesOf(t, u, c) \cap CopiesOf(o, u, c) : t[i].price = entry.listed[i]
    /\ \A p \in Prices :
         Cardinality({i \in CopiesOf(t, u, c) \ CopiesOf(o, u, c) : t[i].price = p})
           = Cardinality({n \in DOMAIN entry.fresh : entry.fresh[n] = p})

ExactByCount(t, o, u, c, entry) ==
    /\ entry.kind = "quantity"
    /\ Cardinality(CopiesOf(t, u, c)) = entry.quantity
    /\ \A i \in CopiesOf(t, u, c) :
         /\ \A j \in CopiesOf(o, u, c) : j < i => j \in CopiesOf(t, u, c)
         /\ (\A j \in CopiesOf(t, u, c) : j <= i) => t[i].price = entry.price
         /\ i \in CopiesOf(o, u, c) /\ (\E j \in CopiesOf(t, u, c) : j > i) => t[i] = o[i]

Exact(t, o, u, c, entry) == ExactByID(t, o, u, c, entry) \/ ExactByCount(t, o, u, c, entry)

\* So many copies, the oldest first, and nothing else done to them yet.
RightCount(t, o, u, c, entry) ==
    /\ entry.kind = "quantity"
    /\ Cardinality(CopiesOf(t, u, c)) = entry.quantity
    /\ \A i \in CopiesOf(t, u, c) :
         /\ \A j \in CopiesOf(o, u, c) : j < i => j \in CopiesOf(t, u, c)
         /\ i \in CopiesOf(o, u, c) => t[i] = o[i]

\* The cards that a save at place p, with job j, has yet to write, and those done.
InHandAt(p, j, places) == IF p \in places THEN {j.card} ELSE {}
Ahead(p, j) == j.todo \cup InHandAt(p, j, {"copies", "quantity"})
Reconciled(p, j) ==
    (DOMAIN j.wanted \ j.todo) \ InHandAt(p, j, {"copies", "quantity", "price"})

\* A save that nobody has disturbed since it began to read: what it read is still what
\* there is in the table t, and in m, which is t with its writes, the cards it is
\* done with are as asked and those ahead are as they were.
Undisturbed(p, j) == p \in InTx /\ j.todo # DOMAIN j.wanted /\ ~j.disturbed
OnCourse(p, j, m, t) ==
    /\ \A d \in Cards : j.seen[d] = CopiesOf(t, j.user, d)
    /\ p \in {"copies", "quantity", "price"} => j.card \notin j.todo
    /\ \A d \in Ahead(p, j) : Same(m, t, j.user, d)
    /\ \A d \in Reconciled(p, j) : Exact(m, t, j.user, d, j.wanted[d])
    /\ p = "price" => RightCount(m, t, j.user, j.card, j.wanted[j.card])
SaveInv(r) == Undisturbed(pc[r], job[r]) => OnCourse(pc[r], job[r], Merged(r), table)

\* What a statement of page r that writes these rows makes of the table it sees.
After(r, rows) == [i \in Ids |-> IF i \in DOMAIN rows THEN rows[i] ELSE Merged(r)[i]]

\* Exactness is about the copies of one user and card.
LEMMA SameExact ==
    ASSUME NEW t1, NEW o1, NEW t2, NEW o2, NEW u, NEW c, NEW entry,
           Same(t1, t2, u, c), Same(o1, o2, u, c)
    PROVE  /\ Exact(t2, o2, u, c, entry) => Exact(t1, o1, u, c, entry)
           /\ RightCount(t2, o2, u, c, entry) => RightCount(t1, o1, u, c, entry)
<1> DEFINE T == CopiesOf(t2, u, c)
           O == CopiesOf(o2, u, c)
<1>1. /\ CopiesOf(t1, u, c) = T /\ CopiesOf(o1, u, c) = O
      /\ \A i \in T : t1[i] = t2[i]
      /\ \A i \in O : o1[i] = o2[i]
  BY DEF Same
<1> HIDE DEF T, O
<1>2. ASSUME ExactByID(t2, o2, u, c, entry)
      PROVE  ExactByID(t1, o1, u, c, entry)
  <2>1. /\ entry.kind = "copies" /\ T \cap O = O \cap DOMAIN entry.listed
        /\ \A i \in T \cap O : t2[i].price = entry.listed[i]
        /\ \A p \in Prices : Cardinality({i \in T \ O : t2[i].price = p})
                               = Cardinality({n \in DOMAIN entry.fresh : entry.fresh[n] = p})
    BY <1>2 DEF ExactByID, T, O
  <2>2. \A p : {i \in T \ O : t1[i].price = p} = {i \in T \ O : t2[i].price = p}
    BY <1>1
  <2>3. \A p \in Prices : Cardinality({i \in T \ O : t1[i].price = p})
                            = Cardinality({n \in DOMAIN entry.fresh : entry.fresh[n] = p})
    BY <2>1, <2>2
  <2>4. \A i \in T \cap O : t1[i].price = entry.listed[i]
    BY <1>1, <2>1
  <2> QED
    BY <1>1, <2>1, <2>3, <2>4, Zenon DEF ExactByID
<1>3. ASSUME ExactByCount(t2, o2, u, c, entry)
      PROVE  ExactByCount(t1, o1, u, c, entry)
  BY <1>1, <1>3 DEF ExactByCount, T, O
<1>4. ASSUME RightCount(t2, o2, u, c, entry)
      PROVE  RightCount(t1, o1, u, c, entry)
  BY <1>1, <1>4 DEF RightCount, T, O
<1> QED
  BY <1>2, <1>3, <1>4 DEF Exact

\* States in which the copies of a user and card are the same: any and itself, and a chain.
LEMMA SameSteps ==
    ASSUME NEW t1, NEW t2, NEW t3, NEW u, NEW c
    PROVE  /\ Same(t1, t1, u, c)
           /\ Same(t1, t2, u, c) /\ Same(t2, t3, u, c) => Same(t1, t3, u, c)
BY DEF Same

\* The copies of a user and card are finitely many ids.
LEMMA CopiesFinite ==
    ASSUME NEW t, NEW u, NEW c
    PROVE  /\ IsFiniteSet(CopiesOf(t, u, c)) /\ Cardinality(CopiesOf(t, u, c)) \in Nat
           /\ CopiesOf(t, u, c) \in SUBSET Ids /\ CopiesOf(t, u, c) \in SUBSET Int
<1>1. IsFiniteSet(Ids)
  BY FS_Interval, OwnershipAssumption DEF Ids
<1>2. CopiesOf(t, u, c) \in SUBSET Ids
  BY DEF CopiesOf
<1>3. CopiesOf(t, u, c) \in SUBSET Int
  BY <1>2, OwnershipAssumption DEF Ids
<1> QED
  BY <1>1, <1>2, <1>3, FS_Subset, FS_CardinalityType

\* A statement on the card in hand leaves the other cards on course.
LEMMA CardWritten ==
    ASSUME OwnInv, NEW r \in Pages, pc[r] \in {"copies", "quantity", "price"},
           OnCourse(pc[r], job[r], Merged(r), table),
           NEW rows, NEW to \in {"tx", "price"},
           \A i \in DOMAIN rows : \A row \in {rows[i], Merged(r)[i]} :
              i \in Ids /\ (row = NoRow \/ (row.user = job[r].user /\ row.card = job[r].card)),
           to = "tx" => Exact(After(r, rows), table, job[r].user, job[r].card, Entry(r)),
           to = "price" => RightCount(After(r, rows), table, job[r].user, job[r].card, Entry(r))
    PROVE  OnCourse(to, job[r], After(r, rows), table)
<1> DEFINE j == job[r]
           m == Merged(r)
           n == After(r, rows)
<1>1. /\ j.card \notin j.todo
      /\ \A d \in j.todo : Same(m, table, j.user, d)
      /\ \A d \in (DOMAIN j.wanted \ j.todo) \ {j.card} : Exact(m, table, j.user, d, j.wanted[d])
      /\ \A d \in Cards : j.seen[d] = CopiesOf(table, j.user, d)
  BY DEF OnCourse, Ahead, Reconciled, InHandAt
<1>2. ASSUME NEW d, d # j.card
      PROVE  Same(n, m, j.user, d)
  <2>1. \A i \in Ids : n[i] = IF i \in DOMAIN rows THEN rows[i] ELSE m[i]
    BY DEF After
  <2>2. \A i \in DOMAIN rows : \A row \in {rows[i], m[i]} :
           row = NoRow \/ (row.user = j.user /\ row.card # d)
    BY <1>2
  <2> HIDE DEF n, m, j
  <2> QED
    BY <2>1, <2>2 DEF Same, CopiesOf
<1>3. Entry(r) = j.wanted[j.card]
  BY DEF Entry
<1>4. \A d \in j.todo : Same(n, table, j.user, d)
  BY <1>1, <1>2, SameSteps
<1>5. \A d \in (DOMAIN j.wanted \ j.todo) \ {j.card} : Exact(n, table, j.user, d, j.wanted[d])
  BY <1>1, <1>2, SameSteps, SameExact
<1>6. CASE to = "tx"
  <2>1. Ahead(to, j) = j.todo /\ Reconciled(to, j) = DOMAIN j.wanted \ j.todo
    BY <1>6 DEF Ahead, Reconciled, InHandAt
  <2>2. \A d \in DOMAIN j.wanted \ j.todo : Exact(n, table, j.user, d, j.wanted[d])
    BY <1>3, <1>5, <1>6
  <2> QED
    BY <1>1, <1>4, <1>6, <2>1, <2>2 DEF OnCourse
<1>7. CASE to = "price"
  <2>1. Ahead(to, j) = j.todo /\ Reconciled(to, j) = (DOMAIN j.wanted \ j.todo) \ {j.card}
    BY <1>7 DEF Ahead, Reconciled, InHandAt
  <2> QED
    BY <1>1, <1>3, <1>4, <1>5, <1>7, <2>1 DEF OnCourse
<1> QED
  BY <1>6, <1>7

\* A statement that keeps an undisturbed save on course preserves SaveInv.
LEMMA StatementStep ==
    ASSUME OwnInv, NEW r \in Pages, NEW rows, DOMAIN rows \subseteq Ids, Write(r, rows),
           \A i \in DOMAIN rows : rows[i] = NoRow \/ \E p \in Prices : rows[i] = NewRow(r, p),
           pc[r] \in {"copies", "quantity", "price"},
           NEW to \in {"tx", "price"}, pc' = [pc EXCEPT ![r] = to], UNCHANGED <<table, job>>,
           Undisturbed(pc[r], job[r]) => OnCourse(to, job[r], After(r, rows), table)
    PROVE  SaveInv(r)'
<1>1. pc'[r] = to /\ job'[r] = job[r] /\ table' = table
  BY DEF OwnInv, TypeOK
<1>2. \A i \in DOMAIN rows : rows[i] # Untouched
  BY InHand, OwnershipAssumption DEF NewRow
<1>3. \A i \in Ids : work'[r][i] = IF i \in DOMAIN rows THEN rows[i] ELSE work[r][i]
  BY DEF Write, OwnInv, TypeOK
<1>4. Merged(r)' = After(r, rows)
  BY <1>1, <1>2, <1>3 DEF Merged, After
<1>5. Undisturbed(to, job[r]) => Undisturbed(pc[r], job[r])
  BY DEF Undisturbed, InTx
<1> QED
  BY <1>1, <1>4, <1>5 DEF SaveInv

\* What a save on course has read of the card in hand is there, and untouched.
LEMMA HandOnCourse ==
    ASSUME OwnInv, NEW r \in Pages, pc[r] \in {"copies", "quantity", "price"},
           OnCourse(pc[r], job[r], Merged(r), table)
    PROVE  /\ Mine(r) = CopiesOf(table, job[r].user, job[r].card)
           /\ pc[r] # "price" => Same(Merged(r), table, job[r].user, job[r].card)
           /\ pc[r] = "price" => RightCount(Merged(r), table, job[r].user, job[r].card, Entry(r))
           /\ \A i \in Mine(r) : i \in Ids /\ i <= minted /\ table[i] # NoRow
           /\ \A i \in Ids : i > minted => table[i] = NoRow /\ Merged(r)[i] = NoRow
<1>1. job[r].card \in Cards
  BY InHand
<1>2. Mine(r) = CopiesOf(table, job[r].user, job[r].card)
  BY <1>1 DEF OnCourse, Mine
<1>3. \A i \in Mine(r) : i \in Ids /\ i <= minted /\ table[i] # NoRow
  BY <1>2, InHand DEF CopiesOf
<1>4. \A i \in Ids : i \in Int /\ minted \in Int
  BY OwnershipAssumption DEF Ids, OwnInv, TypeOK
<1>5. ASSUME NEW i \in Ids, i > minted
      PROVE  table[i] = NoRow /\ Merged(r)[i] = NoRow
  <2>1. i \notin ever /\ ~(i <= minted)
    BY <1>4, <1>5 DEF OwnInv, TypeOK
  <2>2. table[i] = NoRow /\ work[r][i] = Untouched
    BY <2>1 DEF OwnInv, TableInEver, WorkIsOwn
  <2> QED
    BY <2>2 DEF Merged
<1> QED
  BY <1>2, <1>3, <1>5 DEF OnCourse, Ahead, InHandAt, Entry

\* Reconciling by id makes the card in hand exact.
LEMMA WriteCopiesSave ==
    ASSUME OwnInv, NEW r \in Pages, SaveInv(r), WriteCopies(r)
    PROVE  SaveInv(r)'
<1> DEFINE entry == Entry(r)
           gone == {i \in Unlisted(r) : table[i] # NoRow}
           new == NewIds(Len(entry.fresh))
           rows == [i \in gone \cup Updated(r) \cup new |->
                     IF i \in new THEN NewRow(r, entry.fresh[i - minted])
                     ELSE IF i \in Updated(r) THEN NewRow(r, entry.listed[i]) ELSE NoRow]
           u == job[r].user
           c == job[r].card
           S == Mine(r)
           n == After(r, rows)
<1>1. /\ pc[r] = "copies" /\ pc' = [pc EXCEPT ![r] = "tx"] /\ minted + Len(entry.fresh) <= MaxCopies
      /\ Write(r, rows) /\ UNCHANGED <<table, job>>
  BY DEF WriteCopies, db
<1>2. entry \in ByID(Ids) /\ entry.kind = "copies"
  BY <1>1, InHand DEF ByID
<1>3. /\ minted \in Nat /\ MaxCopies \in Nat /\ Len(entry.fresh) \in Nat
      /\ DOMAIN entry.fresh = 1..Len(entry.fresh)
      /\ \A k \in 1..Len(entry.fresh) : entry.fresh[k] \in Prices
  BY <1>2, FreshType, OwnershipAssumption DEF OwnInv, TypeOK
<1>4. /\ \A i \in new : i \in Int /\ i > minted /\ i \in Ids
      /\ \A i \in new : entry.fresh[i - minted] \in Prices
  BY <1>1, <1>3 DEF NewIds, Ids
<1>5. \A i \in DOMAIN entry.listed : entry.listed[i] \in Prices
  BY <1>2 DEF ByID
<1>6. gone = {i \in S : i \notin DOMAIN entry.listed /\ table[i] # NoRow}
  BY DEF Unlisted
<1>7. Updated(r) = {i \in S : i \in DOMAIN entry.listed /\ table[i] # NoRow}
  BY DEF Updated
<1>8. DOMAIN rows = gone \cup Updated(r) \cup new
  OBVIOUS
<1>9. /\ \A i \in new : rows[i] = NewRow(r, entry.fresh[i - minted])
      /\ \A i \in Updated(r) : i \notin new => rows[i] = NewRow(r, entry.listed[i])
      /\ \A i \in gone : i \notin new /\ i \notin Updated(r) => rows[i] = NoRow
  OBVIOUS
<1> HIDE DEF rows, gone, new, entry
<1>10. \A i \in S : i \in Ids /\ i <= minted /\ i \in Int /\ i \notin new
  <2>1. \A i \in S : i \in Ids /\ i <= minted
    BY <1>1, InHand
  <2>2. \A i \in Ids : i \in Int
    BY OwnershipAssumption DEF Ids
  <2> QED
    BY <1>3, <1>4, <2>1, <2>2
<1>11. DOMAIN rows \subseteq Ids
  BY <1>4, <1>6, <1>7, <1>8, <1>10
<1>12. \A i \in DOMAIN rows : rows[i] = NoRow \/ \E p \in Prices : rows[i] = NewRow(r, p)
  BY <1>4, <1>5, <1>6, <1>7, <1>8, <1>9, <1>10
<1>13. ASSUME Undisturbed(pc[r], job[r])
       PROVE  OnCourse("tx", job[r], n, table)
  <2>1. OnCourse(pc[r], job[r], Merged(r), table)
    BY <1>13 DEF SaveInv
  <2>2. /\ S = CopiesOf(table, u, c) /\ Same(Merged(r), table, u, c)
        /\ \A i \in S : table[i] # NoRow
        /\ \A i \in new : table[i] = NoRow /\ Merged(r)[i] = NoRow
    BY <1>1, <1>4, <2>1, HandOnCourse
  <2>3. /\ gone = S \ DOMAIN entry.listed /\ Updated(r) = S \cap DOMAIN entry.listed
        /\ \A i \in S : Merged(r)[i] = table[i]
        /\ \A i \in Ids : i \notin S => i \notin CopiesOf(Merged(r), u, c)
    BY <1>6, <1>7, <2>2 DEF Same
  <2>4. /\ \A i \in new : n[i] = NewRow(r, entry.fresh[i - minted])
        /\ \A i \in S \cap DOMAIN entry.listed : n[i] = NewRow(r, entry.listed[i])
        /\ \A i \in S \ DOMAIN entry.listed : n[i] = NoRow
        /\ \A i \in Ids : i \notin S /\ i \notin new => n[i] = Merged(r)[i]
    BY <1>4, <1>8, <1>9, <1>10, <2>3 DEF After
  <2>5. \A p \in Prices : LET row == NewRow(r, p) IN
           row # NoRow /\ row.user = u /\ row.card = c /\ row.price = p
    BY <1>1, InHand, OwnershipAssumption DEF NewRow
  <2>6. CopiesOf(n, u, c) = (S \cap DOMAIN entry.listed) \cup new
    <3>1. \A i \in new \cup (S \cap DOMAIN entry.listed) : n[i] # NoRow /\ n[i].user = u /\ n[i].card = c
      BY <1>4, <1>5, <2>4, <2>5
    <3>2. \A i \in Ids : i \in CopiesOf(n, u, c) <=> n[i] # NoRow /\ n[i].user = u /\ n[i].card = c
      BY DEF CopiesOf
    <3>3. \A i \in Ids : i \in CopiesOf(Merged(r), u, c) <=>
             Merged(r)[i] # NoRow /\ Merged(r)[i].user = u /\ Merged(r)[i].card = c
      BY DEF CopiesOf
    <3>4. \A i \in CopiesOf(n, u, c) : i \in Ids
      BY DEF CopiesOf
    <3> HIDE DEF n, u, c, S
    <3> QED
      BY <1>4, <1>10, <2>3, <2>4, <3>1, <3>2, <3>3, <3>4
  <2>7. ExactByID(n, table, u, c, entry)
    <3>1. \A i \in S \cap DOMAIN entry.listed : n[i].price = entry.listed[i]
      BY <1>5, <2>4, <2>5
    <3>2. \A i \in new : n[i].price = entry.fresh[i - minted]
      BY <1>4, <2>4, <2>5
    <3>3. CopiesOf(n, u, c) \cap CopiesOf(table, u, c) = S \cap DOMAIN entry.listed
      BY <1>10, <2>2, <2>6
    <3>4. CopiesOf(n, u, c) \ CopiesOf(table, u, c) = new
      BY <1>10, <2>2, <2>6
    <3>5. ASSUME NEW p \in Prices
          PROVE  Cardinality({i \in new : n[i].price = p})
                   = Cardinality({k \in DOMAIN entry.fresh : entry.fresh[k] = p})
      <4>1. {i \in new : n[i].price = p}
              = {i \in (minted + 1)..(minted + Len(entry.fresh)) : entry.fresh[i - minted] = p}
        BY <3>2 DEF new, NewIds
      <4> DEFINE f == entry.fresh
                 L == Len(f)
                 A == {i \in new : n[i].price = p}
                 B == {k \in DOMAIN f : f[k] = p}
      <4>2. minted \in Nat /\ L \in Nat /\ DOMAIN f = 1..L
        BY <1>3
      <4>3. \A i : i \in A <=> i \in (minted + 1)..(minted + L) /\ f[i - minted] = p
        BY <4>1
      <4>4. \A k : k \in B <=> k \in 1..L /\ f[k] = p
        BY <4>2
      <4> HIDE DEF f, L, A, B
      <4>5. Numbered(A, B, minted, L, f, p)
        BY <4>3, <4>4, Zenon DEF Numbered
      <4>6. Cardinality(A) = Cardinality(B)
        BY <4>2, <4>5, NewCount
      <4> QED
        BY <4>6 DEF A, B, f
    <3> HIDE DEF n, u, c
    <3> QED
      BY <1>2, <2>2, <3>1, <3>3, <3>4, <3>5 DEF ExactByID
  <2>8. \A i \in DOMAIN rows : \A row \in {rows[i], Merged(r)[i]} :
           i \in Ids /\ (row = NoRow \/ (row.user = u /\ row.card = c))
    <3>1. \A i \in DOMAIN rows : rows[i] = NoRow \/ (rows[i].user = u /\ rows[i].card = c)
      BY <1>12, <2>5
    <3>2. \A i \in S : Merged(r)[i].user = u /\ Merged(r)[i].card = c
      BY <2>2, <2>3 DEF CopiesOf
    <3> QED
      BY <1>8, <1>11, <2>2, <2>3, <3>1, <3>2
  <2> HIDE DEF n
  <2> QED
    BY <1>1, <2>1, <2>7, <2>8, CardWritten DEF Exact, entry, n
<1> QED
  BY <1>1, <1>11, <1>12, <1>13, StatementStep

\* Reconciling by count leaves the right count, and is exact when that is zero.
LEMMA AdjustQuantitySave ==
    ASSUME OwnInv, NEW r \in Pages, SaveInv(r), AdjustQuantity(r)
    PROVE  SaveInv(r)'
<1> DEFINE have == Cardinality(Mine(r))
           want == Entry(r).quantity
           new == IF want > have THEN NewIds(want - have) ELSE {}
           gone == IF want < have THEN ToRemove(have - want, Mine(r)) ELSE {}
           rows == [i \in {j \in gone : table[j] # NoRow} \cup new |->
                     IF i \in new THEN NewRow(r, NoPrice) ELSE NoRow]
           to == IF want = 0 THEN "tx" ELSE "price"
           u == job[r].user
           c == job[r].card
           S == Mine(r)
           n == After(r, rows)
<1>1. /\ pc[r] = "quantity" /\ pc' = [pc EXCEPT ![r] = to] /\ minted + Cardinality(new) <= MaxCopies
      /\ Write(r, rows) /\ UNCHANGED <<table, job>>
  BY DEF AdjustQuantity, db
<1>2. minted \in Nat /\ MaxCopies \in Nat
  BY OwnershipAssumption DEF OwnInv, TypeOK
<1>3. want \in Nat /\ Entry(r).kind = "quantity"
  BY <1>1, InHand, OwnershipAssumption DEF ByCount
<1>4. /\ IsFiniteSet(S) /\ have \in Nat /\ S \in SUBSET Int
      /\ \A i \in S : i \in Ids /\ i <= minted
  <2>1. \A i \in S : i \in Ids /\ i <= minted
    BY <1>1, InHand
  <2>2. IsFiniteSet(Ids) /\ Ids \in SUBSET Int
    BY <1>2, FS_Interval DEF Ids
  <2>3. S \in SUBSET Ids
    BY <2>1
  <2> HIDE DEF S
  <2> QED
    BY <2>1, <2>2, <2>3, FS_Subset, FS_CardinalityType DEF S
<1>5. /\ IsFiniteSet(new)
      /\ Cardinality(new) = IF want > have THEN want - have ELSE 0
      /\ \A i \in new : i \in Int /\ i > minted /\ i <= minted + Cardinality(new)
  <2>1. CASE want > have
    <3>1. new = (minted + 1)..(minted + (want - have))
      BY <2>1 DEF NewIds
    <3>2. minted + 1 \in Int /\ minted + (want - have) \in Int
      BY <1>2, <1>3, <1>4
    <3>3. /\ IsFiniteSet((minted + 1)..(minted + (want - have)))
          /\ Cardinality((minted + 1)..(minted + (want - have))) =
              IF minted + 1 > minted + (want - have) THEN 0
              ELSE (minted + (want - have)) - (minted + 1) + 1
      BY <3>2, FS_Interval
    <3> HIDE DEF have, want, new
    <3>4. Cardinality(new) = want - have
      BY <1>2, <1>3, <1>4, <2>1, <3>1, <3>3 DEF have, want
    <3>5. \A i \in new : i \in Int /\ i > minted /\ i <= minted + (want - have)
      BY <1>2, <3>1, <3>2
    <3> QED
      BY <2>1, <3>1, <3>3, <3>4, <3>5
  <2>2. CASE ~(want > have)
    BY <2>2, FS_EmptySet
  <2> QED
    BY <2>1, <2>2
<1>6. /\ gone \subseteq S
      /\ Cardinality(gone) = IF want < have THEN have - want ELSE 0
      /\ \A i \in gone, j \in S : j > i => j \in gone
  <2>1. CASE want < have
    <3>1. gone = Newest(have - want, S)
      BY <2>1 DEF ToRemove
    <3>2. have - want \in Nat /\ have - want <= Cardinality(S)
      BY <1>3, <1>4, <2>1
    <3> DEFINE k == have - want
    <3> HIDE DEF k, gone, S, want, have
    <3>3. k \in Nat /\ k <= Cardinality(S) /\ gone = Newest(k, S)
      BY <3>1, <3>2 DEF k
    <3>4. /\ Newest(k, S) \subseteq S /\ Cardinality(Newest(k, S)) = k
          /\ \A i \in Newest(k, S), j \in S : j > i => j \in Newest(k, S)
      BY <1>4, <3>3, NewestCount
    <3> QED
      BY <2>1, <3>3, <3>4, Zenon DEF k
  <2>2. CASE ~(want < have)
    BY <2>2, FS_EmptySet
  <2> QED
    BY <2>1, <2>2
<1>7. /\ DOMAIN rows = {j \in gone : table[j] # NoRow} \cup new
      /\ \A i \in new : rows[i] = NewRow(r, NoPrice)
      /\ \A i \in DOMAIN rows : i \notin new => rows[i] = NoRow
  OBVIOUS
<1>8. to \in {"tx", "price"} /\ (to = "tx" <=> want = 0)
  OBVIOUS
<1>9. /\ want > have => gone = {}
      /\ ~(want > have) => new = {}
  BY <1>3, <1>4
<1> HIDE DEF rows, gone, new, to, have, want
<1>10. \A i \in new : i \in Ids /\ i \notin S
  BY <1>1, <1>2, <1>3, <1>4, <1>5 DEF Ids
<1>11. DOMAIN rows \subseteq Ids
  BY <1>4, <1>6, <1>7, <1>10
<1>12. \A i \in DOMAIN rows : rows[i] = NoRow \/ \E p \in Prices : rows[i] = NewRow(r, p)
  BY <1>7, OwnershipAssumption
<1>13. ASSUME Undisturbed(pc[r], job[r])
       PROVE  OnCourse(to, job[r], n, table)
  <2>1. OnCourse(pc[r], job[r], Merged(r), table)
    BY <1>13 DEF SaveInv
  <2>2. /\ S = CopiesOf(table, u, c) /\ Same(Merged(r), table, u, c)
        /\ \A i \in S : table[i] # NoRow
        /\ \A i \in new : table[i] = NoRow /\ Merged(r)[i] = NoRow
    BY <1>1, <1>5, <1>10, <2>1, HandOnCourse
  <2>3. /\ \A i \in S : Merged(r)[i] = table[i]
        /\ \A i \in Ids : i \notin S => i \notin CopiesOf(Merged(r), u, c)
        /\ DOMAIN rows = gone \cup new
    BY <1>6, <1>7, <2>2 DEF Same
  <2>4. /\ \A i \in new : n[i] = NewRow(r, NoPrice)
        /\ \A i \in gone : n[i] = NoRow
        /\ \A i \in Ids : i \notin gone /\ i \notin new => n[i] = Merged(r)[i]
    BY <1>4, <1>6, <1>7, <1>10, <2>3 DEF After
  <2>5. \A p \in Prices : LET row == NewRow(r, p) IN row # NoRow /\ row.user = u /\ row.card = c
    BY <1>1, InHand, OwnershipAssumption DEF NewRow
  <2>6. CopiesOf(n, u, c) = (S \ gone) \cup new
    <3>1. \A i \in new : n[i] # NoRow /\ n[i].user = u /\ n[i].card = c
      BY <2>4, <2>5, OwnershipAssumption
    <3>2. \A i \in S : table[i] # NoRow /\ table[i].user = u /\ table[i].card = c
      BY <2>2 DEF CopiesOf
    <3>3. \A i \in Ids : i \in CopiesOf(n, u, c) <=> n[i] # NoRow /\ n[i].user = u /\ n[i].card = c
      BY DEF CopiesOf
    <3>4. \A i \in Ids : i \in CopiesOf(Merged(r), u, c) <=>
             Merged(r)[i] # NoRow /\ Merged(r)[i].user = u /\ Merged(r)[i].card = c
      BY DEF CopiesOf
    <3>5. \A i \in CopiesOf(n, u, c) : i \in Ids
      BY DEF CopiesOf
    <3> HIDE DEF n, u, c, S
    <3>6. ASSUME NEW i \in CopiesOf(n, u, c)
          PROVE  i \in (S \ gone) \cup new
      <4>1. i \in Ids /\ n[i] # NoRow /\ n[i].user = u /\ n[i].card = c
        BY <3>3, <3>5
      <4>2. i \notin gone
        BY <2>4, <4>1
      <4>3. ASSUME i \notin new, i \notin S
            PROVE  FALSE
        BY <2>3, <2>4, <3>4, <4>1, <4>2, <4>3
      <4> QED
        BY <4>2, <4>3
    <3>7. ASSUME NEW i \in S, i \notin gone
          PROVE  i \in CopiesOf(n, u, c)
      <4>1. i \in Ids /\ i \notin new
        BY <1>4, <1>10
      <4>2. n[i] = table[i]
        BY <2>3, <2>4, <3>7, <4>1
      <4> QED
        BY <3>2, <3>3, <4>1, <4>2
    <3>8. \A i \in new : i \in CopiesOf(n, u, c)
      BY <1>10, <3>1, <3>3
    <3> QED
      BY <3>6, <3>7, <3>8
  <2>7. Cardinality(CopiesOf(n, u, c)) = want
    <3>1. CASE want > have
      <4>1. CopiesOf(n, u, c) = S \cup new /\ S \cap new = {}
        BY <1>9, <1>10, <2>6, <3>1
      <4>2. Cardinality(S \cup new) = Cardinality(S) + Cardinality(new) - Cardinality(S \cap new)
        BY <1>4, <1>5, FS_Union
      <4> HIDE DEF n, u, c, S
      <4>3. /\ Cardinality(S) = have /\ Cardinality(new) = want - have
            /\ Cardinality(S \cap new) = 0
        BY <1>5, <3>1, <4>1, FS_EmptySet DEF have, S
      <4> QED
        BY <1>3, <1>4, <4>1, <4>2, <4>3
    <3>2. CASE ~(want > have)
      <4>1. CopiesOf(n, u, c) = S \ gone /\ S \cap gone = gone
        BY <1>6, <1>9, <2>6, <3>2
      <4>2. Cardinality(S \ gone) = Cardinality(S) - Cardinality(S \cap gone)
        BY <1>4, FS_Difference
      <4> QED
        BY <1>3, <1>4, <1>6, <3>2, <4>1, <4>2 DEF have
    <3> QED
      BY <3>1, <3>2
  <2>8. RightCount(n, table, u, c, Entry(r))
    <3>1. ASSUME NEW i \in CopiesOf(n, u, c)
          PROVE  /\ \A j \in S : j < i => j \in CopiesOf(n, u, c)
                 /\ i \in S => n[i] = table[i]
      <4>1. ASSUME NEW j \in S, j < i, j \in gone
            PROVE  FALSE
        <5>1. i \in S /\ i \notin gone
          BY <1>6, <1>9, <2>6, <4>1
        <5>2. i > j
          BY <1>4, <4>1, <5>1
        <5> QED
          BY <1>6, <4>1, <5>1, <5>2
      <4>2. i \in S => n[i] = table[i]
        BY <1>4, <1>10, <2>3, <2>4, <2>6
      <4> QED
        BY <2>6, <4>1, <4>2
    <3> HIDE DEF n, u, c, S
    <3> QED
      BY <1>3, <2>2, <2>7, <3>1 DEF RightCount, want
  <2>9. want = 0 => Exact(n, table, u, c, Entry(r))
    <3>1. ASSUME want = 0 PROVE CopiesOf(n, u, c) = {}
      BY <2>7, <3>1, CopiesFinite, FS_EmptySet
    <3> HIDE DEF n, u, c
    <3> QED
      BY <2>8, <3>1 DEF RightCount, Exact, ExactByCount
  <2>10. \A i \in DOMAIN rows : \A row \in {rows[i], Merged(r)[i]} :
           i \in Ids /\ (row = NoRow \/ (row.user = u /\ row.card = c))
    <3>1. \A i \in DOMAIN rows : rows[i] = NoRow \/ (rows[i].user = u /\ rows[i].card = c)
      BY <1>12, <2>5
    <3>2. \A i \in S : Merged(r)[i].user = u /\ Merged(r)[i].card = c
      BY <2>2, <2>3 DEF CopiesOf
    <3> QED
      BY <1>6, <1>11, <2>2, <2>3, <3>1, <3>2
  <2> HIDE DEF n
  <2> QED
    BY <1>1, <1>8, <2>1, <2>8, <2>9, <2>10, CardWritten DEF n
<1> QED
  BY <1>1, <1>8, <1>11, <1>12, <1>13, StatementStep

\* The last of some copies is the one that none is newer than.
LEMMA LastIs ==
    ASSUME NEW S \in SUBSET Int, IsFiniteSet(S)
    PROVE  \A i \in S : i \in Last(S) <=> \A j \in S : ~(j > i)
<1> SUFFICES ASSUME NEW i \in S
             PROVE  i \in Last(S) <=> \A j \in S : ~(j > i)
  OBVIOUS
<1> DEFINE above == {j \in S : j > i}
<1>1. i \in Last(S) <=> Cardinality(above) < 1
  BY DEF Last, Newest
<1>2. above \in SUBSET S
  OBVIOUS
<1>3. above = {} <=> \A j \in S : ~(j > i)
  OBVIOUS
<1> HIDE DEF above
<1>4. IsFiniteSet(above) /\ Cardinality(above) \in Nat
  BY <1>2, FS_Subset, FS_CardinalityType
<1>5. Cardinality(above) = 0 <=> above = {}
  BY <1>4, FS_EmptySet
<1> QED
  BY <1>1, <1>3, <1>4, <1>5

\* Pricing the newest copy makes a card with the right count exact.
LEMMA SetNewestPriceSave ==
    ASSUME OwnInv, NEW r \in Pages, SaveInv(r), SetNewestPrice(r)
    PROVE  SaveInv(r)'
<1> DEFINE u == job[r].user
           c == job[r].card
           m == Merged(r)
           now == CopiesOf(m, u, c)
           price == Entry(r).price
           rows == [i \in Last(now) |-> NewRow(r, price)]
           n == After(r, rows)
<1>1. /\ pc[r] = "price" /\ pc' = [pc EXCEPT ![r] = "tx"]
      /\ Write(r, rows) /\ UNCHANGED <<table, job>>
  BY DEF SetNewestPrice, db
<1>2. /\ price \in Prices
      /\ NewRow(r, price).user = u /\ NewRow(r, price).card = c /\ NewRow(r, price).price = price
      /\ NewRow(r, price) # NoRow
  BY <1>1, InHand, OwnershipAssumption DEF ByCount, NewRow
<1>3. /\ IsFiniteSet(now) /\ now \in SUBSET Ids /\ now \in SUBSET Int
  BY CopiesFinite
<1>4. /\ \A i \in now : i \in Last(now) <=> \A j \in now : ~(j > i)
      /\ Last(now) \subseteq now
  <2> HIDE DEF now
  <2> QED
    BY <1>3, LastIs DEF Last, Newest
<1>5. DOMAIN rows = Last(now) /\ \A i \in DOMAIN rows : rows[i] = NewRow(r, price)
  OBVIOUS
<1> HIDE DEF rows, price
<1>6. /\ DOMAIN rows \subseteq Ids
      /\ \A i \in DOMAIN rows : rows[i] = NoRow \/ \E p \in Prices : rows[i] = NewRow(r, p)
  BY <1>2, <1>3, <1>4, <1>5
<1>7. ASSUME Undisturbed(pc[r], job[r])
      PROVE  OnCourse("tx", job[r], n, table)
  <2>1. OnCourse(pc[r], job[r], m, table)
    BY <1>7 DEF SaveInv
  <2>2. RightCount(m, table, u, c, Entry(r))
    BY <1>1, <2>1, HandOnCourse
  <2>3. \A i \in now : m[i] # NoRow /\ m[i].user = u /\ m[i].card = c
    BY DEF CopiesOf
  <2>4. \A i \in Ids : n[i] = IF i \in Last(now) THEN NewRow(r, price) ELSE m[i]
    BY <1>5 DEF After
  <2> HIDE DEF m, n
  <2>5. CopiesOf(n, u, c) = now
    <3>1. \A i \in Ids : i \in CopiesOf(n, u, c) <=> n[i] # NoRow /\ n[i].user = u /\ n[i].card = c
      BY DEF CopiesOf
    <3>2. \A i \in Ids : i \in now <=> m[i] # NoRow /\ m[i].user = u /\ m[i].card = c
      BY DEF CopiesOf
    <3>3. \A i \in CopiesOf(n, u, c) : i \in Ids
      BY DEF CopiesOf
    <3> HIDE DEF now, u, c
    <3>4. ASSUME NEW i \in Ids
          PROVE  i \in CopiesOf(n, u, c) <=> i \in now
      <4>1. CASE i \in Last(now)
        <5>1. i \in now /\ n[i] = NewRow(r, price)
          BY <1>4, <2>4, <4>1
        <5> QED
          BY <1>2, <3>1, <5>1
      <4>2. CASE i \notin Last(now)
        BY <2>4, <3>1, <3>2, <4>2
      <4> QED
        BY <4>1, <4>2
    <3> QED
      BY <1>3, <3>3, <3>4
  <2>6. ExactByCount(n, table, u, c, Entry(r))
    <3>1. /\ Entry(r).kind = "quantity" /\ Cardinality(now) = Entry(r).quantity
          /\ \A i \in now : /\ \A j \in CopiesOf(table, u, c) : j < i => j \in now
                            /\ i \in CopiesOf(table, u, c) => m[i] = table[i]
      BY <2>2 DEF RightCount
    <3>2. ASSUME NEW i \in now, \A j \in now : j <= i
          PROVE  n[i].price = price
      <4>1. \A j \in now : ~(j > i)
        BY <1>3, <3>2
      <4> QED
        BY <1>2, <1>3, <1>4, <2>4, <4>1
    <3>3. ASSUME NEW i \in now, i \in CopiesOf(table, u, c), \E j \in now : j > i
          PROVE  n[i] = table[i]
      <4>1. i \notin Last(now)
        BY <1>4, <3>3
      <4> QED
        BY <1>3, <2>4, <3>1, <3>3, <4>1
    <3> HIDE DEF now, u, c
    <3> QED
      BY <2>5, <3>1, <3>2, <3>3 DEF ExactByCount, price
  <2>7. \A i \in DOMAIN rows : \A row \in {rows[i], m[i]} :
           i \in Ids /\ (row = NoRow \/ (row.user = u /\ row.card = c))
    BY <1>2, <1>4, <1>5, <1>6, <2>3
  <2> QED
    BY <1>1, <2>1, <2>6, <2>7, CardWritten DEF Exact, m, n
<1> QED
  BY <1>1, <1>6, <1>7, StatementStep

\* The first read of a save puts it on course, and the next ones leave it there.
LEMMA ReadSave ==
    ASSUME OwnInv, NEW r \in Pages, ReadBefore(r), SaveInv(r), NEW c \in Cards, Read(r, c)
    PROVE  SaveInv(r)'
<1> DEFINE first == job[r].todo = DOMAIN job[r].wanted
           seen == IF first THEN [d \in Cards |-> Visible(job[r].user, d)] ELSE job[r].seen
           moved == job[r].disturbed /\ ~first
           j1 == [job[r] EXCEPT !.card = c, !.todo = @ \ {c}]
           j == [j1 EXCEPT !.seen = seen, !.disturbed = moved]
           to == IF job[r].wanted[c].kind = "copies" THEN "copies" ELSE "quantity"
           m == Merged(r)
           u == job[r].user
<1>1. /\ pc[r] = "tx" /\ c \in job[r].todo /\ job[r].todo \subseteq DOMAIN job[r].wanted
      /\ pc'[r] = to /\ job'[r] = j /\ UNCHANGED <<table, work>>
  <2>1. pc[r] = "tx" /\ c \in job[r].todo /\ pc' = [pc EXCEPT ![r] = to] /\ UNCHANGED <<table, work>>
    BY Zenon DEF Read, db
  <2>2. job' = [job EXCEPT ![r] = j]
    BY Zenon DEF Read
  <2> HIDE DEF j, to
  <2>3. pc'[r] = to /\ job'[r] = j
    BY <2>1, <2>2 DEF OwnInv, TypeOK
  <2> QED
    BY <2>1, <2>3 DEF OwnInv, CardInHand, InTx
<1>2. to \in {"copies", "quantity"}
  OBVIOUS
<1>3. /\ j.user = u /\ j.card = c /\ j.wanted = job[r].wanted /\ j.todo = job[r].todo \ {c}
      /\ j.seen = seen /\ j.disturbed = moved
  <2>1. job[r] \in Jobs
    BY DEF OwnInv, TypeOK
  <2>2. /\ j1 \in Jobs /\ j1.card = c /\ j1.user = u
        /\ j1.wanted = job[r].wanted /\ j1.todo = job[r].todo \ {c}
    BY <2>1 DEF Jobs
  <2> HIDE DEF j1, seen, moved
  <2> QED
    BY <2>2 DEF Jobs
<1>4. Merged(r)' = m
  BY <1>1 DEF Merged
<1>5. first => \A d \in Cards : seen[d] = CopiesOf(table, u, d)
  BY DEF Visible
<1>6. ~first => seen = job[r].seen
  OBVIOUS
<1>7. ~moved => first \/ ~job[r].disturbed
  OBVIOUS
<1> HIDE DEF j, to, seen, moved
<1>8. /\ Ahead(to, j) = job[r].todo
      /\ Reconciled(to, j) = DOMAIN job[r].wanted \ job[r].todo
  BY <1>1, <1>2, <1>3 DEF Ahead, Reconciled, InHandAt
<1>9. CASE first
  <2>1. \A i \in Ids : m[i] = table[i]
    <3>1. WrittenBy(r) = {}
      BY <1>9 DEF ReadBefore
    <3> QED
      BY <3>1 DEF WrittenBy, Merged
  <2>2. \A d : Same(m, table, u, d)
    <3> HIDE DEF m
    <3> QED
      BY <2>1 DEF Same, CopiesOf
  <2>3. OnCourse(to, j, m, table)
    BY <1>2, <1>3, <1>5, <1>8, <1>9, <2>2 DEF OnCourse
  <2> QED
    BY <1>1, <1>4, <2>3 DEF SaveInv
<1>10. CASE ~first
  <2> SUFFICES ASSUME Undisturbed(to, j)
               PROVE  OnCourse(to, j, m, table)
    BY <1>1, <1>4 DEF SaveInv
  <2>1. Undisturbed(pc[r], job[r])
    BY <1>1, <1>3, <1>7, <1>10 DEF Undisturbed, InTx
  <2>2. OnCourse("tx", job[r], m, table)
    BY <1>1, <2>1 DEF SaveInv
  <2>3. /\ Ahead("tx", job[r]) = job[r].todo
        /\ Reconciled("tx", job[r]) = DOMAIN job[r].wanted \ job[r].todo
    BY DEF Ahead, Reconciled, InHandAt
  <2>4. /\ \A d \in Cards : job[r].seen[d] = CopiesOf(table, u, d)
        /\ \A d \in job[r].todo : Same(m, table, u, d)
        /\ \A d \in DOMAIN job[r].wanted \ job[r].todo : Exact(m, table, u, d, job[r].wanted[d])
    BY <2>2, <2>3 DEF OnCourse
  <2> HIDE DEF m, u
  <2> QED
    BY <1>2, <1>3, <1>6, <1>8, <1>10, <2>4 DEF OnCourse
<1> QED
  BY <1>9, <1>10

\* A save stays on course when the copies of its user stay as they are.
LEMMA StaysOnCourse ==
    ASSUME NEW p, NEW j, NEW k, NEW m, NEW n, NEW t, NEW o, OnCourse(p, j, m, t),
           k.user = j.user, k.seen = j.seen, k.card = j.card, k.todo = j.todo, k.wanted = j.wanted,
           j.todo \subseteq Cards, DOMAIN j.wanted \subseteq Cards,
           p \in {"copies", "quantity", "price"} => j.card \in Cards,
           \A d \in Cards : Same(n, m, j.user, d) /\ Same(o, t, j.user, d) /\ Same(t, o, j.user, d)
    PROVE  OnCourse(p, k, n, o)
<1>1. /\ Ahead(p, k) = Ahead(p, j) /\ Reconciled(p, k) = Reconciled(p, j)
      /\ Ahead(p, j) \subseteq Cards /\ Reconciled(p, j) \subseteq Cards
  BY DEF Ahead, Reconciled, InHandAt
<1>2. \A d \in Cards : CopiesOf(o, j.user, d) = CopiesOf(t, j.user, d)
  BY DEF Same
<1>3. \A d \in Ahead(p, j) : Same(n, o, j.user, d)
  <2>1. ASSUME NEW d \in Ahead(p, j)
        PROVE  Same(n, o, j.user, d)
    <3>1. Same(m, t, j.user, d) /\ Same(n, m, j.user, d) /\ Same(t, o, j.user, d)
      BY <1>1 DEF OnCourse
    <3>2. Same(n, t, j.user, d)
      BY <3>1, SameSteps
    <3> QED
      BY <3>1, <3>2, SameSteps
  <2> QED
    BY <2>1
<1>4. \A d \in Reconciled(p, j) : Exact(n, o, j.user, d, j.wanted[d])
  BY <1>1, SameExact DEF OnCourse
<1>5. p = "price" => RightCount(n, o, j.user, j.card, j.wanted[j.card])
  BY SameExact DEF OnCourse
<1>6. /\ \A d \in Cards : j.seen[d] = CopiesOf(t, j.user, d)
      /\ p \in {"copies", "quantity", "price"} => j.card \notin j.todo
  BY DEF OnCourse
<1> QED
  BY <1>1, <1>2, <1>3, <1>4, <1>5, <1>6 DEF OnCourse

\* A step of another page that leaves the table leaves a save on course.
LEMMA SaveOthers ==
    ASSUME NEW q \in Pages, SaveInv(q), UNCHANGED table,
           pc'[q] = pc[q], job'[q] = job[q], work'[q] = work[q]
    PROVE  SaveInv(q)'
<1>1. Merged(q)' = Merged(q)
  BY DEF Merged
<1> QED
  BY <1>1 DEF SaveInv

\* So does a commit, or a removal, of another page that does not concern its user.
LEMMA SaveStore ==
    ASSUME OwnInv, NEW r \in Pages, NEW q \in Pages \ {r}, SaveInv(q), NEW t, NEW j, Store(r, t, j),
           pc'[q] = pc[q], work'[q] = work[q]
    PROVE  SaveInv(q)'
<1> DEFINE u == job[q].user
           m == Merged(q)
           n == Merged(q)'
           k == job'[q]
<1>1. /\ table' = t
      /\ k = [job[q] EXCEPT !.disturbed = @ \/ (pc[q] \in InTx /\ Concerns(t, u))]
  BY DEF Store
<1>2. job[q] \in Jobs
  BY DEF OwnInv, TypeOK
<1>3. /\ k.user = u /\ k.seen = job[q].seen /\ k.card = job[q].card /\ k.todo = job[q].todo
      /\ k.wanted = job[q].wanted
      /\ k.disturbed = (job[q].disturbed \/ (pc[q] \in InTx /\ Concerns(t, u)))
  <2> HIDE DEF u
  <2> QED
    BY <1>1, <1>2 DEF Jobs, u
<1> SUFFICES ASSUME Undisturbed(pc[q], k)
             PROVE  OnCourse(pc[q], k, n, t)
  BY <1>1 DEF SaveInv
<1>4. ~Concerns(t, u) /\ Undisturbed(pc[q], job[q])
  BY <1>3 DEF Undisturbed
<1>5. OnCourse(pc[q], job[q], m, table)
  BY <1>4 DEF SaveInv
<1>6. \A i \in Ids, d \in Cards : i \in CopiesOf(t, u, d) \/ i \in CopiesOf(table, u, d) => t[i] = table[i]
  BY <1>4 DEF Concerns
<1>7. \A i \in Ids : /\ m[i] = IF work[q][i] = Untouched THEN table[i] ELSE work[q][i]
                     /\ n[i] = IF work[q][i] = Untouched THEN t[i] ELSE work[q][i]
  BY <1>1 DEF Merged
<1> HIDE DEF n, m, u, k
<1>8. ASSUME NEW d \in Cards
      PROVE  Same(t, table, u, d) /\ Same(table, t, u, d) /\ Same(n, m, u, d)
  <2>1. /\ \A i : i \in CopiesOf(t, u, d) <=> i \in Ids /\ t[i] # NoRow /\ t[i].user = u /\ t[i].card = d
        /\ \A i : i \in CopiesOf(table, u, d) <=>
             i \in Ids /\ table[i] # NoRow /\ table[i].user = u /\ table[i].card = d
        /\ \A i : i \in CopiesOf(m, u, d) <=> i \in Ids /\ m[i] # NoRow /\ m[i].user = u /\ m[i].card = d
        /\ \A i : i \in CopiesOf(n, u, d) <=> i \in Ids /\ n[i] # NoRow /\ n[i].user = u /\ n[i].card = d
    BY DEF CopiesOf
  <2>2. /\ \A i : i \in CopiesOf(t, u, d) <=> i \in CopiesOf(table, u, d)
        /\ \A i : i \in CopiesOf(table, u, d) => t[i] = table[i]
    BY <1>6, <2>1
  <2>3. \A i \in Ids : n[i] = m[i] \/ (n[i] = t[i] /\ m[i] = table[i])
    BY <1>7
  <2>4. /\ \A i : i \in CopiesOf(n, u, d) <=> i \in CopiesOf(m, u, d)
        /\ \A i : i \in CopiesOf(m, u, d) => n[i] = m[i]
    BY <1>6, <2>1, <2>3
  <2> QED
    BY <2>2, <2>4 DEF Same
<1>9. /\ job[q].todo \subseteq Cards /\ DOMAIN job[q].wanted \subseteq Cards
      /\ pc[q] \in {"copies", "quantity", "price"} => job[q].card \in Cards
  BY <1>2, InHand DEF Jobs, Wanted
<1> QED
  BY <1>3, <1>5, <1>8, <1>9, StaysOnCourse DEF u

\* A step of page r after which it has not begun to read, or has stopped, and which
\* leaves the table.
LEMMA SaveQuiet ==
    ASSUME \A q \in Pages : SaveInv(q), NEW r \in Pages, Others(r), UNCHANGED table,
           pc'[r] \notin InTx \/ job'[r].todo = DOMAIN job'[r].wanted
    PROVE  \A q \in Pages : SaveInv(q)'
<1>1. SaveInv(r)'
  BY DEF SaveInv, Undisturbed
<1>2. \A q \in Pages \ {r} : SaveInv(q)'
  BY SaveOthers DEF Others
<1> QED
  BY <1>1, <1>2

\* Every step keeps undisturbed saves on course.
LEMMA SaveNext ==
    ASSUME OwnInv, \A q \in Pages : ReadBefore(q), \A q \in Pages : SaveInv(q), [Next]_vars
    PROVE  \A q \in Pages : SaveInv(q)'
<1> DEFINE Saves == \A q \in Pages : SaveInv(q)
<1> TypeOK
  BY DEF OwnInv
<1>1. ASSUME NEW r \in Pages, NEW place \in {"done", "error"}, Finish(r, place), UNCHANGED table
      PROVE  Saves'
  <2>1. Others(r) /\ pc'[r] \notin InTx
    BY <1>1 DEF Finish, Close, Others, InTx, TypeOK
  <2> QED
    BY <1>1, <2>1, SaveQuiet
<1>2. ASSUME NEW r \in Pages, NEW to, NEW j, UNCHANGED <<table, work>>,
             to \notin InTx \/ j.todo = DOMAIN j.wanted,
             pc' = [pc EXCEPT ![r] = to], job' = [job EXCEPT ![r] = j]
      PROVE  Saves'
  <2>1. Others(r) /\ pc'[r] = to /\ job'[r] = j
    BY <1>2 DEF Others, TypeOK
  <2> QED
    BY <1>2, <2>1, SaveQuiet
<1>3. ASSUME NEW r \in Pages, NEW w, AddOwnedSet(r, w)
      PROVE  Saves'
  <2>1. UNCHANGED table
    BY <1>3 DEF AddOwnedSet
  <2>2. CASE Finish(r, "done")
    BY <1>1, <2>1, <2>2
  <2>3. CASE /\ pc' = [pc EXCEPT ![r] = "tx"] /\ UNCHANGED work
             /\ job' = [job EXCEPT ![r].wanted = w, ![r].todo = DOMAIN w]
    <3> DEFINE j == [job[r] EXCEPT !.wanted = w, !.todo = DOMAIN w]
    <3>1. job' = [job EXCEPT ![r] = j]
      BY <2>3, Zenon
    <3>2. j.todo = DOMAIN j.wanted
      BY DEF TypeOK, Jobs
    <3> HIDE DEF j
    <3> QED
      BY <1>2, <2>1, <2>3, <3>1, <3>2
  <2>4. CASE /\ pc' = [pc EXCEPT ![r] = "error"] /\ UNCHANGED work
             /\ job' = [job EXCEPT ![r].wanted = w]
    BY <1>2, <2>1, <2>4 DEF InTx
  <2> QED
    BY <1>3, <2>2, <2>3, <2>4 DEF AddOwnedSet
<1>4. ASSUME NEW r \in Pages, Submit(r) \/ Retry(r)
      PROVE  Saves'
  BY <1>3, <1>4 DEF Submit, Retry
<1>5. ASSUME NEW r \in Pages, NEW u \in Active, NEW s \in Sets, Load(r, u, s)
      PROVE  Saves'
  BY <1>2, <1>5 DEF Load, db, InTx
<1>6. ASSUME NEW r \in Pages, NEW t, NEW j, Store(r, t, j), pc'[r] \notin InTx,
             \A q \in Pages \ {r} : pc'[q] = pc[q] /\ work'[q] = work[q]
      PROVE  Saves'
  <2>1. SaveInv(r)'
    BY <1>6 DEF SaveInv, Undisturbed
  <2>2. \A q \in Pages \ {r} : SaveInv(q)'
    BY <1>6, SaveStore
  <2> QED
    BY <2>1, <2>2
<1>7. ASSUME NEW r \in Pages, NEW u \in Active, NEW s \in Sets, RemoveCopies(r, u, s)
      PROVE  Saves'
  <2>1. pc'[r] \notin InTx /\ \A q \in Pages \ {r} : pc'[q] = pc[q] /\ work'[q] = work[q]
    BY <1>7 DEF RemoveCopies, InTx, TypeOK
  <2> QED
    BY <1>6, <1>7, <2>1 DEF RemoveCopies
<1>8. ASSUME NEW r \in Pages, Commit(r)
      PROVE  Saves'
  <2>1. PICK place \in {"done", "error"} :
            Close(r, place) /\ Store(r, Merged(r), JobAfter(job[r], place))
    BY <1>8 DEF Commit
  <2>2. pc'[r] \notin InTx /\ \A q \in Pages \ {r} : pc'[q] = pc[q] /\ work'[q] = work[q]
    BY <2>1 DEF Close, InTx, TypeOK
  <2> QED
    BY <1>6, <2>1, <2>2
<1>9. ASSUME NEW r \in Pages, SaveInv(r)', Others(r), UNCHANGED table
      PROVE  Saves'
  BY <1>9, SaveOthers DEF Others
<1>10. ASSUME NEW r \in Pages, NEW c \in Cards, Read(r, c)
       PROVE  Saves'
  <2>1. /\ UNCHANGED <<table, work>>
        /\ \E to, j : pc' = [pc EXCEPT ![r] = to] /\ job' = [job EXCEPT ![r] = j]
    BY <1>10, Zenon DEF Read, db
  <2>2. \A q \in Pages \ {r} : pc'[q] = pc[q] /\ job'[q] = job[q]
    BY <2>1 DEF TypeOK
  <2> QED
    BY <1>9, <1>10, <2>1, <2>2, ReadSave DEF Others
<1>11. ASSUME NEW r \in Pages, WriteCopies(r) \/ AdjustQuantity(r) \/ SetNewestPrice(r)
       PROVE  Saves'
  <2>1. SaveInv(r)'
    BY <1>11, WriteCopiesSave, AdjustQuantitySave, SetNewestPriceSave
  <2>2. /\ UNCHANGED <<table, job>> /\ \A q \in Pages \ {r} : pc'[q] = pc[q]
        /\ \E rows : Write(r, rows)
    BY <1>11, Zenon DEF WriteCopies, AdjustQuantity, SetNewestPrice, db, TypeOK
  <2>3. Others(r)
    BY <2>2 DEF Others, Write, TypeOK
  <2> QED
    BY <1>9, <2>1, <2>2, <2>3
<1>12. ASSUME NEW r \in Pages, Refuse(r) \/ Fail(r) \/ RemoveSet(r) \/ RemoveFails(r)
       PROVE  Saves'
  BY <1>1, <1>12 DEF Refuse, Fail, RemoveSet, RemoveFails, db
<1>13. CASE UNCHANGED vars
  <2>1. UNCHANGED <<table, pc, job, work>>
    BY <1>13 DEF vars
  <2> QED
    BY <2>1, SaveOthers
<1> QED
  BY <1>4, <1>5, <1>7, <1>8, <1>10, <1>11, <1>12, <1>13 DEF Next, SetOwnedCards

\* A save that nobody disturbed leaves exactly what it was asked for, in every card.
THEOREM SavesExactly == Spec => SaveIsExact
<1> DEFINE Reads == \A r \in Pages : ReadBefore(r)
           Saves == \A r \in Pages : SaveInv(r)
           AsAsked == \A r \in Pages : Commit(r) /\ ~job[r].disturbed =>
             \A c \in DOMAIN job[r].wanted : Matches(r, c, job[r].wanted[c], job[r].seen[c])
<1>1. Init => Reads
  BY OwnershipAssumption DEF Init, ReadBefore, WrittenBy, NoWork
<1>2. OwnInv /\ Reads /\ [Next]_vars => Reads'
  BY ReadBeforeNext
<1>3. Init => Saves
  BY DEF Init, SaveInv, Undisturbed, InTx
<1>4. OwnInv /\ Reads /\ Saves /\ [Next]_vars => Saves'
  BY SaveNext
<1>5. ASSUME OwnInv, Saves
      PROVE  AsAsked
  <2> SUFFICES ASSUME NEW r \in Pages, Commit(r), ~job[r].disturbed, NEW c \in DOMAIN job[r].wanted
               PROVE  Matches(r, c, job[r].wanted[c], job[r].seen[c])
    OBVIOUS
  <2> DEFINE u == job[r].user
             m == Merged(r)
             entry == job[r].wanted[c]
  <2>1. table' = m /\ pc[r] = "tx" /\ job[r].todo = {}
    BY DEF Commit, Store
  <2>2. c \in Cards
    BY <1>5 DEF OwnInv, TypeOK, Jobs, Wanted
  <2>3. OnCourse("tx", job[r], m, table)
    BY <1>5, <2>1 DEF SaveInv, Undisturbed, InTx
  <2>4. c \in Reconciled("tx", job[r])
    BY <2>1 DEF Reconciled, InHandAt
  <2>5. Exact(m, table, u, c, entry) /\ job[r].seen[c] = CopiesOf(table, u, c)
    BY <2>2, <2>3, <2>4 DEF OnCourse
  <2> HIDE DEF m, entry
  <2>6. CASE ExactByID(m, table, u, c, entry)
    BY <2>1, <2>5, <2>6, Zenon DEF ExactByID, Matches, entry
  <2>7. CASE ExactByCount(m, table, u, c, entry)
    BY <2>1, <2>5, <2>7, Zenon DEF ExactByCount, Matches, entry
  <2> QED
    BY <2>5, <2>6, <2>7 DEF Exact
<1>6. OwnInv /\ Saves => [AsAsked]_vars
  BY <1>5
<1> QED
  BY <1>1, <1>2, <1>3, <1>4, <1>6, OwnInvariant, PTL DEF Spec, SaveIsExact

=====
