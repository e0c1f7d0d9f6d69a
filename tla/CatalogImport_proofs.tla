------------------------- MODULE CatalogImport_proofs -------------------------
(***************************************************************************)
(* Proofs about CatalogImport for any catalog, any files and any number of *)
(* commands.                                                               *)
(*                                                                         *)
(* The invariants come in layers, each proved from those below it: what a  *)
(* command remembers at each point of its program (CommandsInv), the       *)
(* sets it has found (SetsInv), who has a card (OwnedLive), who runs       *)
(* alone (SerialInv, AloneInv), the files of a model (PartsInv), and what  *)
(* a command that ran alone has done of its file (DoneInv).                *)
(***************************************************************************)
EXTENDS CatalogImport, FiniteSetTheorems, TLAPS

(* What a command remembers.                                               *)

RowSteps == {"row", "create", "upsert", "select", "image"}
CardSteps == {"lookup", "source", "exists", "link"}
FigureSteps == {"fetch", "store", "audio"}
Steps == {"idle", "set", "metadata", "reconcile"} \cup RowSteps \cup CardSteps \cup FigureSteps

OnRow == {"create", "upsert", "select", "image", "source", "exists", "link"}

JobRows == [cmd : Commands \cup {None}, pc : Steps, at : Nat,
            sid : SetIds \cup {None}, known : [Names -> SetIds \cup {None}],
            id : CardIds \cup {None}, parts : Seq(1..NewestPart),
            bad : BOOLEAN, alone : BOOLEAN, changed : BOOLEAN, had : SUBSET CardIds]

KindAt(x) ==
    /\ x.pc \in {"metadata", "reconcile"} \cup RowSteps => x.cmd.kind = "process-set"
    /\ x.pc = "lookup" => x.cmd.kind # "process-set"
    /\ x.pc = "source" => x.cmd.kind = "set-price-sources"
    /\ x.pc \in {"exists", "link"} \cup FigureSteps => x.cmd.kind = "model-import"
    /\ x.pc \in {"set", "metadata", "reconcile"} => x.cmd.name # None
    /\ x.pc = "reconcile" => x.cmd.refresh

PlaceAt(x) ==
    /\ x.at \in 1..(IF x.pc = "audio" THEN Clips ELSE Len(x.cmd.rows)) + 1
    /\ x.pc \in OnRow => x.at <= Len(x.cmd.rows)
    /\ x.pc \in {"set", "metadata", "reconcile", "fetch", "store"} => x.at = 1

FoundAt(x) ==
    /\ x.pc \in {"reconcile", "upsert", "select", "image", "source"} => x.sid \in SetIds
    /\ x.pc \in CardSteps /\ x.cmd.name # None => x.sid \in SetIds
    /\ x.pc \in {"image", "source", "exists", "link"} => x.id \in CardIds
    /\ x.pc \in {"set"} \cup FigureSteps => x.sid = None
    /\ x.pc \in {"set", "metadata"} \cup FigureSteps => x.known = Idle.known
    /\ x.pc = "create" => x.known[x.cmd.rows[x.at].name] = None

PartsAt(x) ==
    /\ x.pc = "fetch" => Len(x.parts) < Parts
    /\ x.pc = "store" => Len(x.parts) = Parts

JobInv(x) ==
    /\ x \in JobRows
    /\ x.pc = "idle" <=> x = Idle
    /\ x # Idle => x.cmd \in Commands /\ KindAt(x) /\ PlaceAt(x) /\ FoundAt(x) /\ PartsAt(x)

CommandsInv ==
    /\ TablesType
    /\ models \in [Models -> [1..Parts -> 1..NewestPart] \cup {None}]
    /\ clips \in [Models -> SUBSET (1..Clips)]
    /\ part \in [Models -> 1..NewestPart]
    /\ job = [j \in Jobs |-> job[j]]
    /\ \A j \in Jobs : JobInv(job[j])
    /\ \A j \in Jobs : At(j, "metadata") /\ job[j].sid # None => sets[job[j].sid] # None

(* Who has a card. *)
OwnedLive == \A id \in owned : Live(id)

(* The sets a command has found or created stay where they are. *)
Filled == \E n \in 0..MaxSets : \A i \in SetIds : sets[i] # None <=> i <= n

IsSet(i, n) == sets[i] # None /\ sets[i].name = n

RowOf(x) == x.cmd.rows[x.at]

KnownSets(x) ==
    /\ \A n \in Names : x.known[n] # None => IsSet(x.known[n], n)
    /\ x.pc = "metadata" /\ x.sid # None => IsSet(x.sid, x.cmd.name)
    /\ x.pc = "reconcile" => x.sid = x.known[x.cmd.name]
    /\ x.pc \in {"upsert", "select", "image"} => x.sid = x.known[RowOf(x).name]
    /\ x.pc \in {"reconcile"} \cup RowSteps /\ x.cmd.name # None =>
         /\ x.known[x.cmd.name] # None
         /\ sets[x.known[x.cmd.name]].status = "active"

SetsInv == Filled /\ \A j \in Jobs : KnownSets(job[j])

(* Commands one at a time. *)
NotThere(j) ==
    /\ At(j, "create") => Named(CurrentRow(j).name) = {}
    /\ At(j, "metadata") /\ job[j].sid = None => Named(Cmd(j).name) = {}

SerialInv ==
    /\ serial => \A j, k \in Jobs : job[j] # Idle /\ job[k] # Idle => j = k
    /\ serial => \A j \in Jobs : NotThere(j)
    /\ OneSetPerName

AloneInv == \A j, k \in Jobs : job[j].alone /\ job[j] # Idle /\ job[k] # Idle => j = k

(* The files of a model. *)
PartsInv ==
    /\ \A j \in Jobs : ~job[j].changed =>
         /\ At(j, "fetch") => \A p \in 1..Len(job[j].parts) : job[j].parts[p] = part[Cmd(j).char]
         /\ At(j, "store") => \A p, q \in 1..Parts : job[j].parts[p] = job[j].parts[q]
    /\ ModelsWhole

(* What a command, remembering x, has done of its file in cards C and sources S. *)
SameRow(c, q, r) == c.rows[q].name = c.rows[r].name /\ c.rows[q].code = c.rows[r].code

KeyOfRow(x, r) == <<x.known[x.cmd.rows[r].name], x.cmd.rows[r].code>>

Imported(C, x, r, end) ==
    /\ x.known[x.cmd.rows[r].name] # None
    /\ C[KeyOfRow(x, r)] # None
    /\ \E q \in 1..end :
         /\ SameRow(x.cmd, q, r) /\ C[KeyOfRow(x, r)].text = x.cmd.rows[q].text
         /\ \A p \in 1..end : SameRow(x.cmd, p, r) => p <= q

RowsDone(x) == IF x.pc \in {"select", "image"} THEN x.at ELSE x.at - 1

OnlyListed(C, x) ==
    \A k \in Keys : k[1] = x.known[x.cmd.name] /\ C[k] # None => k[2] \in KeepCodes(x.cmd)

SetDone(C, x) ==
    /\ \A r \in 1..RowsDone(x) : Imported(C, x, r, RowsDone(x))
    /\ x.cmd.refresh => OnlyListed(C, x)

LiveIn(C, id) == C[id.key] # None /\ C[id.key].gen = id.gen

PricesDone(C, S, x) ==
    /\ \A r \in 1..(x.at - 1) :
         \E id \in S : id.key = <<x.sid, x.cmd.rows[r].code>> /\ LiveIn(C, id)
    /\ x.pc = "source" => x.id.key = <<x.sid, x.cmd.rows[x.at].code>>

LinksDone(C, x) ==
    /\ \A r \in 1..(x.at - 1) :
         \E k \in Keys : k[2] = x.cmd.rows[r].code /\ C[k] # None /\ C[k].model = x.cmd.char
    /\ x.pc \in {"exists", "link"} => x.id.key[2] = x.cmd.rows[x.at].code
    /\ x.pc = "link" => LiveIn(C, x.id)

DoneInv(C, S, x) ==
    /\ x.pc \in RowSteps => SetDone(C, x)
    /\ x.pc \in {"lookup", "source"} /\ x.cmd.kind = "set-price-sources" => PricesDone(C, S, x)
    /\ x.pc \in {"lookup", "exists", "link"} /\ x.cmd.kind = "model-import" => LinksDone(C, x)

FileInv == \A j \in Jobs : job[j].alone /\ ~job[j].bad => DoneInv(cards, sources, job[j])

-----------------------------------------------------------------------------
(* Statements keep the tables well-typed.                                  *)

\* What a command line may hold.
LEMMA CommandFacts ==
  ASSUME NEW c \in Commands
  PROVE  /\ c.kind \in {"process-set", "set-price-sources", "model-import"}
         /\ c.name \in Names \cup {None} /\ c.refresh \in BOOLEAN /\ c.char \in Models \cup {None}
         /\ c.rows \in Seq(Row) /\ Len(c.rows) \in Nat /\ DOMAIN c.rows = 1..Len(c.rows)
         /\ \A r \in 1..Len(c.rows) : /\ c.rows[r].name \in Names \cup {None}
                                      /\ c.rows[r].code \in Codes /\ c.rows[r].text \in Texts
         /\ c.kind = "process-set" => \A r \in 1..Len(c.rows) : c.rows[r].name \in Names
         /\ c.kind = "set-price-sources" => c.name # None
         /\ c.refresh => c.name # None
         /\ c.kind = "model-import" => c.char \in Models
<1>1. c \in Command
  BY CommandsAssumption
<1>2. c.rows \in Seq(Row) /\ Len(c.rows) \in Nat /\ DOMAIN c.rows = 1..Len(c.rows)
  BY <1>1 DEF Command
<1>3. \A r \in 1..Len(c.rows) : c.rows[r] \in Row
  BY <1>2
<1> QED
  BY <1>1, <1>2, <1>3, CommandsAssumption DEF Command, Row

\* A new set is a row of its table.
LEMMA InsertSetType ==
  ASSUME TablesType, NEW n \in Names, NEW s \in Statuses, InsertSet(n, s)
  PROVE  /\ TablesType' /\ NextSet \in SetIds /\ sets'[NextSet] = [name |-> n, status |-> s]
         /\ \A i \in SetIds : i # NextSet => sets'[i] = sets[i]
         /\ \A i \in SetIds : sets[i] # None => sets'[i] # None
         /\ UNCHANGED <<cards, gens, children, figures>>
BY CatalogAssumption DEF TablesType, InsertSet, SetRows, children

\* An update of a set that is there touches its status.
LEMMA UpdateSetType ==
  ASSUME TablesType, NEW i \in SetIds, sets[i] # None, NEW s \in Statuses, UpdateSet(i, s)
  PROVE  /\ TablesType' /\ sets'[i] # None
         /\ sets'[i].name = sets[i].name /\ sets'[i].status = s
         /\ \A k \in SetIds : k # i => sets'[k] = sets[k]
         /\ \A k \in SetIds : sets[k] # None => sets'[k] # None
         /\ UNCHANGED <<cards, gens, children, figures>>
<1>1. sets[i] \in SetRows
  BY DEF TablesType
<1>2. sets'[i] = [sets[i] EXCEPT !.status = s]
  BY DEF TablesType, UpdateSet
<1>3. sets'[i] \in SetRows /\ sets'[i].name = sets[i].name /\ sets'[i].status = s
  BY <1>1, <1>2 DEF SetRows
<1>4. sets'[i] # None /\ \A k \in SetIds : k # i => sets'[k] = sets[k]
  BY <1>3, CatalogAssumption DEF TablesType, UpdateSet
<1>5. sets' \in [SetIds -> SetRows \cup {None}]
  BY <1>3, <1>4 DEF TablesType, UpdateSet
<1> QED
  BY <1>3, <1>4, <1>5 DEF TablesType, UpdateSet, children

\* A card that is inserted or updated is a row of its table.
LEMMA UpsertCardType ==
  ASSUME TablesType, NEW k \in Keys, NEW t \in Texts, UpsertCard(k, t)
  PROVE  /\ TablesType' /\ cards'[k] # None /\ cards'[k].text = t
         /\ cards[k] # None => cards'[k].gen = cards[k].gen /\ cards'[k].model = cards[k].model
         /\ \A q \in Keys : q # k => cards'[q] = cards[q]
         /\ UNCHANGED <<sets, children, figures>>
<1>1. cards[k] # None => cards[k] \in CardRows
  BY DEF TablesType
<1>2. UpsertedCard(k, t) \in CardRows /\ UpsertedCard(k, t).text = t
  BY <1>1 DEF UpsertedCard, NewCard, CardRows, TablesType
<1>3. cards[k] # None => UpsertedCard(k, t).gen = cards[k].gen /\ UpsertedCard(k, t).model = cards[k].model
  BY <1>1 DEF UpsertedCard, CardRows
<1>4. cards'[k] = UpsertedCard(k, t) /\ \A q \in Keys : q # k => cards'[q] = cards[q]
  BY DEF TablesType, UpsertCard
<1>5. cards' \in [Keys -> CardRows \cup {None}] /\ gens' \in [Keys -> Nat]
  BY <1>2 DEF TablesType, UpsertCard
<1> QED
  BY <1>2, <1>3, <1>4, <1>5, CatalogAssumption DEF TablesType, UpsertCard, children

\* A link changes the model of one card, if that is still there.
LEMMA LinkCardType ==
  ASSUME TablesType, NEW id \in CardIds, NEW m \in Models \cup {None}, LinkCard(id, m)
  PROVE  /\ TablesType' /\ (Live(id) => cards'[id.key] # None /\ cards'[id.key].model = m)
         /\ \A q \in Keys : cards[q] = None <=> cards'[q] = None
         /\ \A q \in Keys : cards[q] # None => cards'[q].gen = cards[q].gen /\ cards'[q].text = cards[q].text
         /\ \A q \in Keys : q # id.key => cards'[q] = cards[q]
         /\ UNCHANGED <<sets, gens, children, figures>>
<1>1. CASE ~Live(id)
  BY <1>1 DEF LinkCard, TablesType, children
<1>2. CASE Live(id)
  <2>1. id.key \in Keys /\ cards[id.key] \in CardRows
    BY <1>2 DEF Live, TablesType, CardIds
  <2>2. cards' = [cards EXCEPT ![id.key].model = m]
    BY <1>2 DEF LinkCard
  <2>3. cards'[id.key] = [cards[id.key] EXCEPT !.model = m] /\ \A q \in Keys : q # id.key => cards'[q] = cards[q]
    BY <2>1, <2>2 DEF TablesType
  <2>4. /\ cards'[id.key] \in CardRows /\ cards'[id.key].model = m
        /\ cards'[id.key].gen = cards[id.key].gen /\ cards'[id.key].text = cards[id.key].text
    BY <2>1, <2>3 DEF CardRows
  <2>5. cards' \in [Keys -> CardRows \cup {None}]
    BY <2>1, <2>2, <2>4 DEF TablesType
  <2>6. cards[id.key] # None /\ cards'[id.key] # None
    BY <2>1, <2>4, CatalogAssumption
  <2> QED
    BY <2>1, <2>3, <2>4, <2>5, <2>6 DEF TablesType, LinkCard, children
<1> QED
  BY <1>1, <1>2

\* The ids in use name cards.
LEMMA LiveIdsType == TablesType => LiveIds \subseteq CardIds /\ \A id \in LiveIds : Live(id)
BY DEF TablesType, LiveIds, IdOf, Live, CardIds, CardRows

\* A deletion removes whole cards, and nobody's.
LEMMA DeleteCardsType ==
  ASSUME TablesType, NEW keys \in SUBSET Keys, DeleteCards(keys)
  PROVE  /\ TablesType'
         /\ \A q \in Keys : q \in keys => cards'[q] = None
         /\ \A q \in Keys : q \notin keys => cards'[q] = cards[q]
         /\ \A id \in owned : id.key \notin keys
         /\ owned' \subseteq owned /\ sources' = Without(sources, keys)
         /\ UNCHANGED <<sets, gens, figures>>
BY DEF TablesType, DeleteCards, Deletable, Without, figures

\* Rows that refer to a card are added one at a time.
LEMMA ChildType ==
  ASSUME TablesType, NEW id \in CardIds, UpsertCardImage(id) \/ UpsertPriceSource(id) \/ OwnCopy(id) \/ DisownCopies(id)
  PROVE  /\ TablesType' /\ UNCHANGED <<sets, cards, gens, figures>>
         /\ \A i \in owned' : i \in owned \/ Live(i)
         /\ sources \subseteq sources'
<1> USE DEF TablesType, figures
<1>1. CASE UpsertCardImage(id)
  BY <1>1 DEF UpsertCardImage
<1>2. CASE UpsertPriceSource(id)
  BY <1>2 DEF UpsertPriceSource
<1>3. CASE OwnCopy(id)
  BY <1>3 DEF OwnCopy
<1>4. CASE DisownCopies(id)
  BY <1>4 DEF DisownCopies
<1> QED
  BY <1>1, <1>2, <1>3, <1>4

-----------------------------------------------------------------------------
(* What a command remembers.                                               *)

\* Goes and Ends move one command.
LEMMA GoesTo ==
  ASSUME CommandsInv, NEW j \in Jobs, NEW y, Goes(j, y)
  PROVE  /\ job'[j] = y /\ \A k \in Jobs : k # j => job'[k] = job[k]
         /\ job' = [k \in Jobs |-> job'[k]]
BY DEF CommandsInv, Goes

\* A command that has ended remembers nothing.
LEMMA IdleInv == JobInv(Idle) /\ Idle.pc = "idle" /\ Idle.had = {}
<1>1. Idle.known \in [Names -> SetIds \cup {None}] /\ Idle.parts \in Seq(1..NewestPart)
  BY DEF Idle
<1> QED
  BY <1>1 DEF JobInv, JobRows, Idle, Steps

\* A command at a step of its program is running.
LEMMA Running ==
  ASSUME CommandsInv, NEW j \in Jobs, job[j].pc # "idle" \/ job[j] # Idle
  PROVE  /\ job[j] # Idle /\ job[j].pc # "idle" /\ job[j] \in JobRows /\ Cmd(j) = job[j].cmd /\ Cmd(j) \in Commands
         /\ KindAt(job[j]) /\ PlaceAt(job[j]) /\ FoundAt(job[j]) /\ PartsAt(job[j])
BY IdleInv DEF CommandsInv, JobInv, Cmd

\* The row a command is on.
LEMMA OnARow ==
  ASSUME CommandsInv, NEW j \in Jobs, job[j].pc \in OnRow \/ (job[j].pc \in {"row", "lookup"} /\ More(j))
  PROVE  /\ job[j].at \in 1..Len(Cmd(j).rows) /\ Len(Cmd(j).rows) \in Nat
         /\ CurrentRow(j).name \in Names \cup {None} /\ CurrentRow(j).code \in Codes
         /\ CurrentRow(j).text \in Texts
         /\ Cmd(j).kind = "process-set" => CurrentRow(j).name \in Names
         /\ job[j].sid \in SetIds => KeyOf(j) \in Keys
<1>1. JobInv(job[j]) /\ job[j] # Idle
  BY DEF CommandsInv, JobInv, OnRow, Idle
<1>2. Cmd(j) \in Commands /\ job[j].at \in 1..Len(Cmd(j).rows) /\ Len(Cmd(j).rows) \in Nat
  BY <1>1, CommandFacts DEF JobInv, PlaceAt, JobRows, More, Cmd, OnRow
<1>3. CurrentRow(j) = Cmd(j).rows[job[j].at]
  BY DEF CurrentRow
<1> QED
  BY <1>2, <1>3, CommandFacts DEF KeyOf, Keys

\* Enough to know of a command that goes on.
LEMMA StillRuns ==
  ASSUME NEW y \in JobRows, y.pc # "idle", y.cmd \in Commands, KindAt(y), PlaceAt(y), FoundAt(y), PartsAt(y)
  PROVE  JobInv(y)
BY IdleInv DEF JobInv

\* And of one that goes on with the row it is on.
LEMMA StillOnRow ==
  ASSUME NEW y \in JobRows, y.cmd \in Commands, y.pc \in OnRow, y.at \in 1..Len(y.cmd.rows),
         y.pc \in {"create", "upsert", "select", "image"} => y.cmd.kind = "process-set",
         y.pc = "source" => y.cmd.kind = "set-price-sources",
         y.pc \in {"exists", "link"} => y.cmd.kind = "model-import",
         FoundAt(y)
  PROVE  JobInv(y)
<1>1. Len(y.cmd.rows) \in Nat /\ y.pc # "idle"
  BY CommandFacts DEF OnRow
<1>2. KindAt(y)
  BY DEF KindAt, RowSteps, FigureSteps, OnRow
<1>3. PlaceAt(y) /\ PartsAt(y)
  BY <1>1 DEF PlaceAt, PartsAt, OnRow
<1> QED
  BY <1>1, <1>2, <1>3, StillRuns

\* A command goes on from a set to its next step.
LEMMA ToMetadata ==
  ASSUME NEW x \in JobRows, x.cmd \in Commands, KindAt(x), PlaceAt(x), FoundAt(x), x.pc = "set",
         NEW i \in SetIds \cup {None}, x.cmd.kind = "process-set"
  PROVE  JobInv([x EXCEPT !.sid = i, !.at = 1, !.pc = "metadata"])
<1> DEFINE y == [x EXCEPT !.sid = i, !.at = 1, !.pc = "metadata"]
<1>1. y \in JobRows /\ y.pc = "metadata" /\ y.cmd = x.cmd /\ y.sid = i /\ y.at = 1 /\ y.known = x.known
  BY DEF JobRows, Steps
<1>2. KindAt(y) /\ FoundAt(y) /\ PartsAt(y)
  BY <1>1 DEF KindAt, FoundAt, PartsAt, RowSteps, CardSteps, FigureSteps
<1>3. PlaceAt(y)
  BY <1>1, CommandFacts DEF PlaceAt, OnRow
<1> QED
  BY <1>1, <1>2, <1>3, StillRuns

\* One command moves, and the tables keep their types.
LEMMA Moved ==
  ASSUME CommandsInv, NEW j \in Jobs, NEW y, JobInv(y), Goes(j, y), TablesType', UNCHANGED part,
         models' \in [Models -> [1..Parts -> 1..NewestPart] \cup {None}], clips' \in [Models -> SUBSET (1..Clips)],
         \A i \in SetIds : sets[i] # None => sets'[i] # None,
         y.pc = "metadata" /\ y.sid # None => sets'[y.sid] # None
  PROVE  CommandsInv'
<1>1. job'[j] = y /\ \A k \in Jobs : k # j => job'[k] = job[k]
  BY GoesTo
<1>2. job' = [k \in Jobs |-> job'[k]]
  BY GoesTo
<1>3. \A k \in Jobs : JobInv(job[k])
  BY DEF CommandsInv
<1>4. \A k \in Jobs : JobInv(job'[k])
  BY <1>1, <1>3
<1>5. ASSUME NEW k \in Jobs, job'[k].pc = "metadata", job'[k].sid # None PROVE sets'[job'[k].sid] # None
  <2>1. CASE k = j
    BY <1>1, <1>5, <2>1
  <2>2. CASE k # j
    <3>1. job'[k] = job[k] /\ sets[job[k].sid] # None /\ job[k].sid \in SetIds \cup {None}
      BY <1>1, <1>3, <1>5, <2>2 DEF CommandsInv, JobInv, JobRows, At
    <3> QED
      BY <1>5, <3>1
  <2> QED
    BY <2>1, <2>2
<1> QED
  BY <1>2, <1>4, <1>5 DEF CommandsInv, JobInv, At

\* One command moves, and nothing else does.
LEMMA MovedOnly ==
  ASSUME CommandsInv, NEW j \in Jobs, NEW y, JobInv(y), Goes(j, y), UNCHANGED <<tables, part>>,
         y.pc = "metadata" /\ y.sid # None => sets[y.sid] # None
  PROVE  CommandsInv'
<1>1. TablesType' /\ UNCHANGED <<sets, models, clips, part>>
  BY DEF CommandsInv, TablesType, tables
<1> QED
  BY <1>1, Moved DEF CommandsInv

\* A command that ends, or is killed, is forgotten.
LEMMA EndsInv ==
  ASSUME CommandsInv, NEW j \in Jobs, Ends(j), UNCHANGED <<tables, part>> PROVE CommandsInv'
BY IdleInv, MovedOnly DEF Ends

\* The next row.
LEMMA NextRowInv ==
  ASSUME CommandsInv, NEW j \in Jobs, job[j].pc \in OnRow \/ (job[j].pc = "lookup" /\ More(j)),
         NEW p \in {"row", "lookup"}, p = "row" <=> Cmd(j).kind = "process-set", NEW b \in BOOLEAN,
         p = "lookup" /\ Cmd(j).name # None => job[j].sid \in SetIds
  PROVE  /\ JobInv([NextRow(j, p) EXCEPT !.bad = b]) /\ [NextRow(j, p) EXCEPT !.bad = b].pc = p
         /\ JobInv(NextRow(j, p)) /\ NextRow(j, p).pc = p
<1> DEFINE x == job[j]
           y == NextRow(j, p)
           z == [y EXCEPT !.bad = b]
<1>1. /\ x \in JobRows /\ x.cmd \in Commands /\ Cmd(j) = x.cmd /\ KindAt(x)
      /\ x.at \in 1..Len(x.cmd.rows) /\ Len(x.cmd.rows) \in Nat
  BY Running, OnARow DEF OnRow
<1>2. y = [x EXCEPT !.at = x.at + 1, !.pc = p, !.id = None]
  BY DEF NextRow
<1>3. y \in JobRows /\ y.pc = p /\ y.cmd = x.cmd /\ y.at = x.at + 1 /\ y.sid = x.sid
  <2>1. p \in Steps /\ x.at + 1 \in Nat
    BY <1>1 DEF Steps, RowSteps, CardSteps
  <2> HIDE DEF x, y
  <2> QED
    BY <1>1, <1>2, <2>1 DEF JobRows
<1>4. KindAt(y) /\ PlaceAt(y) /\ FoundAt(y) /\ PartsAt(y)
  BY <1>1, <1>3 DEF KindAt, PlaceAt, FoundAt, PartsAt, RowSteps, CardSteps, FigureSteps, OnRow
<1>5. z \in JobRows /\ z.pc = y.pc /\ z.cmd = y.cmd /\ z.at = y.at /\ z.sid = y.sid
  BY <1>3 DEF JobRows
<1>6. KindAt(z) /\ PlaceAt(z) /\ FoundAt(z) /\ PartsAt(z)
  BY <1>3, <1>4, <1>5 DEF KindAt, PlaceAt, FoundAt, PartsAt, RowSteps, CardSteps, FigureSteps, OnRow
<1> QED
  BY <1>1, <1>3, <1>4, <1>5, <1>6, StillRuns

\* The steps about sets.
LEMMA SetStepsInv ==
  ASSUME CommandsInv, NEW j \in Jobs,
         FindSet(j) \/ UpsertSetMetadata(j) \/ Reconcile(j) \/ RefuseToWipe(j)
  PROVE  CommandsInv'
<1> DEFINE x == job[j]
<1>0. /\ x \in JobRows /\ x.cmd \in Commands /\ Cmd(j) = x.cmd /\ x.pc \in {"set", "metadata", "reconcile"}
      /\ KindAt(x) /\ PlaceAt(x) /\ FoundAt(x) /\ x.cmd.name \in Names
      /\ x.cmd.rows \in Seq(Row) /\ Len(x.cmd.rows) \in Nat
  <2>1. x.pc \in {"set", "metadata", "reconcile"}
    BY DEF FindSet, UpsertSetMetadata, Reconcile, RefuseToWipe, At
  <2> QED
    BY <2>1, Running, CommandFacts DEF KindAt
<1>1. CASE FindSet(j)
  <2>1. UNCHANGED <<tables, part>> /\ x.pc = "set"
    BY <1>1 DEF FindSet, At, world
  <2>2. ASSUME NEW i \in Named(Cmd(j).name),
               Goes(j, [job[j] EXCEPT !.sid = i, !.at = 1,
                          !.pc = IF Cmd(j).kind = "process-set" THEN "metadata" ELSE "lookup"])
        PROVE  CommandsInv'
    <3>1. i \in SetIds /\ sets[i] # None
      BY <2>2 DEF Named
    <3>2. CASE Cmd(j).kind = "process-set"
      <4> DEFINE y == [x EXCEPT !.sid = i, !.at = 1, !.pc = "metadata"]
      <4>1. Goes(j, y) /\ JobInv(y) /\ y.sid = i
        BY <1>0, <2>1, <2>2, <3>1, <3>2, ToMetadata DEF JobRows
      <4> HIDE DEF y
      <4> QED
        BY <2>1, <3>1, <4>1, MovedOnly
    <3>3. CASE Cmd(j).kind # "process-set"
      <4> DEFINE y == [x EXCEPT !.sid = i, !.at = 1, !.pc = "lookup"]
      <4>1. Goes(j, y)
        BY <2>2, <3>3
      <4>2. y \in JobRows /\ y.pc = "lookup" /\ y.cmd = x.cmd /\ y.sid = i /\ y.at = 1
        BY <1>0, <3>1 DEF JobRows, Steps, CardSteps
      <4>3. JobInv(y)
        BY <1>0, <3>1, <3>3, <4>2, StillRuns DEF KindAt, PlaceAt, FoundAt, PartsAt, RowSteps, CardSteps, FigureSteps, OnRow
      <4> HIDE DEF y
      <4> QED
        BY <2>1, <4>1, <4>2, <4>3, MovedOnly
    <3> QED
      BY <3>2, <3>3
  <2>3. ASSUME Cmd(j).kind = "process-set", GoTo(j, "metadata") PROVE CommandsInv'
    <3> DEFINE y == [x EXCEPT !.sid = None, !.at = 1, !.pc = "metadata"]
    <3>1. Goes(j, y)
      <4>1. x.at = 1 /\ x.sid = None
        BY <1>0, <2>1 DEF PlaceAt, FoundAt
      <4>2. y = [x EXCEPT !.pc = "metadata"]
        BY <1>0, <4>1 DEF JobRows
      <4> QED
        BY <2>3, <4>2 DEF GoTo
    <3>2. JobInv(y) /\ y.sid = None
      BY <1>0, <2>1, <2>3, ToMetadata DEF JobRows
    <3> HIDE DEF y
    <3> QED
      BY <2>1, <3>1, <3>2, MovedOnly
  <2> QED
    BY <1>1, <2>1, <2>2, <2>3, EndsInv DEF FindSet
<1>2. CASE UpsertSetMetadata(j)
  <2>0. x.pc = "metadata" /\ x.known \in [Names -> SetIds \cup {None}] /\ TablesType
    BY <1>0, <1>2 DEF UpsertSetMetadata, At, JobRows, CommandsInv
  <2> DEFINE i == IF x.sid = None THEN NextSet ELSE x.sid
             n == Cmd(j).name
             p == IF Cmd(j).refresh THEN "reconcile" ELSE "row"
             y == [x EXCEPT !.known[n] = i, !.sid = i, !.pc = p]
  <2>1. /\ TablesType' /\ i \in SetIds /\ UNCHANGED <<part, models, clips>>
        /\ \A k \in SetIds : sets[k] # None => sets'[k] # None
    <3>1. CASE x.sid = None
      BY <1>0, <1>2, <2>0, <3>1, InsertSetType DEF UpsertSetMetadata, Statuses, figures, world
    <3>2. CASE x.sid # None
      <4>1. x.sid \in SetIds /\ sets[x.sid] # None
        BY <1>0, <2>0, <3>2 DEF JobRows, CommandsInv, At
      <4> QED
        BY <1>2, <2>0, <3>2, <4>1, UpdateSetType DEF UpsertSetMetadata, Statuses, figures, world
    <3> QED
      BY <3>1, <3>2
  <2>2. Goes(j, y)
    BY <1>2 DEF UpsertSetMetadata
  <2>3. p \in {"reconcile", "row"} /\ (p = "reconcile" => x.cmd.refresh)
    BY <1>0
  <2> HIDE DEF i, p
  <2>4. /\ y \in JobRows /\ y.pc = p /\ y.cmd = x.cmd /\ y.sid = i /\ y.at = x.at
    BY <1>0, <2>0, <2>1, <2>3 DEF JobRows, Steps, RowSteps
  <2>5. JobInv(y)
    BY <1>0, <2>0, <2>1, <2>3, <2>4, StillRuns DEF KindAt, PlaceAt, FoundAt, PartsAt, RowSteps, FigureSteps, OnRow
  <2> HIDE DEF y
  <2> QED
    BY <2>1, <2>2, <2>3, <2>4, <2>5, Moved DEF CommandsInv
<1>3. CASE Reconcile(j)
  <2> DEFINE y == [x EXCEPT !.pc = "row"]
  <2>1. Gone(j) \in SUBSET Keys
    BY DEF Gone, Wiped
  <2>2. TablesType' /\ UNCHANGED <<sets, models, clips, part>> /\ Goes(j, y) /\ x.pc = "reconcile"
    BY <1>3, <2>1, DeleteCardsType DEF Reconcile, CommandsInv, figures, world, GoTo, At
  <2>3. y \in JobRows /\ y.pc = "row" /\ y.cmd = x.cmd /\ y.sid = x.sid /\ y.at = x.at
    BY <1>0 DEF JobRows, Steps, RowSteps
  <2>4. JobInv(y)
    BY <1>0, <2>2, <2>3, StillRuns DEF KindAt, PlaceAt, FoundAt, PartsAt, RowSteps, FigureSteps, OnRow
  <2> HIDE DEF y
  <2> QED
    BY <2>2, <2>3, <2>4, Moved DEF CommandsInv
<1>4. CASE RefuseToWipe(j)
  BY <1>4, EndsInv DEF RefuseToWipe, world
<1> QED
  BY <1>1, <1>2, <1>3, <1>4

\* The steps about a row of process-set.
LEMMA RowStepsInv ==
  ASSUME CommandsInv, NEW j \in Jobs,
         ResolveSet(j) \/ CreateSet(j) \/ ImportCard(j) \/ SelectCard(j) \/ AttachImage(j)
  PROVE  CommandsInv'
<1> DEFINE x == job[j]
           row == CurrentRow(j)
<1>0. /\ x \in JobRows /\ x.cmd \in Commands /\ Cmd(j) = x.cmd /\ x.cmd.kind = "process-set"
      /\ KindAt(x) /\ PlaceAt(x) /\ FoundAt(x)
      /\ x.at \in 1..Len(x.cmd.rows) /\ Len(x.cmd.rows) \in Nat
      /\ row.name \in Names /\ row.code \in Codes /\ row.text \in Texts /\ row = x.cmd.rows[x.at]
      /\ x.sid \in SetIds => KeyOf(j) \in Keys
      /\ TablesType
  <2>1. x.pc \in {"create", "upsert", "select", "image"} \/ (x.pc = "row" /\ More(j))
    BY DEF ResolveSet, CreateSet, ImportCard, SelectCard, AttachImage, At, RowAt
  <2>2. x \in JobRows /\ x.cmd \in Commands /\ Cmd(j) = x.cmd /\ KindAt(x) /\ PlaceAt(x) /\ FoundAt(x)
    BY <2>1, Running
  <2>3. x.cmd.kind = "process-set"
    BY <2>1, <2>2 DEF KindAt, RowSteps
  <2> QED
    BY <2>1, <2>2, <2>3, OnARow DEF CommandsInv, CurrentRow, OnRow
<1>1. CASE ResolveSet(j)
  <2>1. UNCHANGED <<tables, part>> /\ x.pc = "row"
    BY <1>1 DEF ResolveSet, RowAt, At, world
  <2>2. ASSUME NEW i \in IF x.known[row.name] # None THEN {x.known[row.name]} ELSE Named(row.name),
               Goes(j, [job[j] EXCEPT !.known[row.name] = i, !.sid = i, !.pc = "upsert"])
        PROVE  CommandsInv'
    <3> DEFINE y == [x EXCEPT !.known[row.name] = i, !.sid = i, !.pc = "upsert"]
    <3>0. x.known \in [Names -> SetIds \cup {None}]
      BY <1>0 DEF JobRows
    <3>1. i \in SetIds
      BY <1>0, <2>2, <3>0 DEF Named
    <3>2. y \in JobRows /\ y.pc = "upsert" /\ y.cmd = x.cmd /\ y.sid = i /\ y.at = x.at
      BY <1>0, <3>0, <3>1 DEF JobRows, Steps, RowSteps
    <3>3. JobInv(y) /\ Goes(j, y)
      BY <1>0, <2>2, <3>1, <3>2, StillOnRow DEF FoundAt, CardSteps, FigureSteps, OnRow
    <3> HIDE DEF y
    <3> QED
      BY <2>1, <3>2, <3>3, MovedOnly
  <2>3. ASSUME x.known[row.name] = None, GoTo(j, "create")
        PROVE  CommandsInv'
    <3> DEFINE y == [x EXCEPT !.pc = "create"]
    <3>1. y \in JobRows /\ y.pc = "create" /\ y.cmd = x.cmd /\ y.sid = x.sid /\ y.at = x.at /\ y.known = x.known
      BY <1>0 DEF JobRows, Steps, RowSteps
    <3>2. JobInv(y) /\ Goes(j, y)
      BY <1>0, <2>3, <3>1, StillOnRow DEF FoundAt, CardSteps, FigureSteps, OnRow, GoTo
    <3> HIDE DEF y
    <3> QED
      BY <2>1, <3>1, <3>2, MovedOnly
  <2> QED
    BY <1>1, <2>2, <2>3 DEF ResolveSet
<1>2. CASE CreateSet(j)
  <2> DEFINE y == [x EXCEPT !.known[row.name] = NextSet, !.sid = NextSet, !.pc = "upsert"]
  <2>1. x.pc = "create" /\ Goes(j, y) /\ InsertSet(row.name, "pending") /\ UNCHANGED part
    BY <1>2 DEF CreateSet, At, world
  <2>2. /\ TablesType' /\ NextSet \in SetIds /\ UNCHANGED <<part, models, clips>>
        /\ \A k \in SetIds : sets[k] # None => sets'[k] # None
    BY <1>0, <2>1, InsertSetType DEF Statuses, figures
  <2>3. x.known \in [Names -> SetIds \cup {None}]
    BY <1>0 DEF JobRows
  <2>4. y \in JobRows /\ y.pc = "upsert" /\ y.cmd = x.cmd /\ y.sid = NextSet /\ y.at = x.at
    BY <1>0, <2>2, <2>3 DEF JobRows, Steps, RowSteps
  <2>5. JobInv(y)
    BY <1>0, <2>2, <2>4, StillOnRow DEF FoundAt, CardSteps, FigureSteps, OnRow
  <2> HIDE DEF y
  <2> QED
    BY <2>1, <2>2, <2>4, <2>5, Moved DEF CommandsInv
<1>3. CASE ImportCard(j)
  <2> DEFINE y == [x EXCEPT !.pc = "select"]
  <2>1. x.pc = "upsert" /\ x.sid \in SetIds
    BY <1>0, <1>3 DEF ImportCard, At, FoundAt
  <2>2. TablesType' /\ UNCHANGED <<sets, models, clips, part>> /\ Goes(j, y)
    BY <1>0, <1>3, <2>1, UpsertCardType DEF ImportCard, figures, world, GoTo
  <2>3. y \in JobRows /\ y.pc = "select" /\ y.cmd = x.cmd /\ y.sid = x.sid /\ y.at = x.at
    BY <1>0 DEF JobRows, Steps, RowSteps
  <2>4. JobInv(y)
    BY <1>0, <2>1, <2>3, StillOnRow DEF FoundAt, CardSteps, FigureSteps, OnRow
  <2> HIDE DEF y
  <2> QED
    BY <2>2, <2>3, <2>4, Moved DEF CommandsInv
<1>4. CASE SelectCard(j)
  <2>1. UNCHANGED <<tables, part>> /\ x.pc = "select" /\ x.sid \in SetIds /\ KeyOf(j) \in Keys
    BY <1>0, <1>4 DEF SelectCard, At, world, FoundAt
  <2>2. CASE cards[KeyOf(j)] # None
    <3> DEFINE y == [x EXCEPT !.id = IdOf(KeyOf(j)), !.pc = "image"]
    <3>1. IdOf(KeyOf(j)) \in CardIds
      BY <1>0, <2>1, <2>2 DEF IdOf, CardIds, TablesType, CardRows
    <3>2. y \in JobRows /\ y.pc = "image" /\ y.cmd = x.cmd /\ y.sid = x.sid /\ y.at = x.at /\ y.id = IdOf(KeyOf(j))
      BY <1>0, <3>1 DEF JobRows, Steps, RowSteps
    <3>3. JobInv(y) /\ Goes(j, y)
      BY <1>0, <1>4, <2>1, <2>2, <3>1, <3>2, StillOnRow DEF FoundAt, CardSteps, FigureSteps, OnRow, SelectCard
    <3> HIDE DEF y
    <3> QED
      BY <2>1, <3>2, <3>3, MovedOnly
  <2>3. CASE cards[KeyOf(j)] = None
    <3> DEFINE y == [NextRow(j, "row") EXCEPT !.bad = TRUE]
    <3>1. JobInv(y) /\ y.pc = "row" /\ Goes(j, y)
      BY <1>0, <1>4, <2>1, <2>3, NextRowInv DEF SelectCard, Skip, OnRow
    <3> HIDE DEF y
    <3> QED
      BY <2>1, <3>1, MovedOnly
  <2> QED
    BY <2>2, <2>3
<1>5. CASE AttachImage(j)
  <2> DEFINE y == NextRow(j, "row")
  <2>1. x.pc = "image" /\ x.id \in CardIds
    BY <1>0, <1>5 DEF AttachImage, At, FoundAt
  <2>2. JobInv(y) /\ y.pc = "row" /\ Goes(j, y)
    BY <1>0, <1>5, <2>1, NextRowInv DEF AttachImage, OnRow
  <2>3. TablesType' /\ UNCHANGED <<sets, models, clips, part>>
    <3>1. CASE UpsertCardImage(x.id)
      BY <1>0, <1>5, <2>1, <3>1, ChildType DEF AttachImage, world, figures
    <3>2. CASE UNCHANGED tables
      BY <1>0, <1>5, <3>2 DEF AttachImage, world, tables, TablesType
    <3> QED
      BY <1>5, <3>1, <3>2 DEF AttachImage
  <2> HIDE DEF y
  <2> QED
    BY <2>2, <2>3, Moved DEF CommandsInv
<1> QED
  BY <1>1, <1>2, <1>3, <1>4, <1>5

\* The steps about a card found by its code.
LEMMA CardStepsInv ==
  ASSUME CommandsInv, NEW j \in Jobs,
         LookUp(j) \/ TakeId(j) \/ SetPriceSource(j) \/ CardExists(j) \/ SetCardCharacterModel(j)
  PROVE  CommandsInv'
<1> DEFINE x == job[j]
<1>0. /\ x \in JobRows /\ x.cmd \in Commands /\ Cmd(j) = x.cmd /\ x.cmd.kind # "process-set"
      /\ x.pc \in OnRow \/ (x.pc = "lookup" /\ More(j))
      /\ KindAt(x) /\ PlaceAt(x) /\ FoundAt(x)
      /\ x.at \in 1..Len(x.cmd.rows) /\ Len(x.cmd.rows) \in Nat
      /\ x.sid \in SetIds => KeyOf(j) \in Keys
      /\ TablesType
      /\ x.cmd.kind = "set-price-sources" => x.cmd.name # None
      /\ x.cmd.kind \in {"process-set", "set-price-sources", "model-import"}
  <2>1. x.pc \in {"source", "exists", "link"} \/ (x.pc = "lookup" /\ More(j))
    BY DEF LookUp, TakeId, SetPriceSource, CardExists, SetCardCharacterModel, At, RowAt
  <2>2. x \in JobRows /\ x.cmd \in Commands /\ Cmd(j) = x.cmd /\ KindAt(x) /\ PlaceAt(x) /\ FoundAt(x)
    BY <2>1, Running
  <2>3. x.cmd.kind # "process-set"
    BY <2>1, <2>2 DEF KindAt
  <2>4. x.at \in 1..Len(x.cmd.rows) /\ Len(x.cmd.rows) \in Nat /\ (x.sid \in SetIds => KeyOf(j) \in Keys)
    BY <2>1, <2>2, OnARow DEF OnRow
  <2> QED
    BY <2>1, <2>2, <2>3, <2>4, CommandFacts DEF CommandsInv, OnRow
<1>1. CASE LookUp(j)
  <2>1. UNCHANGED <<tables, part>> /\ x.pc = "lookup" /\ x.cmd.name # None /\ x.sid \in SetIds /\ KeyOf(j) \in Keys
    BY <1>0, <1>1 DEF LookUp, RowAt, At, world, FoundAt, CardSteps
  <2>2. CASE cards[KeyOf(j)] # None
    <3> DEFINE p == IF Cmd(j).kind = "model-import" THEN "exists" ELSE "source"
               y == [x EXCEPT !.id = IdOf(KeyOf(j)), !.pc = p]
    <3>0. p \in {"exists", "source"} /\ (p = "exists" <=> x.cmd.kind = "model-import")
      BY <1>0
    <3>1. IdOf(KeyOf(j)) \in CardIds
      BY <1>0, <2>1, <2>2 DEF IdOf, CardIds, TablesType, CardRows
    <3>2. Goes(j, y)
      BY <1>1, <2>2 DEF LookUp
    <3> HIDE DEF p
    <3>3. y \in JobRows /\ y.pc = p /\ y.cmd = x.cmd /\ y.sid = x.sid /\ y.at = x.at /\ y.id = IdOf(KeyOf(j))
      BY <1>0, <3>0, <3>1 DEF JobRows, Steps, CardSteps
    <3>4. JobInv(y)
      BY <1>0, <2>1, <2>2, <3>0, <3>1, <3>3, StillOnRow DEF FoundAt, CardSteps, FigureSteps, OnRow
    <3> HIDE DEF y
    <3> QED
      BY <2>1, <3>0, <3>2, <3>3, <3>4, MovedOnly
  <2>3. CASE cards[KeyOf(j)] = None
    <3> DEFINE y == [NextRow(j, "lookup") EXCEPT !.bad = TRUE]
    <3>1. JobInv(y) /\ y.pc = "lookup" /\ Goes(j, y)
      BY <1>0, <1>1, <2>1, <2>3, NextRowInv DEF LookUp, Skip
    <3> HIDE DEF y
    <3> QED
      BY <2>1, <3>1, MovedOnly
  <2> QED
    BY <2>2, <2>3
<1>2. CASE TakeId(j)
  <2>1. UNCHANGED <<tables, part>> /\ x.pc = "lookup" /\ x.cmd.name = None
    BY <1>0, <1>2 DEF TakeId, RowAt, At, world
  <2>2. PICK id \in x.had : Goes(j, [x EXCEPT !.id = id, !.pc = "exists"])
    BY <1>2 DEF TakeId
  <2> DEFINE y == [x EXCEPT !.id = id, !.pc = "exists"]
  <2>3. id \in CardIds
    BY <1>0 DEF JobRows
  <2>4. y \in JobRows /\ y.pc = "exists" /\ y.cmd = x.cmd /\ y.sid = x.sid /\ y.at = x.at /\ y.id = id
    BY <1>0, <2>3 DEF JobRows, Steps, CardSteps
  <2>5. JobInv(y)
    BY <1>0, <2>1, <2>3, <2>4, StillOnRow DEF FoundAt, CardSteps, FigureSteps, OnRow
  <2> HIDE DEF y
  <2> QED
    BY <2>1, <2>2, <2>4, <2>5, MovedOnly DEF y
<1>3. CASE SetPriceSource(j)
  <2> DEFINE y == NextRow(j, "lookup")
  <2>1. x.pc = "source" /\ x.id \in CardIds /\ x.sid \in SetIds
    BY <1>0, <1>3 DEF SetPriceSource, At, FoundAt
  <2>2. JobInv(y) /\ y.pc = "lookup" /\ Goes(j, y)
    BY <1>0, <1>3, <2>1, NextRowInv DEF SetPriceSource
  <2>3. TablesType' /\ UNCHANGED <<sets, models, clips, part>>
    BY <1>0, <1>3, <2>1, ChildType DEF SetPriceSource, world, figures
  <2> HIDE DEF y
  <2> QED
    BY <2>2, <2>3, Moved DEF CommandsInv
<1>4. CASE CardExists(j)
  <2>1. UNCHANGED <<tables, part>> /\ x.pc = "exists" /\ x.cmd.kind = "model-import"
    BY <1>0, <1>4 DEF CardExists, At, world, KindAt
  <2>2. CASE Live(x.id)
    <3> DEFINE y == [x EXCEPT !.pc = "link"]
    <3>1. y \in JobRows /\ y.pc = "link" /\ y.cmd = x.cmd /\ y.sid = x.sid /\ y.at = x.at /\ y.id = x.id
      BY <1>0 DEF JobRows, Steps, CardSteps
    <3>2. JobInv(y) /\ Goes(j, y)
      BY <1>0, <1>4, <2>1, <2>2, <3>1, StillOnRow DEF FoundAt, CardSteps, FigureSteps, OnRow, CardExists, GoTo
    <3> HIDE DEF y
    <3> QED
      BY <2>1, <3>1, <3>2, MovedOnly
  <2>3. CASE ~Live(x.id)
    <3> DEFINE y == [NextRow(j, "lookup") EXCEPT !.bad = TRUE]
    <3>1. JobInv(y) /\ y.pc = "lookup" /\ Goes(j, y)
      BY <1>0, <1>4, <2>1, <2>3, NextRowInv DEF CardExists, Skip, FoundAt, CardSteps, OnRow
    <3> HIDE DEF y
    <3> QED
      BY <2>1, <3>1, MovedOnly
  <2> QED
    BY <2>2, <2>3
<1>5. CASE SetCardCharacterModel(j)
  <2> DEFINE y == NextRow(j, "lookup")
  <2>1. x.pc = "link" /\ x.id \in CardIds /\ x.cmd.char \in Models
    BY <1>0, <1>5, CommandFacts DEF SetCardCharacterModel, At, FoundAt, KindAt
  <2>2. JobInv(y) /\ y.pc = "lookup" /\ Goes(j, y)
    BY <1>0, <1>5, <2>1, NextRowInv DEF SetCardCharacterModel, FoundAt, CardSteps, OnRow
  <2>3. TablesType' /\ UNCHANGED <<sets, models, clips, part>>
    BY <1>0, <1>5, <2>1, LinkCardType DEF SetCardCharacterModel, world, figures
  <2> HIDE DEF y
  <2> QED
    BY <2>2, <2>3, Moved DEF CommandsInv
<1> QED
  BY <1>1, <1>2, <1>3, <1>4, <1>5

\* A sequence is a function of its positions.
LEMMA SequenceIsFunction ==
  ASSUME NEW S, NEW s \in Seq(S) PROVE s \in [1..Len(s) -> S]
OBVIOUS

\* Some more of a download: the parts that have come are versions of the model.
LEMMA PartsGrow ==
  ASSUME NEW s \in Seq(1..NewestPart), NEW v \in 1..NewestPart
  PROVE  /\ Append(s, v) \in Seq(1..NewestPart) /\ Len(Append(s, v)) = Len(s) + 1
         /\ \A p \in 1..(Len(s) + 1) : Append(s, v)[p] = IF p = Len(s) + 1 THEN v ELSE s[p]
OBVIOUS

\* The files are stored, or not, and the command goes on to its cards or ends.
LEMMA LinkingInv ==
  ASSUME CommandsInv, NEW j \in Jobs, NEW failed \in BOOLEAN, Linking(j, failed),
         job[j].pc \in FigureSteps, UNCHANGED <<tables, part>>
  PROVE  CommandsInv'
<1> DEFINE x == job[j]
<1>0. /\ x \in JobRows /\ x.cmd \in Commands /\ Cmd(j) = x.cmd /\ KindAt(x) /\ PlaceAt(x) /\ FoundAt(x)
      /\ x.cmd.kind = "model-import" /\ Len(x.cmd.rows) \in Nat
  BY Running, CommandFacts DEF KindAt, FigureSteps
<1>1. CASE Cmd(j).rows = <<>>
  BY <1>1, EndsInv DEF Linking
<1>2. CASE Cmd(j).rows # <<>>
  <2> DEFINE p == IF Cmd(j).name = None THEN "lookup" ELSE "set"
             y == [x EXCEPT !.pc = p, !.parts = <<>>, !.at = 1, !.bad = failed]
  <2>1. p \in {"lookup", "set"} /\ (p = "lookup" <=> x.cmd.name = None)
    BY <1>0
  <2>2. Goes(j, y)
    BY <1>2 DEF Linking
  <2> HIDE DEF p
  <2>3. << >> \in Seq(1..NewestPart) /\ p \in Steps
    BY <2>1 DEF Steps, CardSteps
  <2>4. /\ y \in JobRows /\ y.pc = p /\ y.cmd = x.cmd /\ y.sid = x.sid /\ y.at = 1 /\ y.known = x.known
    BY <1>0, <2>3 DEF JobRows
  <2> HIDE DEF y
  <2>5. KindAt(y) /\ PlaceAt(y) /\ PartsAt(y)
    BY <1>0, <2>1, <2>4 DEF KindAt, PlaceAt, PartsAt, RowSteps, FigureSteps, OnRow
  <2>6. FoundAt(y)
    BY <1>0, <2>1, <2>4 DEF FoundAt, CardSteps, FigureSteps
  <2>7. JobInv(y) /\ y.pc # "metadata"
    BY <1>0, <2>1, <2>4, <2>5, <2>6, StillRuns
  <2> QED
    BY <2>2, <2>7, MovedOnly
<1> QED
  BY <1>1, <1>2

\* The steps about the files of a model.
LEMMA FigureStepsInv ==
  ASSUME CommandsInv, NEW j \in Jobs,
         Download(j) \/ ImportFails(j) \/ StoreModel(j) \/ Clip(j) \/ AudioDone(j)
  PROVE  CommandsInv'
<1> DEFINE x == job[j]
<1>0. /\ x \in JobRows /\ x.cmd \in Commands /\ Cmd(j) = x.cmd /\ x.pc \in FigureSteps
      /\ KindAt(x) /\ PlaceAt(x) /\ FoundAt(x) /\ PartsAt(x)
      /\ x.cmd.kind = "model-import" /\ x.cmd.char \in Models /\ Len(x.cmd.rows) \in Nat
      /\ x.parts \in Seq(1..NewestPart) /\ Len(x.parts) \in Nat
  <2>1. x.pc \in FigureSteps
    BY DEF Download, ImportFails, StoreModel, Clip, AudioDone, At, FigureSteps
  <2>2. x \in JobRows /\ x.cmd \in Commands /\ Cmd(j) = x.cmd /\ KindAt(x) /\ PlaceAt(x) /\ FoundAt(x) /\ PartsAt(x)
    BY <2>1, Running DEF FigureSteps
  <2>3. x.cmd.kind = "model-import"
    BY <2>1, <2>2 DEF KindAt
  <2>4. x.parts \in Seq(1..NewestPart)
    BY <2>2 DEF JobRows
  <2> QED
    BY <2>1, <2>2, <2>3, <2>4, CommandFacts
<1>1. CASE Download(j)
  <2> DEFINE p == IF Len(job[j].parts) + 1 = Parts THEN "store" ELSE "fetch"
             more == Append(x.parts, part[Cmd(j).char])
             y == [x EXCEPT !.parts = more, !.pc = p]
  <2>1. UNCHANGED <<tables, part>> /\ x.pc = "fetch" /\ Len(x.parts) < Parts
    BY <1>0, <1>1 DEF Download, At, world, PartsAt
  <2>2. p \in {"fetch", "store"} /\ (p = "store" <=> Len(x.parts) + 1 = 3)
    BY <1>0 DEF Parts
  <2>3. part[Cmd(j).char] \in 1..NewestPart
    BY <1>0 DEF CommandsInv
  <2>4. more \in Seq(1..NewestPart) /\ Len(more) = Len(x.parts) + 1
    BY <1>0, <2>3, PartsGrow
  <2>5. Goes(j, y)
    BY <1>1 DEF Download
  <2> HIDE DEF p, more
  <2>6. y \in JobRows /\ y.pc = p /\ y.cmd = x.cmd /\ y.sid = x.sid /\ y.at = x.at /\ y.known = x.known /\ y.parts = more
    BY <1>0, <2>2, <2>4 DEF JobRows, Steps, FigureSteps
  <2> HIDE DEF y
  <2>7. KindAt(y) /\ PlaceAt(y) /\ FoundAt(y)
    BY <1>0, <2>1, <2>2, <2>6 DEF KindAt, PlaceAt, FoundAt, RowSteps, CardSteps, FigureSteps, OnRow
  <2>8. PartsAt(y)
    <3>1. Len(y.parts) = Len(x.parts) + 1
      BY <2>4, <2>6
    <3> QED
      BY <1>0, <2>1, <2>2, <2>6, <3>1 DEF PartsAt, Parts
  <2>9. JobInv(y) /\ y.pc # "metadata"
    BY <1>0, <2>2, <2>6, <2>7, <2>8, StillRuns
  <2> QED
    BY <2>1, <2>5, <2>9, MovedOnly
<1>2. CASE ImportFails(j)
  BY <1>0, <1>2, LinkingInv DEF ImportFails, world
<1>3. CASE StoreModel(j)
  <2> DEFINE y == [x EXCEPT !.pc = "audio"]
  <2>1. x.pc = "store" /\ Goes(j, y) /\ UNCHANGED part /\ x.at = 1 /\ Len(x.parts) = Parts
    BY <1>0, <1>3 DEF StoreModel, At, GoTo, PlaceAt, PartsAt
  <2>2. y \in JobRows /\ y.pc = "audio" /\ y.cmd = x.cmd /\ y.sid = x.sid /\ y.at = 1 /\ y.known = x.known
    BY <1>0, <2>1 DEF JobRows, Steps, FigureSteps
  <2> HIDE DEF y
  <2>3. KindAt(y) /\ FoundAt(y) /\ PartsAt(y)
    BY <1>0, <2>1, <2>2 DEF KindAt, FoundAt, PartsAt, RowSteps, CardSteps, FigureSteps
  <2>4. PlaceAt(y)
    BY <2>2, CommandsAssumption DEF PlaceAt, OnRow
  <2>5. JobInv(y)
    BY <1>0, <2>2, <2>3, <2>4, StillRuns
  <2>6. x.parts \in [1..Parts -> 1..NewestPart]
    <3>1. x.parts \in [1..Len(x.parts) -> 1..NewestPart]
      BY <1>0, SequenceIsFunction
    <3> QED
      BY <2>1, <3>1
  <2>7. /\ TablesType' /\ UNCHANGED <<sets, clips>>
        /\ models' \in [Models -> [1..Parts -> 1..NewestPart] \cup {None}]
    BY <1>0, <1>3, <2>6 DEF StoreModel, UpsertCharacterModel, CommandsInv, TablesType, children
  <2> QED
    BY <2>1, <2>2, <2>5, <2>7, Moved DEF CommandsInv
<1>4. CASE Clip(j)
  <2> DEFINE y == NextRow(j, "audio")
  <2>1. x.pc = "audio" /\ Goes(j, y) /\ UNCHANGED part /\ x.at \in 1..Clips /\ Clips \in Nat
    BY <1>0, <1>4, CommandsAssumption DEF Clip, At, PlaceAt, world
  <2>2. y = [x EXCEPT !.at = x.at + 1, !.pc = "audio", !.id = None]
    BY DEF NextRow
  <2> HIDE DEF y
  <2>3. y \in JobRows /\ y.pc = "audio" /\ y.cmd = x.cmd /\ y.sid = x.sid /\ y.at = x.at + 1 /\ y.known = x.known
    <3>1. "audio" \in Steps /\ x.at + 1 \in Nat
      BY <1>0, <2>1 DEF Steps, FigureSteps
    <3> HIDE DEF x
    <3> QED
      BY <1>0, <2>2, <3>1 DEF JobRows
  <2>4. KindAt(y) /\ FoundAt(y) /\ PartsAt(y)
    BY <1>0, <2>1, <2>3 DEF KindAt, FoundAt, PartsAt, RowSteps, CardSteps, FigureSteps
  <2>5. PlaceAt(y)
    BY <2>1, <2>3 DEF PlaceAt, OnRow
  <2>6. JobInv(y)
    BY <1>0, <2>3, <2>4, <2>5, StillRuns
  <2>7. /\ TablesType' /\ UNCHANGED <<sets, models>>
        /\ clips' \in [Models -> SUBSET (1..Clips)]
    <3>1. CASE UpsertCharacterModelAudio(Cmd(j).char, job[j].at)
      BY <1>0, <2>1, <3>1 DEF UpsertCharacterModelAudio, CommandsInv, TablesType, children
    <3>2. CASE UNCHANGED tables
      BY <3>2 DEF tables, CommandsInv, TablesType
    <3> QED
      BY <1>4, <3>1, <3>2 DEF Clip
  <2> QED
    BY <2>1, <2>3, <2>6, <2>7, Moved DEF CommandsInv
<1>5. CASE AudioDone(j)
  BY <1>0, <1>5, LinkingInv DEF AudioDone, world
<1> QED
  BY <1>1, <1>2, <1>3, <1>4, <1>5

\* The steps any command may take.
LEMMA AnyStepInv ==
  ASSUME CommandsInv, NEW j \in Jobs, Finish(j) \/ SkipRow(j) \/ Kill(j)
  PROVE  CommandsInv'
<1>1. CASE Finish(j) \/ Kill(j)
  BY <1>1, EndsInv DEF Finish, Kill, world
<1>2. ASSUME NEW p \in {"row", "lookup"}, Skip(j, p), UNCHANGED <<tables, part>>,
             job[j].pc \in OnRow, p = "row" <=> job[j].pc \in {"upsert", "select"},
             job[j].pc \notin {"create", "image"}
      PROVE  CommandsInv'
  <2> DEFINE y == [NextRow(j, p) EXCEPT !.bad = TRUE]
  <2>1. KindAt(job[j]) /\ FoundAt(job[j]) /\ Cmd(j) = job[j].cmd
    BY <1>2, Running DEF OnRow
  <2>2. p = "row" <=> Cmd(j).kind = "process-set"
    BY <1>2, <2>1 DEF KindAt, OnRow, RowSteps
  <2>3. p = "lookup" /\ Cmd(j).name # None => job[j].sid \in SetIds
    BY <1>2, <2>1 DEF FoundAt, OnRow, CardSteps
  <2>4. JobInv(y) /\ y.pc = p /\ Goes(j, y)
    BY <1>2, <2>2, <2>3, NextRowInv DEF Skip
  <2> HIDE DEF y
  <2> QED
    BY <1>2, <2>4, MovedOnly
<1>3. CASE SkipRow(j)
  <2>1. UNCHANGED <<tables, part>>
    BY <1>3 DEF SkipRow, world
  <2>2. CASE job[j].pc \in {"upsert", "select"} /\ Skip(j, "row")
    BY <1>2, <2>1, <2>2 DEF OnRow
  <2>3. CASE job[j].pc \in {"source", "exists", "link"} /\ Skip(j, "lookup")
    BY <1>2, <2>1, <2>3 DEF OnRow
  <2> QED
    BY <1>3, <2>2, <2>3 DEF SkipRow
<1> QED
  BY <1>1, <1>3

\* Starting a command.
LEMMA StartInv ==
  ASSUME CommandsInv, NEW j \in Jobs, NEW c \in Commands, Start(j, c) PROVE CommandsInv'
<1> DEFINE others == {k \in Jobs \ {j} : job[k] # Idle}
           first == others = {}
           y == [Idle EXCEPT !.cmd = c, !.pc = FirstStep(c), !.alone = first, !.had = LiveIds]
<1>1. /\ job' = [k \in Jobs |-> IF k = j THEN y
                                ELSE IF k \in others THEN [job[k] EXCEPT !.alone = FALSE] ELSE job[k]]
      /\ UNCHANGED <<tables, part>>
  BY DEF Start
<1>2. JobInv(y) /\ y.pc # "metadata"
  <2>1. LiveIds \in SUBSET CardIds
    BY LiveIdsType DEF CommandsInv
  <2>2. /\ FirstStep(c) \in {"row", "set", "fetch"}
        /\ FirstStep(c) = "row" => c.kind = "process-set"
        /\ FirstStep(c) = "set" => c.name # None
        /\ FirstStep(c) = "fetch" => c.kind = "model-import"
    BY CommandFacts DEF FirstStep
  <2>3. first \in BOOLEAN /\ FirstStep(c) \in Steps
    BY <2>2 DEF Steps, RowSteps, FigureSteps
  <2>4. Idle \in JobRows
    BY IdleInv DEF JobInv
  <2>5. Idle.at = 1 /\ Idle.sid = None /\ Idle.parts = <<>>
    BY DEF Idle
  <2> HIDE DEF first
  <2>6. /\ y \in JobRows /\ y.pc = FirstStep(c) /\ y.cmd = c /\ y.at = 1 /\ y.sid = None /\ y.known = Idle.known
        /\ y.parts = <<>>
    BY <2>1, <2>3, <2>4, <2>5 DEF JobRows
  <2> HIDE DEF y
  <2>7. KindAt(y) /\ PlaceAt(y) /\ FoundAt(y) /\ PartsAt(y)
    BY <2>2, <2>6, CommandFacts DEF KindAt, PlaceAt, FoundAt, PartsAt, Parts, RowSteps, CardSteps, FigureSteps, OnRow
  <2> QED
    BY <2>2, <2>6, <2>7, StillRuns
<1> HIDE DEF y
<1>3. ASSUME NEW k \in Jobs PROVE JobInv(job'[k]) /\ (job'[k].pc = "metadata" => job'[k].pc = job[k].pc /\ job'[k].sid = job[k].sid)
  <2>1. CASE k = j
    BY <1>1, <1>2, <2>1
  <2>2. CASE k # j /\ k \notin others
    BY <1>1, <2>2 DEF CommandsInv
  <2>3. CASE k # j /\ k \in others
    <3> DEFINE x == job[k]
               z == [x EXCEPT !.alone = FALSE]
    <3>1. job'[k] = z /\ x # Idle
      BY <1>1, <2>3
    <3>2. x \in JobRows /\ x.cmd \in Commands /\ x.pc # "idle" /\ KindAt(x) /\ PlaceAt(x) /\ FoundAt(x) /\ PartsAt(x)
      BY <3>1, Running
    <3>3. /\ z \in JobRows /\ z.pc = x.pc /\ z.cmd = x.cmd /\ z.at = x.at /\ z.sid = x.sid /\ z.id = x.id
          /\ z.known = x.known /\ z.parts = x.parts
      BY <3>2 DEF JobRows
    <3> HIDE DEF x, z
    <3>4. KindAt(z) /\ PlaceAt(z) /\ FoundAt(z) /\ PartsAt(z)
      BY <3>2, <3>3 DEF KindAt, PlaceAt, FoundAt, PartsAt
    <3> QED
      BY <3>1, <3>2, <3>3, <3>4, StillRuns DEF x
  <2> QED
    BY <2>1, <2>2, <2>3
<1>4. job' = [k \in Jobs |-> job'[k]]
  BY <1>1
<1>5. UNCHANGED <<sets, models, clips, part>> /\ TablesType'
  BY <1>1 DEF tables, CommandsInv, TablesType
<1> QED
  BY <1>3, <1>4, <1>5 DEF CommandsInv, At

\* What a program step, its start, the source and the app do to a command.
LEMMA CommandsStep == CommandsInv /\ [Next]_vars => CommandsInv'
<1> SUFFICES ASSUME CommandsInv, [Next]_vars PROVE CommandsInv'
  OBVIOUS
<1>1. ASSUME NEW j \in Jobs, Step(j) PROVE CommandsInv'
  BY <1>1, SetStepsInv, RowStepsInv, CardStepsInv, FigureStepsInv, AnyStepInv DEF Step
<1>2. ASSUME NEW j \in Jobs, NEW c \in Commands, Start(j, c) PROVE CommandsInv'
  BY <1>2, StartInv
<1>3. ASSUME NEW m \in Models, SourceChanges(m) PROVE CommandsInv'
  <2>1. UNCHANGED <<tables>> /\ part' \in [Models -> 1..NewestPart]
    BY <1>3, CommandsAssumption DEF SourceChanges, CommandsInv
  <2>2. ASSUME NEW j \in Jobs
        PROVE JobInv(job'[j]) /\ job'[j].pc = job[j].pc /\ job'[j].sid = job[j].sid
    <3> DEFINE x == job[j]
               z == [x EXCEPT !.changed = TRUE]
    <3>1. CASE job'[j] = x
      BY <3>1 DEF CommandsInv
    <3>2. CASE job'[j] # x
      <4>1. job'[j] = z /\ x.pc # "idle"
        BY <1>3, <3>2 DEF SourceChanges, At
      <4>2. x \in JobRows /\ x.cmd \in Commands /\ KindAt(x) /\ PlaceAt(x) /\ FoundAt(x) /\ PartsAt(x)
        BY <4>1, Running
      <4>3. /\ z \in JobRows /\ z.pc = x.pc /\ z.cmd = x.cmd /\ z.at = x.at /\ z.sid = x.sid /\ z.id = x.id
            /\ z.known = x.known /\ z.parts = x.parts
        BY <4>2 DEF JobRows
      <4> HIDE DEF x, z
      <4>4. KindAt(z) /\ PlaceAt(z) /\ FoundAt(z) /\ PartsAt(z)
        BY <4>2, <4>3 DEF KindAt, PlaceAt, FoundAt, PartsAt
      <4> QED
        BY <4>1, <4>2, <4>3, <4>4, StillRuns DEF x
    <3> QED
      BY <3>1, <3>2
  <2>3. job' = [j \in Jobs |-> job'[j]]
    BY <1>3 DEF SourceChanges
  <2> QED
    BY <2>1, <2>2, <2>3 DEF CommandsInv, At, tables, TablesType
<1>4. CASE App
  <2>1. UNCHANGED <<job, part>>
    BY <1>4 DEF App, world
  <2>2. \E id \in CardIds : OwnCopy(id) \/ DisownCopies(id)
    BY <1>4, LiveIdsType DEF App, CommandsInv, TablesType
  <2>3. TablesType' /\ UNCHANGED <<sets, models, clips>>
    BY <2>2, ChildType DEF CommandsInv, figures
  <2> QED
    BY <2>1, <2>3 DEF CommandsInv, At
<1>5. CASE PageLinks
  <2>1. PICK id \in LiveIds, m \in Models \cup {None} : LinkCard(id, m)
    BY <1>5 DEF PageLinks
  <2>2. TablesType' /\ UNCHANGED <<sets, models, clips, part>>
    BY <1>5, <2>1, LiveIdsType, LinkCardType DEF CommandsInv, figures, PageLinks, world
  <2>3. ASSUME NEW j \in Jobs
        PROVE JobInv(job'[j]) /\ job'[j].pc = job[j].pc /\ job'[j].sid = job[j].sid
    <3> DEFINE x == job[j]
               z == [x EXCEPT !.alone = FALSE]
    <3>1. CASE x = Idle
      BY <1>5, <3>1 DEF PageLinks, CommandsInv
    <3>2. CASE x # Idle
      <4>1. job'[j] = z
        BY <1>5, <3>2 DEF PageLinks
      <4>2. x \in JobRows /\ x.cmd \in Commands /\ KindAt(x) /\ PlaceAt(x) /\ FoundAt(x) /\ PartsAt(x) /\ x.pc # "idle"
        BY <3>2, Running
      <4>3. /\ z \in JobRows /\ z.pc = x.pc /\ z.cmd = x.cmd /\ z.at = x.at /\ z.sid = x.sid /\ z.id = x.id
            /\ z.known = x.known /\ z.parts = x.parts
        BY <4>2 DEF JobRows
      <4> HIDE DEF x, z
      <4>4. KindAt(z) /\ PlaceAt(z) /\ FoundAt(z) /\ PartsAt(z)
        BY <4>2, <4>3 DEF KindAt, PlaceAt, FoundAt, PartsAt
      <4> QED
        BY <4>1, <4>2, <4>3, <4>4, StillRuns DEF x
    <3> QED
      BY <3>1, <3>2
  <2>4. job' = [j \in Jobs |-> job'[j]]
    BY <1>5 DEF PageLinks
  <2> QED
    BY <2>2, <2>3, <2>4 DEF CommandsInv, At
<1>6. CASE UNCHANGED vars
  BY <1>6 DEF vars, world, tables, CommandsInv, TablesType, At
<1> QED
  BY <1>1, <1>2, <1>3, <1>4, <1>5, <1>6 DEF Next

\* Whatever the files hold, however the commands interleave and wherever they are
\* killed, the tables and what each command remembers are as its program expects.
THEOREM CommandsAsWritten == Spec => []CommandsInv
<1>1. Init => CommandsInv
  <2> SUFFICES ASSUME Init PROVE CommandsInv
    OBVIOUS
  <2>1. \A j \in Jobs : JobInv(job[j]) /\ job[j].pc = "idle"
    BY IdleInv DEF Init
  <2>2. TablesType /\ models \in [Models -> [1..Parts -> 1..NewestPart] \cup {None}] /\ clips \in [Models -> SUBSET (1..Clips)]
    BY DEF Init, TablesInit, TablesType
  <2>3. part \in [Models -> 1..NewestPart] /\ job = [j \in Jobs |-> job[j]]
    BY CommandsAssumption DEF Init
  <2> QED
    BY <2>1, <2>2, <2>3 DEF CommandsInv, At
<1> QED
  BY <1>1, CommandsStep, PTL DEF Spec

\* Every variable holds a value of its type.
THEOREM TypeCorrect == Spec => []TypeOK
<1>1. CommandsInv => TypeOK
  BY Running DEF CommandsInv, TypeOK, JobInv, JobRows, PlaceAt, At, Cmd
<1> QED
  BY <1>1, CommandsAsWritten, PTL

-----------------------------------------------------------------------------
(* Who has a card.                                                         *)

\* A step takes no card from its owner, and nobody comes to own one that is gone.
LEMMA OwnedStep ==
  ASSUME CommandsInv, OwnedLive, [Next]_vars
  PROVE  OwnedLive' /\ \A id \in owned : Live(id)'
<1> USE DEF OwnedLive, Live
<1>0. TablesType /\ \A id \in owned : id \in CardIds /\ id.key \in Keys
  BY DEF CommandsInv, TablesType, CardIds
<1>1. CASE UNCHANGED <<cards, owned>>
  BY <1>1
<1>2. ASSUME NEW j \in Jobs, ImportCard(j) PROVE OwnedLive' /\ \A id \in owned : Live(id)'
  <2>1. At(j, "upsert") /\ job[j].pc \in OnRow /\ UpsertCard(KeyOf(j), CurrentRow(j).text)
    BY <1>2 DEF ImportCard, At, OnRow
  <2>2. KeyOf(j) \in Keys /\ CurrentRow(j).text \in Texts
    BY <2>1, Running, OnARow DEF FoundAt, At
  <2>3. /\ \A k \in Keys : cards[k] # None => cards'[k] # None /\ cards'[k].gen = cards[k].gen
        /\ UNCHANGED owned
    BY <1>0, <2>1, <2>2, UpsertCardType DEF children
  <2> QED
    BY <1>0, <2>3
<1>3. ASSUME NEW j \in Jobs, Reconcile(j) PROVE OwnedLive' /\ \A id \in owned : Live(id)'
  <2>1. Gone(j) \in SUBSET Keys
    BY DEF Gone, Wiped
  <2>2. /\ \A q \in Keys : q \notin Gone(j) => cards'[q] = cards[q]
        /\ \A id \in owned : id.key \notin Gone(j)
        /\ owned' \subseteq owned
    BY <1>0, <1>3, <2>1, DeleteCardsType DEF Reconcile
  <2> QED
    BY <1>0, <2>2
<1>4. ASSUME NEW id \in CardIds, OwnCopy(id) \/ DisownCopies(id) PROVE OwnedLive' /\ \A i \in owned : Live(i)'
  <2>1. UNCHANGED cards /\ \A i \in owned' : i \in owned \/ Live(i)
    BY <1>0, <1>4, ChildType
  <2> QED
    BY <2>1
<1>5. ASSUME NEW id \in CardIds, NEW m \in Models \cup {None}, LinkCard(id, m) PROVE OwnedLive' /\ \A i \in owned : Live(i)'
  <2>1. /\ \A k \in Keys : cards[k] # None => cards'[k] # None /\ cards'[k].gen = cards[k].gen
        /\ UNCHANGED owned
    BY <1>0, <1>5, LinkCardType DEF children
  <2> QED
    BY <1>0, <2>1
<1>6. ASSUME NEW j \in Jobs, SetCardCharacterModel(j) PROVE OwnedLive' /\ \A id \in owned : Live(id)'
  <2>1. /\ job[j].id \in CardIds /\ Cmd(j).char \in Models
    BY <1>6, Running, CommandFacts DEF SetCardCharacterModel, At, FoundAt, KindAt
  <2> QED
    BY <1>5, <1>6, <2>1 DEF SetCardCharacterModel
<1>7. ASSUME NEW j \in Jobs, Step(j), ~ImportCard(j), ~Reconcile(j), ~SetCardCharacterModel(j)
      PROVE  UNCHANGED <<cards, owned>>
  BY <1>7 DEF Step, FindSet, UpsertSetMetadata, RefuseToWipe, ResolveSet, CreateSet, SelectCard, AttachImage,
     LookUp, TakeId, SetPriceSource, CardExists, Download, ImportFails, StoreModel, Clip, AudioDone, Finish,
     SkipRow, Kill, InsertSet, UpdateSet, UpsertCardImage, UpsertPriceSource, UpsertCharacterModel,
     UpsertCharacterModelAudio, tables, children
<1>8. ASSUME NEW j \in Jobs, NEW c \in Commands, Start(j, c) PROVE UNCHANGED <<cards, owned>>
  BY <1>8 DEF Start, tables
<1>9. ASSUME NEW m \in Models, SourceChanges(m) PROVE UNCHANGED <<cards, owned>>
  BY <1>9 DEF SourceChanges, tables
<1>10. CASE App
  BY <1>0, <1>4, <1>10, LiveIdsType DEF App
<1>11. CASE PageLinks
  BY <1>0, <1>5, <1>11, LiveIdsType DEF PageLinks
<1>12. CASE UNCHANGED vars
  BY <1>1, <1>12 DEF vars, tables
<1> QED
  BY <1>1, <1>2, <1>3, <1>6, <1>7, <1>8, <1>9, <1>10, <1>11, <1>12 DEF Next

\* No import takes a card away from somebody who owns it.
THEOREM OwnersKeepCards == Spec => OwnedCardsStay
<1>1. Init => OwnedLive
  BY DEF Init, TablesInit, OwnedLive
<1>2. CommandsInv /\ OwnedLive /\ [Next]_vars => OwnedLive'
  BY OwnedStep
<1>3. CommandsInv /\ OwnedLive /\ [Next]_vars => [\A id \in owned : Live(id)']_vars
  BY OwnedStep
<1> QED
  BY <1>1, <1>2, <1>3, CommandsAsWritten, PTL DEF Spec, OwnedCardsStay

-----------------------------------------------------------------------------
(* What each step does to the memory of its command.                       *)

Keep(x, y) == y.cmd = x.cmd /\ y.alone = x.alone /\ y.had = x.had /\ y.changed = x.changed

OnWith(x, y, pc) ==
    Keep(x, y) /\ y.pc = pc /\ y.at = x.at /\ y.sid = x.sid /\ y.known = x.known /\ y.bad = x.bad

NextOne(x, y, bad) ==
    /\ x.pc \in OnRow \cup {"lookup"}
    /\ Keep(x, y) /\ y.pc = (IF x.cmd.kind = "process-set" THEN "row" ELSE "lookup")
    /\ y.at = x.at + 1 /\ y.sid = x.sid /\ y.known = x.known /\ y.bad = bad

\* A row is done with, or skipped.
LEMMA NextRowMoves ==
  ASSUME NEW x \in JobRows, NEW pc \in {"row", "lookup"}, pc = "row" <=> x.cmd.kind = "process-set",
         NEW y, y = [x EXCEPT !.at = @ + 1, !.pc = pc, !.id = None], x.pc \in OnRow \cup {"lookup"}
  PROVE  NextOne(x, y, x.bad) /\ NextOne(x, [y EXCEPT !.bad = TRUE], TRUE)
<1>1. /\ y.pc = pc /\ y.at = x.at + 1 /\ y.cmd = x.cmd /\ y.alone = x.alone /\ y.had = x.had
      /\ y.changed = x.changed /\ y.sid = x.sid /\ y.known = x.known /\ y.bad = x.bad
  BY DEF JobRows
<1> DEFINE z == [y EXCEPT !.bad = TRUE]
<1>2. /\ z.pc = pc /\ z.at = x.at + 1 /\ z.cmd = x.cmd /\ z.alone = x.alone /\ z.had = x.had
      /\ z.changed = x.changed /\ z.sid = x.sid /\ z.known = x.known /\ z.bad = TRUE
  BY DEF JobRows
<1> HIDE DEF z
<1> QED
  BY <1>1, <1>2 DEF NextOne, Keep, z

\* The same of a command.
LEMMA SkipMoves ==
  ASSUME CommandsInv, NEW j \in Jobs, job[j] \in JobRows, NEW pc \in {"row", "lookup"},
         pc = "row" <=> job[j].cmd.kind = "process-set", job[j].pc \in OnRow \cup {"lookup"}
  PROVE  /\ Skip(j, pc) => NextOne(job[j], job'[j], TRUE)
         /\ Goes(j, NextRow(j, pc)) => NextOne(job[j], job'[j], job[j].bad)
<1> DEFINE x == job[j]
           z == NextRow(j, pc)
<1>1. z = [x EXCEPT !.at = @ + 1, !.pc = pc, !.id = None]
  BY DEF NextRow
<1> HIDE DEF z
<1>2. NextOne(x, z, x.bad) /\ NextOne(x, [z EXCEPT !.bad = TRUE], TRUE)
  BY <1>1, NextRowMoves
<1>3. Skip(j, pc) => job'[j] = [z EXCEPT !.bad = TRUE]
  BY GoesTo DEF Skip, z
<1>4. Goes(j, z) => job'[j] = z
  BY GoesTo
<1> QED
  BY <1>2, <1>3, <1>4 DEF z

\* The steps about sets.
LEMMA SetMoves ==
  ASSUME CommandsInv, NEW j \in Jobs
  PROVE  LET x == job[j]
             y == job'[j]
             n == Cmd(j).name IN
         /\ FindSet(j) => \/ y = Idle
                          \/ /\ Keep(x, y) /\ y.known = x.known /\ y.bad = x.bad /\ y.at = 1
                             /\ \/ y.pc = "metadata" /\ y.sid = None /\ Named(n) = {}
                                \/ /\ y.sid \in Named(n)
                                   /\ y.pc = IF Cmd(j).kind = "process-set" THEN "metadata" ELSE "lookup"
         /\ UpsertSetMetadata(j) =>
               /\ Keep(x, y) /\ y.bad = x.bad /\ y.at = x.at
               /\ y.pc = IF Cmd(j).refresh THEN "reconcile" ELSE "row"
               /\ y.sid = (IF x.sid = None THEN NextSet ELSE x.sid)
               /\ y.known = [x.known EXCEPT ![n] = y.sid]
         /\ Reconcile(j) => OnWith(x, y, "row")
         /\ RefuseToWipe(j) => y = Idle
<1> DEFINE x == job[j]
           y == job'[j]
           n == Cmd(j).name
<1>1. ASSUME FindSet(j)
      PROVE  \/ y = Idle
             \/ /\ Keep(x, y) /\ y.known = x.known /\ y.bad = x.bad /\ y.at = 1
                /\ \/ y.pc = "metadata" /\ y.sid = None /\ Named(n) = {}
                   \/ /\ y.sid \in Named(n)
                      /\ y.pc = IF Cmd(j).kind = "process-set" THEN "metadata" ELSE "lookup"
  <2>1. x \in JobRows /\ x.at = 1 /\ x.sid = None
    BY <1>1, Running DEF FindSet, At, PlaceAt, FoundAt
  <2>2. CASE \E i \in Named(n) : Goes(j, [x EXCEPT !.sid = i, !.at = 1,
                       !.pc = IF Cmd(j).kind = "process-set" THEN "metadata" ELSE "lookup"])
    <3> DEFINE pc == IF Cmd(j).kind = "process-set" THEN "metadata" ELSE "lookup"
    <3>1. PICK i \in Named(n) : Goes(j, [x EXCEPT !.sid = i, !.at = 1, !.pc = pc])
      BY <2>2
    <3>2. y = [x EXCEPT !.sid = i, !.at = 1, !.pc = pc]
      BY <3>1, GoesTo
    <3> HIDE DEF pc
    <3>3. Keep(x, y) /\ y.known = x.known /\ y.bad = x.bad /\ y.at = 1 /\ y.sid = i /\ y.pc = pc
      BY <2>1, <3>2 DEF Keep, JobRows
    <3> QED
      BY <3>1, <3>3 DEF pc
  <2>3. CASE Named(n) = {} /\ GoTo(j, "metadata")
    <3>1. y = [x EXCEPT !.pc = "metadata"]
      BY <2>3, GoesTo DEF GoTo
    <3> QED
      BY <2>1, <2>3, <3>1 DEF Keep, JobRows
  <2>4. CASE Ends(j)
    BY <2>4, GoesTo DEF Ends
  <2> QED
    BY <1>1, <2>2, <2>3, <2>4 DEF FindSet
<1>2. ASSUME UpsertSetMetadata(j)
      PROVE  /\ Keep(x, y) /\ y.bad = x.bad /\ y.at = x.at
             /\ y.pc = IF Cmd(j).refresh THEN "reconcile" ELSE "row"
             /\ y.sid = (IF x.sid = None THEN NextSet ELSE x.sid)
             /\ y.known = [x.known EXCEPT ![n] = y.sid]
  <2> DEFINE i == IF x.sid = None THEN NextSet ELSE x.sid
             pc == IF Cmd(j).refresh THEN "reconcile" ELSE "row"
  <2>1. x \in JobRows
    BY <1>2, Running DEF UpsertSetMetadata, At
  <2>2. y = [x EXCEPT !.known[n] = i, !.sid = i, !.pc = pc]
    BY <1>2, GoesTo DEF UpsertSetMetadata
  <2> HIDE DEF i, pc
  <2>3. /\ Keep(x, y) /\ y.bad = x.bad /\ y.at = x.at /\ y.pc = pc /\ y.sid = i
        /\ y.known = [x.known EXCEPT ![n] = i]
    BY <2>1, <2>2 DEF Keep, JobRows
  <2> QED
    BY <2>3 DEF i, pc
<1>3. ASSUME Reconcile(j) PROVE OnWith(x, y, "row")
  <2>1. x \in JobRows
    BY <1>3, Running DEF Reconcile, At
  <2>2. y = [x EXCEPT !.pc = "row"]
    BY <1>3, GoesTo DEF Reconcile, GoTo
  <2> QED
    BY <2>1, <2>2 DEF OnWith, Keep, JobRows
<1>4. ASSUME RefuseToWipe(j) PROVE y = Idle
  BY <1>4, GoesTo DEF RefuseToWipe, Ends
<1> QED
  BY <1>1, <1>2, <1>3, <1>4

\* The steps about a row of process-set.
LEMMA RowMoves ==
  ASSUME CommandsInv, NEW j \in Jobs
  PROVE  LET x == job[j]
             y == job'[j]
             n == CurrentRow(j).name IN
         /\ ResolveSet(j) => \/ OnWith(x, y, "create") /\ x.known[n] = None /\ Named(n) = {}
                             \/ /\ Keep(x, y) /\ y.bad = x.bad /\ y.at = x.at /\ y.pc = "upsert"
                                /\ y.known = [x.known EXCEPT ![n] = y.sid]
                                /\ IF x.known[n] # None THEN y.sid = x.known[n] ELSE y.sid \in Named(n)
         /\ CreateSet(j) => /\ Keep(x, y) /\ y.bad = x.bad /\ y.at = x.at /\ y.pc = "upsert" /\ y.sid = NextSet
                            /\ y.known = [x.known EXCEPT ![n] = NextSet]
         /\ ImportCard(j) => OnWith(x, y, "select")
         /\ SelectCard(j) => NextOne(x, y, TRUE) \/ (OnWith(x, y, "image") /\ cards[KeyOf(j)] # None)
         /\ AttachImage(j) => NextOne(x, y, x.bad)
<1> DEFINE x == job[j]
           y == job'[j]
           n == CurrentRow(j).name
<1>1. ASSUME ResolveSet(j)
      PROVE  \/ OnWith(x, y, "create") /\ x.known[n] = None /\ Named(n) = {}
             \/ /\ Keep(x, y) /\ y.bad = x.bad /\ y.at = x.at /\ y.pc = "upsert"
                /\ y.known = [x.known EXCEPT ![n] = y.sid]
                /\ IF x.known[n] # None THEN y.sid = x.known[n] ELSE y.sid \in Named(n)
  <2>1. x \in JobRows
    BY <1>1, Running DEF ResolveSet, RowAt, At
  <2>2. CASE x.known[n] = None /\ Named(n) = {} /\ GoTo(j, "create")
    <3>1. y = [x EXCEPT !.pc = "create"]
      BY <2>2, GoesTo DEF GoTo
    <3> QED
      BY <2>1, <2>2, <3>1 DEF OnWith, Keep, JobRows
  <2>3. ASSUME NEW i \in IF x.known[n] # None THEN {x.known[n]} ELSE Named(n),
               Goes(j, [x EXCEPT !.known[n] = i, !.sid = i, !.pc = "upsert"])
        PROVE  /\ Keep(x, y) /\ y.bad = x.bad /\ y.at = x.at /\ y.pc = "upsert"
               /\ y.known = [x.known EXCEPT ![n] = y.sid]
               /\ IF x.known[n] # None THEN y.sid = x.known[n] ELSE y.sid \in Named(n)
    <3>1. y = [x EXCEPT !.known[n] = i, !.sid = i, !.pc = "upsert"]
      BY <2>3, GoesTo
    <3>2. /\ Keep(x, y) /\ y.bad = x.bad /\ y.at = x.at /\ y.pc = "upsert"
          /\ y.known = [x.known EXCEPT ![n] = i] /\ y.sid = i
      BY <2>1, <3>1 DEF Keep, JobRows
    <3> QED
      BY <2>3, <3>2
  <2> QED
    BY <1>1, <2>2, <2>3 DEF ResolveSet
<1>2. ASSUME CreateSet(j)
      PROVE  /\ Keep(x, y) /\ y.bad = x.bad /\ y.at = x.at /\ y.pc = "upsert" /\ y.sid = NextSet
             /\ y.known = [x.known EXCEPT ![n] = NextSet]
  <2>1. x \in JobRows
    BY <1>2, Running DEF CreateSet, At
  <2>2. y = [x EXCEPT !.known[n] = NextSet, !.sid = NextSet, !.pc = "upsert"]
    BY <1>2, GoesTo DEF CreateSet
  <2> QED
    BY <2>1, <2>2 DEF Keep, JobRows
<1>3. ASSUME ImportCard(j) PROVE OnWith(x, y, "select")
  <2>1. x \in JobRows
    BY <1>3, Running DEF ImportCard, At
  <2>2. y = [x EXCEPT !.pc = "select"]
    BY <1>3, GoesTo DEF ImportCard, GoTo
  <2> QED
    BY <2>1, <2>2 DEF OnWith, Keep, JobRows
<1>4. ASSUME SelectCard(j) PROVE NextOne(x, y, TRUE) \/ (OnWith(x, y, "image") /\ cards[KeyOf(j)] # None)
  <2>1. x \in JobRows /\ x.cmd.kind = "process-set" /\ x.pc \in OnRow
    BY <1>4, Running DEF SelectCard, At, KindAt, RowSteps, OnRow
  <2>2. CASE cards[KeyOf(j)] # None
    <3>1. y = [x EXCEPT !.id = IdOf(KeyOf(j)), !.pc = "image"]
      BY <1>4, <2>2, GoesTo DEF SelectCard
    <3> QED
      BY <2>1, <2>2, <3>1 DEF OnWith, Keep, JobRows
  <2>3. CASE cards[KeyOf(j)] = None
    <3>1. Skip(j, "row")
      BY <1>4, <2>3 DEF SelectCard
    <3> QED
      BY <2>1, <3>1, SkipMoves
  <2> QED
    BY <2>2, <2>3
<1>5. ASSUME AttachImage(j) PROVE NextOne(x, y, x.bad)
  <2>1. x \in JobRows /\ x.cmd.kind = "process-set" /\ x.pc \in OnRow
    BY <1>5, Running DEF AttachImage, At, KindAt, RowSteps, OnRow
  <2> QED
    BY <1>5, <2>1, SkipMoves DEF AttachImage
<1> QED
  BY <1>1, <1>2, <1>3, <1>4, <1>5

\* The steps about a card found by its code.
LEMMA CardMoves ==
  ASSUME CommandsInv, NEW j \in Jobs
  PROVE  LET x == job[j]
             y == job'[j] IN
         /\ LookUp(j) => \/ NextOne(x, y, TRUE)
                         \/ /\ OnWith(x, y, IF Cmd(j).kind = "model-import" THEN "exists" ELSE "source")
                            /\ cards[KeyOf(j)] # None /\ y.id = IdOf(KeyOf(j))
         /\ TakeId(j) => OnWith(x, y, "exists") /\ y.id.key[2] = CurrentRow(j).code
         /\ SetPriceSource(j) => NextOne(x, y, x.bad)
         /\ CardExists(j) => NextOne(x, y, TRUE) \/ (OnWith(x, y, "link") /\ y.id = x.id /\ Live(x.id))
         /\ SetCardCharacterModel(j) => NextOne(x, y, x.bad)
<1> DEFINE x == job[j]
           y == job'[j]
<1>1. ASSUME LookUp(j)
      PROVE  \/ NextOne(x, y, TRUE)
             \/ /\ OnWith(x, y, IF Cmd(j).kind = "model-import" THEN "exists" ELSE "source")
                /\ cards[KeyOf(j)] # None /\ y.id = IdOf(KeyOf(j))
  <2>1. x \in JobRows /\ x.cmd.kind # "process-set" /\ x.pc \in OnRow \cup {"lookup"}
    BY <1>1, Running DEF LookUp, RowAt, At, KindAt, OnRow
  <2>2. CASE cards[KeyOf(j)] # None
    <3> DEFINE pc == IF Cmd(j).kind = "model-import" THEN "exists" ELSE "source"
    <3>1. y = [x EXCEPT !.id = IdOf(KeyOf(j)), !.pc = pc]
      BY <1>1, <2>2, GoesTo DEF LookUp
    <3> HIDE DEF pc
    <3>2. OnWith(x, y, pc) /\ y.id = IdOf(KeyOf(j))
      BY <2>1, <3>1 DEF OnWith, Keep, JobRows
    <3> QED
      BY <2>2, <3>2 DEF pc
  <2>3. CASE cards[KeyOf(j)] = None
    BY <1>1, <2>1, <2>3, SkipMoves DEF LookUp
  <2> QED
    BY <2>2, <2>3
<1>2. ASSUME TakeId(j) PROVE OnWith(x, y, "exists") /\ y.id.key[2] = CurrentRow(j).code
  <2>1. x \in JobRows
    BY <1>2, Running DEF TakeId, RowAt, At
  <2>2. PICK id \in x.had : id.key[2] = CurrentRow(j).code /\ Goes(j, [x EXCEPT !.id = id, !.pc = "exists"])
    BY <1>2 DEF TakeId
  <2>3. y = [x EXCEPT !.id = id, !.pc = "exists"]
    BY <2>2, GoesTo
  <2>4. OnWith(x, y, "exists") /\ y.id = id
    BY <2>1, <2>3 DEF OnWith, Keep, JobRows
  <2> QED
    BY <2>2, <2>4
<1>3. ASSUME SetPriceSource(j) PROVE NextOne(x, y, x.bad)
  <2>1. x \in JobRows /\ x.cmd.kind # "process-set" /\ x.pc \in OnRow \cup {"lookup"}
    BY <1>3, Running DEF SetPriceSource, At, KindAt, OnRow
  <2> QED
    BY <1>3, <2>1, SkipMoves DEF SetPriceSource
<1>4. ASSUME CardExists(j) PROVE NextOne(x, y, TRUE) \/ (OnWith(x, y, "link") /\ y.id = x.id /\ Live(x.id))
  <2>1. x \in JobRows /\ x.cmd.kind # "process-set" /\ x.pc \in OnRow \cup {"lookup"}
    BY <1>4, Running DEF CardExists, At, KindAt, OnRow
  <2>2. CASE Live(x.id)
    <3>1. y = [x EXCEPT !.pc = "link"]
      BY <1>4, <2>2, GoesTo DEF CardExists, GoTo
    <3> QED
      BY <2>1, <2>2, <3>1 DEF OnWith, Keep, JobRows
  <2>3. CASE ~Live(x.id)
    BY <1>4, <2>1, <2>3, SkipMoves DEF CardExists
  <2> QED
    BY <2>2, <2>3
<1>5. ASSUME SetCardCharacterModel(j) PROVE NextOne(x, y, x.bad)
  <2>1. x \in JobRows /\ x.cmd.kind # "process-set" /\ x.pc \in OnRow \cup {"lookup"}
    BY <1>5, Running DEF SetCardCharacterModel, At, KindAt, OnRow
  <2> QED
    BY <1>5, <2>1, SkipMoves DEF SetCardCharacterModel
<1> QED
  BY <1>1, <1>2, <1>3, <1>4, <1>5

ToCards(x, y) ==
    /\ Keep(x, y) /\ y.pc \in {"lookup", "set"} /\ y.at = 1 /\ y.sid = x.sid /\ y.known = x.known
    /\ y.parts = <<>>

\* The files of a model are dealt with.
LEMMA LinkingMoves ==
  ASSUME CommandsInv, NEW j \in Jobs, NEW failed \in BOOLEAN, Linking(j, failed), job[j] \in JobRows
  PROVE  job'[j] = Idle \/ ToCards(job[j], job'[j])
<1> DEFINE x == job[j]
           y == job'[j]
           pc == IF Cmd(j).name = None THEN "lookup" ELSE "set"
<1>1. CASE Ends(j)
  BY <1>1, GoesTo DEF Ends
<1>2. CASE Goes(j, [x EXCEPT !.pc = pc, !.parts = <<>>, !.at = 1, !.bad = failed])
  <2>1. y = [x EXCEPT !.pc = pc, !.parts = <<>>, !.at = 1, !.bad = failed]
    BY <1>2, GoesTo
  <2> HIDE DEF pc
  <2>2. Keep(x, y) /\ y.pc = pc /\ y.at = 1 /\ y.sid = x.sid /\ y.known = x.known /\ y.parts = <<>>
    BY <2>1 DEF Keep, JobRows
  <2> QED
    BY <2>2 DEF ToCards, pc
<1> QED
  BY <1>1, <1>2 DEF Linking

\* The steps about the files of a model.
LEMMA FigureMoves ==
  ASSUME CommandsInv, NEW j \in Jobs
  PROVE  LET x == job[j]
             y == job'[j] IN
         /\ Download(j) =>
               /\ Keep(x, y) /\ y.known = x.known
               /\ y.pc = IF Len(x.parts) + 1 = Parts THEN "store" ELSE "fetch"
               /\ y.parts = Append(x.parts, part[Cmd(j).char])
         /\ ImportFails(j) \/ AudioDone(j) => y = Idle \/ ToCards(x, y)
         /\ StoreModel(j) => Keep(x, y) /\ y.pc = "audio" /\ y.known = x.known
         /\ Clip(j) => Keep(x, y) /\ y.pc = "audio" /\ y.known = x.known
<1> DEFINE x == job[j]
           y == job'[j]
<1>1. ASSUME Download(j)
      PROVE  /\ Keep(x, y) /\ y.known = x.known
             /\ y.pc = IF Len(x.parts) + 1 = Parts THEN "store" ELSE "fetch"
             /\ y.parts = Append(x.parts, part[Cmd(j).char])
  <2> DEFINE pc == IF Len(x.parts) + 1 = Parts THEN "store" ELSE "fetch"
             more == Append(x.parts, part[Cmd(j).char])
  <2>1. x \in JobRows
    BY <1>1, Running DEF Download, At
  <2>2. y = [x EXCEPT !.parts = more, !.pc = pc]
    BY <1>1, GoesTo DEF Download
  <2> HIDE DEF pc, more
  <2>3. Keep(x, y) /\ y.known = x.known /\ y.pc = pc /\ y.parts = more
    BY <2>1, <2>2 DEF Keep, JobRows
  <2> QED
    BY <2>3 DEF pc, more
<1>2. ASSUME ImportFails(j) \/ AudioDone(j) PROVE y = Idle \/ ToCards(x, y)
  <2>1. x \in JobRows
    BY <1>2, Running DEF ImportFails, AudioDone, At
  <2> QED
    BY <1>2, <2>1, LinkingMoves DEF ImportFails, AudioDone
<1>3. ASSUME StoreModel(j) PROVE Keep(x, y) /\ y.pc = "audio" /\ y.known = x.known
  <2>1. x \in JobRows
    BY <1>3, Running DEF StoreModel, At
  <2>2. y = [x EXCEPT !.pc = "audio"]
    BY <1>3, GoesTo DEF StoreModel, GoTo
  <2> QED
    BY <2>1, <2>2 DEF Keep, JobRows
<1>4. ASSUME Clip(j) PROVE Keep(x, y) /\ y.pc = "audio" /\ y.known = x.known
  <2>1. x \in JobRows
    BY <1>4, Running DEF Clip, At
  <2>2. y = [x EXCEPT !.at = @ + 1, !.pc = "audio", !.id = None]
    BY <1>4, GoesTo DEF Clip, NextRow
  <2> QED
    BY <2>1, <2>2 DEF Keep, JobRows
<1> QED
  BY <1>1, <1>2, <1>3, <1>4

\* The steps any command may take.
LEMMA AnyMoves ==
  ASSUME CommandsInv, NEW j \in Jobs
  PROVE  /\ Finish(j) \/ Kill(j) => job'[j] = Idle
         /\ SkipRow(j) => NextOne(job[j], job'[j], TRUE)
<1>1. Finish(j) \/ Kill(j) => job'[j] = Idle
  BY GoesTo DEF Finish, Kill, Ends
<1>2. ASSUME SkipRow(j) PROVE NextOne(job[j], job'[j], TRUE)
  <2>1. job[j] \in JobRows /\ KindAt(job[j])
    BY <1>2, Running DEF SkipRow
  <2>2. CASE job[j].pc \in {"upsert", "select"} /\ Skip(j, "row")
    BY <2>1, <2>2, SkipMoves DEF KindAt, RowSteps, OnRow
  <2>3. CASE job[j].pc \in {"source", "exists", "link"} /\ Skip(j, "lookup")
    BY <2>1, <2>3, SkipMoves DEF KindAt, OnRow
  <2> QED
    BY <1>2, <2>2, <2>3 DEF SkipRow
<1> QED
  BY <1>1, <1>2

\* A step moves its own command only, which is running.
LEMMA OthersStay ==
  ASSUME CommandsInv, NEW j \in Jobs, Step(j)
  PROVE  job[j] # Idle /\ \A k \in Jobs : k # j => job'[k] = job[k]
<1>1. \E y : Goes(j, y)
  BY DEF Step, FindSet, UpsertSetMetadata, Reconcile, RefuseToWipe, ResolveSet, CreateSet, ImportCard,
     SelectCard, AttachImage, LookUp, TakeId, SetPriceSource, CardExists, SetCardCharacterModel, Download,
     ImportFails, StoreModel, Clip, AudioDone, Finish, SkipRow, Kill, Skip, GoTo, Ends, Linking
<1>2. job[j].pc # "idle" \/ job[j] # Idle
  BY DEF Step, FindSet, UpsertSetMetadata, Reconcile, RefuseToWipe, ResolveSet, CreateSet, ImportCard,
     SelectCard, AttachImage, LookUp, TakeId, SetPriceSource, CardExists, SetCardCharacterModel, Download,
     ImportFails, StoreModel, Clip, AudioDone, Finish, SkipRow, Kill, At, RowAt
<1> QED
  BY <1>1, <1>2, GoesTo, Running

SameWork(x, y) ==
    /\ y.cmd = x.cmd /\ y.pc = x.pc /\ y.at = x.at /\ y.sid = x.sid /\ y.known = x.known /\ y.id = x.id
    /\ y.parts = x.parts /\ y.bad = x.bad /\ y.had = x.had
    /\ (y.alone => x.alone) /\ (x.changed => y.changed) /\ (x = Idle <=> y = Idle)

\* Nobody else touches more than what a command is said to have run next to.
LEMMA OtherActors ==
  ASSUME CommandsInv, [Next]_vars, NEW k \in Jobs
  PROVE  Step(k) \/ (\E c \in Commands : Start(k, c)) \/ SameWork(job[k], job'[k])
<1> DEFINE x == job[k]
           y == job'[k]
<1>0. x \in JobRows /\ Idle \in JobRows
  BY IdleInv DEF CommandsInv, JobInv
<1>1. ASSUME y = x PROVE SameWork(x, y)
  BY <1>1 DEF SameWork
<1>2. ASSUME y = [x EXCEPT !.alone = FALSE] \/ y = [x EXCEPT !.changed = TRUE], x # Idle
      PROVE  SameWork(x, y)
  <2>1. x.pc # "idle"
    BY <1>2, Running
  <2>2. /\ y.cmd = x.cmd /\ y.pc = x.pc /\ y.at = x.at /\ y.sid = x.sid /\ y.known = x.known /\ y.id = x.id
        /\ y.parts = x.parts /\ y.bad = x.bad /\ y.had = x.had
    BY <1>0, <1>2 DEF JobRows
  <2>3. (y.alone => x.alone) /\ (x.changed => y.changed)
    BY <1>0, <1>2 DEF JobRows
  <2> QED
    BY <1>2, <2>1, <2>2, <2>3, IdleInv DEF SameWork
<1>3. ASSUME NEW j \in Jobs, j # k, Step(j) PROVE y = x
  BY <1>3, OthersStay
<1>4. ASSUME NEW j \in Jobs, j # k, NEW c \in Commands, Start(j, c) PROVE SameWork(x, y)
  <2>1. y = x \/ (y = [x EXCEPT !.alone = FALSE] /\ x # Idle)
    BY <1>4 DEF Start
  <2> QED
    BY <1>1, <1>2, <2>1
<1>5. ASSUME NEW m \in Models, SourceChanges(m) PROVE SameWork(x, y)
  <2>1. x.pc = "fetch" => x # Idle
    BY IdleInv
  <2>2. y = x \/ (y = [x EXCEPT !.changed = TRUE] /\ x.pc = "fetch")
    BY <1>5 DEF SourceChanges, At
  <2> QED
    BY <1>1, <1>2, <2>1, <2>2
<1>6. CASE App
  BY <1>1, <1>6 DEF App
<1>7. CASE PageLinks
  BY <1>1, <1>2, <1>7 DEF PageLinks
<1>8. CASE UNCHANGED vars
  BY <1>1, <1>8 DEF vars
<1> QED
  BY <1>1, <1>3, <1>4, <1>5, <1>6, <1>7, <1>8 DEF Next

\* A command that starts.
LEMMA Started ==
  ASSUME CommandsInv, NEW j \in Jobs, NEW c \in Commands, Start(j, c)
  PROVE  LET y == job'[j] IN
         /\ job[j] = Idle /\ y.cmd = c /\ y.pc = FirstStep(c) /\ y.at = 1 /\ y.known = Idle.known /\ y.had = LiveIds
         /\ y.parts = <<>> /\ y.sid = None
         /\ y.alone <=> \A k \in Jobs : k # j => job[k] = Idle
         /\ FirstStep(c) \in {"row", "set", "fetch"}
         /\ FirstStep(c) = "row" => c.kind = "process-set" /\ c.name = None
         /\ UNCHANGED <<tables, part, mixed>>
         /\ serial' => serial /\ \A k \in Jobs : k # j => job[k] = Idle
         /\ \A k \in Jobs : k # j /\ job'[k].alone => job[k] = Idle \/ ~job[k].alone
<1> DEFINE others == {k \in Jobs \ {j} : job[k] # Idle}
           first == others = {}
           y == [Idle EXCEPT !.cmd = c, !.pc = FirstStep(c), !.alone = first, !.had = LiveIds]
<1>1. /\ job' = [k \in Jobs |-> IF k = j THEN y
                                ELSE IF k \in others THEN [job[k] EXCEPT !.alone = FALSE] ELSE job[k]]
      /\ UNCHANGED <<tables, part, mixed>> /\ serial' = (serial /\ others = {}) /\ job[j] = Idle
  BY DEF Start
<1>2. first <=> \A k \in Jobs : k # j => job[k] = Idle
  OBVIOUS
<1>3. /\ FirstStep(c) \in {"row", "set", "fetch"}
      /\ FirstStep(c) = "row" => c.kind = "process-set" /\ c.name = None
  BY CommandFacts DEF FirstStep
<1>4. Idle \in JobRows /\ Idle.at = 1 /\ Idle.parts = <<>> /\ Idle.sid = None
  BY IdleInv DEF JobInv, Idle
<1>5. first \in BOOLEAN
  OBVIOUS
<1> HIDE DEF first
<1>6. /\ y.cmd = c /\ y.pc = FirstStep(c) /\ y.at = 1 /\ y.known = Idle.known /\ y.had = LiveIds
      /\ y.parts = <<>> /\ y.alone = first /\ y.sid = None
  BY <1>4, <1>5 DEF JobRows
<1>7. ASSUME NEW k \in Jobs, k # j, job'[k].alone PROVE job[k] = Idle \/ ~job[k].alone
  <2>1. CASE k \in others
    <3>1. job'[k] = [job[k] EXCEPT !.alone = FALSE] /\ job[k] \in JobRows
      BY <1>1, <1>7, <2>1 DEF CommandsInv, JobInv
    <3> QED
      BY <1>7, <3>1 DEF JobRows
  <2> QED
    BY <1>7, <2>1
<1>8. job'[j] = y
  BY <1>1
<1>9. serial' => serial /\ \A k \in Jobs : k # j => job[k] = Idle
  BY <1>1, <1>2 DEF first
<1> HIDE DEF y
<1> QED
  BY <1>1, <1>2, <1>3, <1>6, <1>7, <1>8, <1>9

\* The steps that write to the tables.
Writes(j) ==
    \/ UpsertSetMetadata(j) \/ CreateSet(j) \/ Reconcile(j) \/ ImportCard(j) \/ AttachImage(j)
    \/ SetPriceSource(j) \/ SetCardCharacterModel(j) \/ StoreModel(j) \/ Clip(j)

\* The others only look.
LEMMA OthersLook ==
  ASSUME NEW j \in Jobs, Step(j), ~Writes(j)
  PROVE  UNCHANGED <<tables, world>>
BY Zenon DEF Writes, Step, FindSet, RefuseToWipe, ResolveSet, SelectCard, LookUp, TakeId, CardExists, Download,
   ImportFails, AudioDone, Finish, SkipRow, Kill

\* Only two steps change the sets.
LEMMA SetsChange ==
  ASSUME CommandsInv, [Next]_vars
  PROVE  \/ UNCHANGED sets
         \/ \E j \in Jobs : /\ UpsertSetMetadata(j) /\ Cmd(j).name \in Names
                            /\ IF job[j].sid = None THEN InsertSet(Cmd(j).name, "active")
                               ELSE UpdateSet(job[j].sid, "active") /\ job[j].sid \in SetIds /\ sets[job[j].sid] # None
         \/ \E j \in Jobs : CreateSet(j) /\ InsertSet(CurrentRow(j).name, "pending") /\ CurrentRow(j).name \in Names
<1>1. ASSUME NEW j \in Jobs, UpsertSetMetadata(j)
      PROVE  /\ Cmd(j).name \in Names
             /\ IF job[j].sid = None THEN InsertSet(Cmd(j).name, "active")
                ELSE UpdateSet(job[j].sid, "active") /\ job[j].sid \in SetIds /\ sets[job[j].sid] # None
  <2>1. At(j, "metadata") /\ job[j].pc # "idle"
    BY <1>1 DEF UpsertSetMetadata, At
  <2>2. Cmd(j).name \in Names /\ job[j].sid \in SetIds \cup {None}
    BY <2>1, Running, CommandFacts DEF KindAt, JobRows, At
  <2> QED
    BY <1>1, <2>1, <2>2 DEF UpsertSetMetadata, CommandsInv
<1>2. ASSUME NEW j \in Jobs, CreateSet(j)
      PROVE  InsertSet(CurrentRow(j).name, "pending") /\ CurrentRow(j).name \in Names
  <2>1. job[j].pc = "create" /\ job[j].pc \in OnRow
    BY <1>2 DEF CreateSet, At, OnRow
  <2> QED
    BY <1>2, <2>1, Running, OnARow DEF CreateSet, KindAt, RowSteps
<1>3. ASSUME NEW j \in Jobs, Step(j), ~UpsertSetMetadata(j), ~CreateSet(j)
      PROVE  UNCHANGED sets
  <2>1. Reconcile(j) \/ ImportCard(j) => UNCHANGED sets
    BY DEF Reconcile, ImportCard, DeleteCards, UpsertCard
  <2>2. AttachImage(j) \/ SetPriceSource(j) => UNCHANGED sets
    BY DEF AttachImage, SetPriceSource, UpsertCardImage, UpsertPriceSource, tables
  <2>3. SetCardCharacterModel(j) => UNCHANGED sets
    BY DEF SetCardCharacterModel, LinkCard
  <2>4. StoreModel(j) \/ Clip(j) => UNCHANGED sets
    BY DEF StoreModel, Clip, UpsertCharacterModel, UpsertCharacterModelAudio, tables
  <2>5. Writes(j) \/ UNCHANGED <<tables, world>>
    BY <1>3, OthersLook
  <2> QED
    BY <1>3, <2>1, <2>2, <2>3, <2>4, <2>5 DEF Writes, tables
<1>4. ASSUME (\E j \in Jobs, c \in Commands : Start(j, c)) \/ (\E m \in Models : SourceChanges(m))
             \/ App \/ PageLinks \/ UNCHANGED vars
      PROVE  UNCHANGED sets
  <2>1. (\E j \in Jobs, c \in Commands : Start(j, c)) => UNCHANGED tables
    BY Started
  <2>2. (\E m \in Models : SourceChanges(m)) => UNCHANGED tables
    BY DEF SourceChanges
  <2>3. App => UNCHANGED sets
    BY DEF App, OwnCopy, DisownCopies
  <2>4. PageLinks => UNCHANGED sets
    BY DEF PageLinks, LinkCard
  <2> QED
    BY <1>4, <2>1, <2>2, <2>3, <2>4 DEF vars, tables
<1> QED
  BY <1>1, <1>2, <1>3, <1>4 DEF Next

-----------------------------------------------------------------------------
(* The sets a command knows.                                               *)

\* The ids of sets are given out in order, so an insertion overwrites nothing.
LEMMA NextSetIsFree ==
  ASSUME NEW n \in 0..MaxSets, \A i \in SetIds : sets[i] # None <=> i <= n
  PROVE  NextSet = n + 1
<1>1. MaxSets \in Nat
  BY CatalogAssumption
<1>2. {i \in SetIds : sets[i] # None} = 1..n
  BY <1>1 DEF SetIds
<1>3. Cardinality(1..n) = n
  BY <1>1, FS_Interval
<1> QED
  BY <1>2, <1>3 DEF NextSet

IsSetNext(i, n) == sets'[i] # None /\ sets'[i].name = n

KnownSetsNext(y) ==
    /\ \A n \in Names : y.known[n] # None => IsSetNext(y.known[n], n)
    /\ y.pc = "metadata" /\ y.sid # None => IsSetNext(y.sid, y.cmd.name)
    /\ y.pc = "reconcile" => y.sid = y.known[y.cmd.name]
    /\ y.pc \in {"upsert", "select", "image"} => y.sid = y.known[RowOf(y).name]
    /\ y.pc \in {"reconcile"} \cup RowSteps /\ y.cmd.name # None =>
         /\ y.known[y.cmd.name] # None
         /\ sets'[y.known[y.cmd.name]].status = "active"

\* The same of the next state.
LEMMA KnownNext == \A j \in Jobs : KnownSetsNext(job'[j]) => KnownSets(job[j])'
BY DEF KnownSets, KnownSetsNext, IsSet, IsSetNext, RowOf

SetsStable ==
    \A i \in SetIds : sets[i] # None =>
        /\ sets'[i] # None /\ sets'[i].name = sets[i].name
        /\ sets[i].status = "active" => sets'[i].status = "active"

\* No set goes, changes its name or loses its metadata.
LEMMA SetsStay ==
  ASSUME CommandsInv, Filled, [Next]_vars
  PROVE  Filled' /\ SetsStable
<1>0. PICK n \in 0..MaxSets : \A i \in SetIds : sets[i] # None <=> i <= n
  BY DEF Filled
<1>1. CASE UNCHANGED sets
  BY <1>1 DEF Filled, SetsStable
<1>2. ASSUME NEW m \in Names, NEW s \in Statuses, InsertSet(m, s) PROVE Filled' /\ SetsStable
  <2>1. NextSet = n + 1
    BY <1>0, NextSetIsFree
  <2>2. /\ n + 1 \in SetIds /\ sets'[n + 1] # None
        /\ \A i \in SetIds : i # n + 1 => sets'[i] = sets[i]
    <3>1. /\ NextSet \in SetIds /\ sets'[NextSet] = [name |-> m, status |-> s]
          /\ \A i \in SetIds : i # NextSet => sets'[i] = sets[i]
      BY <1>2, InsertSetType DEF CommandsInv
    <3>2. [name |-> m, status |-> s] # None
      BY CatalogAssumption DEF SetRows
    <3> QED
      BY <2>1, <3>1, <3>2
  <2>3. n + 1 \in 0..MaxSets /\ MaxSets \in Nat
    BY <2>2, CatalogAssumption DEF SetIds
  <2>4. \A i \in SetIds : sets'[i] # None <=> i <= n + 1
    BY <1>0, <2>2, <2>3 DEF SetIds
  <2> QED
    BY <1>0, <2>2, <2>3, <2>4 DEF Filled, SetsStable, SetIds
<1>3. ASSUME NEW k \in SetIds, sets[k] # None, UpdateSet(k, "active") PROVE Filled' /\ SetsStable
  <2>1. /\ sets'[k] # None /\ sets'[k].name = sets[k].name /\ sets'[k].status = "active"
        /\ \A i \in SetIds : i # k => sets'[i] = sets[i]
    BY <1>3, UpdateSetType DEF CommandsInv, Statuses
  <2> QED
    BY <1>0, <1>3, <2>1 DEF Filled, SetsStable
<1> QED
  BY <1>1, <1>2, <1>3, SetsChange DEF Statuses

\* A step keeps a known set known, and adds only the one it found or made.
LEMMA KnownStep ==
  ASSUME CommandsInv, SetsInv, SetsStable, NEW j \in Jobs, Step(j)
  PROVE  KnownSetsNext(job'[j])
<1> DEFINE x == job[j]
           y == job'[j]
<1>0. /\ x \in JobRows /\ x # Idle /\ x.cmd \in Commands /\ x.cmd = Cmd(j) /\ KindAt(x) /\ FoundAt(x)
      /\ KnownSets(x) /\ x.known \in [Names -> SetIds \cup {None}] /\ x.sid \in SetIds \cup {None}
      /\ x.cmd.name \in Names \cup {None}
  BY OthersStay, Running, CommandFacts DEF SetsInv, JobRows
<1>1. \A n \in Names, i \in SetIds : IsSet(i, n) => IsSetNext(i, n)
  BY DEF IsSet, SetsStable, IsSetNext
<1>2. ASSUME y = Idle PROVE KnownSetsNext(job'[j])
  <2>1. y.pc = "idle" /\ \A n \in Names : y.known[n] = None
    BY <1>2, IdleInv DEF Idle
  <2> QED
    BY <2>1 DEF KnownSets, RowSteps, KnownSetsNext
<1>3. ASSUME y.cmd = x.cmd, y.known = x.known, y.pc \notin {"metadata", "reconcile"},
             y.pc \in RowSteps => x.pc \in {"reconcile"} \cup RowSteps,
             y.pc \in {"upsert", "select", "image"} =>
                 y.at = x.at /\ y.sid = x.sid /\ x.pc \in {"upsert", "select", "image"}
      PROVE  KnownSetsNext(job'[j])
  <2>1. \A n \in Names : y.known[n] # None => IsSetNext(y.known[n], n)
    BY <1>0, <1>1, <1>3 DEF KnownSets, KnownSetsNext
  <2>2. y.pc \in {"upsert", "select", "image"} => y.sid = y.known[RowOf(y).name]
    BY <1>0, <1>3 DEF KnownSets, RowOf, KnownSetsNext
  <2>3. y.pc \in {"reconcile"} \cup RowSteps /\ y.cmd.name # None =>
             /\ y.known[y.cmd.name] # None
             /\ sets'[y.known[y.cmd.name]].status = "active"
    <3>1. x.cmd.name # None /\ x.known[x.cmd.name] # None =>
              x.known[x.cmd.name] \in SetIds /\ sets[x.known[x.cmd.name]] # None
      BY <1>0 DEF KnownSets, IsSet, IsSetNext, KnownSetsNext
    <3> QED
      BY <1>0, <1>3, <3>1 DEF KnownSets, SetsStable, KnownSetsNext
  <2> QED
    BY <1>3, <2>1, <2>2, <2>3 DEF KnownSets, KnownSetsNext
<1>4. ASSUME \E b : NextOne(x, y, b) PROVE KnownSetsNext(job'[j])
  <2>1. x.cmd.kind = "process-set" => x.pc \in RowSteps
    BY <1>0, <1>4 DEF KindAt, NextOne, OnRow, RowSteps
  <2> QED
    BY <1>3, <1>4, <2>1 DEF NextOne, Keep, RowSteps
<1>5. CASE FindSet(j) \/ UpsertSetMetadata(j)
  <2>1. ASSUME FindSet(j), y # Idle PROVE KnownSetsNext(job'[j])
    <3>1. x.pc = "set" /\ x.known = Idle.known /\ Cmd(j).name \in Names
      <4>1. x.pc = "set"
        BY <2>1, Zenon DEF FindSet, At
      <4> QED
        BY <1>0, <4>1 DEF FoundAt, KindAt
    <3>2. /\ y.cmd = x.cmd /\ y.known = x.known /\ y.pc \in {"metadata", "lookup"}
          /\ y.sid # None => y.sid \in Named(Cmd(j).name)
      BY <2>1, SetMoves DEF Keep
    <3>3. \A n \in Names : y.known[n] = None
      BY <3>1, <3>2 DEF Idle
    <3>4. y.sid # None => IsSetNext(y.sid, y.cmd.name)
      BY <1>0, <1>1, <3>1, <3>2 DEF Named, IsSet, IsSetNext
    <3> QED
      BY <3>2, <3>3, <3>4 DEF KnownSets, RowSteps, KnownSetsNext
  <2>2. ASSUME UpsertSetMetadata(j) PROVE KnownSetsNext(job'[j])
    <3> DEFINE n == Cmd(j).name
    <3>1. x.pc = "metadata" /\ n \in Names
      BY <1>0, <2>2 DEF UpsertSetMetadata, At, KindAt
    <3>2. /\ y.cmd = x.cmd /\ y.pc \in {"reconcile", "row"}
          /\ y.sid = (IF x.sid = None THEN NextSet ELSE x.sid)
          /\ y.known = [x.known EXCEPT ![n] = y.sid]
      BY <2>2, SetMoves DEF Keep
    <3>3. y.sid \in SetIds /\ IsSetNext(y.sid, n) /\ sets'[y.sid].status = "active"
      <4>1. CASE x.sid = None
        <5>1. InsertSet(n, "active") /\ y.sid = NextSet
          BY <2>2, <3>2, <4>1 DEF UpsertSetMetadata
        <5>2. NextSet \in SetIds /\ sets'[NextSet] = [name |-> n, status |-> "active"]
          BY <3>1, <5>1, InsertSetType DEF CommandsInv, Statuses
        <5>3. [name |-> n, status |-> "active"] # None
          BY <3>1, CatalogAssumption DEF SetRows, Statuses
        <5> QED
          BY <5>1, <5>2, <5>3 DEF IsSet, IsSetNext
      <4>2. CASE x.sid # None
        <5>1. UpdateSet(x.sid, "active") /\ y.sid = x.sid /\ x.sid \in SetIds /\ IsSet(x.sid, n)
          BY <1>0, <2>2, <3>1, <3>2, <4>2 DEF UpsertSetMetadata, KnownSets, KnownSetsNext
        <5>2. sets'[x.sid] # None /\ sets'[x.sid].name = sets[x.sid].name /\ sets'[x.sid].status = "active"
          BY <5>1, UpdateSetType DEF CommandsInv, Statuses, IsSet, IsSetNext
        <5> QED
          BY <5>1, <5>2 DEF IsSet, IsSetNext
      <4> QED
        BY <4>1, <4>2
    <3>4. y.known[n] = y.sid /\ \A m \in Names : m # n => y.known[m] = x.known[m]
      BY <1>0, <3>1, <3>2
    <3>5. \A m \in Names : y.known[m] # None => IsSetNext(y.known[m], m)
      BY <1>0, <1>1, <3>3, <3>4 DEF KnownSets, KnownSetsNext
    <3>6. y.sid # None /\ y.cmd.name = n
      BY <1>0, <3>2, <3>3, CatalogAssumption
    <3> QED
      BY <3>2, <3>3, <3>4, <3>5, <3>6 DEF KnownSets, KnownSetsNext
  <2> QED
    BY <1>2, <1>5, <2>1, <2>2
<1>6. CASE Reconcile(j) \/ RefuseToWipe(j)
  <2>1. Reconcile(j) => x.pc = "reconcile"
    BY DEF Reconcile, At
  <2> QED
    BY <1>2, <1>3, <1>6, <2>1, SetMoves DEF OnWith, Keep
<1>7. CASE ResolveSet(j) \/ CreateSet(j)
  <2> DEFINE n == CurrentRow(j).name
  <2>1. x.pc \in {"row", "create"} /\ n \in Names /\ n = RowOf(x).name
    <3>1. (x.pc = "row" /\ More(j)) \/ x.pc = "create"
      BY <1>7, Zenon DEF ResolveSet, CreateSet, RowAt, At
    <3>2. CurrentRow(j) = RowOf(x)
      BY DEF CurrentRow, RowOf, Cmd
    <3>3. x.cmd.kind = "process-set"
      BY <1>0, <3>1 DEF KindAt, RowSteps
    <3> QED
      BY <1>0, <3>1, <3>2, <3>3, OnARow DEF OnRow
  <2>2. CASE OnWith(x, y, "create")
    BY <1>3, <2>1, <2>2 DEF OnWith, Keep, RowSteps
  <2>3. ASSUME Keep(x, y), y.at = x.at, y.pc = "upsert", y.known = [x.known EXCEPT ![n] = y.sid],
               y.sid \in SetIds, IsSetNext(y.sid, n), x.known[n] # None => y.sid = x.known[n]
        PROVE  KnownSetsNext(job'[j])
    <3>1. y.known[n] = y.sid /\ (\A m \in Names : m # n => y.known[m] = x.known[m]) /\ y.cmd = x.cmd
      BY <1>0, <2>1, <2>3 DEF Keep
    <3>2. \A m \in Names : y.known[m] # None => IsSetNext(y.known[m], m)
      BY <1>0, <1>1, <2>3, <3>1 DEF KnownSets, KnownSetsNext
    <3>3. y.sid = y.known[RowOf(y).name]
      <4>1. RowOf(y) = RowOf(x)
        BY <2>3, <3>1 DEF RowOf
      <4> QED
        BY <2>1, <3>1, <4>1
    <3>4. y.cmd.name # None => y.known[y.cmd.name] # None /\ sets'[y.known[y.cmd.name]].status = "active"
      <4>1. x.cmd.name # None => /\ x.known[x.cmd.name] # None /\ x.known[x.cmd.name] \in SetIds
                                 /\ sets[x.known[x.cmd.name]] # None
                                 /\ sets[x.known[x.cmd.name]].status = "active"
        BY <1>0, <2>1 DEF KnownSets, RowSteps, IsSet, IsSetNext, KnownSetsNext
      <4>2. x.cmd.name # None => y.known[x.cmd.name] = x.known[x.cmd.name]
        BY <1>0, <2>3, <3>1, <4>1
      <4> QED
        BY <3>1, <4>1, <4>2 DEF SetsStable
    <3> QED
      BY <2>3, <3>2, <3>3, <3>4 DEF KnownSets, KnownSetsNext
  <2>4. CASE ResolveSet(j) /\ ~OnWith(x, y, "create")
    <3>1. /\ Keep(x, y) /\ y.at = x.at /\ y.pc = "upsert" /\ y.known = [x.known EXCEPT ![n] = y.sid]
          /\ IF x.known[n] # None THEN y.sid = x.known[n] ELSE y.sid \in Named(n)
      BY <2>4, RowMoves
    <3>2. y.sid \in SetIds /\ IsSet(y.sid, n)
      BY <1>0, <2>1, <3>1 DEF Named, IsSet, KnownSets, IsSetNext, KnownSetsNext
    <3> QED
      BY <1>1, <2>1, <2>3, <3>1, <3>2
  <2>5. CASE CreateSet(j)
    <3>1. /\ Keep(x, y) /\ y.at = x.at /\ y.pc = "upsert" /\ y.known = [x.known EXCEPT ![n] = y.sid] /\ y.sid = NextSet
      BY <2>5, RowMoves
    <3>2. x.known[n] = None
      BY <1>0, <2>1, <2>5 DEF CreateSet, At, FoundAt, RowOf
    <3>3. InsertSet(n, "pending")
      BY <2>5 DEF CreateSet
    <3>4. NextSet \in SetIds /\ sets'[NextSet] = [name |-> n, status |-> "pending"]
      BY <2>1, <3>3, InsertSetType DEF CommandsInv, Statuses
    <3>5. [name |-> n, status |-> "pending"] # None
      BY <2>1, CatalogAssumption DEF SetRows, Statuses
    <3>6. IsSetNext(y.sid, n) /\ y.sid \in SetIds
      BY <3>1, <3>4, <3>5 DEF IsSet, IsSetNext
    <3> QED
      BY <2>3, <3>1, <3>2, <3>6
  <2> QED
    BY <1>7, <2>2, <2>4, <2>5
<1>8. CASE ImportCard(j) \/ SelectCard(j) \/ AttachImage(j)
  <2>1. x.pc \in {"upsert", "select", "image"}
    BY <1>8 DEF ImportCard, SelectCard, AttachImage, At
  <2>2. (\E b : NextOne(x, y, b)) \/ OnWith(x, y, "select") \/ OnWith(x, y, "image")
    BY <1>8, RowMoves
  <2> QED
    BY <1>3, <1>4, <2>1, <2>2 DEF OnWith, Keep, RowSteps
<1>9. CASE LookUp(j) \/ TakeId(j) \/ SetPriceSource(j) \/ CardExists(j) \/ SetCardCharacterModel(j)
  <2>1. \/ \E b : NextOne(x, y, b)
        \/ OnWith(x, y, "exists") \/ OnWith(x, y, "source") \/ OnWith(x, y, "link")
    BY <1>9, CardMoves
  <2> QED
    BY <1>3, <1>4, <2>1 DEF OnWith, Keep, RowSteps
<1>10. CASE Download(j) \/ ImportFails(j) \/ StoreModel(j) \/ Clip(j) \/ AudioDone(j)
  <2>1. y = Idle \/ (y.cmd = x.cmd /\ y.known = x.known /\ y.pc \in {"store", "fetch", "audio", "lookup", "set"})
    BY <1>10, FigureMoves DEF Keep, ToCards
  <2> QED
    BY <1>2, <1>3, <2>1 DEF RowSteps
<1>11. CASE Finish(j) \/ SkipRow(j) \/ Kill(j)
  BY <1>2, <1>4, <1>11, AnyMoves
<1> QED
  BY <1>5, <1>6, <1>7, <1>8, <1>9, <1>10, <1>11 DEF Step

\* What a command knows of the sets stays true, whatever the others do.
LEMMA SetsStep == CommandsInv /\ SetsInv /\ [Next]_vars => SetsInv'
<1> SUFFICES ASSUME CommandsInv, SetsInv, [Next]_vars PROVE SetsInv'
  OBVIOUS
<1>1. Filled' /\ SetsStable
  BY SetsStay DEF SetsInv
<1>2. ASSUME NEW j \in Jobs, Step(j) PROVE KnownSetsNext(job'[j])
  BY <1>1, <1>2, KnownStep
<1>3. ASSUME NEW j \in Jobs, NEW c \in Commands, Start(j, c) PROVE KnownSetsNext(job'[j])
  <2>1. /\ job'[j].cmd = c /\ job'[j].known = Idle.known /\ job'[j].pc \in {"row", "set", "fetch"}
        /\ job'[j].pc = "row" => c.name = None
    BY <1>3, Started
  <2>2. \A n \in Names : job'[j].known[n] = None
    BY <2>1 DEF Idle
  <2> QED
    BY <2>1, <2>2 DEF KnownSetsNext, RowSteps
<1>4. ASSUME NEW j \in Jobs, SameWork(job[j], job'[j]) PROVE KnownSetsNext(job'[j])
  <2> DEFINE x == job[j]
             y == job'[j]
  <2>1. /\ x.known \in [Names -> SetIds \cup {None}] /\ x.sid \in SetIds \cup {None}
        /\ x # Idle => x.cmd.name \in Names \cup {None}
        /\ x.pc = "idle" => x = Idle
    BY CommandFacts DEF CommandsInv, JobInv, JobRows
  <2>2. KnownSets(x)
    BY DEF SetsInv
  <2>3. y.known = x.known /\ y.sid = x.sid /\ y.pc = x.pc /\ y.cmd = x.cmd /\ y.at = x.at
    BY <1>4 DEF SameWork
  <2>4. \A n \in Names, i \in SetIds : IsSet(i, n) => IsSetNext(i, n)
    BY <1>1 DEF IsSet, SetsStable, IsSetNext
  <2>5. \A n \in Names : x.known[n] # None => IsSetNext(x.known[n], n)
    BY <2>1, <2>2, <2>4 DEF KnownSets, KnownSetsNext
  <2>6. x.pc = "metadata" /\ x.sid # None => IsSetNext(x.sid, x.cmd.name)
    <3>1. x.pc = "metadata" => x.cmd.name \in Names
      BY <2>1, Running DEF KindAt
    <3> QED
      BY <2>1, <2>2, <2>4, <3>1 DEF KnownSets, KnownSetsNext
  <2>7. x.pc \in {"reconcile"} \cup RowSteps /\ x.cmd.name # None =>
            /\ x.known[x.cmd.name] # None /\ sets'[x.known[x.cmd.name]].status = "active"
    <3>1. x.pc \in {"reconcile"} \cup RowSteps => x # Idle
      BY IdleInv DEF RowSteps
    <3> QED
      BY <1>1, <2>1, <2>2, <3>1 DEF KnownSets, SetsStable, IsSet, IsSetNext, KnownSetsNext
  <2>8. RowOf(y) = RowOf(x)
    BY <2>3 DEF RowOf
  <2> QED
    BY <2>2, <2>3, <2>5, <2>6, <2>7, <2>8 DEF KnownSets, KnownSetsNext
<1> QED
  BY <1>1, <1>2, <1>3, <1>4, OtherActors, KnownNext DEF SetsInv

\* A command that has found or created a set finds it there to the end, under its
\* name, and with its metadata if the command stored them.
THEOREM KnownSetsStay == Spec => []SetsInv
<1>1. Init => SetsInv
  <2> SUFFICES ASSUME Init PROVE SetsInv
    OBVIOUS
  <2>1. Filled
    BY CatalogAssumption DEF Init, TablesInit, Filled, SetIds
  <2>2. ASSUME NEW j \in Jobs PROVE KnownSets(job[j])
    BY IdleInv DEF Init, KnownSets, Idle, RowSteps, KnownSetsNext
  <2> QED
    BY <2>1, <2>2 DEF SetsInv
<1> QED
  BY <1>1, SetsStep, CommandsAsWritten, PTL DEF Spec

-----------------------------------------------------------------------------
(* Commands that run one at a time.                                        *)

\* A set is about to be created or given metadata under a name just looked for; a
\* file more has been fetched after a download.
LEMMA JustLookedFor ==
  ASSUME CommandsInv, NEW j \in Jobs, Step(j)
  PROVE  LET y == job'[j] IN
         /\ y.pc = "create" => /\ ResolveSet(j) /\ Named(CurrentRow(j).name) = {}
                               /\ y.cmd = Cmd(j) /\ y.at = job[j].at
         /\ y.pc = "metadata" => /\ FindSet(j) /\ y.cmd = Cmd(j)
                                 /\ y.sid = None => Named(Cmd(j).name) = {}
         /\ y.pc \in {"fetch", "store"} => Download(j)
<1> DEFINE x == job[j]
           y == job'[j]
<1>0. x.cmd = Cmd(j) /\ Idle.pc = "idle"
  BY IdleInv DEF Cmd
<1>1. CASE FindSet(j)
  <2>1. \/ y = Idle
        \/ /\ y.cmd = x.cmd
           /\ \/ y.pc = "metadata" /\ Named(Cmd(j).name) = {}
              \/ y.sid \in Named(Cmd(j).name) /\ y.pc \in {"metadata", "lookup"}
    BY <1>1, SetMoves DEF Keep
  <2>2. None \notin Named(Cmd(j).name)
    BY CatalogAssumption DEF Named
  <2> QED
    BY <1>0, <1>1, <2>1, <2>2
<1>2. CASE UpsertSetMetadata(j) \/ Reconcile(j) \/ RefuseToWipe(j)
  <2>1. y = Idle \/ y.pc \in {"reconcile", "row"}
    BY <1>2, SetMoves DEF OnWith
  <2> QED
    BY <1>0, <2>1
<1>3. CASE ResolveSet(j)
  <2>1. y.pc = "upsert" \/ (OnWith(x, y, "create") /\ Named(CurrentRow(j).name) = {})
    BY <1>3, RowMoves
  <2> QED
    BY <1>0, <1>3, <2>1 DEF OnWith, Keep
<1>4. CASE CreateSet(j) \/ ImportCard(j) \/ SelectCard(j) \/ AttachImage(j)
  <2>1. y.pc \in {"upsert", "select", "image", "row", "lookup"}
    BY <1>4, RowMoves DEF OnWith, NextOne
  <2> QED
    BY <2>1
<1>5. CASE LookUp(j) \/ TakeId(j) \/ SetPriceSource(j) \/ CardExists(j) \/ SetCardCharacterModel(j)
  <2>1. y.pc \in {"exists", "source", "link", "row", "lookup"}
    BY <1>5, CardMoves DEF OnWith, NextOne
  <2> QED
    BY <2>1
<1>6. CASE Download(j) \/ ImportFails(j) \/ StoreModel(j) \/ Clip(j) \/ AudioDone(j)
  <2>1. y = Idle \/ y.pc \in {"audio", "lookup", "set"} \/ (Download(j) /\ y.pc \in {"store", "fetch"})
    BY <1>6, FigureMoves DEF ToCards
  <2> QED
    BY <1>0, <2>1
<1>7. CASE Finish(j) \/ SkipRow(j) \/ Kill(j)
  <2>1. y = Idle \/ y.pc \in {"row", "lookup"}
    BY <1>7, AnyMoves DEF NextOne
  <2> QED
    BY <1>0, <2>1
<1> QED
  BY <1>1, <1>2, <1>3, <1>4, <1>5, <1>6, <1>7 DEF Step

\* Once commands have overlapped, they have.
LEMMA SerialGoes ==
  ASSUME CommandsInv, [Next]_vars, serial'
  PROVE  /\ serial
         /\ \A j \in Jobs, c \in Commands : Start(j, c) => \A k \in Jobs : k # j => job[k] = Idle
<1>1. ASSUME NEW j \in Jobs, Step(j) PROVE serial' = serial
  <2>1. StoreModel(j) => serial' = serial
    BY DEF StoreModel
  <2>2. ~StoreModel(j) => UNCHANGED world
    BY <1>1, Zenon DEF Step, FindSet, UpsertSetMetadata, Reconcile, RefuseToWipe, ResolveSet, CreateSet,
       ImportCard, SelectCard, AttachImage, LookUp, TakeId, SetPriceSource, CardExists, SetCardCharacterModel,
       Download, ImportFails, Clip, AudioDone, Finish, SkipRow, Kill
  <2> QED
    BY <2>1, <2>2 DEF world
<1>2. (\E m \in Models : SourceChanges(m)) \/ App \/ PageLinks \/ UNCHANGED vars => serial' = serial
  <2>1. (\E m \in Models : SourceChanges(m)) => serial' = serial
    BY DEF SourceChanges
  <2>2. App \/ PageLinks => UNCHANGED world
    BY Zenon DEF App, PageLinks
  <2> QED
    BY <2>1, <2>2 DEF world, vars
<1>3. \A j \in Jobs, c \in Commands : Start(j, c) => serial /\ \A k \in Jobs : k # j => job[k] = Idle
  BY Started
<1> QED
  BY <1>1, <1>2, <1>3 DEF Next

\* A start starts one command.
LEMMA StartsAlone ==
  ASSUME NEW j \in Jobs, NEW c \in Commands, Start(j, c), NEW k \in Jobs, k # j, job[k] = Idle
  PROVE  job'[k] = Idle
<1> DEFINE others == {i \in Jobs \ {j} : job[i] # Idle}
           new == [Idle EXCEPT !.cmd = c, !.pc = FirstStep(c), !.alone = others = {}, !.had = LiveIds]
<1>1. job' = [i \in Jobs |-> IF i = j THEN new
                            ELSE IF i \in others THEN [job[i] EXCEPT !.alone = FALSE] ELSE job[i]]
  BY Zenon DEF Start
<1>2. k \notin others
  OBVIOUS
<1> HIDE DEF others, new
<1> QED
  BY <1>1, <1>2

\* No two commands run at a time, and a name not found is not there.
LEMMA SerialStep == CommandsInv /\ SerialInv /\ [Next]_vars => SerialInv'
<1> SUFFICES ASSUME CommandsInv, SerialInv, [Next]_vars, serial' PROVE SerialInv'
  <2>1. ~serial' => OneSetPerName'
    BY Zenon DEF OneSetPerName
  <2> QED
    BY <2>1, Zenon DEF SerialInv
<1>1. /\ serial /\ OneSetPerName
      /\ \A j, k \in Jobs : job[j] # Idle /\ job[k] # Idle => j = k
      /\ \A j \in Jobs : NotThere(j)
  BY SerialGoes DEF SerialInv
<1>2. ASSUME NEW j \in Jobs, job'[j] # Idle PROVE job[j] # Idle \/ \E c \in Commands : Start(j, c)
  BY <1>2, OtherActors, OthersStay DEF SameWork
<1>3. ASSUME NEW j \in Jobs, NEW k \in Jobs, job'[j] # Idle, job'[k] # Idle PROVE j = k
  <2>1. CASE job[j] # Idle /\ job[k] # Idle
    BY <1>1, <2>1
  <2>2. CASE \E c \in Commands : Start(j, c)
    BY <1>1, <1>2, <1>3, <2>2, SerialGoes, StartsAlone
  <2>3. CASE \E c \in Commands : Start(k, c)
    BY <1>1, <1>2, <1>3, <2>3, SerialGoes, StartsAlone
  <2> QED
    BY <1>2, <1>3, <2>1, <2>2, <2>3
<1>4. ASSUME NEW j \in Jobs PROVE NotThere(j)'
  <2>1. CASE Step(j)
    <3>1. job'[j].pc \in {"create", "metadata"} => sets' = sets /\ CurrentRow(j) = Cmd(j).rows[job[j].at]
      <4>1. FindSet(j) \/ ResolveSet(j) => UNCHANGED tables
        BY Zenon DEF FindSet, ResolveSet
      <4> QED
        BY <2>1, <4>1, JustLookedFor DEF CurrentRow, tables
    <3>2. job'[j].pc = "create" => \A i \in SetIds :
              ~(sets'[i] # None /\ sets'[i].name = job'[j].cmd.rows[job'[j].at].name)
      BY <2>1, <3>1, JustLookedFor DEF Named
    <3>3. job'[j].pc = "metadata" /\ job'[j].sid = None => \A i \in SetIds :
              ~(sets'[i] # None /\ sets'[i].name = job'[j].cmd.name)
      BY <2>1, <3>1, JustLookedFor DEF Named
    <3> QED
      BY <3>2, <3>3 DEF NotThere, At, Named, CurrentRow, Cmd
  <2>2. CASE \E c \in Commands : Start(j, c)
    <3>1. job'[j].pc \notin {"create", "metadata"}
      BY <2>2, Started
    <3> QED
      BY <3>1 DEF NotThere, At
  <2>3. CASE SameWork(job[j], job'[j]) /\ ~Step(j) /\ job[j].pc \in {"create", "metadata"}
    <3>1. job[j] # Idle
      BY <2>3, IdleInv
    <3>2. ~\E k \in Jobs : Step(k)
      BY <1>1, <2>3, <3>1, OthersStay
    <3>3. sets' = sets
      BY <3>2, SetsChange DEF Step
    <3> QED
      BY <1>1, <2>3, <3>3 DEF NotThere, SameWork, At, Named, CurrentRow, Cmd
  <2>4. CASE SameWork(job[j], job'[j]) /\ job[j].pc \notin {"create", "metadata"}
    BY <2>4 DEF NotThere, At, SameWork
  <2> QED
    BY <2>1, <2>2, <2>3, <2>4, OtherActors
<1>5. OneSetPerName'
  <2>1. ASSUME NEW n \in Names, NEW s \in Statuses, InsertSet(n, s), Named(n) = {}
        PROVE  \A i, k \in SetIds : i # k /\ None \notin {sets'[i], sets'[k]} => sets'[i].name # sets'[k].name
    <3>1. /\ NextSet \in SetIds /\ sets'[NextSet] = [name |-> n, status |-> s]
          /\ \A i \in SetIds : i # NextSet => sets'[i] = sets[i]
      BY <2>1, InsertSetType DEF CommandsInv
    <3>2. \A i \in SetIds : sets[i] # None => sets[i].name # n
      BY <2>1 DEF Named
    <3> QED
      BY <1>1, <3>1, <3>2 DEF OneSetPerName
  <2>2. ASSUME NEW m \in SetIds, sets[m] # None, UpdateSet(m, "active")
        PROVE  \A i, k \in SetIds : i # k /\ None \notin {sets'[i], sets'[k]} => sets'[i].name # sets'[k].name
    <3>1. /\ sets'[m].name = sets[m].name
          /\ \A i \in SetIds : i # m => sets'[i] = sets[i]
      BY <2>2, UpdateSetType DEF CommandsInv, Statuses
    <3> QED
      BY <1>1, <2>2, <3>1 DEF OneSetPerName
  <2>3. \A i, k \in SetIds : i # k /\ None \notin {sets'[i], sets'[k]} => sets'[i].name # sets'[k].name
    <3>1. CASE UNCHANGED sets
      BY <1>1, <3>1 DEF OneSetPerName
    <3>2. ASSUME NEW j \in Jobs, UpsertSetMetadata(j), Cmd(j).name \in Names,
                 IF job[j].sid = None THEN InsertSet(Cmd(j).name, "active")
                 ELSE UpdateSet(job[j].sid, "active") /\ job[j].sid \in SetIds /\ sets[job[j].sid] # None
          PROVE  \A i, k \in SetIds : i # k /\ None \notin {sets'[i], sets'[k]} => sets'[i].name # sets'[k].name
      <4>1. job[j].sid = None => Named(Cmd(j).name) = {}
        BY <1>1, <3>2 DEF UpsertSetMetadata, NotThere
      <4> QED
        BY <2>1, <2>2, <3>2, <4>1 DEF Statuses
    <3>3. ASSUME NEW j \in Jobs, CreateSet(j), InsertSet(CurrentRow(j).name, "pending"), CurrentRow(j).name \in Names
          PROVE  \A i, k \in SetIds : i # k /\ None \notin {sets'[i], sets'[k]} => sets'[i].name # sets'[k].name
      <4>1. Named(CurrentRow(j).name) = {}
        BY <1>1, <3>3 DEF CreateSet, NotThere
      <4> QED
        BY <2>1, <3>3, <4>1 DEF Statuses
    <3> QED
      BY <3>1, <3>2, <3>3, SetsChange
  <2> QED
    BY <2>3 DEF OneSetPerName
<1> QED
  BY <1>3, <1>4, <1>5 DEF SerialInv

\* Commands run one at a time never store two sets of a name.
THEOREM SetsAreNotSplit == Spec => []OneSetPerName
<1>1. Init => SerialInv
  <2> SUFFICES ASSUME Init PROVE SerialInv
    OBVIOUS
  <2>1. \A j \in Jobs : job[j] = Idle
    BY DEF Init
  <2>2. \A i \in SetIds : sets[i] = None
    BY DEF Init, TablesInit
  <2> QED
    BY <2>1, <2>2, IdleInv DEF SerialInv, NotThere, At, OneSetPerName
<1>2. SerialInv => OneSetPerName
  BY DEF SerialInv
<1> QED
  BY <1>1, <1>2, SerialStep, CommandsAsWritten, PTL DEF Spec

-----------------------------------------------------------------------------
(* The files of a model.                                                   *)

\* Only a store changes what is stored of a model.
LEMMA ModelsChange ==
  ASSUME CommandsInv, [Next]_vars
  PROVE  \/ UNCHANGED <<models, mixed>>
         \/ \E j \in Jobs : StoreModel(j)
<1>1. ASSUME NEW j \in Jobs, Step(j), ~StoreModel(j)
      PROVE  UNCHANGED <<models, mixed>>
  <2>1. UNCHANGED world
    BY <1>1, Zenon DEF Step, FindSet, UpsertSetMetadata, Reconcile, RefuseToWipe, ResolveSet, CreateSet,
       ImportCard, SelectCard, AttachImage, LookUp, TakeId, SetPriceSource, CardExists, SetCardCharacterModel,
       Download, ImportFails, Clip, AudioDone, Finish, SkipRow, Kill
  <2>2. UNCHANGED models
    <3>1. Writes(j) => UNCHANGED figures \/ UNCHANGED models
      <4>1. UpsertSetMetadata(j) \/ CreateSet(j) => UNCHANGED figures
        BY <1>1 DEF UpsertSetMetadata, CreateSet, InsertSet, UpdateSet
      <4>2. Reconcile(j) \/ ImportCard(j) \/ SetPriceSource(j) \/ SetCardCharacterModel(j) => UNCHANGED figures
        BY Zenon DEF Reconcile, ImportCard, SetPriceSource, SetCardCharacterModel, DeleteCards, UpsertCard,
           UpsertPriceSource, LinkCard
      <4>3. AttachImage(j) \/ Clip(j) => UNCHANGED models
        BY DEF AttachImage, Clip, UpsertCardImage, UpsertCharacterModelAudio, tables, figures
      <4> QED
        BY <1>1, <4>1, <4>2, <4>3 DEF Writes
    <3> QED
      BY <1>1, <3>1, OthersLook DEF figures, tables
  <2> QED
    BY <2>1, <2>2 DEF world
<1>2. (\E j \in Jobs, c \in Commands : Start(j, c)) \/ (\E m \in Models : SourceChanges(m)) \/ UNCHANGED vars
      => UNCHANGED <<models, mixed>>
  <2>1. (\E j \in Jobs, c \in Commands : Start(j, c)) => UNCHANGED <<tables, mixed>>
    BY Started
  <2>2. (\E m \in Models : SourceChanges(m)) => UNCHANGED tables /\ UNCHANGED mixed
    BY DEF SourceChanges
  <2> QED
    BY <2>1, <2>2 DEF vars, world, tables
<1>3. App \/ PageLinks => UNCHANGED <<models, mixed>>
  <2>1. App \/ PageLinks => UNCHANGED figures /\ UNCHANGED world
    BY Zenon DEF App, PageLinks, OwnCopy, DisownCopies, LinkCard
  <2> QED
    BY <2>1 DEF world, figures
<1> QED
  BY <1>1, <1>2, <1>3 DEF Next

\* What a command has fetched is of the version at the source, unless that changed.
LEMMA PartsFetched ==
  ASSUME CommandsInv, PartsInv, NEW j \in Jobs, Download(j), ~job'[j].changed
  PROVE  /\ job'[j].pc = "fetch" => \A p \in 1..Len(job'[j].parts) : job'[j].parts[p] = part'[job'[j].cmd.char]
         /\ job'[j].pc = "store" => \A p, q \in 1..Parts : job'[j].parts[p] = job'[j].parts[q]
<1> DEFINE x == job[j]
           y == job'[j]
           v == part[Cmd(j).char]
<1>1. x.pc = "fetch" /\ x.parts \in Seq(1..NewestPart) /\ v \in 1..NewestPart /\ x.cmd = Cmd(j)
  <2>1. x.pc = "fetch"
    BY Zenon DEF Download, At
  <2>2. Cmd(j).char \in Models
    BY <2>1, Running, CommandFacts DEF KindAt, FigureSteps
  <2> QED
    BY <2>1, <2>2, Running DEF JobRows, CommandsInv
<1>2. /\ y.cmd = x.cmd /\ y.changed = x.changed /\ y.parts = Append(x.parts, v)
      /\ y.pc = IF Len(x.parts) + 1 = Parts THEN "store" ELSE "fetch"
  BY FigureMoves DEF Keep
<1>3. \A p \in 1..Len(x.parts) : x.parts[p] = v
  BY <1>1, <1>2 DEF PartsInv, At
<1>4. part' = part
  <2>1. UNCHANGED world
    BY Zenon DEF Download
  <2> QED
    BY <2>1 DEF world
<1> HIDE DEF v
<1>5. Len(y.parts) = Len(x.parts) + 1 /\ \A p \in 1..(Len(x.parts) + 1) : y.parts[p] = v
  BY <1>1, <1>2, <1>3
<1>6. part'[y.cmd.char] = v
  BY <1>1, <1>2, <1>4 DEF v
<1> QED
  BY <1>2, <1>5, <1>6

\* The source changes under an import only if the import is told.
LEMMA ToldOfChange ==
  ASSUME CommandsInv, [Next]_vars, NEW j \in Jobs, SameWork(job[j], job'[j]), ~Step(j),
         job[j].pc = "fetch", job[j].parts # <<>>, ~job'[j].changed
  PROVE  part'[Cmd(j).char] = part[Cmd(j).char]
<1>1. Cmd(j).char \in Models /\ part \in [Models -> 1..NewestPart] /\ job = [k \in Jobs |-> job[k]]
  BY Running, CommandFacts DEF KindAt, FigureSteps, CommandsInv
<1>2. ASSUME NEW m \in Models, SourceChanges(m) PROVE part'[Cmd(j).char] = part[Cmd(j).char]
  <2>1. Cmd(j).char # m
    <3>1. SUFFICES ASSUME Cmd(j).char = m PROVE FALSE
      OBVIOUS
    <3>2. job'[j] = [job[j] EXCEPT !.changed = TRUE]
      BY <1>2, <3>1 DEF SourceChanges, At
    <3>3. job[j] \in JobRows
      BY Running
    <3> QED
      BY <3>2, <3>3 DEF JobRows
  <2> QED
    BY <1>1, <1>2, <2>1 DEF SourceChanges
<1>3. ASSUME NEW k \in Jobs, Step(k) PROVE part' = part
  <2>1. StoreModel(k) => part' = part
    BY DEF StoreModel
  <2>2. ~StoreModel(k) => UNCHANGED world
    BY <1>3, Zenon DEF Step, FindSet, UpsertSetMetadata, Reconcile, RefuseToWipe, ResolveSet, CreateSet,
       ImportCard, SelectCard, AttachImage, LookUp, TakeId, SetPriceSource, CardExists, SetCardCharacterModel,
       Download, ImportFails, Clip, AudioDone, Finish, SkipRow, Kill
  <2> QED
    BY <2>1, <2>2 DEF world
<1>4. (\E k \in Jobs, c \in Commands : Start(k, c)) => part' = part
  BY Started
<1>5. App \/ PageLinks \/ UNCHANGED vars => part' = part
  <2>1. App \/ PageLinks => UNCHANGED world
    BY Zenon DEF App, PageLinks
  <2> QED
    BY <2>1 DEF world, vars
<1> QED
  BY <1>2, <1>3, <1>4, <1>5 DEF Next

\* A model import whose character's files did not change under it holds parts of one
\* version, so the stored model is whole.
LEMMA PartsStep == CommandsInv /\ PartsInv /\ [Next]_vars => PartsInv'
<1> SUFFICES ASSUME CommandsInv, PartsInv, [Next]_vars PROVE PartsInv'
  OBVIOUS
<1>1. ASSUME NEW j \in Jobs, ~job'[j].changed
      PROVE  /\ job'[j].pc = "fetch" => \A p \in 1..Len(job'[j].parts) : job'[j].parts[p] = part'[job'[j].cmd.char]
             /\ job'[j].pc = "store" => \A p, q \in 1..Parts : job'[j].parts[p] = job'[j].parts[q]
  <2>1. CASE Step(j)
    BY <1>1, <2>1, JustLookedFor, PartsFetched
  <2>2. CASE \E c \in Commands : Start(j, c)
    <3>1. job'[j].parts = <<>> /\ job'[j].pc # "store"
      BY <2>2, Started
    <3> QED
      BY <3>1
  <2>3. CASE SameWork(job[j], job'[j]) /\ ~Step(j)
    <3>1. job'[j].pc = job[j].pc /\ job'[j].parts = job[j].parts /\ job'[j].cmd = job[j].cmd /\ ~job[j].changed
      BY <1>1, <2>3 DEF SameWork
    <3>2. job[j].pc = "fetch" /\ job[j].parts # <<>> => part'[job[j].cmd.char] = part[job[j].cmd.char]
      BY <1>1, <2>3, ToldOfChange DEF Cmd
    <3>3. /\ job[j].pc = "fetch" => \A p \in 1..Len(job[j].parts) : job[j].parts[p] = part[job[j].cmd.char]
          /\ job[j].pc = "store" => \A p, q \in 1..Parts : job[j].parts[p] = job[j].parts[q]
      BY <3>1 DEF PartsInv, At, Cmd
    <3>4. job[j].parts = <<>> => Len(job[j].parts) = 0
      OBVIOUS
    <3> QED
      BY <3>1, <3>2, <3>3, <3>4
  <2> QED
    BY <2>1, <2>2, <2>3, OtherActors
<1>2. \A m \in Models \ mixed' : models'[m] # None => \A p, q \in 1..Parts : models'[m][p] = models'[m][q]
  <2>1. CASE UNCHANGED <<models, mixed>>
    BY <2>1 DEF PartsInv, ModelsWhole
  <2>2. ASSUME NEW j \in Jobs, StoreModel(j)
        PROVE  \A m \in Models \ mixed' : models'[m] # None => \A p, q \in 1..Parts : models'[m][p] = models'[m][q]
    <3> DEFINE m0 == Cmd(j).char
    <3>1. /\ job[j].pc = "store" /\ models' = [models EXCEPT ![m0] = job[j].parts]
          /\ mixed' = IF job[j].changed THEN mixed \cup {m0} ELSE mixed \ {m0}
      BY <2>2 DEF StoreModel, UpsertCharacterModel, At
    <3>2. ~job[j].changed => \A p, q \in 1..Parts : job[j].parts[p] = job[j].parts[q]
      BY <3>1 DEF PartsInv, At
    <3>3. models \in [Models -> [1..Parts -> 1..NewestPart] \cup {None}]
      BY DEF CommandsInv
    <3>4. \A m \in Models : IF m = m0 THEN models'[m] = job[j].parts ELSE models'[m] = models[m]
      BY <3>1, <3>3
    <3>5. m0 \notin mixed' => ~job[j].changed
      BY <3>1
    <3>6. \A m \in Models : m # m0 /\ m \notin mixed' => m \notin mixed
      BY <3>1
    <3> HIDE DEF m0
    <3> QED
      BY <3>2, <3>4, <3>5, <3>6 DEF PartsInv, ModelsWhole
  <2> QED
    BY <2>1, <2>2, ModelsChange
<1> QED
  BY <1>1, <1>2 DEF PartsInv, ModelsWhole, At, Cmd

\* The files of a stored model are of one version, unless the source changed meanwhile.
THEOREM StoredModelsWhole == Spec => []ModelsWhole
<1>1. Init => PartsInv
  <2> SUFFICES ASSUME Init PROVE PartsInv
    OBVIOUS
  <2>1. \A j \in Jobs : job[j] = Idle
    BY DEF Init
  <2>2. \A m \in Models : models[m] = None
    BY DEF Init, TablesInit
  <2> QED
    BY <2>1, <2>2, IdleInv DEF PartsInv, ModelsWhole, At
<1>2. PartsInv => ModelsWhole
  BY DEF PartsInv
<1> QED
  BY <1>1, <1>2, PartsStep, CommandsAsWritten, PTL DEF Spec

-----------------------------------------------------------------------------
(* Commands that run alone.                                                *)

\* The steps that write to the cards, and what they write.
LEMMA CardsWritten ==
  ASSUME CommandsInv, NEW j \in Jobs, Step(j)
  PROVE  /\ ImportCard(j) =>
              UpsertCard(KeyOf(j), CurrentRow(j).text) /\ KeyOf(j) \in Keys /\ CurrentRow(j).text \in Texts
         /\ Reconcile(j) => DeleteCards(Gone(j)) /\ Gone(j) \in SUBSET Keys
         /\ SetCardCharacterModel(j) =>
              LinkCard(job[j].id, Cmd(j).char) /\ job[j].id \in CardIds /\ Cmd(j).char \in Models
         /\ ~ImportCard(j) /\ ~Reconcile(j) /\ ~SetCardCharacterModel(j) => UNCHANGED cards
<1>1. ASSUME ImportCard(j)
      PROVE  UpsertCard(KeyOf(j), CurrentRow(j).text) /\ KeyOf(j) \in Keys /\ CurrentRow(j).text \in Texts
  <2>1. job[j].pc = "upsert" /\ UpsertCard(KeyOf(j), CurrentRow(j).text)
    BY <1>1 DEF ImportCard, At
  <2> QED
    BY <2>1, Running, OnARow DEF FoundAt, OnRow
<1>2. Reconcile(j) => DeleteCards(Gone(j)) /\ Gone(j) \in SUBSET Keys
  <2>1. Gone(j) \in SUBSET Keys
    BY DEF Gone, Wiped
  <2> QED
    BY <2>1 DEF Reconcile
<1>3. ASSUME SetCardCharacterModel(j)
      PROVE  LinkCard(job[j].id, Cmd(j).char) /\ job[j].id \in CardIds /\ Cmd(j).char \in Models
  BY <1>3, Running, CommandFacts DEF SetCardCharacterModel, At, FoundAt, KindAt
<1>4. ASSUME ~ImportCard(j), ~Reconcile(j), ~SetCardCharacterModel(j) PROVE UNCHANGED cards
  <2>1. UpsertSetMetadata(j) \/ CreateSet(j) => UNCHANGED cards
    BY DEF UpsertSetMetadata, CreateSet, InsertSet, UpdateSet
  <2>2. AttachImage(j) \/ SetPriceSource(j) => UNCHANGED cards
    BY DEF AttachImage, SetPriceSource, UpsertCardImage, UpsertPriceSource, tables
  <2>3. StoreModel(j) \/ Clip(j) => UNCHANGED cards
    BY DEF StoreModel, Clip, UpsertCharacterModel, UpsertCharacterModelAudio, tables
  <2>4. Writes(j) \/ UNCHANGED <<tables, world>>
    BY OthersLook
  <2> QED
    BY <1>4, <2>1, <2>2, <2>3, <2>4 DEF Writes, tables
<1> QED
  BY <1>1, <1>2, <1>3, <1>4

\* The steps of a command at any other point leave the cards.
LEMMA CardsSame ==
  ASSUME CommandsInv, NEW j \in Jobs, Step(j), job[j].pc \notin {"upsert", "reconcile", "link"}
  PROVE  cards' = cards
<1>1. ImportCard(j) => job[j].pc = "upsert"
  BY Zenon DEF ImportCard, At
<1>2. Reconcile(j) => job[j].pc = "reconcile"
  BY Zenon DEF Reconcile, At
<1>3. SetCardCharacterModel(j) => job[j].pc = "link"
  BY Zenon DEF SetCardCharacterModel, At
<1> QED
  BY <1>1, <1>2, <1>3, CardsWritten

\* Only a refresh takes an id away.
LEMMA IdsStay ==
  ASSUME CommandsInv, [Next]_vars, \A j \in Jobs : ~Reconcile(j), NEW id \in CardIds, Live(id)
  PROVE  Live(id)'
<1>1. id.key \in Keys /\ TablesType /\ cards[id.key] # None /\ cards[id.key].gen = id.gen
  BY DEF CardIds, CommandsInv, Live
<1>2. CASE UNCHANGED cards
  BY <1>1, <1>2 DEF Live
<1>3. ASSUME NEW k \in Keys, NEW t \in Texts, UpsertCard(k, t) PROVE Live(id)'
  <2>1. cards'[id.key] # None /\ cards'[id.key].gen = cards[id.key].gen
    BY <1>1, <1>3, UpsertCardType
  <2> QED
    BY <1>1, <2>1 DEF Live
<1>4. ASSUME NEW i \in CardIds, NEW m \in Models \cup {None}, LinkCard(i, m) PROVE Live(id)'
  <2>1. cards'[id.key] # None /\ cards'[id.key].gen = cards[id.key].gen
    BY <1>1, <1>4, LinkCardType
  <2> QED
    BY <1>1, <2>1 DEF Live
<1>5. ASSUME NEW j \in Jobs, Step(j) PROVE Live(id)'
  BY <1>2, <1>3, <1>4, <1>5, CardsWritten
<1>6. ASSUME (\E j \in Jobs, c \in Commands : Start(j, c)) \/ (\E m \in Models : SourceChanges(m)) \/ App \/ UNCHANGED vars
      PROVE  UNCHANGED cards
  <2>1. (\E j \in Jobs, c \in Commands : Start(j, c)) => UNCHANGED tables
    BY Started
  <2>2. (\E m \in Models : SourceChanges(m)) => UNCHANGED tables
    BY DEF SourceChanges
  <2>3. App => UNCHANGED cards
    BY DEF App, OwnCopy, DisownCopies
  <2> QED
    BY <1>6, <2>1, <2>2, <2>3 DEF vars, tables
<1>7. CASE PageLinks
  BY <1>1, <1>4, <1>7, LiveIdsType DEF PageLinks
<1> QED
  BY <1>2, <1>5, <1>6, <1>7 DEF Next

KnownGrows(x, y) == \A n \in Names : x.known[n] # None => y.known[n] = x.known[n]

\* A command stays the command it is, and never finds a set again.
LEMMA KeepsGoing ==
  ASSUME CommandsInv, NEW j \in Jobs, Step(j), job'[j] # Idle
  PROVE  Keep(job[j], job'[j]) /\ KnownGrows(job[j], job'[j])
<1> DEFINE x == job[j]
           y == job'[j]
<1>0. /\ x \in JobRows /\ x.cmd = Cmd(j) /\ KindAt(x) /\ FoundAt(x)
      /\ x.known \in [Names -> SetIds \cup {None}] /\ \A n \in Names : Idle.known[n] = None
  BY OthersStay, Running DEF JobRows, Idle
<1>1. ASSUME Keep(x, y), y.known = x.known PROVE Keep(x, y) /\ KnownGrows(x, y)
  BY <1>1 DEF KnownGrows
<1>2. CASE FindSet(j) \/ Reconcile(j) \/ RefuseToWipe(j)
  <2>1. Keep(x, y) /\ y.known = x.known
    BY <1>2, SetMoves DEF OnWith
  <2> QED
    BY <1>1, <2>1
<1>3. CASE UpsertSetMetadata(j)
  <2>1. Keep(x, y)
    BY <1>3, SetMoves
  <2>2. x.pc = "metadata"
    BY <1>3, Zenon DEF UpsertSetMetadata, At
  <2>3. \A n \in Names : x.known[n] = None
    BY <1>0, <2>2 DEF FoundAt
  <2> QED
    BY <2>1, <2>3 DEF KnownGrows
<1>4. CASE ResolveSet(j) \/ CreateSet(j)
  <2> DEFINE n == CurrentRow(j).name
  <2>1. OnWith(x, y, "create") \/ \/ /\ Keep(x, y) /\ y.known = [x.known EXCEPT ![n] = y.sid]
                                     /\ x.known[n] # None => y.sid = x.known[n]
                                  \/ /\ Keep(x, y) /\ y.known = [x.known EXCEPT ![n] = NextSet]
                                     /\ CreateSet(j)
    BY <1>4, RowMoves
  <2>2. CreateSet(j) => x.known[n] = None
    <3>1. CreateSet(j) => x.pc = "create"
      BY Zenon DEF CreateSet, At
    <3>2. n = x.cmd.rows[x.at].name
      BY DEF CurrentRow, Cmd
    <3> QED
      BY <1>0, <3>1, <3>2 DEF FoundAt
  <2> HIDE DEF n
  <2>3. CASE OnWith(x, y, "create")
    BY <1>1, <2>3 DEF OnWith
  <2>4. CASE Keep(x, y) /\ y.known = [x.known EXCEPT ![n] = y.sid] /\ (x.known[n] # None => y.sid = x.known[n])
    <3>1. \A m \in Names : x.known[m] # None => y.known[m] = x.known[m]
      BY <1>0, <2>4
    <3> QED
      BY <2>4, <3>1 DEF KnownGrows
  <2>5. CASE Keep(x, y) /\ y.known = [x.known EXCEPT ![n] = NextSet] /\ x.known[n] = None
    <3>1. \A m \in Names : x.known[m] # None => y.known[m] = x.known[m]
      BY <1>0, <2>5
    <3> QED
      BY <2>5, <3>1 DEF KnownGrows
  <2> QED
    BY <2>1, <2>2, <2>3, <2>4, <2>5
<1>5. CASE ImportCard(j) \/ SelectCard(j) \/ AttachImage(j)
  <2>1. Keep(x, y) /\ y.known = x.known
    BY <1>5, RowMoves DEF OnWith, NextOne
  <2> QED
    BY <1>1, <2>1
<1>6. CASE LookUp(j) \/ TakeId(j) \/ SetPriceSource(j) \/ CardExists(j) \/ SetCardCharacterModel(j)
  <2>1. Keep(x, y) /\ y.known = x.known
    BY <1>6, CardMoves DEF OnWith, NextOne
  <2> QED
    BY <1>1, <2>1
<1>7. CASE Download(j) \/ ImportFails(j) \/ StoreModel(j) \/ Clip(j) \/ AudioDone(j)
  <2>1. Keep(x, y) /\ y.known = x.known
    BY <1>7, FigureMoves DEF ToCards
  <2> QED
    BY <1>1, <2>1
<1>8. CASE Finish(j) \/ SkipRow(j) \/ Kill(j)
  <2>1. Keep(x, y) /\ y.known = x.known
    BY <1>8, AnyMoves DEF NextOne
  <2> QED
    BY <1>1, <2>1
<1> QED
  BY <1>2, <1>3, <1>4, <1>5, <1>6, <1>7, <1>8 DEF Step

\* A command that runs alone is the only one that runs.
LEMMA AloneStep == CommandsInv /\ AloneInv /\ [Next]_vars => AloneInv'
<1> SUFFICES ASSUME CommandsInv, AloneInv, [Next]_vars, NEW j \in Jobs, NEW k \in Jobs,
                    job'[j].alone, job'[j] # Idle, job'[k] # Idle, j # k
             PROVE  FALSE
  BY DEF AloneInv
<1>1. CASE \E c \in Commands : Start(j, c)
  <2>1. job[k] = Idle
    BY <1>1, Started
  <2> QED
    BY <1>1, <2>1, StartsAlone
<1>2. ASSUME ~\E c \in Commands : Start(j, c) PROVE job[j] # Idle /\ job[j].alone
  BY <1>2, OtherActors, OthersStay, KeepsGoing DEF SameWork, Keep
<1>3. CASE \E c \in Commands : Start(k, c)
  <2>1. ~\E c \in Commands : Start(j, c)
    BY <1>1
  <2>2. job[j] = Idle \/ ~job[j].alone
    BY <1>3, Started
  <2> QED
    BY <1>2, <2>1, <2>2
<1>4. ASSUME ~\E c \in Commands : Start(k, c) PROVE job[k] # Idle
  BY <1>4, OtherActors, OthersStay DEF SameWork
<1> QED
  BY <1>1, <1>2, <1>3, <1>4 DEF AloneInv

\* Next to a command that runs alone, nothing but its own steps removes a card.
LEMMA ListedStep ==
  ASSUME CommandsInv, SetsInv, AloneInv, ListedCardsKeepIds, [Next]_vars
  PROVE  ListedCardsKeepIds'
<1> SUFFICES ASSUME NEW j \in Jobs, job'[j].alone, NEW id \in job'[j].had, ~Live(id)'
             PROVE  /\ job'[j].cmd.refresh
                    /\ id.key[1] = job'[j].known[job'[j].cmd.name]
                    /\ id.key[2] \notin KeepCodes(job'[j].cmd)
  BY DEF ListedCardsKeepIds, Cmd, KeepCodes
<1>1. job'[j] # Idle
  BY IdleInv
<1>2. CASE \E c \in Commands : Start(j, c)
  <2>1. job'[j].had = LiveIds /\ cards' = cards
    BY <1>2, Started DEF tables
  <2> QED
    BY <2>1, LiveIdsType DEF CommandsInv, Live
<1>3. CASE ~\E c \in Commands : Start(j, c)
  <2> DEFINE x == job[j]
             y == job'[j]
  <2>1. /\ x # Idle /\ x.alone /\ y.had = x.had /\ y.cmd = x.cmd /\ KnownGrows(x, y)
    BY <1>1, <1>3, OtherActors, OthersStay, KeepsGoing DEF SameWork, Keep, KnownGrows
  <2>2. /\ x \in JobRows /\ x.cmd \in Commands /\ id \in CardIds /\ Cmd(j) = x.cmd /\ KindAt(x)
        /\ x.cmd.name \in Names \cup {None} /\ (x.cmd.refresh => x.cmd.name \in Names)
    BY <2>1, Running, CommandFacts, CatalogAssumption DEF JobRows
  <2>3. id.key \in Keys /\ id.key[1] \in SetIds /\ id.key[1] # None
    BY <2>2, CatalogAssumption DEF CardIds, Keys
  <2>4. CASE ~Live(id)
    <3>1. x.cmd.refresh /\ id.key[1] = x.known[x.cmd.name] /\ id.key[2] \notin KeepCodes(x.cmd)
      BY <2>1, <2>2, <2>4 DEF ListedCardsKeepIds
    <3> QED
      BY <2>1, <2>2, <2>3, <3>1 DEF KnownGrows
  <2>5. CASE Live(id)
    <3>1. PICK k \in Jobs : Reconcile(k)
      BY <2>2, <2>5, IdsStay
    <3>2. k = j
      <4>1. job[k].pc = "reconcile"
        BY <3>1, Zenon DEF Reconcile, At
      <4>2. job[k] # Idle
        BY <4>1, IdleInv
      <4> QED
        BY <2>1, <4>2 DEF AloneInv
    <3>3. x.pc = "reconcile" /\ DeleteCards(Gone(j)) /\ Gone(j) \in SUBSET Keys
      BY <3>1, <3>2, Zenon DEF Reconcile, At, Gone, Wiped
    <3>4. id.key \in Gone(j)
      <4>1. \A q \in Keys : q \notin Gone(j) => cards'[q] = cards[q]
        BY <3>3, DeleteCardsType DEF CommandsInv
      <4> QED
        BY <2>3, <2>5, <4>1 DEF Live
    <3>5. id.key[1] = x.sid /\ id.key[2] \notin KeepCodes(x.cmd)
      BY <2>2, <3>4 DEF Gone, Wiped
    <3>6. x.sid = x.known[x.cmd.name] /\ x.cmd.refresh
      BY <2>2, <3>3 DEF SetsInv, KnownSets, KindAt
    <3> QED
      BY <2>1, <2>2, <2>3, <3>5, <3>6 DEF KnownGrows
  <2> QED
    BY <2>4, <2>5
<1> QED
  BY <1>2, <1>3

\* A command that runs alone leaves every card its id, unless its file no longer lists it.
THEOREM ListedKeepIds == Spec => []ListedCardsKeepIds
<1>1. Init => AloneInv /\ ListedCardsKeepIds
  BY IdleInv DEF Init, AloneInv, ListedCardsKeepIds
<1>2. CommandsInv /\ SetsInv /\ AloneInv /\ ListedCardsKeepIds /\ [Next]_vars => ListedCardsKeepIds'
  BY ListedStep
<1> QED
  BY <1>1, <1>2, AloneStep, CommandsAsWritten, KnownSetsStay, PTL DEF Spec

-----------------------------------------------------------------------------
(* What a command that ran alone has done of its file.                     *)

\* The rows of a file of cards, and what is known while they are imported.
LEMMA RowFacts ==
  ASSUME CommandsInv, SetsInv, NEW j \in Jobs, job[j].pc \in RowSteps
  PROVE  LET x == job[j] IN
         /\ x.cmd \in Commands /\ x.cmd = Cmd(j) /\ x.cmd.kind = "process-set" /\ KnownSets(x)
         /\ x.known \in [Names -> SetIds \cup {None}] /\ x.sid \in SetIds \cup {None}
         /\ Len(x.cmd.rows) \in Nat /\ DOMAIN x.cmd.rows = 1..Len(x.cmd.rows)
         /\ RowsDone(x) \in 0..Len(x.cmd.rows) /\ x.at \in Nat \ {0}
         /\ \A r \in 1..Len(x.cmd.rows) : x.cmd.rows[r].name \in Names /\ x.cmd.rows[r].code \in Codes
         /\ x.cmd.name \in Names \cup {None}
         /\ x.cmd.refresh => x.cmd.name \in Names /\ x.cmd.name # None /\ x.known[x.cmd.name] # None
<1> DEFINE x == job[j]
<1>1. x.pc # "idle"
  BY DEF RowSteps
<1>2. x \in JobRows /\ x.cmd = Cmd(j) /\ x.cmd \in Commands /\ KindAt(x) /\ PlaceAt(x) /\ KnownSets(x)
  BY <1>1, Running DEF SetsInv
<1>3. x.cmd.kind = "process-set"
  BY <1>2 DEF KindAt
<1>4. /\ Len(x.cmd.rows) \in Nat /\ DOMAIN x.cmd.rows = 1..Len(x.cmd.rows)
      /\ \A r \in 1..Len(x.cmd.rows) : x.cmd.rows[r].name \in Names /\ x.cmd.rows[r].code \in Codes
      /\ x.cmd.name \in Names \cup {None} /\ (x.cmd.refresh => x.cmd.name # None)
  BY <1>2, <1>3, CommandFacts, CatalogAssumption
<1>5. x.at \in 1..(Len(x.cmd.rows) + 1) /\ (x.pc \in OnRow => x.at <= Len(x.cmd.rows))
  BY <1>2 DEF PlaceAt, RowSteps
<1>6. RowsDone(x) \in 0..Len(x.cmd.rows)
  BY <1>4, <1>5 DEF RowsDone, OnRow
<1>7. x.cmd.refresh => x.known[x.cmd.name] # None
  BY <1>2, <1>4 DEF KnownSets
<1> QED
  BY <1>2, <1>3, <1>4, <1>5, <1>6, <1>7 DEF JobRows

\* Knowing one more set changes nothing about the rows that are done.
LEMMA SetDoneSame ==
  ASSUME NEW C, NEW x, NEW y, y.cmd = x.cmd, KnownGrows(x, y), RowsDone(y) = RowsDone(x), SetDone(C, x),
         Len(x.cmd.rows) \in Nat, RowsDone(x) \in 0..Len(x.cmd.rows),
         \A r \in 1..Len(x.cmd.rows) : x.cmd.rows[r].name \in Names,
         x.cmd.refresh => x.cmd.name \in Names /\ x.known[x.cmd.name] # None
  PROVE  SetDone(C, y)
<1>1. ASSUME NEW r \in 1..RowsDone(x) PROVE Imported(C, y, r, RowsDone(x))
  <2>1. x.cmd.rows[r].name \in Names /\ Imported(C, x, r, RowsDone(x))
    BY DEF SetDone
  <2>2. y.known[x.cmd.rows[r].name] = x.known[x.cmd.rows[r].name]
    BY <2>1 DEF Imported, KnownGrows
  <2>3. KeyOfRow(y, r) = KeyOfRow(x, r)
    BY <2>2 DEF KeyOfRow
  <2> QED
    BY <2>1, <2>2, <2>3 DEF Imported
<1>2. x.cmd.refresh => OnlyListed(C, y)
  BY DEF SetDone, OnlyListed, KnownGrows
<1> QED
  BY <1>1, <1>2 DEF SetDone

\* Importing a row writes its card, and no other row's.
LEMMA RowImported ==
  ASSUME CommandsInv, SetsInv, NEW j \in Jobs, job[j].pc = "upsert", SetDone(cards, job[j]),
         UpsertCard(KeyOf(j), CurrentRow(j).text), KeyOf(j) \in Keys, CurrentRow(j).text \in Texts,
         NEW y, OnWith(job[j], y, "select")
  PROVE  SetDone(cards', y)
<1> DEFINE x == job[j]
           c == x.cmd
           n == x.at
           C == cards'
<1>0. x.pc \in RowSteps
  BY DEF RowSteps
<1>1. y.cmd = c /\ y.at = n /\ y.pc = "select" /\ y.known = x.known
  BY DEF OnWith, Keep
<1>12. KeyOf(j) = <<x.sid, c.rows[n].code>>
  BY DEF KeyOf, CurrentRow, Cmd
<1>13. CurrentRow(j) = c.rows[n]
  BY DEF CurrentRow, Cmd
<1>2. /\ KnownSets(x) /\ x.known \in [Names -> SetIds \cup {None}] /\ Len(c.rows) \in Nat /\ n \in Nat \ {0}
      /\ \A r \in 1..Len(c.rows) : c.rows[r].name \in Names /\ c.rows[r].code \in Codes
      /\ c.refresh => c.name \in Names /\ x.known[c.name] # None
      /\ DOMAIN c.rows = 1..Len(c.rows)
  BY <1>0, RowFacts
<1>3. n \in 1..Len(c.rows) /\ x.sid \in SetIds /\ x.sid # None
  BY Running, CatalogAssumption DEF PlaceAt, FoundAt, OnRow
<1>4. x.sid = x.known[c.rows[n].name] /\ KeyOfRow(x, n) = KeyOf(j)
  <2>1. x.sid = x.known[RowOf(x).name]
    BY <1>2 DEF KnownSets
  <2>2. x.sid = x.known[c.rows[n].name]
    BY <2>1 DEF RowOf
  <2>3. KeyOfRow(x, n) = <<x.known[c.rows[n].name], c.rows[n].code>>
    BY DEF KeyOfRow
  <2> QED
    BY <1>12, <2>2, <2>3, Zenon
<1>5. RowsDone(x) = n - 1 /\ RowsDone(y) = n
  BY <1>1 DEF RowsDone
<1>6. \A p, q \in Names : x.known[p] # None /\ x.known[p] = x.known[q] => p = q
  BY <1>2 DEF KnownSets, IsSet
<1>7. /\ C[KeyOf(j)] # None /\ C[KeyOf(j)].text = c.rows[n].text
      /\ \A k \in Keys : k # KeyOf(j) => C[k] = cards[k]
  <2>1. TablesType
    BY DEF CommandsInv
  <2> QED
    BY <1>13, <2>1, UpsertCardType
<1>8. \A r \in 1..n : KeyOfRow(y, r) = KeyOfRow(x, r)
  BY <1>1 DEF KeyOfRow
<1> HIDE DEF C, n, c
<1>9. ASSUME NEW r \in 1..n, SameRow(c, r, n) PROVE Imported(C, y, r, n)
  <2>1. c.rows[r].name = c.rows[n].name /\ c.rows[r].code = c.rows[n].code /\ SameRow(c, n, r)
    BY <1>9 DEF SameRow
  <2>2. KeyOfRow(x, r) = KeyOf(j)
    BY <1>4, <2>1 DEF KeyOfRow, c
  <2>3. n \in 1..n /\ \A p \in 1..n : p <= n
    BY <1>2
  <2> QED
    BY <1>1, <1>3, <1>4, <1>7, <1>8, <2>1, <2>2, <2>3 DEF Imported
<1>10. ASSUME NEW r \in 1..n, ~SameRow(c, r, n) PROVE Imported(C, y, r, n)
  <2>1. r \in 1..(n - 1)
    BY <1>2, <1>10 DEF SameRow
  <2>2. Imported(cards, x, r, n - 1)
    BY <1>5, <2>1 DEF SetDone
  <2>3. /\ x.known[c.rows[r].name] # None /\ cards[KeyOfRow(x, r)] # None /\ c.rows[r].name \in Names
        /\ c.rows[n].name \in Names /\ c.rows[r].code \in Codes
    BY <1>2, <1>3, <2>2 DEF Imported, c
  <2>4. KeyOfRow(x, r) = <<x.known[c.rows[r].name], c.rows[r].code>>
    BY DEF KeyOfRow, c
  <2>5. KeyOfRow(x, r) # KeyOf(j)
    <3>1. x.known[c.rows[r].name] = x.known[c.rows[n].name] => c.rows[r].name = c.rows[n].name
      BY <1>6, <2>3
    <3> QED
      BY <1>12, <1>4, <1>10, <2>4, <3>1 DEF SameRow
  <2>6. KeyOfRow(x, r) \in Keys
    BY <1>2, <2>3, <2>4 DEF Keys
  <2>7. C[KeyOfRow(x, r)] = cards[KeyOfRow(x, r)]
    BY <1>7, <2>5, <2>6
  <2>8. PICK q \in 1..(n - 1) : /\ SameRow(c, q, r) /\ cards[KeyOfRow(x, r)].text = c.rows[q].text
                                /\ \A p \in 1..(n - 1) : SameRow(c, p, r) => p <= q
    BY <2>2 DEF Imported, c
  <2>9. ~SameRow(c, n, r)
    BY <1>10 DEF SameRow
  <2>10. q \in 1..n /\ \A p \in 1..n : SameRow(c, p, r) => p <= q
    <3>1. \A p \in 1..n : p = n \/ p \in 1..(n - 1)
      BY <1>2
    <3> QED
      BY <1>2, <2>8, <2>9, <3>1
  <2> QED
    BY <1>1, <1>8, <2>3, <2>7, <2>8, <2>10 DEF Imported
<1>11. ASSUME c.refresh PROVE OnlyListed(C, y)
  <2>1. SUFFICES ASSUME NEW k \in Keys, k[1] = x.known[c.name], C[k] # None PROVE k[2] \in KeepCodes(c)
    BY <1>1 DEF OnlyListed
  <2>2. CASE k = KeyOf(j)
    <3>1. x.known[c.rows[n].name] = x.known[c.name]
      BY <1>12, <1>4, <2>1, <2>2
    <3>2. c.rows[n].name \in Names /\ x.known[c.rows[n].name] # None
      BY <1>2, <1>3, <1>4
    <3>3. c.rows[n].name = c.name
      BY <1>2, <1>6, <1>11, <3>1, <3>2
    <3>4. k[2] = c.rows[n].code
      BY <1>12, <2>2
    <3> QED
      BY <1>2, <1>3, <3>3, <3>4 DEF KeepCodes
  <2>3. CASE k # KeyOf(j)
    BY <1>7, <1>11, <2>1, <2>3 DEF SetDone, OnlyListed, c
  <2> QED
    BY <2>2, <2>3
<1> QED
  BY <1>1, <1>5, <1>9, <1>10, <1>11 DEF SetDone, C

\* A command about to begin with its rows has done nothing it would have to keep.
LEMMA NothingDone ==
  ASSUME NEW C, NEW S, NEW y,
         \/ y.pc \notin RowSteps \cup CardSteps
         \/ y.pc = "lookup" /\ y.at = 1
         \/ y.pc = "row" /\ y.at = 1 /\ (y.cmd.refresh => OnlyListed(C, y))
  PROVE  DoneInv(C, S, y)
<1>1. CASE y.pc \notin RowSteps \cup CardSteps
  BY <1>1 DEF DoneInv, CardSteps
<1>2. CASE y.pc = "lookup" /\ y.at = 1
  <2>1. 1..(y.at - 1) = {}
    BY <1>2
  <2> QED
    BY <1>2, <2>1 DEF DoneInv, RowSteps, PricesDone, LinksDone
<1>3. CASE y.pc = "row" /\ y.at = 1 /\ (y.cmd.refresh => OnlyListed(C, y))
  <2>1. 1..RowsDone(y) = {}
    BY <1>3 DEF RowsDone
  <2> QED
    BY <1>3, <2>1 DEF DoneInv, SetDone
<1> QED
  BY <1>1, <1>2, <1>3

\* A refresh leaves what the file lists.
LEMMA RefreshDone ==
  ASSUME CommandsInv, SetsInv, NEW j \in Jobs, Reconcile(j)
  PROVE  OnlyListed(cards', job[j]) /\ job[j].at = 1
<1> DEFINE x == job[j]
<1>1. x.pc = "reconcile" /\ DeleteCards(Gone(j)) /\ Gone(j) \in SUBSET Keys
  BY Zenon DEF Reconcile, At, Gone, Wiped
<1>2. x.sid = x.known[x.cmd.name] /\ x.at = 1 /\ x.cmd = Cmd(j)
  BY <1>1, Running DEF SetsInv, KnownSets, PlaceAt
<1>3. \A k \in Keys : (k \in Gone(j) => cards'[k] = None) /\ (k \notin Gone(j) => cards'[k] = cards[k])
  BY <1>1, DeleteCardsType DEF CommandsInv
<1>4. \A k \in Keys : k[1] = x.sid /\ cards[k] # None /\ k \notin Gone(j) => k[2] \in KeepCodes(x.cmd)
  BY <1>2 DEF Gone, Wiped
<1> QED
  BY <1>2, <1>3, <1>4 DEF OnlyListed

\* The steps of process-set.
LEMMA SetStepDone ==
  ASSUME CommandsInv, SetsInv, NEW j \in Jobs, Step(j), NEW S,
         ~job[j].bad /\ job[j].pc \in RowSteps => SetDone(cards, job[j]), ~job'[j].bad,
         \/ FindSet(j) \/ UpsertSetMetadata(j) \/ Reconcile(j) \/ RefuseToWipe(j)
         \/ ResolveSet(j) \/ CreateSet(j) \/ ImportCard(j) \/ SelectCard(j) \/ AttachImage(j)
  PROVE  DoneInv(cards', S, job'[j])
<1> DEFINE x == job[j]
           y == job'[j]
           C == cards'
<1>0. x \in JobRows /\ x.cmd = Cmd(j) /\ KindAt(x) /\ PlaceAt(x) /\ x.bad \in BOOLEAN
  BY OthersStay, Running DEF JobRows
<1>1. CASE y = Idle
  BY <1>1, NothingDone, IdleInv DEF RowSteps, CardSteps
<1>2. ASSUME y.pc \in RowSteps, x.pc \in RowSteps, RowsDone(y) = RowsDone(x), y.bad = x.bad, y # Idle, cards' = cards
      PROVE  DoneInv(C, S, y)
  <2>1. y.cmd = x.cmd /\ KnownGrows(x, y)
    BY <1>2, KeepsGoing DEF Keep
  <2>2. SetDone(cards, x)
    BY <1>2
  <2>3. SetDone(cards, y)
    BY <1>2, <2>1, <2>2, RowFacts, SetDoneSame
  <2> QED
    BY <1>2, <2>3 DEF DoneInv, RowSteps
<1>3. CASE FindSet(j)
  <2>1. y = Idle \/ y.pc = "metadata" \/ (y.pc = "lookup" /\ y.at = 1)
    BY <1>3, SetMoves
  <2> QED
    BY <1>1, <2>1, NothingDone DEF RowSteps, CardSteps
<1>4. CASE UpsertSetMetadata(j)
  <2>1. y.cmd = x.cmd /\ y.at = x.at /\ y.pc = IF Cmd(j).refresh THEN "reconcile" ELSE "row"
    BY <1>4, SetMoves DEF Keep
  <2>2. x.pc = "metadata"
    BY <1>4, Zenon DEF UpsertSetMetadata, At
  <2>3. x.at = 1
    BY <1>0, <2>2 DEF PlaceAt
  <2> QED
    BY <1>0, <2>1, <2>3, NothingDone DEF RowSteps, CardSteps
<1>5. CASE Reconcile(j)
  <2>1. y.cmd = x.cmd /\ y.at = x.at /\ y.pc = "row" /\ y.known = x.known
    BY <1>5, SetMoves DEF OnWith, Keep
  <2>2. OnlyListed(C, x) /\ x.at = 1
    BY <1>5, RefreshDone
  <2>3. OnlyListed(C, y)
    BY <2>1, <2>2 DEF OnlyListed
  <2> QED
    BY <2>1, <2>2, <2>3, NothingDone
<1>6. CASE RefuseToWipe(j)
  BY <1>1, <1>6, SetMoves
<1>7. CASE ResolveSet(j) \/ CreateSet(j)
  <2>1. y.at = x.at /\ y.bad = x.bad /\ y.pc \in {"create", "upsert"}
    BY <1>7, RowMoves DEF OnWith
  <2>2. x.pc \in {"row", "create"}
    BY <1>7, Zenon DEF ResolveSet, CreateSet, RowAt, At
  <2>3. cards' = cards
    BY <2>2, CardsSame
  <2> QED
    BY <1>1, <1>2, <2>1, <2>2, <2>3 DEF RowsDone, RowSteps
<1>8. CASE ImportCard(j)
  <2>1. OnWith(x, y, "select") /\ y.bad = x.bad /\ y.pc = "select"
    BY <1>8, RowMoves DEF OnWith
  <2>2. x.pc = "upsert"
    BY <1>8, Zenon DEF ImportCard, At
  <2>3. SetDone(cards, x)
    BY <2>1, <2>2 DEF RowSteps
  <2>4. SetDone(C, y)
    BY <1>8, <2>1, <2>2, <2>3, CardsWritten, RowImported
  <2> QED
    BY <2>1, <2>4 DEF DoneInv, RowSteps
<1>9. CASE SelectCard(j) \/ AttachImage(j)
  <2>1. \/ NextOne(x, y, TRUE)
        \/ OnWith(x, y, "image") /\ SelectCard(j)
        \/ NextOne(x, y, x.bad) /\ AttachImage(j)
    BY <1>9, RowMoves
  <2>2. (SelectCard(j) => x.pc = "select") /\ (AttachImage(j) => x.pc = "image")
    BY Zenon DEF SelectCard, AttachImage, At
  <2>3. cards' = cards
    BY <1>9, <2>2, CardsSame
  <2>4. x.at \in Nat /\ (x.pc \in {"select", "image"} => x.cmd.kind = "process-set")
    BY <1>0 DEF JobRows, KindAt, RowSteps
  <2>5. y.bad = x.bad /\ y.pc \in {"image", "row"} /\ RowsDone(y) = RowsDone(x)
    BY <1>9, <2>1, <2>2, <2>4 DEF OnWith, NextOne, RowsDone
  <2> QED
    BY <1>1, <1>2, <1>9, <2>2, <2>3, <2>5 DEF RowSteps
<1> QED
  BY <1>3, <1>4, <1>5, <1>6, <1>7, <1>8, <1>9

\* A card that is looked up is the row's.
LEMMA CardFound ==
  ASSUME CommandsInv, NEW j \in Jobs, LookUp(j), NEW y, OnWith(job[j], y, y.pc), y.id = IdOf(KeyOf(j)),
         y.pc = IF Cmd(j).kind = "model-import" THEN "exists" ELSE "source",
         DoneInv(cards, sources, job[j])
  PROVE  DoneInv(cards, sources, y)
<1> DEFINE x == job[j]
<1>1. x.pc = "lookup"
  BY Zenon DEF LookUp, RowAt, At
<1>2. /\ x.cmd = Cmd(j) /\ x.cmd.kind \in {"set-price-sources", "model-import"}
      /\ y.cmd = x.cmd /\ y.at = x.at /\ y.sid = x.sid
  BY <1>1, Running, CommandFacts DEF KindAt, OnWith, Keep
<1>3. y.id.key = KeyOf(j) /\ KeyOf(j) = <<x.sid, x.cmd.rows[x.at].code>>
  BY DEF IdOf, KeyOf, CurrentRow, Cmd
<1>4. CASE x.cmd.kind = "model-import"
  <2>1. LinksDone(cards, x) /\ y.pc = "exists"
    BY <1>1, <1>2, <1>4 DEF DoneInv
  <2>2. y.id.key[2] = x.cmd.rows[x.at].code
    <3>1. KeyOf(j)[2] = CurrentRow(j).code
      BY DEF KeyOf
    <3>2. y.id.key = KeyOf(j) /\ CurrentRow(j) = x.cmd.rows[x.at]
      BY <1>2, <1>3, Zenon DEF CurrentRow
    <3> QED
      BY <3>1, <3>2, Zenon
  <2>3. LinksDone(cards, y)
    BY <1>2, <2>1, <2>2 DEF LinksDone
  <2> QED
    BY <1>2, <1>4, <2>1, <2>3 DEF DoneInv, RowSteps
<1>5. CASE x.cmd.kind = "set-price-sources"
  <2>1. PricesDone(cards, sources, x) /\ y.pc = "source"
    BY <1>1, <1>2, <1>5 DEF DoneInv
  <2>2. PricesDone(cards, sources, y)
    BY <1>2, <1>3, <2>1 DEF PricesDone
  <2> QED
    BY <1>2, <1>5, <2>1, <2>2 DEF DoneInv, RowSteps
<1> QED
  BY <1>2, <1>4, <1>5

\* A price source more.
LEMMA PriceDone ==
  ASSUME CommandsInv, NEW j \in Jobs, Step(j), SetPriceSource(j), NEW y, NextOne(job[j], y, job[j].bad),
         DoneInv(cards, sources, job[j])
  PROVE  DoneInv(cards', sources', y)
<1> DEFINE x == job[j]
<1>1. x.pc = "source" /\ UpsertPriceSource(x.id)
  BY Zenon DEF SetPriceSource, At
<1>2. x.cmd.kind = "set-price-sources" /\ x.at \in Nat
  BY <1>1, Running DEF KindAt, JobRows
<1>3. y.cmd = x.cmd /\ y.at = x.at + 1 /\ y.sid = x.sid /\ y.pc = "lookup"
  BY <1>2 DEF NextOne, Keep
<1>4. PricesDone(cards, sources, x)
  BY <1>1, <1>2 DEF DoneInv
<1>5. cards' = cards
  BY <1>1, CardsSame
<1>6. sources' = sources \cup {x.id} /\ LiveIn(cards, x.id)
  BY <1>1 DEF UpsertPriceSource, Live, LiveIn
<1>7. PricesDone(cards, sources', y)
  <2>1. SUFFICES ASSUME NEW r \in 1..x.at
                 PROVE  \E id \in sources' : id.key = <<x.sid, x.cmd.rows[r].code>> /\ LiveIn(cards, id)
    <3>1. 1..(y.at - 1) = 1..x.at /\ y.pc # "source"
      BY <1>2, <1>3
    <3> QED
      BY <1>3, <3>1, Zenon DEF PricesDone
  <2>2. CASE r = x.at
    BY <1>1, <1>4, <1>6, <2>2 DEF PricesDone
  <2>3. CASE r \in 1..(x.at - 1)
    BY <1>4, <1>6, <2>3 DEF PricesDone
  <2> QED
    BY <1>2, <2>2, <2>3
<1> QED
  BY <1>2, <1>3, <1>5, <1>7 DEF DoneInv, RowSteps

\* A link more.
LEMMA LinkDone ==
  ASSUME CommandsInv, NEW j \in Jobs, Step(j), SetCardCharacterModel(j), NEW y, NextOne(job[j], y, job[j].bad),
         DoneInv(cards, sources, job[j]), NEW S
  PROVE  DoneInv(cards', S, y)
<1> DEFINE x == job[j]
           C == cards'
<1>1. x.pc = "link" /\ LinkCard(x.id, Cmd(j).char) /\ x.id \in CardIds /\ Cmd(j).char \in Models
  <2>1. x.pc = "link"
    BY Zenon DEF SetCardCharacterModel, At
  <2> QED
    BY <2>1, CardsWritten
<1>2. x.cmd.kind = "model-import" /\ x.at \in Nat /\ x.cmd = Cmd(j)
  BY <1>1, Running DEF KindAt, JobRows
<1>3. y.cmd = x.cmd /\ y.at = x.at + 1 /\ y.pc = "lookup"
  BY <1>2 DEF NextOne, Keep
<1>4. LinksDone(cards, x)
  BY <1>1, <1>2 DEF DoneInv
<1>5. x.id.key[2] = x.cmd.rows[x.at].code /\ Live(x.id) /\ x.id.key \in Keys
  BY <1>1, <1>4 DEF LinksDone, LiveIn, Live, CardIds
<1>6. /\ C[x.id.key] # None /\ C[x.id.key].model = x.cmd.char
      /\ \A k \in Keys : k # x.id.key => C[k] = cards[k]
  <2>1. TablesType
    BY DEF CommandsInv
  <2> QED
    BY <1>1, <1>2, <1>5, <2>1, LinkCardType
<1> HIDE DEF C
<1>7. LinksDone(C, y)
  <2>1. SUFFICES ASSUME NEW r \in 1..x.at
                 PROVE  \E k \in Keys : k[2] = x.cmd.rows[r].code /\ C[k] # None /\ C[k].model = x.cmd.char
    BY <1>2, <1>3 DEF LinksDone
  <2>2. CASE r = x.at
    BY <1>5, <1>6, <2>2
  <2>3. CASE r \in 1..(x.at - 1)
    <3>1. PICK k \in Keys : k[2] = x.cmd.rows[r].code /\ cards[k] # None /\ cards[k].model = x.cmd.char
      BY <1>4, <2>3 DEF LinksDone
    <3> QED
      BY <1>6, <3>1
  <2> QED
    BY <1>2, <2>2, <2>3
<1> QED
  BY <1>2, <1>3, <1>7 DEF DoneInv, RowSteps, C

\* The steps about a card found by its code.
LEMMA CardStepDone ==
  ASSUME CommandsInv, NEW j \in Jobs, Step(j), ~job[j].bad => DoneInv(cards, sources, job[j]), ~job'[j].bad,
         LookUp(j) \/ TakeId(j) \/ SetPriceSource(j) \/ CardExists(j) \/ SetCardCharacterModel(j)
  PROVE  DoneInv(cards', sources', job'[j])
<1> DEFINE x == job[j]
           y == job'[j]
<1>1. CASE LookUp(j)
  <2>1. OnWith(x, y, IF Cmd(j).kind = "model-import" THEN "exists" ELSE "source") /\ y.id = IdOf(KeyOf(j))
    BY <1>1, CardMoves DEF NextOne
  <2>2. /\ OnWith(x, y, y.pc) /\ ~x.bad
        /\ y.pc = IF Cmd(j).kind = "model-import" THEN "exists" ELSE "source"
    BY <2>1 DEF OnWith
  <2>3. UNCHANGED <<cards, sources>>
    <3>1. UNCHANGED tables
      BY <1>1, Zenon DEF LookUp
    <3> QED
      BY <3>1 DEF tables
  <2>4. DoneInv(cards, sources, y)
    BY <1>1, <2>1, <2>2, CardFound
  <2> QED
    BY <2>3, <2>4
<1>2. CASE TakeId(j)
  <2>1. OnWith(x, y, "exists") /\ y.id.key[2] = CurrentRow(j).code
    BY <1>2, CardMoves
  <2>2. x.pc = "lookup" /\ Cmd(j).name = None
    BY <1>2, Zenon DEF TakeId, RowAt, At
  <2>3. x.cmd = Cmd(j) /\ x.cmd.kind = "model-import"
    BY <2>2, Running, CommandFacts DEF KindAt
  <2>4. y.cmd = x.cmd /\ y.at = x.at /\ y.pc = "exists" /\ ~x.bad
    BY <2>1 DEF OnWith, Keep
  <2>5. LinksDone(cards, x)
    BY <2>2, <2>3, <2>4 DEF DoneInv
  <2>6. LinksDone(cards, y)
    BY <2>1, <2>3, <2>4, <2>5 DEF LinksDone, CurrentRow
  <2>7. cards' = cards
    BY <2>2, CardsSame
  <2> QED
    BY <2>3, <2>4, <2>6, <2>7 DEF DoneInv, RowSteps
<1>3. CASE SetPriceSource(j)
  <2>1. NextOne(x, y, x.bad) /\ ~x.bad
    BY <1>3, CardMoves DEF NextOne
  <2> QED
    BY <1>3, <2>1, PriceDone
<1>4. CASE CardExists(j)
  <2>1. OnWith(x, y, "link") /\ y.id = x.id /\ Live(x.id)
    BY <1>4, CardMoves DEF NextOne
  <2>2. x.pc = "exists"
    BY <1>4, Zenon DEF CardExists, At
  <2>3. x.cmd.kind = "model-import"
    BY <2>2, Running DEF KindAt
  <2>4. y.cmd = x.cmd /\ y.at = x.at /\ y.pc = "link" /\ ~x.bad
    BY <2>1 DEF OnWith, Keep
  <2>5. LinksDone(cards, x)
    BY <2>2, <2>3, <2>4 DEF DoneInv
  <2>6. LinksDone(cards, y)
    BY <2>1, <2>2, <2>4, <2>5 DEF LinksDone, LiveIn, Live
  <2>7. cards' = cards
    BY <2>2, CardsSame
  <2> QED
    BY <2>3, <2>4, <2>6, <2>7 DEF DoneInv, RowSteps
<1>5. CASE SetCardCharacterModel(j)
  <2>1. NextOne(x, y, x.bad) /\ ~x.bad
    BY <1>5, CardMoves DEF NextOne
  <2> QED
    BY <1>5, <2>1, LinkDone
<1> QED
  BY <1>1, <1>2, <1>3, <1>4, <1>5

\* Next to a command that runs alone, nobody writes to the cards or their sources.
LEMMA Undisturbed ==
  ASSUME CommandsInv, AloneInv, [Next]_vars, NEW j \in Jobs, job[j] # Idle, ~Step(j),
         job'[j].alone, SameWork(job[j], job'[j])
  PROVE  UNCHANGED <<cards, sources>>
<1>1. job[j].alone
  BY DEF SameWork
<1>2. ~\E k \in Jobs : Step(k)
  BY <1>1, OthersStay DEF AloneInv
<1>3. (\E k \in Jobs, c \in Commands : Start(k, c)) => UNCHANGED tables
  BY Started
<1>4. (\E m \in Models : SourceChanges(m)) => UNCHANGED tables
  BY DEF SourceChanges
<1>5. App => UNCHANGED <<cards, sources>>
  BY DEF App, OwnCopy, DisownCopies
<1>6. ~PageLinks
  <2>1. SUFFICES ASSUME job'[j] = [job[j] EXCEPT !.alone = FALSE] PROVE FALSE
    BY DEF PageLinks
  <2>2. job[j] \in JobRows
    BY Running
  <2> QED
    BY <2>1, <2>2 DEF JobRows
<1> QED
  BY <1>2, <1>3, <1>4, <1>5, <1>6 DEF Next, vars, tables

\* What a command running alone has done of its file stays done as it goes on.
LEMMA FileStep ==
  ASSUME CommandsInv, SetsInv, AloneInv, FileInv, [Next]_vars
  PROVE  \A j \in Jobs : job'[j].alone /\ ~job'[j].bad => DoneInv(cards', sources', job'[j])
<1> SUFFICES ASSUME NEW j \in Jobs, job'[j].alone, ~job'[j].bad PROVE DoneInv(cards', sources', job'[j])
  OBVIOUS
<1> DEFINE x == job[j]
           y == job'[j]
<1>1. CASE y = Idle
  BY <1>1, NothingDone, IdleInv DEF RowSteps, CardSteps
<1>2. CASE \E c \in Commands : Start(j, c)
  <2>1. y.pc \in {"row", "set", "fetch"} /\ y.at = 1 /\ (y.pc = "row" => y.cmd \in Commands /\ y.cmd.name = None)
    BY <1>2, Started
  <2>2. y.pc = "row" => ~y.cmd.refresh
    BY <2>1, CommandFacts
  <2> QED
    BY <2>1, <2>2, NothingDone DEF RowSteps, CardSteps
<1>3. CASE Step(j) /\ y # Idle
  <2>1. x.alone
    BY <1>3, KeepsGoing DEF Keep
  <2>2. ~x.bad => DoneInv(cards, sources, x)
    BY <2>1 DEF FileInv
  <2>3. ~x.bad /\ x.pc \in RowSteps => SetDone(cards, x)
    BY <2>2 DEF DoneInv
  <2>4. CASE \/ FindSet(j) \/ UpsertSetMetadata(j) \/ Reconcile(j) \/ RefuseToWipe(j)
             \/ ResolveSet(j) \/ CreateSet(j) \/ ImportCard(j) \/ SelectCard(j) \/ AttachImage(j)
    BY <1>3, <2>3, <2>4, SetStepDone
  <2>5. CASE LookUp(j) \/ TakeId(j) \/ SetPriceSource(j) \/ CardExists(j) \/ SetCardCharacterModel(j)
    BY <1>3, <2>2, <2>5, CardStepDone
  <2>6. CASE Download(j) \/ ImportFails(j) \/ StoreModel(j) \/ Clip(j) \/ AudioDone(j)
    <3>1. y = Idle \/ y.pc \in {"store", "fetch", "audio", "set"} \/ (y.pc = "lookup" /\ y.at = 1)
      BY <2>6, FigureMoves DEF ToCards
    <3> QED
      BY <1>1, <3>1, NothingDone DEF RowSteps, CardSteps
  <2>7. CASE Finish(j) \/ SkipRow(j) \/ Kill(j)
    BY <1>1, <2>7, AnyMoves DEF NextOne
  <2> QED
    BY <1>3, <2>4, <2>5, <2>6, <2>7 DEF Step
<1>4. CASE SameWork(x, y) /\ ~Step(j) /\ y # Idle
  <2>1. UNCHANGED <<cards, sources>> /\ x.alone /\ ~x.bad
    BY <1>4, Undisturbed DEF SameWork
  <2>2. DoneInv(cards, sources, x)
    BY <2>1 DEF FileInv
  <2>3. y.cmd = x.cmd /\ y.pc = x.pc /\ y.at = x.at /\ y.sid = x.sid /\ y.known = x.known /\ y.id = x.id
    BY <1>4 DEF SameWork
  <2>4. SetDone(cards, x) => SetDone(cards, y)
    <3>1. RowsDone(y) = RowsDone(x)
      BY <2>3, Zenon DEF RowsDone
    <3>2. \A r : KeyOfRow(y, r) = KeyOfRow(x, r)
      BY <2>3, Zenon DEF KeyOfRow
    <3>3. \A r, end : Imported(cards, x, r, end) => Imported(cards, y, r, end)
      BY <2>3, <3>2, Zenon DEF Imported
    <3>4. OnlyListed(cards, x) => OnlyListed(cards, y)
      BY <2>3, Zenon DEF OnlyListed
    <3> QED
      BY <2>3, <3>1, <3>3, <3>4, Zenon DEF SetDone
  <2>5. PricesDone(cards, sources, x) => PricesDone(cards, sources, y)
    BY <2>3 DEF PricesDone
  <2>6. LinksDone(cards, x) => LinksDone(cards, y)
    BY <2>3 DEF LinksDone
  <2> QED
    BY <2>1, <2>2, <2>3, <2>4, <2>5, <2>6 DEF DoneInv
<1> QED
  BY <1>1, <1>2, <1>3, <1>4, OtherActors

\* The last row of a name and code is the one to which no other is later.
LEMMA LastRow ==
  ASSUME NEW c, DOMAIN c.rows = 1..Len(c.rows), Len(c.rows) \in Nat, NEW r \in 1..Len(c.rows), NEW q \in 1..Len(c.rows),
         SameRow(c, q, r), \A p \in 1..Len(c.rows) : SameRow(c, p, r) => p <= q
  PROVE  LastText(c, c.rows[r].name, c.rows[r].code) = c.rows[q].text
<1> DEFINE at == {i \in DOMAIN c.rows : c.rows[i].name = c.rows[r].name /\ c.rows[i].code = c.rows[r].code}
           last == CHOOSE i \in at : \A p \in at : p <= i
<1>1. \A i : i \in at <=> i \in 1..Len(c.rows) /\ SameRow(c, i, r)
  BY DEF SameRow
<1>2. at \subseteq Nat
  BY <1>1
<1>3. LastText(c, c.rows[r].name, c.rows[r].code) = c.rows[last].text
  BY DEF LastText
<1> HIDE DEF at
<1>4. q \in at /\ \A p \in at : p <= q
  BY <1>1
<1>5. last \in at /\ \A p \in at : p <= last
  BY <1>4
<1> HIDE DEF last
<1>6. last = q
  BY <1>2, <1>4, <1>5
<1> QED
  BY <1>3, <1>6

\* A command with nothing left to do has done all of its file.
LEMMA DoneIsFulfilled ==
  ASSUME CommandsInv, SetsInv, NEW j \in Jobs, AllDone(j), DoneInv(cards, sources, job[j])
  PROVE  Fulfilled(j)
<1> DEFINE x == job[j]
           c == Cmd(j)
<1>1. x.pc \in {"row", "lookup"} /\ x.pc # "idle"
  BY DEF AllDone
<1>2. /\ c \in Commands /\ x.cmd = c /\ KindAt(x) /\ PlaceAt(x) /\ KnownSets(x)
      /\ Len(c.rows) \in Nat /\ DOMAIN c.rows = 1..Len(c.rows)
      /\ c.kind \in {"process-set", "set-price-sources", "model-import"}
  BY <1>1, Running, CommandFacts DEF SetsInv
<1>3. x.at = Len(c.rows) + 1
  BY <1>1, <1>2 DEF AllDone, More, PlaceAt
<1>4. x.at - 1 = Len(c.rows)
  BY <1>2, <1>3
<1>5. CASE x.pc = "row"
  <2>1. c.kind = "process-set" /\ SetDone(cards, x) /\ RowsDone(x) = Len(c.rows)
    BY <1>2, <1>4, <1>5 DEF KindAt, RowSteps, DoneInv, RowsDone
  <2>2. ASSUME NEW r \in 1..Len(c.rows)
        PROVE  /\ cards[<<x.known[c.rows[r].name], c.rows[r].code>>] # None
               /\ cards[<<x.known[c.rows[r].name], c.rows[r].code>>].text
                    = LastText(c, c.rows[r].name, c.rows[r].code)
    <3>1. Imported(cards, x, r, Len(c.rows))
      BY <2>1 DEF SetDone
    <3>2. KeyOfRow(x, r) = <<x.known[c.rows[r].name], c.rows[r].code>>
      BY <1>2, Zenon DEF KeyOfRow
    <3>3. PICK q \in 1..Len(c.rows) :
             /\ SameRow(c, q, r) /\ cards[KeyOfRow(x, r)].text = c.rows[q].text
             /\ \A p \in 1..Len(c.rows) : SameRow(c, p, r) => p <= q
      BY <1>2, <3>1, Zenon DEF Imported
    <3>4. LastText(c, c.rows[r].name, c.rows[r].code) = c.rows[q].text
      BY <1>2, <3>3, LastRow
    <3>5. cards[KeyOfRow(x, r)] # None
      BY <3>1, Zenon DEF Imported
    <3> QED
      BY <3>2, <3>3, <3>4, <3>5, Zenon
  <2>3. c.name # None => sets[x.known[c.name]].status = "active"
    BY <1>2, <1>5 DEF KnownSets, RowSteps
  <2>4. c.refresh => \A k \in Keys : k[1] = x.known[c.name] /\ cards[k] # None => k[2] \in KeepCodes(c)
    BY <1>2, <2>1, Zenon DEF SetDone, OnlyListed
  <2>5. \A v : v \in KeepCodes(c) => \E r \in DOMAIN c.rows : c.rows[r].name = c.name /\ c.rows[r].code = v
    BY DEF KeepCodes
  <2>6. SetImported(j)
    BY <1>2, <2>2, <2>3, <2>4, <2>5, Zenon DEF SetImported
  <2> QED
    BY <2>1, <2>6 DEF Fulfilled
<1>6. CASE x.pc = "lookup" /\ c.kind = "set-price-sources"
  <2>1. PricesDone(cards, sources, x)
    BY <1>2, <1>6 DEF DoneInv
  <2>2. \A id : LiveIn(cards, id) <=> Live(id)
    BY DEF LiveIn, Live
  <2>3. Priced(j)
    BY <1>2, <1>4, <2>1, <2>2, Zenon DEF Priced, PricesDone
  <2> QED
    BY <1>6, <2>3 DEF Fulfilled
<1>7. CASE x.pc = "lookup" /\ c.kind = "model-import"
  <2>1. LinksDone(cards, x)
    BY <1>2, <1>7 DEF DoneInv
  <2>2. Linked(j)
    BY <1>2, <1>4, <2>1, Zenon DEF Linked, LinksDone
  <2> QED
    BY <1>7, <2>2 DEF Fulfilled
<1> QED
  BY <1>1, <1>2, <1>5, <1>6, <1>7 DEF KindAt

\* A command that skipped nothing, while nobody else imported or linked, has done what
\* its file says, whatever finished, failed or was killed before it.
THEOREM CommandsDoTheirFile == Spec => []FinishedMatchesCommand
<1>1. Init => AloneInv /\ FileInv
  <2> SUFFICES ASSUME Init PROVE AloneInv /\ FileInv
    OBVIOUS
  <2>1. \A j \in Jobs : job[j] = Idle
    BY DEF Init
  <2> QED
    BY <2>1, NothingDone, IdleInv DEF AloneInv, FileInv, RowSteps, CardSteps
<1>2. CommandsInv /\ SetsInv /\ AloneInv /\ FileInv /\ [Next]_vars => FileInv'
  BY FileStep DEF FileInv
<1>3. CommandsInv /\ SetsInv /\ FileInv => FinishedMatchesCommand
  BY DoneIsFulfilled DEF FileInv, FinishedMatchesCommand
<1> QED
  BY <1>1, <1>2, <1>3, AloneStep, CommandsAsWritten, KnownSetsStay, PTL DEF Spec

=============================================================================
