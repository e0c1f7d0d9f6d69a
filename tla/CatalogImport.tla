--------------------------- MODULE CatalogImport ---------------------------
(***************************************************************************)
(* The commands that fill the catalog by hand: process-set, which imports  *)
(* a CSV of cards, set-price-sources and model-import (be/cmd), statement  *)
(* by statement over Catalog, next to the app, next to each other and      *)
(* killed anywhere.  No command uses a transaction.                        *)
(***************************************************************************)
EXTENDS Catalog

CONSTANTS
    Jobs,
    Commands,     \* the command lines, see Command
    Pictured,     \* the codes with a file in --images-dir
    NewestPart,   \* bounds how often the source of the models changes
    Clips,        \* audioClipsPerLanguage for each of audioLanguages
    MaxOwned,     \* bounds the cards somebody owns at once,
    MaxRuns       \* and how many commands are started

Row == [name : Names \cup {None}, code : Codes, text : Texts]
Command == [kind : {"process-set", "set-price-sources", "model-import"},
            name : Names \cup {None},     \* of --set-file, set.json, --set-name
            refresh : BOOLEAN,
            rows : Seq(Row),              \* of the file; the --card codes
            char : Models \cup {None}]

ASSUME CommandsAssumption ==
    /\ Commands \subseteq Command
    /\ \A c \in Commands :
         /\ c.refresh \/ c.kind = "set-price-sources" => c.name # None
         /\ c.kind = "process-set" => \A r \in DOMAIN c.rows : c.rows[r].name # None
         /\ c.kind = "model-import" => c.char # None
    /\ NewestPart \in Nat \ {0} /\ {Clips, MaxOwned, MaxRuns} \subseteq Nat
    /\ Pictured \subseteq Codes

VARIABLES
    job,       \* the running commands and what each remembers
    runs,
    part,      \* the version of each model at the source
    mixed,     \* history: models stored while the source changed
    serial     \* history: did commands always run one at a time?

vars == <<tables, job, runs, part, mixed, serial>>
world == <<runs, part, mixed, serial>>

Idle == [cmd |-> None, pc |-> "idle", at |-> 1, sid |-> None,
         known |-> [n \in Names |-> None], id |-> None, parts |-> <<>>,
         bad |-> FALSE,        \* history: was anything skipped?
         alone |-> TRUE,       \* history: did nobody else import or link meanwhile?
         changed |-> FALSE,    \* history: did the source change meanwhile?
         had |-> {}]           \* the cards at its start, whose ids the operator may use

Init ==
    /\ TablesInit
    /\ job = [j \in Jobs |-> Idle]
    /\ runs = 0 /\ part = [m \in Models |-> 1] /\ mixed = {} /\ serial = TRUE

-----------------------------------------------------------------------------

Cmd(j) == job[j].cmd
CurrentRow(j) == Cmd(j).rows[job[j].at]
More(j) == job[j].at <= Len(Cmd(j).rows)
At(j, pc) == job[j].pc = pc
RowAt(j, pc) == At(j, pc) /\ More(j)
KeyOf(j) == <<job[j].sid, CurrentRow(j).code>>

Goes(j, change) == job' = [job EXCEPT ![j] = change]
GoTo(j, pc) == Goes(j, [job[j] EXCEPT !.pc = pc])
Ends(j) == Goes(j, Idle)
NextRow(j, pc) == [job[j] EXCEPT !.at = @ + 1, !.pc = pc, !.id = None]
Skip(j, pc) == Goes(j, [NextRow(j, pc) EXCEPT !.bad = TRUE])

FirstStep(c) == CASE c.kind = "process-set"       -> IF c.name = None THEN "row" ELSE "set"
                  [] c.kind = "set-price-sources" -> "set"
                  [] c.kind = "model-import"      -> "fetch"

Start(j, c) ==
    /\ job[j] = Idle /\ runs < MaxRuns
    /\ LET others == {k \in Jobs \ {j} : job[k] # Idle} IN
       /\ job' = [k \in Jobs |->
            IF k = j THEN [Idle EXCEPT !.cmd = c, !.pc = FirstStep(c), !.alone = others = {},
                                       !.had = LiveIds]
            ELSE IF k \in others THEN [job[k] EXCEPT !.alone = FALSE] ELSE job[k]]
       /\ serial' = (serial /\ others = {})
    /\ runs' = runs + 1
    /\ UNCHANGED <<tables, part, mixed>>

-----------------------------------------------------------------------------
(* Sets.                                                                   *)

(* getSetIDByName: set-price-sources ends without a set, model-import ends
   without linking, process-set creates one. *)
FindSet(j) ==
    /\ At(j, "set")
    /\ \/ \E i \in Named(Cmd(j).name) :
            Goes(j, [job[j] EXCEPT !.sid = i, !.at = 1,
                       !.pc = IF Cmd(j).kind = "process-set" THEN "metadata" ELSE "lookup"])
       \/ /\ Named(Cmd(j).name) = {}
          /\ IF Cmd(j).kind = "process-set" THEN GoTo(j, "metadata") ELSE Ends(j)
    /\ UNCHANGED <<tables, world>>

UpsertSetMetadata(j) ==
    /\ At(j, "metadata")
    /\ LET i == IF job[j].sid = None THEN NextSet ELSE job[j].sid IN
       /\ IF job[j].sid = None THEN InsertSet(Cmd(j).name, "active")
          ELSE UpdateSet(i, "active")
       /\ Goes(j, [job[j] EXCEPT !.known[Cmd(j).name] = i, !.sid = i,
                     !.pc = IF Cmd(j).refresh THEN "reconcile" ELSE "row"])
    /\ UNCHANGED world

(* --refresh: one statement removes what the file no longer lists for this set,
   unless it lists nothing, or somebody owns one of them.  (A slip: it removes them
   all, to import them again.) *)
KeepCodes(c) == {c.rows[r].code : r \in {r \in DOMAIN c.rows : c.rows[r].name = c.name}}

Wiped(j) == {k \in Keys : k[1] = job[j].sid /\ cards[k] # None}
Gone(j) == {k \in Wiped(j) : k[2] \notin KeepCodes(Cmd(j))}

Reconcile(j) ==
    /\ At(j, "reconcile") /\ KeepCodes(Cmd(j)) # {}
    /\ DeleteCards(Gone(j))
    /\ GoTo(j, "row")
    /\ UNCHANGED world

RefuseToWipe(j) ==
    /\ At(j, "reconcile") /\ (KeepCodes(Cmd(j)) = {} \/ ~Deletable(Gone(j)))
    /\ Ends(j)
    /\ UNCHANGED <<tables, world>>

-----------------------------------------------------------------------------
(* The rows of process-set.                                                *)

ResolveSet(j) ==
    LET n == CurrentRow(j).name IN
    /\ RowAt(j, "row")
    /\ \/ \E i \in IF job[j].known[n] # None THEN {job[j].known[n]} ELSE Named(n) :
            Goes(j, [job[j] EXCEPT !.known[n] = i, !.sid = i, !.pc = "upsert"])
       \/ job[j].known[n] = None /\ Named(n) = {} /\ GoTo(j, "create")
    /\ UNCHANGED <<tables, world>>

CreateSet(j) ==
    /\ At(j, "create")
    /\ InsertSet(CurrentRow(j).name, "pending")
    /\ Goes(j, [job[j] EXCEPT !.known[CurrentRow(j).name] = NextSet, !.sid = NextSet,
                  !.pc = "upsert"])
    /\ UNCHANGED world

ImportCard(j) ==
    /\ At(j, "upsert")
    /\ UpsertCard(KeyOf(j), CurrentRow(j).text)
    /\ GoTo(j, "select")
    /\ UNCHANGED world

(* The id is looked up again: the one just generated may not be the row's. *)
SelectCard(j) ==
    /\ At(j, "select")
    /\ IF cards[KeyOf(j)] # None
       THEN Goes(j, [job[j] EXCEPT !.id = IdOf(KeyOf(j)), !.pc = "image"])
       ELSE Skip(j, "row")
    /\ UNCHANGED <<tables, world>>

(* A card may have no image file, and a failure to store one is no failure. *)
AttachImage(j) ==
    /\ At(j, "image")
    /\ \/ CurrentRow(j).code \in Pictured /\ UpsertCardImage(job[j].id)
       \/ UNCHANGED tables
    /\ Goes(j, NextRow(j, "row"))
    /\ UNCHANGED world

-----------------------------------------------------------------------------
(* Cards found by their code: set-price-sources, and the links of model-import. *)

LookUp(j) ==
    /\ RowAt(j, "lookup") /\ Cmd(j).name # None
    /\ IF cards[KeyOf(j)] # None
       THEN Goes(j, [job[j] EXCEPT !.id = IdOf(KeyOf(j)),
                       !.pc = IF Cmd(j).kind = "model-import" THEN "exists" ELSE "source"])
       ELSE Skip(j, "lookup")
    /\ UNCHANGED <<tables, world>>

(* --card-id: the operator took the id of a card that was there at the time. *)
TakeId(j) ==
    /\ RowAt(j, "lookup") /\ Cmd(j).name = None
    /\ \E id \in job[j].had :
         /\ id.key[2] = CurrentRow(j).code
         /\ Goes(j, [job[j] EXCEPT !.id = id, !.pc = "exists"])
    /\ UNCHANGED <<tables, world>>

SetPriceSource(j) ==
    /\ At(j, "source")
    /\ UpsertPriceSource(job[j].id)
    /\ Goes(j, NextRow(j, "lookup"))
    /\ UNCHANGED world

(* SetCardCharacterModel: the card is looked for, then updated. *)
CardExists(j) ==
    /\ At(j, "exists")
    /\ IF Live(job[j].id) THEN GoTo(j, "link") ELSE Skip(j, "lookup")
    /\ UNCHANGED <<tables, world>>

SetCardCharacterModel(j) ==
    /\ At(j, "link")
    /\ LinkCard(job[j].id, Cmd(j).char)
    /\ Goes(j, NextRow(j, "lookup"))
    /\ UNCHANGED world

-----------------------------------------------------------------------------
(* The files of model-import.                                              *)

Parts == 3       \* skeleton, atlas and texture

Download(j) ==
    /\ At(j, "fetch")
    /\ Goes(j, [job[j] EXCEPT !.parts = Append(@, part[Cmd(j).char]),
                  !.pc = IF Len(job[j].parts) + 1 = Parts THEN "store" ELSE "fetch"])
    /\ UNCHANGED <<tables, world>>

(* Then the cards are linked, if --card or --card-id named any: also when the
   import has failed. *)
Linking(j, failed) ==
    IF Cmd(j).rows = <<>> THEN Ends(j)
    ELSE Goes(j, [job[j] EXCEPT !.pc = IF Cmd(j).name = None THEN "lookup" ELSE "set",
                                !.parts = <<>>, !.at = 1, !.bad = failed])

(* One file that is missing stops the import.  (A slip: what was downloaded until
   then is stored.) *)
ImportFailsPartly(j) ==
    /\ job[j].pc \in {"fetch", "store"} /\ job[j].parts # <<>>
    /\ UpsertCharacterModel(Cmd(j).char, job[j].parts)
    /\ Linking(j, TRUE)
    /\ UNCHANGED world

ImportFails(j) ==
    /\ job[j].pc \in {"fetch", "store"}
    /\ Linking(j, TRUE)
    /\ UNCHANGED <<tables, world>>

StoreModel(j) ==
    /\ At(j, "store")
    /\ UpsertCharacterModel(Cmd(j).char, job[j].parts)
    /\ mixed' = IF job[j].changed THEN mixed \cup {Cmd(j).char} ELSE mixed \ {Cmd(j).char}
    /\ GoTo(j, "audio")
    /\ UNCHANGED <<runs, part, serial>>

(* Clip after clip is stored, or is not there and skipped. *)
Clip(j) ==
    /\ At(j, "audio") /\ job[j].at <= Clips
    /\ UpsertCharacterModelAudio(Cmd(j).char, job[j].at) \/ UNCHANGED tables
    /\ Goes(j, NextRow(j, "audio"))
    /\ UNCHANGED world

AudioDone(j) ==
    /\ At(j, "audio") /\ job[j].at > Clips
    /\ Linking(j, FALSE)
    /\ UNCHANGED <<tables, world>>

-----------------------------------------------------------------------------

Finish(j) ==
    /\ job[j].pc \in {"row", "lookup"} /\ ~More(j)
    /\ Ends(j)
    /\ UNCHANGED <<tables, world>>

(* The foreign keys refuse a row, or its statement fails: the row is skipped. *)
SkipRow(j) ==
    /\ \/ job[j].pc \in {"upsert", "select"} /\ Skip(j, "row")
       \/ job[j].pc \in {"source", "exists", "link"} /\ Skip(j, "lookup")
    /\ UNCHANGED <<tables, world>>

(* The operator stops it, or a statement about a set fails, which is fatal. *)
Kill(j) ==
    /\ job[j] # Idle
    /\ Ends(j)
    /\ UNCHANGED <<tables, world>>

SourceChanges(m) ==
    /\ part[m] < NewestPart
    /\ part' = [part EXCEPT ![m] = @ + 1]
    /\ job' = [j \in Jobs |-> IF At(j, "fetch") /\ Cmd(j).char = m /\ job[j].parts # <<>>
                              THEN [job[j] EXCEPT !.changed = TRUE] ELSE job[j]]
    /\ UNCHANGED <<tables, runs, mixed, serial>>

(* Somebody owns, or no longer owns, copies of a card. *)
App ==
    /\ \/ Cardinality(owned) < MaxOwned /\ \E id \in LiveIds : OwnCopy(id)
       \/ \E id \in owned : DisownCopies(id)
    /\ UNCHANGED <<job, world>>

(* A card's page links it to a model that is there, or to none. *)
PageLinks ==
    /\ \E id \in LiveIds, m \in Models \cup {None} : LinkCard(id, m)
    /\ job' = [j \in Jobs |-> IF job[j] = Idle THEN Idle ELSE [job[j] EXCEPT !.alone = FALSE]]
    /\ UNCHANGED world

Step(j) ==
    \/ FindSet(j) \/ UpsertSetMetadata(j) \/ Reconcile(j) \/ RefuseToWipe(j)
    \/ ResolveSet(j) \/ CreateSet(j) \/ ImportCard(j) \/ SelectCard(j) \/ AttachImage(j)
    \/ LookUp(j) \/ TakeId(j) \/ SetPriceSource(j) \/ CardExists(j) \/ SetCardCharacterModel(j)
    \/ Download(j) \/ ImportFails(j) \/ StoreModel(j) \/ Clip(j) \/ AudioDone(j)
    \/ Finish(j) \/ SkipRow(j) \/ Kill(j)

Next ==
    \/ \E j \in Jobs : Step(j) \/ \E c \in Commands : Start(j, c)
    \/ \E m \in Models : SourceChanges(m)
    \/ App \/ PageLinks

Spec == Init /\ [][Next]_vars

-----------------------------------------------------------------------------

TypeOK ==
    /\ TablesType
    /\ models \in [Models -> [1..Parts -> 1..NewestPart] \cup {None}]
    /\ clips \in [Models -> SUBSET (1..Clips)]
    /\ \A j \in Jobs : job[j] # Idle =>
         /\ Cmd(j) \in Commands
         /\ job[j].at \in 1..(IF At(j, "audio") THEN Clips ELSE Len(Cmd(j).rows)) + 1
         /\ job[j].sid \in SetIds \cup {None} /\ job[j].id \in CardIds \cup {None}

(* What a command promises of the tables when it has nothing left to do. *)
LastText(c, n, code) ==
    LET at == {r \in DOMAIN c.rows : c.rows[r].name = n /\ c.rows[r].code = code}
    IN c.rows[CHOOSE r \in at : \A q \in at : q <= r].text

SetImported(j) ==
    LET c == Cmd(j) IN
    /\ \A r \in DOMAIN c.rows :
         LET k == <<job[j].known[c.rows[r].name], c.rows[r].code>> IN
         /\ cards[k] # None
         /\ cards[k].text = LastText(c, c.rows[r].name, c.rows[r].code)
    /\ c.name # None => sets[job[j].known[c.name]].status = "active"
    /\ c.refresh => \A k \in Keys : k[1] = job[j].known[c.name] /\ cards[k] # None
                                      => \E r \in DOMAIN c.rows : c.rows[r].name = c.name
                                                                  /\ c.rows[r].code = k[2]

Priced(j) == \A r \in DOMAIN Cmd(j).rows :
    \E id \in sources : id.key = <<job[j].sid, Cmd(j).rows[r].code>> /\ Live(id)

Linked(j) == \A r \in DOMAIN Cmd(j).rows :
    \E k \in Keys : /\ k[2] = Cmd(j).rows[r].code
                    /\ cards[k] # None /\ cards[k].model = Cmd(j).char

Fulfilled(j) == CASE Cmd(j).kind = "process-set"       -> SetImported(j)
                  [] Cmd(j).kind = "set-price-sources" -> Priced(j)
                  [] Cmd(j).kind = "model-import"      -> Linked(j)

AllDone(j) == job[j].pc \in {"row", "lookup"} /\ ~More(j)

(* A command that skipped nothing while nobody else imported or linked has done what
   its file says, after whatever finished, failed or was killed before it: the codes
   of the file and, with --refresh, no others, the last row winning; a price source,
   or a link, for each. *)
FinishedMatchesCommand ==
    \A j \in Jobs : AllDone(j) /\ job[j].alone /\ ~job[j].bad => Fulfilled(j)

(* A command that runs alone leaves a card its id, unless the file it refreshes a set
   from no longer lists the card: images, sources and links hold on to ids. *)
ListedCardsKeepIds ==
    \A j \in Jobs : job[j].alone =>
        \A id \in job[j].had : Live(id) \/ /\ Cmd(j).refresh
                                           /\ id.key[1] = job[j].known[Cmd(j).name]
                                           /\ id.key[2] \notin KeepCodes(Cmd(j))

(* The lookup and the insertion of a set are two statements and names are not unique:
   commands that run one at a time, killed or not, still never store two sets of a
   name, which would split the cards of the set between them. *)
OneSetPerName ==
    serial => \A i, k \in SetIds : i # k /\ None \notin {sets[i], sets[k]}
                                     => sets[i].name # sets[k].name

(* No import takes a card away from somebody who owns it, whatever files it is given
   and whatever it raced with. *)
OwnedCardsStay == [][\A id \in owned : Live(id)']_vars

(* The files of a stored model are of one version, unless the source changed between
   the downloads of the import that stored it. *)
ModelsWhole ==
    \A m \in Models \ mixed : models[m] # None =>
        \A p, q \in 1..Parts : models[m][p] = models[m][q]
=============================================================================
