------------------------------- MODULE Catalog -------------------------------
(***************************************************************************)
(* The tables of the card catalog and the statements the import commands   *)
(* make of them (be/persist/collection.go, card_images.go,                 *)
(* price_sources.go, character_models.go and character_model_audio.go).    *)
(*                                                                         *)
(* A card is found by its set and code, but its id is what images, price   *)
(* sources, links and owned copies hold on to: a card that is deleted and  *)
(* inserted again has a new generation, and so another id.                 *)
(***************************************************************************)
EXTENDS Integers, Sequences, FiniteSets

CONSTANTS
    MaxSets,      \* bounds the set ids
    Names, Codes,
    Texts,        \* what a row says of a card besides its code
    Models,       \* character codes
    None

SetIds == 1..MaxSets
Keys == SetIds \X Codes
Statuses == {"pending", "active"}
SetRows == [name : Names, status : Statuses]
CardRows == [gen : Nat \ {0}, text : Texts, model : Models \cup {None}]
CardIds == [key : Keys, gen : Nat \ {0}]

ASSUME CatalogAssumption ==
    /\ MaxSets \in Nat
    /\ None \notin SetIds \cup Names \cup Codes \cup Models
    /\ None \notin SetRows \cup CardRows

VARIABLES
    sets,         \* the name and status of each set
    cards,        \* the row of each set id and code
    gens,         \* history: the last generation of each
    images,       \* the ids of cards with an image,
    sources,      \* with a price source,
    owned,        \* with copies somebody owns
    models,       \* the parts of each imported character model
    clips         \* the voice clips of each

tables == <<sets, cards, gens, images, sources, owned, models, clips>>
children == <<images, sources, owned>>
figures == <<models, clips>>

-----------------------------------------------------------------------------

IdOf(k) == [key |-> k, gen |-> cards[k].gen]
Live(id) == cards[id.key] # None /\ cards[id.key].gen = id.gen
LiveIds == {IdOf(k) : k \in {k \in Keys : cards[k] # None}}
Without(S, keys) == {id \in S : id.key \notin keys}

TablesInit ==
    /\ sets = [i \in SetIds |-> None]
    /\ cards = [k \in Keys |-> None] /\ gens = [k \in Keys |-> 0]
    /\ images = {} /\ sources = {} /\ owned = {}
    /\ models = [m \in Models |-> None] /\ clips = [m \in Models |-> {}]

TablesType ==
    /\ sets \in [SetIds -> SetRows \cup {None}]
    /\ cards \in [Keys -> CardRows \cup {None}]
    /\ gens \in [Keys -> Nat]
    /\ images \subseteq CardIds /\ sources \subseteq CardIds /\ owned \subseteq CardIds

-----------------------------------------------------------------------------
(* Sets.  Names are not unique: a lookup finds one of the rows.            *)

\* (A slip: sets without metadata are not found.)
NamedActive(n) == {i \in SetIds : sets[i] # None /\ sets[i].name = n /\ sets[i].status = "active"}
Named(n) == {i \in SetIds : sets[i] # None /\ sets[i].name = n}

NextSet == Cardinality({i \in SetIds : sets[i] # None}) + 1

InsertSet(n, status) ==
    /\ NextSet \in SetIds
    /\ sets' = [sets EXCEPT ![NextSet] = [name |-> n, status |-> status]]
    /\ UNCHANGED <<cards, gens, children, figures>>

UpdateSet(i, status) ==
    /\ sets' = [sets EXCEPT ![i].status = status]
    /\ UNCHANGED <<cards, gens, children, figures>>

(* Cards.  Inserted, or updated in place, where the id and the link stay.  (A slip:
   a card that is there is left as it is.) *)
NewCard(k, text) == [gen |-> gens[k] + 1, text |-> text, model |-> None]
InsertIgnored(k, text) == IF cards[k] = None THEN NewCard(k, text) ELSE cards[k]
UpsertedCard(k, text) ==
    IF cards[k] = None THEN NewCard(k, text) ELSE [cards[k] EXCEPT !.text = text]

UpsertCard(k, text) ==
    /\ cards' = [cards EXCEPT ![k] = UpsertedCard(k, text)]
    /\ gens' = [gens EXCEPT ![k] = IF cards[k] = None THEN @ + 1 ELSE @]
    /\ UNCHANGED <<sets, children, figures>>

(* Copies keep their card from being deleted, images and price sources go with
   it.  One card that is kept keeps them all: the statement fails as a whole.
   (A slip: nothing is kept.) *)
Anything(keys) == TRUE
Deletable(keys) == \A id \in owned : id.key \notin keys

DeleteCards(keys) ==
    /\ Deletable(keys)
    /\ cards' = [k \in Keys |-> IF k \in keys THEN None ELSE cards[k]]
    /\ images' = Without(images, keys) /\ sources' = Without(sources, keys)
    /\ owned' = Without(owned, keys)
    /\ UNCHANGED <<sets, gens, figures>>

(* Rows that refer to a card; the foreign key refuses one that is gone. *)
UpsertCardImage(id) ==
    /\ Live(id)
    /\ images' = images \cup {id}
    /\ UNCHANGED <<sets, cards, gens, sources, owned, figures>>

UpsertPriceSource(id) ==
    /\ Live(id)
    /\ sources' = sources \cup {id}
    /\ UNCHANGED <<sets, cards, gens, images, owned, figures>>

(* Character models: stored whole or replaced whole.  (A slip: a column is missing
   from the update.) *)
UpsertAllButTexture(m, parts) ==
    /\ models' = [models EXCEPT ![m] =
         IF @ = None THEN parts ELSE [p \in DOMAIN parts |-> IF p = 3 THEN @[p] ELSE parts[p]]]
    /\ UNCHANGED <<sets, cards, gens, children, clips>>

UpsertCharacterModel(m, parts) ==
    /\ models' = [models EXCEPT ![m] = parts]
    /\ UNCHANGED <<sets, cards, gens, children, clips>>

UpsertCharacterModelAudio(m, clip) ==
    /\ models[m] # None
    /\ clips' = [clips EXCEPT ![m] = @ \cup {clip}]
    /\ UNCHANGED <<sets, cards, gens, children, models>>

(* The update of a link, to None when it is cleared: refused for a model that was
   never stored, and an update of nothing, without an error, for a card that is gone. *)
Linkable(id, m) == Live(id) /\ m # None => models[m] # None

LinkCard(id, m) ==
    /\ Linkable(id, m)
    /\ cards' = IF Live(id) THEN [cards EXCEPT ![id.key].model = m] ELSE cards
    /\ UNCHANGED <<sets, gens, children, figures>>

(* What the app does to these tables while a command runs. *)
OwnCopy(id) ==
    /\ Live(id) /\ id \notin owned
    /\ owned' = owned \cup {id}
    /\ UNCHANGED <<sets, cards, gens, images, sources, figures>>

DisownCopies(id) ==
    /\ id \in owned
    /\ owned' = owned \ {id}
    /\ UNCHANGED <<sets, cards, gens, images, sources, figures>>
=============================================================================
