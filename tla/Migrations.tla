----------------------------- MODULE Migrations -----------------------------
(***************************************************************************)
(* The migrations command (be/cmd/migrations.go) over RunMigrations and    *)
(* SeedDB (be/persist/migrations.go): SQL files executed in the order of   *)
(* their names and remembered, one statement later, in schema_migrations.  *)
(*                                                                         *)
(* A file is one SQL statement, which MySQL executes whole or not at all.  *)
(* It is modelled by what it needs, makes and drops, where a "thing" is a  *)
(* table, a column or a unique fixture row, and by whether it also inserts *)
(* rows that nothing keeps from being inserted again.                      *)
(***************************************************************************)
EXTENDS Integers, Sequences, FiniteSets

CONSTANTS
    Runners,     \* processes that may run the command
    Things,
    Refers,      \* <<t, u>>: a foreign key of t names u, so u cannot go first
    Up, Down,    \* the files; Down[i] reverses Up[i]
    Seeds,
    Releases,    \* how many of the files a released version may have
    Clear,       \* stands for the last statement of a run down
    Forbidden,   \* stands for the refusal to seed a real environment
    MaxKills     \* bounds how many processes die on their own

Files == {Up[i] : i \in DOMAIN Up} \cup {Down[i] : i \in DOMAIN Down}
         \cup {Seeds[i] : i \in DOMAIN Seeds}
Shape == [name : STRING, needs : SUBSET Things, makes : SUBSET Things,
          unless : BOOLEAN,      \* IF NOT EXISTS
          drops : SUBSET Things,
          fills : SUBSET Things] \* rows that it adds to those already there

Dropped(n) == UNION {Down[i].drops : i \in 1..n}

ASSUME MigrationsAssumption ==
    /\ {Up, Down, Seeds} \subseteq Seq(Shape) /\ Len(Up) = Len(Down)
    /\ Refers \subseteq Things \X Things
    /\ Releases \subseteq 0..Len(Up) /\ MaxKills \in Nat
    /\ Clear # Forbidden /\ {Clear, Forbidden} \cap Files = {}

\* A file is recorded under its path, and rows are called by the file that adds them.
\* Seeds insert fixtures.  What a file makes is dropped with what it reverses or with
\* what is older, and so is a fixture, which goes with what it needs.  No file up asks
\* whether something is there.
ASSUME FilesAssumption ==
    /\ \A i, j \in DOMAIN Up : Up[i].name = Up[j].name => i = j
    /\ \A i \in DOMAIN Up, k \in DOMAIN Seeds :
         Up[i].name # Seeds[k].name /\ Up[i].makes \cap Seeds[k].makes = {}
    /\ \A f, g \in Files : f.fills \cap g.fills # {} => f = g
    /\ \A i \in DOMAIN Up : ~Up[i].unless /\ Up[i].makes \cup Down[i].makes \subseteq Dropped(i)
    /\ \A k \in DOMAIN Seeds :
         /\ Seeds[k].needs # {} /\ Seeds[k].drops = {}
         /\ \A n \in 0..Len(Up) :
              Seeds[k].needs \subseteq Dropped(n) => Seeds[k].makes \subseteq Dropped(n)

VARIABLES
    schema,      \* the things that exist
    recorded,    \* the rows of schema_migrations
    release,     \* how many of the files the deployed binary has
    run,         \* the processes: what each is to execute, in order, and how far it is
    kills,
    copies,      \* history: how many times over these rows are there
    lost,        \* history: files executed by a run that did not record them
    meddled      \* history: was there a run down or in another direction, or did
                 \* two runs execute one file?

database == <<schema, recorded, copies>>
history == <<kills, lost, meddled>>
vars == <<database, release, run, history>>

-----------------------------------------------------------------------------

Idle == [pc |-> "idle", direction |-> "", plan |-> <<>>, at |-> 1]

Init ==
    /\ schema = {} /\ recorded = {} /\ release = 0
    /\ run = [p \in Runners |-> Idle]
    /\ kills = 0
    /\ copies = [t \in Things |-> 0] /\ lost = {} /\ meddled = FALSE

(* What the binary executes, in order.  The directory is chosen by "down", the
   bookkeeping by "up": any other direction executes the up files unrecorded.  (A
   slip: so does "up".) *)
Untracked(files) == [i \in DOMAIN files |-> [step |-> files[i], tracked |-> FALSE]]
Tracked(files) == [i \in DOMAIN files |-> [step |-> files[i], tracked |-> TRUE]]
Shipped(files) == SubSeq(files, 1, release)
Reversed(s) == [i \in DOMAIN s |-> s[Len(s) + 1 - i]]

Migrate(direction) ==
    CASE direction = "up"    -> Tracked(Shipped(Up))
      [] direction = "down"  -> Untracked(Reversed(Shipped(Down)) \o <<Clear>>)
      [] direction = "other" -> Untracked(Shipped(Up))
      [] direction = "none"  -> <<>>

SeedDB(seed) ==
    CASE seed = "no"    -> <<>>
      [] seed = "local" -> Tracked(Seeds)
      [] seed = "real"  -> Untracked(<<Forbidden>>)

Plan(direction, seed) == Migrate(direction) \o SeedDB(seed)

Current(p) == run[p].plan[run[p].at]
Doing(p, pc) == run[p].pc = pc /\ run[p].at <= Len(run[p].plan)
Advance(p) == run' = [run EXCEPT ![p].pc = "check", ![p].at = @ + 1]
GoTo(p, pc) == run' = [run EXCEPT ![p].pc = pc]

(* A new version is deployed while nothing runs; the app it replaces has used
   the tables it found. *)
Deploy ==
    /\ \A p \in Runners : run[p] = Idle
    /\ \E n \in Releases : n > release /\ release' = n
    /\ UNCHANGED <<database, run, history>>

(* A run down has the database to itself, as long as somebody sees to it. *)
Start(p, direction, seed) ==
    /\ run[p] = Idle
    /\ \A q \in Runners \ {p} :
          run[q] = Idle \/ (direction = "up" /\ run[q].direction = "up")
    /\ run' = [run EXCEPT ![p] = [pc |-> "check", direction |-> direction,
                                  plan |-> Plan(direction, seed), at |-> 1]]
    /\ meddled' = (meddled \/ direction \in {"down", "other"})
    /\ UNCHANGED <<database, release, kills, lost>>

-----------------------------------------------------------------------------

(* The records are looked at file by file, and only for tracked files.  (Two slips:
   they are never read, and a later file stands for all before it.) *)
ReadNothing(p) == FALSE
AppliedBelow(p) ==
    \E i \in (run[p].at + 1)..Len(run[p].plan) :
        run[p].plan[i].tracked /\ run[p].plan[i].step.name \in recorded
Applied(p) == Current(p).step.name \in recorded

Check(p) ==
    /\ Doing(p, "check")
    /\ IF Current(p).tracked /\ Applied(p) THEN Advance(p) ELSE GoTo(p, "execute")
    /\ UNCHANGED <<database, release, history>>

Works(f) ==
    /\ f.needs \subseteq schema
    /\ f.unless \/ f.makes \cap schema = {}
    /\ \A t \in f.drops, u \in schema \ f.drops : <<u, t>> \notin Refers

Made(f) == IF f.unless /\ f.makes \cap schema # {} THEN {} ELSE f.makes

(* Another run is about to record the file, or has since Check. *)
Raced(p) ==
    /\ Current(p).tracked
    /\ \/ Applied(p)
       \/ \E q \in Runners \ {p} : Doing(q, "record") /\ Current(q) = Current(p)

Execute(p) ==
    LET f == Current(p).step IN
    /\ Doing(p, "execute") /\ f \in Files
    /\ Works(f)
    /\ schema' = (schema \cup Made(f)) \ f.drops
    /\ copies' = [t \in Things |-> IF t \in f.drops THEN 0
                                   ELSE IF t \in f.fills THEN copies[t] + 1 ELSE copies[t]]
    /\ meddled' = (meddled \/ Raced(p))
    /\ IF Current(p).tracked THEN GoTo(p, "record") ELSE Advance(p)
    /\ UNCHANGED <<recorded, release, kills, lost>>

(* executeSQLFile ends the process when a statement fails.  (A slip: it goes
   on with the next file.) *)
Skip(p) == Advance(p)
Die(p) == run' = [run EXCEPT ![p] = Idle]

Fatal(p) ==
    /\ Doing(p, "execute")
    /\ \/ Current(p).step = Forbidden
       \/ Current(p).step \in Files /\ ~Works(Current(p).step)
    /\ Die(p)
    /\ UNCHANGED <<database, release, history>>

Record(p) ==
    LET n == Current(p).step.name IN
    /\ Doing(p, "record")
    /\ recorded' = recorded \cup {n}
    /\ IF n \in recorded THEN Die(p) ELSE Advance(p)
    /\ UNCHANGED <<schema, copies, release, history>>

\* (A slip: the records stay.)
KeptRecords == recorded
Cleared == {}

ClearRecords(p) ==
    /\ Doing(p, "execute") /\ Current(p).step = Clear
    /\ recorded' = Cleared
    /\ Advance(p)
    /\ UNCHANGED <<schema, copies, release, history>>

Done(p) == run[p].pc = "check" /\ run[p].at > Len(run[p].plan)

Finish(p) ==
    /\ Done(p)
    /\ run' = [run EXCEPT ![p] = Idle]
    /\ UNCHANGED <<database, release, history>>

(* The process is killed, or a statement outlives statementTimeout or its
   connection: what was executed stays executed. *)
Kill(p) ==
    /\ run[p] # Idle /\ kills < MaxKills
    /\ kills' = kills + 1
    /\ lost' = IF run[p].pc = "record" THEN lost \cup {Current(p).step.name} ELSE lost
    /\ run' = [run EXCEPT ![p] = Idle]
    /\ UNCHANGED <<database, release, meddled>>

Step(p) ==
    Check(p) \/ Execute(p) \/ Fatal(p) \/ Record(p) \/ ClearRecords(p) \/ Finish(p)

(* The start of the local app, with seeds, and the step of a deployment, without. *)
StartUp == \E p \in Runners : Start(p, "up", "no") \/ Start(p, "up", "local")

Next ==
    \/ Deploy
    \/ \E p \in Runners :
         \/ \E d \in {"up", "down", "other", "none"}, seed \in {"no", "local", "real"} : Start(p, d, seed)
         \/ Step(p) \/ Kill(p)

(* Sooner or later somebody runs the command up again: compose.yaml before every
   start of the app, the Makefile for a deployment. *)
Spec == Init /\ [][Next]_vars /\ SF_vars(StartUp) /\ \A p \in Runners : WF_vars(Step(p))

-----------------------------------------------------------------------------
(* Properties.                                                             *)

SeedThings == UNION {Seeds[i].makes : i \in DOMAIN Seeds}
FirstNames(n) == {Up[i].name : i \in 1..n}
Built[n \in 0..Len(Up)] ==
    IF n = 0 THEN {} ELSE (Built[n - 1] \cup Up[n].makes) \ Up[n].drops

(* As long as the command is only run up, and by one process at a time, the
   schema is what the first so many files make of an empty database, and the
   records name these files, or all but the last: no crash leaves a gap. *)
AheadByOne ==
    ~meddled => \E n \in 0..release :
        /\ schema \ SeedThings = Built[n]
        /\ recorded \cap FirstNames(Len(Up)) \in {FirstNames(n), FirstNames(n - 1)}

(* Rows are only inserted twice when a run died between executing their file
   and recording it. *)
DuplicatesNeedALoss ==
    ~meddled => \A f \in Files, t \in Things :
        t \in f.fills /\ copies[t] > 1 => f.name \in lost

(* A run down that ends well leaves an empty schema and no records. *)
DownEmpties ==
    \A p \in Runners :
        Done(p) /\ run[p].direction = "down" => schema = {} /\ recorded = {}

(* If no run is lost between a file and its record, and nothing but runs up
   happens, every deployed file gets recorded, whatever else dies. *)
EventuallyMigrated ==
    [](~meddled /\ lost = {}) => []<>(FirstNames(release) \subseteq recorded)
=============================================================================
