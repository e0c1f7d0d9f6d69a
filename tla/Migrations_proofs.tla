------------------------- MODULE Migrations_proofs -------------------------
(***************************************************************************)
(* Proofs about Migrations for any files, processes, releases and kills:   *)
(* the schema is that of the first so many files and the records are       *)
(* behind by one at most, rows are only inserted twice after a loss, and a *)
(* run down leaves nothing.  What a plan consists of is computed from its  *)
(* definitions first (PlanIs), so that a process at place a of a run up is *)
(* known to be at file a, and at file release + 1 - a of a run down.  What *)
(* the first n files build is a recursive function: that it exists is      *)
(* proved by a least counterexample (LeastNumber).                         *)
(***************************************************************************)
EXTENDS Migrations, SequenceTheorems, WellFoundedInduction, TLAPS

\* Of natural numbers there is a least: the library's theorem without its operators.
LEMMA LeastNumber ==
    ASSUME NEW S \in SUBSET Nat, S # {}
    PROVE  \E lo \in S : \A k \in S : lo <= k
<1> DEFINE Less == {ss \in Nat \X Nat : ss[1] < ss[2]}
<1>1. IsWellFoundedOn(Less, Nat)
  BY NatLessThanWellFounded DEF OpToRel
<1> HIDE DEF Less
<1>2. PICK lo \in S : \A k \in S : ~(<<k, lo>> \in Less)
  BY <1>1, WFMin
<1>3. \A k \in S : ~(k < lo)
  BY <1>2 DEF Less
<1> QED
  BY <1>3

\* What the n-th file makes of the layer below.
Layer(f, n) == IF n = 0 THEN {} ELSE (f[n - 1] \cup Up[n].makes) \ Up[n].drops

\* The first n files build something, for every n: else there were a least such n.
LEMMA LayersExist ==
    ASSUME NEW m \in Nat
    PROVE  \E f : f = [n \in 0..m |-> Layer(f, n)]
<1> DEFINE Built_(k) == \E f : f = [n \in 0..k |-> Layer(f, n)]
           Bad == {k \in Nat : ~Built_(k)}
<1>1. SUFFICES Bad = {}
  OBVIOUS
<1>2. SUFFICES ASSUME Bad # {} PROVE FALSE
  OBVIOUS
<1>3. PICK k \in Bad : \A j \in Bad : k <= j
  <2> HIDE DEF Built_
  <2> QED
    BY <1>2, LeastNumber
<1>4. CASE k = 0
  <2> DEFINE f == [n \in 0..0 |-> {}]
  <2>1. f = [n \in 0..0 |-> Layer(f, n)]
    BY DEF Layer
  <2> QED
    BY <1>3, <1>4, <2>1
<1>5. CASE k # 0
  <2>1. k - 1 \in Nat /\ k - 1 \notin Bad
    BY <1>3, <1>5
  <2>2. PICK f : f = [n \in 0..(k - 1) |-> Layer(f, n)]
    BY <2>1
  <2> DEFINE g == [n \in 0..k |-> IF n = k THEN Layer(f, n) ELSE f[n]]
  <2>3. \A n \in 0..k : g[n] = Layer(g, n)
    <3>1. SUFFICES ASSUME NEW n \in 0..k PROVE g[n] = Layer(g, n)
      OBVIOUS
    <3>2. n # 0 => n - 1 \in 0..(k - 1) /\ g[n - 1] = f[n - 1]
      BY <1>5
    <3>3. Layer(g, n) = Layer(f, n)
      BY <3>2 DEF Layer
    <3>4. CASE n = k
      BY <3>3, <3>4
    <3>5. CASE n # k
      <4>1. n \in 0..(k - 1) /\ g[n] = f[n]
        BY <3>5
      <4>2. f[n] = Layer(f, n)
        BY <2>2, <4>1
      <4> QED
        BY <3>3, <4>1, <4>2
    <3> QED
      BY <3>4, <3>5
  <2>4. g = [n \in 0..k |-> Layer(g, n)]
    BY <2>3
  <2> QED
    BY <1>3, <2>4
<1> QED
  BY <1>4, <1>5

\* The function that says what the first n files build exists, so that it is what its
\* definition says.
LEMMA BuiltLayers ==
    /\ Built[0] = {}
    /\ \A n \in 1..Len(Up) : Built[n] = (Built[n - 1] \cup Up[n].makes) \ Up[n].drops
<1>1. Len(Up) \in Nat
  BY MigrationsAssumption
<1>2. \E f : f = [n \in 0..Len(Up) |-> IF n = 0 THEN {} ELSE (f[n - 1] \cup Up[n].makes) \ Up[n].drops]
  BY <1>1, LayersExist DEF Layer
<1>3. Built = [n \in 0..Len(Up) |-> IF n = 0 THEN {} ELSE (Built[n - 1] \cup Up[n].makes) \ Up[n].drops]
  BY <1>2 DEF Built
<1> HIDE DEF Built
<1>4. \A n \in 0..Len(Up) : Built[n] = IF n = 0 THEN {} ELSE (Built[n - 1] \cup Up[n].makes) \ Up[n].drops
  BY <1>3
<1>5. \A n \in 1..Len(Up) : n \in 0..Len(Up) /\ n # 0
  BY <1>1
<1>6. 0 \in 0..Len(Up)
  BY <1>1
<1> QED
  BY <1>4, <1>5, <1>6

-----------------------------------------------------------------------------
(* The processes and their plans.                                          *)

Directions == {"up", "down", "other", "none"}
SeedKinds == {"no", "local", "real"}

Item == [step : Files \cup {Clear, Forbidden}, tracked : BOOLEAN]

Process == [pc : {"idle", "check", "execute", "record"}, direction : Directions \cup {""},
            plan : Seq(Item), at : Nat \ {0}]

\* What follows the migrations in a plan.
Fixture(x) ==
    \/ \E k \in DOMAIN Seeds : x = [step |-> Seeds[k], tracked |-> TRUE]
    \/ x = [step |-> Forbidden, tracked |-> FALSE]

\* What a run in this direction does at each place, with r files shipped.
Planned(direction, plan, r) ==
    /\ plan \in Seq(Item)
    /\ direction = "down" => Len(plan) > r
    /\ \A a \in 1..Len(plan) :
         \/ /\ direction \in {"up", "other"} /\ a <= r
            /\ plan[a] = [step |-> Up[a], tracked |-> direction = "up"]
         \/ /\ direction = "down" /\ a <= r
            /\ plan[a] = [step |-> Down[r + 1 - a], tracked |-> FALSE]
         \/ direction = "down" /\ a = r + 1 /\ plan[a] = [step |-> Clear, tracked |-> FALSE]
         \/ /\ direction \in {"up", "other"} => a > r
            /\ direction = "down" => a > r + 1
            /\ Fixture(plan[a])

\* A process under way is somewhere in its plan, and alone unless it runs up.
RunOK(p) ==
    run[p] # Idle =>
        /\ run[p].pc # "idle" /\ run[p].direction \in Directions
        /\ Planned(run[p].direction, run[p].plan, release)
        /\ run[p].at <= Len(run[p].plan) + 1
        /\ run[p].pc # "check" => run[p].at <= Len(run[p].plan)
        /\ run[p].pc = "record" => Current(p).tracked
        /\ run[p].direction # "up" => \A q \in Runners \ {p} : run[q] = Idle
        /\ ~meddled => run[p].direction \in {"up", "none"}

TypeInv ==
    /\ release \in 0..Len(Up) /\ meddled \in BOOLEAN
    /\ copies \in [Things -> Nat]
    /\ run \in [Runners -> Process]
    /\ \A p \in Runners : RunOK(p)

\* A function on 1..n is a sequence of length n.
LEMMA FunctionIsSeq ==
    ASSUME NEW S, NEW n \in Nat, NEW f \in [1..n -> S]
    PROVE  f \in Seq(S) /\ Len(f) = n /\ DOMAIN f = 1..n
<1>1. f \in Seq(S)
  BY SeqDef
<1>2. Len(f) \in Nat /\ DOMAIN f = 1..Len(f)
  BY <1>1
<1>3. DOMAIN f = 1..n
  OBVIOUS
<1> QED
  BY <1>1, <1>2, <1>3

\* The files are shapes, numbered alike up and down, and none stands for a statement.
LEMMA FileFacts ==
    /\ Up \in Seq(Shape) /\ Down \in Seq(Shape) /\ Seeds \in Seq(Shape)
    /\ Len(Up) \in Nat /\ DOMAIN Up = 1..Len(Up) /\ DOMAIN Down = 1..Len(Up)
    /\ \A i \in 1..Len(Up) : Up[i] \in Files /\ Down[i] \in Files
    /\ \A k \in DOMAIN Seeds : Seeds[k] \in Files
    /\ \A f \in Files : f \in Shape /\ f # Clear /\ f # Forbidden
<1>1. Up \in Seq(Shape) /\ Down \in Seq(Shape) /\ Seeds \in Seq(Shape) /\ Len(Up) = Len(Down)
  BY MigrationsAssumption
<1>2. Len(Up) \in Nat /\ DOMAIN Up = 1..Len(Up) /\ DOMAIN Down = 1..Len(Up)
  BY <1>1
<1>3. \A i \in DOMAIN Up : Up[i] \in Shape
  BY <1>1
<1>4. \A i \in DOMAIN Down : Down[i] \in Shape
  BY <1>1
<1>5. \A k \in DOMAIN Seeds : Seeds[k] \in Shape
  BY <1>1
<1>6. /\ \A i \in 1..Len(Up) : Up[i] \in Files /\ Down[i] \in Files
      /\ \A k \in DOMAIN Seeds : Seeds[k] \in Files
  BY <1>2 DEF Files
<1>7. \A f \in Files : f \in Shape
  BY <1>3, <1>4, <1>5 DEF Files
<1>8. \A f \in Files : f # Clear /\ f # Forbidden
  BY MigrationsAssumption
<1> QED
  BY <1>1, <1>2, <1>6, <1>7, <1>8

\* What a run executes of the migrations, place by place: Migrate and its helpers.
LEMMA MigrateIs ==
    ASSUME release \in 0..Len(Up), NEW d \in Directions
    PROVE  LET m == Migrate(d) IN
           /\ m \in Seq(Item)
           /\ Len(m) = IF d = "none" THEN 0 ELSE IF d = "down" THEN release + 1 ELSE release
           /\ \A a \in 1..Len(m) :
                m[a] = IF d \in {"up", "other"} THEN [step |-> Up[a], tracked |-> d = "up"]
                       ELSE IF a = release + 1 THEN [step |-> Clear, tracked |-> FALSE]
                       ELSE [step |-> Down[release + 1 - a], tracked |-> FALSE]
<1> DEFINE r == release
<1>1. r \in Nat /\ r <= Len(Up)
  BY FileFacts
<1>2. /\ Shipped(Up) \in Seq(Files) /\ Len(Shipped(Up)) = r /\ DOMAIN Shipped(Up) = 1..r
      /\ \A a \in 1..r : Shipped(Up)[a] = Up[a]
  <2>1. \A i \in 1..r : Up[i] \in Files
    BY <1>1, FileFacts
  <2>2. Shipped(Up) \in Seq(Files) /\ Len(Shipped(Up)) = r
    BY <1>1, <2>1, SubSeqProperties DEF Shipped
  <2>3. \A a \in 1..r : Shipped(Up)[a] = Up[a]
    <3>1. \A a \in 1..(r - 1 + 1) : SubSeq(Up, 1, r)[a] = Up[1 + a - 1]
      BY <1>1, <2>1, SubSeqProperties
    <3> QED
      BY <1>1, <3>1 DEF Shipped
  <2>4. DOMAIN Shipped(Up) = 1..r
    BY <2>2, LenProperties
  <2> QED
    BY <2>2, <2>3, <2>4
<1>3. /\ Shipped(Down) \in Seq(Files) /\ Len(Shipped(Down)) = r /\ DOMAIN Shipped(Down) = 1..r
      /\ \A a \in 1..r : Shipped(Down)[a] = Down[a]
  <2>1. \A i \in 1..r : Down[i] \in Files
    BY <1>1, FileFacts
  <2>2. Shipped(Down) \in Seq(Files) /\ Len(Shipped(Down)) = r
    BY <1>1, <2>1, SubSeqProperties DEF Shipped
  <2>3. \A a \in 1..r : Shipped(Down)[a] = Down[a]
    <3>1. \A a \in 1..(r - 1 + 1) : SubSeq(Down, 1, r)[a] = Down[1 + a - 1]
      BY <1>1, <2>1, SubSeqProperties
    <3> QED
      BY <1>1, <3>1 DEF Shipped
  <2>4. DOMAIN Shipped(Down) = 1..r
    BY <2>2, LenProperties
  <2> QED
    BY <2>2, <2>3, <2>4
<1>4. CASE d = "up"
  <2>1. Migrate(d) = [a \in 1..r |-> [step |-> Up[a], tracked |-> TRUE]]
    <3>1. Tracked(Shipped(Up)) = [a \in 1..r |-> [step |-> Up[a], tracked |-> TRUE]]
      BY <1>2 DEF Tracked
    <3> QED
      BY <1>4, <3>1 DEF Migrate
  <2>2. Migrate(d) \in Seq(Item) /\ Len(Migrate(d)) = r
    BY <1>1, <2>1, FileFacts DEF Item
  <2> QED
    BY <1>4, <2>1, <2>2
<1>5. CASE d = "other"
  <2>1. Migrate(d) = [a \in 1..r |-> [step |-> Up[a], tracked |-> FALSE]]
    <3>1. Untracked(Shipped(Up)) = [a \in 1..r |-> [step |-> Up[a], tracked |-> FALSE]]
      BY <1>2 DEF Untracked
    <3> QED
      BY <1>5, <3>1 DEF Migrate
  <2>2. Migrate(d) \in Seq(Item) /\ Len(Migrate(d)) = r
    BY <1>1, <2>1, FileFacts DEF Item
  <2> QED
    BY <1>5, <2>1, <2>2
<1>6. CASE d = "none"
  BY <1>6 DEF Migrate
<1>7. CASE d = "down"
  <2> DEFINE w == Reversed(Shipped(Down)) \o <<Clear>>
  <2>1. Reversed(Shipped(Down)) = [a \in 1..r |-> Down[r + 1 - a]]
    BY <1>1, <1>3 DEF Reversed
  <2>2. Reversed(Shipped(Down)) \in Seq(Files) /\ Len(Reversed(Shipped(Down))) = r
    BY <1>1, <2>1, FileFacts
  <2>3. /\ w \in Seq(Files \cup {Clear}) /\ Len(w) = r + 1 /\ DOMAIN w = 1..(r + 1)
        /\ \A a \in 1..r : w[a] = Down[r + 1 - a]
        /\ w[r + 1] = Clear
    <3>1. /\ w \in Seq(Files \cup {Clear}) /\ Len(w) = r + 1
          /\ \A a \in 1..(r + 1) : w[a] = IF a <= r THEN Reversed(Shipped(Down))[a]
                                         ELSE <<Clear>>[a - r]
      <4>1. /\ Reversed(Shipped(Down)) \in Seq(Files \cup {Clear})
            /\ <<Clear>> \in Seq(Files \cup {Clear}) /\ Len(<<Clear>>) = 1
        BY <2>2, SeqMonotonic
      <4> QED
        BY <2>2, <4>1, ConcatProperties
    <3>2. DOMAIN w = 1..(r + 1)
      BY <3>1, LenProperties
    <3>3. \A a \in 1..r : w[a] = Down[r + 1 - a]
      BY <1>1, <2>1, <3>1
    <3>4. w[r + 1] = Clear
      BY <1>1, <3>1
    <3> QED
      BY <3>1, <3>2, <3>3, <3>4
  <2> HIDE DEF w
  <2>4. Migrate(d) = [a \in 1..(r + 1) |-> [step |-> w[a], tracked |-> FALSE]]
    BY <1>7, <2>3 DEF Migrate, Untracked, w
  <2>5. Migrate(d) \in Seq(Item) /\ Len(Migrate(d)) = r + 1
    BY <1>1, <2>3, <2>4 DEF Item
  <2>6. \A a \in 1..(r + 1) :
          Migrate(d)[a] = IF a = r + 1 THEN [step |-> Clear, tracked |-> FALSE]
                          ELSE [step |-> Down[r + 1 - a], tracked |-> FALSE]
    <3> SUFFICES ASSUME NEW a \in 1..(r + 1)
                 PROVE  Migrate(d)[a] = IF a = r + 1 THEN [step |-> Clear, tracked |-> FALSE]
                                        ELSE [step |-> Down[r + 1 - a], tracked |-> FALSE]
      OBVIOUS
    <3>1. Migrate(d)[a] = [step |-> w[a], tracked |-> FALSE]
      BY <2>4
    <3>2. w[a] = IF a = r + 1 THEN Clear ELSE Down[r + 1 - a]
      BY <1>1, <2>3
    <3> QED
      BY <3>1, <3>2
  <2> QED
    BY <1>7, <2>5, <2>6
<1> QED
  BY <1>4, <1>5, <1>6, <1>7 DEF Directions

\* What a run executes of the seeds: fixtures only.
LEMMA SeedIs ==
    ASSUME NEW s \in SeedKinds
    PROVE  SeedDB(s) \in Seq(Item) /\ \A a \in 1..Len(SeedDB(s)) : Fixture(SeedDB(s)[a])
<1>1. CASE s = "no"
  BY <1>1 DEF SeedDB
<1>2. CASE s = "local"
  <2>1. SeedDB(s) = [k \in 1..Len(Seeds) |-> [step |-> Seeds[k], tracked |-> TRUE]]
    BY <1>2, FileFacts DEF SeedDB, Tracked
  <2>2. Len(Seeds) \in Nat /\ DOMAIN Seeds = 1..Len(Seeds)
    BY FileFacts
  <2>3. SeedDB(s) \in Seq(Item) /\ Len(SeedDB(s)) = Len(Seeds)
    BY <2>1, <2>2, FileFacts DEF Item
  <2> QED
    BY <2>1, <2>2, <2>3 DEF Fixture
<1>3. CASE s = "real"
  <2>1. SeedDB(s) = [i \in 1..1 |-> [step |-> Forbidden, tracked |-> FALSE]]
    <3>1. Untracked(<<Forbidden>>) = [i \in 1..1 |-> [step |-> Forbidden, tracked |-> FALSE]]
      <4>1. DOMAIN <<Forbidden>> = 1..1 /\ \A i \in 1..1 : <<Forbidden>>[i] = Forbidden
        OBVIOUS
      <4> QED
        BY <4>1 DEF Untracked
    <3> QED
      BY <1>3, <3>1 DEF SeedDB
  <2>2. SeedDB(s) \in [1..1 -> Item]
    BY <2>1 DEF Item
  <2>3. SeedDB(s) \in Seq(Item) /\ Len(SeedDB(s)) = 1
    BY <2>2, FunctionIsSeq
  <2> QED
    BY <2>1, <2>3 DEF Fixture
<1> QED
  BY <1>1, <1>2, <1>3 DEF SeedKinds

\* The plan of a run is made as Planned says, whatever was shipped.
LEMMA PlanIs ==
    ASSUME release \in 0..Len(Up), NEW d \in Directions, NEW s \in SeedKinds
    PROVE  Planned(d, Plan(d, s), release)
<1> DEFINE m == Migrate(d)
           t == SeedDB(s)
           r == release
<1>1. /\ m \in Seq(Item)
      /\ Len(m) = IF d = "none" THEN 0 ELSE IF d = "down" THEN r + 1 ELSE r
      /\ \A a \in 1..Len(m) :
           m[a] = IF d \in {"up", "other"} THEN [step |-> Up[a], tracked |-> d = "up"]
                  ELSE IF a = r + 1 THEN [step |-> Clear, tracked |-> FALSE]
                  ELSE [step |-> Down[r + 1 - a], tracked |-> FALSE]
  BY MigrateIs
<1>2. t \in Seq(Item) /\ \A a \in 1..Len(t) : Fixture(t[a])
  BY SeedIs
<1>3. Plan(d, s) = m \o t
  BY DEF Plan
<1> HIDE DEF m, t
<1>4. /\ m \o t \in Seq(Item) /\ Len(m) \in Nat /\ Len(t) \in Nat /\ Len(m \o t) = Len(m) + Len(t)
      /\ \A a \in 1..Len(m) : (m \o t)[a] = m[a]
      /\ \A a \in (Len(m) + 1)..(Len(m) + Len(t)) : (m \o t)[a] = t[a - Len(m)]
  <2>1. Len(m) \in Nat /\ Len(t) \in Nat
    BY <1>1, <1>2, LenProperties
  <2>2. /\ m \o t \in Seq(Item) /\ Len(m \o t) = Len(m) + Len(t)
        /\ \A i \in 1..(Len(m) + Len(t)) :
             (m \o t)[i] = IF i <= Len(m) THEN m[i] ELSE t[i - Len(m)]
    BY <1>1, <1>2, ConcatProperties
  <2> QED
    BY <2>1, <2>2
<1>5. r \in Nat
  BY FileFacts
<1>6. ASSUME NEW a \in 1..Len(m \o t), a > Len(m)
      PROVE  Fixture((m \o t)[a])
  BY <1>2, <1>4, <1>6
<1>7. ASSUME NEW a \in 1..Len(m \o t), a <= Len(m)
      PROVE  (m \o t)[a] = m[a] /\ a \in 1..Len(m)
  BY <1>4, <1>7
<1> HIDE DEF r
<1> DEFINE P == m \o t
<1>8. P \in Seq(Item) /\ Len(P) \in Nat /\ (d = "down" => Len(P) > r)
  BY <1>1, <1>4, <1>5
<1>9. \A a \in 1..Len(P) :
         \/ /\ d \in {"up", "other"} /\ a <= r
            /\ P[a] = [step |-> Up[a], tracked |-> d = "up"]
         \/ /\ d = "down" /\ a <= r
            /\ P[a] = [step |-> Down[r + 1 - a], tracked |-> FALSE]
         \/ d = "down" /\ a = r + 1 /\ P[a] = [step |-> Clear, tracked |-> FALSE]
         \/ /\ d \in {"up", "other"} => a > r
            /\ d = "down" => a > r + 1
            /\ Fixture(P[a])
  <2> SUFFICES ASSUME NEW a \in 1..Len(P)
               PROVE  \/ /\ d \in {"up", "other"} /\ a <= r
                         /\ P[a] = [step |-> Up[a], tracked |-> d = "up"]
                      \/ /\ d = "down" /\ a <= r
                         /\ P[a] = [step |-> Down[r + 1 - a], tracked |-> FALSE]
                      \/ d = "down" /\ a = r + 1 /\ P[a] = [step |-> Clear, tracked |-> FALSE]
                      \/ /\ d \in {"up", "other"} => a > r
                         /\ d = "down" => a > r + 1
                         /\ Fixture(P[a])
    OBVIOUS
  <2>1. CASE a <= Len(m)
    <3>1. P[a] = m[a] /\ a \in 1..Len(m)
      BY <1>7, <2>1
    <3>2. m[a] = IF d \in {"up", "other"} THEN [step |-> Up[a], tracked |-> d = "up"]
                 ELSE IF a = r + 1 THEN [step |-> Clear, tracked |-> FALSE]
                 ELSE [step |-> Down[r + 1 - a], tracked |-> FALSE]
      BY <1>1, <3>1
    <3> HIDE DEF P
    <3>3. CASE d \in {"up", "other"}
      <4>1. a <= r
        BY <1>1, <1>5, <3>1, <3>3
      <4> QED
        BY <3>1, <3>2, <3>3, <4>1
    <3>4. CASE d = "down"
      <4>1. a \in 1..(r + 1)
        BY <1>1, <1>5, <3>1, <3>4
      <4> QED
        BY <1>5, <3>1, <3>2, <3>4, <4>1
    <3>5. CASE d = "none"
      BY <1>1, <3>1, <3>5
    <3> QED
      BY <3>3, <3>4, <3>5 DEF Directions
  <2>2. CASE a > Len(m)
    <3>1. Fixture(P[a])
      BY <1>6, <2>2
    <3> HIDE DEF P
    <3> QED
      BY <1>1, <1>5, <2>2, <3>1 DEF Directions
  <2> QED
    BY <1>4, <1>8, <2>1, <2>2
<1> QED
  BY <1>3, <1>8, <1>9 DEF Planned, r

-----------------------------------------------------------------------------
(* A process takes a step: it moves on in its plan, or is gone.            *)

Moved(p) ==
    /\ release' = release /\ run' \in [Runners -> Process]
    /\ \A q \in Runners \ {p} : run'[q] = run[q]
    /\ ~meddled' => ~meddled
    /\ \/ run'[p] = Idle
       \/ /\ run[p] # Idle /\ run[p].at <= Len(run[p].plan)
          /\ run'[p].plan = run[p].plan /\ run'[p].direction = run[p].direction
          /\ \/ run'[p].pc = "check" /\ run'[p].at = run[p].at + 1
             \/ run'[p].pc = "execute" /\ run'[p].at = run[p].at
             \/ run'[p].pc = "record" /\ run'[p].at = run[p].at /\ Current(p).tracked

\* A process that is about to do something is under way, at a place of its plan.
LEMMA Going ==
    ASSUME run \in [Runners -> Process], NEW p \in Runners, NEW c \in {"check", "execute", "record"},
           Doing(p, c)
    PROVE  /\ run[p] # Idle /\ run[p] \in Process /\ run[p].pc = c
           /\ run[p].at \in Nat \ {0} /\ run[p].plan \in Seq(Item)
           /\ run[p].at \in 1..Len(run[p].plan) /\ Current(p) \in Item
<1>1. run[p] \in Process
  OBVIOUS
<1>2. run[p].pc = c /\ run[p].at <= Len(run[p].plan)
  BY DEF Doing
<1>3. run[p] # Idle
  <2>1. Idle.pc = "idle" /\ c # "idle"
    BY DEF Idle
  <2> QED
    BY <1>2, <2>1
<1>4. run[p].at \in Nat \ {0} /\ run[p].plan \in Seq(Item)
  BY <1>1 DEF Process
<1>5. Len(run[p].plan) \in Nat
  BY <1>4, LenProperties
<1>6. run[p].at \in 1..Len(run[p].plan)
  BY <1>2, <1>4, <1>5
<1>7. Current(p) \in Item
  BY <1>4, <1>6, ElementOfSeq DEF Current
<1> QED
  BY <1>1, <1>2, <1>3, <1>4, <1>6, <1>7

\* Advance moves a process to the next place.
LEMMA AdvanceMoves ==
    ASSUME run \in [Runners -> Process], NEW p \in Runners, NEW c \in {"check", "execute", "record"},
           Doing(p, c), Advance(p), release' = release, ~meddled' => ~meddled
    PROVE  /\ Moved(p) /\ run'[p].at = run[p].at + 1 /\ run'[p].pc = "check"
           /\ run'[p].plan = run[p].plan /\ run'[p].direction = run[p].direction
<1>1. /\ run[p] # Idle /\ run[p] \in Process /\ run[p].at \in Nat \ {0}
      /\ run[p].at \in 1..Len(run[p].plan) /\ run[p].plan \in Seq(Item)
  BY Going
<1>2. run' = [run EXCEPT ![p] = [run[p] EXCEPT !.pc = "check", !.at = run[p].at + 1]]
  BY DEF Advance
<1>3. /\ run'[p] = [run[p] EXCEPT !.pc = "check", !.at = run[p].at + 1]
      /\ \A q \in Runners \ {p} : run'[q] = run[q]
  BY <1>2
<1>4. run'[p] \in Process
  <2>1. run[p].at + 1 \in Nat \ {0}
    BY <1>1
  <2> QED
    BY <1>1, <1>3, <2>1 DEF Process
<1>5. run' \in [Runners -> Process]
  BY <1>2, <1>3, <1>4
<1>6. /\ run'[p].at = run[p].at + 1 /\ run'[p].pc = "check"
      /\ run'[p].plan = run[p].plan /\ run'[p].direction = run[p].direction
  BY <1>1, <1>3 DEF Process
<1>7. run[p].at <= Len(run[p].plan)
  BY <1>1
<1> QED
  BY <1>1, <1>3, <1>5, <1>6, <1>7 DEF Moved

\* GoTo leaves a process at its place.
LEMMA GoToMoves ==
    ASSUME run \in [Runners -> Process], NEW p \in Runners, NEW c \in {"check", "execute", "record"},
           NEW d \in {"execute", "record"},
           Doing(p, c), GoTo(p, d), release' = release, ~meddled' => ~meddled,
           d = "record" => Current(p).tracked
    PROVE  /\ Moved(p) /\ run'[p].at = run[p].at /\ run'[p].pc = d
           /\ run'[p].plan = run[p].plan /\ run'[p].direction = run[p].direction
<1>1. /\ run[p] # Idle /\ run[p] \in Process /\ run[p].at \in Nat \ {0}
      /\ run[p].at \in 1..Len(run[p].plan) /\ run[p].plan \in Seq(Item)
  BY Going
<1>2. run' = [run EXCEPT ![p] = [run[p] EXCEPT !.pc = d]]
  BY DEF GoTo
<1>3. /\ run'[p] = [run[p] EXCEPT !.pc = d]
      /\ \A q \in Runners \ {p} : run'[q] = run[q]
  BY <1>2
<1>4. run'[p] \in Process
  BY <1>1, <1>3 DEF Process
<1>5. run' \in [Runners -> Process]
  BY <1>2, <1>3, <1>4
<1>6. /\ run'[p].at = run[p].at /\ run'[p].pc = d
      /\ run'[p].plan = run[p].plan /\ run'[p].direction = run[p].direction
  BY <1>1, <1>3 DEF Process
<1>7. run[p].at <= Len(run[p].plan)
  BY <1>1
<1> QED
  BY <1>1, <1>3, <1>5, <1>6, <1>7 DEF Moved

\* Idle is a process.
LEMMA IdleProcess == Idle \in Process
<1>1. <<>> \in Seq(Item)
  BY EmptySeq
<1> QED
  BY <1>1 DEF Idle, Process

\* A process that ends is idle, and the others are as before.
LEMMA EndMoves ==
    ASSUME run \in [Runners -> Process], NEW p \in Runners, run' = [run EXCEPT ![p] = Idle],
           release' = release, ~meddled' => ~meddled
    PROVE  Moved(p) /\ run'[p] = Idle
BY IdleProcess DEF Moved

\* Whatever a process does, alone it moves.
LEMMA StepMoves ==
    ASSUME TypeInv, NEW p \in Runners, Step(p) \/ Kill(p)
    PROVE  Moved(p)
<1>1. run \in [Runners -> Process]
  BY DEF TypeInv
<1>2. CASE Check(p)
  <2>1. Doing(p, "check") /\ release' = release /\ meddled' = meddled
    BY <1>2 DEF Check, history
  <2>2. Advance(p) \/ GoTo(p, "execute")
    BY <1>2 DEF Check
  <2> QED
    BY <1>1, <2>1, <2>2, AdvanceMoves, GoToMoves
<1>3. CASE Execute(p)
  <2>1. Doing(p, "execute") /\ release' = release /\ (~meddled' => ~meddled)
    BY <1>3 DEF Execute
  <2>2. Advance(p) \/ (GoTo(p, "record") /\ Current(p).tracked)
    BY <1>3 DEF Execute
  <2> QED
    BY <1>1, <2>1, <2>2, AdvanceMoves, GoToMoves
<1>4. CASE Fatal(p)
  BY <1>1, <1>4, EndMoves DEF Fatal, Die, history
<1>5. CASE Record(p)
  <2>1. Doing(p, "record") /\ release' = release /\ meddled' = meddled
    BY <1>5 DEF Record, history
  <2>2. Advance(p) \/ Die(p)
    BY <1>5 DEF Record
  <2> QED
    BY <1>1, <2>1, <2>2, AdvanceMoves, EndMoves DEF Die
<1>6. CASE ClearRecords(p)
  <2>1. Doing(p, "execute") /\ release' = release /\ meddled' = meddled /\ Advance(p)
    BY <1>6 DEF ClearRecords, history
  <2> QED
    BY <1>1, <2>1, AdvanceMoves
<1>7. CASE Finish(p)
  BY <1>1, <1>7, EndMoves DEF Finish, history
<1>8. CASE Kill(p)
  BY <1>1, <1>8, EndMoves DEF Kill
<1> QED
  BY <1>2, <1>3, <1>4, <1>5, <1>6, <1>7, <1>8 DEF Step

\* A move keeps every process within its plan.
LEMMA MovedRuns ==
    ASSUME TypeInv, NEW p \in Runners, Moved(p)
    PROVE  \A q \in Runners : RunOK(q)'
<1>1. SUFFICES ASSUME NEW q \in Runners, run'[q] # Idle PROVE RunOK(q)'
  BY DEF RunOK
<1>2. /\ RunOK(q) /\ release' = release /\ (~meddled' => ~meddled)
      /\ \A o \in Runners : run[o] \in Process
  BY DEF TypeInv, Moved
<1>3. \A o \in Runners : run[o] = Idle => run'[o] = Idle
  BY <1>2 DEF Moved
<1>4. run[q] # Idle
  BY <1>1, <1>3
<1>5. run[q].direction # "up" => \A o \in Runners \ {q} : run'[o] = Idle
  BY <1>2, <1>3, <1>4 DEF RunOK
<1>6. CASE q # p
  <2>1. run'[q] = run[q]
    BY <1>6 DEF Moved
  <2>2. Current(q)' = Current(q)
    BY <2>1 DEF Current
  <2> QED
    BY <1>2, <1>4, <1>5, <2>1, <2>2 DEF RunOK
<1>7. CASE q = p
  <2>1. /\ run[q].at <= Len(run[q].plan)
        /\ run'[q].plan = run[q].plan /\ run'[q].direction = run[q].direction
        /\ \/ run'[q].pc = "check" /\ run'[q].at = run[q].at + 1
           \/ run'[q].pc = "execute" /\ run'[q].at = run[q].at
           \/ run'[q].pc = "record" /\ run'[q].at = run[q].at /\ Current(q).tracked
    BY <1>1, <1>7 DEF Moved
  <2>2. run[q].at \in Nat /\ Len(run[q].plan) \in Nat
    BY <1>2, LenProperties DEF Process
  <2>3. run'[q].at = run[q].at => Current(q)' = Current(q)
    BY <2>1 DEF Current
  <2>4. run'[q].pc # "idle" /\ run'[q].at <= Len(run'[q].plan) + 1
    BY <2>1, <2>2
  <2>5. run'[q].pc # "check" => run'[q].at <= Len(run'[q].plan)
    BY <2>1, <2>2
  <2>6. run'[q].pc = "record" => Current(q)'.tracked
    BY <2>1, <2>3
  <2> QED
    BY <1>2, <1>4, <1>5, <2>1, <2>4, <2>5, <2>6 DEF RunOK
<1> QED
  BY <1>6, <1>7

\* Initially the types are right and nothing runs.
LEMMA TypeInit == Init => TypeInv
<1> SUFFICES ASSUME Init PROVE TypeInv
  OBVIOUS
<1>1. release = 0 /\ run = [p \in Runners |-> Idle] /\ meddled = FALSE
      /\ copies = [t \in Things |-> 0]
  BY DEF Init
<1>2. \A p \in Runners : RunOK(p)
  BY <1>1 DEF RunOK
<1>3. run \in [Runners -> Process] /\ copies \in [Things -> Nat]
  BY <1>1, IdleProcess
<1>4. release \in 0..Len(Up)
  BY <1>1, FileFacts
<1> QED
  BY <1>1, <1>2, <1>3, <1>4 DEF TypeInv

\* Every step keeps the types, and the processes within their plans.
LEMMA TypeStep == TypeInv /\ [Next]_vars => TypeInv'
<1> SUFFICES ASSUME TypeInv, [Next]_vars PROVE TypeInv'
  OBVIOUS
<1> USE DEF TypeInv
<1>1. CASE Deploy
  <2>1. release' \in 0..Len(Up)
    BY <1>1, MigrationsAssumption DEF Deploy
  <2>2. /\ run' = run /\ copies' = copies /\ meddled' = meddled
        /\ \A p \in Runners : run[p] = Idle
    BY <1>1 DEF Deploy, database, history
  <2>3. \A p \in Runners : RunOK(p)'
    BY <2>2 DEF RunOK
  <2> QED
    BY <2>1, <2>2, <2>3
<1>2. ASSUME NEW p \in Runners, NEW d \in Directions, NEW s \in SeedKinds, Start(p, d, s)
      PROVE  TypeInv'
  <2> DEFINE new == [pc |-> "check", direction |-> d, plan |-> Plan(d, s), at |-> 1]
  <2>1. /\ run[p] = Idle /\ release' = release /\ copies' = copies
        /\ \A q \in Runners \ {p} : run[q] = Idle \/ (d = "up" /\ run[q].direction = "up")
        /\ meddled' = (meddled \/ d \in {"down", "other"})
        /\ run' = [run EXCEPT ![p] = new]
    BY <1>2 DEF Start, database
  <2>2. Planned(d, Plan(d, s), release)
    BY PlanIs
  <2>3. new \in Process
    <3>1. Plan(d, s) \in Seq(Item) /\ 1 \in Nat \ {0}
      BY <2>2 DEF Planned
    <3> HIDE DEF TypeInv
    <3> QED
      BY <3>1 DEF Process
  <2>4. run' \in [Runners -> Process] /\ run'[p] = new /\ \A q \in Runners \ {p} : run'[q] = run[q]
    BY <2>1, <2>3
  <2>5. RunOK(p)'
    <3>1. 1 <= Len(Plan(d, s)) + 1
      BY <2>2, LenProperties DEF Planned
    <3>2. ~meddled' => d \in {"up", "none"}
      BY <2>1 DEF Directions
    <3>3. d # "up" => \A q \in Runners \ {p} : run'[q] = Idle
      BY <2>1, <2>4
    <3> QED
      BY <2>1, <2>2, <2>4, <3>1, <3>2, <3>3 DEF RunOK
  <2>6. ASSUME NEW q \in Runners \ {p} PROVE RunOK(q)'
    <3>1. run'[q] = run[q] /\ RunOK(q) /\ (~meddled' => ~meddled)
      BY <2>1, <2>4
    <3>2. run[q] # Idle => run[q].direction = "up"
      BY <2>1
    <3>3. Current(q)' = Current(q)
      BY <3>1 DEF Current
    <3> QED
      BY <2>1, <3>1, <3>2, <3>3 DEF RunOK
  <2> QED
    BY <2>1, <2>4, <2>5, <2>6
<1>3. ASSUME NEW p \in Runners, Step(p) \/ Kill(p) PROVE TypeInv'
  <2>1. Moved(p)
    BY <1>3, StepMoves
  <2>2. \A q \in Runners : RunOK(q)'
    BY <2>1, MovedRuns
  <2>3. run' \in [Runners -> Process] /\ release' = release
    BY <2>1 DEF Moved
  <2>4. copies' \in [Things -> Nat] /\ meddled' \in BOOLEAN
    <3>1. CASE Execute(p)
      <4>1. /\ meddled' = (meddled \/ Raced(p))
            /\ copies' = [t \in Things |->
                 IF t \in Current(p).step.drops THEN 0
                 ELSE IF t \in Current(p).step.fills THEN copies[t] + 1 ELSE copies[t]]
        BY <3>1 DEF Execute
      <4>2. meddled' \in BOOLEAN
        BY <4>1
      <4>3. copies' \in [Things -> Nat]
        BY <4>1
      <4> QED
        BY <4>2, <4>3
    <3>2. CASE ~Execute(p)
      <4>1. copies' = copies /\ meddled' = meddled
        BY <1>3, <3>2 DEF Step, Check, Fatal, Record, ClearRecords, Finish, Kill, database, history
      <4> QED
        BY <4>1
    <3> QED
      BY <3>1, <3>2
  <2> QED
    BY <2>2, <2>3, <2>4
<1>4. CASE UNCHANGED vars
  BY <1>4 DEF vars, database, history, RunOK, Current
<1> QED
  BY <1>1, <1>2, <1>3, <1>4 DEF Next, Directions, SeedKinds

\* Types, and that a process is somewhere in the plan of its direction (Start, and
\* RunMigrations and SeedDB behind it), alone unless it runs up.
THEOREM Plans == Spec => []TypeInv
<1> QED
  BY TypeInit, TypeStep, PTL DEF Spec

-----------------------------------------------------------------------------
(* What a process is about to do.                                          *)

\* What Current is, by direction and place.
LEMMA Places ==
    ASSUME TypeInv, NEW p \in Runners, NEW c \in {"check", "execute", "record"}, Doing(p, c)
    PROVE  LET a == run[p].at
               d == run[p].direction IN
           /\ a \in Nat \ {0} /\ d \in Directions
           /\ \/ /\ d \in {"up", "other"} /\ a <= release
                 /\ Current(p) = [step |-> Up[a], tracked |-> d = "up"]
              \/ /\ d = "down" /\ a <= release
                 /\ Current(p) = [step |-> Down[release + 1 - a], tracked |-> FALSE]
              \/ d = "down" /\ a = release + 1 /\ Current(p) = [step |-> Clear, tracked |-> FALSE]
              \/ /\ d \in {"up", "other"} => a > release
                 /\ d = "down" => a > release + 1
                 /\ Fixture(Current(p))
<1>1. /\ run[p] # Idle /\ run[p].at \in Nat \ {0} /\ run[p].at \in 1..Len(run[p].plan)
  BY Going DEF TypeInv
<1>2. run[p].direction \in Directions /\ Planned(run[p].direction, run[p].plan, release)
  BY <1>1 DEF TypeInv, RunOK
<1> QED
  BY <1>1, <1>2 DEF Planned, Current

\* A tracked file is a shipped one of a run up, or a seed.
LEMMA TrackedPlaces ==
    ASSUME TypeInv, NEW p \in Runners, NEW c \in {"check", "execute", "record"}, Doing(p, c),
           Current(p).tracked
    PROVE  \/ /\ run[p].direction = "up" /\ run[p].at \in 1..release /\ run[p].at \in 1..Len(Up)
              /\ Current(p) = [step |-> Up[run[p].at], tracked |-> TRUE]
           \/ /\ run[p].direction = "up" => run[p].at > release
              /\ run[p].direction = "down" => run[p].at > release + 1
              /\ \E k \in DOMAIN Seeds : Current(p) = [step |-> Seeds[k], tracked |-> TRUE]
<1>1. release \in Nat /\ release <= Len(Up)
  BY FileFacts DEF TypeInv
<1>2. /\ run[p].at \in Nat \ {0}
      /\ \/ /\ run[p].direction \in {"up", "other"} /\ run[p].at <= release
            /\ Current(p) = [step |-> Up[run[p].at], tracked |-> run[p].direction = "up"]
         \/ Current(p).tracked = FALSE
         \/ /\ run[p].direction \in {"up", "other"} => run[p].at > release
            /\ run[p].direction = "down" => run[p].at > release + 1
            /\ Fixture(Current(p))
  BY Places
<1>3. CASE run[p].direction \in {"up", "other"} /\ run[p].at <= release
  <2> DEFINE cp == Current(p)
             up == [step |-> Up[run[p].at], tracked |-> run[p].direction = "up"]
  <2>1. ~(run[p].at > release)
    BY <1>1, <1>2, <1>3
  <2>2. cp = up \/ cp.tracked = FALSE
    BY <1>2, <1>3, <2>1
  <2>3. cp.tracked
    OBVIOUS
  <2>4. cp = up
    BY <2>2, <2>3
  <2> HIDE DEF cp
  <2>5. run[p].direction = "up"
    BY <2>3, <2>4
  <2>6. cp = [step |-> Up[run[p].at], tracked |-> TRUE]
    BY <2>4, <2>5
  <2>7. run[p].at \in 1..release /\ run[p].at \in 1..Len(Up)
    BY <1>1, <1>2, <1>3, FileFacts
  <2> QED
    BY <2>5, <2>6, <2>7 DEF cp
<1>4. CASE ~(run[p].direction \in {"up", "other"} /\ run[p].at <= release)
  <2>1. /\ run[p].direction \in {"up", "other"} => run[p].at > release
        /\ run[p].direction = "down" => run[p].at > release + 1
        /\ Fixture(Current(p))
    BY <1>1, <1>2, <1>4
  <2>2. \E k \in DOMAIN Seeds : Current(p) = [step |-> Seeds[k], tracked |-> TRUE]
    BY <2>1 DEF Fixture
  <2> QED
    BY <2>1, <2>2
<1> QED
  BY <1>3, <1>4

\* While nobody meddles, only tracked files are executed.
LEMMA Unmeddled ==
    ASSUME TypeInv, ~meddled, NEW p \in Runners, Doing(p, "execute")
    PROVE  Current(p).step = Forbidden \/ Current(p).tracked
<1>1. run[p] # Idle
  BY Going DEF TypeInv
<1>2. run[p].direction \in {"up", "none"}
  BY <1>1 DEF TypeInv, RunOK
<1>3. \/ /\ run[p].direction # "none"
         /\ Current(p) = [step |-> Up[run[p].at], tracked |-> run[p].direction = "up"]
      \/ Fixture(Current(p))
  BY <1>2, Places
<1>4. Fixture(Current(p)) => Current(p).step = Forbidden \/ Current(p).tracked
  BY DEF Fixture
<1>5. Current(p) = [step |-> Up[run[p].at], tracked |-> TRUE] => Current(p).tracked
  OBVIOUS
<1> QED
  BY <1>2, <1>3, <1>4, <1>5

-----------------------------------------------------------------------------
(* The schema is that of a number of files, and all but the last is recorded. *)

\* Here k files are recorded and n = k or n = k + 1 executed, and no run up is beyond
\* the first that is not recorded.
Ahead(n, k) ==
    /\ n \in 0..release /\ k \in 0..release /\ k \in {n, n - 1}
    /\ schema \ SeedThings = Built[n]
    /\ recorded \cap FirstNames(Len(Up)) = FirstNames(k)
    /\ \A p \in Runners :
         run[p].direction = "up" /\ run[p].at <= release =>
             /\ run[p].at <= k + 1
             /\ run[p].pc = "record" => run[p].at <= n

AheadInv == ~meddled => \E n, k \in Nat : Ahead(n, k)

\* A record is of the first k files just when its number is at most k.
LEMMA NamesInOrder ==
    ASSUME NEW a \in 1..Len(Up), NEW k \in 0..Len(Up)
    PROVE  Up[a].name \in FirstNames(k) <=> a <= k
<1>1. Len(Up) \in Nat /\ DOMAIN Up = 1..Len(Up)
  BY FileFacts
<1>2. ASSUME Up[a].name \in FirstNames(k) PROVE a <= k
  <2>1. PICK i \in 1..k : Up[i].name = Up[a].name
    BY <1>2 DEF FirstNames
  <2>2. i \in DOMAIN Up /\ a \in DOMAIN Up
    BY <1>1
  <2> QED
    BY <2>1, <2>2, FilesAssumption
<1>3. a <= k => a \in 1..k
  BY <1>1
<1> QED
  BY <1>2, <1>3 DEF FirstNames

\* Seeds make fixtures only, and have names of their own.
LEMMA SeedsApart ==
    ASSUME NEW k \in DOMAIN Seeds
    PROVE  /\ Seeds[k].name \notin FirstNames(Len(Up))
           /\ Seeds[k].makes \subseteq SeedThings /\ Seeds[k].drops = {}
           /\ \A i \in 1..Len(Up) : Up[i].makes \cap SeedThings = {}
<1>1. DOMAIN Up = 1..Len(Up)
  BY FileFacts
<1>2. Seeds[k].name \notin FirstNames(Len(Up))
  BY <1>1, FilesAssumption DEF FirstNames
<1>3. Seeds[k].makes \subseteq SeedThings
  BY DEF SeedThings
<1>4. \A i \in 1..Len(Up) : Up[i].makes \cap SeedThings = {}
  BY <1>1, FilesAssumption DEF SeedThings
<1> QED
  BY <1>2, <1>3, <1>4, FilesAssumption

\* What one file does to the schema, apart from the fixtures.
LEMMA OneFileMore ==
    ASSUME NEW n \in 1..Len(Up), NEW S,
           S \ SeedThings = Built[n - 1] \/ S \ SeedThings = Built[n]
    PROVE  ((S \cup Up[n].makes) \ Up[n].drops) \ SeedThings = Built[n]
<1>1. Built[n] = (Built[n - 1] \cup Up[n].makes) \ Up[n].drops
  BY BuiltLayers
<1>2. Up[n].makes \cap SeedThings = {}
  BY FileFacts, FilesAssumption DEF SeedThings
<1> HIDE DEF Built, SeedThings
<1>3. ((S \cup Up[n].makes) \ Up[n].drops) \ SeedThings
        = ((S \ SeedThings) \cup Up[n].makes) \ Up[n].drops
  BY <1>2
<1> QED
  BY <1>1, <1>3

\* Others neither start nor move, and nothing is lost of the state: Ahead goes on.
LEMMA AheadKept ==
    ASSUME TypeInv, NEW n \in Nat, NEW k \in Nat, Ahead(n, k), NEW p \in Runners, Moved(p),
           NEW m \in Nat, NEW j \in Nat, m \in n..release, j \in k..release, j \in {m, m - 1},
           schema' \ SeedThings = Built[m],
           recorded' \cap FirstNames(Len(Up)) = FirstNames(j),
           run'[p].direction = "up" /\ run'[p].at <= release =>
               /\ run'[p].at <= j + 1
               /\ run'[p].pc = "record" => run'[p].at <= m
    PROVE  Ahead(m, j)'
<1>1. release' = release /\ release \in Nat
  BY FileFacts DEF Moved, TypeInv
<1>2. ASSUME NEW q \in Runners, q # p, run'[q].direction = "up", run'[q].at <= release
      PROVE  run'[q].at <= j + 1 /\ (run'[q].pc = "record" => run'[q].at <= m)
  <2>1. run'[q] = run[q] /\ run[q].at \in Nat
    BY <1>2 DEF Moved, TypeInv, Process
  <2> QED
    BY <1>1, <1>2, <2>1 DEF Ahead
<1>3. m \in 0..release /\ j \in 0..release
  BY <1>1
<1>4. \A q \in Runners : run'[q].direction = "up" /\ run'[q].at <= release =>
          run'[q].at <= j + 1 /\ (run'[q].pc = "record" => run'[q].at <= m)
  BY <1>2
<1> HIDE DEF Built, SeedThings, FirstNames
<1> QED
  BY <1>1, <1>3, <1>4 DEF Ahead

\* A step that leaves schema and records as far as Ahead sees them keeps it.
LEMMA AheadQuiet ==
    ASSUME TypeInv, NEW n \in Nat, NEW k \in Nat, Ahead(n, k), NEW p \in Runners, Moved(p),
           schema' \ SeedThings = schema \ SeedThings,
           recorded' \cap FirstNames(Len(Up)) = recorded \cap FirstNames(Len(Up)),
           run'[p].direction = "up" /\ run'[p].at <= release =>
               /\ run'[p].at <= k + 1
               /\ run'[p].pc = "record" => run'[p].at <= n
    PROVE  Ahead(n, k)'
<1>1. /\ n \in n..release /\ k \in k..release /\ k \in {n, n - 1}
      /\ schema' \ SeedThings = Built[n]
      /\ recorded' \cap FirstNames(Len(Up)) = FirstNames(k)
  BY DEF Ahead
<1> QED
  BY <1>1, AheadKept

\* Check only skips what is recorded.
LEMMA AheadCheck ==
    ASSUME TypeInv, NEW n \in Nat, NEW k \in Nat, Ahead(n, k), NEW p \in Runners, Moved(p), Check(p)
    PROVE  Ahead(n, k)'
<1>1. Doing(p, "check") /\ schema' = schema /\ recorded' = recorded
  BY DEF Check, database
<1>2. /\ run \in [Runners -> Process] /\ release' = release
      /\ (~meddled' => ~meddled)
  BY DEF TypeInv, Moved
<1>3. CASE Current(p).tracked /\ Applied(p)
  <2>1. run'[p].at = run[p].at + 1 /\ run'[p].pc = "check" /\ run'[p].direction = run[p].direction
    BY <1>1, <1>2, <1>3, AdvanceMoves DEF Check
  <2>2. CASE run[p].direction = "up" /\ run[p].at \in 1..release /\ run[p].at \in 1..Len(Up)
             /\ Current(p) = [step |-> Up[run[p].at], tracked |-> TRUE]
    <3>1. Up[run[p].at].name \in recorded
      BY <1>3, <2>2 DEF Applied
    <3>2. Up[run[p].at].name \in FirstNames(Len(Up))
      BY <2>2, FileFacts DEF FirstNames
    <3>3. Up[run[p].at].name \in FirstNames(k)
      BY <3>1, <3>2 DEF Ahead
    <3>4. k \in 0..Len(Up)
      BY FileFacts DEF Ahead, TypeInv
    <3>5. run[p].at <= k
      BY <2>2, <3>3, <3>4, NamesInOrder
    <3>6. run'[p].at <= k + 1
      BY <2>1, <2>2, <3>5
    <3> QED
      BY <1>1, <2>1, <3>6, AheadQuiet
  <2>3. CASE run[p].direction = "up" => run[p].at > release
    <3>1. run[p].at \in Nat /\ release \in Nat
      BY <1>1, <1>2, Going, FileFacts DEF TypeInv
    <3>2. ~(run'[p].direction = "up" /\ run'[p].at <= release)
      BY <2>1, <2>3, <3>1
    <3> QED
      BY <1>1, <3>2, AheadQuiet
  <2> QED
    BY <1>1, <1>3, <2>2, <2>3, TrackedPlaces
<1>4. CASE ~(Current(p).tracked /\ Applied(p))
  <2>1. run'[p].at = run[p].at /\ run'[p].pc = "execute" /\ run'[p].direction = run[p].direction
    BY <1>1, <1>2, <1>4, GoToMoves DEF Check
  <2>2. run'[p].direction = "up" /\ run'[p].at <= release => run'[p].at <= k + 1
    BY <2>1 DEF Ahead
  <2> QED
    BY <1>1, <2>1, <2>2, AheadQuiet
<1> QED
  BY <1>3, <1>4

\* The file that is executed is the first that is not recorded.
LEMMA AheadExecute ==
    ASSUME TypeInv, NEW n \in Nat, NEW k \in Nat, Ahead(n, k), ~meddled', NEW p \in Runners,
           Moved(p), Execute(p)
    PROVE  \E m \in Nat : Ahead(m, k)'
<1> DEFINE f == Current(p).step
           a == run[p].at
<1>1. /\ Doing(p, "execute") /\ f \in Files /\ recorded' = recorded
      /\ schema' = (schema \cup Made(f)) \ f.drops
      /\ ~meddled /\ ~Raced(p)
  BY DEF Execute
<1>2. Current(p).tracked
  <2>1. f # Forbidden
    BY <1>1, FileFacts
  <2> QED
    BY <1>1, <2>1, Unmeddled
<1>3. run'[p].at = run[p].at /\ run'[p].pc = "record" /\ run'[p].direction = run[p].direction
  <2>1. GoTo(p, "record") /\ release' = release
    BY <1>2 DEF Execute
  <2> QED
    BY <1>1, <1>2, <2>1, GoToMoves DEF TypeInv
<1>4. release \in Nat /\ release <= Len(Up) /\ Len(Up) \in Nat /\ a \in Nat
  BY <1>1, Going, FileFacts DEF TypeInv
<1>5. ASSUME run[p].direction = "up", a \in 1..release, a \in 1..Len(Up), f = Up[a]
      PROVE  Ahead(k + 1, k)'
  <2>1. a <= k + 1
    BY <1>5, <1>4 DEF Ahead
  <2>2. Up[a].name \notin recorded
    BY <1>1, <1>2, <1>5 DEF Raced, Applied
  <2>3. k \in 0..Len(Up) /\ k \in 0..release /\ n \in 0..release /\ k \in {n, n - 1}
    BY <1>4 DEF Ahead
  <2>4. recorded \cap FirstNames(Len(Up)) = FirstNames(k)
    BY DEF Ahead
  <2>5. Up[a].name \notin FirstNames(k)
    BY <2>2, <2>4
  <2>6. a = k + 1
    BY <1>5, <2>1, <2>3, <2>5, NamesInOrder
  <2>7. n = a \/ n = a - 1
    BY <2>3, <2>6
  <2>8. schema \ SeedThings = Built[a - 1] \/ schema \ SeedThings = Built[a]
    BY <2>7 DEF Ahead
  <2>9. schema' \ SeedThings = Built[a]
    <3>1. a \in DOMAIN Up /\ Made(f) = Up[a].makes
      BY <1>5, FileFacts, FilesAssumption DEF Made
    <3> QED
      BY <1>1, <1>5, <2>8, <3>1, OneFileMore
  <2>10. schema' \ SeedThings = Built[k + 1]
    BY <2>6, <2>9
  <2>11. k + 1 \in Nat /\ k + 1 \in n..release /\ k \in k..release /\ k \in {k + 1, k + 1 - 1}
    BY <1>4, <1>5, <2>3, <2>6, <2>7
  <2>12. recorded' \cap FirstNames(Len(Up)) = FirstNames(k)
    BY <1>1, <2>4
  <2>13. run'[p].at <= k + 1
    BY <1>3, <1>4, <2>6
  <2>14. PICK m \in Nat : m = k + 1
    BY <2>11
  <2>15. m \in n..release /\ k \in {m, m - 1} /\ schema' \ SeedThings = Built[m]
    BY <2>10, <2>11, <2>14
  <2>16. run'[p].at <= m
    BY <2>13, <2>14
  <2>17. Ahead(m, k)'
    BY <2>11, <2>12, <2>13, <2>15, <2>16, AheadKept
  <2> QED
    BY <2>14, <2>17
<1>6. ASSUME NEW i \in DOMAIN Seeds, f = Seeds[i], run[p].direction = "up" => a > release
      PROVE  Ahead(n, k)'
  <2>1. schema' \ SeedThings = schema \ SeedThings
    <3>1. Made(f) \subseteq SeedThings /\ f.drops = {}
      BY <1>6, SeedsApart DEF Made
    <3> QED
      BY <1>1, <3>1
  <2>2. ~(run'[p].direction = "up" /\ run'[p].at <= release)
    BY <1>3, <1>4, <1>6
  <2> QED
    BY <1>1, <2>1, <2>2, AheadQuiet
<1>7. \/ run[p].direction = "up" /\ a \in 1..release /\ a \in 1..Len(Up) /\ f = Up[a]
      \/ (run[p].direction = "up" => a > release) /\ \E i \in DOMAIN Seeds : f = Seeds[i]
  BY <1>1, <1>2, TrackedPlaces
<1> QED
  <2>1. k + 1 \in Nat
    OBVIOUS
  <2> QED
    BY <1>5, <1>6, <1>7, <2>1

\* The fields of Idle.
LEMMA IdleDirection == Idle.direction = "" /\ Idle.pc = "idle" /\ Idle.at = 1
BY DEF Idle

\* The file that is recorded is the first that was not, and has been executed.
LEMMA AheadRecord ==
    ASSUME TypeInv, NEW n \in Nat, NEW k \in Nat, Ahead(n, k), NEW p \in Runners, Moved(p), Record(p)
    PROVE  \E j \in Nat : Ahead(n, j)'
<1> DEFINE name == Current(p).step.name
           a == run[p].at
           F == FirstNames(Len(Up))
<1>1. /\ Doing(p, "record") /\ schema' = schema /\ recorded' = recorded \cup {name}
      /\ release' = release /\ meddled' = meddled /\ run \in [Runners -> Process]
  BY DEF Record, TypeInv, history
<1>2. Current(p).tracked
  <2>1. run[p] # Idle /\ run[p].pc = "record"
    BY <1>1, Going
  <2> QED
    BY <2>1 DEF TypeInv, RunOK
<1>3. \/ name \in recorded /\ run'[p] = Idle
      \/ /\ name \notin recorded /\ run'[p].at = a + 1 /\ run'[p].pc = "check"
         /\ run'[p].direction = run[p].direction
  <2>1. IF name \in recorded THEN Die(p) ELSE Advance(p)
    BY DEF Record
  <2>2. Die(p) => run'[p] = Idle
    BY <1>1 DEF Die
  <2>3. Advance(p) => run'[p].at = a + 1 /\ run'[p].pc = "check"
                      /\ run'[p].direction = run[p].direction
    BY <1>1, AdvanceMoves
  <2> QED
    BY <2>1, <2>2, <2>3
<1>4. release \in Nat /\ release <= Len(Up) /\ Len(Up) \in Nat /\ a \in Nat
  BY <1>1, Going, FileFacts DEF TypeInv
<1>5. recorded \cap F = FirstNames(k) /\ k \in {n, n - 1} /\ n \in 0..release /\ k \in 0..release
  BY DEF Ahead
<1>6. ASSUME run[p].direction = "up", a \in 1..release, a \in 1..Len(Up), name = Up[a].name
      PROVE  \E j \in Nat : Ahead(n, j)'
  <2>1. a <= k + 1 /\ a <= n
    BY <1>1, <1>4, <1>6 DEF Ahead, Doing
  <2>2. name \in F
    BY <1>6 DEF FirstNames
  <2>3. CASE a <= k
    <3>1. name \in FirstNames(k)
      BY <1>4, <1>5, <1>6, <2>3, NamesInOrder
    <3>2. name \in recorded
      BY <1>5, <3>1
    <3>3. run'[p].direction # "up"
      BY <1>3, <3>2, IdleDirection
    <3>4. recorded' \cap F = recorded \cap F
      BY <1>1, <3>2
    <3> QED
      BY <1>1, <3>3, <3>4, AheadQuiet
  <2>4. CASE a = k + 1
    <3>1. n = k + 1
      BY <1>5, <2>1, <2>4
    <3>2. FirstNames(n) = FirstNames(k) \cup {name}
      <4>1. 1..n = (1..k) \cup {a}
        BY <2>4, <3>1
      <4> QED
        BY <1>6, <4>1 DEF FirstNames
    <3>3. recorded' \cap F = FirstNames(n)
      BY <1>1, <1>5, <2>2, <3>2
    <3>4. run'[p].direction = "up" => run'[p].at <= n + 1 /\ run'[p].pc # "record"
      <4>1. run'[p] = Idle => run'[p].direction # "up"
        BY IdleDirection
      <4>2. a + 1 <= n + 1
        BY <1>4, <2>4, <3>1
      <4> QED
        BY <1>3, <4>1, <4>2
    <3>5. n \in n..release /\ n \in k..release /\ schema' \ SeedThings = Built[n]
      BY <1>1, <1>5, <3>1 DEF Ahead
    <3>6. Ahead(n, n)'
      BY <3>3, <3>4, <3>5, AheadKept
    <3> QED
      BY <3>6
  <2> QED
    BY <1>4, <2>1, <2>3, <2>4
<1>7. ASSUME NEW i \in DOMAIN Seeds, name = Seeds[i].name, run[p].direction = "up" => a > release
      PROVE  Ahead(n, k)'
  <2>1. recorded' \cap F = recorded \cap F
    BY <1>1, <1>7, SeedsApart
  <2>2. ~(run'[p].direction = "up" /\ run'[p].at <= release)
    <3>1. run'[p] = Idle => run'[p].direction # "up"
      BY IdleDirection
    <3>2. run[p].direction = "up" => ~(a + 1 <= release)
      BY <1>4, <1>7
    <3> QED
      BY <1>3, <3>1, <3>2
  <2> QED
    BY <1>1, <2>1, <2>2, AheadQuiet
<1>8. \/ run[p].direction = "up" /\ a \in 1..release /\ a \in 1..Len(Up) /\ name = Up[a].name
      \/ (run[p].direction = "up" => a > release) /\ \E i \in DOMAIN Seeds : name = Seeds[i].name
  BY <1>1, <1>2, TrackedPlaces
<1> QED
  BY <1>6, <1>7, <1>8

\* The records are only cleared by a run down.
LEMMA ClearedDown ==
    ASSUME TypeInv, NEW p \in Runners, ClearRecords(p)
    PROVE  run[p].direction = "down" /\ run[p].at = release + 1 /\ meddled
<1>1. Doing(p, "execute") /\ Current(p).step = Clear
  BY DEF ClearRecords
<1>2. release \in Nat /\ release <= Len(Up) /\ run[p].at \in Nat \ {0}
  BY <1>1, Places, FileFacts DEF TypeInv
<1>3. /\ \A i \in 1..Len(Up) : Up[i] # Clear /\ Down[i] # Clear
      /\ \A i \in DOMAIN Seeds : Seeds[i] # Clear
      /\ Forbidden # Clear
  BY FileFacts, MigrationsAssumption
<1>4. ~Fixture(Current(p))
  BY <1>1, <1>3 DEF Fixture
<1>5. ~(run[p].at <= release /\ Current(p) = [step |-> Up[run[p].at], tracked |-> run[p].direction = "up"])
  <2>1. run[p].at <= release => Up[run[p].at] # Clear
    BY <1>2, <1>3, FileFacts
  <2> QED
    BY <1>1, <2>1
<1>6. ~(run[p].at <= release /\ Current(p) = [step |-> Down[release + 1 - run[p].at], tracked |-> FALSE])
  <2>1. run[p].at <= release => Down[release + 1 - run[p].at] # Clear
    BY <1>2, <1>3, FileFacts
  <2> QED
    BY <1>1, <2>1
<1>7. run[p].direction = "down" /\ run[p].at = release + 1
  BY <1>1, <1>4, <1>5, <1>6, Places
<1>8. run[p] # Idle
  BY <1>7, IdleDirection
<1> QED
  BY <1>7, <1>8 DEF TypeInv, RunOK

\* An empty database is what no file makes.
LEMMA AheadInit == Init => AheadInv
<1> SUFFICES ASSUME Init PROVE Ahead(0, 0)
  BY DEF AheadInv
<1>1. schema = {} /\ recorded = {} /\ release = 0 /\ run = [p \in Runners |-> Idle]
  BY DEF Init
<1>2. FirstNames(0) = {}
  BY DEF FirstNames
<1>3. \A p \in Runners : run[p].direction # "up"
  BY <1>1, IdleDirection
<1>4. schema \ SeedThings = Built[0]
  BY <1>1, BuiltLayers
<1> QED
  BY <1>1, <1>2, <1>3, <1>4 DEF Ahead

\* Every step keeps the schema that of the first files, and the records behind by one.
LEMMA AheadStep == TypeInv /\ AheadInv /\ [Next]_vars => AheadInv'
<1> SUFFICES ASSUME TypeInv, AheadInv, [Next]_vars, ~meddled' PROVE \E n, k \in Nat : Ahead(n, k)'
  BY DEF AheadInv
<1>1. CASE Deploy
  <2>1. /\ run' = run /\ schema' = schema /\ recorded' = recorded /\ meddled' = meddled
        /\ release' > release /\ release' \in Nat /\ release \in Nat
        /\ \A p \in Runners : run[p] = Idle
    BY <1>1, MigrationsAssumption, FileFacts DEF Deploy, database, history, TypeInv
  <2>2. PICK n \in Nat, k \in Nat : Ahead(n, k)
    BY <2>1 DEF AheadInv
  <2>3. n \in 0..release' /\ k \in 0..release'
    BY <2>1, <2>2 DEF Ahead
  <2>4. \A p \in Runners : run'[p].direction # "up"
    BY <2>1, IdleDirection
  <2> HIDE DEF Built, SeedThings, FirstNames
  <2>5. Ahead(n, k)'
    BY <2>1, <2>2, <2>3, <2>4 DEF Ahead
  <2> QED
    BY <2>5
<1>2. ASSUME NEW p \in Runners, NEW d \in Directions, NEW s \in SeedKinds, Start(p, d, s)
      PROVE  \E n, k \in Nat : Ahead(n, k)'
  <2>1. /\ schema' = schema /\ recorded' = recorded /\ release' = release /\ ~meddled
        /\ run' = [run EXCEPT ![p] = [pc |-> "check", direction |-> d,
                                      plan |-> Plan(d, s), at |-> 1]]
    BY <1>2 DEF Start, database
  <2>2. PICK n \in Nat, k \in Nat : Ahead(n, k)
    BY <2>1 DEF AheadInv
  <2>3. /\ run'[p].at = 1 /\ run'[p].pc = "check"
        /\ \A q \in Runners \ {p} : run'[q] = run[q]
    BY <2>1 DEF TypeInv
  <2>4. 1 <= k + 1
    BY <2>2
  <2> HIDE DEF Built, SeedThings, FirstNames
  <2>5. \A q \in Runners : run'[q].direction = "up" /\ run'[q].at <= release =>
          run'[q].at <= k + 1 /\ (run'[q].pc = "record" => run'[q].at <= n)
    BY <2>2, <2>3, <2>4 DEF Ahead
  <2>6. Ahead(n, k)'
    BY <2>1, <2>2, <2>5 DEF Ahead
  <2> QED
    BY <2>6
<1>3. ASSUME NEW p \in Runners, Step(p) \/ Kill(p) PROVE \E n, k \in Nat : Ahead(n, k)'
  <2>1. Moved(p) /\ ~meddled
    BY <1>3, StepMoves DEF Moved
  <2>2. PICK n \in Nat, k \in Nat : Ahead(n, k)
    BY <2>1 DEF AheadInv
  <2>3. CASE Check(p)
    BY <2>1, <2>2, <2>3, AheadCheck
  <2>4. CASE Execute(p)
    BY <2>1, <2>2, <2>4, AheadExecute
  <2>5. CASE Record(p)
    BY <2>1, <2>2, <2>5, AheadRecord
  <2>6. CASE ClearRecords(p)
    BY <2>1, <2>6, ClearedDown
  <2>7. CASE Fatal(p) \/ Finish(p) \/ Kill(p)
    <3>1. schema' = schema /\ recorded' = recorded /\ run' = [run EXCEPT ![p] = Idle]
      BY <2>7 DEF Fatal, Finish, Kill, Die, database
    <3>2. run'[p].direction # "up"
      BY <3>1, IdleDirection DEF TypeInv
    <3>3. Ahead(n, k)'
      BY <2>1, <2>2, <3>1, <3>2, AheadQuiet
    <3> QED
      BY <3>3
  <2> QED
    BY <1>3, <2>3, <2>4, <2>5, <2>6, <2>7 DEF Step
<1>4. CASE UNCHANGED vars
  <2>1. /\ run' = run /\ schema' = schema /\ recorded' = recorded /\ meddled' = meddled
        /\ release' = release
    BY <1>4 DEF vars, database, history
  <2>2. PICK n \in Nat, k \in Nat : Ahead(n, k)
    BY <2>1 DEF AheadInv
  <2> HIDE DEF Built, SeedThings, FirstNames
  <2>3. Ahead(n, k)'
    BY <2>1, <2>2 DEF Ahead
  <2> QED
    BY <2>3
<1> QED
  BY <1>1, <1>2, <1>3, <1>4 DEF Next, Directions, SeedKinds

\* AheadByOne: run up by one process at a time, killed or not, the schema is what the
\* first so many files make of an empty database and all but the last are recorded
\* (RunMigrations executes and then records; SeedDB adds fixtures only).
THEOREM NoGaps == Spec => []AheadByOne
<1>1. TypeInv /\ AheadInv => AheadByOne
  <2> SUFFICES ASSUME AheadInv, TypeInv, ~meddled
               PROVE  \E n \in 0..release :
                        /\ schema \ SeedThings = Built[n]
                        /\ recorded \cap FirstNames(Len(Up)) \in {FirstNames(n), FirstNames(n - 1)}
    BY DEF AheadByOne
  <2>1. PICK n \in Nat, k \in Nat : Ahead(n, k)
    BY DEF AheadInv
  <2> HIDE DEF Built, SeedThings, FirstNames
  <2> QED
    BY <2>1 DEF Ahead
<1> QED
  BY <1>1, TypeInit, TypeStep, AheadInit, AheadStep, PTL DEF Spec

-----------------------------------------------------------------------------
(* Rows that nothing guards are there at most once.                        *)

\* The file is recorded, or somebody is about to.
Recording(f) ==
    \/ f.name \in recorded
    \/ \E p \in Runners : run[p].pc = "record" /\ Current(p) = [step |-> f, tracked |-> TRUE]

OnceOnly(f, t) == copies[t] = 0 \/ (copies[t] = 1 /\ Recording(f))

CopiesInv ==
    ~meddled => \A f \in Files : f.name \notin lost => \A t \in f.fills : OnceOnly(f, t)

\* A file stays recorded, or about to be, while others move.
LEMMA RecordingKept ==
    ASSUME NEW f \in Files, Recording(f), recorded \subseteq recorded', NEW p \in Runners,
           run[p].pc # "record", \A q \in Runners \ {p} : run'[q] = run[q]
    PROVE  Recording(f)'
<1>1. CASE f.name \in recorded
  BY <1>1 DEF Recording
<1>2. ASSUME NEW q \in Runners, run[q].pc = "record", Current(q) = [step |-> f, tracked |-> TRUE]
      PROVE  Recording(f)'
  <2>1. run'[q] = run[q]
    BY <1>2
  <2>2. Current(q)' = Current(q)
    BY <2>1 DEF Current
  <2> QED
    BY <1>2, <2>1, <2>2 DEF Recording
<1> QED
  BY <1>1, <1>2 DEF Recording

\* A file that is not about to be recorded does not have its rows.
LEMMA OnceExecute ==
    ASSUME TypeInv, ~meddled', NEW p \in Runners, Execute(p), Moved(p),
           NEW f \in Files, NEW t \in f.fills, OnceOnly(f, t)
    PROVE  OnceOnly(f, t)'
<1> DEFINE g == Current(p).step
<1>1. /\ Doing(p, "execute") /\ g \in Files /\ recorded' = recorded /\ ~meddled /\ ~Raced(p)
      /\ copies' = [u \in Things |-> IF u \in g.drops THEN 0
                                     ELSE IF u \in g.fills THEN copies[u] + 1 ELSE copies[u]]
  BY DEF Execute
<1>2. t \in Things
  BY FileFacts DEF Shape
<1>3. run[p].pc # "record" /\ \A q \in Runners \ {p} : run'[q] = run[q]
  BY <1>1 DEF Doing, Moved
<1>4. CASE g # f
  <2>1. t \notin g.fills
    BY <1>1, <1>4, FilesAssumption
  <2>2. copies'[t] = 0 \/ copies'[t] = copies[t]
    BY <1>1, <1>2, <2>1
  <2>3. Recording(f) => Recording(f)'
    BY <1>1, <1>3, RecordingKept
  <2> QED
    BY <2>2, <2>3 DEF OnceOnly
<1>5. CASE g = f
  <2>1. Current(p) \in Item
    BY <1>1, Going DEF TypeInv
  <2>2. Current(p).tracked
    <3>1. g # Forbidden
      BY <1>1, FileFacts
    <3> QED
      BY <1>1, <3>1, Unmeddled
  <2>3. Current(p) = [step |-> f, tracked |-> TRUE]
    BY <1>5, <2>1, <2>2 DEF Item
  <2>4. ~Recording(f)
    <3>1. f.name \notin recorded
      BY <1>1, <1>5, <2>2 DEF Raced, Applied
    <3>2. ASSUME NEW q \in Runners, run[q].pc = "record", Current(q) = [step |-> f, tracked |-> TRUE]
          PROVE  FALSE
      <4>1. q # p
        BY <1>3, <3>2
      <4>2. run[q] # Idle
        BY <3>2, IdleDirection
      <4>3. run[q].at <= Len(run[q].plan)
        BY <3>2, <4>2 DEF TypeInv, RunOK
      <4>4. Doing(q, "record") /\ Current(q) = Current(p)
        BY <2>3, <3>2, <4>3 DEF Doing
      <4> QED
        BY <1>1, <2>2, <4>1, <4>4 DEF Raced
    <3> QED
      BY <3>1, <3>2 DEF Recording
  <2>5. copies[t] = 0
    BY <2>4 DEF OnceOnly
  <2>6. copies'[t] \in {0, 1}
    BY <1>1, <1>2, <2>5
  <2>7. Recording(f)'
    <3>1. GoTo(p, "record") /\ release' = release
      BY <2>2 DEF Execute
    <3>2. run'[p].pc = "record" /\ run'[p].at = run[p].at /\ run'[p].plan = run[p].plan
      BY <1>1, <2>2, <3>1, GoToMoves DEF TypeInv
    <3>3. Current(p)' = Current(p)
      BY <3>2 DEF Current
    <3> QED
      BY <2>3, <3>2, <3>3 DEF Recording
  <2> QED
    BY <2>6, <2>7 DEF OnceOnly
<1> QED
  BY <1>4, <1>5

\* Initially there are no rows.
LEMMA CopiesInit == Init => CopiesInv
<1> SUFFICES ASSUME Init, NEW f \in Files, NEW t \in f.fills PROVE OnceOnly(f, t)
  BY DEF CopiesInv
<1>1. t \in Things
  BY FileFacts DEF Shape
<1> QED
  BY <1>1 DEF Init, OnceOnly

\* Every step keeps unguarded rows from being there twice, but for what a kill lost.
LEMMA CopiesStep == TypeInv /\ CopiesInv /\ [Next]_vars => CopiesInv'
<1> SUFFICES ASSUME TypeInv, CopiesInv, [Next]_vars, ~meddled',
                    NEW f \in Files, f.name \notin lost', NEW t \in f.fills
             PROVE  OnceOnly(f, t)'
  BY DEF CopiesInv
<1>1. CASE Deploy \/ UNCHANGED vars
  <2>1. /\ run' = run /\ copies' = copies /\ recorded' = recorded
        /\ lost' = lost /\ meddled' = meddled
    BY <1>1 DEF Deploy, vars, database, history
  <2>2. Recording(f)' = Recording(f)
    BY <2>1 DEF Recording, Current
  <2>3. OnceOnly(f, t)
    BY <2>1 DEF CopiesInv
  <2> QED
    BY <2>1, <2>2, <2>3 DEF OnceOnly
<1>2. ASSUME NEW p \in Runners, NEW d \in Directions, NEW s \in SeedKinds, Start(p, d, s)
      PROVE  OnceOnly(f, t)'
  <2>1. /\ copies' = copies /\ recorded' = recorded /\ lost' = lost /\ ~meddled
        /\ run[p] = Idle /\ \A q \in Runners \ {p} : run'[q] = run[q]
    <3>1. run \in [Runners -> Process]
      BY DEF TypeInv
    <3> QED
      BY <1>2, <3>1 DEF Start, database
  <2>2. run[p].pc # "record"
    BY <2>1, IdleDirection
  <2>3. Recording(f) => Recording(f)'
    BY <2>1, <2>2, RecordingKept
  <2>4. OnceOnly(f, t)
    BY <2>1 DEF CopiesInv
  <2> QED
    BY <2>1, <2>3, <2>4 DEF OnceOnly
<1>3. ASSUME NEW p \in Runners, Step(p) \/ Kill(p) PROVE OnceOnly(f, t)'
  <2>1. Moved(p) /\ ~meddled
    BY <1>3, StepMoves DEF Moved
  <2>2. \A q \in Runners \ {p} : run'[q] = run[q]
    BY <2>1 DEF Moved
  <2>3. lost \subseteq lost'
    <3>1. CASE Kill(p)
      BY <3>1 DEF Kill
    <3>2. CASE Step(p)
      <4>1. lost' = lost
        BY <3>2 DEF Step, Check, Execute, Fatal, Record, ClearRecords, Finish, history
      <4> QED
        BY <4>1
    <3> QED
      BY <1>3, <3>1, <3>2
  <2>4. OnceOnly(f, t)
    BY <2>1, <2>3 DEF CopiesInv
  <2>5. CASE Execute(p)
    BY <2>1, <2>4, <2>5, OnceExecute
  <2>6. CASE Check(p) \/ Fatal(p) \/ Finish(p)
    <3>1. copies' = copies /\ recorded' = recorded /\ run[p].pc # "record"
      BY <2>6 DEF Check, Fatal, Finish, Done, Doing, database
    <3>2. Recording(f) => Recording(f)'
      BY <2>2, <3>1, RecordingKept
    <3> QED
      BY <2>4, <3>1, <3>2 DEF OnceOnly
  <2>7. CASE Record(p)
    <3>1. copies' = copies /\ recorded' = recorded \cup {Current(p).step.name}
      BY <2>7 DEF Record
    <3>2. ASSUME Recording(f) PROVE Recording(f)'
      <4>1. CASE Current(p) = [step |-> f, tracked |-> TRUE]
        <5>1. f.name \in recorded'
          BY <3>1, <4>1
        <5> QED
          BY <5>1 DEF Recording
      <4>2. CASE f.name \in recorded
        BY <3>1, <4>2 DEF Recording
      <4>3. ASSUME NEW q \in Runners \ {p}, run[q].pc = "record",
                   Current(q) = [step |-> f, tracked |-> TRUE]
            PROVE  Recording(f)'
        <5>1. run'[q] = run[q]
          BY <2>2
        <5>2. Current(q)' = Current(q)
          BY <5>1 DEF Current
        <5> QED
          BY <4>3, <5>1, <5>2 DEF Recording
      <4> QED
        BY <3>2, <4>1, <4>2, <4>3 DEF Recording
    <3> QED
      BY <2>4, <3>1, <3>2 DEF OnceOnly
  <2>8. CASE ClearRecords(p)
    BY <2>1, <2>8, ClearedDown
  <2>9. CASE Kill(p)
    <3>1. /\ copies' = copies /\ recorded' = recorded
          /\ run[p].pc = "record" => Current(p).step.name \in lost'
      BY <2>9 DEF Kill, database
    <3>2. ASSUME Recording(f) PROVE Recording(f)'
      <4>1. CASE run[p].pc = "record"
        <5>1. Current(p) # [step |-> f, tracked |-> TRUE]
          BY <3>1, <4>1
        <5>2. CASE f.name \in recorded
          BY <3>1, <5>2 DEF Recording
        <5>3. ASSUME NEW q \in Runners \ {p}, run[q].pc = "record",
                     Current(q) = [step |-> f, tracked |-> TRUE]
              PROVE  Recording(f)'
          <6>1. run'[q] = run[q]
            BY <2>2
          <6>2. Current(q)' = Current(q)
            BY <6>1 DEF Current
          <6> QED
            BY <5>3, <6>1, <6>2 DEF Recording
        <5> QED
          BY <3>2, <5>1, <5>2, <5>3 DEF Recording
      <4>2. CASE run[p].pc # "record"
        BY <2>2, <3>1, <3>2, <4>2, RecordingKept
      <4> QED
        BY <4>1, <4>2
    <3> QED
      BY <2>4, <3>1, <3>2 DEF OnceOnly
  <2> QED
    BY <1>3, <2>5, <2>6, <2>7, <2>8, <2>9 DEF Step
<1> QED
  BY <1>1, <1>2, <1>3 DEF Next, Directions, SeedKinds

\* DuplicatesNeedALoss: rows are inserted twice only when a process died between
\* executing their file and recording it (RunMigrations, SeedDB).
THEOREM InsertedOnce == Spec => []DuplicatesNeedALoss
<1>1. CopiesInv => DuplicatesNeedALoss
  <2> SUFFICES ASSUME CopiesInv, ~meddled, NEW f \in Files, NEW t \in Things,
                      t \in f.fills, copies[t] > 1, f.name \notin lost
               PROVE  FALSE
    BY DEF DuplicatesNeedALoss
  <2>1. OnceOnly(f, t)
    BY DEF CopiesInv
  <2> QED
    BY <2>1 DEF OnceOnly
<1> QED
  BY <1>1, TypeInit, TypeStep, CopiesInit, CopiesStep, PTL DEF Spec

-----------------------------------------------------------------------------
(* A run down empties the schema from its last file to its first.          *)

\* At each place of a run down, the files that are left drop what is left.
DownAt(p) ==
    run[p].direction = "down" =>
        /\ run[p].pc # "record"
        /\ run[p].at <= release + 1 => schema \subseteq Dropped(release + 1 - run[p].at)
        /\ run[p].at > release + 1 => schema = {} /\ recorded = {}

DownInv ==
    /\ schema \subseteq Dropped(release)
    /\ \A p \in Runners : DownAt(p)

\* More files drop more.
LEMMA DroppedGrows ==
    ASSUME NEW m \in Nat, NEW n \in Nat, m <= n
    PROVE  Dropped(m) \subseteq Dropped(n)
<1>1. 1..m \subseteq 1..n
  OBVIOUS
<1> QED
  BY <1>1 DEF Dropped

\* The last of the files drops what is not dropped by the others.
LEMMA DroppedBefore ==
    ASSUME NEW n \in Nat \ {0}, NEW S, S \subseteq Dropped(n)
    PROVE  S \ Down[n].drops \subseteq Dropped(n - 1)
<1>1. 1..n = (1..(n - 1)) \cup {n}
  OBVIOUS
<1> QED
  BY <1>1 DEF Dropped

\* What any file that can be executed makes, the shipped files drop.
LEMMA MadeIsDropped ==
    ASSUME TypeInv, DownInv, NEW p \in Runners, Execute(p)
    PROVE  schema' \subseteq Dropped(release)
<1> DEFINE f == Current(p).step
           a == run[p].at
<1>1. /\ Doing(p, "execute") /\ f \in Files /\ f.needs \subseteq schema
      /\ schema' = (schema \cup Made(f)) \ f.drops
      /\ Made(f) \subseteq f.makes
  BY DEF Execute, Works, Made
<1>2. release \in Nat /\ release <= Len(Up) /\ Len(Up) \in Nat /\ a \in Nat \ {0}
  BY <1>1, Places, FileFacts DEF TypeInv
<1>3. schema \subseteq Dropped(release)
  BY DEF DownInv
<1>4. SUFFICES f.makes \subseteq Dropped(release)
  BY <1>1, <1>3
<1>5. ASSUME NEW i \in 1..release PROVE Up[i].makes \cup Down[i].makes \subseteq Dropped(release)
  <2>1. i \in DOMAIN Up
    BY <1>2, FileFacts
  <2>2. Dropped(i) \subseteq Dropped(release)
    BY <1>2, DroppedGrows
  <2> QED
    BY <2>1, <2>2, FilesAssumption
<1>6. ASSUME NEW i \in DOMAIN Seeds, f = Seeds[i] PROVE f.makes \subseteq Dropped(release)
  <2>1. f.needs \subseteq Dropped(release) /\ release \in 0..Len(Up)
    BY <1>1, <1>2, <1>3
  <2> QED
    BY <1>6, <2>1, FilesAssumption
<1>7. f # Clear /\ f # Forbidden
  BY <1>1, FileFacts
<1>8. \/ a <= release /\ f = Up[a]
      \/ a <= release /\ f = Down[release + 1 - a]
      \/ \E i \in DOMAIN Seeds : f = Seeds[i]
  BY <1>1, <1>7, Places DEF Fixture
<1>9. a <= release => a \in 1..release /\ release + 1 - a \in 1..release
  BY <1>2
<1> QED
  BY <1>5, <1>6, <1>8, <1>9

\* Nothing but the files of a run down itself goes on while it is under way.
LEMMA DownAlone ==
    ASSUME TypeInv, NEW p \in Runners, Moved(p), run[p] # Idle, NEW q \in Runners \ {p}
    PROVE  DownAt(q)'
<1>1. run[q].direction = "down" => run[q] # Idle /\ run[q].direction # "up"
  BY IdleDirection
<1>2. run[q].direction # "down"
  BY <1>1 DEF TypeInv, RunOK
<1>3. run'[q] = run[q]
  BY DEF Moved
<1> QED
  BY <1>2, <1>3 DEF DownAt

\* One file of a run down leaves no more than the files before it drop.
LEMMA DownExecute ==
    ASSUME TypeInv, DownInv, NEW p \in Runners, Moved(p), Execute(p)
    PROVE  DownAt(p)'
<1> DEFINE f == Current(p).step
           a == run[p].at
<1> SUFFICES ASSUME run'[p].direction = "down" PROVE DownAt(p)'
  BY DEF DownAt
<1>1. /\ Doing(p, "execute") /\ f \in Files /\ f.needs \subseteq schema
      /\ schema' = (schema \cup Made(f)) \ f.drops /\ release' = release
      /\ Made(f) \subseteq f.makes
  BY DEF Execute, Works, Made
<1>2. release \in Nat /\ release <= Len(Up) /\ Len(Up) \in Nat /\ a \in Nat \ {0}
  BY <1>1, Places, FileFacts DEF TypeInv
<1>3. run[p].direction = "down"
  BY IdleDirection DEF Moved
<1>4. f # Clear /\ f # Forbidden
  BY <1>1, FileFacts
<1>5. ASSUME a > release + 1, NEW i \in DOMAIN Seeds, f = Seeds[i] PROVE FALSE
  <2>1. schema = {}
    BY <1>3, <1>5 DEF DownInv, DownAt
  <2> QED
    BY <1>1, <1>5, <2>1, FilesAssumption
<1>6. a <= release /\ Current(p) = [step |-> Down[release + 1 - a], tracked |-> FALSE]
  <2>1. \/ a <= release /\ Current(p) = [step |-> Down[release + 1 - a], tracked |-> FALSE]
        \/ a = release + 1 /\ f = Clear
        \/ a > release + 1 /\ Fixture(Current(p))
    BY <1>1, <1>3, Places
  <2>2. Fixture(Current(p)) => \E i \in DOMAIN Seeds : f = Seeds[i]
    BY <1>4 DEF Fixture
  <2> QED
    BY <1>4, <1>5, <2>1, <2>2
<1> DEFINE i == release + 1 - a
<1>7. i \in 1..Len(Up) /\ i - 1 \in Nat /\ i \in Nat \ {0}
  BY <1>2, <1>6
<1>8. schema \subseteq Dropped(i)
  BY <1>2, <1>3, <1>6 DEF DownInv, DownAt
<1>9. f = Down[i] /\ Down[i].makes \subseteq Dropped(i)
  BY <1>6, <1>7, FileFacts, FilesAssumption
<1>10. schema' \subseteq Dropped(i - 1)
  <2>1. schema \cup f.makes \subseteq Dropped(i)
    BY <1>8, <1>9
  <2>2. (schema \cup f.makes) \ Down[i].drops \subseteq Dropped(i - 1)
    BY <1>7, <2>1, DroppedBefore
  <2> QED
    BY <1>1, <1>9, <2>2
<1>11. run'[p].at = a + 1 /\ run'[p].pc = "check"
  <2>1. ~Current(p).tracked
    BY <1>6
  <2>2. Advance(p)
    BY <2>1 DEF Execute
  <2> QED
    BY <1>1, <2>2, AdvanceMoves DEF TypeInv, Moved
<1>12. release' + 1 - run'[p].at = i - 1 /\ ~(run'[p].at > release' + 1)
  BY <1>1, <1>2, <1>6, <1>11
<1> QED
  BY <1>10, <1>11, <1>12 DEF DownAt

\* Initially there is nothing to drop.
LEMMA DownInit == Init => DownInv
<1> SUFFICES ASSUME Init PROVE DownInv
  OBVIOUS
<1>1. \A p \in Runners : run[p].direction # "down"
  BY IdleDirection DEF Init
<1> QED
  BY <1>1 DEF Init, DownInv, DownAt

\* Every step keeps a run down as far as its place says.
LEMMA DownStep == TypeInv /\ DownInv /\ [Next]_vars => DownInv'
<1> SUFFICES ASSUME TypeInv, DownInv, [Next]_vars PROVE DownInv'
  OBVIOUS
<1>1. CASE Deploy
  <2>1. /\ run' = run /\ schema' = schema /\ release' > release
        /\ release' \in Nat /\ release \in Nat
        /\ \A p \in Runners : run[p] = Idle
    BY <1>1, MigrationsAssumption, FileFacts DEF Deploy, database, TypeInv
  <2>2. schema' \subseteq Dropped(release')
    BY <2>1, DroppedGrows DEF DownInv
  <2>3. \A p \in Runners : DownAt(p)'
    BY <2>1, IdleDirection DEF DownAt
  <2>4. (schema \subseteq Dropped(release))'
    BY <2>2 DEF Dropped
  <2> QED
    BY <2>3, <2>4 DEF DownInv
<1>2. ASSUME NEW p \in Runners, NEW d \in Directions, NEW s \in SeedKinds, Start(p, d, s)
      PROVE  DownInv'
  <2>1. /\ schema' = schema /\ recorded' = recorded /\ release' = release
        /\ run' = [run EXCEPT ![p] = [pc |-> "check", direction |-> d,
                                      plan |-> Plan(d, s), at |-> 1]]
        /\ schema \subseteq Dropped(release) /\ release \in Nat
    BY <1>2, FileFacts DEF Start, database, DownInv, TypeInv
  <2>2. /\ run'[p].at = 1 /\ run'[p].pc = "check"
        /\ \A q \in Runners \ {p} : run'[q] = run[q]
    BY <2>1 DEF TypeInv
  <2>3. release + 1 - 1 = release /\ ~(1 > release + 1)
    BY <2>1
  <2>4. DownAt(p)'
    BY <2>1, <2>2, <2>3 DEF DownAt
  <2>5. ASSUME NEW q \in Runners \ {p} PROVE DownAt(q)'
    BY <2>1, <2>2 DEF DownInv, DownAt
  <2> QED
    BY <2>1, <2>4, <2>5 DEF DownInv
<1>3. ASSUME NEW p \in Runners, Step(p) \/ Kill(p) PROVE DownInv'
  <2>1. Moved(p)
    BY <1>3, StepMoves
  <2>2. run[p] # Idle
    BY <1>3, IdleDirection
       DEF Step, Check, Execute, Fatal, Record, ClearRecords, Finish, Kill, Done, Doing
  <2>3. \A q \in Runners \ {p} : DownAt(q)'
    BY <2>1, <2>2, DownAlone
  <2>4. release' = release /\ release \in Nat /\ run[p].at \in Nat
    <3>1. release \in Nat
      BY FileFacts DEF TypeInv
    <3>2. run[p] \in Process
      BY DEF TypeInv
    <3> QED
      BY <2>1, <3>1, <3>2 DEF Moved, Process
  <2>5. SUFFICES schema' \subseteq Dropped(release) /\ DownAt(p)'
    BY <2>3, <2>4 DEF DownInv
  <2>6. schema \subseteq Dropped(release) /\ DownAt(p)
    BY DEF DownInv
  <2>7. CASE Check(p)
    <3>1. Doing(p, "check") /\ schema' = schema /\ recorded' = recorded
      BY <2>7 DEF Check, database
    <3>2. CASE Current(p).tracked /\ Applied(p)
      <4>1. run'[p].at = run[p].at + 1 /\ run'[p].pc = "check" /\ run'[p].direction = run[p].direction
        BY <2>1, <2>7, <3>1, <3>2, AdvanceMoves DEF Check, TypeInv, Moved
      <4>2. run[p].direction = "down" => run[p].at > release + 1
        BY <3>1, <3>2, TrackedPlaces
      <4>3. recorded # {}
        BY <3>2 DEF Applied
      <4>4. run[p].direction # "down"
        BY <2>6, <4>2, <4>3 DEF DownAt
      <4> QED
        BY <2>6, <3>1, <4>1, <4>4 DEF DownAt
    <3>3. CASE ~(Current(p).tracked /\ Applied(p))
      <4>1. run'[p].at = run[p].at /\ run'[p].pc = "execute" /\ run'[p].direction = run[p].direction
        BY <2>1, <2>7, <3>1, <3>3, GoToMoves DEF Check, TypeInv, Moved
      <4> QED
        BY <2>4, <2>6, <3>1, <4>1 DEF DownAt
    <3> QED
      BY <3>2, <3>3
  <2>8. CASE Execute(p)
    BY <2>1, <2>8, DownExecute, MadeIsDropped
  <2>9. CASE Record(p)
    <3>1. Doing(p, "record") /\ schema' = schema
      BY <2>9 DEF Record
    <3>2. run[p].direction # "down"
      BY <2>6, <3>1 DEF DownAt, Doing
    <3>3. run'[p].direction # "down"
      BY <2>1, <3>2, IdleDirection DEF Moved
    <3> QED
      BY <2>6, <3>1, <3>3 DEF DownAt
  <2>10. CASE ClearRecords(p)
    <3>1. /\ Doing(p, "execute") /\ schema' = schema /\ recorded' = {}
          /\ run[p].direction = "down" /\ run[p].at = release + 1
      BY <2>10, ClearedDown DEF ClearRecords, Cleared
    <3>2. run'[p].at = run[p].at + 1 /\ run'[p].pc = "check"
      BY <2>1, <2>10, <3>1, AdvanceMoves DEF ClearRecords, TypeInv, Moved
    <3>3. release + 1 - run[p].at = 0 /\ run[p].at <= release + 1
      BY <2>4, <3>1
    <3>4. schema \subseteq Dropped(0)
      BY <2>6, <3>1, <3>3 DEF DownAt
    <3>5. schema = {}
      BY <3>4 DEF Dropped
    <3>6. ~(run'[p].at <= release' + 1)
      BY <2>4, <3>1, <3>2
    <3> QED
      BY <2>6, <3>1, <3>2, <3>5, <3>6 DEF DownAt
  <2>11. CASE Fatal(p) \/ Finish(p) \/ Kill(p)
    <3>1. schema' = schema /\ run' = [run EXCEPT ![p] = Idle]
      BY <2>11 DEF Fatal, Finish, Kill, Die, database
    <3>2. run'[p].direction # "down"
      BY <3>1, IdleDirection DEF TypeInv
    <3> QED
      BY <2>6, <3>1, <3>2 DEF DownAt
  <2> QED
    BY <1>3, <2>7, <2>8, <2>9, <2>10, <2>11 DEF Step
<1>4. CASE UNCHANGED vars
  <2>1. run' = run /\ schema' = schema /\ recorded' = recorded /\ release' = release
    BY <1>4 DEF vars, database
  <2> QED
    BY <2>1 DEF DownInv, DownAt
<1> QED
  BY <1>1, <1>2, <1>3, <1>4 DEF Next, Directions, SeedKinds

\* DownEmpties: a run down that got to its end has left no schema and no records,
\* whatever was half done before it (RunMigrations with direction down).
THEOREM EmptiedByDown == Spec => []DownEmpties
<1>1. TypeInv /\ DownInv => DownEmpties
  <2> SUFFICES ASSUME TypeInv, DownInv, NEW p \in Runners, Done(p), run[p].direction = "down"
               PROVE  schema = {} /\ recorded = {}
    BY DEF DownEmpties
  <2>1. run[p] # Idle
    BY IdleDirection
  <2>2. Planned("down", run[p].plan, release)
    BY <2>1 DEF TypeInv, RunOK
  <2>3. /\ Len(run[p].plan) > release /\ Len(run[p].plan) \in Nat
        /\ release \in Nat /\ run[p].at \in Nat
    <3>1. release \in Nat
      BY FileFacts DEF TypeInv
    <3>2. run[p] \in Process
      BY DEF TypeInv
    <3>3. run[p].plan \in Seq(Item) /\ Len(run[p].plan) > release
      BY <2>2 DEF Planned
    <3> QED
      BY <3>1, <3>2, <3>3, LenProperties DEF Process
  <2>4. run[p].at > release + 1
    BY <2>3 DEF Done
  <2> QED
    BY <2>4 DEF DownInv, DownAt
<1> QED
  BY <1>1, TypeInit, TypeStep, DownInit, DownStep, PTL DEF Spec
=============================================================================
