--------------------------- MODULE PriceSync_proofs ---------------------------
(* What is proved of prices.  The bound of the token bucket, for every        *)
(* capacity, refill interval and length of the behaviour; that the bound      *)
(* holds for the loop and the clicks together, who pay for their requests     *)
(* with it; which cards a 204 has left unchecked; and that the pages agree on *)
(* the checks of PriceHistory, however these overlap, fail, are edited and    *)
(* deleted.                                                                   *)
EXTENDS PriceSync, PriceHistory, FiniteSetTheorems, WellFoundedInduction, TLAPS

-----------------------------------------------------------------------------
(* The limiter.                                                            *)

\* The bound with what the bucket holds added to what it has handed out: a token
\* moves from the one to the other, and a tick adds one to both sides at most.
StockBound ==
    \A t \in 0..now :
        Interval * (granted - before[t]) + Refilled <= Full + (now - t)

LimiterInv == LimiterTypeOK /\ StockBound

\* A bucketful is a natural number of ticks, and at least one token.
LEMMA FullSize == Full \in Nat /\ Full >= Interval
<1>1. Capacity * Interval \in Nat
  BY RateLimiterAssumption
<1>2. Capacity * Interval >= 1 * Interval
  <2>1. (Capacity - 1) * Interval \in Nat
    BY RateLimiterAssumption
  <2>2. Capacity * Interval = (Capacity - 1) * Interval + Interval
    BY RateLimiterAssumption
  <2> QED
    BY <2>1, <2>2, RateLimiterAssumption
<1> QED
  BY <1>1, <1>2, RateLimiterAssumption DEF Full

\* One more token costs one more interval.
LEMMA OneMore ==
    ASSUME NEW g \in Nat, NEW b \in Nat
    PROVE  Interval * ((g + 1) - b) = Interval * (g - b) + Interval
BY RateLimiterAssumption

\* What the bucket holds is between nothing and a bucketful.
LEMMA RefilledRange ==
    ASSUME LimiterTypeOK
    PROVE  Refilled \in 0..Full
BY FullSize DEF LimiterTypeOK, Refilled, Overfilled

\* Every step preserves the types.
LEMMA LimiterTypeStep ==
    ASSUME LimiterTypeOK, [LimiterNext]_limiter
    PROVE  LimiterTypeOK'
<1> USE FullSize, RefilledRange, RateLimiterAssumption
<1> Full' = Full
  BY DEF Full
<1>1. CASE TokenTaken
  BY <1>1 DEF TokenTaken, LimiterTypeOK
<1>2. CASE TokenRefused
  BY <1>2 DEF TokenRefused, LimiterTypeOK
<1>3. CASE LimiterRestart
  BY <1>3 DEF LimiterRestart, LimiterTypeOK
<1>4. CASE LimiterTick
  BY <1>4 DEF LimiterTick, LimiterTypeOK
<1>5. CASE UNCHANGED limiter
  BY <1>5 DEF limiter, LimiterTypeOK
<1> QED
  BY <1>1, <1>2, <1>3, <1>4, <1>5 DEF LimiterNext

\* Every step preserves the stronger bound.
LEMMA LimiterBoundStep ==
    ASSUME LimiterTypeOK, StockBound, [LimiterNext]_limiter
    PROVE  StockBound'
<1> USE FullSize, RefilledRange, RateLimiterAssumption
<1> Full' = Full
  BY DEF Full
<1> LimiterTypeOK'
  BY LimiterTypeStep
<1> SUFFICES ASSUME NEW t \in 0..now'
             PROVE  Interval * (granted' - before'[t]) + Refilled' <= Full + (now' - t)
  BY DEF StockBound
<1>1. CASE TokenTaken
  <2>1. Refilled' = Refilled - Interval
    BY <1>1 DEF TokenTaken, Refilled, Overfilled, LimiterTypeOK
  <2>2. t \in 0..now /\ before[t] \in Nat /\ granted \in Nat
    BY <1>1 DEF TokenTaken, LimiterTypeOK
  <2>3. Interval * (granted' - before'[t]) = Interval * (granted - before[t]) + Interval
    BY <1>1, <2>2, OneMore DEF TokenTaken
  <2>4. Interval * (granted - before[t]) \in Int
    BY <2>2
  <2>5. Interval * (granted - before[t]) + Refilled <= Full + (now - t)
    BY <2>2 DEF StockBound
  <2> QED
    BY <1>1, <2>1, <2>2, <2>3, <2>4, <2>5 DEF TokenTaken
<1>2. CASE TokenRefused
  <2>1. Refilled' = Refilled
    BY <1>2 DEF TokenRefused, Refilled, Overfilled, LimiterTypeOK
  <2>2. Interval * (granted - before[t]) + Refilled <= Full + (now - t)
    BY <1>2 DEF TokenRefused, StockBound
  <2> QED
    BY <1>2, <2>1, <2>2 DEF TokenRefused
<1>3. CASE LimiterRestart
  <2>1. now' = now /\ t \in 0..now /\ granted' = 0 /\ before'[t] = 0
    BY <1>3 DEF LimiterRestart
  <2>2. Interval * (granted' - before'[t]) = 0
    BY <2>1
  <2>3. Refilled' \in 0..Full
    BY <1>3 DEF LimiterRestart, Refilled, Overfilled, LimiterTypeOK
  <2>4. Refilled' <= Full + (now' - t)
    BY <2>1, <2>3 DEF LimiterTypeOK
  <2> QED
    BY <2>2, <2>3, <2>4
<1>4. CASE LimiterTick
  <2>1. Refilled' <= Refilled + 1 /\ Refilled' <= Full /\ Refilled' \in Int
    BY <1>4 DEF LimiterTick, Refilled, Overfilled, LimiterTypeOK
  <2>2. CASE t = now'
    <3>1. granted' - before'[t] = 0
      BY <1>4, <2>2 DEF LimiterTick, LimiterTypeOK
    <3>2. Interval * (granted' - before'[t]) = 0
      BY <3>1
    <3> QED
      BY <2>1, <2>2, <3>2 DEF LimiterTypeOK
  <2>3. CASE t # now'
    <3>1. t \in 0..now /\ before'[t] = before[t] /\ granted' = granted
      BY <1>4, <2>3 DEF LimiterTick, LimiterTypeOK
    <3>2. Interval * (granted - before[t]) \in Int
      BY <3>1 DEF LimiterTypeOK
    <3>3. Interval * (granted - before[t]) + Refilled <= Full + (now - t)
      BY <3>1 DEF StockBound
    <3>4. Interval * (granted' - before'[t]) = Interval * (granted - before[t])
      BY <3>1
    <3>5. now' = now + 1 /\ now \in Int /\ t \in Int
      BY <1>4, <3>1 DEF LimiterTick, LimiterTypeOK
    <3> QED
      BY <2>1, <3>2, <3>3, <3>4, <3>5
  <2> QED
    BY <2>2, <2>3
<1>5. CASE UNCHANGED limiter
  BY <1>5 DEF limiter, StockBound, Refilled, Overfilled
<1> QED
  BY <1>1, <1>2, <1>3, <1>4, <1>5 DEF LimiterNext

\* The initial bucket satisfies the invariant.
LEMMA LimiterInitInv == LimiterInit => LimiterInv
<1> SUFFICES ASSUME LimiterInit PROVE LimiterInv
  OBVIOUS
<1>1. LimiterTypeOK
  BY FullSize DEF LimiterInit, LimiterTypeOK
<1>2. Refilled = Full
  BY FullSize DEF LimiterInit, Refilled, Overfilled
<1>3. ASSUME NEW t \in 0..now
      PROVE  Interval * (granted - before[t]) + Refilled <= Full + (now - t)
  <2>1. now = 0 /\ t = 0 /\ granted = 0 /\ before[0] = 0
    BY DEF LimiterInit
  <2>2. Interval * (granted - before[t]) = 0
    BY <2>1, RateLimiterAssumption
  <2> QED
    BY <1>2, <2>1, <2>2, FullSize
<1> QED
  BY <1>1, <1>3 DEF LimiterInv, StockBound

\* The stronger invariant holds throughout.
THEOREM LimiterInvariant == LimiterSpec => []LimiterInv
<1>1. LimiterInv /\ [LimiterNext]_limiter => LimiterInv'
  BY LimiterTypeStep, LimiterBoundStep DEF LimiterInv
<1> QED
  BY LimiterInitInv, <1>1, PTL DEF LimiterSpec

\* Within any stretch of a process's life the bucket hands out at most a bucketful
\* and the refill of that stretch.
THEOREM BucketBounded == LimiterSpec => []BucketBound
<1>1. LimiterInv => BucketBound
  <2> SUFFICES ASSUME LimiterInv, NEW t \in 0..now
               PROVE  Interval * (granted - before[t]) <= Full + (now - t)
    BY DEF BucketBound
  <2>1. Interval * (granted - before[t]) \in Int
    BY RateLimiterAssumption DEF LimiterInv, LimiterTypeOK
  <2>2. Interval * (granted - before[t]) + Refilled <= Full + (now - t)
    BY DEF LimiterInv, StockBound
  <2> QED
    BY <2>1, <2>2, RefilledRange, FullSize DEF LimiterInv, LimiterTypeOK
<1> QED
  BY LimiterInvariant, <1>1, PTL

\* The clock and the bucket are well typed.
THEOREM LimiterTypeCorrect == LimiterSpec => []LimiterTypeOK
<1>1. LimiterInv => LimiterTypeOK
  BY DEF LimiterInv
<1> QED
  BY LimiterInvariant, <1>1, PTL

-----------------------------------------------------------------------------
(* The loop and the clicks.                                                *)

\* Every step of the program is a step of the limiter, or leaves it alone.
LEMMA StepUsesLimiter ==
    ASSUME [Next]_vars
    PROVE  [LimiterNext]_limiter
<1>1. ASSUME NEW s \in Syncers, SyncURL(s)
      PROVE  [LimiterNext]_limiter
  <2>1. CASE ListCards(s)
    BY <2>1 DEF ListCards
  <2>2. CASE Acquire(s)
    BY <2>2 DEF Acquire, LimiterNext
  <2>3. CASE Fetched(s) \/ FetchFails(s) \/ GiveUp(s)
    BY <2>3 DEF Fetched, FetchFails, GiveUp
  <2>4. CASE \E c \in Cards : Record(s, c)
    BY <2>4 DEF Record
  <2> QED
    BY <1>1, <2>1, <2>2, <2>3, <2>4 DEF SyncURL
<1>2. CASE \E s \in Clicks, c \in Cards : Click(s, c)
  BY <1>2 DEF Click
<1>3. CASE StartPass \/ SyncAll
  BY <1>3 DEF StartPass, SyncAll, NextUrl, EndPass
<1>4. CASE \E c \in Cards, u \in Urls : SetSource(c, u)
  BY <1>4 DEF SetSource
<1>5. CASE Time \/ Restart
  BY <1>5 DEF Time, Restart, LimiterNext
<1>6. CASE UNCHANGED vars
  BY <1>6 DEF vars
<1> QED
  BY <1>1, <1>2, <1>3, <1>4, <1>5, <1>6 DEF Next

\* So the bound of the bucket holds for the loop and the clicks together.
THEOREM SyncersBounded == Spec => []BucketBound
<1>1. Init => LimiterInit
  BY DEF Init
<1> QED
  BY <1>1, StepUsesLimiter, BucketBounded, PTL DEF Spec, LimiterSpec

-----------------------------------------------------------------------------

\* A syncer without locals has the type of one.
LEMMA NoLocalsType == NoLocals \in Locals
BY PriceSyncAssumption DEF NoLocals, Locals

\* SyncURL ends in an answer or sends the loop on, and its locals are gone.
LEMMA AnswerType ==
    ASSUME TypeOK, NEW s \in Syncers, NEW result \in Answers, Answer(s, result)
    PROVE  pc' \in [Syncers -> PC] /\ loc' \in [Syncers -> Locals]
BY NoLocalsType DEF TypeOK, Answer, Answers, PC

\* Every step preserves the types.
LEMMA TypeStep ==
    ASSUME TypeOK, [Next]_vars
    PROVE  TypeOK'
<1> USE PriceSyncAssumption
<1> LimiterTypeOK'
  BY StepUsesLimiter, LimiterTypeStep DEF TypeOK
<1>1. ASSUME NEW s \in Syncers, SyncURL(s)
      PROVE  TypeOK'
  <2>0. ASSUME NEW result \in Answers, Answer(s, result)
        PROVE  pc' \in [Syncers -> PC] /\ loc' \in [Syncers -> Locals]
    BY <2>0, AnswerType
  <2>1. CASE ListCards(s)
    <3>1. CASE pc' = [pc EXCEPT ![s] = "acquire"]
               /\ loc' = [loc EXCEPT ![s].todo = CardsOf(loc[s].url)]
      BY <2>1, <3>1 DEF ListCards, TypeOK, pass, clicked, PC, Locals, CardsOf
    <3>2. CASE Answer(s, "ok") \/ Answer(s, "failed")
      <4>1. "ok" \in Answers /\ "failed" \in Answers
        BY DEF Answers
      <4>2. pc' \in [Syncers -> PC] /\ loc' \in [Syncers -> Locals]
        BY <2>0, <3>2, <4>1
      <4> QED
        BY <2>1, <4>2 DEF ListCards, TypeOK, pass, clicked
    <3> QED
      BY <2>1, <3>1, <3>2 DEF ListCards
  <2>2. CASE Acquire(s)
    <3>1. CASE pc' = [pc EXCEPT ![s] = "fetch"] /\ loc' = [loc EXCEPT ![s].attempt = 1]
      <4>1. loc' \in [Syncers -> Locals]
        BY <3>1 DEF TypeOK, Locals
      <4> QED
        BY <2>2, <3>1, <4>1 DEF Acquire, TypeOK, pass, clicked, PC
    <3>2. CASE Answer(s, "limited")
      BY <2>0, <2>2, <3>2 DEF Acquire, TypeOK, pass, clicked, Answers
    <3> QED
      BY <2>2, <3>1, <3>2 DEF Acquire
  <2>3. CASE Fetched(s)
    BY <2>3 DEF Fetched, TypeOK, PC, pass, clicked
  <2>4. CASE FetchFails(s)
    <3>1. CASE LastAttempt(s)
      BY <2>0, <2>4, <3>1 DEF FetchFails, TypeOK, pass, clicked, Answers
    <3>2. CASE ~LastAttempt(s)
      <4>1. loc' \in [Syncers -> Locals]
        <5>1. loc[s] \in Locals
          BY DEF TypeOK
        <5>2. loc[s].attempt + 1 \in 0..MaxFetchAttempts
          BY <3>2, <5>1 DEF LastAttempt, Locals
        <5>3. [loc[s] EXCEPT !.attempt = loc[s].attempt + 1] \in Locals
          BY <5>1, <5>2 DEF Locals
        <5>4. loc' = [loc EXCEPT ![s] = [loc[s] EXCEPT !.attempt = loc[s].attempt + 1]]
          BY <2>4, <3>2 DEF FetchFails, TypeOK
        <5> QED
          BY <5>3, <5>4 DEF TypeOK
      <4> QED
        BY <2>4, <3>2, <4>1 DEF FetchFails, TypeOK, pass, clicked
    <3> QED
      BY <3>1, <3>2
  <2>5. ASSUME NEW c \in Cards, Record(s, c)
        PROVE  TypeOK'
    <3>1. pc' \in [Syncers -> PC] /\ loc' \in [Syncers -> Locals]
      <4>1. CASE Answer(s, "ok")
        BY <2>0, <4>1 DEF Answers
      <4>2. CASE loc' = [loc EXCEPT ![s].todo = @ \ {c}] /\ UNCHANGED pc
        BY <4>2 DEF TypeOK, Locals
      <4> QED
        BY <2>5, <4>1, <4>2 DEF Record, CardDone
    <3>2. owed' \in [Clicks -> SUBSET Cards] /\ skipped' \in [Clicks -> SUBSET Cards]
      <4>1. CASE /\ owed' = [k \in Clicks |-> IF k = s THEN owed[k] \ {c} ELSE owed[k]]
                 /\ UNCHANGED skipped
        BY <4>1 DEF TypeOK
      <4>2. CASE /\ skipped' = [k \in Clicks |-> IF k = s THEN skipped[k] \cup {c} ELSE skipped[k]]
                 /\ UNCHANGED owed
        <5>1. \A k \in Clicks : skipped'[k] \in SUBSET Cards
          BY <4>2 DEF TypeOK
        <5> QED
          BY <4>2, <5>1 DEF TypeOK
      <4> QED
        BY <2>5, <4>1, <4>2 DEF Record
    <3> QED
      BY <2>5, <3>1, <3>2 DEF Record, TypeOK, pass, clicked
  <2>6. CASE GiveUp(s)
    BY <2>0, <2>6 DEF GiveUp, TypeOK, pass, clicked, Answers
  <2> QED
    BY <1>1, <2>1, <2>2, <2>3, <2>4, <2>5, <2>6 DEF SyncURL
<1>2. ASSUME NEW s \in Clicks, NEW c \in Cards, Click(s, c)
      PROVE  TypeOK'
  <2> s \in Syncers
    BY DEF Syncers
  <2>1. CASE Answer(s, "notFound") /\ UNCHANGED owed
    BY <1>2, <2>1, AnswerType DEF Click, TypeOK, pass, clicked, Answers
  <2>2. CASE /\ pc' = [pc EXCEPT ![s] = "list"]
             /\ loc' = [loc EXCEPT ![s].card = c, ![s].url = source[c]]
             /\ owed' = [owed EXCEPT ![s] = CardsOf(source[c])]
    <3>1. [loc[s] EXCEPT !.card = c, !.url = source[c]] \in Locals
      BY DEF TypeOK, Locals
    <3>2. loc' \in [Syncers -> Locals]
      BY <2>2, <3>1 DEF TypeOK
    <3>3. owed' \in [Clicks -> SUBSET Cards]
      <4>1. CardsOf(source[c]) \in SUBSET Cards
        BY DEF CardsOf
      <4>2. owed \in [Clicks -> SUBSET Cards]
        BY DEF TypeOK
      <4> QED
        BY <2>2, <4>1, <4>2
    <3>4. pc' \in [Syncers -> PC]
      BY <2>2 DEF TypeOK, PC
    <3> QED
      BY <1>2, <3>2, <3>3, <3>4 DEF Click, TypeOK, pass
  <2> QED
    BY <1>2, <2>1, <2>2 DEF Click
<1>3. CASE StartPass
  <2>1. pc' \in [Syncers -> PC]
    BY <1>3 DEF StartPass, TypeOK, PC
  <2>2. Configured \in SUBSET Urls
    BY DEF TypeOK, Configured
  <2>3. passes' \in 0..MaxPasses
    BY <1>3, PriceSyncAssumption DEF StartPass, TypeOK
  <2> QED
    BY <1>3, <2>1, <2>2, <2>3 DEF StartPass, TypeOK, limiter, LimiterTypeOK, clicked
<1>4. CASE SyncAll
  <2>1. ASSUME NEW u \in Urls, NextUrl(u)
        PROVE  TypeOK'
    <3>1. [loc[Loop] EXCEPT !.url = u] \in Locals
      BY DEF TypeOK, Locals, Syncers
    <3>2. loc' \in [Syncers -> Locals]
      BY <2>1, <3>1 DEF NextUrl, TypeOK
    <3>3. pc' \in [Syncers -> PC] /\ queue' \subseteq Urls /\ tried' \subseteq Urls
      BY <2>1 DEF NextUrl, Rest, TypeOK, PC
    <3> QED
      BY <2>1, <3>2, <3>3 DEF NextUrl, TypeOK, clicked
  <2>2. CASE EndPass
    BY <2>2 DEF EndPass, TypeOK, PC, pass, clicked
  <2> QED
    BY <1>4, <2>1, <2>2 DEF SyncAll
<1>5. ASSUME NEW c \in Cards, NEW u \in Urls, SetSource(c, u)
      PROVE  TypeOK'
  <2>1. owed' \in [Clicks -> SUBSET Cards]
    BY <1>5 DEF SetSource, TypeOK
  <2> QED
    BY <1>5, <2>1 DEF SetSource, TypeOK, pass, clicked
<1>6. CASE Time
  BY <1>6 DEF Time, TypeOK, pass, clicked
<1>7. CASE Restart
  BY <1>7, NoLocalsType DEF Restart, TypeOK, PC, Answers, clicked
<1>8. CASE UNCHANGED vars
  BY <1>8 DEF vars, TypeOK, pass, clicked
<1> QED
  BY <1>1, <1>2, <1>3, <1>4, <1>5, <1>6, <1>7, <1>8 DEF Next

\* So does the initial state.
LEMMA TypeInit == Init => TypeOK
<1> SUFFICES ASSUME Init PROVE TypeOK
  OBVIOUS
<1>1. LimiterTypeOK
  BY LimiterInitInv DEF Init, LimiterInv
<1>2. loc \in [Syncers -> Locals]
  BY NoLocalsType DEF Init
<1> QED
  BY <1>1, <1>2, PriceSyncAssumption DEF Init, TypeOK, PC

\* Every state is well typed.
THEOREM TypeCorrect == Spec => []TypeOK
BY TypeInit, TypeStep, PTL DEF Spec

-----------------------------------------------------------------------------

\* Where a click stands with the cards it owes a check: until the page's cards are
\* listed each of them still shares the click's page; afterwards each is among the
\* cards to do or was skipped.
Owing(s) ==
    /\ pc[s] = "list" => owed[s] \subseteq CardsOf(loc[s].url)
    /\ pc[s] \in {"acquire", "fetch", "record"} =>
          owed[s] \subseteq loc[s].todo \cup skipped[s]
    /\ pc[s] = "ok" => owed[s] \subseteq skipped[s]

OwedInv == TypeOK /\ \A s \in Clicks : Owing(s)

\* A step that leaves a click and its cards' pages alone owes no more than before.
LEMMA OthersOweNothing ==
    ASSUME TypeOK, NEW q \in Clicks, Owing(q),
           pc'[q] = pc[q], loc'[q] = loc[q], source' = source,
           owed'[q] = owed[q], skipped'[q] = skipped[q]
    PROVE  Owing(q)'
BY DEF Owing, CardsOf

\* Nobody's answer is anybody else's.
LEMMA AnswerEffect ==
    ASSUME TypeOK, NEW s \in Syncers, NEW q \in Clicks, NEW result, Answer(s, result)
    PROVE  IF s = q THEN pc'[q] = result ELSE pc'[q] = pc[q] /\ loc'[q] = loc[q]
BY PriceSyncAssumption DEF Answer, TypeOK, Syncers

\* One step of SyncURL by another syncer.
LEMMA OtherSyncOwing ==
    ASSUME TypeOK, NEW s \in Syncers, SyncURL(s), NEW q \in Clicks, s # q, Owing(q)
    PROVE  Owing(q)'
<1> q \in Syncers
  BY DEF Syncers
<1>0. ASSUME NEW result, Answer(s, result)
      PROVE  pc'[q] = pc[q] /\ loc'[q] = loc[q]
  BY <1>0, AnswerEffect
<1>1. pc'[q] = pc[q] /\ loc'[q] = loc[q]
  <2>1. CASE ListCards(s)
    BY <1>0, <2>1 DEF ListCards, TypeOK
  <2>2. CASE Acquire(s)
    BY <1>0, <2>2 DEF Acquire, TypeOK
  <2>3. CASE Fetched(s)
    BY <2>3 DEF Fetched, TypeOK
  <2>4. CASE FetchFails(s)
    BY <1>0, <2>4 DEF FetchFails, TypeOK
  <2>5. CASE \E c \in Cards : Record(s, c)
    BY <1>0, <2>5 DEF Record, CardDone, TypeOK
  <2>6. CASE GiveUp(s)
    BY <1>0, <2>6 DEF GiveUp, TypeOK
  <2> QED
    BY <2>1, <2>2, <2>3, <2>4, <2>5, <2>6 DEF SyncURL
<1>2. source' = source
  BY DEF SyncURL, ListCards, Acquire, Fetched, FetchFails, Record, GiveUp
<1>3. owed'[q] = owed[q] /\ skipped'[q] = skipped[q]
  BY DEF SyncURL, ListCards, Acquire, Fetched, FetchFails, Record, GiveUp, clicked
<1> QED
  BY <1>1, <1>2, <1>3, OthersOweNothing

\* One step of SyncURL by the click itself.
LEMMA OwnSyncOwing ==
    ASSUME TypeOK, NEW q \in Clicks, SyncURL(q), Owing(q)
    PROVE  Owing(q)'
<1> q \in Syncers
  BY DEF Syncers
<1>0. ASSUME NEW result, Answer(q, result)
      PROVE  pc'[q] = result
  BY <1>0, AnswerEffect
<1>1. CASE ListCards(q)
  <2>1. pc[q] = "list" /\ owed' = owed /\ skipped' = skipped
    BY <1>1 DEF ListCards, clicked
  <2>2. owed[q] \subseteq CardsOf(loc[q].url)
    BY <2>1 DEF Owing
  <2>3. CASE CardsOf(loc[q].url) = {} /\ Answer(q, "ok")
    BY <1>0, <2>1, <2>2, <2>3 DEF Owing
  <2>4. CASE Answer(q, "failed")
    BY <1>0, <2>4 DEF Owing
  <2>5. CASE pc' = [pc EXCEPT ![q] = "acquire"]
             /\ loc' = [loc EXCEPT ![q].todo = CardsOf(loc[q].url)]
    <3>1. pc'[q] = "acquire" /\ loc'[q].todo = CardsOf(loc[q].url)
      BY <2>5 DEF TypeOK, Locals
    <3> QED
      BY <2>1, <2>2, <3>1 DEF Owing
  <2> QED
    BY <1>1, <2>3, <2>4, <2>5 DEF ListCards
<1>2. CASE Acquire(q)
  <2>1. CASE Answer(q, "limited")
    BY <1>0, <2>1 DEF Owing
  <2>2. CASE loc' = [loc EXCEPT ![q].attempt = 1] /\ pc' = [pc EXCEPT ![q] = "fetch"]
    <3>1. pc'[q] = "fetch" /\ loc'[q].todo = loc[q].todo
      BY <2>2 DEF TypeOK, Locals
    <3> QED
      BY <1>2, <3>1 DEF Acquire, Owing, clicked
  <2> QED
    BY <1>2, <2>1, <2>2 DEF Acquire
<1>3. CASE Fetched(q)
  BY <1>3 DEF Fetched, TypeOK, Owing, clicked
<1>4. CASE FetchFails(q)
  <2>1. CASE Answer(q, "failed")
    BY <1>0, <2>1 DEF Owing
  <2>2. CASE loc' = [loc EXCEPT ![q].attempt = @ + 1] /\ UNCHANGED pc
    <3>1. pc'[q] = "fetch" /\ loc'[q].todo = loc[q].todo
      BY <1>4, <2>2 DEF FetchFails, TypeOK, Locals
    <3> QED
      BY <1>4, <3>1 DEF FetchFails, Owing, clicked
  <2> QED
    BY <1>4, <2>1, <2>2 DEF FetchFails
<1>5. ASSUME NEW c \in Cards, Record(q, c)
      PROVE  Owing(q)'
  <2>1. pc[q] = "record" /\ owed[q] \subseteq loc[q].todo \cup skipped[q]
    BY <1>5 DEF Record, Owing
  <2>2. \/ owed'[q] = owed[q] \ {c} /\ skipped'[q] = skipped[q]
        \/ owed'[q] = owed[q] /\ skipped'[q] = skipped[q] \cup {c}
    BY <1>5 DEF Record
  <2>3. owed'[q] \subseteq (loc[q].todo \ {c}) \cup skipped'[q]
    BY <2>1, <2>2
  <2>4. CASE loc[q].todo = {c} /\ Answer(q, "ok")
    BY <1>0, <2>3, <2>4 DEF Owing
  <2>5. CASE loc' = [loc EXCEPT ![q].todo = @ \ {c}] /\ UNCHANGED pc
    <3>1. loc'[q].todo = loc[q].todo \ {c}
      BY <2>5 DEF TypeOK, Locals
    <3> QED
      BY <2>1, <2>3, <2>5, <3>1 DEF Owing
  <2> QED
    BY <1>5, <2>4, <2>5 DEF Record, CardDone
<1>6. CASE GiveUp(q)
  BY <1>0, <1>6 DEF GiveUp, Owing
<1> QED
  BY <1>1, <1>2, <1>3, <1>4, <1>5, <1>6 DEF SyncURL

\* Every step preserves the invariant.
LEMMA OwedStep ==
    ASSUME OwedInv, [Next]_vars
    PROVE  OwedInv'
<1> USE PriceSyncAssumption
<1> TypeOK /\ TypeOK'
  BY TypeStep DEF OwedInv
<1> SUFFICES ASSUME NEW q \in Clicks
             PROVE  Owing(q)'
  BY DEF OwedInv
<1> Owing(q) /\ q \in Syncers /\ q # Loop
  BY DEF OwedInv, Syncers
<1>1. ASSUME NEW s \in Syncers, SyncURL(s)
      PROVE  Owing(q)'
  BY <1>1, OwnSyncOwing, OtherSyncOwing
<1>2. ASSUME NEW s \in Clicks, NEW c \in Cards, Click(s, c)
      PROVE  Owing(q)'
  <2> s \in Syncers
    BY DEF Syncers
  <2>1. source' = source /\ skipped' = skipped
    BY <1>2 DEF Click
  <2>2. CASE Answer(s, "notFound") /\ UNCHANGED owed
    <3>1. IF s = q THEN pc'[q] = "notFound" ELSE pc'[q] = pc[q] /\ loc'[q] = loc[q]
      BY <2>2, AnswerEffect
    <3> QED
      BY <2>1, <2>2, <3>1, OthersOweNothing DEF Owing
  <2>3. CASE /\ pc' = [pc EXCEPT ![s] = "list"]
             /\ loc' = [loc EXCEPT ![s].card = c, ![s].url = source[c]]
             /\ owed' = [owed EXCEPT ![s] = CardsOf(source[c])]
    <3>1. CASE s = q
      <4>1. pc'[q] = "list" /\ loc'[q].url = source[c] /\ owed'[q] = CardsOf(source[c])
        BY <2>3, <3>1 DEF TypeOK, Locals
      <4> QED
        BY <2>1, <4>1 DEF Owing, CardsOf
    <3>2. CASE s # q
      BY <2>1, <2>3, <3>2, OthersOweNothing DEF TypeOK
    <3> QED
      BY <3>1, <3>2
  <2> QED
    BY <1>2, <2>2, <2>3 DEF Click
<1>3. CASE StartPass \/ SyncAll
  <2>1. pc'[q] = pc[q] /\ loc'[q] = loc[q] /\ UNCHANGED clicked /\ source' = source
    BY <1>3 DEF StartPass, SyncAll, NextUrl, EndPass, TypeOK
  <2> QED
    BY <2>1, OthersOweNothing DEF clicked
<1>4. ASSUME NEW c \in Cards, NEW u \in Urls, SetSource(c, u)
      PROVE  Owing(q)'
  <2>1. pc'[q] = pc[q] /\ loc'[q] = loc[q] /\ skipped'[q] = skipped[q]
    BY <1>4 DEF SetSource
  <2>2. owed'[q] = IF pc[q] = "list" THEN owed[q] \ {c} ELSE owed[q]
    BY <1>4 DEF SetSource
  <2>3. \A d \in Cards : source'[d] = source[d] \/ d = c
    BY <1>4 DEF SetSource, TypeOK
  <2> QED
    BY <2>1, <2>2, <2>3 DEF Owing, CardsOf
<1>5. CASE Time
  BY <1>5, OthersOweNothing DEF Time, clicked
<1>6. CASE Restart
  <2>1. pc'[q] = (IF pc[q] \in Answers THEN pc[q] ELSE "failed") /\ UNCHANGED clicked
    BY <1>6 DEF Restart
  <2> QED
    BY <2>1 DEF Owing, Answers, clicked
<1>7. CASE UNCHANGED vars
  BY <1>7, OthersOweNothing DEF vars
<1> QED
  BY <1>1, <1>2, <1>3, <1>4, <1>5, <1>6, <1>7 DEF Next

\* A click is answered 204 only when every card that shared its page was checked, or
\* its recording was tried and failed, or it was edited before the page was listed.
THEOREM OkChecked == Spec => []OkMeansChecked
<1>1. Init => TypeOK
  BY TypeInit
<1>2. Init => \A s \in Clicks : Owing(s)
  BY DEF Init, Owing, Syncers
<1>3. Init => OwedInv
  BY <1>1, <1>2 DEF OwedInv
<1>4. OwedInv => OkMeansChecked
  BY DEF OwedInv, Owing, OkMeansChecked
<1> QED
  BY <1>3, <1>4, OwedStep, PTL DEF Spec


-----------------------------------------------------------------------------

\* Every url the running pass set out to visit is tried or still in the queue.
PassInv == TypeOK /\ planned \subseteq tried \cup queue

\* No step of SyncURL ends the pass, or touches its progress.
LEMMA SyncKeepsPass ==
    ASSUME TypeOK, NEW s \in Syncers, SyncURL(s)
    PROVE  UNCHANGED pass /\ (pc[Loop] # "idle" => pc'[Loop] # "idle")
<1> Loop \in Syncers
  BY DEF Syncers
<1>0. ASSUME NEW result, Answer(s, result)
      PROVE  pc[Loop] # "idle" => pc'[Loop] # "idle"
  BY <1>0 DEF Answer, TypeOK
<1>1. CASE ListCards(s)
  BY <1>0, <1>1 DEF ListCards, TypeOK
<1>2. CASE Acquire(s)
  BY <1>0, <1>2 DEF Acquire, TypeOK
<1>3. CASE Fetched(s)
  BY <1>3 DEF Fetched, TypeOK
<1>4. CASE FetchFails(s)
  BY <1>0, <1>4 DEF FetchFails
<1>5. CASE \E c \in Cards : Record(s, c)
  BY <1>0, <1>5 DEF Record, CardDone
<1>6. CASE GiveUp(s)
  BY <1>0, <1>6 DEF GiveUp
<1> QED
  BY <1>1, <1>2, <1>3, <1>4, <1>5, <1>6 DEF SyncURL

\* Every step preserves the invariant, and only EndPass and Restart end a pass.
LEMMA PassStep ==
    ASSUME PassInv, [Next]_vars
    PROVE  /\ PassInv'
           /\ pc[Loop] # "idle" /\ pc'[Loop] = "idle" => planned \subseteq tried \/ Restart
<1> Loop \in Syncers
  BY DEF Syncers
<1> TypeOK /\ TypeOK'
  BY TypeStep DEF PassInv
<1>1. ASSUME NEW s \in Syncers, SyncURL(s)
      PROVE  UNCHANGED pass /\ (pc[Loop] # "idle" => pc'[Loop] # "idle")
  BY <1>1, SyncKeepsPass
<1>2. ASSUME NEW s \in Clicks, NEW c \in Cards, Click(s, c)
      PROVE  UNCHANGED pass /\ pc'[Loop] = pc[Loop]
  <2>1. s # Loop
    BY PriceSyncAssumption
  <2> QED
    BY <1>2, <2>1 DEF Click, Answer, TypeOK
<1>3. CASE StartPass
  BY <1>3 DEF StartPass, PassInv, TypeOK
<1>4. ASSUME NEW u \in Urls, NextUrl(u)
      PROVE  planned' \subseteq tried' \cup queue' /\ pc'[Loop] # "idle"
  BY <1>4 DEF NextUrl, Rest, PassInv, TypeOK
<1>5. CASE EndPass
  BY <1>5 DEF EndPass, PassInv
<1>6. CASE (\E c \in Cards, u \in Urls : SetSource(c, u)) \/ Time
  BY <1>6 DEF SetSource, Time, PassInv, pass
<1>7. CASE Restart
  BY <1>7 DEF Restart, PassInv
<1>8. CASE UNCHANGED vars
  BY <1>8 DEF vars, PassInv, pass
<1> QED
  BY <1>1, <1>2, <1>3, <1>4, <1>5, <1>6, <1>7, <1>8 DEF Next, SyncAll, PassInv, pass

\* A pass that is not cut short by a restart tries every url it set out to.
THEOREM PassesAreComplete == Spec => PassTriesEveryUrl
<1>1. Init => PassInv
  BY TypeInit DEF Init, PassInv
<1>2. PassInv /\ [Next]_vars => PassInv'
  BY PassStep
<1>3. PassInv /\ [Next]_vars =>
          [pc[Loop] # "idle" /\ pc'[Loop] = "idle" => planned \subseteq tried \/ Restart]_vars
  BY PassStep
<1> QED
  BY <1>1, <1>2, <1>3, PTL DEF Spec, PassTriesEveryUrl

-----------------------------------------------------------------------------
(* The requests and the tokens that pay for them.                          *)

\* Each request sent so far is an attempt of its own on one of the tokens, and no
\* two syncers are on the same token, nor on an attempt that was already made.
PaidBy(paid, tok) ==
    /\ requests = Cardinality(paid)
    /\ \A s \in Syncers : pc[s] = "fetch" =>
          /\ tok[s] \in 1..granted /\ loc[s].attempt >= 1
          /\ \A a \in loc[s].attempt..MaxFetchAttempts : <<tok[s], a>> \notin paid
    /\ \A s, r \in Syncers : pc[s] = "fetch" /\ pc[r] = "fetch" /\ s # r => tok[s] # tok[r]

Attempts == (1..granted) \X (1..MaxFetchAttempts)

PaidInv ==
    TypeOK /\ \E paid \in SUBSET Attempts, tok \in [Syncers -> 0..granted] : PaidBy(paid, tok)

\* There are finitely many attempts, so many on each token.
LEMMA AttemptsCount ==
    ASSUME granted \in Nat
    PROVE  /\ IsFiniteSet(Attempts) /\ Cardinality(Attempts) = granted * MaxFetchAttempts
           /\ \A paid \in SUBSET Attempts :
                 IsFiniteSet(paid) /\ Cardinality(paid) \in Nat /\ Cardinality(paid) <= granted * MaxFetchAttempts
<1>0. MaxFetchAttempts \in Nat
  BY PriceSyncAssumption
<1>1. /\ IsFiniteSet(1..granted) /\ Cardinality(1..granted) = granted
      /\ IsFiniteSet(1..MaxFetchAttempts) /\ Cardinality(1..MaxFetchAttempts) = MaxFetchAttempts
  BY <1>0, FS_Interval
<1>2. IsFiniteSet(Attempts) /\ Cardinality(Attempts) = granted * MaxFetchAttempts
  <2> DEFINE G == 1..granted
             M == 1..MaxFetchAttempts
  <2>1. IsFiniteSet(G) /\ IsFiniteSet(M)
    BY <1>1
  <2> HIDE DEF G, M
  <2>2. IsFiniteSet(G \X M) /\ Cardinality(G \X M) = Cardinality(G) * Cardinality(M)
    BY <2>1, FS_Product
  <2>3. Cardinality(G) = granted /\ Cardinality(M) = MaxFetchAttempts /\ Attempts = G \X M
    BY <1>1 DEF G, M, Attempts
  <2> QED
    BY <2>2, <2>3
<1> QED
  BY <1>2, FS_Subset, FS_CardinalityType

\* A request that is sent uses up its attempt.
LEMMA RequestSent ==
    ASSUME PaidInv, NEW s \in Syncers, pc[s] = "fetch", requests' = requests + 1, UNCHANGED granted,
           TypeOK', \A r \in Syncers \ {s} : pc'[r] = pc[r] /\ loc'[r] = loc[r],
           pc'[s] = "fetch" => loc'[s].attempt = loc[s].attempt + 1
    PROVE  PaidInv'
<1>1. PICK paid \in SUBSET Attempts, tok \in [Syncers -> 0..granted] : PaidBy(paid, tok)
  BY DEF PaidInv
<1>2. /\ granted \in Nat /\ MaxFetchAttempts \in Nat /\ loc[s].attempt \in 1..MaxFetchAttempts /\ tok[s] \in 1..granted
      /\ <<tok[s], loc[s].attempt>> \notin paid
  <2>1. granted \in Nat /\ MaxFetchAttempts \in Nat /\ loc[s] \in Locals
    BY PriceSyncAssumption DEF PaidInv, TypeOK, LimiterTypeOK
  <2>2. loc[s].attempt \in 0..MaxFetchAttempts
    BY <2>1 DEF Locals
  <2>3. /\ tok[s] \in 1..granted /\ loc[s].attempt >= 1
        /\ \A a \in loc[s].attempt..MaxFetchAttempts : <<tok[s], a>> \notin paid
    BY <1>1 DEF PaidBy
  <2>4. loc[s].attempt \in loc[s].attempt..MaxFetchAttempts
    BY <2>1, <2>2
  <2> QED
    BY <2>1, <2>2, <2>3, <2>4
<1>3. PICK sent : sent = paid \cup {<<tok[s], loc[s].attempt>>}
  OBVIOUS
<1>6. sent \in SUBSET Attempts /\ Attempts' = Attempts
  BY <1>2, <1>3 DEF Attempts
<1>4. Cardinality(sent) = requests + 1
  BY <1>1, <1>2, <1>3, AttemptsCount, FS_AddElement DEF PaidBy
<1>5. PaidBy(sent, tok)'
  <2>1. ASSUME NEW r \in Syncers, pc'[r] = "fetch"
        PROVE  /\ tok[r] \in 1..granted /\ loc'[r].attempt >= 1
               /\ \A a \in loc'[r].attempt..MaxFetchAttempts : <<tok[r], a>> \notin sent
    <3>1. CASE r = s
      BY <1>1, <1>2, <1>3, <2>1, <3>1 DEF PaidBy
    <3>2. CASE r # s
      <4>1. pc[r] = "fetch" /\ loc'[r] = loc[r] /\ tok[r] # tok[s]
        BY <1>1, <2>1, <3>2 DEF PaidBy
      <4> QED
        BY <1>1, <1>3, <4>1 DEF PaidBy
    <3> QED
      BY <3>1, <3>2
  <2>2. ASSUME NEW r \in Syncers, NEW q \in Syncers, pc'[r] = "fetch", pc'[q] = "fetch", r # q
        PROVE  tok[r] # tok[q]
    <3>1. pc[r] = "fetch" /\ pc[q] = "fetch"
      BY <2>2
    <3> QED
      BY <1>1, <2>2, <3>1 DEF PaidBy
  <2> QED
    BY <1>4, <2>1, <2>2 DEF PaidBy
<1> QED
  BY <1>5, <1>6 DEF PaidInv

\* A step that sends nothing and starts no fetch.
LEMMA NothingSent ==
    ASSUME PaidInv, TypeOK', UNCHANGED <<granted, requests>>,
           \A r \in Syncers : pc'[r] = "fetch" => pc[r] = "fetch" /\ loc'[r] = loc[r]
    PROVE  PaidInv'
<1>1. PICK paid \in SUBSET Attempts, tok \in [Syncers -> 0..granted] : PaidBy(paid, tok)
  BY DEF PaidInv
<1>2. PaidBy(paid, tok)' /\ Attempts' = Attempts
  BY <1>1 DEF PaidBy, Attempts
<1> QED
  BY <1>2 DEF PaidInv

\* A syncer that gets a token starts on it.
LEMMA TokenPays ==
    ASSUME PaidInv, TypeOK', NEW s \in Syncers, granted' = granted + 1, UNCHANGED requests,
           \A r \in Syncers \ {s} : pc'[r] = pc[r] /\ loc'[r] = loc[r],
           pc'[s] = "fetch", loc'[s].attempt = 1
    PROVE  PaidInv'
<1>1. PICK paid \in SUBSET Attempts, tok \in [Syncers -> 0..granted] : PaidBy(paid, tok)
  BY DEF PaidInv
<1>2. granted \in Nat /\ MaxFetchAttempts \in Nat
  BY PriceSyncAssumption DEF PaidInv, TypeOK, LimiterTypeOK
<1>3. PICK new \in [Syncers -> 0..granted'] : \A r \in Syncers : new[r] = IF r = s THEN granted + 1 ELSE tok[r]
  <2>1. [r \in Syncers |-> IF r = s THEN granted + 1 ELSE tok[r]] \in [Syncers -> 0..granted']
    BY <1>2
  <2> QED
    BY <2>1
<1>4. paid \in SUBSET Attempts' /\ \A a : <<granted + 1, a>> \notin paid
  BY <1>2 DEF Attempts
<1>5. PaidBy(paid, new)'
  <2>1. ASSUME NEW r \in Syncers, pc'[r] = "fetch"
        PROVE  /\ new[r] \in 1..granted' /\ loc'[r].attempt >= 1
               /\ \A a \in loc'[r].attempt..MaxFetchAttempts : <<new[r], a>> \notin paid
    BY <1>1, <1>2, <1>3, <1>4, <2>1 DEF PaidBy
  <2>2. ASSUME NEW r \in Syncers, NEW q \in Syncers, pc'[r] = "fetch", pc'[q] = "fetch", r # q
        PROVE  new[r] # new[q]
    BY <1>1, <1>2, <1>3, <2>2 DEF PaidBy
  <2> QED
    BY <1>1, <2>1, <2>2 DEF PaidBy
<1> QED
  BY <1>4, <1>5 DEF PaidInv

\* Every step keeps a token behind each request.
LEMMA PaidStep == PaidInv /\ [Next]_vars => PaidInv'
<1> SUFFICES ASSUME PaidInv, [Next]_vars PROVE PaidInv'
  OBVIOUS
<1>0. TypeOK /\ TypeOK' /\ pc \in [Syncers -> PC] /\ loc \in [Syncers -> Locals]
  BY TypeStep DEF PaidInv, TypeOK
<1>1. ASSUME NEW s \in Syncers, SyncURL(s) PROVE PaidInv'
  <2>1. CASE ListCards(s) \/ GiveUp(s)
    BY <1>0, <2>1, NothingSent DEF ListCards, GiveUp, Answer, limiter
  <2>2. CASE Acquire(s)
    <3>1. CASE TokenTaken
      <4>1. ASSUME TokenRefused PROVE FALSE
        BY <1>0, <3>1, <4>1 DEF TokenTaken, TokenRefused, TypeOK, LimiterTypeOK
      <4>2. /\ granted' = granted + 1 /\ UNCHANGED requests
            /\ pc' = [pc EXCEPT ![s] = "fetch"] /\ loc' = [loc EXCEPT ![s].attempt = 1]
        BY <2>2, <3>1, <4>1 DEF Acquire, TokenTaken
      <4>3. pc'[s] = "fetch" /\ loc'[s].attempt = 1
        BY <1>0, <4>2 DEF Locals
      <4>4. \A r \in Syncers \ {s} : pc'[r] = pc[r] /\ loc'[r] = loc[r]
        BY <1>0, <4>2
      <4> QED
        BY <1>0, <4>2, <4>3, <4>4, TokenPays
    <3>2. CASE ~TokenTaken
      BY <1>0, <2>2, <3>2, NothingSent DEF Acquire, TokenRefused, Answer
    <3> QED
      BY <3>1, <3>2
  <2>3. CASE Fetched(s)
    BY <1>0, <2>3, RequestSent DEF Fetched, limiter
  <2>4. CASE FetchFails(s)
    <3>1. \A r \in Syncers \ {s} : pc'[r] = pc[r] /\ loc'[r] = loc[r]
      BY <1>0, <2>4 DEF FetchFails, Answer
    <3>2. pc'[s] = "fetch" => loc'[s].attempt = loc[s].attempt + 1
      BY <1>0, <2>4 DEF FetchFails, Answer, Locals
    <3> QED
      BY <1>0, <2>4, <3>1, <3>2, RequestSent DEF FetchFails, limiter
  <2>5. ASSUME NEW c \in Cards, Record(s, c) PROVE PaidInv'
    BY <1>0, <2>5, NothingSent DEF Record, CardDone, Answer, limiter
  <2> QED
    BY <1>1, <2>1, <2>2, <2>3, <2>4, <2>5 DEF SyncURL
<1>2. ASSUME NEW s \in Clicks, NEW c \in Cards, Click(s, c) PROVE PaidInv'
  BY <1>0, <1>2, NothingSent DEF Click, Answer, limiter
<1>3. CASE StartPass \/ SyncAll
  BY <1>0, <1>3, NothingSent DEF StartPass, SyncAll, NextUrl, EndPass, limiter
<1>4. ASSUME NEW c \in Cards, NEW u \in Urls, SetSource(c, u) PROVE PaidInv'
  BY <1>0, <1>4, NothingSent DEF SetSource, limiter
<1>5. CASE Time
  BY <1>0, <1>5, NothingSent DEF Time, LimiterTick
<1>6. CASE Restart
  <2>1. granted' = 0 /\ requests' = 0 /\ \A s \in Syncers : pc'[s] # "fetch"
    BY <1>0, <1>6 DEF Restart, LimiterRestart, Answers
  <2>2. PaidBy({}, [s \in Syncers |-> 0])'
    BY <2>1, FS_EmptySet DEF PaidBy
  <2>3. {} \in SUBSET Attempts' /\ [s \in Syncers |-> 0] \in [Syncers -> 0..granted']
    BY <2>1
  <2> QED
    BY <1>0, <2>2, <2>3 DEF PaidInv
<1>7. CASE UNCHANGED vars
  BY <1>0, <1>7, NothingSent DEF vars, limiter
<1> QED
  BY <1>1, <1>2, <1>3, <1>4, <1>5, <1>6, <1>7 DEF Next

\* However many syncers draw on the bucket, no token pays for more than
\* maxFetchAttempts requests, and none is sent without a token.
THEOREM EveryRequestPaid == Spec => []RequestsPaid
<1>1. Init => PaidInv
  <2> SUFFICES ASSUME Init PROVE PaidInv
    OBVIOUS
  <2>1. granted = 0 /\ requests = 0 /\ \A s \in Syncers : pc[s] # "fetch"
    BY DEF Init, LimiterInit
  <2>2. PaidBy({}, [s \in Syncers |-> 0])
    BY <2>1, FS_EmptySet DEF PaidBy
  <2>3. {} \in SUBSET Attempts /\ [s \in Syncers |-> 0] \in [Syncers -> 0..granted]
    BY <2>1
  <2> QED
    BY <2>2, <2>3, TypeInit DEF PaidInv
<1>2. PaidInv => RequestsPaid
  <2> SUFFICES ASSUME PaidInv PROVE RequestsPaid
    OBVIOUS
  <2>1. PICK paid \in SUBSET Attempts, tok \in [Syncers -> 0..granted] : PaidBy(paid, tok)
    BY DEF PaidInv
  <2>2. granted \in Nat /\ MaxFetchAttempts \in Nat
    BY PriceSyncAssumption DEF PaidInv, TypeOK, LimiterTypeOK
  <2> QED
    BY <2>1, <2>2, AttemptsCount DEF PaidBy, RequestsPaid
<1> QED
  BY <1>1, <1>2, PaidStep, PTL DEF Spec

-----------------------------------------------------------------------------
(* The pages.  First, the extremes of sets of rows and of days.            *)

\* Every set of some of these numbers has a first and a last.
Bounded(U) ==
    \A S \in SUBSET U : S # {} => \E lo, hi \in S : \A k \in S : lo <= k /\ k <= hi

\* Of natural numbers there is a least: the library's theorem without its operators.
LEMMA LeastNumber ==
    ASSUME NEW S \in SUBSET Nat, S # {}
    PROVE  \E lo \in S : \A k \in S : lo <= k
<1> DEFINE Less == {ss \in Nat \X Nat : ss[1] < ss[2]}
<1>1. IsWellFoundedOn(Less, Nat)
  BY NatLessThanWellFounded DEF OpToRel
<1> HIDE DEF Less
<1>2. PICK lo \in S : \A k \in S : ~(<<k, lo>> \in Less)
  BY <1>1, WFMin
<1>3. \A k \in S : ~(k < lo)
  BY <1>2 DEF Less
<1> QED
  BY <1>3

\* A set of numbers up to n has a least and a greatest in each part that is not empty.
LEMMA SegmentBounded ==
    ASSUME NEW n \in Nat, NEW U \in SUBSET (0..n)
    PROVE  Bounded(U)
<1> SUFFICES ASSUME NEW S \in SUBSET U, S # {}
             PROVE  \E lo, hi \in S : \A k \in S : lo <= k /\ k <= hi
  BY DEF Bounded
<1>1. PICK lo \in S : \A k \in S : lo <= k
  BY LeastNumber
<1>2. PICK hi \in S : \A k \in S : k <= hi
  <2> DEFINE T == {n - k : k \in S}
  <2>1. T \in SUBSET Nat /\ T # {}
    <3>1. \A k \in S : k \in 0..n /\ n - k \in Nat
      OBVIOUS
    <3> QED
      BY <3>1
  <2>2. PICK t \in T : \A u \in T : t <= u
    BY <2>1, LeastNumber
  <2>3. PICK hi \in S : t = n - hi
    OBVIOUS
  <2>4. \A k \in S : n - hi <= n - k
    BY <2>2, <2>3
  <2> QED
    BY <2>4
<1> QED
  BY <1>1, <1>2

\* The last of some numbers is the one that none exceeds.
LEMMA MaxIs ==
    ASSUME NEW S \in SUBSET Nat, NEW m \in S, \A k \in S : k <= m
    PROVE  Max(S) = m
<1>1. \A x \in S : (\A y \in S : x >= y) => x = m
  OBVIOUS
<1>2. \A y \in S : m >= y
  OBVIOUS
<1> QED
  BY <1>1, <1>2 DEF Max

\* Likewise the first.
LEMMA MinIs ==
    ASSUME NEW S \in SUBSET Nat, NEW m \in S, \A k \in S : m <= k
    PROVE  Min(S) = m
<1>1. \A x \in S : (\A y \in S : x <= y) => x = m
  OBVIOUS
<1> QED
  BY <1>1 DEF Min

\* Bounded numbers have a last one.
LEMMA MaxOf ==
    ASSUME NEW U \in SUBSET Nat, Bounded(U), NEW S \in SUBSET U, S # {}
    PROVE  Max(S) \in S /\ \A k \in S : k <= Max(S)
<1>1. PICK hi \in S : \A k \in S : k <= hi
  BY DEF Bounded
<1>2. Max(S) = hi
  BY <1>1, MaxIs
<1> QED
  BY <1>1, <1>2

\* Fewer than two is no two different ones.
LEMMA BelowTwo ==
    ASSUME NEW E, IsFiniteSet(E)
    PROVE  Cardinality(E) < 2 <=> \A a, b \in E : a = b
<1>1. Cardinality(E) \in Nat
  BY FS_CardinalityType
<1>2. CASE E = {}
  BY <1>2, FS_EmptySet
<1>3. CASE E # {}
  <2>1. PICK e \in E : TRUE
    BY <1>3
  <2>2. IsFiniteSet(E \ {e}) /\ Cardinality(E \ {e}) = Cardinality(E) - 1
    BY <2>1, FS_RemoveElement
  <2>3. Cardinality(E \ {e}) = 0 <=> E \ {e} = {}
    BY <2>2, FS_EmptySet
  <2>4. Cardinality(E \ {e}) \in Nat
    BY <2>2, FS_CardinalityType
  <2> QED
    BY <1>1, <2>1, <2>2, <2>3, <2>4
<1> QED
  BY <1>2, <1>3

\* Two days of move: the last two, if there are two.
LEMMA LastTwoIs ==
    ASSUME NEW D \in SUBSET Nat, IsFiniteSet(D), Bounded(D)
    PROVE  /\ Cardinality(LastTwo(D)) = 2 <=> Cardinality(D) >= 2
           /\ Cardinality(D) >= 2 => \E lo, hi \in D :
                /\ lo < hi /\ LastTwo(D) = {lo, hi}
                /\ \A d \in D : d = hi \/ d <= lo
           /\ Cardinality(D) = 2 => LastTwo(D) = D
<1>1. Cardinality(D) \in Nat /\ IsFiniteSet(LastTwo(D)) /\ Cardinality(LastTwo(D)) <= Cardinality(D)
      /\ Cardinality(LastTwo(D)) \in Nat /\ (Cardinality(LastTwo(D)) = Cardinality(D) => LastTwo(D) = D)
  <2>1. LastTwo(D) \subseteq D
    BY DEF LastTwo
  <2> QED
    BY <2>1, FS_Subset, FS_CardinalityType
<1>2. ASSUME Cardinality(D) >= 2
      PROVE  \E lo, hi \in D : /\ lo < hi /\ LastTwo(D) = {lo, hi}
                               /\ \A d \in D : d = hi \/ d <= lo
  <2> DEFINE hi == Max(D)
             lo == Max(D \ {hi})
             Above(d) == {e \in D : e > d}
  <2>1. ~(\A a, b \in D : a = b)
    <3>1. ~(Cardinality(D) < 2)
      BY <1>1, <1>2
    <3> QED
      BY <3>1, BelowTwo
  <2>2. hi \in D /\ \A d \in D : d <= hi
    <3>1. D # {}
      BY <2>1
    <3> QED
      BY <3>1, MaxOf
  <2>3. lo \in D \ {hi} /\ \A d \in D \ {hi} : d <= lo
    <3>1. D \ {hi} # {}
      BY <2>1
    <3> QED
      BY <3>1, MaxOf
  <2> HIDE DEF hi, lo
  <2>4. lo < hi
    BY <2>2, <2>3
  <2>5. ASSUME NEW d \in D
        PROVE  IsFiniteSet(Above(d))
    BY FS_Subset
  <2>6. \A d \in D : Cardinality(Above(d)) < 2 <=> \A a, b \in Above(d) : a = b
    <3> HIDE DEF Above
    <3> QED
      BY <2>5, BelowTwo
  <2>7. Cardinality(Above(hi)) < 2
    <3>1. \A a, b \in Above(hi) : a = b
      BY <2>2
    <3> QED
      BY <3>1, <2>2, <2>6
  <2>8. Cardinality(Above(lo)) < 2
    <3>1. \A a, b \in Above(lo) : a = b
      BY <2>2, <2>3
    <3> QED
      BY <3>1, <2>3, <2>6
  <2>9. ASSUME NEW d \in D, d # lo, d # hi
        PROVE  ~(Cardinality(Above(d)) < 2)
    <3>1. lo \in Above(d) /\ hi \in Above(d) /\ lo # hi
      BY <2>2, <2>3, <2>4, <2>9
    <3> QED
      BY <3>1, <2>6
  <2>10. LastTwo(D) = {lo, hi}
    BY <2>2, <2>3, <2>7, <2>8, <2>9 DEF LastTwo
  <2> QED
    BY <2>2, <2>3, <2>4, <2>10
<1>3. ASSUME Cardinality(D) >= 2
      PROVE  Cardinality(LastTwo(D)) = 2
  <2>1. PICK lo, hi \in D : lo < hi /\ LastTwo(D) = {lo, hi}
    BY <1>2, <1>3
  <2>2. lo # hi
    BY <2>1
  <2>3. Cardinality({lo}) = 1 /\ IsFiniteSet({lo})
    BY FS_Singleton
  <2>4. Cardinality({lo} \cup {hi}) = 2
    <3>1. hi \notin {lo}
      BY <2>2
    <3>2. Cardinality({lo} \cup {hi}) = Cardinality({lo}) + 1
      BY <2>3, <3>1, FS_AddElement
    <3> QED
      BY <2>3, <3>2
  <2>5. {lo} \cup {hi} = {lo, hi}
    OBVIOUS
  <2> QED
    BY <2>1, <2>4, <2>5
<1> QED
  BY <1>1, <1>2, <1>3

-----------------------------------------------------------------------------
(* The invariant.  What makes the newest row a current one is that ids, times and     *)
(* what a check found there all follow one order; what makes the time on the page one *)
(* of a current check is that a check's row is committed with it, and that no check    *)
(* has begun after a row that is not committed yet.                                   *)

Tx == [pc : {"rest", "listed", "inserted", "touched"},
       card : AllCards \cup {None}, source : Sources \cup {None},
       id : Nat \cup {None}, stamp : Nat \cup {None}]

\* The tables are well typed, and what the user owns is in the catalog.
HistoryTypeOK ==
    /\ clock \in Nat
    /\ owned \subseteq cards /\ cards \subseteq AllCards
    /\ history \in Seq(Check) /\ visible \subseteq DOMAIN history
    /\ configured \in [AllCards -> Source \cup {None}]
    /\ tx \in [Recorders -> Tx]

\* Ids and seconds rise together, and a check comes after committed ones only.
Ordered ==
    /\ \A i, k \in DOMAIN history : i <= k => history[i].at <= history[k].at
    /\ \A i \in DOMAIN history : history[i].at <= clock
    /\ \A k \in DOMAIN history : history[k].after \subseteq visible
    /\ \A k \in DOMAIN history : \A i \in history[k].after : i < k

\* What a transaction has done: its card has a source unless it was deleted; its row
\* is its own; and a source it has touched is locked, so that it is still there.
Open(r) == tx[r].pc \in {"inserted", "touched"}
Transaction(r) ==
    /\ tx[r].pc # "rest" =>
         /\ tx[r].card \in AllCards /\ tx[r].source \in Sources
         /\ tx[r].card \in cards => configured[tx[r].card] # None
    /\ Open(r) =>
         /\ tx[r].id \in DOMAIN history \ visible
         /\ history[tx[r].id].card = tx[r].card
    /\ tx[r].pc = "touched" =>
         IF tx[r].card \in cards
         THEN tx[r].stamp \in Nat /\ history[tx[r].id].at <= tx[r].stamp
         ELSE tx[r].stamp = None

TxInv ==
    /\ \A r \in Recorders : Transaction(r)
    /\ \A r, q \in Recorders : Open(r) /\ Open(q) /\ tx[r].id = tx[q].id => r = q

\* The time on the page is at or after that of a current check, and a card of the
\* catalog that no source was ever set for has no rows.
CheckedInv ==
    \A c \in AllCards :
        /\ configured[c] # None =>
             /\ c \in cards
             /\ configured[c].checkedAt = None <=> Rows(c) = {}
             /\ Rows(c) # {} => \E i \in Current(Rows(c)) : history[i].at <= configured[c].checkedAt
        /\ c \in cards /\ configured[c] = None => Rows(c) = {}

HistoryInv == HistoryTypeOK /\ Ordered /\ TxInv /\ CheckedInv

\* A card the first statement found is in the catalog or was deleted since.
MoversInv ==
    /\ movers = [pc |-> movers.pc, found |-> movers.found, named |-> movers.named,
                 gone |-> movers.gone]
    /\ movers.pc = "names" => movers.found \subseteq cards \cup movers.gone
    /\ NamelessMeansDeleted

\* Ids, times and prices are numbers; None is none of them.
LEMMA RowFacts ==
    ASSUME HistoryTypeOK
    PROVE  /\ DOMAIN history \in SUBSET Nat /\ Bounded(DOMAIN history)
           /\ \A i \in DOMAIN history :
                /\ i # None
                /\ history[i].price \in Nat \cup {None}
                /\ history[i].at \in Nat
           /\ \A c \in AllCards : Rows(c) \in SUBSET DOMAIN history
           /\ \A c \in AllCards : InWindow(c) \in SUBSET DOMAIN history
<1>1. DOMAIN history \in SUBSET Nat /\ Bounded(DOMAIN history)
  <2>1. Len(history) \in Nat /\ DOMAIN history = 1..Len(history)
    BY DEF HistoryTypeOK
  <2>2. DOMAIN history \in SUBSET (0..Len(history))
    BY <2>1
  <2>3. Bounded(DOMAIN history)
    BY <2>1, <2>2, SegmentBounded, Zenon
  <2>4. DOMAIN history \in SUBSET Nat
    BY <2>1
  <2> QED
    BY <2>3, <2>4
<1>2. \A i \in DOMAIN history : history[i] \in Check
  BY DEF HistoryTypeOK
<1>3. \A i \in DOMAIN history : history[i].price \in Nat \cup {None} /\ history[i].at \in Nat
  BY <1>2, PriceHistoryAssumption DEF Check
<1>4. \A i \in DOMAIN history : i # None
  BY <1>1, PriceHistoryAssumption
<1>5. \A c \in AllCards : Rows(c) \in SUBSET DOMAIN history /\ InWindow(c) \in SUBSET DOMAIN history
  BY DEF Rows, InWindow, Priced, HistoryTypeOK
<1> QED
  BY <1>1, <1>3, <1>4, <1>5

\* An empty history is in order.
LEMMA InitInv == HistoryInit => HistoryInv /\ MoversInv
<1> SUFFICES ASSUME HistoryInit PROVE HistoryInv /\ MoversInv
  OBVIOUS
<1>1. history = <<>> /\ DOMAIN history = {} /\ visible = {} /\ \A c \in AllCards : Rows(c) = {}
  BY DEF HistoryInit, Rows
<1>2. NoTx \in Tx
  BY DEF NoTx, Tx
<1>3. HistoryTypeOK
  BY <1>1, <1>2 DEF HistoryInit, HistoryTypeOK
<1>4. Ordered
  BY <1>1 DEF Ordered
<1>5. \A r \in Recorders : tx[r].pc = "rest"
  BY DEF HistoryInit, NoTx
<1>6. TxInv
  BY <1>5 DEF TxInv, Transaction, Open
<1>7. CheckedInv
  BY <1>1 DEF CheckedInv, HistoryInit
<1>8. MoversInv
  BY DEF HistoryInit, MoversInv, NoRequest, NamelessMeansDeleted
<1> QED
  BY <1>3, <1>4, <1>6, <1>7, <1>8 DEF HistoryInv

\* A row of the present second is the last and keeps the history in order.
LEMMA OneRowMore ==
    ASSUME HistoryTypeOK, Ordered, visible' = visible, clock' = clock,
           NEW r \in Check, r.at = clock, r.after \subseteq visible,
           history' = Append(history, r)
    PROVE  /\ DOMAIN history' = DOMAIN history \cup {Len(history) + 1}
           /\ history' \in Seq(Check) /\ history'[Len(history) + 1] = r
           /\ \A i \in DOMAIN history : history'[i] = history[i] /\ i <= Len(history) /\ i \in Nat
           /\ Ordered'
<1> DEFINE n == Len(history) + 1
<1>1. n \in Nat /\ DOMAIN history = 1..(n - 1) /\ DOMAIN history' = 1..n
  BY DEF HistoryTypeOK
<1>2. DOMAIN history' = DOMAIN history \cup {n}
  BY <1>1
<1>3. history' \in Seq(Check) /\ history'[n] = r /\ \A i \in DOMAIN history : history'[i] = history[i]
  BY <1>1 DEF HistoryTypeOK
<1> HIDE DEF n
<1>4. \A i \in DOMAIN history' : history'[i].at <= clock'
  BY <1>2, <1>3 DEF Ordered, HistoryTypeOK
<1>5. ASSUME NEW i \in DOMAIN history', NEW k \in DOMAIN history', i <= k
      PROVE  history'[i].at <= history'[k].at
  <2>1. CASE k = n
    BY <1>3, <1>4, <2>1
  <2>2. CASE k # n
    <3>1. i \in DOMAIN history /\ k \in DOMAIN history
      BY <1>1, <1>5, <2>2
    <3> QED
      BY <1>3, <1>5, <3>1 DEF Ordered
  <2> QED
    BY <2>1, <2>2
<1>6. \A k \in DOMAIN history' : history'[k].after \subseteq visible'
  BY <1>2, <1>3 DEF Ordered
<1>7. ASSUME NEW k \in DOMAIN history', NEW i \in history'[k].after
      PROVE  i < k
  <2>1. CASE k = n
    <3>1. i \in DOMAIN history
      BY <1>3, <2>1 DEF HistoryTypeOK
    <3> QED
      BY <1>1, <2>1, <3>1
  <2>2. CASE k # n
    BY <1>2, <1>3, <2>2 DEF Ordered
  <2> QED
    BY <2>1, <2>2
<1> QED
  BY <1>1, <1>2, <1>3, <1>4, <1>5, <1>6, <1>7 DEF Ordered, n

\* What leaves the rows alone leaves the current ones alone.
LEMMA SameRows ==
    ASSUME HistoryTypeOK, NEW c \in AllCards, NEW S \in SUBSET Rows(c), visible' = visible,
           \A i \in DOMAIN history : i \in DOMAIN history' /\ history'[i] = history[i]
    PROVE  /\ Rows(c)' = Rows(c)
           /\ {i \in S : \A k \in S : i \notin history'[k].after} = Current(S)
           /\ \A i \in S : history'[i] = history[i]
<1>1. visible \subseteq DOMAIN history
  BY DEF HistoryTypeOK
<1>2. \A i \in visible : history'[i] = history[i]
  BY <1>1
<1> QED
  BY <1>2 DEF Rows, Current

\* So it keeps what is known of the times on the page, unless a source is edited.
LEMMA KeepsChecked ==
    ASSUME HistoryTypeOK, CheckedInv, UNCHANGED <<configured, cards, visible>>,
           \A i \in DOMAIN history : i \in DOMAIN history' /\ history'[i] = history[i]
    PROVE  CheckedInv'
<1> SUFFICES ASSUME NEW c \in AllCards
             PROVE  /\ configured'[c] # None =>
                         /\ c \in cards'
                         /\ configured'[c].checkedAt = None <=> Rows(c)' = {}
                         /\ Rows(c)' # {} => \E i \in Current(Rows(c))' :
                              history'[i].at <= configured'[c].checkedAt
                    /\ c \in cards' /\ configured'[c] = None => Rows(c)' = {}
  BY DEF CheckedInv
<1>1. Rows(c)' = Rows(c) /\ \A i \in Rows(c) : history'[i] = history[i]
  BY SameRows
<1>2. Current(Rows(c))' = Current(Rows(c))
  BY <1>1 DEF Current
<1>3. Current(Rows(c)) \subseteq Rows(c)
  BY DEF Current
<1> HIDE DEF Rows, Current
<1> QED
  BY <1>1, <1>2, <1>3 DEF CheckedInv

\* A step of one recorder that only its transaction sees.
LEMMA OwnStep ==
    ASSUME HistoryInv, NEW r \in Recorders, NEW t \in Tx, tx' = [tx EXCEPT ![r] = t],
           UNCHANGED <<clock, cards, configured, history, visible, owned>>,
           Transaction(r)',
           Open(r)' => Open(r) /\ t.id = tx[r].id
    PROVE  HistoryInv'
<1>1. HistoryTypeOK' /\ Ordered' /\ CheckedInv'
  BY KeepsChecked DEF HistoryInv, HistoryTypeOK, Ordered
<1>2. \A q \in Recorders \ {r} : tx'[q] = tx[q]
  BY DEF HistoryInv, HistoryTypeOK
<1>3. ASSUME NEW q \in Recorders PROVE Transaction(q)'
  <2>1. CASE q = r
    BY <2>1
  <2>2. CASE q # r
    BY <1>2, <2>2 DEF HistoryInv, TxInv, Transaction, Open
  <2> QED
    BY <2>1, <2>2
<1>4. tx'[r] = t
  BY DEF HistoryInv, HistoryTypeOK
<1>5. ASSUME NEW p \in Recorders, NEW q \in Recorders, Open(p)', Open(q)', tx'[p].id = tx'[q].id
      PROVE  p = q
  <2>1. Open(p) /\ Open(q) /\ tx[p].id = tx[q].id
    BY <1>2, <1>4, <1>5 DEF Open
  <2> QED
    BY <2>1 DEF HistoryInv, TxInv
<1> QED
  BY <1>1, <1>3, <1>5 DEF HistoryInv, TxInv

\* A check is planned of a card that has a source.
LEMMA ListStep ==
    ASSUME HistoryInv, NEW r \in Recorders, NEW c \in AllCards, ListSource(r, c)
    PROVE  HistoryInv'
<1> DEFINE t == [NoTx EXCEPT !.pc = "listed", !.card = c, !.source = configured[c].source]
<1>1. configured[c] \in Source
  BY DEF ListSource, HistoryInv, HistoryTypeOK
<1>2. t \in Tx /\ t.pc = "listed" /\ t.card = c /\ t.source \in Sources
  BY <1>1 DEF NoTx, Tx, Source
<1> HIDE DEF t
<1>3. tx' = [tx EXCEPT ![r] = t] /\ UNCHANGED <<clock, cards, configured, history, visible, owned>>
      /\ configured[c] # None
  BY DEF ListSource, t
<1>4. tx'[r] = t
  BY <1>3 DEF HistoryInv, HistoryTypeOK
<1>5. Transaction(r)' /\ ~Open(r)'
  BY <1>2, <1>3, <1>4 DEF Transaction, Open
<1> QED
  BY <1>2, <1>3, <1>5, OwnStep

\* Nothing of a transaction that is rolled back stays but its row's number.
LEMMA RollbackStep ==
    ASSUME HistoryInv, NEW r \in Recorders, Rollback(r)
    PROVE  HistoryInv'
<1>1. NoTx \in Tx /\ NoTx.pc = "rest"
  BY DEF NoTx, Tx
<1>2. tx' = [tx EXCEPT ![r] = NoTx] /\ UNCHANGED <<clock, cards, configured, history, visible, owned>>
  BY DEF Rollback
<1>3. tx'[r] = NoTx
  BY <1>2 DEF HistoryInv, HistoryTypeOK
<1>4. Transaction(r)' /\ ~Open(r)'
  BY <1>1, <1>3 DEF Transaction, Open
<1> QED
  BY <1>1, <1>2, <1>4, OwnStep

\* The UPDATE is sent after the INSERT has answered.
LEMMA TouchStep ==
    ASSUME HistoryInv, NEW r \in Recorders, TouchSource(r)
    PROVE  HistoryInv'
<1> DEFINE c == tx[r].card
<1>1. PICK sent \in history[tx[r].id].at..clock :
        tx' = [tx EXCEPT ![r].pc = "touched",
                         ![r].stamp = IF configured[c] = None THEN None ELSE sent]
  BY DEF TouchSource
<1>2. tx[r].pc = "inserted" /\ tx[r] \in Tx /\ Transaction(r)
      /\ UNCHANGED <<clock, cards, configured, history, visible, owned>>
  BY DEF TouchSource, HistoryInv, HistoryTypeOK, TxInv
<1>3. c \in AllCards /\ (c \in cards <=> configured[c] # None)
  BY <1>2 DEF Transaction, HistoryInv, CheckedInv
<1>4. tx[r].id \in DOMAIN history /\ history[tx[r].id].at \in Nat
  BY <1>2, RowFacts DEF Transaction, Open, HistoryInv
<1>5. sent \in Nat /\ history[tx[r].id].at <= sent
  BY <1>1, <1>4 DEF HistoryInv, HistoryTypeOK
<1> DEFINE t == [tx[r] EXCEPT !.pc = "touched",
                              !.stamp = IF configured[c] = None THEN None ELSE sent]
<1>6. t \in Tx /\ t.pc = "touched" /\ t.card = c /\ t.source = tx[r].source /\ t.id = tx[r].id
      /\ t.stamp = IF configured[c] = None THEN None ELSE sent
  BY <1>2, <1>5 DEF Tx
<1>7. tx' = [tx EXCEPT ![r] = t]
  BY <1>1 DEF HistoryInv, HistoryTypeOK
<1> HIDE DEF t
<1>8. tx'[r] = t
  BY <1>7 DEF HistoryInv, HistoryTypeOK
<1>9. Transaction(r)' /\ Open(r)
  BY <1>2, <1>3, <1>5, <1>6, <1>8 DEF Transaction, Open
<1> QED
  BY <1>2, <1>6, <1>7, <1>9, OwnStep

\* The row is the transaction's own, and nobody else sees it.
LEMMA InsertStep ==
    ASSUME HistoryInv, NEW r \in Recorders, NEW p \in Prices \cup {None}, InsertCheck(r, p)
    PROVE  HistoryInv'
<1> USE DEF HistoryInv
<1> DEFINE c == tx[r].card
           row == [card |-> c, source |-> tx[r].source, price |-> p, at |-> clock,
                   after |-> Rows(c)]
           n == Len(history) + 1
<1>1. /\ tx[r].pc = "listed" /\ tx[r] \in Tx /\ Transaction(r)
      /\ history' = Append(history, row)
      /\ tx' = [tx EXCEPT ![r].pc = "inserted", ![r].id = n]
      /\ UNCHANGED <<clock, cards, configured, visible, owned>>
  BY DEF InsertCheck, TxInv, HistoryTypeOK
<1>2. c \in AllCards /\ tx[r].source \in Sources
  BY <1>1 DEF Transaction
<1>3. Rows(c) \subseteq visible /\ Rows(c) \in SUBSET Nat
  BY <1>2, RowFacts DEF Rows
<1>4. row \in Check /\ row.at = clock /\ row.after \subseteq visible /\ row.card = c
  BY <1>2, <1>3 DEF Check, HistoryTypeOK
<1> HIDE DEF row
<1>5. /\ DOMAIN history' = DOMAIN history \cup {n}
      /\ history' \in Seq(Check) /\ history'[n] = row
      /\ \A i \in DOMAIN history : history'[i] = history[i] /\ i < n
      /\ Ordered'
  BY <1>1, <1>4, OneRowMore DEF HistoryTypeOK
<1>6. n \in Nat /\ n \notin DOMAIN history /\ visible \subseteq DOMAIN history
  BY DEF HistoryTypeOK
<1> HIDE DEF n
<1> DEFINE t == [tx[r] EXCEPT !.pc = "inserted", !.id = n]
<1>7. t \in Tx /\ t.pc = "inserted" /\ t.card = c /\ t.source = tx[r].source /\ t.id = n
  BY <1>1, <1>6 DEF Tx
<1>8. tx' = [tx EXCEPT ![r] = t]
  BY <1>1 DEF HistoryTypeOK
<1> HIDE DEF t
<1>9. tx'[r] = t /\ (\A q \in Recorders \ {r} : tx'[q] = tx[q]) /\ tx' \in [Recorders -> Tx]
  BY <1>7, <1>8 DEF HistoryTypeOK
<1>10. HistoryTypeOK'
  BY <1>1, <1>5, <1>9 DEF HistoryTypeOK
<1>11. CheckedInv'
  BY <1>1, <1>5, KeepsChecked
<1>12. ASSUME NEW q \in Recorders PROVE Transaction(q)'
  <2>1. CASE q = r
    BY <1>1, <1>2, <1>4, <1>5, <1>6, <1>7, <1>9, <2>1 DEF Transaction, Open
  <2>2. CASE q # r
    <3>1. tx'[q] = tx[q] /\ Transaction(q)
      BY <1>9, <2>2 DEF TxInv
    <3>2. Open(q) => history'[tx[q].id] = history[tx[q].id]
      BY <1>5, <3>1 DEF Transaction
    <3>3. Open(q)' <=> Open(q)
      BY <3>1 DEF Open
    <3>4. tx[q].pc = "touched" => Open(q)
      BY DEF Open
    <3>5. UNCHANGED <<cards, configured, visible>> /\ DOMAIN history \subseteq DOMAIN history'
      BY <1>1, <1>5
    <3> QED
      BY <3>1, <3>2, <3>3, <3>4, <3>5 DEF Transaction
  <2> QED
    BY <2>1, <2>2
<1>13. \A q \in Recorders \ {r} : Open(q)' => Open(q) /\ tx'[q].id = tx[q].id /\ tx[q].id # n
  BY <1>6, <1>9 DEF Open, TxInv, Transaction
<1>14. ASSUME NEW u \in Recorders, NEW q \in Recorders, Open(u)', Open(q)', tx'[u].id = tx'[q].id
       PROVE  u = q
  BY <1>7, <1>9, <1>13, <1>14 DEF TxInv
<1> QED
  BY <1>5, <1>10, <1>11, <1>12, <1>14 DEF TxInv

\* The row that is committed is a current one, with a time that is not before it.
LEMMA CommitStep ==
    ASSUME HistoryInv, NEW r \in Recorders, CommitCheck(r)
    PROVE  HistoryInv'
<1> USE DEF HistoryInv
<1>0. tx[r].pc = "touched" /\ tx[r] \in Tx /\ Transaction(r) /\ Open(r)
  BY DEF CommitCheck, TxInv, HistoryTypeOK, Open
<1>c. PICK c \in AllCards : c = tx[r].card
  BY <1>0 DEF Transaction
<1>n. PICK n \in DOMAIN history : n = tx[r].id
  BY <1>0 DEF Transaction
<1>1. /\ visible' = visible \cup {n} /\ tx' = [tx EXCEPT ![r] = NoTx]
      /\ UNCHANGED <<clock, cards, history, owned>>
  BY <1>n DEF CommitCheck
<1>2. n \notin visible /\ history[n].card = c
  BY <1>0, <1>c, <1>n DEF Transaction
<1>3. tx'[r] = NoTx /\ (\A q \in Recorders \ {r} : tx'[q] = tx[q]) /\ tx' \in [Recorders -> Tx]
      /\ NoTx.pc = "rest"
  BY <1>1 DEF HistoryTypeOK, NoTx, Tx
<1>4. /\ configured' \in [AllCards -> Source \cup {None}]
      /\ \A d \in AllCards \ {c} : configured'[d] = configured[d]
      /\ configured'[c] # None => c \in cards /\ configured'[c].checkedAt \in Nat
                                  /\ history[n].at <= configured'[c].checkedAt
      /\ c \in cards => configured'[c] # None
  <2>1. CASE c \in cards
    <3>1. configured[c] \in Source /\ tx[r].stamp \in Nat /\ history[n].at <= tx[r].stamp
      BY <1>0, <1>c, <1>n, <2>1 DEF Transaction, HistoryTypeOK
    <3>2. configured' = [configured EXCEPT ![c].checkedAt = tx[r].stamp]
      BY <1>c, <3>1, PriceHistoryAssumption DEF CommitCheck
    <3> DEFINE s == [configured[c] EXCEPT !.checkedAt = tx[r].stamp]
    <3>3. s \in Source /\ s.checkedAt = tx[r].stamp /\ s # None
      BY <3>1, PriceHistoryAssumption DEF Source
    <3>4. configured' = [configured EXCEPT ![c] = s]
      BY <3>2 DEF HistoryTypeOK
    <3> HIDE DEF s
    <3> QED
      BY <2>1, <3>1, <3>3, <3>4 DEF HistoryTypeOK
  <2>2. CASE c \notin cards
    <3>1. configured' = configured /\ configured[c] = None
      BY <1>0, <1>c, <2>2 DEF CommitCheck, Transaction, CheckedInv
    <3> QED
      BY <2>2, <3>1 DEF HistoryTypeOK
  <2> QED
    BY <2>1, <2>2
<1>5. Rows(c)' = Rows(c) \cup {n} /\ \A d \in AllCards \ {c} : Rows(d)' = Rows(d)
  BY <1>1, <1>2 DEF Rows
<1>6. n \in Current(Rows(c))' /\ Rows(c)' # {}
  <2>1. \A k \in Rows(c)' : k \in DOMAIN history
    BY <1>1 DEF Rows, HistoryTypeOK
  <2>2. \A k \in DOMAIN history : n \notin history[k].after
    BY <1>2 DEF Ordered
  <2> QED
    BY <1>1, <1>5, <2>1, <2>2 DEF Current
<1>7. CheckedInv'
  <2> SUFFICES ASSUME NEW d \in AllCards
               PROVE  /\ configured'[d] # None =>
                           /\ d \in cards'
                           /\ configured'[d].checkedAt = None <=> Rows(d)' = {}
                           /\ Rows(d)' # {} => \E i \in Current(Rows(d))' :
                                history'[i].at <= configured'[d].checkedAt
                      /\ d \in cards' /\ configured'[d] = None => Rows(d)' = {}
    BY DEF CheckedInv
  <2>1. CASE d = c
    <3>1. configured'[c] # None => configured'[c].checkedAt # None
      BY <1>4, PriceHistoryAssumption
    <3> QED
      BY <1>1, <1>4, <1>6, <2>1, <3>1
  <2>2. CASE d # c
    <3>1. Rows(d)' = Rows(d) /\ configured'[d] = configured[d]
      BY <1>4, <1>5, <2>2
    <3>2. Current(Rows(d))' = Current(Rows(d))
      BY <1>1, <3>1 DEF Current
    <3> HIDE DEF Rows, Current
    <3> QED
      BY <1>1, <3>1, <3>2 DEF CheckedInv
  <2> QED
    BY <2>1, <2>2
<1>8. HistoryTypeOK' /\ Ordered'
  BY <1>1, <1>2, <1>3, <1>4 DEF HistoryTypeOK, Ordered
<1>9. \A q \in Recorders : Open(q)' => q # r /\ Open(q) /\ tx'[q].id = tx[q].id /\ tx[q].id # n
  BY <1>0, <1>3, <1>n DEF Open, TxInv
<1>10. ASSUME NEW q \in Recorders PROVE Transaction(q)'
  <2>1. CASE q = r
    BY <1>3, <2>1 DEF Transaction, Open
  <2>2. CASE q # r
    <3>1. tx'[q] = tx[q] /\ Transaction(q)
      BY <1>3, <2>2 DEF TxInv
    <3>2. Open(q)' => tx[q].id \in DOMAIN history \ visible'
      BY <1>1, <1>9, <3>1 DEF Transaction
    <3> QED
      BY <1>1, <1>4, <1>9, <3>1, <3>2 DEF Transaction
  <2> QED
    BY <2>1, <2>2
<1>11. ASSUME NEW u \in Recorders, NEW q \in Recorders, Open(u)', Open(q)', tx'[u].id = tx'[q].id
       PROVE  u = q
  BY <1>9, <1>11 DEF TxInv
<1> QED
  BY <1>7, <1>8, <1>10, <1>11 DEF TxInv

\* Whatever leaves the history, the transactions and the sources alone.
LEMMA OtherStep ==
    ASSUME HistoryInv, UNCHANGED <<history, visible, tx, configured, cards>>, HistoryTypeOK',
           clock' >= clock
    PROVE  HistoryInv'
<1>1. Ordered'
  <2>1. \A i \in DOMAIN history : history[i].at \in Nat
    BY RowFacts DEF HistoryInv
  <2>2. clock \in Nat /\ clock' \in Nat
    BY DEF HistoryInv, HistoryTypeOK
  <2> QED
    BY <2>1, <2>2 DEF HistoryInv, Ordered
<1>2. CheckedInv'
  BY KeepsChecked DEF HistoryInv
<1>3. TxInv'
  BY DEF HistoryInv, TxInv, Transaction, Open
<1> QED
  BY <1>1, <1>2, <1>3 DEF HistoryInv

\* A new source keeps the time of the last check.
LEMMA UpsertStep ==
    ASSUME HistoryInv, NEW c \in AllCards, NEW s \in Sources, UpsertPriceSource(c, s)
    PROVE  HistoryInv'
<1> USE DEF HistoryInv
<1> DEFINE old == IF configured[c] = None THEN None ELSE configured[c].checkedAt
           new == [source |-> s, checkedAt |-> old]
<1>1. configured' = [configured EXCEPT ![c] = new] /\ c \in cards
  BY DEF UpsertPriceSource
<1>2. new \in Source /\ new.checkedAt = old
  <2>1. old \in Nat \cup {None}
    BY DEF HistoryTypeOK, Source
  <2> HIDE DEF old
  <2> QED
    BY <2>1 DEF Source
<1>3. /\ old = None <=> Rows(c) = {}
      /\ Rows(c) # {} => \E i \in Current(Rows(c)) : history[i].at <= old
  BY <1>1 DEF CheckedInv
<1> HIDE DEF old, new
<1>4. /\ configured' \in [AllCards -> Source \cup {None}] /\ configured'[c] = new /\ new # None
      /\ \A d \in AllCards \ {c} : configured'[d] = configured[d]
  BY <1>1, <1>2, PriceHistoryAssumption DEF HistoryTypeOK
<1>5. UNCHANGED <<clock, cards, history, visible, tx, owned>>
  BY DEF UpsertPriceSource
<1>6. CheckedInv'
  <2>1. \A d \in AllCards : Rows(d)' = Rows(d) /\ Current(Rows(d))' = Current(Rows(d))
    BY <1>5 DEF Rows, Current
  <2> HIDE DEF Rows, Current
  <2> QED
    BY <1>1, <1>2, <1>3, <1>4, <1>5, <2>1 DEF CheckedInv
<1>7. HistoryTypeOK' /\ Ordered'
  BY <1>4, <1>5 DEF HistoryTypeOK, Ordered
<1>8. TxInv'
  BY <1>4, <1>5 DEF TxInv, Transaction, Open
<1> QED
  BY <1>6, <1>7, <1>8

\* A deleted card has neither a source nor a way back into the catalog.
LEMMA DeleteStep ==
    ASSUME HistoryInv, NEW c \in AllCards, DeleteCard(c)
    PROVE  HistoryInv'
<1> USE DEF HistoryInv
<1>1. /\ cards' = cards \ {c} /\ c \notin owned /\ UNCHANGED <<clock, history, visible, tx, owned>>
      /\ configured' = [configured EXCEPT ![c] = None] /\ ~RowLocked(c)
  BY DEF DeleteCard
<1>2. \A d \in AllCards : Rows(d)' = Rows(d) /\ Current(Rows(d))' = Current(Rows(d))
  BY <1>1 DEF Rows, Current
<1>3. configured'[c] = None /\ \A d \in AllCards \ {c} : configured'[d] = configured[d]
  BY <1>1 DEF HistoryTypeOK
<1>4. CheckedInv'
  <2> HIDE DEF Rows, Current
  <2> QED
    BY <1>1, <1>2, <1>3 DEF CheckedInv
<1>5. HistoryTypeOK' /\ Ordered'
  BY <1>1 DEF HistoryTypeOK, Ordered
<1>6. \A r \in Recorders : tx[r].pc = "touched" => tx[r].card # c
  BY <1>1 DEF RowLocked
<1>7. TxInv'
  BY <1>1, <1>3, <1>6 DEF TxInv, Transaction, Open
<1> QED
  BY <1>4, <1>5, <1>7

\* Every step preserves the order of the history.
LEMMA HistoryStep ==
    ASSUME HistoryInv, [HistoryNext]_historyVars
    PROVE  HistoryInv'
<1>1. ASSUME NEW c \in AllCards, DeleteCard(c) PROVE HistoryInv'
  BY <1>1, DeleteStep
<1>2. ASSUME NEW c \in AllCards, Own(c) PROVE HistoryInv'
  <2>1. HistoryTypeOK' /\ UNCHANGED <<history, visible, tx, configured, clock, cards>>
    BY <1>2 DEF HistoryInv, HistoryTypeOK, Own
  <2>2. clock' >= clock
    BY <2>1 DEF HistoryInv, HistoryTypeOK
  <2> QED
    BY <2>1, <2>2, OtherStep
<1>3. ASSUME NEW c \in AllCards, NEW s \in Sources, UpsertPriceSource(c, s) PROVE HistoryInv'
  BY <1>3, UpsertStep
<1>4. ASSUME NEW r \in Recorders, RecordPriceCheck(r) PROVE HistoryInv'
  BY <1>4, ListStep, InsertStep, TouchStep, CommitStep, RollbackStep DEF RecordPriceCheck
<1>5. CASE QueryMovers \/ AnswerMovers \/ UNCHANGED historyVars
  <2>1. HistoryTypeOK' /\ UNCHANGED <<history, visible, tx, configured, clock, cards>>
    BY <1>5 DEF HistoryInv, HistoryTypeOK, QueryMovers, AnswerMovers, historyVars
  <2>2. clock' >= clock
    BY <2>1 DEF HistoryInv, HistoryTypeOK
  <2> QED
    BY <2>1, <2>2, OtherStep
<1>6. CASE Tick
  <2>1. HistoryTypeOK' /\ clock' >= clock /\ UNCHANGED <<history, visible, tx, configured, cards>>
    BY <1>6 DEF HistoryInv, HistoryTypeOK, Tick
  <2> QED
    BY <2>1, OtherStep
<1> QED
  BY <1>1, <1>2, <1>3, <1>4, <1>5, <1>6 DEF HistoryNext

\* Between the two statements a card only goes by being deleted.
LEMMA MoversStep ==
    ASSUME HistoryInv, MoversInv, [HistoryNext]_historyVars
    PROVE  MoversInv'
<1> USE DEF MoversInv, NamelessMeansDeleted
<1>1. ASSUME NEW c \in AllCards, DeleteCard(c) PROVE MoversInv'
  <2>1. CASE movers.pc = "names"
    <3>1. movers' = [pc |-> movers.pc, found |-> movers.found, named |-> movers.named,
                     gone |-> movers.gone \cup {c}]
      BY <1>1, <2>1 DEF DeleteCard
    <3>2. cards' = cards \ {c}
      BY <1>1 DEF DeleteCard
    <3> QED
      BY <2>1, <3>1, <3>2
  <2>2. CASE movers.pc # "names"
    BY <1>1, <2>2 DEF DeleteCard
  <2> QED
    BY <2>1, <2>2
<1>2. ASSUME NEW c \in AllCards, Own(c) PROVE MoversInv'
  BY <1>2 DEF Own
<1>3. ASSUME NEW c \in AllCards, NEW s \in Sources, UpsertPriceSource(c, s) PROVE MoversInv'
  BY <1>3 DEF UpsertPriceSource
<1>4. ASSUME NEW r \in Recorders, RecordPriceCheck(r) PROVE MoversInv'
  BY <1>4 DEF RecordPriceCheck, ListSource, InsertCheck, TouchSource, CommitCheck, Rollback
<1>5. CASE QueryMovers
  <2> DEFINE found == {m.card : m \in FindMovers}
  <2>1. movers' = [pc |-> IF found = {} THEN "rest" ELSE "names", found |-> found,
                   named |-> {}, gone |-> {}]
    BY <1>5 DEF QueryMovers, NoRequest
  <2>2. \A m \in FindMovers : m.card \in cards
    <3>1. SUFFICES ASSUME NEW m \in FindMovers PROVE m.card \in cards
      OBVIOUS
    <3>2. PICK c \in owned : m \in {[card |-> c, move |-> f] : f \in {f \in Moves(c) : Cardinality(DOMAIN f) = 2}}
      BY DEF FindMovers
    <3>3. m.card = c
      BY <3>2
    <3> QED
      BY <3>3 DEF HistoryInv, HistoryTypeOK
  <2>3. cards' = cards /\ found \subseteq cards
    BY <1>5, <2>2 DEF QueryMovers
  <2> HIDE DEF found
  <2> QED
    BY <2>1, <2>3
<1>6. CASE AnswerMovers
  <2>1. /\ movers' = [pc |-> "done", found |-> movers.found,
                     named |-> movers.found \cap cards, gone |-> movers.gone]
        /\ cards' = cards /\ movers.pc = "names"
    BY <1>6 DEF AnswerMovers, Names
  <2> QED
    BY <2>1
<1>7. CASE Tick \/ UNCHANGED historyVars
  BY <1>7 DEF Tick, historyVars
<1> QED
  BY <1>1, <1>2, <1>3, <1>4, <1>5, <1>6, <1>7 DEF HistoryNext

-----------------------------------------------------------------------------
(* What the queries find.                                                  *)

\* The rows of the last second include the last row, which has the highest id.
LEMMA NewestIsLast ==
    ASSUME HistoryInv, NEW S \in SUBSET DOMAIN history, S # {}
    PROVE  /\ Max(S) \in S /\ \A k \in S : k <= Max(S)
           /\ Max(S) \in LastSecond(S)
           /\ Newest(S) = Max(S)
<1> DEFINE m == Max(S)
<1>1. m \in S /\ \A k \in S : k <= m
  BY RowFacts, MaxOf DEF HistoryInv
<1> HIDE DEF m
<1>2. m \in LastSecond(S)
  BY <1>1 DEF HistoryInv, Ordered, LastSecond
<1>3. Max(LastSecond(S)) = m
  <2>1. LastSecond(S) \in SUBSET Nat /\ \A k \in LastSecond(S) : k <= m
    BY <1>1, RowFacts DEF LastSecond, HistoryInv
  <2> QED
    BY <1>2, <2>1, MaxIs
<1> QED
  BY <1>1, <1>2, <1>3 DEF Newest, m

\* No check of a set was committed when an earlier one or its own was begun.
LEMMA LastIsCurrent ==
    ASSUME HistoryInv, NEW S \in SUBSET DOMAIN history, S # {}
    PROVE  Max(S) \in Current(S)
<1> DEFINE m == Max(S)
<1>1. m \in S /\ \A k \in S : k <= m
  BY NewestIsLast
<1> HIDE DEF m
<1>2. ASSUME NEW k \in S, m \in history[k].after PROVE FALSE
  <2>1. m < k
    BY <1>2 DEF HistoryInv, Ordered
  <2> QED
    BY <1>1, <2>1, RowFacts DEF HistoryInv
<1> QED
  BY <1>1, <1>2 DEF Current, m

\* The row with the highest id is a current one and the newest, priced or not.
LEMMA MarketHolds == HistoryInv => MarketShowsCurrentCheck
<1> SUFFICES ASSUME HistoryInv, NEW c \in AllCards, configured[c] # None
             PROVE  LET mp == MarketPrice(c) IN
                    /\ mp.checkedAt = None <=> Rows(c) = {}
                    /\ Rows(c) # {} => \E i \in Current(Rows(c)) : history[i].at <= mp.checkedAt
                    /\ Rows(c) # {} => \E i \in Current(Rows(c)) : mp.price = history[i].price
                    /\ Priced(Rows(c)) # {} =>
                         \E i \in Current(Priced(Rows(c))) : mp.known = history[i].price
                    /\ mp.price # None => mp.known = mp.price
  BY DEF MarketShowsCurrentCheck
<1> DEFINE R == Rows(c)
           K == Priced(R)
<1>1. /\ MarketPrice(c).checkedAt = configured[c].checkedAt
      /\ MarketPrice(c).price = PriceOf(Newest(R))
      /\ MarketPrice(c).known = PriceOf(Newest(K))
  BY DEF MarketPrice
<1>2. /\ configured[c].checkedAt = None <=> R = {}
      /\ R # {} => \E i \in Current(R) : history[i].at <= configured[c].checkedAt
  BY DEF HistoryInv, CheckedInv
<1>3. R \in SUBSET DOMAIN history /\ K \in SUBSET R /\ K \in SUBSET DOMAIN history
      /\ \A i \in R : i \in K <=> history[i].price # None
  BY RowFacts DEF Priced, HistoryInv
<1> HIDE DEF R, K
<1>4. Newest(R) = IF R = {} THEN None ELSE Max(R)
  BY <1>3, NewestIsLast DEF Newest
<1>5. Newest(K) = IF K = {} THEN None ELSE Max(K)
  BY <1>3, NewestIsLast DEF Newest
<1>6. ASSUME PriceOf(Newest(R)) # None
      PROVE  PriceOf(Newest(K)) = PriceOf(Newest(R))
  <2>1. R # {} /\ Max(R) \in R /\ \A k \in R : k <= Max(R)
    BY <1>3, <1>4, <1>6, NewestIsLast DEF PriceOf
  <2>2. Max(R) \in K
    BY <1>3, <1>4, <1>6, <2>1, RowFacts DEF PriceOf, HistoryInv
  <2>3. Max(K) = Max(R)
    BY <1>3, <2>1, <2>2, RowFacts, MaxIs DEF HistoryInv
  <2> QED
    BY <1>4, <1>5, <2>1, <2>2, <2>3
<1>7. ASSUME NEW S \in {R, K}, S # {}
      PROVE  Max(S) \in Current(S) /\ PriceOf(Newest(S)) = history[Max(S)].price
  <2>1. S \in SUBSET DOMAIN history
    BY <1>3
  <2>2. Max(S) \in S /\ Newest(S) = Max(S) /\ Max(S) \in Current(S)
    BY <1>7, <2>1, LastIsCurrent, NewestIsLast
  <2> QED
    BY <2>1, <2>2, RowFacts DEF PriceOf, HistoryInv
<1> QED
  BY <1>1, <1>2, <1>6, <1>7 DEF R, K

\* Days rise with the instants.
LEMMA DayOrder ==
    ASSUME NEW s \in Nat, NEW t \in Nat
    PROVE  DayOf(s) \in Nat /\ (s <= t => DayOf(s) <= DayOf(t))
<1>1. Day \in Nat \ {0}
  BY PriceHistoryAssumption
<1> QED
  BY <1>1 DEF DayOf

\* The days of some rows are finitely many, and any of them have a first and a last.
LEMMA DayFacts ==
    ASSUME HistoryInv, NEW S \in SUBSET DOMAIN history
    PROVE  DaysOf(S) \in SUBSET Nat /\ IsFiniteSet(DaysOf(S)) /\ Bounded(DaysOf(S))
<1>1. \A i \in DOMAIN history : DayOf(history[i].at) \in Nat
  BY RowFacts, DayOrder DEF HistoryInv
<1>2. DaysOf(S) \in SUBSET Nat
  BY <1>1 DEF DaysOf
<1>3. IsFiniteSet(DaysOf(S)) /\ Bounded(DaysOf(S))
  <2>1. DayOf(clock) \in Nat /\ \A i \in DOMAIN history : DayOf(history[i].at) <= DayOf(clock)
    BY RowFacts, DayOrder DEF HistoryInv, HistoryTypeOK, Ordered
  <2>2. DaysOf(S) \subseteq 0..DayOf(clock)
    BY <1>1, <2>1 DEF DaysOf
  <2>3. IsFiniteSet(0..DayOf(clock))
    BY <2>1, FS_Interval
  <2> QED
    BY <2>1, <2>2, <2>3, FS_Subset, SegmentBounded
<1> QED
  BY <1>2, <1>3

\* Every chart has a point for each day of the window, of a row of that day, and
\* there is a chart.
LEMMA ChartFacts ==
    ASSUME HistoryInv, NEW c \in AllCards
    PROVE  /\ Charts(c) # {}
           /\ \A f \in Charts(c) :
                /\ DOMAIN f = DaysOf(InWindow(c))
                /\ \A d \in DOMAIN f :
                     /\ f[d] \in InWindow(c) /\ DayOf(history[f[d]].at) = d
                     /\ \A k \in InWindow(c) :
                          DayOf(history[k].at) = d => history[k].at <= history[f[d]].at
<1> DEFINE W == InWindow(c)
<1>1. W \in SUBSET DOMAIN history
  BY RowFacts DEF HistoryInv
<1>2. Charts(c) # {}
  <2> DEFINE f == [d \in DaysOf(W) |-> Max(OnDay(W, d))]
  <2>1. ASSUME NEW d \in DaysOf(W)
        PROVE  Max(OnDay(W, d)) \in W /\ Max(OnDay(W, d)) \in PointsOfDay(W, d)
    <3>1. OnDay(W, d) # {} /\ OnDay(W, d) \subseteq W
      BY DEF DaysOf, OnDay
    <3>2. OnDay(W, d) \in SUBSET DOMAIN history
      BY <1>1, <3>1
    <3> QED
      BY <3>1, <3>2, NewestIsLast DEF PointsOfDay
  <2>2. f \in Charts(c)
    BY <2>1 DEF Charts
  <2> QED
    BY <2>2
<1>3. ASSUME NEW f \in Charts(c)
      PROVE  DOMAIN f = DaysOf(W) /\ \A d \in DOMAIN f :
               /\ f[d] \in W /\ DayOf(history[f[d]].at) = d
               /\ \A k \in W : DayOf(history[k].at) = d => history[k].at <= history[f[d]].at
  <2>1. f \in [DaysOf(W) -> W] /\ \A d \in DOMAIN f : f[d] \in PointsOfDay(W, d)
    BY DEF Charts
  <2> QED
    BY <2>1 DEF PointsOfDay, LastSecond, OnDay
<1> QED
  BY <1>2, <1>3

\* In a window the last row with a price is of the last day and its last second.
LEMMA TrendsHold == HistoryInv => TrendsUseLastChecks
<1> SUFFICES ASSUME HistoryInv, NEW c \in AllCards, NEW f \in Trends(c)
             PROVE  /\ \A d \in DOMAIN f : \A i \in InWindow(c) :
                         DayOf(history[i].at) = d /\ i > f[d] => history[i].at = history[f[d]].at
                    /\ \A i \in InWindow(c) : DayOf(history[i].at) \in DOMAIN f
                    /\ LET last == Newest(Priced(Rows(c))) IN
                       last \in InWindow(c) => \/ history[f[Max(DOMAIN f)]].price = PriceOf(last)
                                              \/ history[f[Max(DOMAIN f)]].at = history[last].at
  BY DEF TrendsUseLastChecks
<1> DEFINE W == InWindow(c)
           D == DOMAIN f
           K == Priced(Rows(c))
           last == Newest(K)
<1>1. /\ D = DaysOf(W)
      /\ \A d \in D : /\ f[d] \in W /\ DayOf(history[f[d]].at) = d
                      /\ \A k \in W : DayOf(history[k].at) = d => history[k].at <= history[f[d]].at
  BY ChartFacts DEF Trends
<1>2. W \in SUBSET DOMAIN history /\ W \subseteq K /\ K \in SUBSET DOMAIN history
  BY RowFacts DEF InWindow, Priced, HistoryInv
<1>3. \A i \in W : DayOf(history[i].at) \in D
  BY <1>1 DEF DaysOf
<1> HIDE DEF W, K, D
<1>4. ASSUME NEW d \in D, NEW i \in W, DayOf(history[i].at) = d, i > f[d]
      PROVE  history[i].at = history[f[d]].at
  <2>1. history[i].at <= history[f[d]].at
    BY <1>1, <1>4
  <2>2. history[f[d]].at <= history[i].at
    BY <1>1, <1>2, <1>4, RowFacts DEF HistoryInv, Ordered
  <2> QED
    BY <1>1, <1>2, <2>1, <2>2, RowFacts DEF HistoryInv
<1>5. ASSUME last \in W
      PROVE  history[f[Max(D)]].at = history[last].at
  <2> DEFINE p == f[Max(D)]
  <2>1. K # {} /\ last = Max(K) /\ \A k \in K : k <= last
    BY <1>2, <1>5, NewestIsLast
  <2> HIDE DEF last
  <2>2. Max(D) \in D /\ \A d \in D : d <= Max(D)
    <3>1. D \in SUBSET Nat /\ Bounded(D) /\ D # {}
      BY <1>1, <1>2, <1>3, <1>5, DayFacts
    <3> QED
      BY <3>1, MaxOf
  <2>3. p \in W /\ DayOf(history[p].at) = Max(D)
    BY <1>1, <2>2
  <2>4. history[p].at <= history[last].at
    BY <1>2, <1>5, <2>1, <2>3 DEF HistoryInv, Ordered
  <2>5. DayOf(history[last].at) = Max(D)
    <3>1. DayOf(history[p].at) <= DayOf(history[last].at)
      BY <1>2, <1>5, <2>3, <2>4, RowFacts, DayOrder DEF HistoryInv
    <3>2. DayOf(history[last].at) <= Max(D)
      BY <1>3, <1>5, <2>2
    <3>3. DayOf(history[last].at) \in Nat /\ DayOf(history[p].at) \in Nat
      BY <1>2, <1>5, <2>3, RowFacts, DayOrder DEF HistoryInv
    <3> QED
      BY <2>3, <3>1, <3>2, <3>3
  <2>6. history[last].at <= history[p].at
    BY <1>1, <1>5, <2>2, <2>5
  <2> QED
    BY <1>2, <1>5, <2>3, <2>4, <2>6, RowFacts DEF HistoryInv
<1> QED
  BY <1>3, <1>4, <1>5 DEF W, D, K

\* The moves of an owned card are its charts, cut to their last two days.
LEMMA MovesFound ==
    ASSUME NEW c \in owned
    PROVE  {m.move : m \in {m \in FindMovers : m.card = c}}
             = {g \in Moves(c) : Cardinality(DOMAIN g) = 2}
<1> DEFINE G(d) == {g \in Moves(d) : Cardinality(DOMAIN g) = 2}
           M == {m \in FindMovers : m.card = c}
<1>1. FindMovers = UNION {{[card |-> d, move |-> g] : g \in G(d)} : d \in owned}
  BY DEF FindMovers
<1> HIDE DEF G
<1>2. \A m \in M : m.move \in G(c)
  <2> SUFFICES ASSUME NEW m \in FindMovers, m.card = c PROVE m.move \in G(c)
    OBVIOUS
  <2>1. PICK d \in owned : m \in {[card |-> d, move |-> g] : g \in G(d)}
    BY <1>1
  <2>2. m.card = d /\ m.move \in G(d)
    BY <2>1
  <2> QED
    BY <2>2
<1>3. ASSUME NEW g \in G(c) PROVE \E m \in M : m.move = g
  <2>1. [card |-> c, move |-> g] \in FindMovers
    BY <1>1
  <2> QED
    BY <2>1
<1> HIDE DEF M
<1>4. {m.move : m \in M} = G(c)
  BY <1>2, <1>3
<1> QED
  BY <1>4 DEF M, G

\* A card has two days to move between exactly if its chart has two points.
LEMMA MoversAgree == HistoryInv => MoversAgreeWithTrends
<1> SUFFICES ASSUME HistoryInv, NEW c \in owned
             PROVE  LET moves == {m.move : m \in {m \in FindMovers : m.card = c}} IN
                    /\ moves = {} <=> Trends(c) = {}
                    /\ \A m \in moves : \E f \in Trends(c) :
                         /\ Max(DOMAIN m) = Max(DOMAIN f)
                         /\ \A d \in DOMAIN f : d >= Max(DOMAIN m) \/ d <= Min(DOMAIN m)
                         /\ Cardinality(DOMAIN f) = 2 => MoveChange(m) = TrendChange(f)
  BY DEF MoversAgreeWithTrends
<1> DEFINE moves == {g \in Moves(c) : Cardinality(DOMAIN g) = 2}
           D == DaysOf(InWindow(c))
           Cut(f) == [d \in LastTwo(DOMAIN f) |-> f[d]]
<1>1. {m.move : m \in {m \in FindMovers : m.card = c}} = moves
  BY MovesFound
<1>2. c \in AllCards
  BY DEF HistoryInv, HistoryTypeOK
<1>3. D \in SUBSET Nat /\ IsFiniteSet(D) /\ Bounded(D)
  BY <1>2, RowFacts, DayFacts DEF HistoryInv
<1>4. Charts(c) # {} /\ \A f \in Charts(c) : DOMAIN f = D
  BY <1>2, ChartFacts
<1> HIDE DEF D
<1>5. /\ Cardinality(LastTwo(D)) = 2 <=> Cardinality(D) >= 2
      /\ Cardinality(D) >= 2 => \E lo, hi \in D :
           /\ lo < hi /\ LastTwo(D) = {lo, hi}
           /\ \A d \in D : d = hi \/ d <= lo
      /\ Cardinality(D) = 2 => LastTwo(D) = D
  BY <1>3, LastTwoIs
<1>6. Moves(c) = {Cut(f) : f \in Charts(c)} /\ \A f \in Charts(c) : DOMAIN Cut(f) = LastTwo(D)
  BY <1>4 DEF Moves
<1>7. Trends(c) = {f \in Charts(c) : Cardinality(D) >= 2}
  BY <1>4 DEF Trends
<1>8. moves = {Cut(f) : f \in Trends(c)}
  <2> HIDE DEF Cut
  <2> QED
    BY <1>5, <1>6, <1>7
<1>9. moves = {} <=> Trends(c) = {}
  BY <1>8
<1>10. ASSUME NEW f \in Trends(c)
       PROVE  /\ Max(DOMAIN Cut(f)) = Max(DOMAIN f)
              /\ \A d \in DOMAIN f : d >= Max(DOMAIN Cut(f)) \/ d <= Min(DOMAIN Cut(f))
              /\ Cardinality(DOMAIN f) = 2 => MoveChange(Cut(f)) = TrendChange(f)
  <2>1. f \in Charts(c) /\ DOMAIN f = D /\ DOMAIN Cut(f) = LastTwo(D)
        /\ \A d \in LastTwo(D) : Cut(f)[d] = f[d]
    BY <1>4, <1>6, <1>7
  <2> HIDE DEF Cut
  <2>2. PICK lo, hi \in D : /\ lo < hi /\ LastTwo(D) = {lo, hi}
                           /\ \A d \in D : d = hi \/ d <= lo
    BY <1>5, <1>7
  <2>3. Max(D) = hi
    BY <1>3, <2>2, MaxIs
  <2>4. Max(LastTwo(D)) = hi /\ Min(LastTwo(D)) = lo
    BY <1>3, <2>2, MaxIs, MinIs
  <2>5. \A d \in D : d >= hi \/ d <= lo
    BY <1>3, <2>2
  <2>6. ASSUME Cardinality(D) = 2
        PROVE  MoveChange(Cut(f)) = TrendChange(f)
    BY <1>5, <2>1, <2>2, <2>4, <2>6 DEF MoveChange, TrendChange
  <2> QED
    BY <2>1, <2>3, <2>4, <2>5, <2>6
<1> HIDE DEF Cut, moves
<1>11. \A m \in moves : \E f \in Trends(c) :
         /\ Max(DOMAIN m) = Max(DOMAIN f)
         /\ \A d \in DOMAIN f : d >= Max(DOMAIN m) \/ d <= Min(DOMAIN m)
         /\ Cardinality(DOMAIN f) = 2 => MoveChange(m) = TrendChange(f)
  BY <1>8, <1>10
<1> QED
  BY <1>1, <1>9, <1>11

-----------------------------------------------------------------------------

\* All of this holds always.
LEMMA HistoryAlways == HistorySpec => [](HistoryInv /\ MoversInv)
BY InitInv, HistoryStep, MoversStep, PTL DEF HistorySpec

(* GetLatestMarketPricesForSet shows what a check found that no later one supersedes,
   with a time that is not before that of such a check, however the transactions of
   the recorders overlap, fail or share a second.                              *)
THEOREM MarketIsCurrent == HistorySpec => []MarketShowsCurrentCheck
BY HistoryAlways, MarketHolds, PTL

(* The points of GetPriceTrendsForSet are last checks of their days, and the chart
   ends in the last known price of the set's page.                              *)
THEOREM TrendsAreLastChecks == HistorySpec => []TrendsUseLastChecks
BY HistoryAlways, TrendsHold, PTL

(* GetOwnedCardPriceMovers and GetPriceTrendsForSet agree which owned cards moved,
   and between which days.                                                      *)
THEOREM MoversAndTrends == HistorySpec => []MoversAgreeWithTrends
BY HistoryAlways, MoversAgree, PTL

(* A mover that getCardNamesAndSets does not name was deleted since it was found. *)
THEOREM NamelessWereDeleted == HistorySpec => []NamelessMeansDeleted
<1>1. MoversInv => NamelessMeansDeleted
  BY DEF MoversInv
<1> QED
  BY HistoryAlways, <1>1, PTL
=============================================================================
