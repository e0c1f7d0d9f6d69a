---------------------------- MODULE PriceHistory ----------------------------
(***************************************************************************)
(* What three pages read out of the same price checks (be/persist/         *)
(* price_sources.go and price_trends.go): the market price on a set's      *)
(* page, its trend over a week and, on the home page, the last move of the *)
(* cards the user owns.  A card's checks are rows of card_price_history,   *)
(* with the second they were made in and no price when the source listed   *)
(* none; they outlive the card.                                            *)
(*                                                                         *)
(* A check is a transaction of two statements, each with its own time, and *)
(* the transactions of the loop and of the clicks (module PriceSync)       *)
(* interleave; every other action is one statement.  Readers see committed *)
(* rows only.                                                              *)
(***************************************************************************)
EXTENDS Integers, Sequences, FiniteSetsExt

CONSTANTS
    AllCards, Prices, None,
    Sources, TcgRepublic,
    Recorders,  \* the loop and the clicks, one check after another each
    Day,        \* how many instants of the clock a day has
    WindowDays, \* priceTrendWindowDays
    MaxRows,    \* bounds the rows of the history
    MaxClock    \* bounds the clock

Check == [card : AllCards, source : Sources, price : Prices \cup {None}, at : Nat,
          after : SUBSET Nat] \* history: its card's checks that were there before
Source == [source : Sources, checkedAt : Nat \cup {None}]

ASSUME PriceHistoryAssumption ==
    /\ TcgRepublic \in Sources /\ Prices \subseteq Nat
    /\ {Day, WindowDays} \subseteq Nat \ {0} /\ {MaxRows, MaxClock} \subseteq Nat
    /\ None \notin Nat \cup Sources \cup Source

VARIABLES
    clock,
    cards,      \* the catalog
    configured, \* card_price_sources: a Source for each card, or None
    history,    \* card_price_history, a sequence of Check by id
    visible,    \* the ids that are committed
    tx,         \* the transaction of each recorder
    owned,      \* the cards our user owns
    movers      \* the cards the first statement of the home page found, and its answer

historyVars == <<clock, cards, configured, history, visible, tx, owned, movers>>

NoTx == [pc |-> "rest", card |-> None, source |-> None, id |-> None, stamp |-> None]
NoRequest == [pc |-> "rest", found |-> {}, named |-> {}, gone |-> {}]

HistoryInit ==
    /\ clock = 0 /\ cards = AllCards /\ owned = {}
    /\ history = <<>> /\ visible = {} /\ tx = [r \in Recorders |-> NoTx]
    /\ configured = [c \in AllCards |-> None] /\ movers = NoRequest

-----------------------------------------------------------------------------
(* The reads.  A window function that ranks by the second alone may put any of the
   rows of the last second first.                                          *)

\* (A slip: statements outside of a transaction, seen at once.)
RowsAtOnce(c) == {i \in DOMAIN history : history[i].card = c}
Rows(c) == {i \in visible : history[i].card = c}
Priced(S) == {i \in S : history[i].price # None}
DayOf(t) == t \div Day
DaysOf(S) == {DayOf(history[i].at) : i \in S}
OnDay(S, d) == {i \in S : DayOf(history[i].at) = d}
LastSecond(S) == {i \in S : \A k \in S : history[k].at <= history[i].at}

\* ORDER BY recorded_at DESC, id DESC.
Newest(S) == IF S = {} THEN None ELSE Max(LastSecond(S))

PriceOf(i) == IF i = None THEN None ELSE history[i].price

MarketPrice(c) ==
    [checkedAt |-> configured[c].checkedAt,
     price     |-> PriceOf(Newest(Rows(c))),
     known     |-> PriceOf(Newest(Priced(Rows(c))))]

\* WHERE source = 'tcg_republic' AND price_cents IS NOT NULL AND recorded_at >= ...
InWindow(c) == {i \in Priced(Rows(c)) : /\ history[i].source = TcgRepublic
                                        /\ history[i].at >= clock - WindowDays * Day}

\* PARTITION BY DATE(recorded_at) ORDER BY recorded_at DESC: the candidates for the
\* point of a day.  (A slip: ASC.)
FirstOfDay(S, d) == {i \in OnDay(S, d) : \A k \in OnDay(S, d) : history[i].at <= history[k].at}
PointsOfDay(S, d) == LastSecond(OnDay(S, d))

Charts(c) == {f \in [DaysOf(InWindow(c)) -> InWindow(c)] :
                 \A d \in DOMAIN f : f[d] \in PointsOfDay(InWindow(c), d)}

\* GetPriceTrendsForSet: the charts it may answer with, none for a single day.
Trends(c) == {f \in Charts(c) : Cardinality(DOMAIN f) >= 2}
TrendChange(f) == history[f[Max(DOMAIN f)]].price - history[f[Min(DOMAIN f)]].price

\* day_rank <= 2: the latest day and the one before.  (A slip: the first and the last.)
OuterDays(days) == {d \in days : d \in {Min(days), Max(days)}}
LastTwo(days) == {d \in days : Cardinality({e \in days : e > d}) < 2}

Moves(c) == {[d \in LastTwo(DOMAIN f) |-> f[d]] : f \in Charts(c)}
MoveChange(f) == history[f[Max(DOMAIN f)]].price - history[f[Min(DOMAIN f)]].price

-----------------------------------------------------------------------------

\* A row of card_price_sources that an open transaction has updated.
RowLocked(c) == \E r \in Recorders : tx[r].pc = "touched" /\ tx[r].card = c

\* set-price-sources: never touches last_checked_at.
UpsertPriceSource(c, s) ==
    /\ c \in cards /\ ~RowLocked(c)
    /\ configured' = [configured EXCEPT ![c] =
         [source |-> s, checkedAt |-> IF @ = None THEN None ELSE @.checkedAt]]
    /\ UNCHANGED <<clock, cards, history, visible, tx, owned, movers>>

\* ListPriceSourcesForURL: the card and the source of the check to be recorded.  Both
\* may be edited or deleted before it is.
ListSource(r, c) ==
    /\ tx[r].pc = "rest" /\ configured[c] # None
    /\ tx' = [tx EXCEPT ![r] =
         [NoTx EXCEPT !.pc = "listed", !.card = c, !.source = configured[c].source]]
    /\ UNCHANGED <<clock, cards, configured, history, visible, owned, movers>>

\* RecordPriceCheck.  The INSERT, which waits for nobody: recorded_at is its time and
\* the id the next one, whatever becomes of it.
InsertCheck(r, price) ==
    LET c == tx[r].card IN
    /\ tx[r].pc = "listed" /\ Len(history) < MaxRows
    /\ history' = Append(history, [card |-> c, source |-> tx[r].source, price |-> price,
                                  at |-> clock, after |-> Rows(c)])
    /\ tx' = [tx EXCEPT ![r].pc = "inserted", ![r].id = Len(history) + 1]
    /\ UNCHANGED <<clock, cards, configured, visible, owned, movers>>

\* The UPDATE, whatever was found: NOW() is when it was sent, which may be before it
\* gets the row's lock.  A deleted card has no row, and that is no error.
TouchSource(r) ==
    LET c == tx[r].card IN
    /\ tx[r].pc = "inserted" /\ ~RowLocked(c)
    /\ \E sent \in history[tx[r].id].at..clock :
         tx' = [tx EXCEPT ![r].pc = "touched",
                          ![r].stamp = IF configured[c] = None THEN None ELSE sent]
    /\ UNCHANGED <<clock, cards, configured, history, visible, owned, movers>>

CommitCheck(r) ==
    /\ tx[r].pc = "touched"
    /\ visible' = visible \cup {tx[r].id}
    /\ configured' = IF tx[r].stamp = None THEN configured
                     ELSE [configured EXCEPT ![tx[r].card].checkedAt = tx[r].stamp]
    /\ tx' = [tx EXCEPT ![r] = NoTx]
    /\ UNCHANGED <<clock, cards, history, owned, movers>>

\* A statement or the commit fails, the deadline passes, or the process dies.
Rollback(r) ==
    /\ tx[r].pc # "rest"
    /\ tx' = [tx EXCEPT ![r] = NoTx]
    /\ UNCHANGED <<clock, cards, configured, history, visible, owned, movers>>

\* process-set --refresh: takes the source along, the history stays, an owned card too.
DeleteCard(c) ==
    /\ c \in cards \ owned /\ ~RowLocked(c)
    /\ cards' = cards \ {c}
    /\ configured' = [configured EXCEPT ![c] = None]
    /\ movers' = IF movers.pc = "names" THEN [movers EXCEPT !.gone = @ \cup {c}] ELSE movers
    /\ UNCHANGED <<clock, history, visible, tx, owned>>

Own(c) ==
    /\ c \in cards
    /\ owned' = IF c \in owned THEN owned \ {c} ELSE owned \cup {c}
    /\ UNCHANGED <<clock, cards, configured, history, visible, tx, movers>>

\* GetOwnedCardPriceMovers: the moves, then the names, in two statements.
FindMovers ==
    UNION {{[card |-> c, move |-> f] : f \in {f \in Moves(c) : Cardinality(DOMAIN f) = 2}}
             : c \in owned}

QueryMovers ==
    /\ movers.pc # "names"
    /\ LET found == {m.card : m \in FindMovers} IN
       movers' = [NoRequest EXCEPT !.pc = IF found = {} THEN "rest" ELSE "names", !.found = found]
    /\ UNCHANGED <<clock, cards, configured, history, visible, tx, owned>>

\* getCardNamesAndSets.  (A slip: the names of the cards the user still owns.)
NamesOfOwned == owned
Names == cards

AnswerMovers ==
    /\ movers.pc = "names"
    /\ movers' = [movers EXCEPT !.pc = "done", !.named = movers.found \cap Names]
    /\ UNCHANGED <<clock, cards, configured, history, visible, tx, owned>>

Tick ==
    /\ clock < MaxClock
    /\ clock' = clock + 1
    /\ UNCHANGED <<cards, configured, history, visible, tx, owned, movers>>

RecordPriceCheck(r) ==
    \/ \E c \in AllCards : ListSource(r, c)
    \/ \E p \in Prices \cup {None} : InsertCheck(r, p)
    \/ TouchSource(r)
    \/ CommitCheck(r)
    \/ Rollback(r)

HistoryNext ==
    \/ \E c \in AllCards : DeleteCard(c) \/ Own(c)
    \/ \E c \in AllCards, s \in Sources : UpsertPriceSource(c, s)
    \/ \E r \in Recorders : RecordPriceCheck(r)
    \/ QueryMovers \/ AnswerMovers \/ Tick

HistorySpec == HistoryInit /\ [][HistoryNext]_historyVars

-----------------------------------------------------------------------------

\* The checks of a set that no later one supersedes: none of them was begun when they
\* were committed.  (Two checks that overlap supersede neither the other.)
Current(S) == {i \in S : \A k \in S : i \notin history[k].after}

(* "In one transaction so a crash between the two can't leave last_checked_at stale
   relative to history (or vice versa)": however checks of a card overlap, fail, wait
   for each other or share a second, its time is missing exactly if it has no check,
   and never before that of a check that is current; the price is what a current check
   found, nothing if it found nothing, and the last known price that of a current one
   among those that found any. *)
MarketShowsCurrentCheck ==
    \A c \in AllCards : configured[c] # None =>
        LET mp == MarketPrice(c) IN
        /\ mp.checkedAt = None <=> Rows(c) = {}
        /\ Rows(c) # {} => \E i \in Current(Rows(c)) : history[i].at <= mp.checkedAt
        /\ Rows(c) # {} => \E i \in Current(Rows(c)) : mp.price = history[i].price
        /\ Priced(Rows(c)) # {} =>
             \E i \in Current(Priced(Rows(c))) : mp.known = history[i].price
        /\ mp.price # None => mp.known = mp.price

(* The point of a day is the day's last check that found a price, or one of the same
   second, and the chart ends in the last known price the set's page shows, if that
   is one of TCG Republic and of this week. *)
TrendsUseLastChecks ==
    \A c \in AllCards : \A f \in Trends(c) :
        /\ \A d \in DOMAIN f : \A i \in InWindow(c) :
             DayOf(history[i].at) = d /\ i > f[d] => history[i].at = history[f[d]].at
        /\ \A i \in InWindow(c) : DayOf(history[i].at) \in DOMAIN f
        /\ LET last == Newest(Priced(Rows(c))) IN
           last \in InWindow(c) => \/ history[f[Max(DOMAIN f)]].price = PriceOf(last)
                                   \/ history[f[Max(DOMAIN f)]].at = history[last].at

(* The home page and the set's page agree on an owned card: it has moved exactly if it
   has a trend; the move ends on the chart's last day, begins on the day of the chart
   before that, and for a chart of two days they show one change. *)
MoversAgreeWithTrends ==
    \A c \in owned :
        LET moves == {m.move : m \in {m \in FindMovers : m.card = c}} IN
        /\ moves = {} <=> Trends(c) = {}
        /\ \A m \in moves : \E f \in Trends(c) :
             /\ Max(DOMAIN m) = Max(DOMAIN f)
             /\ \A d \in DOMAIN f : d >= Max(DOMAIN m) \/ d <= Min(DOMAIN m)
             /\ Cardinality(DOMAIN f) = 2 => MoveChange(m) = TrendChange(f)

(* The names come from a second statement.  A mover without a name and a set to link to
   is a card that was given up and then deleted between the two, never one the user
   still owns. *)
NamelessMeansDeleted ==
    movers.pc = "done" => movers.found \ movers.named \subseteq movers.gone
=============================================================================
