------------------------------ MODULE MCPrices ------------------------------
(* Instances of PriceSync and PriceHistory for TLC.  The two share no variable *)
(* (what a syncer records is any check to the history), so every behaviour     *)
(* steps only one of them, and of PriceHistory there are two parts with bounds *)
(* of their own: checks of two cards nobody owns, which overlap, fail and      *)
(* share seconds; and days of checks of one card, one after another, with the  *)
(* home page of its owner.                                                     *)
EXTENDS PriceSync, PriceHistory

CONSTANTS
    OverlapRows, OverlapClock  \* bound the rows and the clock of the second part

VARIABLE part

Busy == {r \in Recorders : tx[r].pc # "rest"}
Touched == {c \in AllCards : configured[c] # None} \cup owned \cup (AllCards \ cards)

OnlyTcg(S) == \A x \in S : x = None \/ x.source = TcgRepublic

OverlapBounds ==
    /\ owned = {} /\ Len(history) <= OverlapRows /\ clock <= OverlapClock
    /\ OnlyTcg({configured[c] : c \in AllCards})

\* Only the first check may be of another source.
DaysBounds ==
    /\ Busy \subseteq {CHOOSE r \in Recorders : TRUE}
    /\ Touched \subseteq {CHOOSE c \in AllCards : TRUE}
    /\ visible = {} \/ OnlyTcg({configured[c] : c \in AllCards} \cup {tx[r] : r \in Busy})
    /\ OnlyTcg({history[i] : i \in DOMAIN history \ {1}})
    /\ DOMAIN history \subseteq visible \cup {tx[r].id : r \in Busy}

PricesInit ==
    /\ Init /\ HistoryInit
    /\ part \in {"sync", "overlap", "days"}
    /\ part = "sync" \/ Configured = {}

SyncPart == part = "sync" /\ Next /\ UNCHANGED historyVars
HistoryPart ==
    /\ part # "sync" /\ HistoryNext /\ UNCHANGED vars
    /\ IF part = "overlap" THEN OverlapBounds' ELSE DaysBounds'

PricesSpec ==
    PricesInit /\ [][(SyncPart \/ HistoryPart) /\ UNCHANGED part]_<<vars, historyVars, part>>
    /\ Fairness
=============================================================================
