---------------------------- MODULE ModelDisplay ----------------------------
(***************************************************************************)
(* The remote-controlled model display: ModelDisplay and its WebSocket     *)
(* handler (be/handlers/model_display.go) with the display page that holds *)
(* the other end (fe/src/components/ModelDisplay.tsx).                     *)
(*                                                                         *)
(* A writer is a controller's stream of requests, one after the other.     *)
(* Every critical section of the mutex is one action, and so is every      *)
(* select on a subscriber's channel: broadcast runs outside the lock.      *)
(* A connection is named by its display and its number among the           *)
(* connections of that page.                                               *)
(***************************************************************************)
EXTENDS Integers, FiniteSets

CONSTANTS
    Displays,     \* display pages
    Writers,      \* controllers that send requests at the same time
    Chars,        \* imported characters, and "" (nothing selected)
    Flips, Views, \* orientations; pan/zoom corrections
    NoChar, NoFlip, NoView,  \* the zero values
    MaxConnects,  \* bounds the connections a page opens
    MaxVersion    \* bounds the writes

ASSUME DisplayAssumption ==
    /\ NoChar \in Chars /\ NoFlip \in Flips /\ NoView \in Views
    /\ MaxConnects \in Nat /\ MaxVersion \in Nat

VARIABLES
    state,        \* ModelDisplay.state
    subscribers,  \* ModelDisplay.subscribers
    chan,         \* the pending value of each subscriber's channel
    pc, snap, todo, cur,      \* broadcast of each writer: its copy of the state,
                              \* channels to go, and the one it is draining
    opened, page,             \* connections a page has opened; the open one, or 0
    shown, lastTrigger,       \* state the page renders; lastTriggerRef.current
    version, seed,            \* history: how often state changed, and at which change
                              \* each connection subscribed
    solo, clean,              \* history: whether a writer's request has run alone so
                              \* far; the newest copy that was broadcast alone
    clicks                    \* history: touches played by each page

store == <<state, subscribers, version>>
casting == <<pc, snap, todo, cur, solo, clean>>
client == <<opened, page, shown, lastTrigger, clicks>>
vars == <<store, chan, casting, client, seed>>

-----------------------------------------------------------------------------

Conns == Displays \X (1..MaxConnects)
State == [char : Chars, flip : Flips, view : Views, trigger : Nat]
Blank == [char |-> NoChar, flip |-> NoFlip, view |-> NoView, trigger |-> 0]

\* A value on its way: the state and which of its changes it was copied at.
Msg == [body : State, ver : Nat]
Now == [body |-> state, ver |-> version]
Empty == [body |-> Blank, ver |-> -1]

\* lastTriggerRef before the first message.
Null == -1

Init ==
    /\ state = Blank
    /\ subscribers = {}
    /\ version = 0
    /\ chan = [c \in Conns |-> Empty]
    /\ pc = [w \in Writers |-> "idle"]
    /\ snap = [w \in Writers |-> Empty]
    /\ todo = [w \in Writers |-> {}]
    /\ cur = [w \in Writers |-> <<>>]
    /\ opened = [d \in Displays |-> 0]
    /\ page = [d \in Displays |-> 0]
    /\ shown = [d \in Displays |-> Empty]
    /\ lastTrigger = [d \in Displays |-> Null]
    /\ seed = [c \in Conns |-> 0]
    /\ solo = [w \in Writers |-> FALSE]
    /\ clean = 0
    /\ clicks = [d \in Displays |-> 0]

-----------------------------------------------------------------------------
(* The four writers: Set, SetFlip, SetTransform, IncrementTrigger.         *)

Change(w, s) ==
    /\ pc[w] = "idle" /\ version < MaxVersion
    /\ state' = s
    /\ version' = version + 1
    /\ pc' = [pc EXCEPT ![w] = "broadcast"]
    /\ solo' = [v \in Writers |-> v = w /\ \A u \in Writers \ {w} : pc[u] = "idle"]
    /\ UNCHANGED <<subscribers, chan, snap, todo, cur, clean, client, seed>>

Set(w, c, f) == Change(w, [state EXCEPT !.char = c, !.flip = f])
SetFlip(w, f) == Change(w, [state EXCEPT !.flip = f])
SetTransform(w, v) == Change(w, [state EXCEPT !.view = v])
IncrementTrigger(w) == Change(w, [state EXCEPT !.trigger = @ + 1])

-----------------------------------------------------------------------------
(* broadcast.                                                              *)

\* To the next channel, or back to the handler, which answers 200.
GoOn(w, sent, rest) ==
    /\ todo' = [todo EXCEPT ![w] = rest]
    /\ pc' = [pc EXCEPT ![w] = IF rest = {} THEN "idle" ELSE "send"]
    /\ clean' = IF rest = {} /\ solo[w] THEN sent.ver ELSE clean
    /\ UNCHANGED solo

\* The state broadcast sends.  (A slip: the copy of an earlier broadcast.)
CopyOnce(w) == IF snap[w] = Empty THEN Now ELSE snap[w]
Copy(w) == Now

\* Under the lock: copy the state and the channels.
Snapshot(w) ==
    /\ pc[w] = "broadcast"
    /\ snap' = [snap EXCEPT ![w] = Copy(w)]
    /\ GoOn(w, Copy(w), subscribers)
    /\ UNCHANGED <<store, chan, cur, client, seed>>

\* The outer select, on the next channel in map order: send if it has room.
TrySend(w, c) ==
    /\ pc[w] = "send" /\ c \in todo[w]
    /\ \/ /\ chan[c] = Empty
          /\ chan' = [chan EXCEPT ![c] = snap[w]]
          /\ GoOn(w, snap[w], todo[w] \ {c})
          /\ UNCHANGED cur
       \/ /\ chan[c] # Empty
          /\ pc' = [pc EXCEPT ![w] = "drain"]
          /\ cur' = [cur EXCEPT ![w] = c]
          /\ UNCHANGED <<chan, todo, solo, clean>>
    /\ UNCHANGED <<store, snap, client, seed>>

\* Throw the pending value away, unless the display has taken it meanwhile.  (A
\* slip: keep it.)
Kept(m) == m
Drained(m) == Empty
Drain(w) ==
    /\ pc[w] = "drain"
    /\ chan' = [chan EXCEPT ![cur[w]] = Drained(@)]
    /\ pc' = [pc EXCEPT ![w] = "resend"]
    /\ UNCHANGED <<store, snap, todo, cur, solo, clean, client, seed>>

\* Send again, or give up if another broadcast was faster.
Resend(w) ==
    /\ pc[w] = "resend"
    /\ chan' = [chan EXCEPT ![cur[w]] = IF @ = Empty THEN snap[w] ELSE @]
    /\ GoOn(w, snap[w], todo[w] \ {cur[w]})
    /\ cur' = [cur EXCEPT ![w] = <<>>]
    /\ UNCHANGED <<store, snap, client, seed>>

-----------------------------------------------------------------------------
(* ServeModelDisplayWS and the page.                                       *)

\* The page connects (again); the handler upgrades and subscribes.
Subscribe(d) ==
    LET c == <<d, opened[d] + 1>> IN
    /\ page[d] = 0 /\ opened[d] < MaxConnects
    /\ opened' = [opened EXCEPT ![d] = @ + 1]
    /\ page' = [page EXCEPT ![d] = opened[d] + 1]
    /\ subscribers' = subscribers \cup {c}
    /\ chan' = [chan EXCEPT ![c] = Now]
    /\ seed' = [seed EXCEPT ![c] = version]
    /\ UNCHANGED <<state, version, casting, shown, lastTrigger, clicks>>

\* applyState plays a touch if it has seen another trigger before.
Touched(d, t) == lastTrigger[d] \notin {Null, t}

\* The write loop takes the pending value.  It reaches the page unless that has
\* lost the connection.
Deliver(d, n) ==
    LET m == chan[<<d, n>>] IN
    /\ <<d, n>> \in subscribers /\ m # Empty
    /\ chan' = [chan EXCEPT ![<<d, n>>] = Empty]
    /\ IF page[d] = n
       THEN /\ shown' = [shown EXCEPT ![d] = m]
            /\ lastTrigger' = [lastTrigger EXCEPT ![d] = m.body.trigger]
            /\ clicks' = [clicks EXCEPT ![d] =
                   IF Touched(d, m.body.trigger) THEN @ + 1 ELSE @]
       ELSE UNCHANGED <<shown, lastTrigger, clicks>>
    /\ UNCHANGED <<store, casting, opened, page, seed>>

\* onclose: the page keeps what it shows, and lastTriggerRef.
PageCloses(d) ==
    /\ page[d] # 0
    /\ page' = [page EXCEPT ![d] = 0]
    /\ UNCHANGED <<store, chan, casting, opened, shown, lastTrigger, seed, clicks>>

\* The read loop, a ping or a write notices the end of the connection, before or
\* after the page does.  The last one out clears the state.  (A slip: everyone does.)
AnyOut(c) == TRUE
LastOut(c) == subscribers = {c}
Unsubscribe(c) ==
    /\ c \in subscribers
    /\ subscribers' = subscribers \ {c}
    /\ IF LastOut(c)
       THEN state' = Blank /\ version' = version + 1
       ELSE UNCHANGED <<state, version>>
    /\ UNCHANGED <<chan, casting, client, seed>>

\* The process restarts: everything but the pages is gone.
Restart ==
    /\ state # Blank \/ subscribers # {}
    /\ state' = Blank /\ subscribers' = {} /\ version' = version + 1
    /\ chan' = [c \in Conns |-> Empty]
    /\ pc' = [w \in Writers |-> "idle"]
    /\ todo' = [w \in Writers |-> {}]
    /\ cur' = [w \in Writers |-> <<>>]
    /\ UNCHANGED <<snap, solo, clean, client, seed>>

-----------------------------------------------------------------------------

Control(w) ==
    \/ \E c \in Chars, f \in Flips : Set(w, c, f)
    \/ \E f \in Flips : SetFlip(w, f)
    \/ \E v \in Views : SetTransform(w, v)
    \/ IncrementTrigger(w)

Broadcast(w) ==
    \/ Snapshot(w)
    \/ \E c \in Conns : TrySend(w, c)
    \/ Drain(w)
    \/ Resend(w)

Next ==
    \/ \E w \in Writers : Control(w) \/ Broadcast(w)
    \/ \E d \in Displays : Subscribe(d) \/ PageCloses(d)
    \/ \E d \in Displays, n \in 1..MaxConnects : Deliver(d, n)
    \/ \E c \in Conns : Unsubscribe(c)
    \/ Restart

\* A broadcast never waits, so its goroutine runs to the end; a write loop whose
\* channel holds a value takes it, for select prefers no case for ever.  Nobody
\* has to press a button, connect or disconnect.
Fairness ==
    /\ \A w \in Writers : WF_vars(Broadcast(w))
    /\ \A d \in Displays, n \in 1..MaxConnects : WF_vars(Deliver(d, n))

Spec == Init /\ [][Next]_vars /\ Fairness

-----------------------------------------------------------------------------

MsgOrEmpty == Msg \cup {Empty}

\* Every variable holds a value of its type.
TypeOK ==
    /\ state \in State
    /\ version \in Nat
    /\ subscribers \in SUBSET Conns
    /\ chan \in [Conns -> MsgOrEmpty]
    /\ pc \in [Writers -> {"idle", "broadcast", "send", "drain", "resend"}]
    /\ snap \in [Writers -> MsgOrEmpty]
    /\ todo \in [Writers -> SUBSET Conns]
    /\ cur \in [Writers -> Conns \cup {<<>>}]
    /\ opened \in [Displays -> 0..MaxConnects]
    /\ page \in [Displays -> 0..MaxConnects]
    /\ shown \in [Displays -> MsgOrEmpty]
    /\ lastTrigger \in [Displays -> Nat \cup {Null}]
    /\ seed \in [Conns -> Nat]
    /\ solo \in [Writers -> BOOLEAN]
    /\ clean \in Int
    /\ clicks \in [Displays -> Nat]

\* What a connection may count on: the state it was seeded with, and the copy of
\* the last request whose broadcast no other request overlapped.
Due(c) == IF seed[c] > clean THEN seed[c] ELSE clean

\* ModelDisplay: "a subscribe() racing a broadcast() must land cleanly on one side
\* of it or the other": nothing older than what a display connected at, or than a
\* broadcast that ran alone, is waiting for it, however many requests overlap
\* before and after and whoever reconnects.
NeverBackwards ==
    \A c \in subscribers : chan[c] # Empty => chan[c].ver >= Due(c)

Connection(d) == <<d, page[d]>>
Connected(d) == Connection(d) \in subscribers

\* broadcast: "a subscriber that's fallen behind ... should catch up to wherever
\* things are *now*": a display that stays connected comes to show what it may count
\* on, which is the state itself unless the last requests overlapped.
CatchesUp ==
    \A d \in Displays : []<>(Connected(d) =>
        /\ shown[d].ver >= Due(Connection(d))
        /\ Due(Connection(d)) = version => shown[d].body = state)

\* A page plays a touch only for a trigger counted up since what it shows: "a
\* Trigger value left over ... doesn't replay as a phantom touch" (ModelDisplay.tsx).
\* The counter runs back under a page only while the page is away, and between the
\* copies of overlapping requests.
NoPhantomTouch ==
    [][\A d \in Displays : clicks'[d] # clicks[d] =>
          /\ shown[d] # Empty
          /\ \/ shown'[d].body.trigger > shown[d].body.trigger
             \/ shown[d].ver < seed[Connection(d)]
             \/ shown'[d].ver < shown[d].ver]_vars

=============================================================================
