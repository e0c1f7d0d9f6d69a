------------------------- MODULE ModelDisplay_proofs -------------------------
(***************************************************************************)
(* Proofs about ModelDisplay for any number of displays, controllers,      *)
(* connections and writes: types, that nothing older than what a           *)
(* connection may count on is ever waiting for it, and that a page plays   *)
(* no phantom touch.  The first invariant says that a broadcast only holds *)
(* channels that were registered before it copied the state, and that one  *)
(* that has run alone so far has left nothing older than its copy in the   *)
(* channels it is done with; the second, that while anybody is connected   *)
(* no copy counts fewer triggers than an older one.                        *)
(***************************************************************************)
EXTENDS ModelDisplay, TLAPS

\* Only connections a page has opened are subscribed or broadcast to.
Known(c) == c[2] <= opened[c[1]]
KnownOnly ==
    /\ \A c \in subscribers : Known(c)
    /\ \A w \in Writers : \A c \in todo[w] : Known(c)

\* Nothing older than what a connection may count on waits for it or is on its way.
NoStale(c) ==
    /\ seed[c] <= version
    /\ chan[c] # Empty => chan[c].ver >= seed[c] /\ chan[c].ver >= clean
    /\ \A w \in Writers : c \in todo[w] => snap[w].ver >= seed[c]
Fresh == clean <= version /\ \A c \in subscribers : NoStale(c)

\* A broadcast holds channels while it sends, and its copy is no older than the last
\* that was broadcast alone.
Sending(w) == pc[w] \in {"send", "drain", "resend"}
Held(w) ==
    /\ IF Sending(w) THEN clean <= snap[w].ver /\ snap[w].ver <= version ELSE todo[w] = {}
    /\ pc[w] \in {"drain", "resend"} => cur[w] \in todo[w]
Holding == \A w \in Writers : Held(w)

\* A broadcast that nobody overlapped: it is the only one, and every channel it is
\* done with holds its copy or nothing, as does the one it has drained.
Alone(w) ==
    /\ \A v \in Writers : v # w => pc[v] = "idle"
    /\ Sending(w) => \A c \in subscribers :
          c \notin todo[w] /\ chan[c] # Empty => chan[c].ver >= snap[w].ver
    /\ pc[w] = "resend" => chan[cur[w]] = Empty
Lone == \A w \in Writers : solo[w] /\ pc[w] # "idle" => Alone(w)

IInv == TypeOK /\ KnownOnly /\ Fresh /\ Holding /\ Lone

-----------------------------------------------------------------------------

\* Now is a message, and messages have integer versions.
LEMMA MsgFacts ==
  /\ TypeOK => Now \in Msg
  /\ \A m \in MsgOrEmpty : m.ver \in Int
BY DEF TypeOK, Now, Msg, MsgOrEmpty, Empty

\* Every action keeps the types.
LEMMA TypeStep == TypeOK /\ [Next]_vars => TypeOK'
<1> SUFFICES ASSUME TypeOK, [Next]_vars PROVE TypeOK'  OBVIOUS
<1> USE DisplayAssumption, MsgFacts DEF TypeOK
<1>1. Blank \in State
  BY DEF Blank, State
<1>2. ASSUME NEW w \in Writers, NEW s \in State, Change(w, s) PROVE TypeOK'
  BY <1>2 DEF Change, client
<1>3. ASSUME NEW w \in Writers, Control(w) PROVE TypeOK'
  <2>1. ASSUME NEW c \in Chars, NEW f \in Flips, Set(w, c, f) PROVE TypeOK'
    BY <2>1, <1>2 DEF Set, State
  <2>2. ASSUME NEW f \in Flips, SetFlip(w, f) PROVE TypeOK'
    BY <2>2, <1>2 DEF SetFlip, State
  <2>3. ASSUME NEW v \in Views, SetTransform(w, v) PROVE TypeOK'
    BY <2>3, <1>2 DEF SetTransform, State
  <2>4. CASE IncrementTrigger(w)
    <3>1. [state EXCEPT !.trigger = @ + 1] \in State
      <4>1. state.trigger + 1 \in Nat
        BY DEF State
      <4>2. QED
        BY <4>1 DEF State
    <3>2. QED
      BY <2>4, <3>1, <1>2 DEF IncrementTrigger
  <2>5. QED
    BY <1>3, <2>1, <2>2, <2>3, <2>4 DEF Control
<1>4. ASSUME NEW w \in Writers, Snapshot(w) PROVE TypeOK'
  BY <1>4 DEF Snapshot, Copy, GoOn, MsgOrEmpty, store, client
<1>5. ASSUME NEW w \in Writers, NEW c \in Conns, TrySend(w, c) PROVE TypeOK'
  <2>1. CASE chan[c] = Empty
    <3>1. /\ chan' = [chan EXCEPT ![c] = snap[w]]
          /\ todo' = [todo EXCEPT ![w] = todo[w] \ {c}]
          /\ pc' = [pc EXCEPT ![w] = IF todo[w] \ {c} = {} THEN "idle" ELSE "send"]
          /\ clean' \in Int /\ solo' = solo
      BY <1>5, <2>1 DEF TrySend, GoOn
    <3>2. /\ chan' \in [Conns -> MsgOrEmpty] /\ todo' \in [Writers -> SUBSET Conns]
          /\ pc' \in [Writers -> {"idle", "broadcast", "send", "drain", "resend"}]
      BY <3>1
    <3>3. QED
      BY <1>5, <2>1, <3>1, <3>2 DEF TrySend, store, client
  <2>2. CASE chan[c] # Empty
    <3>1. c \in todo[w] /\ cur' = [cur EXCEPT ![w] = c] /\ pc' = [pc EXCEPT ![w] = "drain"]
      BY <1>5, <2>2 DEF TrySend
    <3>2. QED
      BY <1>5, <2>2, <3>1 DEF TrySend, store, client
  <2>3. QED
    BY <2>1, <2>2
<1>6. ASSUME NEW w \in Writers, Drain(w) PROVE TypeOK'
  <2>1. chan' \in [Conns -> MsgOrEmpty]
    BY <1>6 DEF Drain, Drained, MsgOrEmpty
  <2>2. QED
    BY <1>6, <2>1 DEF Drain, store, client
<1>7. ASSUME NEW w \in Writers, Resend(w) PROVE TypeOK'
  BY <1>7 DEF Resend, GoOn, store, client
<1>8. ASSUME NEW d \in Displays, Subscribe(d) PROVE TypeOK'
  <2>1. opened[d] + 1 \in 1..MaxConnects /\ <<d, opened[d] + 1>> \in Conns
    BY <1>8 DEF Subscribe, Conns
  <2>2. opened' \in [Displays -> 0..MaxConnects] /\ page' \in [Displays -> 0..MaxConnects]
    BY <1>8, <2>1 DEF Subscribe
  <2>3. QED
    BY <1>8, <2>1, <2>2 DEF Subscribe, MsgOrEmpty, casting
<1>9. ASSUME NEW d \in Displays, PageCloses(d) PROVE TypeOK'
  BY <1>9 DEF PageCloses, store, casting
<1>10. ASSUME NEW d \in Displays, NEW n \in 1..MaxConnects, Deliver(d, n) PROVE TypeOK'
  <2>1. chan[<<d, n>>] \in Msg /\ <<d, n>> \in Conns
    BY <1>10 DEF Deliver, MsgOrEmpty
  <2>2. chan' \in [Conns -> MsgOrEmpty]
    BY <1>10 DEF Deliver, MsgOrEmpty
  <2>3. CASE page[d] = n
    <3>1. chan[<<d, n>>].body.trigger \in Nat /\ chan[<<d, n>>] \in MsgOrEmpty
      BY <2>1 DEF Msg, State, MsgOrEmpty
    <3>2. shown' \in [Displays -> MsgOrEmpty] /\ lastTrigger' \in [Displays -> Nat \cup {Null}]
      BY <1>10, <2>3, <3>1 DEF Deliver
    <3>3. clicks' \in [Displays -> Nat]
      <4>1. clicks'  = [clicks EXCEPT ![d] =
                           IF Touched(d, chan[<<d, n>>].body.trigger) THEN @ + 1 ELSE @]
        BY <1>10, <2>3 DEF Deliver
      <4>2. QED
        BY <4>1
    <3>4. QED
      BY <1>10, <2>2, <3>2, <3>3 DEF Deliver, store, casting
  <2>4. CASE page[d] # n
    BY <1>10, <2>2, <2>4 DEF Deliver, store, casting
  <2>5. QED
    BY <2>3, <2>4
<1>11. ASSUME NEW c \in Conns, Unsubscribe(c) PROVE TypeOK'
  BY <1>1, <1>11 DEF Unsubscribe, casting, client
<1>12. CASE Restart
  BY <1>1, <1>12 DEF Restart, MsgOrEmpty, client
<1>13. CASE UNCHANGED vars
  BY <1>13 DEF vars, store, casting, client
<1>14. QED
  BY <1>3, <1>4, <1>5, <1>6, <1>7, <1>8, <1>9, <1>10, <1>11, <1>12, <1>13 DEF Next, Broadcast

\* The invariant holds of the initial state and is kept by every action.
LEMMA InvStep == IInv /\ [Next]_vars => IInv'
<1> SUFFICES ASSUME IInv, [Next]_vars PROVE (KnownOnly /\ Fresh /\ Holding /\ Lone)'
  BY TypeStep DEF IInv
<1> USE DisplayAssumption
<1>0. TypeOK /\ TypeOK' /\ Now \in Msg /\ Now.ver = version /\ \A m \in MsgOrEmpty : m.ver \in Int
  BY TypeStep, MsgFacts DEF IInv, Now
<1>a. \A w \in Writers : snap[w].ver \in Int
  BY <1>0 DEF TypeOK
<1>b. clean \in Int /\ version \in Nat /\ seed \in [Conns -> Nat] /\ subscribers \subseteq Conns
  BY <1>0 DEF TypeOK
<1>c. \A c \in Conns : chan[c].ver \in Int
  BY <1>0 DEF TypeOK
<1>d. KnownOnly /\ Fresh /\ Holding /\ Lone
  BY DEF IInv
<1>1. ASSUME NEW w \in Writers, NEW s, Change(w, s) PROVE (KnownOnly /\ Fresh /\ Holding /\ Lone)'
  <2>1. /\ pc[w] = "idle" /\ version' = version + 1 /\ pc' = [pc EXCEPT ![w] = "broadcast"]
        /\ \A v \in Writers : solo'[v] <=> (v = w /\ \A u \in Writers \ {w} : pc[u] = "idle")
        /\ UNCHANGED <<subscribers, chan, snap, todo, cur, clean, opened, seed>>
    BY <1>1 DEF Change, client
  <2>2. KnownOnly'
    BY <1>d, <2>1 DEF KnownOnly, Known
  <2>3. Fresh'
    BY <1>b, <1>d, <2>1 DEF Fresh, NoStale
  <2>4. pc'[w] = "broadcast" /\ \A v \in Writers : v # w => pc'[v] = pc[v]
    BY <1>0, <2>1 DEF TypeOK
  <2>5. Holding'
    BY <1>a, <1>b, <1>d, <2>1, <2>4 DEF Holding, Held, Sending
  <2>6. Lone'
    BY <2>1, <2>4 DEF Lone, Alone, Sending
  <2>7. QED
    BY <2>2, <2>3, <2>5, <2>6
<1>2. ASSUME NEW w \in Writers, Control(w) PROVE (KnownOnly /\ Fresh /\ Holding /\ Lone)'
  BY <1>1, <1>2 DEF Control, Set, SetFlip, SetTransform, IncrementTrigger
<1>3. ASSUME NEW w \in Writers, Snapshot(w) PROVE (KnownOnly /\ Fresh /\ Holding /\ Lone)'
  <2>1. /\ pc[w] = "broadcast" /\ snap' = [snap EXCEPT ![w] = Now]
        /\ todo' = [todo EXCEPT ![w] = subscribers]
        /\ pc' = [pc EXCEPT ![w] = IF subscribers = {} THEN "idle" ELSE "send"]
        /\ clean' = IF subscribers = {} /\ solo[w] THEN version ELSE clean
        /\ UNCHANGED <<subscribers, version, chan, cur, opened, seed, solo>>
    BY <1>0, <1>3 DEF Snapshot, GoOn, Copy, store, client
  <2>2. /\ snap'[w] = Now /\ todo'[w] = subscribers
        /\ pc'[w] = IF subscribers = {} THEN "idle" ELSE "send"
        /\ \A v \in Writers : v # w => snap'[v] = snap[v] /\ todo'[v] = todo[v] /\ pc'[v] = pc[v]
    BY <1>0, <2>1 DEF TypeOK
  <2>3. clean' <= version
    BY <1>b, <1>d, <2>1 DEF Fresh
  <2>4. KnownOnly'
    BY <1>d, <2>1, <2>2 DEF KnownOnly, Known
  <2>5. Fresh'
    BY <1>0, <1>b, <1>d, <2>1, <2>2, <2>3 DEF Fresh, NoStale
  <2>6. Holding'
    <3>1. ASSUME NEW v \in Writers, v # w PROVE Held(v)'
      <4>1. CASE clean' = clean
        BY <1>d, <2>1, <2>2, <3>1, <4>1 DEF Holding, Held, Sending
      <4>2. CASE subscribers = {} /\ solo[w]
        <5>1. pc[v] = "idle"
          BY <1>d, <2>1, <3>1, <4>2 DEF Lone, Alone
        <5>2. QED
          BY <1>d, <2>2, <3>1, <5>1 DEF Holding, Held, Sending
      <4>3. QED
        BY <2>1, <4>1, <4>2
    <3>2. Held(w)'
      BY <1>0, <1>b, <2>1, <2>2, <2>3 DEF Held, Sending
    <3>3. QED
      BY <3>1, <3>2 DEF Holding
  <2>7. Lone'
    <3>1. ASSUME NEW v \in Writers, v # w, solo'[v], pc'[v] # "idle" PROVE FALSE
      BY <1>d, <2>1, <2>2, <3>1 DEF Lone, Alone
    <3>2. ASSUME solo'[w], pc'[w] # "idle" PROVE Alone(w)'
      <4>1. \A v \in Writers : v # w => pc'[v] = "idle"
        BY <1>d, <2>1, <2>2, <3>2 DEF Lone, Alone
      <4>2. QED
        BY <2>1, <2>2, <4>1 DEF Alone, Sending
    <3>3. QED
      BY <3>1, <3>2 DEF Lone
  <2>8. QED
    BY <2>4, <2>5, <2>6, <2>7
\* A broadcast puts its copy into a channel, or finds it full, and goes on.
<1>4. ASSUME NEW w \in Writers, NEW c \in Conns, NEW rest, Sending(w), c \in todo[w],
             rest = todo[w] \ {c}, chan[c] = Empty \/ ~solo[w],
             chan' = [chan EXCEPT ![c] = IF @ = Empty THEN snap[w] ELSE @],
             GoOn(w, snap[w], rest), cur' \in [Writers -> Conns \cup {<<>>}],
             \A v \in Writers : v # w => cur'[v] = cur[v],
             UNCHANGED <<store, snap, opened, seed>>
      PROVE  (KnownOnly /\ Fresh /\ Holding /\ Lone)'
  <2>1. /\ todo' = [todo EXCEPT ![w] = rest]
        /\ pc' = [pc EXCEPT ![w] = IF rest = {} THEN "idle" ELSE "send"]
        /\ clean' = IF rest = {} /\ solo[w] THEN snap[w].ver ELSE clean
        /\ UNCHANGED <<subscribers, version, solo, snap, opened, seed>>
    BY <1>4 DEF GoOn, store
  <2>2. /\ todo'[w] = rest /\ pc'[w] = (IF rest = {} THEN "idle" ELSE "send")
        /\ \A v \in Writers : v # w => todo'[v] = todo[v] /\ pc'[v] = pc[v]
        /\ chan'[c] = IF chan[c] = Empty THEN snap[w] ELSE chan[c]
        /\ \A b \in Conns : b # c => chan'[b] = chan[b]
    BY <1>0, <1>4, <2>1 DEF TypeOK
  <2>3. /\ clean <= snap[w].ver /\ snap[w].ver <= version /\ clean' \in Int
        /\ clean <= clean' /\ clean' <= version /\ clean' <= snap[w].ver
    BY <1>4, <1>a, <1>b, <1>d, <2>1 DEF Holding, Held, Sending, Fresh
  <2>4. KnownOnly'
    BY <1>4, <1>d, <2>1, <2>2 DEF KnownOnly, Known
  <2>5. ASSUME solo[w] PROVE /\ Alone(w) /\ chan'[c] = snap[w]
                             /\ \A v \in Writers : v # w => pc[v] = "idle"
    BY <1>4, <1>d, <2>2, <2>5 DEF Lone, Sending, Alone
  <2>6. Fresh'
    <3>1. ASSUME NEW b \in subscribers, chan'[b] # Empty
          PROVE  chan'[b].ver >= seed[b] /\ chan'[b].ver >= clean'
      <4>1. NoStale(b) /\ b \in Conns /\ snap[w].ver \in Int /\ chan[b].ver \in Int
        BY <1>a, <1>b, <1>c, <1>d DEF Fresh
      <4>2. CASE b = c /\ chan[c] = Empty
        BY <1>4, <1>b, <2>2, <2>3, <4>1, <4>2 DEF NoStale
      <4>3. CASE chan[b] # Empty /\ chan'[b] = chan[b]
        <5>1. chan[b].ver >= seed[b] /\ chan[b].ver >= clean
          BY <4>1, <4>3 DEF NoStale
        <5>2. CASE clean' = clean
          BY <4>3, <5>1, <5>2
        <5>3. CASE rest = {} /\ solo[w]
          <6>1. b \notin todo[w]
            BY <1>4, <2>2, <2>5, <4>3, <5>3
          <6>2. chan[b].ver >= snap[w].ver
            BY <1>4, <2>5, <4>3, <5>3, <6>1 DEF Alone
          <6>3. QED
            BY <2>1, <4>3, <5>1, <5>3, <6>2
        <5>4. QED
          BY <2>1, <5>2, <5>3
      <4>4. QED
        BY <2>2, <3>1, <4>1, <4>2, <4>3
    <3>2. \A v \in Writers : todo'[v] \subseteq todo[v]
      BY <1>4, <2>2
    <3>3. ASSUME NEW b \in subscribers PROVE NoStale(b)'
      <4>1. \A v \in Writers : b \in todo'[v] => snap'[v].ver >= seed'[b]
        BY <1>d, <2>1, <3>2 DEF Fresh, NoStale
      <4>2. seed[b] <= version
        BY <1>d DEF Fresh, NoStale
      <4>3. QED
        BY <2>1, <3>1, <4>1, <4>2 DEF NoStale
    <3>4. QED
      BY <2>1, <2>3, <3>3 DEF Fresh
  <2>7. Holding'
    <3>1. ASSUME NEW v \in Writers, v # w PROVE Held(v)'
      <4>1. CASE clean' = clean
        BY <1>4, <1>d, <2>1, <2>2, <3>1, <4>1 DEF Holding, Held, Sending
      <4>2. CASE solo[w]
        <5>1. pc[v] = "idle"
          BY <2>5, <3>1, <4>2
        <5>2. QED
          BY <1>d, <2>2, <3>1, <5>1 DEF Holding, Held, Sending
      <4>3. QED
        BY <2>1, <4>1, <4>2
    <3>2. Held(w)'
      BY <2>1, <2>2, <2>3 DEF Held, Sending
    <3>3. QED
      BY <3>1, <3>2 DEF Holding
  <2>8. Lone'
    <3>1. ASSUME NEW v \in Writers, v # w, solo'[v], pc'[v] # "idle" PROVE FALSE
      BY <1>4, <1>d, <2>1, <2>2, <3>1 DEF Lone, Alone, Sending
    <3>2. ASSUME solo'[w], pc'[w] # "idle" PROVE Alone(w)'
      <4>1. solo[w] /\ \A v \in Writers : v # w => pc'[v] = "idle"
        BY <2>1, <2>2, <2>5, <3>2
      <4>2. ASSUME NEW b \in subscribers, b \notin todo'[w], chan'[b] # Empty
            PROVE  chan'[b].ver >= snap[w].ver
        <5>1. CASE b = c
          BY <1>a, <2>5, <4>1, <5>1
        <5>2. CASE b # c
          <6>1. b \notin todo[w] /\ chan'[b] = chan[b]
            BY <1>4, <1>b, <2>2, <4>2, <5>2
          <6>2. QED
            BY <1>4, <2>5, <4>1, <4>2, <6>1 DEF Alone
        <5>3. QED
          BY <5>1, <5>2
      <4>3. pc'[w] = "send"
        BY <2>2, <3>2
      <4>4. QED
        BY <2>1, <4>1, <4>2, <4>3 DEF Alone
    <3>3. QED
      BY <3>1, <3>2 DEF Lone
  <2>9. QED
    BY <2>4, <2>6, <2>7, <2>8
<1>5. ASSUME NEW w \in Writers, NEW c \in Conns, TrySend(w, c)
      PROVE  (KnownOnly /\ Fresh /\ Holding /\ Lone)'
  <2>1. /\ pc[w] = "send" /\ c \in todo[w] /\ Sending(w)
        /\ UNCHANGED <<store, snap, opened, seed>>
    BY <1>5 DEF TrySend, Sending, client
  <2>2. CASE chan[c] = Empty
    <3>1. /\ chan' = [chan EXCEPT ![c] = snap[w]] /\ GoOn(w, snap[w], todo[w] \ {c})
          /\ cur' = cur
      BY <1>5, <2>2 DEF TrySend
    <3>2. chan' = [chan EXCEPT ![c] = IF @ = Empty THEN snap[w] ELSE @]
      BY <2>2, <3>1
    <3>3. cur' \in [Writers -> Conns \cup {<<>>}]
      BY <1>0, <3>1 DEF TypeOK
    <3>4. QED
      BY <1>4, <2>1, <2>2, <3>1, <3>2, <3>3
  <2>3. CASE chan[c] # Empty
    <3>1. /\ pc' = [pc EXCEPT ![w] = "drain"] /\ cur' = [cur EXCEPT ![w] = c]
          /\ UNCHANGED <<chan, todo, solo, clean, subscribers, version, snap, opened, seed>>
      BY <1>5, <2>1, <2>3 DEF TrySend, store
    <3>2. /\ pc'[w] = "drain" /\ cur'[w] = c
          /\ \A v \in Writers : v # w => pc'[v] = pc[v] /\ cur'[v] = cur[v]
      BY <1>0, <3>1 DEF TypeOK
    <3>3. KnownOnly' /\ Fresh'
      BY <1>d, <3>1 DEF KnownOnly, Known, Fresh, NoStale
    <3>4. Holding'
      BY <1>d, <2>1, <3>1, <3>2 DEF Holding, Held, Sending
    <3>5. Lone'
      BY <1>d, <2>1, <3>1, <3>2 DEF Lone, Alone, Sending
    <3>6. QED
      BY <3>3, <3>4, <3>5
  <2>4. QED
    BY <2>2, <2>3
<1>6. ASSUME NEW w \in Writers, Drain(w) PROVE (KnownOnly /\ Fresh /\ Holding /\ Lone)'
  <2>1. /\ pc[w] = "drain" /\ cur[w] \in todo[w] /\ cur[w] \in Conns
        /\ chan' = [chan EXCEPT ![cur[w]] = Empty] /\ pc' = [pc EXCEPT ![w] = "resend"]
        /\ UNCHANGED <<subscribers, version, snap, todo, cur, solo, clean, opened, seed>>
    BY <1>0, <1>6, <1>d DEF Drain, Drained, store, client, Holding, Held, TypeOK
  <2>2. /\ pc'[w] = "resend" /\ \A v \in Writers : v # w => pc'[v] = pc[v]
        /\ chan'[cur[w]] = Empty /\ \A b \in Conns : b # cur[w] => chan'[b] = chan[b]
    BY <1>0, <2>1 DEF TypeOK
  <2>3. KnownOnly'
    BY <1>d, <2>1 DEF KnownOnly, Known
  <2>4. Fresh'
    BY <1>b, <1>d, <2>1, <2>2 DEF Fresh, NoStale
  <2>5. Holding'
    BY <1>d, <2>1, <2>2 DEF Holding, Held, Sending
  <2>6. Lone'
    BY <1>b, <1>d, <2>1, <2>2 DEF Lone, Alone, Sending
  <2>7. QED
    BY <2>3, <2>4, <2>5, <2>6
<1>7. ASSUME NEW w \in Writers, Resend(w) PROVE (KnownOnly /\ Fresh /\ Holding /\ Lone)'
  <2>1. /\ pc[w] = "resend" /\ cur[w] \in todo[w] /\ cur[w] \in Conns /\ Sending(w)
        /\ chan[cur[w]] = Empty \/ ~solo[w]
    BY <1>0, <1>7, <1>d DEF Resend, Holding, Held, Lone, Alone, TypeOK, Sending
  <2>2. /\ chan' = [chan EXCEPT ![cur[w]] = IF @ = Empty THEN snap[w] ELSE @]
        /\ GoOn(w, snap[w], todo[w] \ {cur[w]}) /\ cur' = [cur EXCEPT ![w] = <<>>]
        /\ UNCHANGED <<store, snap, opened, seed>>
    BY <1>7 DEF Resend, client
  <2>3. cur' \in [Writers -> Conns \cup {<<>>}] /\ \A v \in Writers : v # w => cur'[v] = cur[v]
    BY <1>0, <2>2 DEF TypeOK
  <2>4. QED
    BY <1>4, <2>1, <2>2, <2>3
<1>8. ASSUME NEW d \in Displays, Subscribe(d) PROVE (KnownOnly /\ Fresh /\ Holding /\ Lone)'
  <2>0. PICK c : c = <<d, opened[d] + 1>>
    OBVIOUS
  <2>1. /\ c \in Conns /\ subscribers' = subscribers \cup {c}
        /\ chan'[c] = Now /\ seed'[c] = version
        /\ \A b \in Conns : b # c => chan'[b] = chan[b] /\ seed'[b] = seed[b]
        /\ UNCHANGED <<version, todo, snap, pc, cur, solo, clean>>
    BY <1>0, <1>8, <2>0 DEF Subscribe, casting, Conns, TypeOK
  <2>2. \A b \in Conns : Known(b) => Known(b)' /\ b # c
    BY <1>0, <1>8, <2>0 DEF Subscribe, Conns, Known, TypeOK
  <2>3. Known(c)'
    BY <1>0, <1>8, <2>0, <2>1 DEF Subscribe, Known, TypeOK
  <2>4. \A w \in Writers : todo[w] \subseteq Conns /\ c \notin todo[w]
    BY <1>0, <1>d, <2>2 DEF KnownOnly, TypeOK
  <2>5. KnownOnly'
    BY <1>b, <1>d, <2>1, <2>2, <2>3, <2>4 DEF KnownOnly
  <2>6. Fresh'
    <3>1. NoStale(c)'
      BY <1>0, <1>b, <1>d, <2>1, <2>4 DEF NoStale, Fresh
    <3>2. ASSUME NEW b \in subscribers, b # c PROVE NoStale(b)'
      BY <1>b, <1>d, <2>1, <3>2 DEF NoStale, Fresh
    <3>3. QED
      BY <1>d, <2>1, <3>1, <3>2 DEF Fresh
  <2>7. Holding'
    BY <1>d, <2>1 DEF Holding, Held, Sending
  <2>8. Lone'
    <3>1. ASSUME NEW w \in Writers, solo[w], pc[w] # "idle" PROVE Alone(w)'
      <4>1. Alone(w) /\ Held(w)
        BY <1>d, <3>1 DEF Lone, Holding
      <4>2. ASSUME Sending(w), NEW b \in subscribers', b \notin todo[w], chan'[b] # Empty
            PROVE  chan'[b].ver >= snap[w].ver
        <5>1. CASE b = c
          BY <1>0, <1>a, <2>1, <4>1, <4>2, <5>1 DEF Held
        <5>2. CASE b # c
          BY <1>b, <2>1, <4>1, <4>2, <5>2 DEF Alone
        <5>3. QED
          BY <5>1, <5>2
      <4>3. pc[w] = "resend" => chan'[cur[w]] = Empty
        <5>1. pc[w] = "resend" => cur[w] \in todo[w] /\ chan[cur[w]] = Empty
          BY <4>1 DEF Alone, Held
        <5>2. QED
          BY <2>1, <2>4, <5>1
      <4>4. QED
        BY <2>1, <4>1, <4>2, <4>3 DEF Alone, Sending
    <3>2. QED
      BY <2>1, <3>1 DEF Lone
  <2>9. QED
    BY <2>5, <2>6, <2>7, <2>8
<1>9. ASSUME NEW d \in Displays, PageCloses(d) PROVE (KnownOnly /\ Fresh /\ Holding /\ Lone)'
  BY <1>9, <1>d DEF PageCloses, store, casting, KnownOnly, Known, Fresh, NoStale, Holding, Held,
     Sending, Lone, Alone
<1>10. ASSUME NEW d \in Displays, NEW n \in 1..MaxConnects, Deliver(d, n)
       PROVE  (KnownOnly /\ Fresh /\ Holding /\ Lone)'
  <2>1. /\ chan' = [chan EXCEPT ![<<d, n>>] = Empty]
        /\ UNCHANGED <<subscribers, version, pc, snap, todo, cur, solo, clean, opened, seed>>
    BY <1>10 DEF Deliver, store, casting
  <2>2. \A b \in Conns : chan'[b] = Empty \/ chan'[b] = chan[b]
    BY <1>0, <2>1 DEF TypeOK
  <2>3. KnownOnly' /\ Holding'
    BY <1>d, <2>1 DEF KnownOnly, Known, Holding, Held, Sending
  <2>4. Fresh'
    BY <1>b, <1>d, <2>1, <2>2 DEF Fresh, NoStale
  <2>5. Lone'
    <3>1. ASSUME NEW w \in Writers, solo[w], pc[w] # "idle" PROVE Alone(w)'
      <4>1. Alone(w) /\ Held(w) /\ todo[w] \subseteq Conns
        BY <1>0, <1>d, <3>1 DEF Lone, Holding, TypeOK
      <4>2. pc[w] = "resend" => cur[w] \in Conns /\ chan[cur[w]] = Empty
        BY <4>1 DEF Alone, Held
      <4>3. QED
        BY <1>b, <2>1, <2>2, <4>1, <4>2 DEF Alone, Sending
    <3>2. QED
      BY <2>1, <3>1 DEF Lone
  <2>6. QED
    BY <2>3, <2>4, <2>5
<1>11. ASSUME NEW c \in Conns, Unsubscribe(c) PROVE (KnownOnly /\ Fresh /\ Holding /\ Lone)'
  <2>1. /\ subscribers' \subseteq subscribers /\ version' \in Nat /\ version <= version'
        /\ UNCHANGED <<chan, pc, snap, todo, cur, solo, clean, opened, seed>>
    BY <1>11, <1>b DEF Unsubscribe, casting, client
  <2>2. KnownOnly' /\ Lone'
    BY <1>d, <2>1 DEF KnownOnly, Known, Lone, Alone, Sending
  <2>3. Fresh' /\ Holding'
    BY <1>a, <1>b, <1>d, <2>1 DEF Fresh, NoStale, Holding, Held, Sending
  <2>4. QED
    BY <2>2, <2>3
<1>12. CASE Restart
  <2>1. /\ subscribers' = {} /\ version' = version + 1
        /\ \A w \in Writers : pc'[w] = "idle" /\ todo'[w] = {}
        /\ UNCHANGED clean
    BY <1>12 DEF Restart
  <2>2. QED
    BY <1>b, <1>d, <2>1 DEF KnownOnly, Fresh, Holding, Held, Sending, Lone
<1>13. CASE UNCHANGED vars
  BY <1>13, <1>d DEF vars, store, casting, client, KnownOnly, Known, Fresh, NoStale, Holding, Held,
     Sending, Lone, Alone
<1>14. QED
  BY <1>2, <1>3, <1>5, <1>6, <1>7, <1>8, <1>9, <1>10, <1>11, <1>12, <1>13 DEF Next, Broadcast

\* Nothing a broadcast still holds, and nothing it has left behind, is stale.
THEOREM InductiveInvariant == Spec => []IInv
<1>1. Init => IInv
  BY DisplayAssumption DEF Init, IInv, TypeOK, State, Blank, MsgOrEmpty, Conns, Null, KnownOnly, Fresh,
     Holding, Held, Sending, Lone
<1>2. QED
  BY <1>1, InvStep, PTL DEF Spec

\* Every variable always holds a value of its type.
THEOREM TypeCorrect == Spec => []TypeOK
BY InductiveInvariant, PTL DEF IInv

\* Nothing older than what a connection may count on is ever waiting for it.
THEOREM NothingStale == Spec => []NeverBackwards
<1>1. IInv => NeverBackwards
  BY DEF IInv, Fresh, NoStale, NeverBackwards, Due
<1>2. QED
  BY <1>1, InductiveInvariant, PTL

-----------------------------------------------------------------------------
(* Phantom touches.                                                        *)

\* The copies of the state there are: where the next one comes from, those waiting
\* in channels or held by broadcasts, and those the pages show.
Copies ==
    {Now, Empty} \cup {chan[c] : c \in Conns} \cup {snap[w] : w \in Writers}
        \cup {shown[d] : d \in Displays}

\* No copy is of the future, and those of the present have the present trigger.
Dated(m) == m.ver <= version /\ (m.ver = version => m.body.trigger = state.trigger)

\* The counter does not run back while anyone is connected: among the copies made
\* since a subscriber connected, a later one counts no fewer triggers.
Counted(c) ==
    \A m1, m2 \in Copies : seed[c] <= m1.ver /\ m1.ver <= m2.ver =>
        m1.body.trigger <= m2.body.trigger

TriggerInv ==
    /\ \A m \in Copies : Dated(m)
    /\ \A c \in subscribers : Counted(c)
    /\ \A d \in Displays : lastTrigger[d] # Null =>
         shown[d] # Empty /\ lastTrigger[d] = shown[d].body.trigger

\* Copies are messages, or Empty.
LEMMA CopyFacts ==
  ASSUME TypeOK
  PROVE  /\ Copies \subseteq MsgOrEmpty
         /\ \A m \in MsgOrEmpty : m.ver \in Int /\ m.body.trigger \in Nat
         /\ Now.ver = version /\ Now.body.trigger = state.trigger
         /\ version \in Nat /\ state.trigger \in Nat /\ Now \in Copies
BY DEF TypeOK, Copies, Now, Msg, MsgOrEmpty, Empty, State, Blank

\* Copies made of the present state say nothing new, and connections that end
\* only leave fewer to keep the promise to.
LEMMA Copying ==
  ASSUME TypeOK, TypeOK', TriggerInv, UNCHANGED <<state, version>>,
         Copies' \subseteq Copies, subscribers' \subseteq subscribers,
         \A c \in subscribers' : seed'[c] = seed[c]
  PROVE  (\A m \in Copies' : Dated(m)') /\ (\A c \in subscribers' : Counted(c)')
BY DEF TriggerInv, Dated, Counted

\* A new version that counts as many triggers, or one more, keeps the order.
LEMMA Counting ==
  ASSUME TypeOK, TypeOK', TriggerInv, version' = version + 1,
         state'.trigger >= state.trigger, Copies' \subseteq Copies \cup {Now'},
         UNCHANGED <<subscribers, seed>>
  PROVE  (\A m \in Copies' : Dated(m)') /\ (\A c \in subscribers' : Counted(c)')
<1>1. /\ \A m \in Copies : m.ver \in Int /\ m.ver <= version /\ m.body.trigger \in Nat
      /\ version \in Nat /\ state.trigger \in Nat /\ state'.trigger \in Nat
      /\ Now.ver = version /\ Now.body.trigger = state.trigger /\ Now \in Copies
  BY CopyFacts DEF TriggerInv, Dated, TypeOK, State
<1>2. Now'.ver = version + 1 /\ Now'.body.trigger = state'.trigger
  BY DEF Now
<1>3. \A m \in Copies' : Dated(m)'
  BY <1>1, <1>2 DEF Dated
<1>4. ASSUME NEW c \in subscribers, NEW m1 \in Copies', NEW m2 \in Copies',
             seed[c] <= m1.ver, m1.ver <= m2.ver
      PROVE  m1.body.trigger <= m2.body.trigger
  <2>1. Counted(c)
    BY DEF TriggerInv
  <2>2. CASE m1 \in Copies /\ m2 \in Copies
    BY <1>4, <2>1, <2>2 DEF Counted
  <2>3. CASE m1 \in Copies /\ m2 = Now'
    <3>1. m1.body.trigger <= Now.body.trigger
      BY <1>1, <1>4, <2>1, <2>3 DEF Counted
    <3>2. QED
      BY <1>1, <1>2, <2>3, <3>1
  <2>4. CASE m1 = Now'
    BY <1>1, <1>2, <1>4, <2>4
  <2>5. QED
    BY <1>4, <2>2, <2>3, <2>4
<1>5. QED
  BY <1>3, <1>4 DEF Counted

\* When the last connection ends, or the process, nobody is left to be promised
\* anything, and every copy there is belongs to the past.
LEMMA Clearing ==
  ASSUME TypeOK, TypeOK', TriggerInv, version' = version + 1,
         Copies' \subseteq Copies \cup {Now'}, subscribers' = {}
  PROVE  (\A m \in Copies' : Dated(m)') /\ (\A c \in subscribers' : Counted(c)')
<1>1. \A m \in Copies : m.ver \in Int /\ m.ver <= version
  BY CopyFacts DEF TriggerInv, Dated
<1>2. Now'.ver = version + 1 /\ Now'.body.trigger = state'.trigger /\ version \in Nat
  BY CopyFacts DEF Now
<1>3. QED
  BY <1>1, <1>2 DEF Dated

\* Every action keeps it.
LEMMA TriggerStep == TypeOK /\ TypeOK' /\ TriggerInv /\ [Next]_vars => TriggerInv'
<1> SUFFICES ASSUME TypeOK, TypeOK', TriggerInv, [Next]_vars PROVE TriggerInv'  OBVIOUS
<1> DEFINE Rest == (\A m \in Copies : Dated(m)) /\ (\A c \in subscribers : Counted(c))
           Last == \A d \in Displays : lastTrigger[d] # Null =>
                     shown[d] # Empty /\ lastTrigger[d] = shown[d].body.trigger
<1>0. Rest /\ Last /\ (Rest' /\ Last' => TriggerInv')
  BY DEF TriggerInv
<1>a. UNCHANGED <<shown, lastTrigger>> => Last'
  BY <1>0
<1> HIDE DEF Rest, Last
<1>1. ASSUME NEW w \in Writers, NEW s \in State, Change(w, s), s.trigger >= state.trigger
      PROVE  TriggerInv'
  <2>1. /\ state' = s /\ version' = version + 1
        /\ UNCHANGED <<subscribers, chan, snap, shown, lastTrigger, seed>>
    BY <1>1 DEF Change, client
  <2>2. Copies' \subseteq Copies \cup {Now'}
    BY <2>1 DEF Copies
  <2>3. QED
    BY <1>0, <1>1, <1>a, <2>1, <2>2, Counting DEF Rest
<1>2. ASSUME NEW w \in Writers, Control(w) PROVE TriggerInv'
  <2>0. state \in State /\ state.trigger \in Nat
    BY DEF TypeOK, State
  <2>1. ASSUME NEW c \in Chars, NEW f \in Flips, Set(w, c, f) PROVE TriggerInv'
    <3> DEFINE s == [state EXCEPT !.char = c, !.flip = f]
    <3>1. s \in State /\ s.trigger = state.trigger
      BY DEF TypeOK, State
    <3>2. Change(w, s)
      BY <2>1 DEF Set
    <3>3. s.trigger >= state.trigger
      BY <2>0, <3>1
    <3> HIDE DEF s
    <3>4. QED
      BY <1>1, <3>1, <3>2, <3>3
  <2>2. ASSUME NEW f \in Flips, SetFlip(w, f) PROVE TriggerInv'
    <3> DEFINE s == [state EXCEPT !.flip = f]
    <3>1. s \in State /\ s.trigger = state.trigger
      BY DEF TypeOK, State
    <3>2. Change(w, s)
      BY <2>2 DEF SetFlip
    <3>3. s.trigger >= state.trigger
      BY <2>0, <3>1
    <3> HIDE DEF s
    <3>4. QED
      BY <1>1, <3>1, <3>2, <3>3
  <2>3. ASSUME NEW v \in Views, SetTransform(w, v) PROVE TriggerInv'
    <3> DEFINE s == [state EXCEPT !.view = v]
    <3>1. s \in State /\ s.trigger = state.trigger
      BY DEF TypeOK, State
    <3>2. Change(w, s)
      BY <2>3 DEF SetTransform
    <3>3. s.trigger >= state.trigger
      BY <2>0, <3>1
    <3> HIDE DEF s
    <3>4. QED
      BY <1>1, <3>1, <3>2, <3>3
  <2>4. ASSUME IncrementTrigger(w) PROVE TriggerInv'
    <3> DEFINE s == [state EXCEPT !.trigger = @ + 1]
    <3>1. s \in State /\ s.trigger = state.trigger + 1
      <4>1. PICK t \in Nat : t = state.trigger + 1
        BY <2>0
      <4>2. s = [state EXCEPT !.trigger = t]
        BY <4>1
      <4> HIDE DEF s
      <4>3. s \in State /\ s.trigger = t
        BY <2>0, <4>2 DEF State
      <4>4. QED
        BY <4>1, <4>3
    <3>2. Change(w, s)
      BY <2>4 DEF IncrementTrigger
    <3>3. s.trigger >= state.trigger
      BY <2>0, <3>1
    <3> HIDE DEF s
    <3>4. QED
      BY <1>1, <3>1, <3>2, <3>3
  <2>5. QED
    BY <1>2, <2>1, <2>2, <2>3, <2>4 DEF Control
<1>3. ASSUME UNCHANGED <<state, version, subscribers, seed, shown, lastTrigger>>,
             \A c \in Conns : chan'[c] \in Copies, \A w \in Writers : snap'[w] \in Copies
      PROVE  TriggerInv'
  <2>1. Now' = Now
    BY <1>3 DEF Now
  <2>2. Copies' \subseteq Copies
    BY <1>3, <2>1 DEF Copies
  <2>3. QED
    BY <1>0, <1>3, <1>a, <2>2, Copying DEF Rest
<1>b. /\ Now \in Copies /\ Empty \in Copies
      /\ \A c \in Conns : chan[c] \in Copies
      /\ \A w \in Writers : snap[w] \in Copies
  BY DEF Copies
<1>4. ASSUME NEW w \in Writers, Snapshot(w) PROVE TriggerInv'
  <2>1. /\ snap' = [snap EXCEPT ![w] = Now]
        /\ UNCHANGED <<state, version, subscribers, seed, shown, lastTrigger, chan>>
    BY <1>4 DEF Snapshot, Copy, store, client
  <2>2. \A v \in Writers : snap'[v] \in Copies
    BY <1>b, <2>1 DEF TypeOK
  <2>3. QED
    BY <1>3, <1>b, <2>1, <2>2
<1>5. ASSUME NEW w \in Writers, NEW c \in Conns, TrySend(w, c) PROVE TriggerInv'
  <2>1. /\ chan' = [chan EXCEPT ![c] = snap[w]] \/ chan' = chan
        /\ UNCHANGED <<state, version, subscribers, seed, shown, lastTrigger, snap>>
    BY <1>5 DEF TrySend, store, client
  <2>2. \A b \in Conns : chan'[b] \in Copies
    BY <1>b, <2>1 DEF TypeOK
  <2>3. QED
    BY <1>3, <1>b, <2>1, <2>2
<1>6. ASSUME NEW w \in Writers, Drain(w) \/ Resend(w) PROVE TriggerInv'
  <2>1. /\ \E m \in Copies : chan' = [chan EXCEPT ![cur[w]] = m]
        /\ UNCHANGED <<state, version, subscribers, seed, shown, lastTrigger, snap>>
    <3>1. CASE Drain(w)
      BY <1>b, <3>1 DEF Drain, Drained, store, client
    <3>2. CASE Resend(w)
      <4>1. /\ chan' = [chan EXCEPT ![cur[w]] = IF @ = Empty THEN snap[w] ELSE @]
            /\ UNCHANGED <<state, version, subscribers, seed, shown, lastTrigger, snap>>
        BY <3>2 DEF Resend, store, client
      <4>2. CASE cur[w] \in Conns
        BY <1>b, <4>1, <4>2
      <4>3. CASE cur[w] \notin Conns
        <5>1. chan' = [chan EXCEPT ![cur[w]] = Empty]
          BY <4>1, <4>3 DEF TypeOK
        <5>2. QED
          BY <1>b, <4>1, <5>1
      <4>4. QED
        BY <4>2, <4>3
    <3>3. QED
      BY <1>6, <3>1, <3>2
  <2>2. \A b \in Conns : chan'[b] \in Copies
    BY <1>b, <2>1 DEF TypeOK
  <2>3. QED
    BY <1>3, <1>b, <2>1, <2>2
<1>7. ASSUME NEW d \in Displays, Subscribe(d) PROVE TriggerInv'
  <2>0. PICK c : c = <<d, opened[d] + 1>>
    OBVIOUS
  <2>1. /\ chan' = [chan EXCEPT ![c] = Now] /\ seed' = [seed EXCEPT ![c] = version]
        /\ subscribers' = subscribers \cup {c} /\ c \in Conns
        /\ UNCHANGED <<state, version, snap, shown, lastTrigger>>
    BY <1>7, <2>0 DEF Subscribe, casting, TypeOK, Conns
  <2>2. Copies' \subseteq Copies
    <3>1. \A b \in Conns : chan'[b] \in Copies
      BY <1>b, <2>1 DEF TypeOK
    <3>2. Now' = Now
      BY <2>1 DEF Now
    <3>3. QED
      BY <2>1, <3>1, <3>2 DEF Copies
  <2>3. /\ seed'[c] = version
        /\ \A b \in subscribers : b # c => seed'[b] = seed[b]
    BY <2>1 DEF TypeOK
  <2>4. Counted(c)'
    <3>1. \A m \in Copies : m.ver \in Int /\ Dated(m)
      BY <1>0, CopyFacts DEF Rest
    <3>2. version \in Nat /\ state.trigger \in Nat
      BY CopyFacts
    <3>3. QED
      BY <2>2, <2>3, <3>1, <3>2 DEF Counted, Dated
  <2>5. ASSUME NEW b \in subscribers, b # c PROVE Counted(b)'
    BY <1>0, <2>2, <2>3, <2>5 DEF Rest, Counted
  <2>6. \A m \in Copies' : Dated(m)'
    BY <1>0, <2>1, <2>2 DEF Rest, Dated
  <2>7. QED
    BY <1>0, <1>a, <2>1, <2>4, <2>5, <2>6 DEF Rest
<1>8. ASSUME NEW d \in Displays, PageCloses(d) PROVE TriggerInv'
  BY <1>3, <1>8, <1>b DEF PageCloses, store, casting
<1>9. ASSUME NEW d \in Displays, NEW n \in 1..MaxConnects, Deliver(d, n) PROVE TriggerInv'
  <2>0. PICK c : c = <<d, n>>
    OBVIOUS
  <2>1. /\ chan' = [chan EXCEPT ![c] = Empty] /\ chan[c] # Empty /\ c \in Conns
        /\ \/ UNCHANGED <<shown, lastTrigger>>
           \/ /\ shown' = [shown EXCEPT ![d] = chan[c]]
              /\ lastTrigger' = [lastTrigger EXCEPT ![d] = chan[c].body.trigger]
        /\ UNCHANGED <<state, version, subscribers, seed, snap>>
    BY <1>9, <2>0 DEF Deliver, store, casting, Conns
  <2>2. Copies' \subseteq Copies
    <3>1. \A b \in Conns : chan'[b] \in Copies
      BY <1>b, <2>1 DEF TypeOK
    <3>2. \A e \in Displays : shown'[e] \in Copies
      BY <1>b, <2>1 DEF TypeOK, Copies
    <3>3. Now' = Now
      BY <2>1 DEF Now
    <3>4. QED
      BY <2>1, <3>1, <3>2, <3>3 DEF Copies
  <2>3. Rest'
    BY <2>1, <2>2, Copying DEF Rest
  <2>4. Last'
    <3>1. CASE UNCHANGED <<shown, lastTrigger>>
      BY <1>a, <3>1
    <3>2. CASE /\ shown' = [shown EXCEPT ![d] = chan[c]]
               /\ lastTrigger' = [lastTrigger EXCEPT ![d] = chan[c].body.trigger]
      <4>1. /\ shown'[d] = chan[c] /\ lastTrigger'[d] = chan[c].body.trigger
            /\ \A e \in Displays : e # d => shown'[e] = shown[e] /\ lastTrigger'[e] = lastTrigger[e]
        BY <3>2 DEF TypeOK
      <4>2. QED
        BY <1>0, <2>1, <4>1 DEF Last
    <3>3. QED
      BY <2>1, <3>1, <3>2
  <2>5. QED
    BY <1>0, <2>3, <2>4
<1>10. ASSUME NEW c \in Conns, Unsubscribe(c) PROVE TriggerInv'
  <2>1. UNCHANGED <<chan, snap, shown, lastTrigger, seed>>
    BY <1>10 DEF Unsubscribe, casting, client
  <2>2. Copies' \subseteq Copies \cup {Now'}
    BY <2>1 DEF Copies
  <2>3. CASE LastOut(c)
    <3>1. subscribers' = {} /\ version' = version + 1
      BY <1>10, <2>3 DEF Unsubscribe, LastOut
    <3>2. QED
      BY <1>0, <1>a, <2>1, <2>2, <3>1, Clearing DEF Rest
  <2>4. CASE ~LastOut(c)
    <3>1. subscribers' \subseteq subscribers /\ UNCHANGED <<state, version>>
      BY <1>10, <2>4 DEF Unsubscribe
    <3>2. Now' = Now
      BY <3>1 DEF Now
    <3>3. QED
      BY <1>0, <1>a, <1>b, <2>1, <2>2, <3>1, <3>2, Copying DEF Rest
  <2>5. QED
    BY <2>3, <2>4
<1>11. CASE Restart
  <2>1. /\ version' = version + 1 /\ subscribers' = {} /\ \A c \in Conns : chan'[c] = Empty
        /\ UNCHANGED <<snap, shown, lastTrigger>>
    BY <1>11 DEF Restart, client
  <2>2. Copies' \subseteq Copies \cup {Now'}
    BY <2>1 DEF Copies
  <2>3. QED
    BY <1>0, <1>a, <2>1, <2>2, Clearing DEF Rest
<1>12. CASE UNCHANGED vars
  BY <1>3, <1>12, <1>b DEF vars, store, casting, client
<1>13. QED
  BY <1>2, <1>4, <1>5, <1>6, <1>7, <1>8, <1>9, <1>10, <1>11, <1>12 DEF Next, Broadcast

\* No copy is of the future, and none made while a subscriber is connected counts
\* fewer triggers than an earlier one.
THEOREM TriggersInOrder == Spec => []TriggerInv
<1>1. Init => TriggerInv
  BY DisplayAssumption DEF Init, TriggerInv, Copies, Dated, Counted, Now, Empty, Blank, Null
<1>2. QED
  BY <1>1, TriggerStep, TypeCorrect, PTL DEF Spec

\* A page plays a touch only for a trigger counted up since what it shows.
THEOREM TouchesAreReal == Spec => NoPhantomTouch
<1> DEFINE Real == \A d \in Displays : clicks'[d] # clicks[d] =>
             /\ shown[d] # Empty
             /\ \/ shown'[d].body.trigger > shown[d].body.trigger
                \/ shown[d].ver < seed[Connection(d)]
                \/ shown'[d].ver < shown[d].ver
<1>1. TypeOK /\ TriggerInv /\ [Next]_vars => [Real]_vars
  <2> SUFFICES ASSUME TypeOK, TriggerInv, [Next]_vars, NEW d \in Displays, clicks'[d] # clicks[d]
               PROVE  /\ shown[d] # Empty
                      /\ \/ shown'[d].body.trigger > shown[d].body.trigger
                         \/ shown[d].ver < seed[Connection(d)]
                         \/ shown'[d].ver < shown[d].ver
    OBVIOUS
  <2>1. ASSUME NEW n \in 1..MaxConnects, Deliver(d, n)
        PROVE  /\ shown[d] # Empty
               /\ \/ shown'[d].body.trigger > shown[d].body.trigger
                  \/ shown[d].ver < seed[Connection(d)]
                  \/ shown'[d].ver < shown[d].ver
    <3>0. PICK c : c = <<d, n>>
      OBVIOUS
    <3>1. /\ c \in subscribers /\ c \in Conns /\ c = Connection(d)
          /\ shown' = [shown EXCEPT ![d] = chan[c]] /\ Touched(d, chan[c].body.trigger)
      BY <2>1, <3>0 DEF Deliver, Conns, Connection, TypeOK
    <3>2. /\ shown'[d] = chan[c] /\ chan[c] \in Copies /\ shown[d] \in Copies
          /\ lastTrigger[d] # Null /\ lastTrigger[d] # chan[c].body.trigger
      BY <3>1 DEF TypeOK, Touched, Copies
    <3>3. /\ shown[d] # Empty /\ shown[d].body.trigger # chan[c].body.trigger
          /\ Counted(c)
      BY <3>1, <3>2 DEF TriggerInv
    <3>4. /\ chan[c].ver \in Int /\ shown[d].ver \in Int /\ seed[c] \in Int
          /\ chan[c].body.trigger \in Nat /\ shown[d].body.trigger \in Nat
      <4>1. chan[c] \in MsgOrEmpty /\ shown[d] \in MsgOrEmpty
        BY <3>2, CopyFacts
      <4>2. seed[c] \in Nat
        BY <3>1 DEF TypeOK
      <4>3. QED
        BY <4>1, <4>2, CopyFacts
    <3>5. QED
      BY <3>1, <3>2, <3>3, <3>4 DEF Counted
  <2>2. ASSUME NEW e \in Displays, NEW n \in 1..MaxConnects, Deliver(e, n) PROVE e = d
    BY <2>2 DEF Deliver, TypeOK
  <2>3. \E e \in Displays, n \in 1..MaxConnects : Deliver(e, n)
    <3>1. clicks' # clicks
      OBVIOUS
    <3>2. ASSUME NEW w \in Writers, Control(w) PROVE clicks' = clicks
      <4>1. ASSUME NEW s, Change(w, s) PROVE clicks' = clicks
        BY <4>1 DEF Change, client
      <4>2. QED
        BY <3>2, <4>1, Zenon DEF Control, Set, SetFlip, SetTransform, IncrementTrigger
    <3>3. ASSUME NEW w \in Writers, Broadcast(w) PROVE clicks' = clicks
      BY <3>3 DEF Broadcast, Snapshot, TrySend, Drain, Resend, client
    <3>4. ASSUME NEW e \in Displays, Subscribe(e) \/ PageCloses(e) PROVE clicks' = clicks
      BY <3>4 DEF Subscribe, PageCloses
    <3>5. ASSUME NEW c \in Conns, Unsubscribe(c) PROVE clicks' = clicks
      BY <3>5 DEF Unsubscribe, client
    <3>6. Restart => clicks' = clicks
      BY DEF Restart, client
    <3>7. UNCHANGED vars => clicks' = clicks
      BY DEF vars, client
    <3>8. QED
      BY <3>1, <3>2, <3>3, <3>4, <3>5, <3>6, <3>7 DEF Next
  <2>4. QED
    BY <2>1, <2>2, <2>3
<1>2. QED
  BY <1>1, TypeCorrect, TriggersInOrder, PTL DEF Spec, NoPhantomTouch

=============================================================================
