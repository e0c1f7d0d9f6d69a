-------------------------- MODULE EbaySearch_proofs --------------------------
(* The cache's list and map agree, evictions take the least recently used      *)
(* card, what a page is shown has a bounded age, and no search sets out with a *)
(* token that eBay lets expire on the way.                                     *)
EXTENDS EbaySearch, SequenceTheorems, TLAPS

-----------------------------------------------------------------------------
(* Sequences without repetition, as the cache keeps them.                  *)

Unrepeated(s) == \A i, j \in DOMAIN s : i # j => s[i] # s[j]
Members(s) == {s[i] : i \in DOMAIN s}

\* A function over the first n numbers is a sequence of length n.
LEMMA FunctionIsSeq ==
    ASSUME NEW S, NEW n \in Nat, NEW f \in [1..n -> S]
    PROVE  f \in Seq(S) /\ Len(f) = n /\ DOMAIN f = 1..n
BY SeqDef, LenProperties

\* Moving to the front keeps the members, puts c first and leaves the others in order.
LEMMA MovedToFront ==
    ASSUME NEW S, NEW s \in Seq(S), NEW c \in Members(s), Unrepeated(s),
           NEW t, t = MoveToFront(s, c)
    PROVE  /\ t \in Seq(S) /\ Len(t) = Len(s)
           /\ Unrepeated(t) /\ Members(t) = Members(s)
           /\ t[1] = c
           /\ \A i, j \in DOMAIN t : i < j =>
                \/ i = 1
                \/ \E k, l \in DOMAIN s : k < l /\ s[k] = t[i] /\ s[l] = t[j]
<1> DEFINE n == Len(s)
           p == CHOOSE i \in DOMAIN s : s[i] = c
           From(j) == IF j = 1 THEN p ELSE IF j <= p THEN j - 1 ELSE j
<1>1. n \in Nat /\ DOMAIN s = 1..n /\ \A i \in 1..n : s[i] \in S
  BY LenProperties, ElementOfSeq
<1>2. p \in 1..n /\ s[p] = c
  BY <1>1 DEF Members
<1> HIDE DEF p
<1>3. \A j \in 1..n : From(j) \in 1..n
  BY <1>1, <1>2
<1>4. \A i, j \in 1..n : i # j => From(i) # From(j)
  BY <1>1, <1>2
<1>5. \A k \in 1..n : \E j \in 1..n : From(j) = k
  <2> TAKE k \in 1..n
  <2>1. CASE k = p
    BY <2>1, <1>1
  <2>2. CASE k < p
    <3>1. k + 1 \in 1..n /\ From(k + 1) = k
      BY <2>2, <1>1, <1>2
    <3> QED
      BY <3>1
  <2>3. CASE k > p
    BY <2>3, <1>1, <1>2
  <2> QED
    BY <2>1, <2>2, <2>3, <1>1, <1>2
<1>6. t = [j \in 1..n |-> s[From(j)]]
  <2>1. t = [j \in 1..n |-> IF j = 1 THEN c ELSE IF j <= p THEN s[j - 1] ELSE s[j]]
    BY <1>1 DEF MoveToFront, p
  <2> QED
    BY <2>1, <1>2
<1>7. t \in Seq(S) /\ Len(t) = n /\ DOMAIN t = 1..n
  <2>1. t \in [1..n -> S]
    BY <1>1, <1>3, <1>6
  <2> QED
    BY <2>1, <1>1, FunctionIsSeq
<1>8. Unrepeated(t)
  BY <1>1, <1>3, <1>4, <1>6, <1>7 DEF Unrepeated
<1>9. Members(t) = Members(s)
  <2>1. ASSUME NEW j \in DOMAIN t PROVE t[j] \in Members(s)
    <3>1. From(j) \in DOMAIN s /\ t[j] = s[From(j)]
      BY <1>1, <1>3, <1>6, <1>7
    <3> QED
      BY <3>1 DEF Members
  <2>2. ASSUME NEW k \in DOMAIN s PROVE s[k] \in Members(t)
    <3>1. PICK j \in DOMAIN t : From(j) = k
      BY <1>1, <1>5, <1>7
    <3>2. t[j] = s[k]
      BY <1>6, <1>7, <3>1
    <3> QED
      BY <3>2 DEF Members
  <2> QED
    BY <2>1, <2>2 DEF Members
<1>10. t[1] = c
  BY <1>1, <1>2, <1>6
<1>11. ASSUME NEW i \in 1..n, NEW j \in 1..n, i < j, i # 1
       PROVE  \E k, l \in DOMAIN s : k < l /\ s[k] = t[i] /\ s[l] = t[j]
  <2>1. From(i) < From(j)
    BY <1>11, <1>1, <1>2
  <2> QED
    BY <2>1, <1>1, <1>3, <1>6
<1>12. \A i, j \in DOMAIN t : i < j =>
          \/ i = 1
          \/ \E k, l \in DOMAIN s : k < l /\ s[k] = t[i] /\ s[l] = t[j]
  BY <1>7, <1>11
<1> QED
  BY <1>7, <1>8, <1>9, <1>10, <1>12

\* A new element in front.
LEMMA PushedInFront ==
    ASSUME NEW S, NEW s \in Seq(S), NEW c \in S, c \notin Members(s), Unrepeated(s),
           NEW t, t = PushFront(s, c)
    PROVE  /\ t \in Seq(S) /\ Len(t) = Len(s) + 1
           /\ Unrepeated(t) /\ Members(t) = Members(s) \cup {c}
           /\ t[1] = c
           /\ \A i \in DOMAIN t : i # 1 => i - 1 \in DOMAIN s /\ t[i] = s[i - 1]
<1> DEFINE n == Len(s)
<1>1. n \in Nat /\ DOMAIN s = 1..n /\ \A i \in 1..n : s[i] \in S
  BY LenProperties, ElementOfSeq
<1>2. t = [j \in 1..(n + 1) |-> IF j = 1 THEN c ELSE s[j - 1]]
  BY DEF PushFront
<1>3. t \in Seq(S) /\ Len(t) = n + 1 /\ DOMAIN t = 1..(n + 1)
  <2>1. t \in [1..(n + 1) -> S]
    BY <1>1, <1>2
  <2> QED
    BY <2>1, <1>1, FunctionIsSeq
<1>4. \A i \in 1..(n + 1) : i # 1 => i - 1 \in 1..n /\ t[i] = s[i - 1]
  BY <1>1, <1>2
<1>5. t[1] = c
  BY <1>1, <1>2
<1>6. \A i \in 1..n : t[i + 1] = s[i] /\ i + 1 \in 1..(n + 1)
  BY <1>1, <1>2
<1>7. Unrepeated(t)
  <2> SUFFICES ASSUME NEW i \in DOMAIN t, NEW j \in DOMAIN t, i < j PROVE t[i] # t[j]
    <3>1. \A i, j \in DOMAIN t : i # j => i < j \/ j < i
      BY <1>1, <1>3
    <3> QED
      BY <3>1 DEF Unrepeated
  <2>1. j # 1 /\ j - 1 \in DOMAIN s /\ t[j] = s[j - 1]
    BY <1>1, <1>3, <1>4
  <2>2. CASE i = 1
    BY <1>5, <2>1, <2>2 DEF Members
  <2>3. CASE i # 1
    <3>1. i - 1 \in DOMAIN s /\ t[i] = s[i - 1] /\ i - 1 # j - 1
      BY <1>1, <1>3, <1>4, <2>3
    <3> QED
      BY <2>1, <3>1 DEF Unrepeated
  <2> QED
    BY <2>2, <2>3
<1>8. Members(t) = Members(s) \cup {c}
  <2>1. ASSUME NEW i \in DOMAIN t PROVE t[i] \in Members(s) \cup {c}
    BY <1>1, <1>3, <1>4, <1>5 DEF Members
  <2>2. ASSUME NEW i \in DOMAIN s PROVE s[i] \in Members(t)
    <3>1. i + 1 \in DOMAIN t /\ t[i + 1] = s[i]
      BY <1>1, <1>3, <1>6
    <3> QED
      BY <3>1 DEF Members
  <2>3. c \in Members(t)
    <3>1. 1 \in DOMAIN t
      BY <1>1, <1>3
    <3> QED
      BY <1>5, <3>1 DEF Members
  <2> QED
    BY <2>1, <2>2, <2>3 DEF Members
<1>9. \A i \in DOMAIN t : i # 1 => i - 1 \in DOMAIN s /\ t[i] = s[i - 1]
  BY <1>1, <1>3, <1>4
<1> QED
  BY <1>3, <1>5, <1>7, <1>8, <1>9

\* The list without its last element.
LEMMA RemovedBack ==
    ASSUME NEW S, NEW s \in Seq(S), Len(s) > 0, Unrepeated(s),
           NEW t, t = Remove(s, Back(s))
    PROVE  /\ t \in Seq(S) /\ Len(t) = Len(s) - 1
           /\ Unrepeated(t) /\ Members(t) = Members(s) \ {s[Len(s)]}
           /\ \A i \in DOMAIN t : i \in DOMAIN s /\ t[i] = s[i]
<1> DEFINE n == Len(s)
<1>1. n \in Nat /\ n > 0 /\ DOMAIN s = 1..n /\ \A i \in 1..n : s[i] \in S
  BY LenProperties, ElementOfSeq
<1>2. t = [j \in 1..(n - 1) |-> s[j]]
  BY <1>1 DEF Remove, Back
<1>3. t \in Seq(S) /\ Len(t) = n - 1 /\ DOMAIN t = 1..(n - 1)
  <2>1. t \in [1..(n - 1) -> S] /\ n - 1 \in Nat
    BY <1>1, <1>2
  <2> QED
    BY <2>1, FunctionIsSeq
<1>4. \A i \in 1..(n - 1) : i \in 1..n /\ i # n /\ t[i] = s[i]
  <2>1. \A m \in Nat : \A i \in 1..(m - 1) : i \in 1..m /\ i # m
    OBVIOUS
  <2>2. \A i \in 1..(n - 1) : t[i] = s[i]
    BY <1>2
  <2> QED
    BY <1>1, <2>1, <2>2
<1>5. Unrepeated(t)
  <2> SUFFICES ASSUME NEW i \in DOMAIN t, NEW j \in DOMAIN t, i # j PROVE t[i] # t[j]
    BY DEF Unrepeated
  <2>1. i \in DOMAIN s /\ j \in DOMAIN s /\ t[i] = s[i] /\ t[j] = s[j]
    BY <1>1, <1>3, <1>4
  <2> QED
    BY <2>1 DEF Unrepeated
<1>6. Members(t) = Members(s) \ {s[n]}
  <2>1. ASSUME NEW i \in DOMAIN t PROVE t[i] \in Members(s) \ {s[n]}
    <3>1. i \in DOMAIN s /\ i # n /\ t[i] = s[i]
      BY <1>1, <1>3, <1>4
    <3>2. n \in DOMAIN s
      BY <1>1
    <3> QED
      BY <3>1, <3>2 DEF Members, Unrepeated
  <2>2. \A m \in Nat : \A i \in 1..m : i # m => i \in 1..(m - 1)
    OBVIOUS
  <2>3. ASSUME NEW i \in DOMAIN s, s[i] # s[n] PROVE s[i] \in Members(t)
    <3>1. i \in DOMAIN t /\ t[i] = s[i]
      BY <1>1, <1>3, <1>4, <2>2, <2>3
    <3> QED
      BY <3>1 DEF Members
  <2> QED
    BY <2>1, <2>3 DEF Members
<1>7. \A i \in DOMAIN t : i \in DOMAIN s /\ t[i] = s[i]
  BY <1>1, <1>3, <1>4
<1> QED
  BY <1>3, <1>5, <1>6, <1>7

-----------------------------------------------------------------------------
(* The cache.                                                              *)

\* A card is found or stored after every card behind it in the list.
Ordered == \A i, j \in DOMAIN order : i < j => <<order[i], order[j]>> \in newer

CacheTyped ==
    /\ order \in Seq(Cards) /\ items \in [Cards -> Entries] /\ newer \subseteq Cards \X Cards

CacheInv == CacheTyped /\ CacheAgrees /\ Ordered

\* CacheAgrees in the words of the lemmas above.
LEMMA AgreesMeans ==
    CacheAgrees <=> Members(order) = Cached /\ Unrepeated(order) /\ Len(order) <= Capacity
BY DEF CacheAgrees, Members, Unrepeated

\* A card found goes to the front, and everything else is as it was.
LEMMA GetKeeps ==
    ASSUME CacheInv, NEW c \in Cards, Get(c)
    PROVE  CacheInv'
<1>1. c \in Cached /\ items' = items /\ order' = MoveToFront(order, c) /\ Use(c)
  BY DEF Get, Fresh, Looked
<1>2. Members(order) = Cached /\ Unrepeated(order) /\ Len(order) <= Capacity
  BY AgreesMeans DEF CacheInv
<1>3. order \in Seq(Cards) /\ items \in [Cards -> Entries] /\ newer \subseteq Cards \X Cards
  BY DEF CacheInv, CacheTyped
<1>4. /\ order' \in Seq(Cards) /\ Len(order') = Len(order)
      /\ Unrepeated(order') /\ Members(order') = Members(order) /\ order'[1] = c
      /\ \A i, j \in DOMAIN order' : i < j =>
            \/ i = 1
            \/ \E k, l \in DOMAIN order : k < l /\ order[k] = order'[i] /\ order[l] = order'[j]
  <2>1. c \in Members(order)
    BY <1>1, <1>2
  <2> QED
    BY <1>1, <1>2, <1>3, <2>1, MovedToFront
<1>5. /\ newer' = {p \in newer : p[2] # c /\ items[p[1]] # NoEntry /\ items[p[2]] # NoEntry}
                  \cup {<<c, d>> : d \in {d \in Cards \ {c} : items[d] # NoEntry}}
      /\ newer' \subseteq Cards \X Cards
  BY <1>1, <1>3 DEF Use
<1>6. ASSUME NEW i \in DOMAIN order', NEW j \in DOMAIN order', i < j
      PROVE  <<order'[i], order'[j]>> \in newer'
  <2>1. 1 \in DOMAIN order' /\ 1 # j
    BY <1>4, <1>6, LenProperties
  <2>2. order'[j] # c
    BY <1>4, <2>1 DEF Unrepeated
  <2>3. order'[i] \in Cached /\ order'[j] \in Cached
    BY <1>2, <1>4 DEF Members
  <2>4. CASE i = 1
    BY <1>4, <1>5, <2>2, <2>3, <2>4 DEF Cached
  <2>5. CASE \E k, l \in DOMAIN order : k < l /\ order[k] = order'[i] /\ order[l] = order'[j]
    <3>1. <<order'[i], order'[j]>> \in newer
      BY <2>5 DEF CacheInv, Ordered
    <3> QED
      BY <1>5, <2>2, <2>3, <3>1 DEF Cached
  <2> QED
    BY <1>4, <1>6, <2>4, <2>5
<1>7. Cached' = Cached
  BY <1>1 DEF Cached
<1>8. CacheAgrees'
  BY <1>2, <1>4, <1>7 DEF CacheAgrees, Members, Unrepeated
<1>9. Ordered'
  BY <1>6 DEF Ordered
<1> QED
  BY <1>1, <1>3, <1>4, <1>5, <1>8, <1>9 DEF CacheInv, CacheTyped

\* The list as `set` has it before it looks at the capacity.
Pushed(c) == IF c \in Cached THEN MoveToFront(order, c) ELSE PushFront(order, c)

\* It is the list of what is cached and the card, each once, with the card in front.
LEMMA PushedFacts ==
    ASSUME CacheInv, NEW c \in Cards, NEW p, p = Pushed(c)
    PROVE  /\ p \in Seq(Cards) /\ Unrepeated(p)
           /\ Members(p) = Cached \cup {c} /\ p[1] = c
           /\ Len(p) > 0
           /\ Len(p) > Capacity =>
                 c \notin Cached /\ p = PushFront(order, c) /\ Len(p) = Len(order) + 1
           /\ Len(p) <= Capacity + 1
           /\ \A i, j \in DOMAIN p : i < j =>
                 i = 1 \/ <<p[i], p[j]>> \in newer
<1>1. Members(order) = Cached /\ Unrepeated(order) /\ Len(order) <= Capacity
  BY AgreesMeans DEF CacheInv
<1>2. order \in Seq(Cards) /\ Len(order) \in Nat /\ DOMAIN order = 1..Len(order)
  BY LenProperties DEF CacheInv, CacheTyped
<1>3. Capacity \in Nat
  BY EbayAssumption
<1>4. CASE c \in Cached
  <2>1. p = MoveToFront(order, c)
    BY <1>4 DEF Pushed
  <2>2. /\ p \in Seq(Cards) /\ Len(p) = Len(order)
        /\ Unrepeated(p) /\ Members(p) = Members(order) /\ p[1] = c
        /\ \A i, j \in DOMAIN p : i < j =>
              \/ i = 1
              \/ \E k, l \in DOMAIN order :
                    k < l /\ order[k] = p[i] /\ order[l] = p[j]
    <3>1. c \in Members(order)
      BY <1>1, <1>4
    <3> QED
      <4>1. order \in Seq(Cards) /\ Unrepeated(order) /\ p = MoveToFront(order, c)
        BY <1>1, <1>2, <2>1
      <4> QED
        BY <3>1, <4>1, MovedToFront
  <2>3. Len(order) > 0
    <3>1. PICK i \in DOMAIN order : order[i] = c
      BY <1>1, <1>4 DEF Members
    <3> QED
      BY <1>2, <3>1
  <2>4. \A i, j \in DOMAIN p : i < j => i = 1 \/ <<p[i], p[j]>> \in newer
    BY <2>2 DEF CacheInv, Ordered
  <2> QED
    <3>1. Len(p) > 0 /\ Len(p) <= Capacity
      BY <1>1, <2>2, <2>3
    <3>2. Members(p) = Cached \cup {c}
      BY <1>1, <1>4, <2>2
    <3>3. ~(Len(p) > Capacity) /\ Len(p) <= Capacity + 1
      <4>1. Len(p) \in Nat
        BY <1>2, <2>2
      <4> QED
        BY <1>3, <3>1, <4>1
    <3>4. p \in Seq(Cards) /\ Unrepeated(p) /\ p[1] = c
      BY <2>2
    <3> QED
      BY <2>4, <3>1, <3>2, <3>3, <3>4
<1>5. CASE c \notin Cached
  <2>1. p = PushFront(order, c)
    BY <1>5 DEF Pushed
  <2>2. /\ p \in Seq(Cards) /\ Len(p) = Len(order) + 1
        /\ Unrepeated(p) /\ Members(p) = Members(order) \cup {c}
        /\ p[1] = c
        /\ \A i \in DOMAIN p : i # 1 => i - 1 \in DOMAIN order /\ p[i] = order[i - 1]
    <3>1. c \notin Members(order)
      BY <1>1, <1>5
    <3> QED
      BY <1>1, <1>2, <2>1, <3>1, PushedInFront
  <2>3. ASSUME NEW i \in DOMAIN p, NEW j \in DOMAIN p, i < j, i # 1
        PROVE  <<p[i], p[j]>> \in newer
    <3>1. i \in 1..Len(p) /\ j \in 1..Len(p)
      BY <2>2, LenProperties
    <3>2. j # 1 /\ i - 1 < j - 1
      BY <2>3, <3>1
    <3> QED
      BY <2>2, <2>3, <3>2 DEF CacheInv, Ordered
  <2> QED
    BY <1>1, <1>2, <1>3, <1>5, <2>1, <2>2, <2>3
<1> QED
  BY <1>4, <1>5

\* Storing keeps the cache in order, and gives up at most the last card of the list.
LEMMA SetKeeps ==
    ASSUME CacheInv, NEW c \in Cards, NEW found \in Times, now \in Nat, Set(c, found)
    PROVE  /\ CacheInv' /\ items'[c] = Entry(found)
           /\ \A d \in Cards \ {c} : items'[d] = items[d] \/ items'[d] = NoEntry
           /\ \A d \in Cached : items'[d] = NoEntry => Len(order) > 0 /\ d = order[Len(order)]
<1>p. PICK P : P = Pushed(c)
  OBVIOUS
<1> DEFINE out == P[Len(P)]
           stored == [items EXCEPT ![c] = Entry(found)]
<1>0. items \in [Cards -> Entries] /\ newer \subseteq Cards \X Cards /\ Capacity \in Nat \ {0}
  BY EbayAssumption DEF CacheInv, CacheTyped
<1>1. /\ P \in Seq(Cards) /\ Unrepeated(P)
      /\ Members(P) = Cached \cup {c} /\ P[1] = c /\ Len(P) > 0
      /\ Len(P) > Capacity => c \notin Cached /\ P = PushFront(order, c) /\ Len(P) = Len(order) + 1
      /\ Len(P) <= Capacity + 1
      /\ \A i, j \in DOMAIN P : i < j => i = 1 \/ <<P[i], P[j]>> \in newer
  BY <1>p, PushedFacts
<1>2. /\ IF Len(P) <= Capacity THEN order' = P /\ items' = stored
         ELSE order' = Remove(P, Back(P)) /\ items' = [stored EXCEPT ![out] = NoEntry]
      /\ Use(c)
  BY <1>p DEF Set, Pushed, Deleted, Back
<1>3. Entry(found) \in Entries /\ Entry(found) # NoEntry
  BY DEF Entry, Entries, Times, NoEntry
<1>4. Len(P) \in Nat /\ DOMAIN P = 1..Len(P) /\ \A i \in 1..Len(P) : P[i] \in Cards
  BY <1>1, LenProperties, ElementOfSeq
<1>5. NoEntry \in Entries
  BY DEF Entries, Times, NoEntry
<1>6. /\ order' \in Seq(Cards) /\ Unrepeated(order') /\ Len(order') <= Capacity
      /\ items' \in [Cards -> Entries] /\ items'[c] = Entry(found)
      /\ Members(order') = Cached'
      /\ \A d \in Cards \ {c} : items'[d] = items[d] \/ items'[d] = NoEntry
      /\ \A d \in Cached : items'[d] = NoEntry => Len(order) > 0 /\ d = order[Len(order)]
      /\ order'[1] = c
      /\ \A i \in DOMAIN order' : i \in DOMAIN P /\ order'[i] = P[i]
  <2>1. CASE Len(P) <= Capacity
    <3>1. order' = P /\ items' = stored
      BY <1>2, <2>1
    <3>2. \A d \in Cards : items'[d] = IF d = c THEN Entry(found) ELSE items[d]
      BY <1>0, <3>1
    <3>3. Cached' = Cached \cup {c}
      BY <1>3, <3>2 DEF Cached
    <3>4. items' \in [Cards -> Entries]
      BY <1>0, <1>3, <3>1
    <3>5. \A d \in Cached : items'[d] # NoEntry
      BY <1>3, <3>2 DEF Cached
    <3> QED
      BY <1>1, <2>1, <3>1, <3>2, <3>3, <3>4, <3>5
  <2>2. CASE Len(P) > Capacity
    <3>1. order' = Remove(P, Back(P)) /\ items' = [stored EXCEPT ![out] = NoEntry]
      BY <1>0, <1>2, <1>4, <2>2
    <3>2. /\ order' \in Seq(Cards) /\ Len(order') = Len(P) - 1 /\ Unrepeated(order')
          /\ Members(order') = Members(P) \ {out}
          /\ \A i \in DOMAIN order' : i \in DOMAIN P /\ order'[i] = P[i]
      BY <1>1, <3>1, RemovedBack
    <3>3. Len(P) > 1 /\ 1 \in DOMAIN P /\ Len(P) \in DOMAIN P
      BY <1>0, <1>4, <2>2
    <3>4. out # c /\ out \in Cards
      <4>1. 1 # Len(P)
        BY <1>4, <3>3
      <4>2. P[1] # P[Len(P)]
        BY <1>1, <3>3, <4>1 DEF Unrepeated
      <4> QED
        BY <1>1, <1>4, <3>3, <4>2
    <3>5. \A d \in Cards : items'[d] = IF d = out THEN NoEntry
                                       ELSE IF d = c THEN Entry(found) ELSE items[d]
      BY <1>0, <3>1
    <3>6. Cached' = (Cached \cup {c}) \ {out}
      BY <1>3, <3>4, <3>5 DEF Cached
    <3>7. items' \in [Cards -> Entries]
      BY <1>0, <1>3, <1>5, <3>1
    <3>8. Len(order) > 0 /\ out = order[Len(order)]
      <4>1. Len(P) = Len(order) + 1 /\ P = PushFront(order, c) /\ Len(order) \in Nat
        BY <1>1, <2>2, LenProperties DEF CacheInv, CacheTyped
      <4>2. P = [j \in 1..(Len(order) + 1) |-> IF j = 1 THEN c ELSE order[j - 1]]
        BY <4>1 DEF PushFront
      <4> HIDE DEF out
      <4>3. P[Len(order) + 1] = order[(Len(order) + 1) - 1]
        BY <3>3, <4>1, <4>2
      <4> QED
        BY <3>3, <4>1, <4>3 DEF out
    <3>9. \A d \in Cached : items'[d] = NoEntry => d = out
      BY <1>3, <3>5 DEF Cached
    <3>10. 1 \in DOMAIN order'
      BY <1>0, <1>4, <2>2, <3>2, <3>3, LenProperties
    <3>11. Len(order') <= Capacity
      <4>1. Len(P) <= Capacity + 1 /\ Len(order') = Len(P) - 1
        BY <1>1, <3>2
      <4> QED
        BY <1>0, <1>4, <4>1
    <3>12. order'[1] = c
      BY <1>1, <3>2, <3>10
    <3>13. items'[c] = Entry(found) /\ \A d \in Cards \ {c} : items'[d] = items[d] \/ items'[d] = NoEntry
      BY <3>4, <3>5
    <3>14. \A d \in Cached : items'[d] = NoEntry => Len(order) > 0 /\ d = order[Len(order)]
      BY <3>8, <3>9
    <3>15. Members(order') = Cached'
      BY <1>1, <3>2, <3>6
    <3> QED
      BY <3>2, <3>7, <3>11, <3>12, <3>13, <3>14, <3>15
  <2> QED
    BY <1>0, <1>4, <2>1, <2>2
<1>7. /\ newer' = {p \in newer : p[2] # c /\ items'[p[1]] # NoEntry /\ items'[p[2]] # NoEntry}
                  \cup {<<c, d>> : d \in {d \in Cards \ {c} : items'[d] # NoEntry}}
      /\ newer' \subseteq Cards \X Cards
  BY <1>0, <1>2 DEF Use
<1>8. ASSUME NEW i \in DOMAIN order', NEW j \in DOMAIN order', i < j
      PROVE  <<order'[i], order'[j]>> \in newer'
  <2>1. 1 \in DOMAIN order' /\ 1 # j
    BY <1>6, <1>8, LenProperties
  <2>2. order'[j] # c
    BY <1>6, <2>1 DEF Unrepeated
  <2>3. order'[i] \in Cached' /\ order'[j] \in Cached'
    BY <1>6 DEF Members
  <2>4. CASE i = 1
    BY <1>6, <1>7, <2>2, <2>3, <2>4 DEF Cached
  <2>5. CASE <<order'[i], order'[j]>> \in newer
    BY <1>7, <2>2, <2>3, <2>5 DEF Cached
  <2> QED
    BY <1>1, <1>6, <1>8, <2>4, <2>5
<1>9. CacheAgrees'
  BY <1>6 DEF CacheAgrees, Members, Unrepeated
<1> QED
  BY <1>6, <1>7, <1>8, <1>9 DEF CacheInv, CacheTyped, Ordered

-----------------------------------------------------------------------------
(* Time.  A search never outlives the token it carries, because the code   *)
(* stops using a token Buffer before its end and a search ends by its      *)
(* deadline; and what it found is no older than one search when it is      *)
(* stored.                                                                 *)

InTime(q) ==
    /\ q.pc \in {"queue", "oauth", "issued", "search", "found"} => q.card \in Cards
    /\ q.pc \in {"oauth", "issued", "search", "found"} => now <= q.deadline
    /\ q.pc \in {"oauth", "search"} => q.deadline <= now + Timeout
    /\ q.pc = "issued" => q.deadline <= q.issued + Timeout
    /\ q.pc = "search" => q.deadline < q.issued + Life
    /\ q.pc = "found" => q.deadline <= q.listings + Timeout /\ q.listings <= now
    /\ q.age <= TTL + Timeout

ItemsInTime ==
    \A c \in Cards : /\ items[c].listings <= now
                     /\ items[c].cachedAt - Timeout <= items[c].listings

TokenInTime == token # NoToken => token.expiresAt <= token.issued + Life + Timeout

RequestsInTime == \A r \in Requests : InTime(req[r])

RestTyped ==
    /\ now \in Nat /\ token \in Tokens /\ holder \in Requests \cup {NoOne}
    /\ req \in [Requests -> Locals]

IInv == RestTyped /\ CacheInv /\ ItemsInTime /\ TokenInTime /\ RequestsInTime

\* The constants are natural numbers, as this module's bounds need them.
LEMMA Numbers ==
    /\ {TTL, Timeout, Patience, Buffer, Life, MaxTime} \subseteq Nat
    /\ 2 * Timeout <= Buffer /\ 2 * Timeout < Life
BY EbayAssumption

\* One request steps to a record that is in time, and the others stay.
LEMMA RequestStep ==
    ASSUME RestTyped, RequestsInTime, NEW r \in Requests, NEW q \in Locals, InTime(q),
           req' = [req EXCEPT ![r] = q], now' = now
    PROVE  req' \in [Requests -> Locals] /\ RequestsInTime'
<1>1. req' \in [Requests -> Locals] /\ \A v \in Requests : req'[v] = IF v = r THEN q ELSE req[v]
  BY DEF RestTyped
<1> QED
  BY <1>1 DEF RequestsInTime, InTime

\* The fields of a request.
LEMMA Fields ==
    ASSUME RestTyped, NEW r \in Requests
    PROVE  /\ req[r] \in Locals /\ req[r].card \in Cards \cup {NoCard}
           /\ {req[r].until, req[r].deadline, req[r].issued, req[r].listings, req[r].age} \subseteq Int
           /\ req[r].until \in Times /\ req[r].issued \in Times /\ req[r].listings \in Times
           /\ now \in Nat
BY DEF RestTyped, Locals, Times

\* A request that ends without an answer is in time.
LEMMA FailedInTime == Failed \in Locals /\ InTime(Failed) /\ Resting \in Locals /\ InTime(Resting)
<1>1. TTL \in Nat /\ Timeout \in Nat
  BY Numbers
<1> QED
  BY <1>1 DEF Failed, Resting, Locals, PC, Times, InTime

\* So is an answer that is not too old.
LEMMA ServedInTime ==
    ASSUME now \in Nat, NEW found \in Times, found <= now, now - found <= TTL + Timeout
    PROVE  Served(found) \in Locals /\ InTime(Served(found))
<1>1. now - found \in Nat
  BY DEF Times
<1> QED
  BY <1>1 DEF Served, Resting, Locals, PC, Times, InTime

\* A request that is sent has a deadline in time.
LEMMA SentInTime ==
    ASSUME RestTyped, RequestsInTime, NEW r \in Requests, NEW at \in {"oauth", "search"}, NEW tok \in Times,
           req[r].pc \in {"queue", "issued"}, now < req[r].until,
           at = "search" => now + Timeout < tok + Life
    PROVE  Send(r, at, tok) \in Locals /\ InTime(Send(r, at, tok))
<1>1. /\ req[r] \in Locals /\ req[r].until \in Int /\ now \in Nat /\ req[r].until \in Times
      /\ Timeout \in Nat /\ Life \in Nat /\ tok \in Int
  BY Fields, Numbers DEF Times
<1>2. req[r].card \in Cards /\ req[r].age <= TTL + Timeout
  BY DEF RequestsInTime, InTime
<1>3. /\ Deadline(r) \in Nat /\ now <= Deadline(r) /\ Deadline(r) <= now + Timeout
  BY <1>1 DEF Deadline, Times
<1>4. Send(r, at, tok) = [req[r] EXCEPT !.pc = at, !.issued = tok, !.deadline = Deadline(r)]
  BY DEF Send
<1> HIDE DEF Deadline
<1>5. Send(r, at, tok) \in Locals
  BY <1>1, <1>3, <1>4 DEF Locals, PC, Times
<1>6. /\ Send(r, at, tok).pc = at /\ Send(r, at, tok).issued = tok
      /\ Send(r, at, tok).deadline = Deadline(r) /\ Send(r, at, tok).card = req[r].card
      /\ Send(r, at, tok).age = req[r].age
  BY <1>1, <1>4 DEF Locals
<1>7. at = "search" => Deadline(r) < tok + Life
  BY <1>1, <1>3
<1> QED
  BY <1>2, <1>3, <1>5, <1>6, <1>7 DEF InTime

\* What the cache holds stays as it is while nobody looks.
LEMMA CacheStays == ASSUME CacheInv, UNCHANGED cache PROVE CacheInv'
BY DEF cache, CacheInv, CacheTyped, CacheAgrees, Ordered, Cached

-----------------------------------------------------------------------------

\* Every step keeps the invariant.
LEMMA InvStep == IInv /\ [Next]_vars => IInv'
<1> SUFFICES ASSUME IInv, [Next]_vars PROVE IInv'
  OBVIOUS
<1>0. RestTyped /\ CacheInv /\ ItemsInTime /\ TokenInTime /\ RequestsInTime
  BY DEF IInv
<1>n. /\ {TTL, Timeout, Patience, Buffer, Life} \subseteq Nat
      /\ 2 * Timeout <= Buffer /\ 2 * Timeout < Life
  BY Numbers
<1>t. now \in Nat /\ token \in Tokens /\ holder \in Requests \cup {NoOne} /\ req \in [Requests -> Locals]
  BY <1>0 DEF RestTyped
<1>i. items \in [Cards -> Entries] /\ \A c \in Cards : items[c].listings \in Times /\ items[c].cachedAt \in Int
  BY <1>0 DEF CacheInv, CacheTyped, Entries, Times
\* A step of one request that leaves the cache alone.
<1>1. ASSUME NEW r \in Requests, NEW q \in Locals, InTime(q), req' = [req EXCEPT ![r] = q],
             UNCHANGED <<now, cache>>, token' = token \/ (token' \in Tokens /\ TokenInTime'),
             holder' \in Requests \cup {NoOne}
      PROVE  IInv'
  <2>1. req' \in [Requests -> Locals] /\ RequestsInTime'
    BY <1>0, <1>1, RequestStep
  <2>2. CacheInv'
    BY <1>0, <1>1, CacheStays
  <2>3. ItemsInTime'
    BY <1>0, <1>1 DEF ItemsInTime, cache
  <2>4. TokenInTime' /\ token' \in Tokens
    BY <1>0, <1>1, <1>t DEF TokenInTime
  <2>5. RestTyped'
    BY <1>1, <1>t, <2>1, <2>4 DEF RestTyped
  <2> QED
    BY <2>1, <2>2, <2>3, <2>4, <2>5 DEF IInv
<1>2. ASSUME NEW r \in Requests, Refuse(r) \/ GiveUp(r) PROVE IInv'
  <2>1. req' = [req EXCEPT ![r] = Failed] /\ UNCHANGED <<now, cache, token, holder>>
    BY <1>2 DEF Refuse, GiveUp
  <2> QED
    BY <1>1, <1>t, <2>1, FailedInTime
<1>3. ASSUME NEW r \in Requests, Fail(r) PROVE IInv'
  <2>1. /\ req' = [req EXCEPT ![r] = Failed] /\ UNCHANGED <<now, cache, token>>
        /\ holder' \in Requests \cup {NoOne}
    BY <1>3, <1>t DEF Fail, Released
  <2> QED
    BY <1>1, <2>1, FailedInTime
<1>4. ASSUME NEW r \in Requests, NEW c \in Cards, Hit(r, c) PROVE IInv'
  <2>1. /\ Get(c) /\ req' = [req EXCEPT ![r] = Served(items[c].listings)]
        /\ UNCHANGED <<now, token, holder>> /\ items' = items
    BY <1>4 DEF Hit, Get, Looked
  <2>2. now - items[c].cachedAt <= TTL
    BY <2>1 DEF Get, Fresh
  <2>3. items[c].listings <= now /\ items[c].cachedAt - Timeout <= items[c].listings
    BY <1>0 DEF ItemsInTime
  <2>4. items[c].listings \in Times /\ items[c].listings \in Int /\ now - items[c].listings <= TTL + Timeout
    BY <1>n, <1>t, <1>i, <2>2, <2>3 DEF Times
  <2>5. Served(items[c].listings) \in Locals /\ InTime(Served(items[c].listings))
    BY <1>t, <2>3, <2>4, ServedInTime
  <2>6. req' \in [Requests -> Locals] /\ RequestsInTime'
    BY <1>0, <2>1, <2>5, RequestStep
  <2>7. CacheInv'
    BY <1>0, <2>1, GetKeeps
  <2>8. ItemsInTime' /\ TokenInTime' /\ RestTyped'
    BY <1>0, <1>t, <2>1, <2>6 DEF ItemsInTime, TokenInTime, RestTyped
  <2> QED
    BY <2>6, <2>7, <2>8 DEF IInv
<1>5. ASSUME NEW r \in Requests, NEW c \in Cards, Miss(r, c) PROVE IInv'
  <2>1. /\ req' = [req EXCEPT ![r] = [Resting EXCEPT !.pc = "queue", !.card = c, !.until = now + Patience]]
        /\ UNCHANGED <<now, cache, token, holder>>
    BY <1>5 DEF Miss
  <2>2. now + Patience \in Nat
    BY <1>n, <1>t
  <2>3. PICK q : q = [Resting EXCEPT !.pc = "queue", !.card = c, !.until = now + Patience]
    OBVIOUS
  <2>4. q \in Locals
    BY <2>2, <2>3 DEF Resting, Locals, PC, Times
  <2>5. q.pc = "queue" /\ q.card = c /\ q.age = -1
    BY <2>3 DEF Resting
  <2>6. InTime(q)
    BY <1>n, <2>5 DEF InTime
  <2> QED
    BY <1>1, <1>t, <2>1, <2>3, <2>4, <2>6
<1>6. ASSUME NEW r \in Requests, ReuseToken(r) PROVE IInv'
  <2>1. /\ req[r].pc = "queue" /\ now < req[r].until /\ TokenGood
        /\ req' = [req EXCEPT ![r] = Send(r, "search", token.issued)]
        /\ UNCHANGED <<now, cache, token, holder>>
    BY <1>6 DEF ReuseToken, Turn
  <2>2. /\ now < token.expiresAt - Buffer /\ token.expiresAt <= token.issued + Life + Timeout
        /\ token.issued \in Times /\ token.issued \in Int /\ token.expiresAt \in Int
    BY <1>0, <1>t, <2>1 DEF TokenGood, TokenInTime, Tokens, Times
  <2>3. now + Timeout < token.issued + Life
    BY <1>n, <1>t, <2>2
  <2>4. Send(r, "search", token.issued) \in Locals /\ InTime(Send(r, "search", token.issued))
    BY <1>0, <2>1, <2>2, <2>3, SentInTime
  <2> QED
    BY <1>1, <1>t, <2>1, <2>4
<1>7. ASSUME NEW r \in Requests, FetchToken(r) PROVE IInv'
  <2>1. /\ req[r].pc = "queue" /\ now < req[r].until /\ holder' = r
        /\ req' = [req EXCEPT ![r] = Send(r, "oauth", -1)]
        /\ UNCHANGED <<now, cache, token>>
    BY <1>7 DEF FetchToken, Turn
  <2>2. Send(r, "oauth", -1) \in Locals /\ InTime(Send(r, "oauth", -1))
    <3>1. -1 \in Times
      BY DEF Times
    <3> QED
      BY <1>0, <2>1, <3>1, SentInTime
  <2> QED
    BY <1>1, <2>1, <2>2
<1>8. ASSUME NEW r \in Requests, IssueToken(r) PROVE IInv'
  <2>1. /\ req[r].pc = "oauth" /\ req' = [req EXCEPT ![r] = [req[r] EXCEPT !.pc = "issued", !.issued = now]]
        /\ UNCHANGED <<now, cache, token, holder>>
    BY <1>8, <1>t DEF IssueToken
  <2>2. PICK q : q = [req[r] EXCEPT !.pc = "issued", !.issued = now]
    OBVIOUS
  <2>3. InTime(req[r]) /\ req[r] \in Locals
    BY <1>0, <1>t DEF RequestsInTime
  <2>4. /\ q \in Locals /\ q.pc = "issued" /\ q.issued = now /\ q.card = req[r].card
        /\ q.deadline = req[r].deadline /\ q.age = req[r].age
    BY <1>t, <2>2, <2>3 DEF Locals, PC, Times
  <2>5. InTime(q)
    BY <2>1, <2>3, <2>4 DEF InTime
  <2> QED
    BY <1>1, <1>t, <2>1, <2>2, <2>4, <2>5
<1>9. ASSUME NEW r \in Requests, StoreToken(r) PROVE IInv'
  <2>1. /\ req[r].pc = "issued" /\ token' = Granted(r) /\ holder' = NoOne
        /\ req' = [req EXCEPT ![r] = IF now < req[r].until THEN Send(r, "search", req[r].issued) ELSE Failed]
        /\ UNCHANGED <<now, cache>>
    BY <1>9 DEF StoreToken
  <2>2. /\ now <= req[r].deadline /\ req[r].deadline <= req[r].issued + Timeout
        /\ req[r].deadline \in Int /\ req[r].issued \in Int /\ req[r].issued \in Times
    BY <1>0, <2>1, Fields DEF RequestsInTime, InTime
  <2>3. token' \in Tokens /\ TokenInTime'
    <3>1. token' = [issued |-> req[r].issued, expiresAt |-> now + Life] /\ now + Life \in Nat
      BY <1>n, <1>t, <2>1 DEF Granted
    <3>2. now + Life <= req[r].issued + Life + Timeout
      BY <1>n, <1>t, <2>2
    <3> QED
      BY <2>2, <3>1, <3>2 DEF Tokens, Times, TokenInTime
  <2>4. CASE now < req[r].until
    <3>1. now + Timeout < req[r].issued + Life
      BY <1>n, <1>t, <2>2
    <3>2. Send(r, "search", req[r].issued) \in Locals /\ InTime(Send(r, "search", req[r].issued))
      BY <1>0, <2>1, <2>2, <2>4, <3>1, SentInTime
    <3> QED
      BY <1>1, <2>1, <2>3, <2>4, <3>2
  <2>5. CASE ~(now < req[r].until)
    BY <1>1, <2>1, <2>3, <2>5, FailedInTime
  <2> QED
    BY <2>4, <2>5
<1>10. ASSUME NEW r \in Requests, Answer(r) PROVE IInv'
  <2>1. /\ req[r].pc = "search" /\ req' = [req EXCEPT ![r] = [req[r] EXCEPT !.pc = "found", !.listings = now]]
        /\ UNCHANGED <<now, cache, token, holder>>
    BY <1>10, <1>t DEF Answer
  <2>2. PICK q : q = [req[r] EXCEPT !.pc = "found", !.listings = now]
    OBVIOUS
  <2>3. InTime(req[r]) /\ req[r] \in Locals
    BY <1>0, <1>t DEF RequestsInTime
  <2>4. /\ q \in Locals /\ q.pc = "found" /\ q.listings = now /\ q.card = req[r].card
        /\ q.deadline = req[r].deadline /\ q.age = req[r].age
    BY <1>t, <2>2, <2>3 DEF Locals, PC, Times
  <2>5. InTime(q)
    BY <1>t, <2>1, <2>3, <2>4 DEF InTime
  <2> QED
    BY <1>1, <1>t, <2>1, <2>2, <2>4, <2>5
<1>11. ASSUME NEW r \in Requests, StoreListings(r) PROVE IInv'
  <2>1. PICK c, found : c = req[r].card /\ found = req[r].listings
    OBVIOUS
  <2>2. /\ req[r].pc = "found" /\ Set(c, found) /\ req' = [req EXCEPT ![r] = Served(found)]
        /\ UNCHANGED <<now, token, holder>>
    BY <1>11, <2>1 DEF StoreListings
  <2>3. /\ c \in Cards /\ now <= req[r].deadline /\ req[r].deadline <= found + Timeout /\ found <= now
        /\ found \in Times /\ found \in Int /\ req[r].deadline \in Int
    BY <1>0, <2>1, <2>2, Fields DEF RequestsInTime, InTime
  <2>4. now - found <= TTL + Timeout /\ now - Timeout <= found
    BY <1>n, <1>t, <2>3
  <2>5. Served(found) \in Locals /\ InTime(Served(found))
    BY <1>t, <2>3, <2>4, ServedInTime
  <2>6. req' \in [Requests -> Locals] /\ RequestsInTime'
    BY <1>0, <2>2, <2>5, RequestStep
  <2>7. /\ CacheInv' /\ items'[c] = Entry(found)
        /\ \A d \in Cards \ {c} : items'[d] = items[d] \/ items'[d] = NoEntry
    BY <1>0, <1>t, <2>2, <2>3, SetKeeps
  <2>8. ItemsInTime'
    <3>1. items'[c].listings <= now /\ items'[c].cachedAt - Timeout <= items'[c].listings
      BY <2>3, <2>4, <2>7 DEF Entry
    <3>2. ASSUME NEW d \in Cards, d # c
          PROVE  items'[d].listings <= now /\ items'[d].cachedAt - Timeout <= items'[d].listings
      <4>1. CASE items'[d] = items[d]
        BY <1>0, <4>1 DEF ItemsInTime
      <4>2. CASE items'[d] = NoEntry
        BY <1>n, <1>t, <4>2 DEF NoEntry
      <4> QED
        BY <2>7, <3>2, <4>1, <4>2
    <3> QED
      BY <2>2, <3>1, <3>2 DEF ItemsInTime
  <2>9. TokenInTime' /\ RestTyped'
    BY <1>0, <1>t, <2>2, <2>6 DEF TokenInTime, RestTyped
  <2> QED
    BY <2>6, <2>7, <2>8, <2>9 DEF IInv
<1>12. CASE Restart
  <2>1. /\ order' = <<>> /\ items' = [c \in Cards |-> NoEntry] /\ newer' = {} /\ now' = now
        /\ token' = NoToken /\ holder' = NoOne /\ req' = [r \in Requests |-> Resting]
    BY <1>12 DEF Restart
  <2>2. CacheInv'
    BY <2>1, EbayAssumption DEF CacheInv, CacheTyped, CacheAgrees, Ordered, Cached, NoEntry, Entries, Times
  <2>3. ItemsInTime'
    BY <1>n, <1>t, <2>1 DEF ItemsInTime, NoEntry
  <2>4. TokenInTime' /\ NoToken \in Tokens
    BY <2>1 DEF TokenInTime, NoToken, Tokens, Times
  <2>5. RequestsInTime'
    BY <1>n, <2>1 DEF RequestsInTime, InTime, Resting
  <2>6. RestTyped'
    BY <1>t, <2>1, <2>4, FailedInTime DEF RestTyped
  <2> QED
    BY <2>2, <2>3, <2>4, <2>5, <2>6 DEF IInv
<1>13. CASE Tick
  <2>1. /\ now' = now + 1 /\ UNCHANGED <<cache, token, holder, req>>
        /\ \A r \in Requests : InFlight(r) => now < req[r].deadline
    BY <1>13 DEF Tick
  <2>2. CacheInv'
    BY <1>0, <2>1, CacheStays
  <2>3. ItemsInTime'
    <3>1. \A c \in Cards : items[c].listings \in Int
      BY <1>i DEF Times
    <3> QED
      BY <1>0, <1>t, <2>1, <3>1 DEF ItemsInTime, cache
  <2>4. TokenInTime' /\ RestTyped'
    BY <1>0, <1>t, <2>1 DEF TokenInTime, RestTyped
  <2>5. ASSUME NEW r \in Requests PROVE InTime(req[r])'
    <3>1. /\ {req[r].deadline, req[r].listings} \subseteq Int /\ InTime(req[r])
          /\ InFlight(r) => now < req[r].deadline
      BY <1>0, <2>1, Fields DEF RequestsInTime
    <3> QED
      BY <1>n, <1>t, <2>1, <3>1 DEF InTime, InFlight
  <2> QED
    BY <2>2, <2>3, <2>4, <2>5 DEF IInv, RequestsInTime
<1>14. CASE UNCHANGED vars
  <2>1. UNCHANGED <<now, cache, token, holder, req>>
    BY <1>14 DEF vars
  <2>2. CacheInv'
    BY <1>0, <2>1, CacheStays
  <2> QED
    BY <1>0, <2>1, <2>2 DEF IInv, ItemsInTime, TokenInTime, RestTyped, RequestsInTime, InTime, cache
<1> QED
  BY <1>2, <1>3, <1>4, <1>5, <1>6, <1>7, <1>8, <1>9, <1>10, <1>11, <1>12, <1>13, <1>14 DEF Next

\* The cache is in order, and every request, token and entry is in time.
THEOREM InductiveInvariant == Spec => []IInv
<1>1. Init => IInv
  <2> SUFFICES ASSUME Init PROVE IInv
    OBVIOUS
  <2>1. CacheInv
    BY EbayAssumption DEF Init, CacheInv, CacheTyped, CacheAgrees, Ordered, Cached, NoEntry, Entries, Times
  <2>2. ItemsInTime
    BY Numbers DEF Init, ItemsInTime, NoEntry
  <2>3. RequestsInTime
    BY Numbers DEF Init, RequestsInTime, InTime, Resting
  <2>4. RestTyped /\ TokenInTime
    BY FailedInTime DEF Init, RestTyped, TokenInTime, NoToken, Tokens, Times
  <2> QED
    BY <2>1, <2>2, <2>3, <2>4 DEF IInv
<1> QED
  BY <1>1, InvStep, PTL DEF Spec

\* Every variable always holds a value of its type.
THEOREM TypeCorrect == Spec => []TypeOK
<1>1. IInv => TypeOK
  BY DEF IInv, RestTyped, CacheInv, CacheTyped, TypeOK
<1> QED
  BY <1>1, InductiveInvariant, PTL

\* The list and the map of the cache always agree, within its capacity.
THEOREM ListAndMapAgree == Spec => []CacheAgrees
<1>1. IInv => CacheAgrees
  BY DEF IInv, CacheInv
<1> QED
  BY <1>1, InductiveInvariant, PTL

\* What a page is shown is never older than the ttl and one search.
THEOREM AnswersAreFresh == Spec => []AnswersFresh
<1>1. IInv => AnswersFresh
  BY DEF IInv, RequestsInTime, InTime, AnswersFresh
<1> QED
  BY <1>1, InductiveInvariant, PTL

\* No search is ever under way with a token that has expired.
THEOREM TokensOutliveSearches == Spec => []TokenOutlivesSearch
<1>1. IInv => TokenOutlivesSearch
  <2> SUFFICES ASSUME IInv, NEW r \in Requests, req[r].pc = "search" PROVE now < req[r].issued + Life
    BY DEF TokenOutlivesSearch
  <2>1. now <= req[r].deadline /\ req[r].deadline < req[r].issued + Life
    BY DEF IInv, RequestsInTime, InTime
  <2>2. now \in Int /\ req[r].deadline \in Int /\ req[r].issued \in Int /\ Life \in Int
    BY Fields, Numbers DEF IInv
  <2> QED
    BY <2>1, <2>2
<1> QED
  BY <1>1, InductiveInvariant, PTL

\* The card a full cache gives up was used before every other card in it.
THEOREM LeastRecentEvicted == Spec => EvictsLeastRecent
<1>1. ASSUME IInv, [Next]_vars, NEW c \in Cached, items'[c] = NoEntry, order' # <<>>, NEW d \in Cached \ {c}
      PROVE  <<d, c>> \in newer
  <2>1. c \in Cards /\ items[c] # NoEntry /\ d \in Cards /\ CacheInv /\ RestTyped /\ RequestsInTime
    BY <1>1 DEF Cached, IInv
  <2>2. CASE items' = items
    BY <1>1, <2>1, <2>2
  <2>3. ASSUME NEW r \in Requests, StoreListings(r) PROVE <<d, c>> \in newer
    <3>1. Set(req[r].card, req[r].listings) /\ req[r].card \in Cards /\ req[r].listings \in Times /\ now \in Nat
      BY <2>1, <2>3, Fields DEF StoreListings, RequestsInTime, InTime
    <3>2. Len(order) > 0 /\ c = order[Len(order)]
      BY <1>1, <2>1, <3>1, SetKeeps
    <3>3. order \in Seq(Cards) /\ DOMAIN order = 1..Len(order) /\ Len(order) \in Nat
      BY <2>1, LenProperties DEF CacheInv, CacheTyped
    <3>4. PICK i \in DOMAIN order : order[i] = d
      BY <1>1, <2>1 DEF CacheInv, CacheAgrees
    <3>5. i < Len(order) /\ Len(order) \in DOMAIN order
      BY <1>1, <3>2, <3>3, <3>4
    <3> QED
      BY <2>1, <3>2, <3>4, <3>5 DEF CacheInv, Ordered
  <2>4. CASE Restart
    BY <1>1, <2>4 DEF Restart
  <2>5. items' = items \/ Restart \/ \E r \in Requests : StoreListings(r)
    BY <1>1 DEF Next, vars, cache, Refuse, Hit, Get, Looked, Miss, ReuseToken, FetchToken, GiveUp, IssueToken,
       StoreToken, Answer, Fail, Tick
  <2> QED
    BY <2>2, <2>3, <2>4, <2>5
<1>2. IInv /\ [Next]_vars => [\A c \in Cached : items'[c] = NoEntry /\ order' # <<>> =>
                                 \A d \in Cached \ {c} : <<d, c>> \in newer]_vars
  BY <1>1
<1> QED
  BY <1>2, InductiveInvariant, PTL DEF Spec, EvictsLeastRecent

\* Searches of one card that are stored in the other order take what is cached
\* back by no more than one search may last.
THEOREM StepsBackAreShort == Spec => SetsBackBounded
<1>1. ASSUME IInv, [Next]_vars, NEW c \in Cached, items'[c].listings # -1
      PROVE  items'[c].listings >= items[c].listings - Timeout
  <2>1. /\ c \in Cards /\ CacheInv /\ RestTyped /\ RequestsInTime /\ ItemsInTime
        /\ items \in [Cards -> Entries] /\ items[c].listings \in Int
        /\ now \in Nat /\ Timeout \in Nat
    BY <1>1, Numbers DEF Cached, IInv, CacheInv, CacheTyped, RestTyped, Entries, Times
  <2>2. CASE items' = items
    BY <2>1, <2>2
  <2>3. ASSUME NEW r \in Requests, StoreListings(r)
        PROVE  items'[c].listings >= items[c].listings - Timeout
    <3>1. Set(req[r].card, req[r].listings) /\ req[r].listings \in Int
      BY <2>1, <2>3, Fields DEF StoreListings, Times
    <3>2. req[r].listings >= now - Timeout
      BY <1>1, <2>1, <2>3, <3>1, Fields DEF StoreListings, RequestsInTime, InTime
    <3>3. items'[c] \in {items[c], Entry(req[r].listings), NoEntry}
      BY <2>1, <3>1 DEF Set, Deleted
    <3>4. items[c].listings <= now
      BY <1>1, <2>1 DEF ItemsInTime
    <3> QED
      BY <1>1, <2>1, <3>1, <3>2, <3>3, <3>4 DEF Entry, NoEntry
  <2>4. CASE Restart
    BY <1>1, <2>1, <2>4 DEF Restart, NoEntry
  <2>5. items' = items \/ Restart \/ \E r \in Requests : StoreListings(r)
    BY <1>1 DEF Next, vars, cache, Refuse, Hit, Get, Looked, Miss, ReuseToken, FetchToken, GiveUp, IssueToken,
       StoreToken, Answer, Fail, Tick
  <2> QED
    BY <2>2, <2>3, <2>4, <2>5
<1>2. IInv /\ [Next]_vars => [\A c \in Cached : items'[c].listings # -1 =>
                                 items'[c].listings >= items[c].listings - Timeout]_vars
  BY <1>1
<1> QED
  BY <1>2, InductiveInvariant, PTL DEF Spec, SetsBackBounded

=============================================================================
