---------------------------- MODULE LRUOpsProofs ----------------------------
(***************************************************************************)
(* Lemmas about the operators of LRUOps: get and set keep the map well     *)
(* formed, change no entry but the one they are about and the one that is  *)
(* evicted, and keep the order of all the other keys.                      *)
(***************************************************************************)
EXTENDS LRUOps, TLAPS, SequenceTheorems, FiniteSetTheorems

KeysOf(order) == {order[i] : i \in DOMAIN order}

\* Every key that is present is in the order, once.
WellFormed(lru, S) ==
    /\ lru = [item |-> lru.item, order |-> lru.order]
    /\ lru.order \in Seq(S)
    /\ \A i, j \in DOMAIN lru.order : lru.order[i] = lru.order[j] => i = j
    /\ KeysOf(lru.order) = DOMAIN lru.item

\* The keys other than k stand in new in the order they have in old.
KeepsOrder(new, old, k) ==
    \A i, j \in DOMAIN new :
        i < j /\ new[i] # k /\ new[j] # k =>
            \E a, b \in DOMAIN old : a < b /\ new[i] = old[a] /\ new[j] = old[b]

\* RemoveAt closes the gap: the entries behind it move down by one.
LEMMA RemoveAtShape ==
    ASSUME NEW S, NEW s \in Seq(S), NEW i \in DOMAIN s
    PROVE  /\ RemoveAt(s, i) \in Seq(S)
           /\ Len(RemoveAt(s, i)) = Len(s) - 1
           /\ \A m \in 1 .. Len(s) - 1 :
                 RemoveAt(s, i)[m] = IF m < i THEN s[m] ELSE s[m + 1]
<1> DEFINE front == SubSeq(s, 1, i - 1)
           back  == SubSeq(s, i + 1, Len(s))
<1>1. i \in 1 .. Len(s) /\ Len(s) \in Nat
  BY LenProperties
<1>2. /\ front \in Seq(S) /\ Len(front) = i - 1
      /\ \A m \in 1 .. i - 1 : front[m] = s[m]
  <2>1. \A m \in 1 .. i - 1 : s[m] \in S
    BY <1>1, ElementOfSeq
  <2> QED
    BY <1>1, <2>1, SubSeqProperties
<1>3. /\ back \in Seq(S) /\ Len(back) = Len(s) - i
      /\ \A m \in 1 .. Len(s) - i : back[m] = s[i + m]
  <2>1. \A m \in i + 1 .. Len(s) : s[m] \in S
    BY <1>1, ElementOfSeq
  <2> QED
    BY <1>1, <2>1, SubSeqProperties
<1> HIDE DEF front, back
<1>4. /\ front \o back \in Seq(S)
      /\ Len(front \o back) = Len(s) - 1
      /\ \A m \in 1 .. Len(s) - 1 :
            (front \o back)[m] = IF m <= i - 1 THEN front[m] ELSE back[m - (i - 1)]
  <2>1. Len(front) + Len(back) = Len(s) - 1 /\ Len(front) = i - 1
    BY <1>1, <1>2, <1>3
  <2>2. /\ front \o back \in Seq(S)
        /\ Len(front \o back) = Len(front) + Len(back)
        /\ \A m \in 1 .. Len(front) + Len(back) :
              (front \o back)[m] =
                  IF m <= Len(front) THEN front[m] ELSE back[m - Len(front)]
    BY <1>2, <1>3, ConcatProperties
  <2> QED
    BY <2>1, <2>2
<1>5. ASSUME NEW m \in 1 .. Len(s) - 1
      PROVE  (front \o back)[m] = IF m < i THEN s[m] ELSE s[m + 1]
  <2>1. CASE m < i
    BY <1>1, <1>2, <1>4, <2>1
  <2>2. CASE ~(m < i)
    <3>1. m - (i - 1) \in 1 .. Len(s) - i /\ ~(m <= i - 1) /\ i + (m - (i - 1)) = m + 1
      BY <1>1, <2>2
    <3>2. back[m - (i - 1)] = s[i + (m - (i - 1))]
      BY <1>3, <3>1
    <3> QED
      BY <1>4, <2>2, <3>1, <3>2
  <2> QED
    BY <2>1, <2>2
<1> QED
  BY <1>4, <1>5 DEF RemoveAt, front, back

\* Without takes out the key and leaves the others as they stand.
LEMMA WithoutFacts ==
    ASSUME NEW S, NEW s \in Seq(S), NEW k \in KeysOf(s),
           \A i, j \in DOMAIN s : s[i] = s[j] => i = j
    PROVE  LET w == Without(s, k)
           IN  /\ w \in Seq(S)
               /\ \A i, j \in DOMAIN w : w[i] = w[j] => i = j
               /\ KeysOf(w) = KeysOf(s) \ {k}
               /\ \A i, j \in DOMAIN w :
                     i < j => \E a, b \in DOMAIN s : a < b /\ w[i] = s[a] /\ w[j] = s[b]
<1> DEFINE p == CHOOSE i \in DOMAIN s : s[i] = k
           w == RemoveAt(s, p)
           At(m) == IF m < p THEN m ELSE m + 1
<1>1. p \in DOMAIN s /\ s[p] = k
  BY DEF KeysOf
<1>2. Len(s) \in Nat /\ DOMAIN s = 1 .. Len(s)
  BY LenProperties
<1> HIDE DEF p
<1>3. /\ w \in Seq(S) /\ Len(w) = Len(s) - 1
      /\ \A m \in 1 .. Len(s) - 1 : w[m] = s[At(m)]
  <2>1. /\ w \in Seq(S) /\ Len(w) = Len(s) - 1
        /\ \A m \in 1 .. Len(s) - 1 : w[m] = IF m < p THEN s[m] ELSE s[m + 1]
    BY <1>1, RemoveAtShape
  <2> QED
    BY <2>1
<1> HIDE DEF w
<1>4. DOMAIN w = 1 .. Len(s) - 1
  BY <1>3, LenProperties
<1>5. \A m \in DOMAIN w : At(m) \in DOMAIN s /\ At(m) # p
  BY <1>1, <1>2, <1>4
<1>6. \A m, n \in DOMAIN w : m < n => At(m) < At(n)
  BY <1>1, <1>2, <1>4
<1>7. \A m, n \in DOMAIN w : At(m) = At(n) => m = n
  BY <1>1, <1>2, <1>4
<1>8. \A a \in DOMAIN s : a # p => \E m \in DOMAIN w : At(m) = a
  <2>1. SUFFICES ASSUME NEW a \in DOMAIN s, a # p
                 PROVE  \E m \in DOMAIN w : At(m) = a
    OBVIOUS
  <2>2. CASE a < p
    <3>1. a \in DOMAIN w /\ At(a) = a
      BY <1>1, <1>2, <1>4, <2>2
    <3> QED
      BY <3>1
  <2>3. CASE a > p
    <3>1. a - 1 \in DOMAIN w /\ At(a - 1) = a
      BY <1>1, <1>2, <1>4, <2>3
    <3> QED
      BY <3>1
  <2> QED
    BY <1>1, <1>2, <2>1, <2>2, <2>3
<1>9. \A m \in DOMAIN w : w[m] = s[At(m)]
  BY <1>3, <1>4
<1> HIDE DEF At
<1>10. \A i, j \in DOMAIN w : w[i] = w[j] => i = j
  BY <1>5, <1>7, <1>9
<1>11. KeysOf(w) = KeysOf(s) \ {k}
  <2>1. KeysOf(w) \subseteq KeysOf(s) \ {k}
    BY <1>1, <1>5, <1>9 DEF KeysOf
  <2>2. KeysOf(s) \ {k} \subseteq KeysOf(w)
    BY <1>1, <1>8, <1>9 DEF KeysOf
  <2> QED
    BY <2>1, <2>2
<1>12. \A i, j \in DOMAIN w :
          i < j => \E a, b \in DOMAIN s : a < b /\ w[i] = s[a] /\ w[j] = s[b]
  BY <1>5, <1>6, <1>9
<1>13. w = Without(s, k)
  BY DEF w, p, Without
<1> QED
  BY <1>3, <1>10, <1>11, <1>12, <1>13

\* Appending a key that is not in the order.
LEMMA AppendFacts ==
    ASSUME NEW S, NEW s \in Seq(S), NEW k \in S, k \notin KeysOf(s),
           \A i, j \in DOMAIN s : s[i] = s[j] => i = j
    PROVE  LET t == Append(s, k)
           IN  /\ t \in Seq(S)
               /\ t[Len(t)] = k
               /\ \A i, j \in DOMAIN t : t[i] = t[j] => i = j
               /\ KeysOf(t) = KeysOf(s) \cup {k}
               /\ KeepsOrder(t, s, k)
<1> DEFINE t == Append(s, k)
<1>1. Len(s) \in Nat /\ DOMAIN s = 1 .. Len(s)
  BY LenProperties
<1>2. /\ t \in Seq(S) /\ Len(t) = Len(s) + 1
      /\ \A i \in 1 .. Len(s) : t[i] = s[i]
      /\ t[Len(s) + 1] = k
  BY AppendProperties
<1> HIDE DEF t
<1>3. DOMAIN t = 1 .. Len(s) + 1
  BY <1>2, LenProperties
<1>4. \A i \in DOMAIN s : t[i] = s[i] /\ s[i] # k
  BY <1>1, <1>2 DEF KeysOf
<1>5. \A i \in DOMAIN t : i \in DOMAIN s \/ i = Len(s) + 1
  BY <1>1, <1>3
<1>6. \A i, j \in DOMAIN t : t[i] = t[j] => i = j
  BY <1>2, <1>4, <1>5
<1>7. KeysOf(t) = KeysOf(s) \cup {k}
  <2>1. DOMAIN s \subseteq DOMAIN t /\ Len(s) + 1 \in DOMAIN t
    BY <1>1, <1>3
  <2> QED
    BY <1>2, <1>4, <1>5, <2>1 DEF KeysOf
<1>8. KeepsOrder(t, s, k)
  BY <1>2, <1>4, <1>5 DEF KeepsOrder
<1> QED
  BY <1>2, <1>6, <1>7, <1>8 DEF t

\* Two changes that each move no key but k move none together.
LEMMA KeepsOrderTransitive ==
    ASSUME NEW r, NEW s, NEW t, NEW k, KeepsOrder(r, s, k), KeepsOrder(s, t, k)
    PROVE  KeepsOrder(r, t, k)
BY DEF KeepsOrder

\* The map of a new LRUMap is well formed.
LEMMA EmptyWellFormed == \A S : WellFormed(EmptyLRU, S)
BY EmptySeq DEF WellFormed, EmptyLRU, KeysOf

\* bumpLru makes the key the last in the order, moves no other key and
\* touches no entry.
LEMMA BumpFacts ==
    ASSUME NEW S, NEW lru, NEW k \in S, WellFormed(lru, S), Has(lru, k),
           NEW r, r = Bump(lru, k)
    PROVE  /\ WellFormed(r, S)
           /\ r.item = lru.item
           /\ KeepsOrder(r.order, lru.order, k)
           /\ r.order[Len(r.order)] = k
<1> DEFINE w == Without(lru.order, k)
<1>1. /\ lru.order \in Seq(S) /\ k \in KeysOf(lru.order)
      /\ \A i, j \in DOMAIN lru.order : lru.order[i] = lru.order[j] => i = j
      /\ KeysOf(lru.order) = DOMAIN lru.item
  BY DEF WellFormed, Has
<1>2. /\ w \in Seq(S)
      /\ \A i, j \in DOMAIN w : w[i] = w[j] => i = j
      /\ KeysOf(w) = KeysOf(lru.order) \ {k}
      /\ KeepsOrder(w, lru.order, k)
  <2> DEFINE o == lru.order
             x == Without(o, k)
  <2> HIDE DEF o
  <2>1. /\ o \in Seq(S) /\ k \in KeysOf(o)
        /\ \A i, j \in DOMAIN o : o[i] = o[j] => i = j
    BY <1>1 DEF o
  <2>2. /\ x \in Seq(S)
        /\ \A i, j \in DOMAIN x : x[i] = x[j] => i = j
        /\ KeysOf(x) = KeysOf(o) \ {k}
        /\ \A i, j \in DOMAIN x :
              i < j => \E a, b \in DOMAIN o : a < b /\ x[i] = o[a] /\ x[j] = o[b]
    BY <2>1, WithoutFacts
  <2> HIDE DEF x
  <2>3. KeepsOrder(x, o, k)
    BY <2>2 DEF KeepsOrder
  <2>4. x = w
    BY DEF x, o
  <2> QED
    BY <2>2, <2>3, <2>4 DEF o
<1> DEFINE t == Append(w, k)
<1> HIDE DEF w
<1>3. /\ t \in Seq(S)
      /\ \A i, j \in DOMAIN t : t[i] = t[j] => i = j
      /\ KeysOf(t) = KeysOf(w) \cup {k}
      /\ KeepsOrder(t, w, k)
      /\ t[Len(t)] = k
  BY <1>2, AppendFacts
<1> HIDE DEF t
<1>4. r = [item |-> lru.item, order |-> t]
  <2>1. lru = [item |-> lru.item, order |-> lru.order]
    BY DEF WellFormed
  <2>2. [lru EXCEPT !.order = t] = [item |-> lru.item, order |-> t]
    BY <2>1
  <2> QED
    BY <2>2 DEF Bump, t, w
<1>5. KeepsOrder(t, lru.order, k)
  BY <1>2, <1>3, KeepsOrderTransitive
<1>6. KeysOf(t) = DOMAIN lru.item
  BY <1>1, <1>2, <1>3
<1> QED
  BY <1>3, <1>4, <1>5, <1>6 DEF WellFormed, t, w

\* delete takes out one entry and its place in the order, and nothing else.
LEMMA DropFacts ==
    ASSUME NEW S, NEW lru, NEW k \in S, WellFormed(lru, S), Has(lru, k)
    PROVE  /\ WellFormed(Drop(lru, k), S)
           /\ DOMAIN Drop(lru, k).item = DOMAIN lru.item \ {k}
           /\ \A j \in DOMAIN lru.item \ {k} : Drop(lru, k).item[j] = lru.item[j]
           /\ \A x : KeepsOrder(Drop(lru, k).order, lru.order, x)
<1> DEFINE w == Without(lru.order, k)
<1>1. /\ lru.order \in Seq(S) /\ k \in KeysOf(lru.order)
      /\ \A i, j \in DOMAIN lru.order : lru.order[i] = lru.order[j] => i = j
      /\ KeysOf(lru.order) = DOMAIN lru.item
  BY DEF WellFormed, Has
<1>2. /\ w \in Seq(S)
      /\ \A i, j \in DOMAIN w : w[i] = w[j] => i = j
      /\ KeysOf(w) = KeysOf(lru.order) \ {k}
      /\ \A x : KeepsOrder(w, lru.order, x)
  BY <1>1, WithoutFacts DEF KeepsOrder
<1> HIDE DEF w
<1>3. Drop(lru, k) = [item |-> [j \in DOMAIN lru.item \ {k} |-> lru.item[j]], order |-> w]
  BY DEF Drop, w
<1> QED
  BY <1>1, <1>2, <1>3 DEF WellFormed

\* get changes no entry; it may take out k, and moves no other key.
LEMMA GetFacts ==
    ASSUME NEW S, NEW lru, NEW k \in S, NEW ttl, NEW now, WellFormed(lru, S),
           NEW m, m = Get(lru, k, ttl, now)
    PROVE  /\ WellFormed(m, S)
           /\ Has(lru, k) /\ Expired(lru, k, ttl, now)
                 => DOMAIN m.item = DOMAIN lru.item \ {k}
           /\ ~(Has(lru, k) /\ Expired(lru, k, ttl, now))
                 => DOMAIN m.item = DOMAIN lru.item
           /\ \A j \in DOMAIN m.item : m.item[j] = lru.item[j]
           /\ KeepsOrder(m.order, lru.order, k)
<1>1. CASE Fresh(lru, k, ttl, now)
  <2>1. /\ m = Bump(lru, k)
        /\ Has(lru, k) /\ ~Expired(lru, k, ttl, now)
    BY <1>1 DEF Get, Fresh
  <2>2. /\ WellFormed(m, S)
        /\ m.item = lru.item
        /\ KeepsOrder(m.order, lru.order, k)
    BY <2>1, BumpFacts
  <2> QED
    BY <2>1, <2>2
<1>2. CASE Has(lru, k) /\ Expired(lru, k, ttl, now)
  <2>1. m = Drop(lru, k)
    BY <1>2 DEF Get, Fresh, Delete
  <2>2. /\ WellFormed(Drop(lru, k), S)
        /\ DOMAIN Drop(lru, k).item = DOMAIN lru.item \ {k}
        /\ \A j \in DOMAIN lru.item \ {k} : Drop(lru, k).item[j] = lru.item[j]
        /\ KeepsOrder(Drop(lru, k).order, lru.order, k)
    <3> DEFINE d == Drop(lru, k)
    <3> HIDE DEF d
    <3>1. d = Drop(lru, k) /\ Has(lru, k)
      BY <1>2 DEF d
    <3>2. /\ WellFormed(d, S)
          /\ DOMAIN d.item = DOMAIN lru.item \ {k}
          /\ \A j \in DOMAIN lru.item \ {k} : d.item[j] = lru.item[j]
          /\ KeepsOrder(d.order, lru.order, k)
      BY <3>1, DropFacts
    <3> QED
      BY <3>1, <3>2
  <2> QED
    BY <1>2, <2>1, <2>2
<1>3. CASE ~Has(lru, k)
  <2>1. m = lru
    BY <1>3 DEF Get, Fresh, Delete
  <2>2. KeepsOrder(lru.order, lru.order, k)
    BY DEF KeepsOrder
  <2> QED
    BY <1>3, <2>1, <2>2
<1> QED
  BY <1>1, <1>2, <1>3 DEF Fresh

\* Making room evicts at most the first key in the order, and leaves all the
\* others as they are.
LEMMA MakeRoomFacts ==
    ASSUME NEW S, NEW m, NEW k \in S, NEW max \in Nat,
           WellFormed(m, S), IsFiniteSet(DOMAIN m.item),
           NEW r, r = MakeRoom(m, k, max)
    PROVE  /\ WellFormed(r, S)
           /\ Evicted(m, k, max) \subseteq DOMAIN m.item \ {k}
           /\ DOMAIN r.item = DOMAIN m.item \ Evicted(m, k, max)
           /\ \A j \in DOMAIN r.item : r.item[j] = m.item[j]
           /\ KeepsOrder(r.order, m.order, k)
<1>1. CASE Evicts(m, k, max)
  <2>1. r = Drop(m, Victim(m)) /\ Evicted(m, k, max) = {Victim(m)}
    BY <1>1 DEF MakeRoom, Evicted
  <2>2. DOMAIN m.item # {} /\ ~Has(m, k)
    BY <1>1, FS_EmptySet DEF Evicts
  <2>3. m.order \in Seq(S) /\ KeysOf(m.order) = DOMAIN m.item
    BY DEF WellFormed
  <2>4. m.order # << >> /\ 1 \in DOMAIN m.order /\ Victim(m) = m.order[1]
    BY <2>2, <2>3, EmptySeq, LenProperties DEF KeysOf, Victim
  <2>5. Victim(m) \in S /\ Has(m, Victim(m)) /\ Victim(m) \in DOMAIN m.item \ {k}
    BY <2>2, <2>3, <2>4, ElementOfSeq, LenProperties DEF KeysOf, Has
  <2>6. /\ WellFormed(r, S)
        /\ DOMAIN r.item = DOMAIN m.item \ {Victim(m)}
        /\ \A j \in DOMAIN m.item \ {Victim(m)} : r.item[j] = m.item[j]
        /\ KeepsOrder(r.order, m.order, k)
    BY <2>1, <2>5, DropFacts
  <2> QED
    BY <2>1, <2>5, <2>6
<1>2. CASE ~Evicts(m, k, max)
  <2>1. r = m /\ Evicted(m, k, max) = {}
    BY <1>2 DEF MakeRoom, Evicted
  <2>2. KeepsOrder(m.order, m.order, k)
    BY DEF KeepsOrder
  <2> QED
    BY <2>1, <2>2
<1> QED
  BY <1>1, <1>2

\* set writes the entry of k, and leaves all the others that stay as they are.
LEMMA SetItems ==
    ASSUME NEW S, NEW m, NEW k \in S, NEW v, NEW max \in Nat, NEW ttl, NEW now,
           WellFormed(m, S), IsFiniteSet(DOMAIN m.item),
           NEW r, r = Set(m, k, v, max, ttl, now)
    PROVE  /\ Evicted(m, k, max) \subseteq DOMAIN m.item \ {k}
           /\ DOMAIN r.item = (DOMAIN m.item \ Evicted(m, k, max)) \cup {k}
           /\ \A j \in DOMAIN r.item : j # k => r.item[j] = m.item[j]
<1> DEFINE kept == MakeRoom(m, k, max)
           items == [j \in DOMAIN kept.item \cup {k} |->
                        IF j = k THEN Entry(v, ttl, now) ELSE kept.item[j]]
<1>1. r.item = items
  BY DEF Set
<1>2. /\ DOMAIN items = DOMAIN kept.item \cup {k}
      /\ \A j \in DOMAIN items : j # k => items[j] = kept.item[j]
  OBVIOUS
<1>3. kept = MakeRoom(m, k, max)
  OBVIOUS
<1> HIDE DEF kept, items
<1>4. /\ Evicted(m, k, max) \subseteq DOMAIN m.item \ {k}
      /\ DOMAIN kept.item = DOMAIN m.item \ Evicted(m, k, max)
      /\ \A j \in DOMAIN kept.item : kept.item[j] = m.item[j]
  BY <1>3, MakeRoomFacts
<1> QED
  BY <1>1, <1>2, <1>4

\* set writes the value and restarts the expiry.
LEMMA SetEntry ==
    ASSUME NEW m, NEW k, NEW v, NEW max, NEW ttl, NEW now
    PROVE  Set(m, k, v, max, ttl, now).item[k] = Entry(v, ttl, now)
BY DEF Set

\* set makes k the last in the order, and moves no other key.
LEMMA SetOrder ==
    ASSUME NEW S, NEW m, NEW k \in S, NEW v, NEW max \in Nat, NEW ttl, NEW now,
           WellFormed(m, S), IsFiniteSet(DOMAIN m.item),
           NEW r, r = Set(m, k, v, max, ttl, now)
    PROVE  /\ WellFormed(r, S)
           /\ KeepsOrder(r.order, m.order, k)
           /\ r.order[Len(r.order)] = k
<1> DEFINE kept == MakeRoom(m, k, max)
<1>1. r = [item |-> r.item, order |-> r.order]
  BY DEF Set
<1>2. /\ DOMAIN r.item = DOMAIN kept.item \cup {k}
      /\ Has(m, k) => r.order = Append(Without(m.order, k), k)
      /\ ~Has(m, k) => r.order = Append(kept.order, k)
  BY DEF Set
<1>3. kept = MakeRoom(m, k, max)
  OBVIOUS
<1> HIDE DEF kept
<1>4. CASE Has(m, k)
  <2>1. kept = m
    BY <1>3, <1>4 DEF MakeRoom, Evicts
  <2> DEFINE b == Bump(m, k)
  <2> HIDE DEF b
  <2>2. /\ WellFormed(b, S)
        /\ b.item = m.item
        /\ KeepsOrder(b.order, m.order, k)
        /\ b.order[Len(b.order)] = k
    BY <1>4, BumpFacts DEF b
  <2>9. b.order = Append(Without(m.order, k), k)
    BY <1>4 DEF b, Bump, WellFormed
  <2>3. b.order = r.order /\ DOMAIN r.item = DOMAIN m.item
    BY <1>2, <1>4, <2>1, <2>9 DEF Has
  <2>4. WellFormed(r, S)
    BY <1>1, <2>2, <2>3 DEF WellFormed
  <2> QED
    BY <2>2, <2>3, <2>4
<1>5. CASE ~Has(m, k)
  <2>1. /\ WellFormed(kept, S)
        /\ DOMAIN kept.item \subseteq DOMAIN m.item
        /\ KeepsOrder(kept.order, m.order, k)
    BY <1>3, MakeRoomFacts
  <2> DEFINE o == kept.order
             t == Append(o, k)
  <2>2. /\ o \in Seq(S) /\ k \notin KeysOf(o)
        /\ \A i, j \in DOMAIN o : o[i] = o[j] => i = j
        /\ KeysOf(o) = DOMAIN kept.item
        /\ KeepsOrder(o, m.order, k)
    BY <1>5, <2>1 DEF WellFormed, Has
  <2>3. r.order = t
    BY <1>2, <1>5
  <2> HIDE DEF o
  <2>4. /\ t \in Seq(S)
        /\ \A i, j \in DOMAIN t : t[i] = t[j] => i = j
        /\ KeysOf(t) = KeysOf(o) \cup {k}
        /\ KeepsOrder(t, o, k)
        /\ t[Len(t)] = k
    BY <2>2, AppendFacts
  <2> HIDE DEF t
  <2>5. WellFormed(r, S)
    <3>1. KeysOf(t) = DOMAIN r.item
      BY <1>2, <2>2, <2>4
    <3> QED
      BY <1>1, <2>3, <2>4, <3>1 DEF WellFormed
  <2>6. KeepsOrder(t, m.order, k)
    BY <2>2, <2>4, KeepsOrderTransitive
  <2> QED
    BY <2>3, <2>4, <2>5, <2>6
<1> QED
  BY <1>4, <1>5
=============================================================================
