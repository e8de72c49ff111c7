---------------------------- MODULE LRUMapProofs ----------------------------
(***************************************************************************)
(* Proofs about LRUMap, for any keys, values, capacity and time to live:   *)
(* the pointers thread every item of the map once (WellLinked), and the    *)
(* map behaves as LRUStore does (ImplementsStore).                         *)
(*                                                                         *)
(* The invariant is that some sequence of different keys threads the list: *)
(* Threads.  The first part shows what delete, evict, bumpLru and set do   *)
(* to that sequence, pointer by pointer; the second that following next    *)
(* from first, as Chain does, meets just that sequence; the third that the *)
(* store does the same to its order; the last puts the steps together.     *)
(***************************************************************************)
EXTENDS LRUMap, SequenceTheorems, FiniteSetTheorems, WellFoundedInduction, TLAPS

-----------------------------------------------------------------------------
(* The pointers.                                                           *)

\* The items of m are chained in the order of s, a sequence of n different keys.
Threads(m, n, s) ==
    /\ m = [items |-> m.items, first |-> m.first, last |-> m.last]
    /\ n \in Nat /\ s \in [1 .. n -> Keys]
    /\ \A i, j \in 1 .. n : s[i] = s[j] => i = j
    /\ DOMAIN m.items = {s[i] : i \in 1 .. n}
    /\ m.items \in [DOMAIN m.items -> Item]
    /\ m.first = IF n = 0 THEN Null ELSE s[1]
    /\ m.last = IF n = 0 THEN Null ELSE s[n]
    /\ \A i \in 1 .. n :
          /\ m.items[s[i]].prev = IF i = 1 THEN Null ELSE s[i - 1]
          /\ m.items[s[i]].next = IF i = n THEN Null ELSE s[i + 1]

\* What does not concern the chain.
SameEntry(c, d) == c.value = d.value /\ c.expiry = d.expiry

\* The sequences a change of the list leads to.
Gone(n, s, p) == [i \in 1 .. n - 1 |-> IF i < p THEN s[i] ELSE s[i + 1]]
Longer(n, s, k) == [i \in 1 .. n + 1 |-> IF i = n + 1 THEN k ELSE s[i]]
Moved(n, s, p) == [i \in 1 .. n |-> IF i = n THEN s[p] ELSE IF i < p THEN s[i] ELSE s[i + 1]]

\* The null pointer points to no item.
LEMMA NullIsNoKey == Null \notin Keys
BY LRUMapAssumption

\* An assignment to next changes nothing else.
LEMMA SetNextFacts ==
    ASSUME NEW D, Null \notin D, NEW its \in [D -> Item],
           NEW p \in D \cup {Null}, NEW q \in Pointer, NEW r, r = SetNext(its, p, q)
    PROVE  /\ r \in [D -> Item]
           /\ \A j \in D : /\ SameEntry(r[j], its[j])
                           /\ r[j].prev = its[j].prev
                           /\ r[j].next = IF j = p THEN q ELSE its[j].next
<1>1. CASE p = Null
  BY <1>1 DEF SetNext, SameEntry
<1>2. CASE p # Null
  <2>1. r = [its EXCEPT ![p].next = q] /\ p \in D /\ its[p] \in Item
    BY <1>2 DEF SetNext
  <2>2. r = [its EXCEPT ![p] = [its[p] EXCEPT !.next = q]]
    BY <2>1
  <2> DEFINE c == [its[p] EXCEPT !.next = q]
  <2>3. c \in Item /\ SameEntry(c, its[p]) /\ c.prev = its[p].prev /\ c.next = q
    BY <2>1 DEF Item, SameEntry
  <2> HIDE DEF c
  <2>4. r = [its EXCEPT ![p] = c]
    BY <2>2 DEF c
  <2>5. QED
    BY <2>1, <2>3, <2>4 DEF SameEntry
<1>3. QED
  BY <1>1, <1>2

\* An assignment to prev changes nothing else.
LEMMA SetPrevFacts ==
    ASSUME NEW D, Null \notin D, NEW its \in [D -> Item],
           NEW p \in D \cup {Null}, NEW q \in Pointer, NEW r, r = SetPrev(its, p, q)
    PROVE  /\ r \in [D -> Item]
           /\ \A j \in D : /\ SameEntry(r[j], its[j])
                           /\ r[j].next = its[j].next
                           /\ r[j].prev = IF j = p THEN q ELSE its[j].prev
<1>1. CASE p = Null
  BY <1>1 DEF SetPrev, SameEntry
<1>2. CASE p # Null
  <2>1. r = [its EXCEPT ![p].prev = q] /\ p \in D /\ its[p] \in Item
    BY <1>2 DEF SetPrev
  <2>2. r = [its EXCEPT ![p] = [its[p] EXCEPT !.prev = q]]
    BY <2>1
  <2> DEFINE c == [its[p] EXCEPT !.prev = q]
  <2>3. c \in Item /\ SameEntry(c, its[p]) /\ c.next = its[p].next /\ c.prev = q
    BY <2>1 DEF Item, SameEntry
  <2> HIDE DEF c
  <2>4. r = [its EXCEPT ![p] = c]
    BY <2>2 DEF c
  <2>5. QED
    BY <2>1, <2>3, <2>4 DEF SameEntry
<1>3. QED
  BY <1>1, <1>2

\* delete takes the key out of the chain, at whichever position it is.
LEMMA DeleteFacts ==
    ASSUME NEW m, NEW n, NEW s, Threads(m, n, s), NEW p \in 1 .. n,
           NEW r, r = delete(m, s[p])
    PROVE  /\ Threads(r, n - 1, Gone(n, s, p))
           /\ DOMAIN r.items = DOMAIN m.items \ {s[p]}
           /\ \A j \in DOMAIN r.items : SameEntry(r.items[j], m.items[j])
<1> DEFINE k == s[p]
           D == DOMAIN m.items
           E == D \ {k}
           before == m.items[k].prev
           after == m.items[k].next
           rest == Remove(m.items, k)
           linked == SetNext(rest, before, after)
           closed == SetPrev(linked, after, before)
           t == Gone(n, s, p)
<1>1. /\ n \in Nat /\ n - 1 \in Nat /\ s \in [1 .. n -> Keys] /\ k \in Keys /\ k \in D
      /\ \A i, j \in 1 .. n : s[i] = s[j] => i = j
      /\ D = {s[i] : i \in 1 .. n} /\ D \subseteq Keys
      /\ m.items \in [D -> Item]
      /\ before = IF p = 1 THEN Null ELSE s[p - 1]
      /\ after = IF p = n THEN Null ELSE s[p + 1]
      /\ m.first = s[1] /\ m.last = s[n]
  BY DEF Threads
<1>2. \A i \in 1 .. n : s[i] \in E <=> i # p
  BY <1>1
<1>3. before \in E \cup {Null} /\ after \in E \cup {Null}
  <2>1. p # 1 => p - 1 \in 1 .. n /\ p - 1 # p
    BY <1>1
  <2>2. p # n => p + 1 \in 1 .. n /\ p + 1 # p
    BY <1>1
  <2>3. QED
    BY <1>1, <1>2, <2>1, <2>2
<1>4. before \in Pointer /\ after \in Pointer /\ Null \notin E
  BY <1>1, <1>3, NullIsNoKey DEF Pointer
<1>5. r = [items |-> closed,
           first |-> IF m.first = k THEN after ELSE m.first,
           last  |-> IF m.last = k THEN before ELSE m.last]
  BY <1>1 DEF delete
<1>6. rest \in [E -> Item] /\ \A j \in E : rest[j] = m.items[j]
  BY <1>1 DEF Remove
<1> HIDE DEF rest, before, after, E, D, k
<1>7. /\ linked \in [E -> Item]
      /\ \A j \in E : /\ SameEntry(linked[j], rest[j])
                      /\ linked[j].prev = rest[j].prev
                      /\ linked[j].next = IF j = before THEN after ELSE rest[j].next
  BY <1>3, <1>4, <1>6, SetNextFacts
<1> HIDE DEF linked
<1>8. /\ closed \in [E -> Item]
      /\ \A j \in E : /\ SameEntry(closed[j], linked[j])
                      /\ closed[j].next = linked[j].next
                      /\ closed[j].prev = IF j = after THEN before ELSE linked[j].prev
  BY <1>3, <1>4, <1>7, SetPrevFacts
<1> HIDE DEF closed
<1>9. \A j \in E : /\ SameEntry(closed[j], m.items[j])
                   /\ closed[j].next = IF j = before THEN after ELSE m.items[j].next
                   /\ closed[j].prev = IF j = after THEN before ELSE m.items[j].prev
  BY <1>6, <1>7, <1>8 DEF SameEntry
<1>10. t \in [1 .. n - 1 -> Keys] /\ \A i, j \in 1 .. n - 1 : t[i] = t[j] => i = j
  <2> DEFINE From(i) == IF i < p THEN i ELSE i + 1
  <2>1. \A i \in 1 .. n - 1 : From(i) \in 1 .. n
    BY <1>1
  <2>2. \A i, j \in 1 .. n - 1 : From(i) = From(j) => i = j
    BY <1>1
  <2>3. t = [i \in 1 .. n - 1 |-> s[From(i)]]
    BY DEF Gone
  <2> HIDE DEF From, t
  <2>4. QED
    BY <1>1, <2>1, <2>2, <2>3
<1>11. E = {t[i] : i \in 1 .. n - 1}
  <2>1. \A i \in 1 .. n - 1 : t[i] \in E
    BY <1>1, <1>2 DEF Gone
  <2>2. \A i \in 1 .. n : i # p => \E j \in 1 .. n - 1 : s[i] = t[j]
    <3>1. ASSUME NEW i \in 1 .. n, i < p PROVE i \in 1 .. n - 1 /\ s[i] = t[i]
      BY <1>1, <3>1 DEF Gone
    <3>2. ASSUME NEW i \in 1 .. n, i > p PROVE i - 1 \in 1 .. n - 1 /\ s[i] = t[i - 1]
      BY <1>1, <3>2 DEF Gone
    <3>3. QED
      BY <3>1, <3>2, <1>1
  <2>3. E \subseteq {s[i] : i \in 1 .. n}
    BY <1>1 DEF E
  <2>4. QED
    BY <1>2, <2>1, <2>2, <2>3
<1>12. ASSUME NEW i \in 1 .. n - 1
       PROVE  /\ closed[t[i]].prev = IF i = 1 THEN Null ELSE t[i - 1]
              /\ closed[t[i]].next = IF i = n - 1 THEN Null ELSE t[i + 1]
  <2>1. t[i] \in E
    BY <1>11
  <2>2. \A a \in 1 .. n :
           /\ m.items[s[a]].prev = IF a = 1 THEN Null ELSE s[a - 1]
           /\ m.items[s[a]].next = IF a = n THEN Null ELSE s[a + 1]
    BY DEF Threads
  <2>3. \A a \in 1 .. n : /\ s[a] = before <=> a = p - 1
                          /\ s[a] = after <=> a = p + 1
    <3>1. \A a \in 1 .. n : s[a] # Null
      BY <1>1, NullIsNoKey
    <3>2. QED
      BY <1>1, <3>1
  <2>4. \A a \in 1 .. n : a # p =>
           /\ closed[s[a]].next = IF a = p - 1 THEN after ELSE IF a = n THEN Null ELSE s[a + 1]
           /\ closed[s[a]].prev = IF a = p + 1 THEN before ELSE IF a = 1 THEN Null ELSE s[a - 1]
    BY <1>2, <1>9, <2>2, <2>3
  <2>5. CASE i < p
    <3>1. i \in 1 .. n /\ i # p /\ t[i] = s[i] /\ i # p + 1
      BY <1>1, <2>5 DEF Gone
    <3>2. i # 1 => t[i - 1] = s[i - 1]
      BY <1>1, <2>5 DEF Gone
    <3>3. i # n - 1 => t[i + 1] = IF i = p - 1 THEN s[p + 1] ELSE s[i + 1]
      BY <1>1, <2>5 DEF Gone
    <3>4. i # n - 1 => (i = p - 1 => p # n)
      BY <1>1, <2>5
    <3>5. i = n - 1 => p = n /\ i = p - 1
      BY <1>1, <2>5
    <3>6. i # n
      BY <1>1
    <3>7. closed[t[i]].prev = IF i = 1 THEN Null ELSE t[i - 1]
      BY <2>4, <3>1, <3>2
    <3>8. closed[t[i]].next = IF i = n - 1 THEN Null ELSE t[i + 1]
      BY <1>1, <2>4, <3>1, <3>3, <3>4, <3>5, <3>6
    <3>9. QED
      BY <3>7, <3>8
  <2>6. CASE ~ (i < p)
    <3>1. i + 1 \in 1 .. n /\ i + 1 # p /\ t[i] = s[i + 1] /\ i + 1 # p - 1 /\ i + 1 # 1
      BY <1>1, <2>6 DEF Gone
    <3>2. i # 1 => t[i - 1] = IF i = p THEN s[p - 1] ELSE s[i]
      BY <1>1, <2>6 DEF Gone
    <3>3. i # n - 1 => t[i + 1] = s[(i + 1) + 1]
      BY <1>1, <2>6 DEF Gone
    <3>4. (i + 1) - 1 = i /\ (i = n - 1 <=> i + 1 = n) /\ (i + 1 = p + 1 <=> i = p)
      BY <1>1
    <3>5. i = 1 => i = p /\ p = 1
      BY <1>1, <2>6
    <3>6. closed[t[i]].prev = IF i = 1 THEN Null ELSE t[i - 1]
      BY <1>1, <2>4, <3>1, <3>2, <3>4, <3>5
    <3>7. closed[t[i]].next = IF i = n - 1 THEN Null ELSE t[i + 1]
      BY <2>4, <3>1, <3>3, <3>4
    <3>8. QED
      BY <3>6, <3>7
  <2>7. QED
    BY <2>5, <2>6
<1>13. /\ r.first = IF n - 1 = 0 THEN Null ELSE t[1]
       /\ r.last = IF n - 1 = 0 THEN Null ELSE t[n - 1]
  <2>1. m.first = k <=> p = 1
    BY <1>1 DEF k
  <2>2. m.last = k <=> p = n
    BY <1>1 DEF k
  <2>3. n - 1 # 0 => t[1] = (IF p = 1 THEN s[2] ELSE s[1])
    BY <1>1 DEF Gone
  <2>4. n - 1 # 0 => t[n - 1] = (IF p = n THEN s[n - 1] ELSE s[n])
    BY <1>1 DEF Gone
  <2>5. n - 1 = 0 => n = 1 /\ p = 1
    BY <1>1
  <2>6. r.first = (IF p = 1 THEN after ELSE s[1]) /\ r.last = (IF p = n THEN before ELSE s[n])
    BY <1>1, <1>5, <2>1, <2>2
  <2>7. p = 1 => p + 1 = 2
    OBVIOUS
  <2>8. QED
    BY <1>1, <2>3, <2>4, <2>5, <2>6, <2>7
<1>14. r.items = closed /\ r = [items |-> r.items, first |-> r.first, last |-> r.last]
  BY <1>5
<1>15. DOMAIN closed = E
  BY <1>8
<1> HIDE DEF t
<1>16. Threads(r, n - 1, t)
  BY <1>1, <1>8, <1>10, <1>11, <1>12, <1>13, <1>14, <1>15 DEF Threads
<1>17. \A j \in E : SameEntry(closed[j], m.items[j])
  BY <1>9
<1>18. QED
  BY <1>14, <1>15, <1>16, <1>17 DEF t, E, D, k

\* evict is delete of the first key; of the only one, it leaves an empty map.
LEMMA EvictIsDelete ==
    ASSUME NEW m, NEW n, NEW s, Threads(m, n, s), n # 0
    PROVE  evict(m) = delete(m, s[1])
<1>1. /\ n \in Nat /\ 1 \in 1 .. n /\ s \in [1 .. n -> Keys]
      /\ DOMAIN m.items = {s[i] : i \in 1 .. n}
      /\ m.first = s[1] /\ m.last = s[n]
      /\ m.items[s[1]].prev = Null
      /\ \A i, j \in 1 .. n : s[i] = s[j] => i = j
  BY DEF Threads
<1>2. m.items[s[1]].next = IF 1 = n THEN Null ELSE s[1 + 1]
  BY <1>1 DEF Threads
<1> DEFINE k == s[1]
           after == m.items[k].next
           rest == Remove(m.items, k)
<1>3. k \in DOMAIN m.items
  BY <1>1
<1>4. delete(m, k) = [items |-> SetPrev(rest, after, Null),
                      first |-> after,
                      last  |-> IF m.last = k THEN Null ELSE m.last]
  BY <1>1, <1>3 DEF delete, SetNext
<1>5. evict(m) = IF DOMAIN rest = {} THEN Empty
                 ELSE [items |-> SetPrev(rest, after, Null), first |-> after, last |-> m.last]
  BY <1>1, <1>3 DEF evict
<1>6. DOMAIN rest = DOMAIN m.items \ {k}
  BY DEF Remove
<1>7. CASE n = 1
  <2>1. DOMAIN rest = {} /\ after = Null
    BY <1>1, <1>2, <1>6, <1>7
  <2>2. rest = << >>
    <3>1. rest = [j \in {} |-> m.items[j]]
      BY <1>6, <2>1 DEF Remove
    <3>2. QED
      BY <3>1
  <2>3. delete(m, k) = Empty
    BY <1>1, <1>4, <1>7, <2>1, <2>2 DEF Empty, SetPrev
  <2>4. QED
    BY <1>5, <2>1, <2>3
<1>8. CASE n # 1
  <2>1. n \in 1 .. n /\ s[n] # k
    BY <1>1, <1>8
  <2>2. s[n] \in DOMAIN rest
    BY <1>1, <1>6, <2>1
  <2>3. QED
    BY <1>1, <1>4, <1>5, <2>1, <2>2
<1>9. QED
  BY <1>7, <1>8

\* bumpLru takes the key to the end of the chain.
LEMMA BumpFacts ==
    ASSUME NEW m, NEW n, NEW s, Threads(m, n, s), NEW p \in 1 .. n,
           NEW r, r = bumpLru(m, s[p])
    PROVE  /\ Threads(r, n, Moved(n, s, p))
           /\ DOMAIN r.items = DOMAIN m.items
           /\ \A j \in DOMAIN r.items : SameEntry(r.items[j], m.items[j])
<1> DEFINE k == s[p]
           D == DOMAIN m.items
           before == m.items[k].prev
           after == m.items[k].next
           moved == [m.items EXCEPT ![k].next = Null, ![k].prev = m.last]
           linked == SetNext(moved, m.last, k)
           opened == SetNext(linked, before, after)
           closed == SetPrev(opened, after, before)
           t == Moved(n, s, p)
<1>1. /\ n \in Nat /\ n \in 1 .. n /\ s \in [1 .. n -> Keys] /\ k \in Keys /\ k \in D
      /\ \A i, j \in 1 .. n : s[i] = s[j] => i = j
      /\ D = {s[i] : i \in 1 .. n} /\ D \subseteq Keys
      /\ m.items \in [D -> Item]
      /\ before = IF p = 1 THEN Null ELSE s[p - 1]
      /\ after = IF p = n THEN Null ELSE s[p + 1]
      /\ m.first = s[1] /\ m.last = s[n]
      /\ m = [items |-> m.items, first |-> m.first, last |-> m.last]
      /\ \A i \in 1 .. n : s[i] # Null
  BY NullIsNoKey DEF Threads
<1>2. CASE p = n
  <2>1. r = m
    BY <1>1, <1>2 DEF bumpLru
  <2>2. t = s
    BY <1>1, <1>2 DEF Moved
  <2>3. QED
    BY <2>1, <2>2 DEF SameEntry
<1>3. CASE p # n
  <2>1. r = [items |-> closed,
             first |-> IF m.first = k THEN after ELSE m.first,
             last  |-> k]
    BY <1>1, <1>3 DEF bumpLru
  <2>2. /\ p + 1 \in 1 .. n /\ after = s[p + 1] /\ after \in D
        /\ before \in D \cup {Null}
        /\ m.last \in D
    <3>1. p # 1 => p - 1 \in 1 .. n
      BY <1>1
    <3>2. p + 1 \in 1 .. n
      BY <1>1, <1>3
    <3>3. QED
      BY <1>1, <1>3, <3>1, <3>2
  <2>3. /\ before \in Pointer /\ after \in Pointer /\ m.last \in Pointer /\ k \in Pointer
        /\ Null \in Pointer /\ Null \notin D
    BY <1>1, <2>2, NullIsNoKey DEF Pointer
  <2>4. /\ moved \in [D -> Item]
        /\ \A j \in D : /\ SameEntry(moved[j], m.items[j])
                        /\ moved[j].next = IF j = k THEN Null ELSE m.items[j].next
                        /\ moved[j].prev = IF j = k THEN m.last ELSE m.items[j].prev
    <3> DEFINE c == m.items[k]
               d == [c EXCEPT !.next = Null]
               e == [d EXCEPT !.prev = m.last]
    <3>1. moved = [m.items EXCEPT ![k] = e] /\ c \in Item
      BY <1>1
    <3>2. d \in Item /\ SameEntry(d, c) /\ d.next = Null
      BY <3>1, <2>3 DEF Item, SameEntry
    <3> HIDE DEF d
    <3>3. e \in Item /\ SameEntry(e, d) /\ e.next = d.next /\ e.prev = m.last
      BY <3>2, <2>3 DEF Item, SameEntry
    <3> HIDE DEF e, moved, D, k
    <3>4. QED
      BY <1>1, <3>1, <3>2, <3>3 DEF SameEntry
  <2> HIDE DEF moved, before, after, D, k
  <2>5. /\ linked \in [D -> Item]
        /\ \A j \in D : /\ SameEntry(linked[j], moved[j])
                        /\ linked[j].prev = moved[j].prev
                        /\ linked[j].next = IF j = m.last THEN k ELSE moved[j].next
    BY <2>2, <2>3, <2>4, SetNextFacts
  <2> HIDE DEF linked
  <2>6. /\ opened \in [D -> Item]
        /\ \A j \in D : /\ SameEntry(opened[j], linked[j])
                        /\ opened[j].prev = linked[j].prev
                        /\ opened[j].next = IF j = before THEN after ELSE linked[j].next
    BY <2>2, <2>3, <2>5, SetNextFacts
  <2> HIDE DEF opened
  <2>7. /\ closed \in [D -> Item]
        /\ \A j \in D : /\ SameEntry(closed[j], opened[j])
                        /\ closed[j].next = opened[j].next
                        /\ closed[j].prev = IF j = after THEN before ELSE opened[j].prev
    BY <2>2, <2>3, <2>6, SetPrevFacts
  <2> HIDE DEF closed
  <2>8. \A j \in D :
           /\ SameEntry(closed[j], m.items[j])
           /\ closed[j].next = IF j = before THEN after
                               ELSE IF j = m.last THEN k
                               ELSE IF j = k THEN Null ELSE m.items[j].next
           /\ closed[j].prev = IF j = after THEN before
                               ELSE IF j = k THEN m.last ELSE m.items[j].prev
    BY <2>4, <2>5, <2>6, <2>7 DEF SameEntry
  <2>9. \A a \in 1 .. n :
           /\ s[a] \in D
           /\ s[a] = before <=> a = p - 1
           /\ s[a] = after <=> a = p + 1
           /\ s[a] = m.last <=> a = n
           /\ s[a] = k <=> a = p
           /\ m.items[s[a]].prev = IF a = 1 THEN Null ELSE s[a - 1]
           /\ m.items[s[a]].next = IF a = n THEN Null ELSE s[a + 1]
    <3>1. \A a \in 1 .. n :
           /\ m.items[s[a]].prev = IF a = 1 THEN Null ELSE s[a - 1]
           /\ m.items[s[a]].next = IF a = n THEN Null ELSE s[a + 1]
      BY DEF Threads
    <3>2. QED
      BY <1>1, <2>2, <3>1 DEF k
  <2>10. \A a \in 1 .. n :
           /\ closed[s[a]].next = IF a = p - 1 THEN s[p + 1]
                                  ELSE IF a = n THEN s[p]
                                  ELSE IF a = p THEN Null ELSE s[a + 1]
           /\ closed[s[a]].prev = IF a = p + 1 THEN (IF p = 1 THEN Null ELSE s[p - 1])
                                  ELSE IF a = p THEN s[n]
                                  ELSE IF a = 1 THEN Null ELSE s[a - 1]
    <3>1. k = s[p] /\ m.last = s[n] /\ after = s[p + 1]
          /\ before = IF p = 1 THEN Null ELSE s[p - 1]
      BY <1>1, <2>2 DEF k
    <3>2. QED
      BY <2>8, <2>9, <3>1
  <2> DEFINE From(i) == IF i = n THEN p ELSE IF i < p THEN i ELSE i + 1
  <2>11. n \in Nat
    BY <1>1
  <2>12. \A i \in 1 .. n : From(i) \in 1 .. n
    BY <2>11
  <2>13. \A i, j \in 1 .. n : From(i) = From(j) => i = j
    BY <2>11
  <2>14. t = [i \in 1 .. n |-> s[From(i)]]
    BY DEF Moved
  <2> HIDE DEF From
  <2>15. t \in [1 .. n -> Keys] /\ \A i, j \in 1 .. n : t[i] = t[j] => i = j
    <3> HIDE DEF t
    <3>1. QED
      BY <1>1, <2>12, <2>13, <2>14
  <2>16. D = {t[i] : i \in 1 .. n}
    <3>1. \A i \in 1 .. n : \E j \in 1 .. n : t[i] = s[j]
      BY <2>12, <2>14
    <3>2. \A i \in 1 .. n : \E j \in 1 .. n : s[i] = t[j]
      <4>1. ASSUME NEW i \in 1 .. n, i < p PROVE s[i] = t[i]
        BY <1>1, <4>1 DEF Moved
      <4>2. ASSUME NEW i \in 1 .. n, i > p PROVE i - 1 \in 1 .. n /\ s[i] = t[i - 1]
        BY <1>1, <4>2 DEF Moved
      <4>3. s[p] = t[n]
        BY <1>1 DEF Moved
      <4>4. QED
        BY <4>1, <4>2, <4>3, <1>1
    <3>3. D = {s[i] : i \in 1 .. n}
      BY <1>1 DEF D
    <3> HIDE DEF t
    <3>4. QED
      BY <3>1, <3>2, <3>3
  <2>17. ASSUME NEW i \in 1 .. n
         PROVE  /\ closed[t[i]].prev = IF i = 1 THEN Null ELSE t[i - 1]
                /\ closed[t[i]].next = IF i = n THEN Null ELSE t[i + 1]
    <3>1. CASE i = n
      <4>1. t[i] = s[p] /\ t[i - 1] = s[n] /\ i # 1 /\ p # p - 1 /\ p # p + 1
        <5>1. n - 1 \in 1 .. n /\ n - 1 # n /\ ~ (n - 1 < p) /\ (n - 1) + 1 = n
          BY <1>1, <1>3
        <5>2. QED
          BY <1>1, <1>3, <3>1, <5>1 DEF Moved
      <4>2. QED
        BY <1>3, <2>10, <3>1, <4>1
    <3>2. CASE i < p
      <4>1. i # n /\ t[i] = s[i] /\ i # p /\ i # p + 1
        BY <1>1, <3>2 DEF Moved
      <4>2. i # 1 => t[i - 1] = s[i - 1]
        BY <1>1, <3>2 DEF Moved
      <4>3. t[i + 1] = IF i = p - 1 THEN s[p + 1] ELSE s[i + 1]
        <5>1. i + 1 \in 1 .. n /\ i + 1 # n /\ (i = p - 1 <=> ~ (i + 1 < p))
              /\ (i = p - 1 => (i + 1) + 1 = p + 1)
          BY <1>1, <1>3, <3>2
        <5>2. QED
          BY <5>1 DEF Moved
      <4>4. QED
        BY <2>10, <4>1, <4>2, <4>3
    <3>3. CASE ~ (i < p) /\ i # n
      <4>1. /\ i + 1 \in 1 .. n /\ t[i] = s[i + 1] /\ i + 1 # p /\ i + 1 # p - 1 /\ i + 1 # 1
            /\ (i + 1 = p + 1 <=> i = p) /\ (i + 1) - 1 = i /\ (i = 1 => i = p /\ p = 1)
        <5>. n \in Nat
          BY <1>1
        <5>1. /\ i + 1 \in 1 .. n /\ i + 1 # p /\ i + 1 # p - 1 /\ i + 1 # 1
              /\ (i + 1 = p + 1 <=> i = p) /\ (i + 1) - 1 = i /\ (i = 1 => i = p /\ p = 1)
          BY <3>3
        <5>2. t[i] = s[i + 1]
          BY <1>1, <3>3 DEF Moved
        <5>3. QED
          BY <5>1, <5>2
      <4>2. i # 1 => t[i - 1] = IF i = p THEN s[p - 1] ELSE s[i]
        <5>1. i # 1 => /\ i - 1 \in 1 .. n /\ i - 1 # n /\ (i = p <=> i - 1 < p)
                       /\ (i = p => i - 1 = p - 1) /\ (i - 1) + 1 = i
          BY <1>1, <3>3
        <5>2. QED
          BY <5>1 DEF Moved
      <4>3. t[i + 1] = IF i + 1 = n THEN s[p] ELSE s[(i + 1) + 1]
        BY <1>1, <3>3, <4>1 DEF Moved
      <4>4. closed[t[i]].prev = IF i = 1 THEN Null ELSE t[i - 1]
        BY <2>10, <4>1, <4>2
      <4>5. closed[t[i]].next = t[i + 1]
        BY <2>10, <4>1, <4>3
      <4>6. QED
        BY <3>3, <4>4, <4>5
    <3>4. QED
      BY <3>1, <3>2, <3>3
  <2>18. r.first = t[1] /\ r.last = t[n] /\ r.items = closed
         /\ r = [items |-> r.items, first |-> r.first, last |-> r.last] /\ n # 0
    <3>1. t[1] = IF p = 1 THEN s[2] ELSE s[1]
      BY <1>1, <1>3 DEF Moved
    <3>2. m.first = k <=> p = 1
      BY <1>1 DEF k
    <3>3. t[n] = k
      BY <1>1 DEF Moved, k
    <3>4. p = 1 => p + 1 = 2
      OBVIOUS
    <3>5. QED
      BY <1>1, <2>1, <2>2, <3>1, <3>2, <3>3, <3>4
  <2>19. DOMAIN closed = D
    BY <2>7
  <2> HIDE DEF t
  <2>20. Threads(r, n, t)
    BY <1>1, <2>7, <2>15, <2>16, <2>17, <2>18, <2>19 DEF Threads
  <2>21. QED
    BY <2>8, <2>18, <2>19, <2>20 DEF t, D
<1>4. QED
  BY <1>2, <1>3

\* The map has as many items as its chain is long.
LEMMA SizeFacts ==
    ASSUME NEW m, NEW n, NEW s, Threads(m, n, s)
    PROVE  IsFiniteSet(DOMAIN m.items) /\ Cardinality(DOMAIN m.items) = n
<1> DEFINE D == DOMAIN m.items
<1>1. /\ n \in Nat /\ D = {s[i] : i \in 1 .. n} /\ DOMAIN s = 1 .. n
      /\ \A i, j \in 1 .. n : s[i] = s[j] => i = j
      /\ s = [i \in 1 .. n |-> s[i]]
  BY DEF Threads
<1> HIDE DEF D
<1>2. s \in [1 .. n -> D]
  BY <1>1
<1>3. s \in Bijection(1 .. n, D)
  <2>1. s \in Injection(1 .. n, D)
    BY <1>1, <1>2 DEF Injection, IsInjective
  <2>2. s \in Surjection(1 .. n, D)
    BY <1>1, <1>2 DEF Surjection
  <2>3. QED
    BY <2>1, <2>2 DEF Bijection
<1>4. ExistsBijection(1 .. n, D)
  BY <1>3 DEF ExistsBijection
<1>5. QED
  BY <1>1, <1>4, FS_NatBijection, FS_CountingElements DEF D

\* m with an item at the end.
Added(m, k, item) == [j \in DOMAIN m.items \cup {k} |-> IF j = k THEN item ELSE m.items[j]]

Grown(m, k, item) ==
    LET added == Added(m, k, item)
    IN  [items |-> IF Cardinality(DOMAIN added) = 1 THEN added
                   ELSE SetNext(added, m.last, k),
         first |-> IF Cardinality(DOMAIN added) = 1 THEN k ELSE m.first,
         last  |-> k]

\* A new item goes to the end of the chain, also as the first one.
LEMMA AddFacts ==
    ASSUME NEW m, NEW n, NEW s, Threads(m, n, s), NEW k \in Keys, k \notin DOMAIN m.items,
           NEW item \in Item, item.prev = m.last, item.next = Null,
           NEW r, r = Grown(m, k, item)
    PROVE  /\ Threads(r, n + 1, Longer(n, s, k))
           /\ DOMAIN r.items = DOMAIN m.items \cup {k}
           /\ \A j \in DOMAIN m.items : SameEntry(r.items[j], m.items[j])
           /\ SameEntry(r.items[k], item)
<1> DEFINE D == DOMAIN m.items
           E == D \cup {k}
           added == Added(m, k, item)
           closed == SetNext(added, m.last, k)
           t == Longer(n, s, k)
<1>1. /\ n \in Nat /\ n + 1 \in Nat /\ s \in [1 .. n -> Keys]
      /\ \A i, j \in 1 .. n : s[i] = s[j] => i = j
      /\ D = {s[i] : i \in 1 .. n} /\ D \subseteq Keys
      /\ m.items \in [D -> Item]
      /\ m.first = IF n = 0 THEN Null ELSE s[1]
      /\ m.last = IF n = 0 THEN Null ELSE s[n]
      /\ \A i \in 1 .. n : s[i] # Null /\ s[i] # k /\ s[i] \in D
  BY NullIsNoKey DEF Threads
<1>2. IsFiniteSet(D) /\ Cardinality(D) = n
  BY SizeFacts
<1>3. Cardinality(E) = n + 1
  BY <1>2, FS_AddElement
<1>4. /\ added \in [E -> Item] /\ DOMAIN added = E
      /\ \A j \in D : added[j] = m.items[j]
      /\ added[k] = item
  BY <1>1 DEF Added
<1>5. n + 1 = 1 <=> n = 0
  BY <1>1
<1>6. /\ r.items = (IF n = 0 THEN added ELSE closed)
      /\ r.first = (IF n = 0 THEN k ELSE m.first)
      /\ r.last = k
      /\ r = [items |-> r.items, first |-> r.first, last |-> r.last]
  BY <1>3, <1>4, <1>5 DEF Grown
<1>7. Null \notin E /\ k \in Pointer /\ m.last \in E \cup {Null} /\ E \subseteq Keys
  <2>1. n # 0 => n \in 1 .. n
    BY <1>1
  <2>2. QED
    BY <1>1, <2>1, NullIsNoKey DEF Pointer
<1> HIDE DEF E, added
<1>8. /\ closed \in [E -> Item]
      /\ \A j \in E : /\ SameEntry(closed[j], added[j])
                      /\ closed[j].prev = added[j].prev
                      /\ closed[j].next = IF j = m.last THEN k ELSE added[j].next
  <2> DEFINE l == m.last
  <2>1. closed = SetNext(added, l, k) /\ l \in E \cup {Null}
    BY <1>7
  <2> HIDE DEF l, closed
  <2>2. /\ closed \in [E -> Item]
        /\ \A j \in E : /\ SameEntry(closed[j], added[j])
                        /\ closed[j].prev = added[j].prev
                        /\ closed[j].next = IF j = l THEN k ELSE added[j].next
    BY <1>4, <1>7, <2>1, SetNextFacts
  <2>3. QED
    BY <2>2 DEF l
<1> HIDE DEF closed
<1>9. /\ r.items \in [E -> Item]
      /\ \A j \in E : /\ SameEntry(r.items[j], added[j])
                      /\ r.items[j].prev = added[j].prev
                      /\ r.items[j].next = IF n # 0 /\ j = m.last THEN k ELSE added[j].next
  BY <1>4, <1>6, <1>8 DEF SameEntry
<1>10. /\ t \in [1 .. n + 1 -> Keys] /\ t[n + 1] = k
       /\ \A i \in 1 .. n : t[i] = s[i]
       /\ \A i \in 1 .. n + 1 : i = n + 1 \/ i \in 1 .. n
       /\ \A i \in 1 .. n : i # n + 1 /\ i \in 1 .. n + 1
       /\ n + 1 \in 1 .. n + 1
  BY <1>1 DEF Longer
<1> HIDE DEF t
<1>11. \A i, j \in 1 .. n + 1 : t[i] = t[j] => i = j
  BY <1>1, <1>10
<1>12. E = {t[i] : i \in 1 .. n + 1}
  BY <1>1, <1>10 DEF E
<1>13. \A i \in 1 .. n : /\ m.items[s[i]].prev = IF i = 1 THEN Null ELSE s[i - 1]
                         /\ m.items[s[i]].next = IF i = n THEN Null ELSE s[i + 1]
  BY DEF Threads
<1> HIDE DEF D
<1>14. ASSUME NEW i \in 1 .. n + 1
       PROVE  /\ r.items[t[i]].prev = IF i = 1 THEN Null ELSE t[i - 1]
              /\ r.items[t[i]].next = IF i = n + 1 THEN Null ELSE t[i + 1]
  <2>1. CASE i = n + 1
    <3>1. t[i] = k /\ k \in E /\ ~ (n # 0 /\ k = m.last)
      <4>1. n # 0 => n \in 1 .. n
        BY <1>1
      <4>2. QED
        BY <1>1, <1>10, <2>1, <4>1 DEF E
    <3>2. r.items[k].prev = m.last /\ r.items[k].next = Null
      BY <1>4, <1>9, <3>1
    <3>3. (i = 1 <=> n = 0) /\ i - 1 = n /\ (n # 0 => n \in 1 .. n)
      BY <1>1, <2>1
    <3>4. QED
      BY <1>1, <1>10, <2>1, <3>1, <3>2, <3>3
  <2>2. CASE i # n + 1
    <3>1. i \in 1 .. n /\ t[i] = s[i] /\ s[i] \in E /\ added[s[i]] = m.items[s[i]]
      BY <1>1, <1>4, <1>10, <2>2 DEF E
    <3>2. i # 1 => i - 1 \in 1 .. n
      BY <1>1, <3>1
    <3>3. i # n => i + 1 \in 1 .. n
      BY <1>1, <3>1
    <3>4. n # 0 /\ (s[i] = m.last <=> i = n) /\ (i = n => i + 1 = n + 1)
      <4>1. n # 0 /\ n \in 1 .. n
        BY <1>1, <3>1
      <4>2. QED
        BY <1>1, <3>1, <4>1
    <3>5. r.items[t[i]].prev = IF i = 1 THEN Null ELSE t[i - 1]
      <4>1. r.items[t[i]].prev = IF i = 1 THEN Null ELSE s[i - 1]
        BY <1>9, <1>13, <3>1
      <4>2. QED
        BY <1>10, <3>2, <4>1
    <3>6. r.items[t[i]].next = t[i + 1]
      <4>1. r.items[t[i]].next = IF i = n THEN k ELSE s[i + 1]
        BY <1>9, <1>13, <3>1, <3>4
      <4>2. QED
        BY <1>10, <3>3, <3>4, <4>1
    <3>7. QED
      BY <2>2, <3>5, <3>6
  <2>3. QED
    BY <2>1, <2>2
<1>15. /\ r.first = IF n + 1 = 0 THEN Null ELSE t[1]
       /\ r.last = IF n + 1 = 0 THEN Null ELSE t[n + 1]
  <2>1. n + 1 # 0 /\ (n = 0 => n + 1 = 1) /\ (n # 0 => 1 \in 1 .. n)
    BY <1>1
  <2>2. QED
    BY <1>1, <1>6, <1>10, <2>1
<1>16. DOMAIN r.items = E
  BY <1>9
<1>17. Threads(r, n + 1, t)
  BY <1>1, <1>6, <1>9, <1>10, <1>11, <1>12, <1>14, <1>15, <1>16 DEF Threads
<1>18. QED
  BY <1>4, <1>9, <1>16, <1>17 DEF D, E, t, SameEntry

-----------------------------------------------------------------------------
(* Following next from first.                                              *)

\* A set of numbers has a smallest one.
LEMMA Smallest ==
    ASSUME NEW T, T \subseteq Nat, T # {}
    PROVE  \E m \in T : \A k \in T : m <= k
<1> DEFINE R == OpToRel(<, Nat)
<1>1. IsWellFoundedOn(R, Nat)
  BY NatLessThanWellFounded
<1>2. \A x, y \in Nat : <<x, y>> \in R <=> x < y
  BY DEF OpToRel
<1> HIDE DEF R
<1>3. PICK x \in T : \A y \in T : ~ (<<y, x>> \in R)
  BY <1>1, WFMin, Zenon
<1>4. ASSUME NEW y \in T PROVE x <= y
  <2>1. x \in Nat /\ y \in Nat /\ ~ (y < x)
    BY <1>2, <1>3
  <2>2. QED
    BY <2>1
<1> QED
  BY <1>4

\* Chain meets the keys in their order, and no other order fits.
LEMMA ChainFacts ==
    ASSUME NEW n, NEW s, Threads(Map, n, s)
    PROVE  Chain = s /\ size = n
<1> DEFINE at == CHOOSE at : at = [i \in 0 .. size |->
                     IF i = 0 THEN first
                     ELSE IF at[i - 1] \in DOMAIN items THEN items[at[i - 1]].next ELSE Null]
           Eq(f) == f = [i \in 0 .. n |->
                     IF i = 0 THEN first
                     ELSE IF f[i - 1] \in DOMAIN items THEN items[f[i - 1]].next ELSE Null]
           g == [i \in 0 .. n |-> IF i = n THEN Null ELSE s[i + 1]]
<1>1. Map.items = items /\ Map.first = first /\ Map.last = last
  BY DEF Map
<1>2. /\ n \in Nat /\ s \in [1 .. n -> Keys]
      /\ DOMAIN items = {s[i] : i \in 1 .. n}
      /\ first = IF n = 0 THEN Null ELSE s[1]
      /\ \A i \in 1 .. n : items[s[i]].next = IF i = n THEN Null ELSE s[i + 1]
  BY <1>1 DEF Threads
<1>3. size = n
  BY <1>1, SizeFacts DEF size
<1>4. Chain = [i \in 1 .. n |-> at[i - 1]]
  BY <1>3 DEF Chain
<1>5. Eq(g)
  <2>1. ASSUME NEW i \in 0 .. n
        PROVE  g[i] = IF i = 0 THEN first
                      ELSE IF g[i - 1] \in DOMAIN items THEN items[g[i - 1]].next ELSE Null
    <3>1. CASE i = 0
      BY <1>2, <3>1
    <3>2. CASE i # 0
      <4>1. i \in 1 .. n /\ i - 1 \in 0 .. n /\ i - 1 # n /\ (i - 1) + 1 = i
        BY <1>2, <3>2
      <4>2. g[i - 1] = s[i] /\ s[i] \in DOMAIN items
        BY <1>2, <4>1
      <4>3. QED
        BY <1>2, <3>2, <4>1, <4>2
    <3>3. QED
      BY <3>1, <3>2
  <2>2. QED
    BY <2>1
<1>6. Eq(at)
  <2>1. at = CHOOSE f : Eq(f)
    BY <1>3
  <2> HIDE DEF Eq, at
  <2>2. QED
    BY <1>5, <2>1, Zenon
<1>7. \A i \in 0 .. n :
         at[i] = IF i = 0 THEN first
                 ELSE IF at[i - 1] \in DOMAIN items THEN items[at[i - 1]].next ELSE Null
  <2> HIDE DEF at
  <2>1. QED
    BY <1>6
<1> HIDE DEF at, Eq
<1> DEFINE Bad == {i \in 0 .. n : at[i] # g[i]}
<1>8. Bad = {}
  <2>1. SUFFICES ASSUME Bad # {} PROVE FALSE
    OBVIOUS
  <2>2. PICK m \in Bad : \A k \in Bad : m <= k
    <3>1. Bad \subseteq Nat
      BY <1>2
    <3>2. QED
      BY <2>1, <3>1, Smallest, Zenon
  <2>3. m \in 0 .. n /\ at[m] # g[m]
    BY <2>2
  <2>4. \A i \in 0 .. n :
           g[i] = IF i = 0 THEN first
                  ELSE IF g[i - 1] \in DOMAIN items THEN items[g[i - 1]].next ELSE Null
    BY <1>5 DEF Eq
  <2> HIDE DEF g
  <2>5. m # 0
    BY <1>2, <1>7, <2>3, <2>4
  <2>6. m - 1 \in 0 .. n /\ ~ (m <= m - 1)
    BY <1>2, <2>3, <2>5
  <2>7. at[m - 1] = g[m - 1]
    BY <2>2, <2>6
  <2>8. QED
    BY <1>7, <2>3, <2>4, <2>5, <2>7
<1>9. \A i \in 1 .. n : at[i - 1] = s[i]
  <2>1. \A i \in 1 .. n : i - 1 \in 0 .. n /\ i - 1 # n /\ (i - 1) + 1 = i
    BY <1>2
  <2>2. QED
    BY <1>8, <2>1
<1>10. QED
  BY <1>2, <1>3, <1>4, <1>9

-----------------------------------------------------------------------------
(* The same changes in the store.                                          *)

Entries(its) == [k \in DOMAIN its |-> [value |-> its[k].value, expiry |-> its[k].expiry]]

AsLRU(m, s) == [item |-> Entries(m.items), order |-> s]

\* m is chained in the order s and holds what lru does.
Stands(m, n, s, lru) == Threads(m, n, s) /\ AsLRU(m, s) = lru

\* The store counts as the map does.
LEMMA SameCardinality == \A S : Store!Cardinality(S) = Cardinality(S)
BY DEF Cardinality, Store!Cardinality

\* A sequence is known by its elements.
LEMMA SeqIsFunction ==
    ASSUME NEW S, NEW t \in Seq(S), NEW f, f = [i \in 1 .. Len(t) |-> f[i]],
           \A i \in 1 .. Len(t) : t[i] = f[i]
    PROVE  t = f
<1>1. t \in [1 .. Len(t) -> S]
  BY LenProperties
<1>2. t = [i \in 1 .. Len(t) |-> t[i]]
  BY <1>1
<1>3. QED
  BY <1>2

\* Taking a key out of the order.
LEMMA WithoutIsGone ==
    ASSUME NEW n \in Nat, NEW s \in [1 .. n -> Keys], NEW p \in 1 .. n,
           \A i, j \in 1 .. n : s[i] = s[j] => i = j
    PROVE  Store!Without(s, s[p]) = Gone(n, s, p)
<1>1. s \in Seq(Keys) /\ Len(s) = n /\ DOMAIN s = 1 .. n
  OBVIOUS
<1>2. (CHOOSE i \in DOMAIN s : s[i] = s[p]) = p
  BY <1>1
<1>3. Store!Without(s, s[p]) = SubSeq(s, 1, p - 1) \o SubSeq(s, p + 1, n)
  BY <1>1, <1>2 DEF Store!Without, Store!RemoveAt
<1>4. /\ SubSeq(s, 1, p - 1) \in Seq(Keys) /\ Len(SubSeq(s, 1, p - 1)) = p - 1
      /\ \A i \in 1 .. p - 1 : SubSeq(s, 1, p - 1)[i] = s[i]
  BY <1>1
<1>5. /\ SubSeq(s, p + 1, n) \in Seq(Keys) /\ Len(SubSeq(s, p + 1, n)) = n - p
      /\ \A i \in 1 .. n - p : SubSeq(s, p + 1, n)[i] = s[p + i]
  BY <1>1
<1> DEFINE a == SubSeq(s, 1, p - 1)
           b == SubSeq(s, p + 1, n)
<1> HIDE DEF a, b
<1>6. /\ a \o b \in Seq(Keys) /\ Len(a \o b) = n - 1
      /\ \A i \in 1 .. n - 1 : (a \o b)[i] = IF i <= p - 1 THEN a[i] ELSE b[i - (p - 1)]
  BY <1>4, <1>5 DEF a, b
<1>7. \A i \in 1 .. n - 1 : (a \o b)[i] = Gone(n, s, p)[i]
  BY <1>4, <1>5, <1>6 DEF Gone, a, b
<1>8. Gone(n, s, p) = [i \in 1 .. Len(a \o b) |-> Gone(n, s, p)[i]]
  BY <1>6 DEF Gone
<1>9. \A i \in 1 .. Len(a \o b) : (a \o b)[i] = Gone(n, s, p)[i]
  BY <1>6, <1>7
<1>10. a \o b = Gone(n, s, p)
  <2> DEFINE t == a \o b
             f == Gone(n, s, p)
  <2>1. t \in Seq(Keys) /\ f = [i \in 1 .. Len(t) |-> f[i]] /\ \A i \in 1 .. Len(t) : t[i] = f[i]
    BY <1>6, <1>8, <1>9
  <2> HIDE DEF t, f
  <2>2. t = f
    BY <2>1, SeqIsFunction
  <2>3. QED
    BY <2>2 DEF t, f
<1>11. QED
  BY <1>3, <1>10 DEF a, b

\* Appending to the order.
LEMMA AppendIsLonger ==
    ASSUME NEW n \in Nat, NEW s \in [1 .. n -> Keys], NEW k \in Keys
    PROVE  Append(s, k) = Longer(n, s, k)
<1>1. s \in Seq(Keys) /\ Len(s) = n
  OBVIOUS
<1> DEFINE t == Append(s, k)
<1>2. /\ t \in Seq(Keys) /\ Len(t) = n + 1 /\ t[n + 1] = k
      /\ \A i \in 1 .. n : t[i] = s[i]
  BY <1>1, AppendProperties
<1> HIDE DEF t
<1>3. /\ Longer(n, s, k) = [i \in 1 .. Len(t) |-> Longer(n, s, k)[i]]
      /\ \A i \in 1 .. Len(t) : t[i] = Longer(n, s, k)[i]
  BY <1>2 DEF Longer
<1>4. t = Longer(n, s, k)
  BY <1>2, <1>3, SeqIsFunction
<1>5. QED
  BY <1>4 DEF t

\* Taking a key out of the order and appending it moves it to the end.
LEMMA AppendIsMoved ==
    ASSUME NEW n \in Nat, NEW s \in [1 .. n -> Keys], NEW p \in 1 .. n
    PROVE  Append(Gone(n, s, p), s[p]) = Moved(n, s, p)
<1>1. Gone(n, s, p) \in [1 .. n - 1 -> Keys] /\ n - 1 \in Nat /\ s[p] \in Keys
  BY DEF Gone
<1>2. Append(Gone(n, s, p), s[p]) = Longer(n - 1, Gone(n, s, p), s[p])
  BY <1>1, AppendIsLonger
<1>3. Longer(n - 1, Gone(n, s, p), s[p]) = Moved(n, s, p)
  BY DEF Longer, Moved, Gone
<1>4. QED
  BY <1>2, <1>3

\* Items with the same keys and entries are the same to the store.
LEMMA SameEntries ==
    ASSUME NEW f, NEW g, DOMAIN f = DOMAIN g, \A j \in DOMAIN g : SameEntry(f[j], g[j])
    PROVE  Entries(f) = Entries(g)
BY DEF Entries, SameEntry

\* delete, as a whole.
LEMMA DeleteStands ==
    ASSUME NEW m, NEW n, NEW s, Threads(m, n, s), NEW p \in 1 .. n
    PROVE  Stands(delete(m, s[p]), n - 1, Gone(n, s, p), Store!Drop(AsLRU(m, s), s[p]))
<1> DEFINE r == delete(m, s[p])
           k == s[p]
<1>1. /\ n \in Nat /\ s \in [1 .. n -> Keys]
      /\ \A i, j \in 1 .. n : s[i] = s[j] => i = j
  BY DEF Threads
<1>2. /\ Threads(r, n - 1, Gone(n, s, p))
      /\ DOMAIN r.items = DOMAIN m.items \ {k}
      /\ \A j \in DOMAIN r.items : SameEntry(r.items[j], m.items[j])
  BY DeleteFacts
<1> HIDE DEF r, k
<1>3. Entries(r.items) = [j \in DOMAIN m.items \ {k} |-> Entries(m.items)[j]]
  BY <1>2 DEF Entries, SameEntry
<1>4. Store!Without(s, k) = Gone(n, s, p)
  BY <1>1, WithoutIsGone DEF k
<1>5. Store!Drop(AsLRU(m, s), k) =
         [item  |-> [j \in DOMAIN m.items \ {k} |-> Entries(m.items)[j]],
          order |-> Gone(n, s, p)]
  BY <1>4 DEF Store!Drop, AsLRU, Entries
<1>6. QED
  BY <1>2, <1>3, <1>5 DEF Stands, AsLRU, r, k

\* bumpLru, as a whole.
LEMMA BumpStands ==
    ASSUME NEW m, NEW n, NEW s, Threads(m, n, s), NEW p \in 1 .. n
    PROVE  Stands(bumpLru(m, s[p]), n, Moved(n, s, p), Store!Bump(AsLRU(m, s), s[p]))
<1> DEFINE r == bumpLru(m, s[p])
           k == s[p]
<1>1. /\ n \in Nat /\ s \in [1 .. n -> Keys]
      /\ \A i, j \in 1 .. n : s[i] = s[j] => i = j
  BY DEF Threads
<1>2. /\ Threads(r, n, Moved(n, s, p))
      /\ DOMAIN r.items = DOMAIN m.items
      /\ \A j \in DOMAIN r.items : SameEntry(r.items[j], m.items[j])
  BY BumpFacts
<1>3. Append(Store!Without(s, k), k) = Moved(n, s, p)
  BY <1>1, WithoutIsGone, AppendIsMoved
<1> HIDE DEF r, k
<1>4. Entries(r.items) = Entries(m.items)
  BY <1>2, SameEntries
<1>5. Store!Bump(AsLRU(m, s), k) = [item |-> Entries(m.items), order |-> Moved(n, s, p)]
  BY <1>3 DEF Store!Bump, AsLRU
<1>6. QED
  BY <1>2, <1>4, <1>5 DEF Stands, AsLRU, r, k

\* set on a key that is present: another value and expiry, and a bump.
LEMMA ReplaceStands ==
    ASSUME NEW m, NEW n, NEW s, Threads(m, n, s), NEW p \in 1 .. n, NEW v \in Values,
           Expiry \in 0 .. MaxTime + Ttl
    PROVE  Stands(Replace(m, s[p], v), n, Moved(n, s, p),
                  Store!Set(AsLRU(m, s), s[p], v, Capacity, Ttl, now))
<1> DEFINE k == s[p]
           D == DOMAIN m.items
           its == [m.items EXCEPT ![k].value = v]
           new == [its EXCEPT ![k].expiry = Expiry]
           r == [items |-> new, first |-> m.first, last |-> m.last]
           L == AsLRU(m, s)
<1>1. /\ n \in Nat /\ s \in [1 .. n -> Keys] /\ k \in D /\ k \in Keys
      /\ \A i, j \in 1 .. n : s[i] = s[j] => i = j
      /\ m.items \in [D -> Item]
      /\ m = [items |-> m.items, first |-> m.first, last |-> m.last]
  BY DEF Threads
<1>2. [m EXCEPT !.items[k].value = v, !.items[k].expiry = Expiry] = r
  <2>1. [m EXCEPT !.items[k].value = v, !.items[k].expiry = Expiry]
           = [[m EXCEPT !.items[k].value = v] EXCEPT !.items[k].expiry = Expiry]
    OBVIOUS
  <2>2. [m EXCEPT !.items[k].value = v] = [items |-> its, first |-> m.first, last |-> m.last]
    BY <1>1
  <2>3. [[items |-> its, first |-> m.first, last |-> m.last] EXCEPT !.items[k].expiry = Expiry] = r
    OBVIOUS
  <2>4. QED
    BY <2>1, <2>2, <2>3, Zenon
<1>3. /\ its \in [D -> Item] /\ its[k].value = v
      /\ \A j \in D : /\ its[j].prev = m.items[j].prev /\ its[j].next = m.items[j].next
                      /\ j # k => SameEntry(its[j], m.items[j])
  <2> DEFINE c == m.items[k]
             d == [c EXCEPT !.value = v]
  <2>1. c \in Item /\ its = [m.items EXCEPT ![k] = d]
    BY <1>1
  <2>2. d \in Item /\ d.prev = c.prev /\ d.next = c.next /\ d.value = v
    BY <2>1 DEF Item
  <2> HIDE DEF d, its, D, k
  <2>3. QED
    BY <1>1, <2>1, <2>2 DEF SameEntry
<1> HIDE DEF its
<1>4. /\ new \in [D -> Item] /\ new[k].value = v /\ new[k].expiry = Expiry
      /\ \A j \in D : /\ new[j].prev = m.items[j].prev /\ new[j].next = m.items[j].next
                      /\ j # k => SameEntry(new[j], m.items[j])
  <2> DEFINE c == its[k]
             d == [c EXCEPT !.expiry = Expiry]
  <2>1. c \in Item /\ new = [its EXCEPT ![k] = d]
    BY <1>1, <1>3
  <2>2. d \in Item /\ d.prev = c.prev /\ d.next = c.next /\ d.value = c.value /\ d.expiry = Expiry
    BY <2>1 DEF Item
  <2> HIDE DEF d, new, D, k
  <2>3. QED
    BY <1>1, <1>3, <2>1, <2>2 DEF SameEntry
<1> HIDE DEF new
<1>5. Threads(r, n, s)
  <2>1. DOMAIN new = D
    BY <1>4
  <2>2. r.items = new /\ r.first = m.first /\ r.last = m.last
    OBVIOUS
  <2> HIDE DEF r
  <2>3. r = [items |-> r.items, first |-> r.first, last |-> r.last]
    BY DEF r
  <2>4. QED
    BY <1>1, <1>4, <2>1, <2>2, <2>3 DEF Threads
<1>6. Stands(bumpLru(r, s[p]), n, Moved(n, s, p), Store!Bump(AsLRU(r, s), s[p]))
  BY <1>5, BumpStands
<1>7. Replace(m, k, v) = bumpLru(r, k)
  BY <1>2 DEF Replace
<1>8. Store!Bump(AsLRU(r, s), k) = Store!Set(L, k, v, Capacity, Ttl, now)
  <2>1. Store!Has(L, k) /\ L.order = s /\ DOMAIN L.item = D
    BY <1>1 DEF Store!Has, AsLRU, Entries
  <2>2. Store!MakeRoom(L, k, Capacity) = L
    BY <2>1 DEF Store!MakeRoom, Store!Evicts
  <2>3. Store!Set(L, k, v, Capacity, Ttl, now) =
           [item  |-> [j \in D \cup {k} |-> IF j = k THEN Store!Entry(v, Ttl, now) ELSE L.item[j]],
            order |-> Append(Store!Without(s, k), k)]
    BY <2>1, <2>2 DEF Store!Set
  <2>4. Store!Entry(v, Ttl, now) = [value |-> v, expiry |-> Expiry]
    BY DEF Store!Entry, Expiry
  <2>5. D \cup {k} = D
    BY <1>1
  <2>6. Entries(new) = [j \in D \cup {k} |-> IF j = k THEN Store!Entry(v, Ttl, now) ELSE L.item[j]]
    <3>1. \A j \in D :
             Entries(new)[j] = IF j = k THEN [value |-> v, expiry |-> Expiry] ELSE L.item[j]
      BY <1>4 DEF Entries, AsLRU, SameEntry
    <3>2. Entries(new) = [j \in D |-> Entries(new)[j]]
      BY <1>4 DEF Entries
    <3> HIDE DEF L, D, k
    <3>3. QED
      BY <2>4, <2>5, <3>1, <3>2
  <2>7. Store!Bump(AsLRU(r, s), k) =
           [item |-> Entries(new), order |-> Append(Store!Without(s, k), k)]
    BY DEF Store!Bump, AsLRU
  <2>8. QED
    BY <2>3, <2>6, <2>7
<1>9. QED
  BY <1>6, <1>7, <1>8

\* A map with room, and a new key.
LEMMA GrownStands ==
    ASSUME NEW m, NEW n, NEW s, Threads(m, n, s), NEW k \in Keys, k \notin DOMAIN m.items,
           NEW v \in Values, Expiry \in 0 .. MaxTime + Ttl,
           NEW item, item = [value |-> v, expiry |-> Expiry, prev |-> m.last, next |-> Null]
    PROVE  Stands(Grown(m, k, item), n + 1, Longer(n, s, k),
              [item  |-> [j \in DOMAIN m.items \cup {k} |->
                             IF j = k THEN Store!Entry(v, Ttl, now) ELSE Entries(m.items)[j]],
               order |-> Append(s, k)])
<1> DEFINE r == Grown(m, k, item)
<1>1. n \in Nat /\ s \in [1 .. n -> Keys] /\ m.last = IF n = 0 THEN Null ELSE s[n]
  BY DEF Threads
<1>2. m.last \in Pointer /\ Null \in Pointer
  <2>1. n # 0 => n \in 1 .. n
    BY <1>1
  <2>2. QED
    BY <1>1, <2>1 DEF Pointer
<1>3. /\ item \in Item /\ item.prev = m.last /\ item.next = Null
      /\ item.value = v /\ item.expiry = Expiry
  BY <1>2 DEF Item
<1>4. /\ Threads(r, n + 1, Longer(n, s, k))
      /\ DOMAIN r.items = DOMAIN m.items \cup {k}
      /\ \A j \in DOMAIN m.items : SameEntry(r.items[j], m.items[j])
      /\ SameEntry(r.items[k], item)
  BY <1>3, AddFacts
<1>5. Append(s, k) = Longer(n, s, k)
  BY <1>1, AppendIsLonger
<1> HIDE DEF r
<1>6. Store!Entry(v, Ttl, now) = [value |-> v, expiry |-> Expiry]
  BY DEF Store!Entry, Expiry
<1>7. Entries(r.items) = [j \in DOMAIN m.items \cup {k} |->
                             IF j = k THEN [value |-> v, expiry |-> Expiry]
                             ELSE Entries(m.items)[j]]
  <2>1. \A j \in DOMAIN m.items : j # k /\ Entries(r.items)[j] = Entries(m.items)[j]
    BY <1>4 DEF Entries, SameEntry
  <2>2. Entries(r.items)[k] = [value |-> v, expiry |-> Expiry]
    BY <1>3, <1>4 DEF Entries, SameEntry
  <2>3. Entries(r.items) = [j \in DOMAIN m.items \cup {k} |-> Entries(r.items)[j]]
    BY <1>4 DEF Entries
  <2>4. QED
    BY <2>1, <2>2, <2>3
<1>8. QED
  BY <1>4, <1>5, <1>6, <1>7 DEF Stands, AsLRU, r

\* set on a new key, with an eviction if the map is full.
LEMMA InsertStands ==
    ASSUME NEW m, NEW n, NEW s, Threads(m, n, s), NEW k \in Keys, k \notin DOMAIN m.items,
           NEW v \in Values, Expiry \in 0 .. MaxTime + Ttl, Capacity > 0 => n <= Capacity
    PROVE  \E l, t :
              /\ Stands(Insert(m, k, v), l, t, Store!Set(AsLRU(m, s), k, v, Capacity, Ttl, now))
              /\ Capacity > 0 => l <= Capacity
<1> DEFINE L == AsLRU(m, s)
           item(kept) == [value |-> v, expiry |-> Expiry, prev |-> kept.last, next |-> Null]
           Result(kept, t) ==
              [item  |-> [j \in DOMAIN kept.items \cup {k} |->
                             IF j = k THEN Store!Entry(v, Ttl, now) ELSE Entries(kept.items)[j]],
               order |-> Append(t, k)]
<1>1. /\ n \in Nat /\ s \in [1 .. n -> Keys] /\ Capacity \in Nat
      /\ DOMAIN m.items = {s[i] : i \in 1 .. n}
  BY LRUMapAssumption DEF Threads
<1>2. Cardinality(DOMAIN m.items) = n
  BY SizeFacts
<1>3. /\ ~ Store!Has(L, k) /\ L.item = Entries(m.items) /\ L.order = s
      /\ DOMAIN L.item = DOMAIN m.items
  BY DEF Store!Has, AsLRU, Entries
<1>4. Full(m) <=> Store!Evicts(L, k, Capacity)
  BY <1>3, SameCardinality DEF Full, Store!Evicts
<1>5. CASE ~ Full(m)
  <2>1. Insert(m, k, v) = Grown(m, k, item(m))
    BY <1>5 DEF Insert, Grown, Added
  <2>2. Store!MakeRoom(L, k, Capacity) = L
    BY <1>4, <1>5 DEF Store!MakeRoom
  <2>3. Store!Set(L, k, v, Capacity, Ttl, now) = Result(m, s)
    BY <1>3, <2>2 DEF Store!Set
  <2>4. Stands(Grown(m, k, item(m)), n + 1, Longer(n, s, k), Result(m, s))
    BY GrownStands
  <2>5. n + 1 \in Nat /\ (Capacity > 0 => n + 1 <= Capacity)
    BY <1>1, <1>2, <1>5 DEF Full
  <2> HIDE DEF Result, item, L
  <2>6. QED
    BY <2>1, <2>3, <2>4, <2>5 DEF L
<1>6. CASE Full(m)
  <2>1. n # 0 /\ n = Capacity /\ Capacity > 0 /\ 1 \in 1 .. n
    BY <1>1, <1>2, <1>6 DEF Full
  <2> DEFINE kept == evict(m)
             t == Gone(n, s, 1)
             M == Store!Drop(L, s[1])
  <2>2. kept = delete(m, s[1])
    BY <2>1, EvictIsDelete
  <2>3. Stands(kept, n - 1, t, M)
    BY <2>1, <2>2, DeleteStands
  <2>4. k \notin DOMAIN kept.items
    <3>1. DOMAIN delete(m, s[1]).items = DOMAIN m.items \ {s[1]}
      BY <2>1, DeleteFacts
    <3>2. QED
      BY <2>2, <3>1
  <2>5. Insert(m, k, v) = Grown(kept, k, item(kept))
    BY <1>6 DEF Insert, Grown, Added
  <2>6. Store!Victim(L) = s[1]
    BY <1>1, <1>3, <2>1 DEF Store!Victim
  <2>7. Store!MakeRoom(L, k, Capacity) = M
    BY <1>4, <1>6, <2>6 DEF Store!MakeRoom
  <2>8. M.item = Entries(kept.items) /\ M.order = t /\ Threads(kept, n - 1, t)
    BY <2>3 DEF Stands, AsLRU
  <2> HIDE DEF kept, t, M
  <2>9. Store!Set(L, k, v, Capacity, Ttl, now) = Result(kept, t)
    <3>1. DOMAIN M.item = DOMAIN kept.items
      BY <2>8 DEF Entries
    <3>2. QED
      BY <1>3, <2>7, <2>8, <3>1 DEF Store!Set
  <2>10. Stands(Grown(kept, k, item(kept)), (n - 1) + 1, Longer(n - 1, t, k), Result(kept, t))
    BY <2>4, <2>8, GrownStands
  <2>11. (n - 1) + 1 = n
    BY <1>1
  <2> HIDE DEF Result, item, L
  <2>12. Stands(Insert(m, k, v), n, Longer(n - 1, t, k),
                Store!Set(AsLRU(m, s), k, v, Capacity, Ttl, now))
    BY <2>5, <2>9, <2>10, <2>11 DEF L
  <2>13. QED
    BY <1>1, <2>12
<1>7. QED
  BY <1>5, <1>6

-----------------------------------------------------------------------------
(* The inductive invariant, and every step as one of the store.            *)

Room(n) == Capacity > 0 => n <= Capacity

Answered == reply \in Values \cup {Missing}

Inv ==
    /\ \E n, s : Threads(Map, n, s) /\ Room(n)
    /\ now \in 0 .. MaxTime
    /\ Answered

\* A step of the store from lru to new.
StoreGets(lru, new, k) ==
    /\ new = Store!Get(lru, k, Ttl, now)
    /\ reply' = Store!Lookup(lru, k, Ttl, now, Missing)
    /\ now' = now
StoreDeletes(lru, new, k) == new = Store!Delete(lru, k) /\ now' = now /\ reply' = reply
StoreSets(lru, new, k, v) ==
    new = Store!Set(lru, k, v, Capacity, Ttl, now) /\ now' = now /\ reply' = reply

StoreSteps(lru, new) ==
    \/ \E k \in Keys : StoreGets(lru, new, k) \/ StoreDeletes(lru, new, k)
    \/ \E k \in Keys, v \in Values : StoreSets(lru, new, k, v)
    \/ new = Store!EmptyLRU /\ now' = now /\ reply' = reply
    \/ new = lru /\ now < MaxTime /\ now' = now + 1 /\ reply' = reply
    \/ new = lru /\ now' = now /\ reply' = reply

\* The variables after a method returned.
LEMMA BecomesFacts ==
    ASSUME NEW r, NEW n, NEW s, Threads(r, n, s), Becomes(r)
    PROVE  Map' = r
<1>1. r = [items |-> r.items, first |-> r.first, last |-> r.last]
  BY DEF Threads
<1>2. QED
  BY <1>1 DEF Becomes, Map

\* A new map, or one that was cleared, is threaded by no key.
LEMMA EmptyStands == Stands(Empty, 0, << >>, Store!EmptyLRU)
<1>1. DOMAIN Empty.items = {} /\ Empty.first = Null /\ Empty.last = Null
  BY DEF Empty
<1>2. Empty = [items |-> Empty.items, first |-> Empty.first, last |-> Empty.last]
  BY DEF Empty
<1>3. << >> \in [1 .. 0 -> Keys] /\ 1 .. 0 = {} /\ DOMAIN << >> = {}
  OBVIOUS
<1>4. Empty.items \in [DOMAIN Empty.items -> Item]
  BY <1>1 DEF Empty
<1>5. Threads(Empty, 0, << >>)
  BY <1>1, <1>2, <1>3, <1>4 DEF Threads
<1>6. Entries(Empty.items) = << >>
  BY DEF Entries, Empty
<1>7. QED
  BY <1>5, <1>6 DEF Stands, AsLRU, Store!EmptyLRU

\* The work is done here: every step leaves a threaded list, and the store can
\* make the same step.
LEMMA StepFacts ==
    ASSUME NEW n, NEW s, Threads(Map, n, s), Room(n), now \in 0 .. MaxTime, Answered,
           [Next]_vars
    PROVE  /\ \E l, t :
                 /\ Threads(Map', l, t) /\ Room(l)
                 /\ StoreSteps(AsLRU(Map, s), AsLRU(Map', t))
           /\ now' \in 0 .. MaxTime
           /\ Answered'
<1> DEFINE L == AsLRU(Map, s)
           Step(l, t) == Threads(Map', l, t) /\ Room(l) /\ StoreSteps(L, AsLRU(Map', t))
           Goal == (\E l, t : Step(l, t)) /\ now' \in 0 .. MaxTime /\ Answered'
<1>1. Map.items = items /\ Map.first = first /\ Map.last = last
  BY DEF Map
<1>2. /\ n \in Nat /\ DOMAIN items = {s[i] : i \in 1 .. n} /\ s \in [1 .. n -> Keys]
      /\ items \in [DOMAIN items -> Item]
  BY <1>1 DEF Threads
<1>3. /\ DOMAIN L.item = DOMAIN items
      /\ \A k \in DOMAIN items : L.item[k].value = items[k].value
                                 /\ L.item[k].expiry = items[k].expiry
  BY <1>1 DEF AsLRU, Entries
<1>4. \A k : Store!Has(L, k) <=> k \in DOMAIN items
  BY <1>3 DEF Store!Has
<1>5. MaxTime \in Nat /\ Ttl \in Nat /\ Capacity \in Nat
  BY LRUMapAssumption
<1>6. Expiry \in 0 .. MaxTime + Ttl
  BY <1>5 DEF Expiry
<1> HIDE DEF L
<1>7. ASSUME NEW k \in DOMAIN items
      PROVE  \E p \in 1 .. n : s[p] = k
  BY <1>2
<1>8. ASSUME Map' = Map, now' = now, reply' = reply
      PROVE  Goal
  <2>1. StoreSteps(L, L)
    BY <1>8 DEF StoreSteps
  <2>2. AsLRU(Map', s) = L /\ Threads(Map', n, s)
    BY <1>8 DEF L
  <2>3. Step(n, s)
    BY <2>1, <2>2
  <2> HIDE DEF Step
  <2>4. QED
    BY <1>8, <2>3 DEF Answered
<1>9. ASSUME NEW r, NEW l, NEW t, NEW M, Stands(r, l, t, M), Becomes(r), Room(l),
             StoreSteps(L, M)
      PROVE  \E a, b : Step(a, b)
  <2>1. Map' = r
    BY <1>9, BecomesFacts DEF Stands
  <2>2. Step(l, t)
    BY <1>9, <2>1 DEF Stands
  <2> HIDE DEF Step
  <2>3. QED
    BY <2>2
<1> HIDE DEF Step
<1>10. ASSUME NEW k \in DOMAIN items, Becomes(delete(Map, k)), StoreSteps(L, Store!Drop(L, k))
       PROVE  \E l, t : Step(l, t)
  <2>1. PICK p \in 1 .. n : s[p] = k
    BY <1>7
  <2>2. Stands(delete(Map, k), n - 1, Gone(n, s, p), Store!Drop(L, k))
    BY <2>1, DeleteStands DEF L
  <2>3. Room(n - 1)
    BY <1>2, <1>5 DEF Room
  <2>4. QED
    BY <1>9, <1>10, <2>2, <2>3
<1>11. ASSUME NEW k \in Keys, GetAbsent(k) PROVE Goal
  <2>1. StoreSteps(L, L)
    <3>1. Store!Get(L, k, Ttl, now) = L /\ Store!Lookup(L, k, Ttl, now, Missing) = Missing
      BY <1>4, <1>11 DEF GetAbsent, Store!Get, Store!Lookup, Store!Fresh, Store!Delete
    <3>2. StoreGets(L, L, k)
      BY <1>11, <3>1 DEF GetAbsent, StoreGets
    <3>3. QED
      BY <3>2 DEF StoreSteps
  <2>2. Map' = Map
    BY <1>11 DEF GetAbsent, Map
  <2>3. Step(n, s)
    BY <2>1, <2>2 DEF Step, L
  <2>4. now' = now /\ Answered'
    BY <1>11 DEF GetAbsent, Answered
  <2>5. QED
    BY <2>3, <2>4
<1>12. ASSUME NEW k \in Keys, GetExpired(k) PROVE Goal
  <2>1. k \in DOMAIN items /\ Ttl > 0 /\ items[k].expiry <= now /\ reply' = Missing /\ now' = now
        /\ Becomes(delete(Map, k))
    BY <1>12 DEF GetExpired
  <2>2. Store!Get(L, k, Ttl, now) = Store!Drop(L, k)
        /\ Store!Lookup(L, k, Ttl, now, Missing) = Missing
    BY <1>3, <1>4, <2>1
       DEF Store!Get, Store!Lookup, Store!Fresh, Store!Expired, Store!Delete
  <2>3. StoreGets(L, Store!Drop(L, k), k)
    BY <2>1, <2>2 DEF StoreGets
  <2>4. StoreSteps(L, Store!Drop(L, k))
    BY <2>3 DEF StoreSteps
  <2>5. \E l, t : Step(l, t)
    BY <1>10, <2>1, <2>4
  <2>6. QED
    BY <2>1, <2>5 DEF Answered
<1>13. ASSUME NEW k \in Keys, GetFresh(k) PROVE Goal
  <2>1. k \in DOMAIN items /\ ~ (Ttl > 0 /\ items[k].expiry <= now)
        /\ reply' = items[k].value /\ now' = now /\ Becomes(bumpLru(Map, k))
    BY <1>13 DEF GetFresh
  <2>2. Store!Get(L, k, Ttl, now) = Store!Bump(L, k)
        /\ Store!Lookup(L, k, Ttl, now, Missing) = items[k].value
    BY <1>3, <1>4, <2>1 DEF Store!Get, Store!Lookup, Store!Fresh, Store!Expired
  <2>3. StoreGets(L, Store!Bump(L, k), k)
    BY <2>1, <2>2 DEF StoreGets
  <2>4. StoreSteps(L, Store!Bump(L, k))
    BY <2>3 DEF StoreSteps
  <2>5. PICK p \in 1 .. n : s[p] = k
    BY <1>7, <2>1
  <2>6. Stands(bumpLru(Map, k), n, Moved(n, s, p), Store!Bump(L, k))
    BY <2>5, BumpStands DEF L
  <2>7. \E l, t : Step(l, t)
    BY <1>9, <2>1, <2>4, <2>6
  <2>8. items[k].value \in Values
    BY <1>2, <2>1 DEF Item
  <2>9. QED
    BY <2>1, <2>7, <2>8 DEF Answered
<1>14. ASSUME NEW k \in Keys, Delete(k) PROVE Goal
  <2>1. Becomes(delete(Map, k)) /\ now' = now /\ reply' = reply
    BY <1>14 DEF Delete
  <2>2. CASE k \in DOMAIN items
    <3>1. Store!Delete(L, k) = Store!Drop(L, k)
      BY <1>4, <2>2 DEF Store!Delete
    <3>2. StoreDeletes(L, Store!Drop(L, k), k)
      BY <2>1, <3>1 DEF StoreDeletes
    <3>3. StoreSteps(L, Store!Drop(L, k))
      BY <3>2 DEF StoreSteps
    <3>4. \E l, t : Step(l, t)
      BY <1>10, <2>1, <2>2, <3>3
    <3>5. QED
      BY <2>1, <3>4 DEF Answered
  <2>3. CASE k \notin DOMAIN items
    <3>1. delete(Map, k) = Map
      BY <1>1, <2>3 DEF delete
    <3>2. Map' = Map
      BY <2>1, <3>1, BecomesFacts
    <3>3. QED
      BY <1>8, <2>1, <3>2
  <2>4. QED
    BY <2>2, <2>3
<1>15. ASSUME NEW k \in Keys, NEW v \in Values, set(k, v) PROVE Goal
  <2> DEFINE M == Store!Set(L, k, v, Capacity, Ttl, now)
  <2>1. now' = now /\ reply' = reply
        /\ Becomes(IF k \in DOMAIN items THEN Replace(Map, k, v) ELSE Insert(Map, k, v))
    BY <1>15 DEF set
  <2>2. StoreSets(L, M, k, v)
    BY <2>1 DEF StoreSets
  <2>3. StoreSteps(L, M)
    BY <2>2 DEF StoreSteps
  <2> HIDE DEF M
  <2>4. CASE k \in DOMAIN items
    <3>1. PICK p \in 1 .. n : s[p] = k
      BY <1>7, <2>4
    <3>2. Stands(Replace(Map, k, v), n, Moved(n, s, p), M)
      BY <1>6, <3>1, ReplaceStands DEF L, M
    <3>3. \E l, t : Step(l, t)
      BY <1>9, <2>1, <2>3, <2>4, <3>2
    <3>4. QED
      BY <2>1, <3>3 DEF Answered
  <2>5. CASE k \notin DOMAIN items
    <3>1. PICK l, t : Stands(Insert(Map, k, v), l, t, M) /\ Room(l)
      <4>1. k \notin DOMAIN Map.items /\ (Capacity > 0 => n <= Capacity)
        BY <1>1, <2>5 DEF Room
      <4>2. \E l, t :
               /\ Stands(Insert(Map, k, v), l, t,
                         Store!Set(AsLRU(Map, s), k, v, Capacity, Ttl, now))
               /\ Capacity > 0 => l <= Capacity
        BY <1>6, <4>1, InsertStands
      <4>3. QED
        BY <4>2 DEF L, M, Room
    <3>2. \E a, b : Step(a, b)
      BY <1>9, <2>1, <2>3, <2>5, <3>1
    <3>3. QED
      BY <2>1, <3>2 DEF Answered
  <2>6. QED
    BY <2>4, <2>5
<1>16. ASSUME clear PROVE Goal
  <2>1. Becomes(Empty) /\ now' = now /\ reply' = reply
    BY <1>16 DEF clear
  <2>2. StoreSteps(L, Store!EmptyLRU)
    BY <2>1 DEF StoreSteps
  <2>3. Room(0)
    BY <1>5 DEF Room
  <2>4. \E l, t : Step(l, t)
    BY <1>9, <2>1, <2>2, <2>3, EmptyStands
  <2>5. QED
    BY <2>1, <2>4 DEF Answered
<1>17. ASSUME Tick PROVE Goal
  <2>1. Map' = Map /\ now < MaxTime /\ now' = now + 1 /\ reply' = reply
    BY <1>17 DEF Tick, Map
  <2>2. StoreSteps(L, L)
    BY <2>1 DEF StoreSteps
  <2>3. Step(n, s)
    BY <2>1, <2>2 DEF Step, L
  <2>4. now' \in 0 .. MaxTime
    BY <1>5, <2>1
  <2>5. QED
    BY <2>1, <2>3, <2>4 DEF Answered
<1>18. ASSUME UNCHANGED vars PROVE Goal
  <2>1. Map' = Map /\ now' = now /\ reply' = reply
    BY <1>18 DEF vars, Map
  <2>2. QED
    BY <1>8, <2>1
<1>19. Goal
  BY <1>11, <1>12, <1>13, <1>14, <1>15, <1>16, <1>17, <1>18 DEF Next
<1>20. QED
  BY <1>19 DEF Step, L

\* The invariant holds of a new map,
LEMMA InvInit == Init => Inv
<1>1. ASSUME Init PROVE Map = Empty /\ now = 0 /\ reply = Missing
  BY <1>1 DEF Init, Map, Empty
<1>2. Room(0) /\ 0 \in 0 .. MaxTime
  BY LRUMapAssumption DEF Room
<1>3. Threads(Empty, 0, << >>)
  BY EmptyStands DEF Stands
<1>4. QED
  BY <1>1, <1>2, <1>3 DEF Inv, Answered

\* and no step breaks it.
LEMMA InvNext == Inv /\ [Next]_vars => Inv'
<1>1. SUFFICES ASSUME Inv, [Next]_vars PROVE Inv'
  OBVIOUS
<1>2. PICK n, s : Threads(Map, n, s) /\ Room(n)
  BY <1>1 DEF Inv
<1>3. now \in 0 .. MaxTime /\ Answered
  BY <1>1 DEF Inv
<1>4. /\ \E l, t :
                 /\ Threads(Map', l, t) /\ Room(l)
                 /\ StoreSteps(AsLRU(Map, s), AsLRU(Map', t))
      /\ now' \in 0 .. MaxTime
      /\ Answered'
  BY <1>1, <1>2, <1>3, StepFacts
<1>5. QED
  BY <1>4 DEF Inv

\* LRUMap.ts as a whole: whatever is called in whatever order, the list is threaded.
THEOREM Invariance == Spec => []Inv
BY InvInit, InvNext, PTL DEF Spec

\* What TypeOK and WellLinked ask of the chain.
LEMMA InvFacts == Inv => TypeOK /\ WellLinked
<1>1. SUFFICES ASSUME Inv PROVE TypeOK /\ WellLinked
  OBVIOUS
<1>2. PICK n, s : Threads(Map, n, s) /\ Room(n)
  BY <1>1 DEF Inv
<1>3. Map.items = items /\ Map.first = first /\ Map.last = last
  BY DEF Map
<1>4. Chain = s /\ size = n
  BY <1>2, ChainFacts
<1>5. /\ n \in Nat /\ s \in [1 .. n -> Keys] /\ DOMAIN items = {s[i] : i \in 1 .. n}
      /\ items \in [DOMAIN items -> Item]
      /\ first = IF n = 0 THEN Null ELSE s[1]
      /\ last = IF n = 0 THEN Null ELSE s[n]
      /\ \A i \in 1 .. n :
          /\ items[s[i]].prev = IF i = 1 THEN Null ELSE s[i - 1]
          /\ items[s[i]].next = IF i = n THEN Null ELSE s[i + 1]
  BY <1>2, <1>3 DEF Threads
<1>6. WellLinked
  BY <1>4, <1>5 DEF WellLinked
<1>7. first \in Pointer /\ last \in Pointer
  <2>1. n # 0 => 1 \in 1 .. n /\ n \in 1 .. n
    BY <1>5
  <2>2. QED
    BY <1>5, <2>1 DEF Pointer
<1>8. TypeOK
  BY <1>1, <1>2, <1>4, <1>5, <1>7 DEF TypeOK, Inv, Answered, Room
<1>9. QED
  BY <1>6, <1>8

\* The types; and set never lets the map grow past its capacity.
THEOREM TypeCorrect == Spec => []TypeOK
BY Invariance, InvFacts, PTL

\* The prev and next of LRUMap.ts:36-162 thread every item once, in both directions.
THEOREM ListIsWellLinked == Spec => []WellLinked
BY Invariance, InvFacts, PTL

\* The mapping reads the order.
LEMMA ChainIsOrder == \A n, s : Threads(Map, n, s) => Chain = s
BY ChainFacts

\* What the mapping of Store makes of the map.
StoreState == [item |-> [k \in DOMAIN items |->
                            [value |-> items[k].value, expiry |-> items[k].expiry]],
               order |-> Chain]

\* So it reads the store that Stands is about,
LEMMA StoreStateIs == \A n, s : Threads(Map, n, s) => StoreState = AsLRU(Map, s)
BY ChainIsOrder DEF StoreState, AsLRU, Entries, Map

\* also after a step.
LEMMA StoreStateNext == (\A n, s : Threads(Map, n, s) => StoreState = AsLRU(Map, s))'
BY StoreStateIs, PTL

\* get, set, delete and clear of LRUMap.ts are those of a bounded store that evicts
\* the least recently used key.
THEOREM LRUMapImplementsStore == Spec => ImplementsStore
<1>1. Init => Store!Init
  <2>1. SUFFICES ASSUME Init PROVE Store!Init
    OBVIOUS
  <2>2. Map = Empty /\ now = 0 /\ reply = Missing
    BY <2>1 DEF Init, Map, Empty
  <2>3. StoreState = Store!EmptyLRU
    BY <2>2, EmptyStands, StoreStateIs DEF Stands
  <2>4. QED
    BY <2>2, <2>3 DEF Store!Init, StoreState
<1>2. Inv /\ [Next]_vars => [Store!Next]_(Store!vars)
  <2>1. SUFFICES ASSUME Inv, [Next]_vars PROVE [Store!Next]_(Store!vars)
    OBVIOUS
  <2>2. PICK n, s : Threads(Map, n, s) /\ Room(n)
    BY <2>1 DEF Inv
  <2>3. PICK l, t : Threads(Map', l, t) /\ StoreSteps(AsLRU(Map, s), AsLRU(Map', t))
    BY <2>1, <2>2, StepFacts DEF Inv
  <2>4. StoreState = AsLRU(Map, s)
    BY <2>2, StoreStateIs
  <2>5. StoreState' = AsLRU(Map', t)
    BY <2>3, StoreStateNext
  <2>6. StoreSteps(StoreState, StoreState')
    BY <2>3, <2>4, <2>5
  <2>7. QED
    BY <2>6 DEF StoreSteps, StoreGets, StoreDeletes, StoreSets, StoreState, Store!Next, Store!vars,
                Store!GetKey, Store!DeleteKey, Store!SetKey, Store!Clear, Store!Tick
<1>3. QED
  BY <1>1, <1>2, Invariance, PTL DEF Spec, ImplementsStore, Store!Spec
=============================================================================
