------------------------------- MODULE LRUMap -------------------------------
(***************************************************************************)
(* library/ratelimiting/LRUMap.ts with its pointers: a Map of items that   *)
(* are chained in a doubly linked list from the least recently used item   *)
(* (first) to the most recently used one (last).  An item is named by its  *)
(* key, so a pointer is a key or Null.                                     *)
(*                                                                         *)
(* The specification implements LRUStore, the list being followed from     *)
(* first (Chain).                                                          *)
(***************************************************************************)
EXTENDS Integers, Sequences, FiniteSets

CONSTANTS
    Keys, Values,
    Missing,        \* undefined, what get returns for a key that is absent
    Null,           \* the null pointer
    Capacity, Ttl,  \* the arguments of the constructor, 0: no bound
    MaxTime         \* bound of the clock

ASSUME LRUMapAssumption ==
    /\ Capacity \in Nat /\ Ttl \in Nat /\ MaxTime \in Nat
    /\ Null \notin Keys /\ Missing \notin Values

VARIABLES
    items,          \* key -> [value, expiry, prev, next]
    first, last,    \* pointers
    now,            \* performance.now()
    reply           \* what the last get returned

vars == <<items, first, last, now, reply>>

Pointer == Keys \cup {Null}
Item == [value : Values, expiry : 0 .. MaxTime + Ttl, prev : Pointer, next : Pointer]

size == Cardinality(DOMAIN items)

-----------------------------------------------------------------------------
(* The private operations, on m = [items, first, last].                    *)

Map == [items |-> items, first |-> first, last |-> last]
Empty == [items |-> << >>, first |-> Null, last |-> Null]

\* item.next = q and item.prev = q, for the item p points to, if any.
SetNext(its, p, q) == IF p = Null THEN its ELSE [its EXCEPT ![p].next = q]
KeepPrev(its, p, q) == its          \* the assignment to prev forgotten
SetPrev(its, p, q) == IF p = Null THEN its ELSE [its EXCEPT ![p].prev = q]

Remove(its, k) == [j \in DOMAIN its \ {k} |-> its[j]]

bumpLru(m, k) ==
    IF m.last = k THEN m
    ELSE LET item   == m.items[k]
             moved  == [m.items EXCEPT ![k].next = Null, ![k].prev = m.last]
             linked == SetNext(moved, m.last, k)
             closed == SetPrev(SetNext(linked, item.prev, item.next),
                               item.next, item.prev)
         IN  [items |-> closed,
              first |-> IF m.first = k THEN item.next ELSE m.first,
              last  |-> k]

delete(m, k) ==
    IF k \notin DOMAIN m.items THEN m
    ELSE LET item == m.items[k]
             rest == Remove(m.items, k)
         IN  [items |-> SetPrev(SetNext(rest, item.prev, item.next),
                                item.next, item.prev),
              first |-> IF m.first = k THEN item.next ELSE m.first,
              last  |-> IF m.last = k THEN item.prev ELSE m.last]

evict(m) ==
    IF DOMAIN m.items = {} THEN m
    ELSE LET item == m.items[m.first]
             rest == Remove(m.items, m.first)
         IN  IF DOMAIN rest = {} THEN Empty
             ELSE [items |-> SetPrev(rest, item.next, Null),
                   first |-> item.next,
                   last  |-> m.last]

Expiry == IF Ttl > 0 THEN now + Ttl ELSE Ttl

\* set on a key that is present, and on a new one.
ReplaceKeepsExpiry(m, k, v) == bumpLru([m EXCEPT !.items[k].value = v], k)  \* not renewed
Replace(m, k, v) ==
    bumpLru([m EXCEPT !.items[k].value = v, !.items[k].expiry = Expiry], k)

FullLate(m) == Capacity > 0 /\ Cardinality(DOMAIN m.items) > Capacity
Full(m) == Capacity > 0 /\ Cardinality(DOMAIN m.items) = Capacity

Insert(m, k, v) ==
    LET kept == IF Full(m) THEN evict(m) ELSE m
        item == [value |-> v, expiry |-> Expiry, prev |-> kept.last, next |-> Null]
        with == [j \in DOMAIN kept.items \cup {k} |->
                     IF j = k THEN item ELSE kept.items[j]]
    IN  [items |-> IF Cardinality(DOMAIN with) = 1 THEN with
                   ELSE SetNext(with, kept.last, k),
         first |-> IF Cardinality(DOMAIN with) = 1 THEN k ELSE kept.first,
         last  |-> k]

-----------------------------------------------------------------------------
Becomes(m) ==
    /\ items' = m.items
    /\ first' = m.first
    /\ last'  = m.last

Init ==
    /\ items = << >>
    /\ first = Null
    /\ last = Null
    /\ now = 0
    /\ reply = Missing

\* get(key): an absent key, an expired entry (deleted), a fresh one (bumped).
GetAbsent(k) ==
    /\ k \notin DOMAIN items
    /\ reply' = Missing
    /\ UNCHANGED <<items, first, last, now>>

GetExpired(k) ==
    /\ k \in DOMAIN items
    /\ Ttl > 0 /\ items[k].expiry <= now
    /\ Becomes(delete(Map, k))
    /\ reply' = Missing
    /\ UNCHANGED now

GetFresh(k) ==
    /\ k \in DOMAIN items
    /\ ~(Ttl > 0 /\ items[k].expiry <= now)
    /\ Becomes(bumpLru(Map, k))
    /\ reply' = items[k].value
    /\ UNCHANGED now

set(k, v) ==
    /\ Becomes(IF k \in DOMAIN items THEN Replace(Map, k, v) ELSE Insert(Map, k, v))
    /\ UNCHANGED <<now, reply>>

Delete(k) ==
    /\ Becomes(delete(Map, k))
    /\ UNCHANGED <<now, reply>>

clear ==
    /\ Becomes(Empty)
    /\ UNCHANGED <<now, reply>>

Tick ==
    /\ now < MaxTime
    /\ now' = now + 1
    /\ UNCHANGED <<items, first, last, reply>>

Next ==
    \/ \E k \in Keys : GetAbsent(k) \/ GetExpired(k) \/ GetFresh(k) \/ Delete(k)
    \/ \E k \in Keys, v \in Values : set(k, v)
    \/ clear
    \/ Tick

Spec == Init /\ [][Next]_vars

-----------------------------------------------------------------------------
(* What is checked.                                                        *)

\* The variables have their types, and the map never holds more than its
\* capacity (LRUMap.ts:146 evicts before the new item is added).
TypeOK ==
    /\ DOMAIN items \subseteq Keys
    /\ items \in [DOMAIN items -> Item]
    /\ first \in Pointer /\ last \in Pointer
    /\ now \in 0 .. MaxTime
    /\ reply \in Values \cup {Missing}
    /\ Capacity > 0 => size <= Capacity

\* The keys met when following next from first, one for each item of the map.
Chain ==
    LET at[i \in 0 .. size] ==
            IF i = 0 THEN first
            ELSE IF at[i - 1] \in DOMAIN items THEN items[at[i - 1]].next ELSE Null
    IN  [i \in 1 .. size |-> at[i - 1]]

\* The list threads every item exactly once: following next from first meets
\* all of them and ends at last, and prev is the way back.  Bumps, evictions
\* and deletions in the middle of the list each rewrite several pointers in
\* place (LRUMap.ts:36-108).
WellLinked ==
    /\ {Chain[i] : i \in DOMAIN Chain} = DOMAIN items
    /\ last = IF size = 0 THEN Null ELSE Chain[size]
    /\ \A i \in 1 .. size :
          /\ items[Chain[i]].prev = IF i = 1 THEN Null ELSE Chain[i - 1]
          /\ items[Chain[i]].next = IF i = size THEN Null ELSE Chain[i + 1]

Store == INSTANCE LRUStore WITH
    lru <- [item  |-> [k \in DOMAIN items |->
                          [value |-> items[k].value, expiry |-> items[k].expiry]],
            order |-> Chain]

\* The pointer list behaves as the abstract store: get returns what was last
\* set and has not expired or been evicted, every use makes a key the most
\* recent one, and the key evicted at capacity is the least recently used.
ImplementsStore == Store!Spec

=============================================================================
