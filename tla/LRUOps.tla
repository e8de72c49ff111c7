------------------------------- MODULE LRUOps -------------------------------
(***************************************************************************)
(* What library/ratelimiting/LRUMap.ts promises its callers (RateLimiter,  *)
(* AttackWaveDetector, the IDOR statement cache), as operators on a value  *)
(*                                                                         *)
(*     [item  |-> the entries, a function from the keys that are present   *)
(*                to records [value, expiry],                              *)
(*      order |-> the same keys, least recently used first]                *)
(*                                                                         *)
(* The pointers of the code are left out here; LRUMap.tla has them and is  *)
(* checked to implement the machine LRUStore.tla builds from these         *)
(* operators.  max is the capacity (0: unbounded), ttl the time to live in *)
(* milliseconds (0: entries do not expire), now is performance.now().      *)
(***************************************************************************)
EXTENDS Integers, Sequences, FiniteSets, SequencesExt

EmptyLRU == [item |-> << >>, order |-> << >>]

Has(lru, k) == k \in DOMAIN lru.item

\* An entry is gone from the millisecond its expiry is reached (<=, not <).
Expired(lru, k, ttl, now) == ttl > 0 /\ lru.item[k].expiry <= now

Fresh(lru, k, ttl, now) == Has(lru, k) /\ ~Expired(lru, k, ttl, now)

WithoutFirst(order, k) == Tail(order)      \* whichever key that is
Without(order, k) == RemoveAt(order, CHOOSE i \in DOMAIN order : order[i] = k)

\* bumpLru: the key becomes the most recently used one.
Bump(lru, k) == [lru EXCEPT !.order = Append(Without(@, k), k)]

Drop(lru, k) ==
    [item  |-> [j \in DOMAIN lru.item \ {k} |-> lru.item[j]],
     order |-> Without(lru.order, k)]

Delete(lru, k) == IF Has(lru, k) THEN Drop(lru, k) ELSE lru

\* The map after get(k), and the value get(k) returns (missing: undefined).
Get(lru, k, ttl, now) ==
    IF Fresh(lru, k, ttl, now) THEN Bump(lru, k) ELSE Delete(lru, k)

Lookup(lru, k, ttl, now, missing) ==
    IF Fresh(lru, k, ttl, now) THEN lru.item[k].value ELSE missing

\* Whether set(k) pushes out another key, and which one: the least recently
\* used, whether or not it has expired.
Evicts(lru, k, max) ==
    ~Has(lru, k) /\ max > 0 /\ Cardinality(DOMAIN lru.item) = max

Victim(lru) == Head(lru.order)

Evicted(lru, k, max) == IF Evicts(lru, k, max) THEN {Victim(lru)} ELSE {}

MakeRoom(lru, k, max) ==
    IF Evicts(lru, k, max) THEN Drop(lru, Victim(lru)) ELSE lru

Entry(v, ttl, now) == [value |-> v, expiry |-> IF ttl > 0 THEN now + ttl ELSE ttl]

\* The map after set(k, v): the entry is replaced and bumped, or appended
\* after an eviction; its expiry restarts in both cases.
Set(lru, k, v, max, ttl, now) ==
    LET kept == MakeRoom(lru, k, max)
    IN  [item  |-> [j \in DOMAIN kept.item \cup {k} |->
                       IF j = k THEN Entry(v, ttl, now) ELSE kept.item[j]],
         order |-> IF Has(lru, k) THEN Append(Without(lru.order, k), k)
                                  ELSE Append(kept.order, k)]

=============================================================================
