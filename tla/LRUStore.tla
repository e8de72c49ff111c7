------------------------------ MODULE LRUStore ------------------------------
(***************************************************************************)
(* The abstract machine of an LRUMap: a client calls get, set, delete and  *)
(* clear on it while the clock advances.  reply is what the last get       *)
(* returned; it makes a wrong answer visible to a refinement check.        *)
(***************************************************************************)
EXTENDS LRUOps

CONSTANTS
    Keys,           \* the keys clients use
    Values,         \* the values they store
    Missing,        \* what get returns for an absent key (undefined), no value
    Capacity, Ttl,  \* the arguments of the constructor, 0: no bound
    MaxTime         \* bound of the clock

VARIABLES lru, now, reply

vars == <<lru, now, reply>>

Init ==
    /\ lru = EmptyLRU
    /\ now = 0
    /\ reply = Missing

GetKey(k) ==
    /\ lru' = Get(lru, k, Ttl, now)
    /\ reply' = Lookup(lru, k, Ttl, now, Missing)
    /\ UNCHANGED now

SetKey(k, v) ==
    /\ lru' = Set(lru, k, v, Capacity, Ttl, now)
    /\ UNCHANGED <<now, reply>>

DeleteKey(k) ==
    /\ lru' = Delete(lru, k)
    /\ UNCHANGED <<now, reply>>

Clear ==
    /\ lru' = EmptyLRU
    /\ UNCHANGED <<now, reply>>

Tick ==
    /\ now < MaxTime
    /\ now' = now + 1
    /\ UNCHANGED <<lru, reply>>

Next ==
    \/ \E k \in Keys : GetKey(k) \/ DeleteKey(k)
    \/ \E k \in Keys, v \in Values : SetKey(k, v)
    \/ Clear
    \/ Tick

Spec == Init /\ [][Next]_vars

=============================================================================
