---------------------------- MODULE SlidingWindow ----------------------------
(***************************************************************************)
(* What a sliding-window rate limiter promises, without any of the data    *)
(* structures of library/ratelimiting: every attempt on a key is on        *)
(* record, and an attempt is let through iff the attempts on its key in    *)
(* the window that ends now, itself and the denied ones included, are not  *)
(* more than the limit.  The one thing the limiter may do is forget the    *)
(* record of the key that was attempted longest ago, and only when a new   *)
(* key arrives while it already knows MaxItems of them.                    *)
(***************************************************************************)
EXTENDS Integers, Sequences, FiniteSets

CONSTANTS
    Keys,
    Window,         \* key -> length of its window in milliseconds
    Limit,          \* key -> maxRequests
    MaxItems,       \* how many keys are known at a time, 0: no bound
    MaxTime,        \* bound of the clock
    MaxAttempts     \* bound of the attempts on record for one key

VARIABLES now, attempts

vars == <<now, attempts>>

Attempt == [at : Nat, allowed : BOOLEAN]

\* The attempts on k that an attempt at this moment has to share the window with.
InWindow(k) == {i \in DOMAIN attempts[k] : now - attempts[k][i].at <= Window[k]}

WithinLimit(k) == Cardinality(InWindow(k)) + 1 <= Limit[k]

Known == {k \in Keys : attempts[k] # << >>}

LastUse(k) == attempts[k][Len(attempts[k])].at

LongestUnused == {k \in Known : \A j \in Known : LastUse(k) <= LastUse(j)}

AtCapacity(k) == attempts[k] = << >> /\ MaxItems > 0 /\ Cardinality(Known) = MaxItems

\* The sets of keys an attempt on k makes the limiter forget.
MayForget(k) == IF AtCapacity(k) THEN {{j} : j \in LongestUnused} ELSE {{}}

Record(k, ok, gone) ==
    [j \in Keys |-> IF j = k THEN Append(attempts[k], [at |-> now, allowed |-> ok])
                    ELSE IF j \in gone THEN << >> ELSE attempts[j]]

Init ==
    /\ now = 0
    /\ attempts = [k \in Keys |-> << >>]

Try(k) ==
    /\ Len(attempts[k]) < MaxAttempts
    /\ \E gone \in MayForget(k) : attempts' = Record(k, WithinLimit(k), gone)
    /\ UNCHANGED now

Tick ==
    /\ now < MaxTime
    /\ now' = now + 1
    /\ UNCHANGED attempts

Next == Tick \/ \E k \in Keys : Try(k)

Spec == Init /\ [][Next]_vars

=============================================================================
