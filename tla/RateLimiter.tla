----------------------------- MODULE RateLimiter -----------------------------
(***************************************************************************)
(* library/ratelimiting/RateLimiter.ts: per key a list of the timestamps   *)
(* of the last calls, kept in an LRUMap.  A list is filtered, cut, extended *)
(* and stored again on each call, and is lost when its entry expires or is *)
(* evicted.  The specification implements SlidingWindow, which forgets     *)
(* nothing but evicted keys: filtering, cutting and expiring lose no       *)
(* timestamp that could still matter.                                      *)
(*                                                                         *)
(* One call reads performance.now() several times within one synchronous   *)
(* block; the model reads it once.  attempts and hint are history          *)
(* variables: no guard reads them, the bound MaxAttempts apart.            *)
(*                                                                         *)
(* isAllowed is given the window and the limit with each call; here they   *)
(* belong to the key.  That a new configuration changes them over lists    *)
(* that were filtered and cut for the old ones is left out.                *)
(***************************************************************************)
EXTENDS LRUOps

CONSTANTS
    Keys,           \* "<endpoint>:<ip, user or group>"
    Window, Limit,  \* key -> windowSizeInMS, maxRequests of its endpoint
    MaxItems, Ttl,  \* the arguments of the constructor (Agent.ts:62)
    Second,         \* the milliseconds of a second
    NoHint,         \* no denial has announced a retry time
    MaxTime,        \* bound of the clock
    MaxAttempts     \* bound of the attempts on record for one key

\* The agent keeps entries for 120 minutes.  Endpoints are configured in the
\* Aikido dashboard with windows that are shorter than that.
ASSUME RateLimiterAssumption ==
    /\ IsFiniteSet(Keys)
    /\ Window \in [Keys -> Nat] /\ Limit \in [Keys -> Nat]
    /\ MaxItems \in Nat /\ Ttl \in Nat /\ Second \in Nat \ {0}
    /\ MaxTime \in Nat /\ MaxAttempts \in Nat
    /\ \A k \in Keys : Ttl > 0 => Ttl > Window[k]

VARIABLES
    now,            \* performance.now()
    lru,            \* rateLimitedItems: key -> list of timestamps
    attempts,       \* history: the calls for each key since it was last evicted
    hint            \* history: the last denial of each key and its retryAfterSeconds

vars == <<now, lru, attempts, hint>>

-----------------------------------------------------------------------------
(* isAllowed, step by step.                                                *)

\* filter: the timestamps of a list are in the order of the calls, so the
\* ones that have left the window are a prefix of it.
Outdated(stamps, k) == {i \in DOMAIN stamps : now - stamps[i] > Window[k]}

Filter(stamps, k) ==
    SubSeq(stamps, Cardinality(Outdated(stamps, k)) + 1, Len(stamps))

\* A splice that leaves one entry less than the limit.
CutTooMuch(stamps, k) ==
    IF Len(stamps) > Limit[k] - 1
    THEN SubSeq(stamps, Len(stamps) - Limit[k] + 2, Len(stamps))
    ELSE stamps

\* splice: keep the newest maxRequests + 1.
Cut(stamps, k) ==
    IF Len(stamps) > Limit[k] + 1
    THEN SubSeq(stamps, Len(stamps) - Limit[k], Len(stamps))
    ELSE stamps

Stored(k) == Lookup(lru, k, Ttl, now, << >>)

\* The list isAllowed(k) stores and decides on.
Stamps(k) == Append(Cut(Filter(Stored(k), k), k), now)

DecisionOffByOne(k) == Len(Stamps(k)) <= Limit[k] + 1
Decision(k) == Len(Stamps(k)) <= Limit[k]

CeilDiv(ms, unit) == (ms + unit - 1) \div unit

RetryAfterOfLast(k) ==
    LET ms == Stamps(k)[Len(Stamps(k))] + Window[k] - now
    IN  CeilDiv(IF ms > 0 THEN ms ELSE 0, Second)

RetryAfterSeconds(k) ==
    LET ms == Stamps(k)[1] + Window[k] - now
    IN  CeilDiv(IF ms > 0 THEN ms ELSE 0, Second)

AfterGet(k) == Get(lru, k, Ttl, now)

\* The keys lost to the one that is stored.
Lost(k) == Evicted(AfterGet(k), k, MaxItems)

-----------------------------------------------------------------------------
Init ==
    /\ now = 0
    /\ lru = EmptyLRU
    /\ attempts = [k \in Keys |-> << >>]
    /\ hint = [k \in Keys |-> NoHint]

isAllowed(k) ==
    /\ Len(attempts[k]) < MaxAttempts
    /\ lru' = Set(AfterGet(k), k, Stamps(k), MaxItems, Ttl, now)
    /\ attempts' =
          [j \in Keys |->
              IF j = k
              THEN Append(attempts[k], [at |-> now, allowed |-> Decision(k)])
              ELSE IF j \in Lost(k) THEN << >> ELSE attempts[j]]
    /\ hint' =
          [j \in Keys |->
              IF j = k
              THEN IF Decision(k) THEN NoHint
                   ELSE [at |-> now, seconds |-> RetryAfterSeconds(k)]
              ELSE IF j \in Lost(k) THEN NoHint ELSE hint[j]]
    /\ UNCHANGED now

Tick ==
    /\ now < MaxTime
    /\ now' = now + 1
    /\ UNCHANGED <<lru, attempts, hint>>

Next == Tick \/ \E k \in Keys : isAllowed(k)

Spec == Init /\ [][Next]_vars

-----------------------------------------------------------------------------
(* What is checked.                                                        *)

\* The variables have their types; the two halves of the map name the same
\* keys, and no timestamp lies in the future.
TypeOK ==
    /\ now \in Nat
    /\ DOMAIN lru.item \subseteq Keys
    /\ \A k \in DOMAIN lru.item :
          /\ lru.item[k].value \in Seq(0 .. now)
          /\ lru.item[k].value # << >>
          /\ lru.item[k].expiry \in Nat
    /\ lru.order \in Seq(Keys)
    /\ {lru.order[i] : i \in DOMAIN lru.order} = DOMAIN lru.item
    /\ attempts \in [Keys -> Seq([at : 0 .. now, allowed : BOOLEAN])]
    /\ hint \in [Keys -> [at : Nat, seconds : Nat] \cup {NoHint}]

Abstract == INSTANCE SlidingWindow

\* Every decision is the one a limiter takes that remembers every attempt:
\* the filter, the cut at maxRequests + 1 and the expiry of a whole entry
\* never drop a timestamp that would have changed a decision, and the key
\* lost at capacity is the one used longest ago.
ImplementsSlidingWindow == Abstract!Spec

\* Over any window of a key, at most maxRequests requests got through, as long
\* as the key was not evicted in between.
NeverOverLimit ==
    \A k \in Keys : \A i \in DOMAIN attempts[k] :
        Cardinality({j \in 1 .. i : /\ attempts[k][j].allowed
                                    /\ attempts[k][i].at - attempts[k][j].at <= Window[k]})
            <= Limit[k]

\* A client that was told to come back in n seconds is not kept away for
\* nothing: until one second before that, an attempt would have been denied.
RetryHintIsHonest ==
    \A k \in Keys :
        hint[k] # NoHint /\ now <= hint[k].at + (hint[k].seconds - 1) * Second
            => ~Abstract!WithinLimit(k)

\* RateLimiter.ts:33 "Ensure the number of entries exceeds maxRequests by only
\* 1": of a stored list.
ExceedsByOnlyOne ==
    \A k \in DOMAIN lru.item : Len(lru.item[k].value) <= Limit[k] + 1

=============================================================================
