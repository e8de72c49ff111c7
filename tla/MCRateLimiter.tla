---------------------------- MODULE MCRateLimiter ----------------------------
(* Three keys of two endpoints on a map of two items: a key is evicted     *)
(* while its window is open, entries expire, and the limits 1 and 2 with   *)
(* five attempts reach the cut.                                            *)
EXTENDS RateLimiter

CONSTANTS k1, k2, k3

MCWindow == (k1 :> 2) @@ (k2 :> 3) @@ (k3 :> 3)
MCLimit == (k1 :> 1) @@ (k2 :> 2) @@ (k3 :> 2)

\* Filter is the filter of the code: on lists of nondecreasing timestamps,
\* dropping the outdated prefix and selecting the rest are the same.
Lists == {s \in UNION {[1 .. n -> 0 .. 3] : n \in 0 .. 3} :
             \A i, j \in DOMAIN s : i < j => s[i] <= s[j]}
ASSUME FilterIsSelection ==
    \A s \in Lists, w \in 0 .. 4, t \in 3 .. 5 :
        SubSeq(s, Cardinality({i \in DOMAIN s : t - s[i] > w}) + 1, Len(s))
            = SelectSeq(s, LAMBDA x : t - x <= w)
=============================================================================
