-------------------------- MODULE RateLimiterProofs --------------------------
(***************************************************************************)
(* Proofs about RateLimiter for any keys, windows, limits and capacity:    *)
(* its types, that it implements SlidingWindow, that no key gets more than *)
(* its limit through in a window, and that Retry-After is honest.          *)
(*                                                                         *)
(* The heart of the inductive invariant is Remembers: the stored list of a *)
(* key holds the times of its last attempts, and the attempts it no longer *)
(* holds have left the window, or the list is long enough without them.    *)
(***************************************************************************)
EXTENDS RateLimiter, LRUOpsProofs

At(k, i) == attempts[k][i].at

\* The attempts on record are in the past, and in the order of their times.
Recorded ==
    /\ now \in Nat
    /\ attempts \in [Keys -> Seq([at : Nat, allowed : BOOLEAN])]
    /\ \A k \in Keys : \A i \in DOMAIN attempts[k] : At(k, i) <= now
    /\ \A k \in Keys : \A i, j \in DOMAIN attempts[k] : i < j => At(k, i) <= At(k, j)

\* s holds the times of the last attempts on k.
Latest(s, k) ==
    /\ s \in Seq(Nat)
    /\ Len(s) <= Len(attempts[k])
    /\ \A i \in 1 .. Len(s) : s[i] = At(k, Len(attempts[k]) - Len(s) + i)

\* The attempts on k before the last n have left its window.
RestOutdated(n, k) ==
    n = Len(attempts[k]) \/ now - At(k, Len(attempts[k]) - n) > Window[k]

Remembers(k) ==
    LET s == lru.item[k].value
    IN  /\ Latest(s, k)
        /\ Len(s) > 0
        /\ RestOutdated(Len(s), k) \/ Len(s) >= Limit[k] + 2
        /\ lru.item[k].expiry =
              IF Ttl > 0 THEN At(k, Len(attempts[k])) + Ttl ELSE Ttl

\* Between two calls, the keys that are present are those with attempts on record.
Remembered ==
    /\ WellFormed(lru, Keys)
    /\ DOMAIN lru.item = {k \in Keys : attempts[k] # << >>}
    /\ MaxItems > 0 => Cardinality(DOMAIN lru.item) <= MaxItems
    /\ \A k \in DOMAIN lru.item : Remembers(k)

\* The order is that of the last attempts.
OrderedByUse ==
    \A i, j \in DOMAIN lru.order :
        i < j => Abstract!LastUse(lru.order[i]) <= Abstract!LastUse(lru.order[j])

Inv == Recorded /\ Remembered /\ OrderedByUse

USE DEF At

-----------------------------------------------------------------------------
(* What a call stores and decides.                                         *)

\* A set of positions that holds all those before one it holds is an interval.
LEMMA PrefixIsInterval ==
    ASSUME NEW n \in Nat, NEW P \in SUBSET (1 .. n),
           \A i, j \in 1 .. n : i < j /\ j \in P => i \in P
    PROVE  Cardinality(P) \in 0 .. n /\ P = 1 .. Cardinality(P)
<1>1. IsFiniteSet(1 .. n) /\ Cardinality(1 .. n) = n
  <2>1. n > 0 \/ n = 0
    OBVIOUS
  <2> QED
    BY <2>1, FS_Interval
<1>2. IsFiniteSet(P) /\ Cardinality(P) <= n
  BY <1>1, FS_Subset
<1>3. Cardinality(P) \in Nat
  BY <1>2, FS_CardinalityType
<1> DEFINE c == Cardinality(P)
<1>4. \A i \in P : i <= c
  <2> SUFFICES ASSUME NEW i \in P PROVE i <= c
    OBVIOUS
  <2>1. 1 .. i \subseteq P
    OBVIOUS
  <2>2. Cardinality(1 .. i) = i
    BY FS_Interval
  <2> QED
    BY <1>2, <2>1, <2>2, FS_Subset
<1> HIDE DEF c
<1>5. P \subseteq 1 .. c
  BY <1>4
<1>6. IsFiniteSet(1 .. c) /\ Cardinality(1 .. c) = c
  <2>1. c \in Nat
    BY <1>3 DEF c
  <2>2. c > 0 \/ c = 0
    BY <2>1
  <2> QED
    BY <2>1, <2>2, FS_Interval
<1>7. P = 1 .. c
  BY <1>5, <1>6, FS_Subset DEF c
<1> QED
  BY <1>2, <1>3, <1>7 DEF c

\* What get returns: the stored list, or nothing of a key that has no attempts
\* or whose last one is older than the time to live and so than the window.
LEMMA StoredFacts ==
    ASSUME Recorded, Remembered, NEW k \in Keys
    PROVE  /\ Latest(Stored(k), k)
           /\ RestOutdated(Len(Stored(k)), k) \/ Len(Stored(k)) >= Limit[k] + 2
<1>1. CASE Fresh(lru, k, Ttl, now)
  <2>1. k \in DOMAIN lru.item /\ Stored(k) = lru.item[k].value
    BY <1>1 DEF Fresh, Has, Stored, Lookup
  <2> QED
    BY <2>1 DEF Remembered, Remembers
<1>2. CASE ~Fresh(lru, k, Ttl, now)
  <2>1. Stored(k) = << >>
    BY <1>2 DEF Stored, Lookup
  <2>2. attempts[k] \in Seq([at : Nat, allowed : BOOLEAN]) /\ Len(attempts[k]) \in Nat
    BY LenProperties DEF Recorded
  <2>3. Latest(<< >>, k)
    BY <2>2, EmptySeq DEF Latest
  <2>4. RestOutdated(0, k)
    <3>1. CASE k \notin DOMAIN lru.item
      BY <3>1, EmptySeq DEF Remembered, RestOutdated
    <3>2. CASE k \in DOMAIN lru.item
      <4>1. /\ Ttl > 0 /\ lru.item[k].expiry <= now
            /\ lru.item[k].expiry = At(k, Len(attempts[k])) + Ttl
        BY <1>2, <3>2 DEF Fresh, Has, Expired, Remembered, Remembers
      <4>2. Ttl > Window[k] /\ Ttl \in Nat /\ Window[k] \in Nat
        BY <4>1, RateLimiterAssumption
      <4>3. attempts[k] # << >>
        BY <3>2 DEF Remembered
      <4>4. Len(attempts[k]) \in 1 .. Len(attempts[k])
        BY <2>2, <4>3, EmptySeq
      <4>5. At(k, Len(attempts[k])) \in Nat /\ now \in Nat
        <5>1. attempts[k][Len(attempts[k])] \in [at : Nat, allowed : BOOLEAN]
          BY <2>2, <4>4, ElementOfSeq
        <5> QED
          BY <5>1 DEF Recorded
      <4>6. now - At(k, Len(attempts[k])) > Window[k]
        BY <4>1, <4>2, <4>5
      <4>7. Len(attempts[k]) - 0 = Len(attempts[k])
        BY <2>2
      <4> QED
        BY <4>6, <4>7 DEF RestOutdated
    <3> QED
      BY <3>1, <3>2
  <2> QED
    BY <2>1, <2>3, <2>4, EmptySeq
<1> QED
  BY <1>1, <1>2

\* Dropping the first entries of such a list leaves such a list.
LEMMA LatestSuffix ==
    ASSUME Recorded, NEW k \in Keys, NEW s, Latest(s, k), NEW d \in 0 .. Len(s)
    PROVE  LET t == SubSeq(s, d + 1, Len(s))
           IN  /\ Latest(t, k)
               /\ Len(t) = Len(s) - d
               /\ \A i \in 1 .. Len(t) : t[i] = s[d + i]
<1> DEFINE t == SubSeq(s, d + 1, Len(s))
<1>1. s \in Seq(Nat) /\ Len(s) \in Nat /\ d \in Nat
  BY LenProperties DEF Latest
<1>2. \A i \in d + 1 .. Len(s) : s[i] \in Nat
  BY <1>1, ElementOfSeq
<1>3. /\ t \in Seq(Nat) /\ Len(t) = Len(s) - d
      /\ \A i \in 1 .. Len(s) - d : t[i] = s[d + 1 + i - 1]
  BY <1>1, <1>2, SubSeqProperties
<1>4. \A i \in 1 .. Len(s) - d : d + 1 + i - 1 = d + i
  BY <1>1
<1> HIDE DEF t
<1>5. \A i \in 1 .. Len(t) : t[i] = s[d + i]
  BY <1>3, <1>4
<1> DEFINE N == Len(attempts[k])
           l == Len(s)
           m == Len(t)
<1>6. N \in Nat /\ l \in Nat /\ m = l - d /\ l <= N
  BY <1>1, <1>3, LenProperties DEF Recorded, Latest
<1>7. \A i \in 1 .. l : s[i] = At(k, N - l + i)
  BY DEF Latest
<1> HIDE DEF N, l, m
<1>8. \A i \in 1 .. m : t[i] = At(k, N - m + i)
  <2> SUFFICES ASSUME NEW i \in 1 .. m
               PROVE  t[i] = At(k, N - m + i)
    OBVIOUS
  <2>1. d + i \in 1 .. l /\ N - l + (d + i) = N - m + i
    BY <1>6
  <2>2. t[i] = s[d + i] /\ s[d + i] = At(k, N - l + (d + i))
    BY <1>5, <1>7, <2>1 DEF m
  <2> QED
    BY <2>1, <2>2
<1>9. m <= N
  BY <1>6
<1> QED
  BY <1>3, <1>5, <1>8, <1>9 DEF Latest, t, N, m

\* The filter leaves the entries of the window, and only drops others.
LEMMA FilterFacts ==
    ASSUME Recorded, Remembered, NEW k \in Keys
    PROVE  LET f == Filter(Stored(k), k)
           IN  /\ Latest(f, k)
               /\ \A i \in 1 .. Len(f) : now - f[i] <= Window[k]
               /\ RestOutdated(Len(f), k) \/ Len(f) >= Limit[k] + 2
<1> DEFINE s == Stored(k)
           f == Filter(s, k)
           out == Outdated(s, k)
           c == Cardinality(out)
           N == Len(attempts[k])
<1>1. /\ Latest(s, k)
      /\ RestOutdated(Len(s), k) \/ Len(s) >= Limit[k] + 2
  BY StoredFacts
<1> HIDE DEF s
<1>2. /\ s \in Seq(Nat) /\ Len(s) \in Nat /\ DOMAIN s = 1 .. Len(s)
      /\ N \in Nat /\ DOMAIN attempts[k] = 1 .. N /\ Len(s) <= N
  BY <1>1, LenProperties DEF Latest, Recorded
<1>3. \A i, j \in 1 .. Len(s) : i < j => s[i] <= s[j]
  <2> SUFFICES ASSUME NEW i \in 1 .. Len(s), NEW j \in 1 .. Len(s), i < j
               PROVE  s[i] <= s[j]
    OBVIOUS
  <2>1. /\ N - Len(s) + i \in 1 .. N /\ N - Len(s) + j \in 1 .. N
        /\ N - Len(s) + i < N - Len(s) + j
    BY <1>2
  <2>2. s[i] = At(k, N - Len(s) + i) /\ s[j] = At(k, N - Len(s) + j)
    BY <1>1 DEF Latest
  <2>3. At(k, N - Len(s) + i) <= At(k, N - Len(s) + j)
    BY <1>2, <2>1 DEF Recorded
  <2> QED
    BY <2>2, <2>3
<1>4. /\ \A i \in 1 .. Len(s) : s[i] \in Nat
      /\ now \in Nat /\ Window[k] \in Nat
  BY <1>2, ElementOfSeq, RateLimiterAssumption DEF Recorded
<1>5. /\ out \in SUBSET (1 .. Len(s))
      /\ \A i \in 1 .. Len(s) : i \in out <=> now - s[i] > Window[k]
  BY <1>2 DEF Outdated
<1> HIDE DEF out
<1>6. \A i, j \in 1 .. Len(s) : i < j /\ j \in out => i \in out
  BY <1>3, <1>4, <1>5
<1>7. c \in 0 .. Len(s) /\ out = 1 .. c
  BY <1>2, <1>5, <1>6, PrefixIsInterval
<1>8. f = SubSeq(s, c + 1, Len(s))
  BY DEF Filter, out
<1> HIDE DEF c, f
<1>9. /\ Latest(f, k) /\ Len(f) = Len(s) - c
      /\ \A i \in 1 .. Len(f) : f[i] = s[c + i]
  BY <1>1, <1>7, <1>8, LatestSuffix
<1>10. \A i \in 1 .. Len(f) : now - f[i] <= Window[k]
  <2> SUFFICES ASSUME NEW i \in 1 .. Len(f)
               PROVE  now - f[i] <= Window[k]
    OBVIOUS
  <2>1. c + i \in 1 .. Len(s) /\ c + i \notin out
    BY <1>2, <1>7, <1>9
  <2> QED
    BY <1>4, <1>5, <1>9, <2>1
<1>11. RestOutdated(Len(f), k) \/ Len(f) >= Limit[k] + 2
  <2>1. CASE c = 0
    <3>1. Len(f) = Len(s)
      BY <1>2, <1>9, <2>1
    <3> QED
      BY <1>1, <3>1
  <2>2. CASE c # 0
    <3>1. c \in 1 .. Len(s) /\ c \in out
      BY <1>2, <1>7, <2>2
    <3>2. now - s[c] > Window[k]
      BY <1>5, <3>1
    <3>3. s[c] = At(k, N - Len(s) + c)
      BY <1>1, <3>1 DEF Latest
    <3>4. N - Len(f) = N - Len(s) + c
      BY <1>2, <1>7, <1>9
    <3> QED
      BY <3>2, <3>3, <3>4 DEF RestOutdated
  <2> QED
    BY <2>1, <2>2
<1> QED
  BY <1>9, <1>10, <1>11 DEF f, s

\* The cut keeps the last Limit + 1 entries, if there are more.
LEMMA CutFacts ==
    ASSUME Recorded, Remembered, NEW k \in Keys
    PROVE  LET u == Cut(Filter(Stored(k), k), k)
           IN  /\ Latest(u, k)
               /\ \A i \in 1 .. Len(u) : now - u[i] <= Window[k]
               /\ RestOutdated(Len(u), k) \/ Len(u) = Limit[k] + 1
               /\ Len(u) <= Limit[k] + 1
<1> DEFINE f == Filter(Stored(k), k)
           u == Cut(f, k)
           d == Len(f) - Limit[k] - 1
<1>1. /\ Latest(f, k)
      /\ \A i \in 1 .. Len(f) : now - f[i] <= Window[k]
      /\ RestOutdated(Len(f), k) \/ Len(f) >= Limit[k] + 2
  BY FilterFacts
<1> HIDE DEF f
<1>2. Len(f) \in Nat /\ Limit[k] \in Nat
  BY <1>1, LenProperties, RateLimiterAssumption DEF Latest
<1>3. CASE Len(f) > Limit[k] + 1
  <2>1. d \in 0 .. Len(f) /\ Len(f) - d = Limit[k] + 1 /\ Len(f) - Limit[k] = d + 1
    BY <1>2, <1>3
  <2>2. u = SubSeq(f, d + 1, Len(f))
    BY <1>3, <2>1 DEF Cut
  <2> HIDE DEF u, d
  <2>3. /\ Latest(u, k) /\ Len(u) = Len(f) - d
        /\ \A i \in 1 .. Len(u) : u[i] = f[d + i]
    BY <1>1, <2>1, <2>2, LatestSuffix
  <2>4. \A i \in 1 .. Len(u) : d + i \in 1 .. Len(f)
    BY <1>2, <2>1, <2>3
  <2>5. \A i \in 1 .. Len(u) : now - u[i] <= Window[k]
    BY <1>1, <2>3, <2>4
  <2> QED
    BY <1>2, <2>1, <2>3, <2>5 DEF u, f
<1>4. CASE ~(Len(f) > Limit[k] + 1)
  <2>1. u = f /\ RestOutdated(Len(f), k) /\ Len(f) <= Limit[k] + 1
    BY <1>1, <1>2, <1>4 DEF Cut
  <2> HIDE DEF u
  <2> QED
    BY <1>1, <2>1 DEF u, f
<1> QED
  BY <1>3, <1>4

\* SlidingWindow counts as RateLimiter does.
LEMMA AbstractCardinality == \A S : Abstract!Cardinality(S) = Cardinality(S)
BY DEF Abstract!Cardinality, Cardinality

\* The last n of N positions, and where they stand among themselves.
LEMMA IntervalFacts ==
    ASSUME NEW N \in Nat, NEW n \in 0 .. N
    PROVE  /\ IsFiniteSet(N - n + 1 .. N) /\ Cardinality(N - n + 1 .. N) = n
           /\ \A j \in N - n + 1 .. N :
                 j \in 1 .. N /\ j - (N - n) \in 1 .. n /\ N - n + (j - (N - n)) = j
<1>1. /\ N - n + 1 \in Int /\ N \in Int
      /\ (N - n + 1 > N) = (n = 0) /\ N - (N - n + 1) + 1 = n
  OBVIOUS
<1>2. IsFiniteSet(N - n + 1 .. N) /\ Cardinality(N - n + 1 .. N) = n
  BY <1>1, FS_Interval
<1> QED
  BY <1>2

\* What is known of the attempts on a key.
LEMMA AttemptFacts ==
    ASSUME Recorded, NEW k \in Keys
    PROVE  /\ Len(attempts[k]) \in Nat
           /\ DOMAIN attempts[k] = 1 .. Len(attempts[k])
           /\ \A i \in 1 .. Len(attempts[k]) :
                 At(k, i) \in Nat /\ attempts[k][i].allowed \in BOOLEAN /\ At(k, i) <= now
           /\ \A i, j \in 1 .. Len(attempts[k]) : i <= j => At(k, i) <= At(k, j)
<1>1. attempts[k] \in Seq([at : Nat, allowed : BOOLEAN])
  BY DEF Recorded
<1>2. Len(attempts[k]) \in Nat /\ DOMAIN attempts[k] = 1 .. Len(attempts[k])
  BY <1>1, LenProperties
<1>3. \A i \in 1 .. Len(attempts[k]) : attempts[k][i] \in [at : Nat, allowed : BOOLEAN]
  BY <1>1, ElementOfSeq
<1>4. \A i \in 1 .. Len(attempts[k]) :
          At(k, i) \in Nat /\ attempts[k][i].allowed \in BOOLEAN /\ At(k, i) <= now
  BY <1>2, <1>3 DEF Recorded
<1>5. ASSUME NEW i \in 1 .. Len(attempts[k]), NEW j \in 1 .. Len(attempts[k]), i <= j
      PROVE  At(k, i) <= At(k, j)
  <2>1. CASE i = j
    BY <1>4, <2>1
  <2>2. CASE i < j
    BY <1>2, <2>2 DEF Recorded
  <2> QED
    BY <1>2, <1>5, <2>1, <2>2
<1> QED
  BY <1>2, <1>4, <1>5

\* The decision is that of SlidingWindow: the kept entries of the window are
\* all there are, or too many already.
LEMMA DecisionFacts ==
    ASSUME Recorded, Remembered, NEW k \in Keys
    PROVE  /\ Stamps(k) \in Seq(Nat)
           /\ Decision(k) = Abstract!WithinLimit(k)
           /\ IsFiniteSet(Abstract!InWindow(k))
<1> DEFINE u == Cut(Filter(Stored(k), k), k)
           n == Len(u)
           N == Len(attempts[k])
           W == Abstract!InWindow(k)
<1>1. /\ Latest(u, k)
      /\ \A i \in 1 .. n : now - u[i] <= Window[k]
      /\ RestOutdated(n, k) \/ n = Limit[k] + 1
      /\ n <= Limit[k] + 1
  BY CutFacts
<1>2. Stamps(k) = Append(u, now)
  BY DEF Stamps
<1> HIDE DEF u
<1>3. /\ u \in Seq(Nat) /\ n \in Nat /\ n <= N
      /\ now \in Nat /\ Window[k] \in Nat /\ Limit[k] \in Nat
  BY <1>1, LenProperties, RateLimiterAssumption DEF Latest, Recorded
<1>4. /\ N \in Nat /\ DOMAIN attempts[k] = 1 .. N
      /\ \A i \in 1 .. N : At(k, i) \in Nat
      /\ \A i, j \in 1 .. N : i <= j => At(k, i) <= At(k, j)
  BY AttemptFacts
<1>5. Stamps(k) \in Seq(Nat) /\ Len(Stamps(k)) = n + 1
  BY <1>2, <1>3, AppendProperties
<1>6. Decision(k) = (n + 1 <= Limit[k])
  BY <1>5 DEF Decision
<1>7. W \in SUBSET (1 .. N) /\ \A i \in 1 .. N : i \in W <=> now - At(k, i) <= Window[k]
  BY <1>4 DEF Abstract!InWindow
<1>8. \A i \in 1 .. n : u[i] = At(k, N - n + i)
  BY <1>1 DEF Latest
<1>9. n # N /\ RestOutdated(n, k) => now - At(k, N - n) > Window[k]
  BY DEF RestOutdated
<1>10. Abstract!WithinLimit(k) = (Cardinality(W) + 1 <= Limit[k])
  BY AbstractCardinality DEF Abstract!WithinLimit
<1> DEFINE last == N - n + 1 .. N
<1> HIDE DEF W, n, N
<1>11. IsFiniteSet(W)
  <2>1. IsFiniteSet(1 .. N)
    BY <1>4, FS_Interval
  <2> QED
    BY <1>7, <2>1, FS_Subset
<1>12. /\ IsFiniteSet(last) /\ Cardinality(last) = n
       /\ \A j \in last :
             j \in 1 .. N /\ j - (N - n) \in 1 .. n /\ N - n + (j - (N - n)) = j
  <2>1. n \in 0 .. N
    BY <1>3, <1>4
  <2> QED
    BY <1>4, <2>1, IntervalFacts
<1>13. last \subseteq W
  <2> SUFFICES ASSUME NEW j \in last
               PROVE  j \in W
    OBVIOUS
  <2>1. u[j - (N - n)] = At(k, j) /\ now - u[j - (N - n)] <= Window[k]
    BY <1>1, <1>8, <1>12 DEF n
  <2> QED
    BY <1>7, <1>12, <2>1
<1>14. Cardinality(W) \in Nat /\ n <= Cardinality(W)
  <2> HIDE DEF last
  <2>1. Cardinality(last) <= Cardinality(W)
    BY <1>11, <1>13, FS_Subset
  <2> QED
    BY <1>11, <1>12, <2>1, FS_CardinalityType
<1>15. CASE n = Limit[k] + 1
  <2>1. ~(n + 1 <= Limit[k]) /\ ~(Cardinality(W) + 1 <= Limit[k])
    BY <1>3, <1>14, <1>15
  <2> QED
    BY <1>5, <1>6, <1>10, <1>11, <2>1 DEF W
<1>16. CASE RestOutdated(n, k)
  <2>1. ASSUME NEW j \in W PROVE j \in last
    <3>1. j \in 1 .. N /\ now - At(k, j) <= Window[k] /\ At(k, j) \in Nat
      BY <1>4, <1>7
    <3>2. CASE j <= N - n
      <4>1. N - n \in 1 .. N /\ n # N
        BY <1>3, <1>4, <3>1, <3>2
      <4>2. At(k, j) <= At(k, N - n) /\ At(k, N - n) \in Nat
        BY <1>4, <3>1, <3>2, <4>1
      <4>3. now - At(k, N - n) > Window[k]
        BY <1>9, <1>16, <4>1
      <4> DEFINE x == At(k, j)
                 y == At(k, N - n)
      <4>4. /\ x \in Nat /\ y \in Nat /\ x <= y
            /\ now - x <= Window[k] /\ now - y > Window[k]
        BY <3>1, <4>2, <4>3
      <4> HIDE DEF x, y
      <4> QED
        BY <1>3, <4>4
    <3>3. CASE ~(j <= N - n)
      <4>1. j \in N - n + 1 .. N
        BY <1>3, <1>4, <3>1, <3>3
      <4> QED
        BY <4>1
    <3> QED
      BY <3>2, <3>3
  <2>2. W = last
    BY <1>13, <2>1
  <2>3. (n + 1 <= Limit[k]) = (Cardinality(W) + 1 <= Limit[k])
    BY <1>12, <2>2
  <2> QED
    BY <1>5, <1>6, <1>10, <1>11, <2>3 DEF W
<1> QED
  BY <1>1, <1>15, <1>16 DEF n

-----------------------------------------------------------------------------
(* What a call changes.                                                    *)

\* The map after a call: the entry of k is new, one other may be gone, and the
\* order of all the others is kept.
LEMMA CallMap ==
    ASSUME Remembered, NEW k \in Keys, isAllowed(k)
    PROVE  /\ WellFormed(lru', Keys)
           /\ Lost(k) \subseteq DOMAIN lru.item \ {k}
           /\ DOMAIN lru'.item = (DOMAIN lru.item \ Lost(k)) \cup {k}
           /\ lru'.item[k] = Entry(Stamps(k), Ttl, now)
           /\ \A j \in DOMAIN lru'.item : j # k => lru'.item[j] = lru.item[j]
           /\ KeepsOrder(lru'.order, lru.order, k)
           /\ lru'.order[Len(lru'.order)] = k
           /\ IsFiniteSet(DOMAIN lru.item)
<1> DEFINE m == AfterGet(k)
           r == Set(m, k, Stamps(k), MaxItems, Ttl, now)
           gone == Lost(k)
<1>1. IsFiniteSet(DOMAIN lru.item) /\ DOMAIN lru.item \subseteq Keys
  BY RateLimiterAssumption, FS_Subset DEF Remembered
<1>2. /\ WellFormed(m, Keys)
      /\ DOMAIN m.item = DOMAIN lru.item \ {k} \/ DOMAIN m.item = DOMAIN lru.item
      /\ \A j \in DOMAIN m.item : m.item[j] = lru.item[j]
      /\ KeepsOrder(m.order, lru.order, k)
  <2>1. WellFormed(lru, Keys) /\ m = Get(lru, k, Ttl, now)
    BY DEF Remembered, AfterGet
  <2> HIDE DEF m
  <2> QED
    BY <2>1, GetFacts
<1>3. IsFiniteSet(DOMAIN m.item)
  BY <1>1, <1>2, FS_Subset
<1>4. lru' = r
  BY DEF isAllowed
<1>5. gone = Evicted(m, k, MaxItems)
  BY DEF Lost
<1>10. r.item[k] = Entry(Stamps(k), Ttl, now)
  BY SetEntry
<1> HIDE DEF m, gone
<1>6. /\ WellFormed(r, Keys)
      /\ gone \subseteq DOMAIN m.item \ {k}
      /\ DOMAIN r.item = (DOMAIN m.item \ gone) \cup {k}
      /\ \A j \in DOMAIN r.item : j # k => r.item[j] = m.item[j]
      /\ KeepsOrder(r.order, m.order, k)
      /\ r.order[Len(r.order)] = k
  <2>1. /\ MaxItems \in Nat /\ r = Set(m, k, Stamps(k), MaxItems, Ttl, now)
    BY RateLimiterAssumption
  <2> HIDE DEF r
  <2>2. /\ WellFormed(r, Keys) /\ KeepsOrder(r.order, m.order, k)
        /\ r.order[Len(r.order)] = k
    BY <1>2, <1>3, <2>1, SetOrder
  <2>3. /\ Evicted(m, k, MaxItems) \subseteq DOMAIN m.item \ {k}
        /\ DOMAIN r.item = (DOMAIN m.item \ Evicted(m, k, MaxItems)) \cup {k}
        /\ \A j \in DOMAIN r.item : j # k => r.item[j] = m.item[j]
    BY <1>2, <1>3, <2>1, SetItems
  <2> QED
    BY <1>5, <2>2, <2>3
<1> HIDE DEF r
<1>7. DOMAIN r.item = (DOMAIN lru.item \ gone) \cup {k} /\ gone \subseteq DOMAIN lru.item \ {k}
  BY <1>2, <1>6
<1>8. \A j \in DOMAIN r.item : j # k => r.item[j] = lru.item[j]
  BY <1>2, <1>6
<1>9. KeepsOrder(r.order, lru.order, k)
  BY <1>2, <1>6, KeepsOrderTransitive
<1> QED
  BY <1>1, <1>4, <1>6, <1>7, <1>8, <1>9, <1>10 DEF gone

\* Which key is evicted, and when: the first in the order, at capacity.
LEMMA CallEvicts ==
    ASSUME Remembered, NEW k \in Keys
    PROVE  Lost(k) = IF ~Has(lru, k) /\ MaxItems > 0
                           /\ Cardinality(DOMAIN lru.item) = MaxItems
                        THEN {Head(lru.order)} ELSE {}
<1>1. CASE ~Has(lru, k)
  <2>1. AfterGet(k) = lru
    BY <1>1 DEF AfterGet, Get, Fresh, Delete
  <2> QED
    BY <1>1, <2>1 DEF Lost, Evicted, Evicts, Victim
<1>2. CASE Has(lru, k)
  <2> DEFINE m == AfterGet(k)
  <2>1. /\ Expired(lru, k, Ttl, now) => DOMAIN m.item = DOMAIN lru.item \ {k}
        /\ ~Expired(lru, k, Ttl, now) => DOMAIN m.item = DOMAIN lru.item
    <3>1. WellFormed(lru, Keys) /\ m = Get(lru, k, Ttl, now)
      BY DEF Remembered, AfterGet
    <3> HIDE DEF m
    <3> QED
      BY <1>2, <3>1, GetFacts
  <2>2. IsFiniteSet(DOMAIN lru.item)
    BY RateLimiterAssumption, FS_Subset DEF Remembered
  <2>3. k \in DOMAIN lru.item
    BY <1>2 DEF Has
  <2>4. /\ Cardinality(DOMAIN lru.item) \in Nat
        /\ Cardinality(DOMAIN lru.item \ {k}) = Cardinality(DOMAIN lru.item) - 1
    BY <2>2, <2>3, FS_RemoveElement, FS_CardinalityType
  <2> HIDE DEF m
  <2>5. ~Evicts(m, k, MaxItems)
    <3>1. CASE Expired(lru, k, Ttl, now)
      <4>1. Cardinality(DOMAIN m.item) = Cardinality(DOMAIN lru.item) - 1
        BY <2>1, <2>4, <3>1
      <4> QED
        BY <2>4, <4>1, RateLimiterAssumption DEF Evicts, Remembered
    <3>2. CASE ~Expired(lru, k, Ttl, now)
      BY <2>1, <2>3, <3>2 DEF Evicts, Has
    <3> QED
      BY <3>1, <3>2
  <2> QED
    BY <1>2, <2>5 DEF Lost, Evicted, m
<1> QED
  BY <1>1, <1>2

\* The history after a call.
LEMMA CallAttempts ==
    ASSUME Recorded, NEW k \in Keys, isAllowed(k)
    PROVE  /\ now' = now
           /\ attempts'[k] = Append(attempts[k], [at |-> now, allowed |-> Decision(k)])
           /\ attempts'[k] \in Seq([at : Nat, allowed : BOOLEAN])
           /\ Len(attempts'[k]) = Len(attempts[k]) + 1
           /\ attempts'[k][Len(attempts[k]) + 1].at = now
           /\ attempts'[k][Len(attempts[k]) + 1].allowed = Decision(k)
           /\ \A i \in 1 .. Len(attempts[k]) : attempts'[k][i] = attempts[k][i]
           /\ \A j \in Keys : j # k /\ j \in Lost(k) => attempts'[j] = << >>
           /\ \A j \in Keys : j # k /\ j \notin Lost(k) => attempts'[j] = attempts[j]
           /\ DOMAIN attempts' = Keys
           /\ attempts' = [j \in Keys |-> attempts'[j]]
<1> DEFINE a == [at |-> now, allowed |-> Decision(k)]
<1>1. a \in [at : Nat, allowed : BOOLEAN]
  BY DEF Recorded, Decision
<1>2. attempts[k] \in Seq([at : Nat, allowed : BOOLEAN])
  BY DEF Recorded
<1>3. /\ now' = now
      /\ attempts' = [j \in Keys |->
              IF j = k THEN Append(attempts[k], a)
              ELSE IF j \in Lost(k) THEN << >> ELSE attempts[j]]
  BY DEF isAllowed
<1> HIDE DEF a
<1>4. /\ attempts'[k] = Append(attempts[k], a)
      /\ \A j \in Keys : j # k /\ j \in Lost(k) => attempts'[j] = << >>
      /\ \A j \in Keys : j # k /\ j \notin Lost(k) => attempts'[j] = attempts[j]
      /\ DOMAIN attempts' = Keys
      /\ attempts' = [j \in Keys |-> attempts'[j]]
  BY <1>3
<1>5. /\ Append(attempts[k], a) \in Seq([at : Nat, allowed : BOOLEAN])
      /\ Len(Append(attempts[k], a)) = Len(attempts[k]) + 1
      /\ Append(attempts[k], a)[Len(attempts[k]) + 1] = a
      /\ \A i \in 1 .. Len(attempts[k]) : Append(attempts[k], a)[i] = attempts[k][i]
  BY <1>1, <1>2, AppendProperties
<1>6. a.at = now /\ a.allowed = Decision(k)
  BY DEF a
<1> QED
  BY <1>3, <1>4, <1>5, <1>6 DEF a

\* Before the first call there is nothing on record.
LEMMA RecordedInit == Init => Recorded
BY EmptySeq, LenProperties DEF Init, Recorded

\* A call adds its own time, which is not before any on record.
LEMMA RecordedNext == Recorded /\ [Next]_vars => Recorded'
<1> SUFFICES ASSUME Recorded, [Next]_vars PROVE Recorded'
  OBVIOUS
<1>1. CASE Tick
  <2>1. now' = now + 1 /\ attempts' = attempts /\ now \in Nat
    BY <1>1 DEF Tick, Recorded
  <2>2. \A k \in Keys : \A i \in DOMAIN attempts[k] : At(k, i) <= now'
    <3> SUFFICES ASSUME NEW k \in Keys, NEW i \in DOMAIN attempts[k]
                 PROVE  At(k, i) <= now'
      OBVIOUS
    <3>1. At(k, i) \in Nat /\ At(k, i) <= now
      BY AttemptFacts
    <3> QED
      BY <2>1, <3>1
  <2> QED
    BY <2>1, <2>2 DEF Recorded
<1>2. ASSUME NEW k \in Keys, isAllowed(k) PROVE Recorded'
  <2>1. /\ now' = now /\ now \in Nat
        /\ attempts' = [j \in Keys |-> attempts'[j]]
    BY <1>2, CallAttempts DEF Recorded
  <2>2. ASSUME NEW j \in Keys
        PROVE  /\ attempts'[j] \in Seq([at : Nat, allowed : BOOLEAN])
               /\ \A i \in DOMAIN attempts'[j] : attempts'[j][i].at <= now
               /\ \A a, b \in DOMAIN attempts'[j] :
                     a < b => attempts'[j][a].at <= attempts'[j][b].at
    <3>1. CASE j = k
      <4> DEFINE N == Len(attempts[k])
      <4>1. /\ N \in Nat
            /\ \A i \in 1 .. N : At(k, i) \in Nat /\ At(k, i) <= now
            /\ \A a, b \in 1 .. N : a <= b => At(k, a) <= At(k, b)
        BY AttemptFacts
      <4>2. /\ attempts'[k] \in Seq([at : Nat, allowed : BOOLEAN])
            /\ Len(attempts'[k]) = N + 1
            /\ attempts'[k][N + 1].at = now
            /\ \A i \in 1 .. N : attempts'[k][i] = attempts[k][i]
        <5> HIDE DEF N
        <5>1. /\ attempts'[k] \in Seq([at : Nat, allowed : BOOLEAN])
              /\ Len(attempts'[k]) = Len(attempts[k]) + 1
              /\ attempts'[k][Len(attempts[k]) + 1].at = now
          BY <1>2, CallAttempts
        <5>2. \A i \in 1 .. Len(attempts[k]) : attempts'[k][i] = attempts[k][i]
          BY <1>2, CallAttempts
        <5> QED
          BY <5>1, <5>2 DEF N
      <4>3. DOMAIN attempts'[k] = 1 .. N + 1
        BY <4>2, LenProperties
      <4> HIDE DEF N
      <4>4. \A i \in 1 .. N + 1 : i \in 1 .. N \/ i = N + 1
        BY <4>1
      <4>5. \A i \in 1 .. N + 1 : attempts'[k][i].at <= now
        BY <2>1, <4>1, <4>2, <4>4
      <4>6. \A a, b \in 1 .. N + 1 : a < b => a \in 1 .. N /\ (b \in 1 .. N \/ b = N + 1)
        BY <4>1
      <4>7. \A a, b \in 1 .. N : a < b => a <= b
        BY <4>1
      <4>8. \A a, b \in 1 .. N + 1 : a < b => attempts'[k][a].at <= attempts'[k][b].at
        BY <4>1, <4>2, <4>6, <4>7
      <4> QED
        BY <3>1, <4>2, <4>3, <4>5, <4>8
    <3>2. CASE j # k /\ j \in Lost(k)
      <4>1. attempts'[j] = << >>
        BY <1>2, <3>2, CallAttempts
      <4> QED
        BY <4>1, EmptySeq
    <3>3. CASE j # k /\ j \notin Lost(k)
      <4>1. attempts'[j] = attempts[j]
        BY <1>2, <3>3, CallAttempts
      <4> QED
        BY <4>1 DEF Recorded
    <3> QED
      BY <3>1, <3>2, <3>3
  <2> QED
    BY <2>1, <2>2 DEF Recorded
<1>3. CASE UNCHANGED vars
  BY <1>3 DEF vars, Recorded
<1> QED
  BY <1>1, <1>2, <1>3 DEF Next

\* The list stored for k is the old one, less what has left the window and what
\* is above the limit, and the time of this attempt.
LEMMA CallRemembers ==
    ASSUME Recorded, Remembered, NEW k \in Keys, isAllowed(k)
    PROVE  Remembers(k)'
<1> DEFINE u == Cut(Filter(Stored(k), k), k)
           n == Len(u)
           N == Len(attempts[k])
           s == Stamps(k)
<1>1. /\ Latest(u, k)
      /\ RestOutdated(n, k) \/ n = Limit[k] + 1
  BY CutFacts
<1>2. s = Append(u, now)
  BY DEF Stamps
<1> HIDE DEF u, s
<1>3. /\ u \in Seq(Nat) /\ n \in Nat /\ n <= N /\ now \in Nat
      /\ \A i \in 1 .. n : u[i] = At(k, N - n + i)
      /\ Limit[k] \in Nat
  BY <1>1, LenProperties, RateLimiterAssumption DEF Latest, Recorded
<1>4. N \in Nat
  BY AttemptFacts
<1>5. /\ s \in Seq(Nat) /\ Len(s) = n + 1 /\ s[n + 1] = now
      /\ \A i \in 1 .. n : s[i] = u[i]
  BY <1>2, <1>3, AppendProperties
<1>6. /\ now' = now /\ Len(attempts'[k]) = N + 1
      /\ attempts'[k][N + 1].at = now
  <2> HIDE DEF N
  <2>1. /\ now' = now /\ Len(attempts'[k]) = Len(attempts[k]) + 1
        /\ attempts'[k][Len(attempts[k]) + 1].at = now
    BY CallAttempts
  <2> QED
    BY <2>1 DEF N
<1>7. \A i \in 1 .. N : attempts'[k][i] = attempts[k][i]
  BY CallAttempts
<1>8. lru'.item[k] = Entry(s, Ttl, now)
  BY CallMap DEF s
<1>9. /\ lru'.item[k].value = s
      /\ lru'.item[k].expiry = IF Ttl > 0 THEN now + Ttl ELSE Ttl
  BY <1>8 DEF Entry
<1>10. n # N /\ RestOutdated(n, k) => now - At(k, N - n) > Window[k]
  BY DEF RestOutdated
<1> HIDE DEF n, N
<1>11. ASSUME NEW i \in 1 .. n + 1
       PROVE  s[i] = attempts'[k][N + 1 - (n + 1) + i].at
  <2>1. CASE i = n + 1
    <3>1. N + 1 - (n + 1) + i = N + 1
      BY <1>3, <1>4, <2>1
    <3> QED
      BY <1>5, <1>6, <2>1, <3>1
  <2>2. CASE i # n + 1
    <3>1. i \in 1 .. n /\ N + 1 - (n + 1) + i = N - n + i /\ N - n + i \in 1 .. N
      BY <1>3, <1>4, <2>2
    <3> QED
      BY <1>3, <1>5, <1>7, <3>1
  <2> QED
    BY <2>1, <2>2
<1>12. \/ n + 1 = N + 1
       \/ now - attempts'[k][N + 1 - (n + 1)].at > Window[k]
       \/ n + 1 >= Limit[k] + 2
  <2>1. CASE n = Limit[k] + 1
    BY <1>3, <2>1
  <2>2. CASE n # N /\ RestOutdated(n, k)
    <3>1. N - n \in 1 .. N /\ N + 1 - (n + 1) = N - n
      BY <1>3, <1>4, <2>2
    <3>2. attempts'[k][N - n] = attempts[k][N - n]
      BY <1>7, <3>1
    <3> QED
      BY <1>10, <2>2, <3>1, <3>2
  <2> QED
    BY <1>1, <1>3, <2>1, <2>2 DEF n
<1>13. n + 1 <= N + 1 /\ n + 1 > 0
  BY <1>3, <1>4
<1> DEFINE new == lru'.item[k].value
<1>14. new = s
  BY <1>9
<1> HIDE DEF new
<1>15. /\ new \in Seq(Nat)
       /\ Len(new) <= Len(attempts'[k]) /\ Len(new) > 0
       /\ \A i \in 1 .. Len(new) : new[i] = attempts'[k][Len(attempts'[k]) - Len(new) + i].at
  <2>1. Len(new) = n + 1 /\ Len(attempts'[k]) = N + 1
    BY <1>5, <1>6, <1>14
  <2> QED
    BY <1>3, <1>4, <1>5, <1>11, <1>13, <1>14, <2>1
<1>16. \/ Len(new) = Len(attempts'[k])
       \/ now' - attempts'[k][Len(attempts'[k]) - Len(new)].at > Window[k]
       \/ Len(new) >= Limit[k] + 2
  <2>1. Len(new) = n + 1 /\ Len(attempts'[k]) = N + 1 /\ now' = now
    BY <1>5, <1>6, <1>14
  <2> QED
    BY <1>3, <1>4, <1>12, <2>1
<1>17. lru'.item[k].expiry = IF Ttl > 0 THEN attempts'[k][Len(attempts'[k])].at + Ttl ELSE Ttl
  BY <1>6, <1>9
<1> QED
  BY <1>15, <1>16, <1>17 DEF Remembers, Latest, RestOutdated, new

\* Time passing, or a call for another key, leaves what is remembered of j.
LEMMA StillRemembers ==
    ASSUME Recorded, Remembered, NEW j \in DOMAIN lru.item,
           j \in DOMAIN lru'.item, lru'.item[j] = lru.item[j],
           attempts'[j] = attempts[j], now' \in Nat, now' >= now
    PROVE  Remembers(j)'
<1> DEFINE s == lru.item[j].value
           N == Len(attempts[j])
<1>1. /\ s \in Seq(Nat) /\ Len(s) <= N /\ Len(s) > 0
      /\ \A i \in 1 .. Len(s) : s[i] = At(j, N - Len(s) + i)
      /\ \/ Len(s) = N
         \/ now - At(j, N - Len(s)) > Window[j]
         \/ Len(s) >= Limit[j] + 2
      /\ lru.item[j].expiry = IF Ttl > 0 THEN At(j, N) + Ttl ELSE Ttl
  BY DEF Remembered, Remembers, Latest, RestOutdated
<1>2. j \in Keys /\ Len(s) \in Nat
  BY <1>1, LenProperties DEF Remembered
<1>3. /\ N \in Nat /\ \A i \in 1 .. N : At(j, i) \in Nat
  BY <1>2, AttemptFacts
<1>4. now \in Nat /\ Window[j] \in Nat
  BY <1>2, RateLimiterAssumption DEF Recorded
<1> HIDE DEF s, N
<1>5. \/ Len(s) = N
      \/ now' - At(j, N - Len(s)) > Window[j]
      \/ Len(s) >= Limit[j] + 2
  <2>1. CASE Len(s) # N /\ now - At(j, N - Len(s)) > Window[j]
    <3>1. N - Len(s) \in 1 .. N
      BY <1>1, <1>2, <1>3, <2>1
    <3>2. At(j, N - Len(s)) \in Nat
      BY <1>3, <3>1
    <3> HIDE DEF At
    <3> QED
      BY <1>4, <2>1, <3>2
  <2> QED
    BY <1>1, <2>1
<1>6. lru'.item[j].value = s /\ Len(attempts'[j]) = N
  BY DEF s, N
<1>7. lru'.item[j].expiry = lru.item[j].expiry
  OBVIOUS
<1> QED
  BY <1>1, <1>5, <1>6, <1>7 DEF Remembers, Latest, RestOutdated

\* The empty map remembers all there is.
LEMMA RememberedInit == Init => Remembered
<1> SUFFICES ASSUME Init PROVE Remembered
  OBVIOUS
<1>1. WellFormed(lru, Keys) /\ DOMAIN lru.item = {}
  BY EmptyWellFormed DEF Init, EmptyLRU
<1>2. {k \in Keys : attempts[k] # << >>} = {}
  BY DEF Init
<1>3. MaxItems > 0 => Cardinality({}) <= MaxItems
  BY FS_EmptySet, RateLimiterAssumption
<1> QED
  BY <1>1, <1>2, <1>3 DEF Remembered

\* A call keeps the map and the record of the attempts in step: what it stores
\* and what it loses of the one is what it adds to and takes from the other.
LEMMA RememberedNext == Recorded /\ Remembered /\ [Next]_vars => Remembered'
<1> SUFFICES ASSUME Recorded, Remembered, [Next]_vars PROVE Remembered'
  OBVIOUS
<1>1. CASE UNCHANGED <<lru, attempts>> /\ now' \in Nat /\ now' >= now
  <2>1. \A j \in DOMAIN lru.item : Remembers(j)'
    BY <1>1, StillRemembers
  <2> QED
    BY <1>1, <2>1 DEF Remembered
<1>2. Tick \/ UNCHANGED vars => UNCHANGED <<lru, attempts>> /\ now' \in Nat /\ now' >= now
  BY DEF Tick, vars, Recorded
<1>3. ASSUME NEW k \in Keys, isAllowed(k) PROVE Remembered'
  <2>1. /\ WellFormed(lru', Keys)
        /\ Lost(k) \subseteq DOMAIN lru.item \ {k}
        /\ DOMAIN lru'.item = (DOMAIN lru.item \ Lost(k)) \cup {k}
        /\ IsFiniteSet(DOMAIN lru.item)
    BY <1>3, CallMap
  <2>2. \A j \in DOMAIN lru'.item : j # k => lru'.item[j] = lru.item[j]
    BY <1>3, CallMap
  <2>3. /\ now' = now /\ attempts'[k] # << >>
        /\ \A j \in Keys : j # k /\ j \in Lost(k) => attempts'[j] = << >>
        /\ \A j \in Keys : j # k /\ j \notin Lost(k) => attempts'[j] = attempts[j]
    <3>1. attempts'[k] \in Seq([at : Nat, allowed : BOOLEAN])
          /\ Len(attempts'[k]) = Len(attempts[k]) + 1
      BY <1>3, CallAttempts
    <3>2. Len(attempts[k]) \in Nat
      BY AttemptFacts
    <3>3. attempts'[k] # << >>
      BY <3>1, <3>2, EmptySeq
    <3>4. now' = now
      BY <1>3, CallAttempts
    <3>5. /\ \A j \in Keys : j # k /\ j \in Lost(k) => attempts'[j] = << >>
          /\ \A j \in Keys : j # k /\ j \notin Lost(k) => attempts'[j] = attempts[j]
      BY <1>3, CallAttempts
    <3> QED
      BY <3>3, <3>4, <3>5
  <2>4. DOMAIN lru'.item = {j \in Keys : attempts'[j] # << >>}
    BY <2>1, <2>3 DEF Remembered
  <2>5. MaxItems > 0 => Cardinality(DOMAIN lru'.item) <= MaxItems
    <3> DEFINE D == DOMAIN lru.item
               c == Cardinality(D)
    <3> SUFFICES ASSUME MaxItems > 0
                 PROVE  Cardinality(DOMAIN lru'.item) <= MaxItems
      OBVIOUS
    <3>1. c \in Nat /\ MaxItems \in Nat /\ c <= MaxItems
      BY <2>1, FS_CardinalityType, RateLimiterAssumption DEF Remembered
    <3>2. CASE k \in D
      <4>1. Lost(k) = {}
        BY <3>2, CallEvicts DEF Has
      <4>2. DOMAIN lru'.item = D
        BY <2>1, <3>2, <4>1
      <4> QED
        BY <3>1, <4>2
    <3>3. CASE k \notin D /\ c = MaxItems
      <4>1. Lost(k) = {Head(lru.order)}
        BY <3>3, CallEvicts DEF Has
      <4> DEFINE e == Head(lru.order)
      <4> HIDE DEF e
      <4>2. e \in D /\ DOMAIN lru'.item = (D \ {e}) \cup {k}
        BY <2>1, <4>1 DEF e
      <4>3. IsFiniteSet(D \ {e}) /\ Cardinality(D \ {e}) = c - 1
        BY <2>1, <4>2, FS_RemoveElement
      <4>4. Cardinality((D \ {e}) \cup {k}) = c - 1 + 1
        BY <3>3, <4>3, FS_AddElement
      <4> QED
        BY <3>1, <4>2, <4>4
    <3>4. CASE k \notin D /\ c # MaxItems
      <4>1. Lost(k) = {}
        BY <3>4, CallEvicts DEF Has
      <4>2. DOMAIN lru'.item = D \cup {k}
        BY <2>1, <4>1
      <4>3. Cardinality(D \cup {k}) = c + 1
        BY <2>1, <3>4, FS_AddElement
      <4> QED
        BY <3>1, <3>4, <4>2, <4>3
    <3> QED
      BY <3>2, <3>3, <3>4
  <2>6. ASSUME NEW j \in DOMAIN lru'.item PROVE Remembers(j)'
    <3>1. CASE j = k
      BY <1>3, <3>1, CallRemembers
    <3>2. CASE j # k
      <4>1. /\ j \in DOMAIN lru.item /\ lru'.item[j] = lru.item[j]
            /\ attempts'[j] = attempts[j]
        BY <2>1, <2>2, <2>3, <3>2 DEF Remembered
      <4>2. now' \in Nat /\ now' >= now
        BY <2>3 DEF Recorded
      <4> QED
        BY <4>1, <4>2, StillRemembers
    <3> QED
      BY <3>1, <3>2
  <2> QED
    BY <2>1, <2>4, <2>5, <2>6 DEF Remembered
<1> QED
  BY <1>1, <1>2, <1>3 DEF Next

\* The last attempt on a key lies in the past.
LEMMA LastUseFacts ==
    ASSUME Recorded, NEW k \in Keys, attempts[k] # << >>
    PROVE  Abstract!LastUse(k) \in Nat /\ Abstract!LastUse(k) <= now
<1>1. attempts[k] \in Seq([at : Nat, allowed : BOOLEAN])
  BY DEF Recorded
<1>2. Len(attempts[k]) \in 1 .. Len(attempts[k])
  BY <1>1, EmptySeq, LenProperties
<1>3. At(k, Len(attempts[k])) \in Nat /\ At(k, Len(attempts[k])) <= now
  BY <1>2, AttemptFacts
<1> QED
  BY <1>3 DEF Abstract!LastUse

\* The empty order is sorted.
LEMMA OrderedInit == Init => OrderedByUse
BY DEF Init, EmptyLRU, OrderedByUse

\* A call puts its key behind all others, whose last attempts are not later.
LEMMA OrderedNext ==
    Recorded /\ Remembered /\ OrderedByUse /\ [Next]_vars => OrderedByUse'
<1> SUFFICES ASSUME Recorded, Remembered, OrderedByUse, [Next]_vars
             PROVE  OrderedByUse'
  OBVIOUS
<1>1. CASE UNCHANGED <<lru, attempts>>
  BY <1>1 DEF OrderedByUse, Abstract!LastUse
<1>2. Tick \/ UNCHANGED vars => UNCHANGED <<lru, attempts>>
  BY DEF Tick, vars
<1>3. ASSUME NEW k \in Keys, isAllowed(k) PROVE OrderedByUse'
  <2> DEFINE new == lru'.order
             old == lru.order
  <2>1. /\ new \in Seq(Keys) /\ old \in Seq(Keys)
        /\ \A i, j \in DOMAIN new : new[i] = new[j] => i = j
        /\ new[Len(new)] = k
        /\ KeepsOrder(new, old, k)
    <3>1. WellFormed(lru', Keys) /\ WellFormed(lru, Keys)
      BY <1>3, CallMap DEF Remembered
    <3>2. KeepsOrder(lru'.order, lru.order, k) /\ lru'.order[Len(lru'.order)] = k
      BY <1>3, CallMap
    <3> QED
      BY <3>1, <3>2 DEF WellFormed
  <2>2. /\ DOMAIN new = 1 .. Len(new) /\ Len(new) \in Nat
        /\ \A i \in DOMAIN new : new[i] \in Keys
    BY <2>1, LenProperties, ElementOfSeq
  <2>3. Recorded' /\ Remembered'
    BY RecordedNext, RememberedNext
  <2>4. \A i \in DOMAIN new : attempts'[new[i]] # << >>
    BY <2>3 DEF Remembered, WellFormed, KeysOf
  <2>5. \A i \in DOMAIN new :
            attempts'[new[i]][Len(attempts'[new[i]])].at <= now'
    <3> SUFFICES ASSUME NEW i \in DOMAIN new
                 PROVE  attempts'[new[i]][Len(attempts'[new[i]])].at <= now'
      OBVIOUS
    <3>1. attempts'[new[i]] \in Seq([at : Nat, allowed : BOOLEAN])
      BY <2>2, <2>3 DEF Recorded
    <3>2. Len(attempts'[new[i]]) \in DOMAIN attempts'[new[i]]
      BY <2>4, <3>1, EmptySeq, LenProperties
    <3> QED
      BY <2>2, <2>3, <3>2 DEF Recorded
  <2>6. attempts'[k][Len(attempts'[k])].at = now'
    <3>1. Len(attempts'[k]) = Len(attempts[k]) + 1 /\ now' = now
      BY <1>3, CallAttempts
    <3>2. attempts'[k][Len(attempts[k]) + 1].at = now
      BY <1>3, CallAttempts
    <3> QED
      BY <3>1, <3>2
  <2>7. \A i \in DOMAIN new : new[i] # k => attempts'[new[i]] = attempts[new[i]]
    <3>1. \A j \in Keys : j # k /\ j \in Lost(k) => attempts'[j] = << >>
      BY <1>3, CallAttempts
    <3>2. \A j \in Keys : j # k /\ j \notin Lost(k) => attempts'[j] = attempts[j]
      BY <1>3, CallAttempts
    <3> QED
      BY <2>2, <2>4, <3>1, <3>2
  <2>8. \A a, b \in DOMAIN old : a < b =>
            attempts[old[a]][Len(attempts[old[a]])].at <= attempts[old[b]][Len(attempts[old[b]])].at
    BY DEF OrderedByUse, Abstract!LastUse
  <2> HIDE DEF new, old
  <2>9. ASSUME NEW i \in DOMAIN new, NEW j \in DOMAIN new, i < j
        PROVE  attempts'[new[i]][Len(attempts'[new[i]])].at
                   <= attempts'[new[j]][Len(attempts'[new[j]])].at
    <3>1. CASE new[j] = k
      BY <2>5, <2>6, <3>1
    <3>2. CASE new[j] # k
      <4>1. new[i] # k
        <5>1. Len(new) \in DOMAIN new /\ i # Len(new)
          BY <2>2, <2>9
        <5> QED
          BY <2>1, <5>1
      <4>2. PICK a \in DOMAIN old, b \in DOMAIN old :
                a < b /\ new[i] = old[a] /\ new[j] = old[b]
        BY <2>1, <2>9, <3>2, <4>1 DEF KeepsOrder
      <4> QED
        BY <2>7, <2>8, <3>2, <4>1, <4>2
    <3> QED
      BY <3>1, <3>2
  <2> QED
    BY <2>9 DEF OrderedByUse, Abstract!LastUse, new
<1> QED
  BY <1>1, <1>2, <1>3 DEF Next

\* The lists isAllowed stores are what the decisions need of the record of all
\* attempts, and the order of the map is that of the last attempts.
THEOREM Invariance == Spec => []Inv
<1>1. Init => Inv
  BY RecordedInit, RememberedInit, OrderedInit DEF Inv
<1>2. Inv /\ [Next]_vars => Inv'
  BY RecordedNext, RememberedNext, OrderedNext DEF Inv
<1> QED
  BY <1>1, <1>2, PTL DEF Spec

-----------------------------------------------------------------------------
(* RateLimiter implements SlidingWindow.                                   *)

\* The key that is lost is one that SlidingWindow may forget.
LEMMA LostMayBeForgotten ==
    ASSUME Inv, NEW k \in Keys
    PROVE  Lost(k) \in Abstract!MayForget(k)
<1>1. Recorded /\ Remembered /\ OrderedByUse
  BY DEF Inv
<1>2. Abstract!Known = DOMAIN lru.item
  BY <1>1 DEF Abstract!Known, Remembered
<1>3. Abstract!AtCapacity(k) <=>
          ~Has(lru, k) /\ MaxItems > 0 /\ Cardinality(DOMAIN lru.item) = MaxItems
  <2>1. Has(lru, k) <=> attempts[k] # << >>
    BY <1>1 DEF Has, Remembered
  <2> QED
    BY <1>2, <2>1, AbstractCardinality DEF Abstract!AtCapacity
<1>4. CASE ~Abstract!AtCapacity(k)
  <2>1. Lost(k) = {}
    BY <1>1, <1>3, <1>4, CallEvicts
  <2> QED
    BY <1>4, <2>1 DEF Abstract!MayForget
<1>5. CASE Abstract!AtCapacity(k)
  <2> DEFINE order == lru.order
  <2>1. Lost(k) = {Head(order)}
    BY <1>1, <1>3, <1>5, CallEvicts
  <2>2. /\ order \in Seq(Keys) /\ KeysOf(order) = DOMAIN lru.item
    BY <1>1 DEF Remembered, WellFormed
  <2>3. DOMAIN lru.item # {}
    BY <1>3, <1>5, FS_EmptySet
  <2>4. order # << >> /\ 1 \in DOMAIN order /\ Head(order) = order[1]
    BY <2>2, <2>3, EmptySeq, LenProperties DEF KeysOf
  <2>5. ASSUME NEW j \in Abstract!Known
        PROVE  Abstract!LastUse(order[1]) <= Abstract!LastUse(j)
    <3>1. PICK b \in DOMAIN order : order[b] = j
      BY <1>2, <2>2 DEF KeysOf
    <3>2. CASE b = 1
      <4>1. Abstract!LastUse(j) \in Nat
        BY <1>1, LastUseFacts DEF Abstract!Known
      <4> QED
        BY <3>1, <3>2, <4>1
    <3>3. CASE b # 1
      <4>1. 1 < b
        BY <2>2, <3>3, LenProperties
      <4> QED
        BY <1>1, <2>4, <3>1, <4>1 DEF OrderedByUse
    <3> QED
      BY <3>2, <3>3
  <2>6. order[1] \in Abstract!Known
    BY <1>2, <2>2, <2>4 DEF KeysOf
  <2>7. order[1] \in Abstract!LongestUnused
    BY <2>5, <2>6 DEF Abstract!LongestUnused
  <2> QED
    BY <1>5, <2>1, <2>4, <2>7 DEF Abstract!MayForget
<1> QED
  BY <1>4, <1>5

\* A call is an attempt of SlidingWindow, with the same decision.
LEMMA StepImplements == Inv /\ [Next]_vars => [Abstract!Next]_(Abstract!vars)
<1> SUFFICES ASSUME Inv, [Next]_vars PROVE [Abstract!Next]_(Abstract!vars)
  OBVIOUS
<1>1. CASE Tick
  BY <1>1 DEF Tick, Abstract!Next, Abstract!Tick
<1>2. ASSUME NEW k \in Keys, isAllowed(k) PROVE Abstract!Next
  <2>1. Decision(k) = Abstract!WithinLimit(k)
    BY DecisionFacts DEF Inv
  <2>2. Lost(k) \in Abstract!MayForget(k)
    BY LostMayBeForgotten
  <2>3. attempts' = Abstract!Record(k, Abstract!WithinLimit(k), Lost(k))
    BY <1>2, <2>1 DEF isAllowed, Abstract!Record
  <2>4. Len(attempts[k]) < MaxAttempts /\ UNCHANGED now
    BY <1>2 DEF isAllowed
  <2> QED
    BY <2>2, <2>3, <2>4 DEF Abstract!Next, Abstract!Try
<1>3. CASE UNCHANGED vars
  BY <1>3 DEF vars, Abstract!vars
<1> QED
  BY <1>1, <1>2, <1>3 DEF Next

\* Every decision of isAllowed is that of a limiter that remembers all attempts,
\* and the key that is lost at capacity is the one unused for longest.
THEOREM RateLimiterImplementsSlidingWindow == Spec => ImplementsSlidingWindow
<1>1. Init => Abstract!Init
  BY DEF Init, Abstract!Init
<1> QED
  BY <1>1, Invariance, StepImplements, PTL DEF Spec, Abstract!Spec, ImplementsSlidingWindow

-----------------------------------------------------------------------------
(* Never more than the limit in a window.                                  *)

Got(k, i) ==
    {j \in 1 .. i : attempts[k][j].allowed /\ At(k, i) - At(k, j) <= Window[k]}

\* The property, by the name of the set it counts.
LEMMA NeverOverLimitIsGot ==
    NeverOverLimit <=>
        \A k \in Keys : \A i \in DOMAIN attempts[k] : Cardinality(Got(k, i)) <= Limit[k]
BY DEF NeverOverLimit, Got

\* An attempt that is let through shares the window with those counted for the
\* decision; one that is not, with some of those of the attempt before it.
LEMMA CallGot ==
    ASSUME Recorded, Remembered, NeverOverLimit, NEW k \in Keys, isAllowed(k),
           NEW i, i = Len(attempts[k]) + 1
    PROVE  Cardinality(Got(k, i)') <= Limit[k]
<1> DEFINE N == Len(attempts[k])
           W == Abstract!InWindow(k)
           G == Got(k, i)'
<1>1. /\ N \in Nat
      /\ \A j \in 1 .. N : At(k, j) \in Nat /\ At(k, j) <= now
  BY AttemptFacts
<1>2. /\ DOMAIN attempts[k] = 1 .. N /\ now \in Nat /\ Limit[k] \in Nat /\ Window[k] \in Nat
  BY AttemptFacts, RateLimiterAssumption DEF Recorded
<1>3. /\ attempts'[k][N + 1].at = now
      /\ attempts'[k][N + 1].allowed = Decision(k)
  <2> HIDE DEF N
  <2>1. /\ attempts'[k][Len(attempts[k]) + 1].at = now
        /\ attempts'[k][Len(attempts[k]) + 1].allowed = Decision(k)
    BY CallAttempts
  <2> QED
    BY <2>1 DEF N
<1>4. \A j \in 1 .. N : attempts'[k][j] = attempts[k][j]
  BY CallAttempts
<1>5. W = {j \in 1 .. N : now - At(k, j) <= Window[k]}
  BY <1>2 DEF Abstract!InWindow
<1>6. G = {j \in 1 .. N + 1 : /\ attempts'[k][j].allowed
                              /\ now - attempts'[k][j].at <= Window[k]}
  <2>1. i = N + 1 /\ attempts'[k][i].at = now
    BY <1>3
  <2> QED
    BY <2>1 DEF Got
<1> HIDE DEF N, W, G
<1>7. IsFiniteSet(W) /\ Cardinality(W) \in Nat /\ IsFiniteSet(1 .. N)
  <2>1. IsFiniteSet(1 .. N)
    BY <1>1, FS_Interval
  <2>2. W \subseteq 1 .. N
    BY <1>5
  <2> QED
    BY <2>1, <2>2, FS_Subset, FS_CardinalityType
<1>8. \A j \in 1 .. N + 1 : j \in 1 .. N \/ j = N + 1
  BY <1>1
<1>9. CASE Decision(k)
  <2>1. Cardinality(W) + 1 <= Limit[k]
    <3>1. Abstract!WithinLimit(k)
      BY <1>9, DecisionFacts
    <3> QED
      BY <3>1, AbstractCardinality DEF Abstract!WithinLimit, W
  <2>2. G \subseteq W \cup {N + 1}
    BY <1>4, <1>5, <1>6, <1>8
  <2>3. N + 1 \notin W
    BY <1>1, <1>5
  <2>4. IsFiniteSet(W \cup {N + 1}) /\ Cardinality(W \cup {N + 1}) = Cardinality(W) + 1
    BY <1>7, <2>3, FS_AddElement
  <2>5. Cardinality(G) <= Cardinality(W) + 1 /\ Cardinality(G) \in Nat
    BY <2>2, <2>4, FS_Subset, FS_CardinalityType
  <2>6. Cardinality(G) <= Limit[k]
    BY <1>2, <1>7, <2>1, <2>5
  <2> QED
    BY <2>6 DEF G
<1>10. CASE ~Decision(k)
  <2>1. N + 1 \notin G
    BY <1>3, <1>6, <1>10
  <2>2. G \subseteq {j \in 1 .. N : attempts[k][j].allowed /\ now - At(k, j) <= Window[k]}
    BY <1>4, <1>6, <1>8, <2>1
  <2>3. CASE N = 0
    <3>1. 1 .. N = {}
      BY <2>3
    <3>2. G = {}
      BY <2>2, <3>1
    <3>3. Cardinality(G) = 0
      BY <3>2, FS_EmptySet
    <3>4. Cardinality(G) <= Limit[k]
      BY <1>2, <3>3
    <3> QED
      BY <3>4 DEF G
  <2>4. CASE N # 0
    <3>1. N \in 1 .. N
      BY <1>1, <2>4
    <3>2. Cardinality(Got(k, N)) <= Limit[k]
      BY <1>2, <3>1, NeverOverLimitIsGot
    <3>3. \A j \in 1 .. N : now - At(k, j) <= Window[k] => At(k, N) - At(k, j) <= Window[k]
      BY <1>1, <1>2, <3>1
    <3>4. G \subseteq Got(k, N) /\ Got(k, N) \subseteq 1 .. N
      BY <2>2, <3>3 DEF Got
    <3>5. /\ Cardinality(G) <= Cardinality(Got(k, N))
          /\ Cardinality(G) \in Nat /\ Cardinality(Got(k, N)) \in Nat
      BY <1>7, <3>4, FS_Subset, FS_CardinalityType
    <3> QED
      BY <1>2, <3>2, <3>5 DEF G
  <2> QED
    BY <2>3, <2>4
<1> QED
  BY <1>9, <1>10

\* A call adds one position to check, and changes no earlier one.
LEMMA NeverOverLimitNext ==
    Inv /\ NeverOverLimit /\ [Next]_vars => NeverOverLimit'
<1> SUFFICES ASSUME Inv, NeverOverLimit, [Next]_vars PROVE NeverOverLimit'
  OBVIOUS
<1>1. CASE UNCHANGED attempts
  BY <1>1 DEF NeverOverLimit
<1>2. Tick \/ UNCHANGED vars => UNCHANGED attempts
  BY DEF Tick, vars
<1>3. ASSUME NEW k \in Keys, isAllowed(k) PROVE NeverOverLimit'
  <2>1. Recorded /\ Remembered
    BY DEF Inv
  <2>2. ASSUME NEW j \in Keys, NEW i \in DOMAIN attempts'[j]
        PROVE  Cardinality(Got(j, i)') <= Limit[j]
    <3>1. CASE attempts'[j] = attempts[j]
      <4>1. Got(j, i)' = Got(j, i) /\ i \in DOMAIN attempts[j]
        BY <2>2, <3>1 DEF Got
      <4> QED
        BY <4>1, NeverOverLimitIsGot
    <3>2. CASE j # k /\ j \in Lost(k)
      <4>1. attempts'[j] = << >>
        BY <1>3, <2>1, <3>2, CallAttempts
      <4> QED
        BY <2>2, <4>1
    <3>3. CASE j = k
      <4> DEFINE N == Len(attempts[k])
      <4>1. N \in Nat /\ DOMAIN attempts[k] = 1 .. N
        BY <2>1, AttemptFacts
      <4>2. attempts'[k] \in Seq([at : Nat, allowed : BOOLEAN]) /\ Len(attempts'[k]) = N + 1
        BY <1>3, <2>1, CallAttempts
      <4>3. \A m \in 1 .. N : attempts'[k][m] = attempts[k][m]
        BY <1>3, <2>1, CallAttempts
      <4>4. i \in 1 .. N + 1
        BY <2>2, <3>3, <4>2, LenProperties
      <4>5. CASE i = N + 1
        BY <1>3, <2>1, <3>3, <4>5, CallGot
      <4>6. CASE i # N + 1
        <5>1. i \in 1 .. N /\ \A m \in 1 .. i : m \in 1 .. N
          BY <4>1, <4>4, <4>6
        <5>2. Got(k, i)' = Got(k, i)
          BY <4>3, <5>1 DEF Got
        <5>3. Cardinality(Got(k, i)) <= Limit[k]
          BY <4>1, <5>1, NeverOverLimitIsGot
        <5> QED
          BY <3>3, <5>2, <5>3
      <4> QED
        BY <4>5, <4>6
    <3>4. j # k /\ j \notin Lost(k) => attempts'[j] = attempts[j]
      BY <1>3, <2>1, CallAttempts
    <3> QED
      BY <3>1, <3>2, <3>3, <3>4
  <2> QED
    BY <2>2 DEF NeverOverLimit, Got
<1> QED
  BY <1>1, <1>2, <1>3 DEF Next

\* In any window of a key, at most Limit of its attempts have got through.
THEOREM LimitIsNeverExceeded == Spec => []NeverOverLimit
<1>1. Init => NeverOverLimit
  BY DEF Init, NeverOverLimit
<1> QED
  BY <1>1, Invariance, NeverOverLimitNext, PTL DEF Spec

-----------------------------------------------------------------------------
(* The time to wait that a denial announces.                               *)

\* Rounding up adds less than one unit.
LEMMA CeilDivFacts ==
    ASSUME NEW ms \in Nat, NEW unit \in Nat \ {0}
    PROVE  /\ CeilDiv(ms, unit) \in Nat
           /\ CeilDiv(ms, unit) * unit <= ms + unit - 1
<1> DEFINE a == ms + unit - 1
<1>1. a \in Nat
  OBVIOUS
<1> HIDE DEF a
<1>2. a \div unit \in Nat /\ (a \div unit) * unit <= a
  BY <1>1
<1> QED
  BY <1>2 DEF CeilDiv, a

\* One second before the announced time, the first of the stored stamps has not
\* left the window.
LEMMA SecondsFacts ==
    ASSUME Recorded, Remembered, NEW k \in Keys
    PROVE  /\ RetryAfterSeconds(k) \in Nat
           /\ now + (RetryAfterSeconds(k) - 1) * Second <= Stamps(k)[1] + Window[k]
<1> DEFINE u == Cut(Filter(Stored(k), k), k)
           first == Stamps(k)[1]
           ms == first + Window[k] - now
           q == CeilDiv(ms, Second)
<1>1. /\ u \in Seq(Nat) /\ Len(u) \in Nat
      /\ \A i \in 1 .. Len(u) : now - u[i] <= Window[k]
  BY CutFacts, LenProperties DEF Latest
<1>2. now \in Nat /\ Window[k] \in Nat /\ Second \in Nat \ {0}
  BY RateLimiterAssumption DEF Recorded
<1>3. Stamps(k) = Append(u, now)
  BY DEF Stamps
<1> HIDE DEF u
<1>4. first \in Nat /\ now - first <= Window[k]
  <2>1. /\ \A i \in 1 .. Len(u) : Stamps(k)[i] = u[i]
        /\ Stamps(k)[Len(u) + 1] = now
    BY <1>1, <1>2, <1>3, AppendProperties
  <2>2. CASE Len(u) = 0
    BY <1>2, <2>1, <2>2
  <2>3. CASE Len(u) # 0
    <3>1. 1 \in 1 .. Len(u)
      BY <1>1, <2>3
    <3>2. first = u[1] /\ u[1] \in Nat
      BY <1>1, <2>1, <3>1, ElementOfSeq
    <3> QED
      BY <1>1, <3>1, <3>2
  <2> QED
    BY <2>2, <2>3
<1>5. RetryAfterSeconds(k) = CeilDiv(IF ms > 0 THEN ms ELSE 0, Second)
  BY DEF RetryAfterSeconds
<1> HIDE DEF first
<1>6. ms \in Nat /\ (IF ms > 0 THEN ms ELSE 0) = ms
  BY <1>2, <1>4
<1>7. q \in Nat /\ q * Second <= ms + Second - 1
  BY <1>2, <1>6, CeilDivFacts
<1>8. RetryAfterSeconds(k) = q
  BY <1>5, <1>6
<1> HIDE DEF q
<1>9. (q - 1) * Second = q * Second - Second /\ q * Second \in Nat
  BY <1>2, <1>7
<1>10. now + (q - 1) * Second <= first + Window[k]
  BY <1>2, <1>4, <1>7, <1>9
<1> QED
  BY <1>7, <1>8, <1>10 DEF first

\* Until the announced time, more attempts than the limit stay in the window.
Hinted ==
    /\ hint \in [Keys -> [at : Nat, seconds : Nat] \cup {NoHint}]
    /\ \A k \in Keys : hint[k] # NoHint =>
          \E p \in DOMAIN attempts[k] :
              /\ Limit[k] < Len(attempts[k]) - p + 1
              /\ hint[k].at + (hint[k].seconds - 1) * Second <= At(k, p) + Window[k]

\* A denial leaves more than Limit attempts that are in the window until one
\* second before the announced time.
LEMMA CallHint ==
    ASSUME Recorded, Remembered, NEW k \in Keys, isAllowed(k), ~Decision(k)
    PROVE  \E p \in DOMAIN attempts'[k] :
              /\ Limit[k] < Len(attempts'[k]) - p + 1
              /\ now + (RetryAfterSeconds(k) - 1) * Second
                    <= attempts'[k][p].at + Window[k]
<1> DEFINE s == Stamps(k)
           N == Len(attempts'[k])
           p == N - Len(s) + 1
<1>1. lru'.item[k].value = s
  <2>1. lru'.item[k] = Entry(Stamps(k), Ttl, now)
    BY CallMap
  <2> QED
    BY <2>1 DEF Entry
<1>2. /\ s \in Seq(Nat) /\ Len(s) > 0 /\ Len(s) <= N
      /\ \A i \in 1 .. Len(s) : s[i] = attempts'[k][N - Len(s) + i].at
  <2>1. Remembers(k)'
    BY CallRemembers
  <2> QED
    BY <1>1, <2>1 DEF Remembers, Latest
<1>3. Len(s) > Limit[k]
  <2>1. Len(s) \in Nat /\ Limit[k] \in Nat
    BY <1>2, LenProperties, RateLimiterAssumption
  <2> QED
    BY <2>1 DEF Decision
<1>4. attempts'[k] \in Seq([at : Nat, allowed : BOOLEAN])
  BY CallAttempts
<1>5. now + (RetryAfterSeconds(k) - 1) * Second <= s[1] + Window[k]
  BY SecondsFacts
<1>6. /\ N \in Nat /\ DOMAIN attempts'[k] = 1 .. N
      /\ Len(s) \in Nat /\ Limit[k] \in Nat
  BY <1>2, <1>4, LenProperties, RateLimiterAssumption
<1> HIDE DEF s, N
<1>7. p \in 1 .. N /\ Limit[k] < N - p + 1 /\ 1 \in 1 .. Len(s)
  BY <1>2, <1>3, <1>6
<1>8. s[1] = attempts'[k][p].at
  BY <1>2, <1>7
<1> HIDE DEF p
<1> QED
  BY <1>5, <1>6, <1>7, <1>8 DEF N

\* A hint stands as long as the attempts it was computed from.
LEMMA HintedNext == Inv /\ Hinted /\ [Next]_vars => Hinted'
<1> SUFFICES ASSUME Inv, Hinted, [Next]_vars PROVE Hinted'
  OBVIOUS
<1>1. CASE UNCHANGED <<attempts, hint>>
  BY <1>1 DEF Hinted
<1>2. Tick \/ UNCHANGED vars => UNCHANGED <<attempts, hint>>
  BY DEF Tick, vars
<1>3. ASSUME NEW k \in Keys, isAllowed(k) PROVE Hinted'
  <2>1. Recorded /\ Remembered /\ now \in Nat
    BY DEF Inv, Recorded
  <2> DEFINE denial == [at |-> now, seconds |-> RetryAfterSeconds(k)]
  <2>2. denial \in [at : Nat, seconds : Nat]
    BY <2>1, SecondsFacts
  <2>3. hint' = [j \in Keys |->
              IF j = k THEN IF Decision(k) THEN NoHint ELSE denial
              ELSE IF j \in Lost(k) THEN NoHint ELSE hint[j]]
    BY <1>3 DEF isAllowed
  <2>4. denial.at = now /\ denial.seconds = RetryAfterSeconds(k)
    OBVIOUS
  <2> HIDE DEF denial
  <2>5. hint' \in [Keys -> [at : Nat, seconds : Nat] \cup {NoHint}]
    BY <2>2, <2>3 DEF Hinted
  <2>6. ASSUME NEW j \in Keys, hint'[j] # NoHint
        PROVE  \E p \in DOMAIN attempts'[j] :
                  /\ Limit[j] < Len(attempts'[j]) - p + 1
                  /\ hint'[j].at + (hint'[j].seconds - 1) * Second
                        <= attempts'[j][p].at + Window[j]
    <3>1. CASE j = k
      <4>1. ~Decision(k) /\ hint'[k] = denial
        BY <2>3, <2>6, <3>1
      <4>2. hint'[k].at = now /\ hint'[k].seconds = RetryAfterSeconds(k)
        BY <2>4, <4>1
      <4>3. \E p \in DOMAIN attempts'[k] :
                /\ Limit[k] < Len(attempts'[k]) - p + 1
                /\ now + (RetryAfterSeconds(k) - 1) * Second
                      <= attempts'[k][p].at + Window[k]
        BY <1>3, <2>1, <4>1, CallHint
      <4> QED
        BY <3>1, <4>2, <4>3
    <3>2. CASE j # k
      <4>1. j \notin Lost(k) /\ hint'[j] = hint[j]
        BY <2>3, <2>6, <3>2
      <4>2. attempts'[j] = attempts[j]
        BY <1>3, <2>1, <3>2, <4>1, CallAttempts
      <4> QED
        BY <2>6, <4>1, <4>2 DEF Hinted
    <3> QED
      BY <3>1, <3>2
  <2> QED
    BY <2>5, <2>6 DEF Hinted
<1> QED
  BY <1>1, <1>2, <1>3 DEF Next

\* Before the first call there is no hint.
LEMMA HintedInit == Init => Hinted
BY DEF Init, Hinted

\* An attempt that is denied stays denied until one second before the time its
\* answer announced.
LEMMA HintedIsHonest == Inv /\ Hinted => RetryHintIsHonest
<1> SUFFICES ASSUME Inv, Hinted, NEW k \in Keys, hint[k] # NoHint,
                    now <= hint[k].at + (hint[k].seconds - 1) * Second
             PROVE  ~Abstract!WithinLimit(k)
  BY DEF RetryHintIsHonest
<1> DEFINE N == Len(attempts[k])
           W == Abstract!InWindow(k)
           until == hint[k].at + (hint[k].seconds - 1) * Second
<1>1. PICK p \in DOMAIN attempts[k] :
          /\ Limit[k] < N - p + 1
          /\ until <= At(k, p) + Window[k]
  BY DEF Hinted
<1>2. Recorded /\ Remembered
  BY DEF Inv
<1>3. /\ N \in Nat /\ DOMAIN attempts[k] = 1 .. N
      /\ \A i \in 1 .. N : At(k, i) \in Nat
      /\ \A i, j \in 1 .. N : i <= j => At(k, i) <= At(k, j)
  BY <1>2, AttemptFacts
<1>4. now \in Nat /\ Window[k] \in Nat /\ Limit[k] \in Nat /\ Second \in Nat
  BY <1>2, RateLimiterAssumption DEF Recorded
<1>5. until \in Int
  <2>1. hint[k] \in [at : Nat, seconds : Nat]
    BY DEF Hinted
  <2>2. hint[k].at \in Nat /\ hint[k].seconds \in Nat
    BY <2>1
  <2> QED
    BY <1>4, <2>2
<1>6. W = {i \in 1 .. N : now - At(k, i) <= Window[k]} /\ IsFiniteSet(W)
  BY <1>2, <1>3, DecisionFacts DEF Abstract!InWindow
<1>7. now <= until
  OBVIOUS
<1> HIDE DEF N, W, until
<1>8. now <= At(k, p) + Window[k]
  BY <1>1, <1>3, <1>4, <1>5, <1>7
<1>9. p .. N \subseteq W
  <2> SUFFICES ASSUME NEW i \in p .. N PROVE i \in W
    OBVIOUS
  <2>1. i \in 1 .. N /\ At(k, p) <= At(k, i) /\ At(k, p) \in Nat /\ At(k, i) \in Nat
    BY <1>1, <1>3
  <2>2. now - At(k, i) <= Window[k]
    BY <1>4, <1>8, <2>1
  <2> QED
    BY <1>6, <2>1, <2>2
<1>10. Cardinality(p .. N) = N - p + 1
  <2>1. p \in Int /\ N \in Int /\ p <= N
    BY <1>3
  <2> QED
    BY <2>1, FS_Interval
<1>11. Cardinality(p .. N) <= Cardinality(W) /\ Cardinality(W) \in Nat
  BY <1>6, <1>9, FS_Subset, FS_CardinalityType
<1>12. ~(Cardinality(W) + 1 <= Limit[k])
  BY <1>1, <1>3, <1>4, <1>10, <1>11
<1> QED
  BY <1>12, AbstractCardinality DEF Abstract!WithinLimit, W

\* A sequence is one over any set that holds its entries.
LEMMA SequenceOver ==
    ASSUME NEW S, NEW T, NEW s \in Seq(S), \A i \in 1 .. Len(s) : s[i] \in T
    PROVE  s \in Seq(T)
<1>1. Len(s) \in Nat /\ s \in [1 .. Len(s) -> S]
  BY LenProperties
<1> DEFINE n == Len(s)
<1> HIDE DEF n
<1>2. n \in Nat /\ s \in [1 .. n -> T]
  BY <1>1 DEF n
<1> QED
  BY <1>2, SeqDef

\* The invariant says more than the types.
LEMMA InvIsTyped == Inv /\ Hinted => TypeOK
<1> SUFFICES ASSUME Inv, Hinted PROVE TypeOK
  OBVIOUS
<1>1. Recorded /\ Remembered
  BY DEF Inv
<1>2. now \in Nat /\ DOMAIN lru.item \subseteq Keys
  BY <1>1 DEF Recorded, Remembered
<1>3. ASSUME NEW k \in DOMAIN lru.item
      PROVE  /\ lru.item[k].value \in Seq(0 .. now)
             /\ lru.item[k].value # << >>
             /\ lru.item[k].expiry \in Nat
  <2> DEFINE s == lru.item[k].value
             N == Len(attempts[k])
  <2>1. /\ s \in Seq(Nat) /\ Len(s) <= N /\ Len(s) > 0
        /\ \A i \in 1 .. Len(s) : s[i] = At(k, N - Len(s) + i)
        /\ lru.item[k].expiry = IF Ttl > 0 THEN At(k, N) + Ttl ELSE Ttl
    BY <1>1 DEF Remembered, Remembers, Latest
  <2>2. /\ N \in Nat /\ \A i \in 1 .. N : At(k, i) \in Nat /\ At(k, i) <= now
    BY <1>1, <1>2, AttemptFacts
  <2>3. Len(s) \in Nat /\ DOMAIN s = 1 .. Len(s)
    BY <2>1, LenProperties
  <2> HIDE DEF s, N
  <2>4. N \in 1 .. N /\ Ttl \in Nat
    BY <2>1, <2>2, <2>3, RateLimiterAssumption
  <2>5. lru.item[k].expiry \in Nat
    BY <2>1, <2>2, <2>4
  <2>6. \A i \in 1 .. Len(s) : s[i] \in 0 .. now
    <3> SUFFICES ASSUME NEW i \in 1 .. Len(s) PROVE s[i] \in 0 .. now
      OBVIOUS
    <3>1. N - Len(s) + i \in 1 .. N
      BY <2>1, <2>2, <2>3
    <3>2. At(k, N - Len(s) + i) \in Nat /\ At(k, N - Len(s) + i) <= now
      BY <2>2, <3>1
    <3>3. s[i] = At(k, N - Len(s) + i)
      BY <2>1
    <3> QED
      BY <1>2, <3>2, <3>3
  <2>7. s \in Seq(0 .. now) /\ s # << >>
    <3>1. \A i \in 1 .. Len(s) : s[i] \in 0 .. now
      BY <2>6
    <3>3. s \in Seq(0 .. now)
      BY <2>1, <3>1, SequenceOver
    <3> QED
      BY <2>1, <3>3, EmptySeq
  <2> QED
    BY <2>5, <2>7 DEF s
<1>4. lru.order \in Seq(Keys) /\ {lru.order[i] : i \in DOMAIN lru.order} = DOMAIN lru.item
  BY <1>1 DEF Remembered, WellFormed, KeysOf
<1>5. attempts \in [Keys -> Seq([at : 0 .. now, allowed : BOOLEAN])]
  <2>1. ASSUME NEW k \in Keys
        PROVE  attempts[k] \in Seq([at : 0 .. now, allowed : BOOLEAN])
    <3> DEFINE s == attempts[k]
    <3>1. s \in Seq([at : Nat, allowed : BOOLEAN])
      BY <1>1 DEF Recorded
    <3>2. \A i \in 1 .. Len(s) : s[i].at <= now
      BY <1>1, AttemptFacts
    <3> HIDE DEF s
    <3>4. \A i \in 1 .. Len(s) : s[i] \in [at : 0 .. now, allowed : BOOLEAN]
      <4> SUFFICES ASSUME NEW i \in 1 .. Len(s)
                   PROVE  s[i] \in [at : 0 .. now, allowed : BOOLEAN]
        OBVIOUS
      <4>1. s[i] \in [at : Nat, allowed : BOOLEAN]
        BY <3>1, ElementOfSeq
      <4>2. s[i].at \in 0 .. now
        BY <1>2, <3>2, <4>1
      <4> QED
        BY <4>1, <4>2
    <3>5. s \in Seq([at : 0 .. now, allowed : BOOLEAN])
      BY <3>1, <3>4, SequenceOver
    <3> QED
      BY <3>5 DEF s
  <2> QED
    BY <1>1, <2>1 DEF Recorded
<1>6. hint \in [Keys -> [at : Nat, seconds : Nat] \cup {NoHint}]
  BY DEF Hinted
<1> QED
  BY <1>2, <1>3, <1>4, <1>5, <1>6 DEF TypeOK

\* A request that comes back earlier than a second before its Retry-After is
\* denied again: nobody is kept away for nothing.
THEOREM RetryHintsAreHonest == Spec => []RetryHintIsHonest
BY Invariance, HintedInit, HintedNext, HintedIsHonest, PTL DEF Spec

\* The variables of the rate limiter have their types; the two halves of the
\* map name the same keys, and no timestamp lies in the future.
THEOREM TypeCorrect == Spec => []TypeOK
BY Invariance, HintedInit, HintedNext, InvIsTyped, PTL DEF Spec
=============================================================================
