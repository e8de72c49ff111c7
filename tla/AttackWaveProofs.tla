-------------------------- MODULE AttackWaveProofs --------------------------
(***************************************************************************)
(* Proofs about AttackWave, for any addresses, samples, threshold, time    *)
(* frame, time between reports and capacity: its types, that a wave is     *)
(* reported when it is large enough and only then, that no wave is hidden  *)
(* by the report of an older one, that an event tells of its own wave, and *)
(* that reports of one address stand apart.                                *)
(*                                                                         *)
(* The invariant ties the two maps to the history: the entry of an address *)
(* in suspiciousRequests tells the count, the time and the samples of the  *)
(* wave its requests end with (Keeps), that in sentEvents the time of its  *)
(* last report (Remembers), and a report answers every request that was    *)
(* not counted (Answered).  The first part says how a wave changes when a  *)
(* request is added, the second the same for samples and judgements of one *)
(* address, the third what the look-ups and insertions do to the maps.     *)
(***************************************************************************)
EXTENDS AttackWave, LRUOpsProofs, WellFoundedInduction

Record == [at : Nat, sample : Samples, counted : BOOLEAN, reported : BOOLEAN]

\* Of the first i requests of h, those that were counted; whether the counted
\* one at m came soon after the one counted before it.
CountedIn(h, i) == {j \in 1 .. i : h[j].counted}
Before(h, m) == Max(CountedIn(h, m - 1))
Joins(h, m) == h[m].at - h[Before(h, m)].at < TimeFrame

\* The wave the i-th request of h ends.
WaveIn(h, i) == {j \in CountedIn(h, i) : \A m \in CountedIn(h, i) : m > j => Joins(h, m)}
SamplesOf(h, i) == {h[j].sample : j \in WaveIn(h, i)}

-----------------------------------------------------------------------------
(* Waves, in the requests of one address.                                  *)

\* A set of natural numbers that is not empty has a smallest one.
LEMMA Smallest ==
    ASSUME NEW T \in SUBSET Nat, T # {}
    PROVE  \E i \in T : \A j \in T : i <= j
<1> DEFINE R == OpToRel(<, Nat)
<1>1. IsWellFoundedOn(R, Nat)
  BY NatLessThanWellFounded
<1>2. \A x, y \in Nat : <<x, y>> \in R <=> x < y
  BY DEF OpToRel
<1> HIDE DEF R
<1>3. PICK x \in T : \A y \in T : ~ (<<y, x>> \in R)
  BY <1>1, WFMin, Zenon
<1>4. ASSUME NEW y \in T PROVE x <= y
  <2>1. x \in Nat /\ y \in Nat /\ ~ (y < x)
    BY <1>2, <1>3
  <2>2. QED
    BY <2>1
<1>5. QED
  BY <1>4

\* Max is the largest of some numbers that are bounded.
LEMMA Largest ==
    ASSUME NEW n \in Nat, NEW T \in SUBSET (1 .. n), T # {}
    PROVE  Max(T) \in T /\ \A j \in T : Max(T) >= j
<1> DEFINE U == {u \in Nat : \A j \in T : j <= u}
<1>1. U \in SUBSET Nat /\ U # {}
  BY DEF U
<1> HIDE DEF U
<1>2. PICK u \in U : \A v \in U : u <= v
  BY <1>1, Smallest
<1>3. u \in Nat /\ \A j \in T : j <= u
  BY <1>2 DEF U
<1>4. u \in T
  <2>1. SUFFICES ASSUME u \notin T
                 PROVE  FALSE
    OBVIOUS
  <2>2. \A j \in T : j <= u - 1 /\ j >= 1
    BY <1>3, <2>1
  <2>3. u - 1 \in U
    <3>1. u - 1 \in Nat
      <4>1. PICK j \in T : TRUE
        OBVIOUS
      <4>2. j \in Nat /\ j <= u - 1 /\ j >= 1
        BY <2>2, <4>1
      <4>3. QED
        BY <1>3, <4>2
    <3>2. QED
      BY <2>2, <3>1 DEF U
  <2>4. QED
    BY <1>2, <1>3, <2>3
<1>5. \E x \in T : \A j \in T : x >= j
  BY <1>3, <1>4
<1>6. QED
  BY <1>5 DEF Max

\* The largest number added to a set is its Max.
LEMMA LargestAdded ==
    ASSUME NEW n \in Nat, NEW T \in SUBSET (1 .. n)
    PROVE  Max(T \cup {n + 1}) = n + 1
<1> DEFINE V == T \cup {n + 1}
<1>1. V \in SUBSET (1 .. n + 1) /\ V # {} /\ n + 1 \in Nat /\ n + 1 \in V
  OBVIOUS
<1>2. \A j \in V : j \in 1 .. n + 1
  BY <1>1
<1> HIDE DEF V
<1>3. Max(V) \in V /\ \A j \in V : Max(V) >= j
  BY <1>1, Largest
<1>4. Max(V) \in 1 .. n + 1 /\ Max(V) >= n + 1
  BY <1>1, <1>2, <1>3
<1>5. Max(V) = n + 1
  BY <1>4
<1>6. QED
  BY <1>5 DEF V

\* What was counted among the first i + 1, from the first i.
LEMMA CountedNext ==
    ASSUME NEW h, NEW i \in Nat
    PROVE  /\ h[i + 1].counted => CountedIn(h, i + 1) = CountedIn(h, i) \cup {i + 1}
           /\ ~ h[i + 1].counted => CountedIn(h, i + 1) = CountedIn(h, i)
<1>1. 1 .. i + 1 = (1 .. i) \cup {i + 1}
  OBVIOUS
<1>2. QED
  BY <1>1, Zenon DEF CountedIn

\* The wave is empty only where nothing was counted, and ends with what was
\* counted last.
LEMMA WaveEnds ==
    ASSUME NEW h, NEW i \in Nat, CountedIn(h, i) # {}
    PROVE  Max(CountedIn(h, i)) \in WaveIn(h, i)
<1>1. CountedIn(h, i) \in SUBSET (1 .. i)
  BY DEF CountedIn
<1> DEFINE C == CountedIn(h, i)
<1> HIDE DEF C
<1>2. Max(C) \in C /\ \A j \in C : Max(C) >= j
  BY <1>1, Largest DEF C
<1>3. \A m \in C : ~(m > Max(C))
  BY <1>1, <1>2 DEF C
<1>4. QED
  BY <1>2, <1>3 DEF C, WaveIn

\* A request that is not counted leaves the wave as it was.
LEMMA WaveStays ==
    ASSUME NEW h, NEW i \in Nat, ~ h[i + 1].counted
    PROVE  WaveIn(h, i + 1) = WaveIn(h, i)
BY CountedNext DEF WaveIn

\* A counted request joins the wave, or starts a new one.
LEMMA WaveGrows ==
    ASSUME NEW h, NEW i \in Nat, h[i + 1].counted, Joins(h, i + 1)
    PROVE  WaveIn(h, i + 1) = WaveIn(h, i) \cup {i + 1}
<1> DEFINE C == CountedIn(h, i)
           D == CountedIn(h, i + 1)
<1>1. D = C \cup {i + 1}
  BY CountedNext
<1>2. \A j \in C : j \in 1 .. i
  BY DEF CountedIn
<1>3. WaveIn(h, i + 1) = {j \in D : \A m \in D : m > j => Joins(h, m)}
  BY DEF WaveIn
<1>4. WaveIn(h, i) = {j \in C : \A m \in C : m > j => Joins(h, m)}
  BY DEF WaveIn
<1> HIDE DEF C, D
<1>5. \A m \in D : ~(m > i + 1)
  BY <1>1, <1>2
<1>6. i + 1 \in D /\ \A j \in D : j \in C \/ j = i + 1
  BY <1>1
<1>7. QED
  BY <1>1, <1>3, <1>4, <1>5, <1>6

\* A counted request that does not join a wave is one of its own.
LEMMA WaveStarts ==
    ASSUME NEW h, NEW i \in Nat, h[i + 1].counted,
           CountedIn(h, i) = {} \/ ~Joins(h, i + 1)
    PROVE  WaveIn(h, i + 1) = {i + 1}
<1> DEFINE C == CountedIn(h, i)
           D == CountedIn(h, i + 1)
<1>1. D = C \cup {i + 1}
  BY CountedNext
<1>2. \A j \in C : j \in 1 .. i
  BY DEF CountedIn
<1>3. WaveIn(h, i + 1) = {j \in D : \A m \in D : m > j => Joins(h, m)}
  BY DEF WaveIn
<1>4. C = {} \/ ~Joins(h, i + 1)
  OBVIOUS
<1> HIDE DEF C, D
<1>5. \A m \in D : ~(m > i + 1)
  BY <1>1, <1>2
<1>6. \A j \in C : i + 1 > j
  BY <1>2
<1>7. QED
  BY <1>1, <1>3, <1>4, <1>5, <1>6

\* What two lists have in common has the same waves.
LEMMA WavesOfPrefix ==
    ASSUME NEW h, NEW g, NEW i \in Nat, \A j \in 1 .. i : g[j] = h[j]
    PROVE  /\ CountedIn(g, i) = CountedIn(h, i)
           /\ WaveIn(g, i) = WaveIn(h, i)
           /\ SamplesOf(g, i) = SamplesOf(h, i)
<1>1. \A m \in 0 .. i : CountedIn(g, m) = CountedIn(h, m)
  BY DEF CountedIn
<1>2. \A j, m \in CountedIn(h, i) : m > j => (Joins(g, m) <=> Joins(h, m))
  <2> SUFFICES ASSUME NEW j \in CountedIn(h, i), NEW m \in CountedIn(h, i), m > j
               PROVE  Joins(g, m) <=> Joins(h, m)
    OBVIOUS
  <2>1. m \in 1 .. i /\ m - 1 \in 0 .. i /\ j \in 1 .. m - 1
    BY DEF CountedIn
  <2> DEFINE C == CountedIn(h, m - 1)
  <2>2. j \in C /\ C \in SUBSET (1 .. m - 1) /\ CountedIn(g, m - 1) = C
    BY <1>1, <2>1 DEF CountedIn
  <2> HIDE DEF C
  <2>3. Max(C) \in C
    <3>1. m - 1 \in Nat /\ C # {}
      BY <2>1, <2>2
    <3>2. QED
      BY <2>2, <3>1, Largest
  <2>4. Max(C) \in 1 .. i
    <3>1. Max(C) \in 1 .. m - 1
      BY <2>2, <2>3
    <3>2. QED
      BY <2>1, <3>1
  <2>5. g[m] = h[m] /\ g[Max(C)] = h[Max(C)]
    BY <2>1, <2>4
  <2>6. Before(g, m) = Max(C) /\ Before(h, m) = Max(C)
    BY <2>2 DEF Before, C
  <2>7. QED
    BY <2>5, <2>6 DEF Joins
<1>3. CountedIn(g, i) = CountedIn(h, i)
  BY <1>1
<1> DEFINE C == CountedIn(h, i)
<1>4. WaveIn(g, i) = {j \in C : \A m \in C : m > j => Joins(g, m)}
  BY <1>3 DEF WaveIn
<1>5. WaveIn(h, i) = {j \in C : \A m \in C : m > j => Joins(h, m)}
  BY DEF WaveIn
<1>6. C \subseteq 1 .. i
  BY DEF CountedIn
<1> HIDE DEF C
<1>7. WaveIn(g, i) = WaveIn(h, i)
  BY <1>2, <1>4, <1>5 DEF C
<1>8. WaveIn(h, i) \subseteq 1 .. i
  BY <1>5, <1>6
<1>9. SamplesOf(g, i) = SamplesOf(h, i)
  BY <1>7, <1>8 DEF SamplesOf
<1>10. QED
  BY <1>3, <1>7, <1>9

\* samples are some of the set of, without repetition, as many as are kept.
Tells(of, samples) ==
    /\ samples \in Seq(Samples)
    /\ IsInjective(samples)
    /\ KeysOf(samples) \subseteq of
    /\ Len(samples) = IF Cardinality(of) < MaxSamples THEN Cardinality(of) ELSE MaxSamples

\* The requests are in the order of their times, none of them later than t.
Ordered(h, t) ==
    /\ \A i \in DOMAIN h : 1 <= h[i].at /\ h[i].at <= t
    /\ \A i, j \in DOMAIN h : i < j => h[i].at <= h[j].at

\* The first n numbers are n.
LEMMA FirstNumbers ==
    ASSUME NEW n \in Nat
    PROVE  IsFiniteSet(1 .. n) /\ Cardinality(1 .. n) = n
BY FS_Interval

\* A wave is finite.
LEMMA WaveIsFinite ==
    ASSUME NEW h, NEW i \in Nat
    PROVE  /\ WaveIn(h, i) \subseteq 1 .. i
           /\ IsFiniteSet(WaveIn(h, i)) /\ Cardinality(WaveIn(h, i)) \in Nat
           /\ Cardinality(WaveIn(h, i)) <= i
           /\ IsFiniteSet(SamplesOf(h, i)) /\ Cardinality(SamplesOf(h, i)) \in Nat
<1> DEFINE W == WaveIn(h, i)
<1>1. W \subseteq 1 .. i
  BY DEF WaveIn, CountedIn
<1>2. IsFiniteSet(1 .. i) /\ Cardinality(1 .. i) = i
  BY FirstNumbers
<1>3. SamplesOf(h, i) = {h[j].sample : j \in W}
  BY DEF SamplesOf
<1> HIDE DEF W
<1>4. IsFiniteSet(W) /\ Cardinality(W) <= Cardinality(1 .. i)
  BY <1>1, <1>2, FS_Subset
<1>5. Cardinality(W) \in Nat /\ Cardinality(1 .. i) \in Nat
  BY <1>2, <1>4, FS_CardinalityType
<1>6. IsFiniteSet(SamplesOf(h, i))
  <2> DEFINE f == [j \in W |-> h[j].sample]
             T == {h[j].sample : j \in W}
  <2>1. f \in Surjection(W, T)
    BY DEF Surjection
  <2> HIDE DEF f, T
  <2>2. IsFiniteSet(T)
    BY <1>4, <2>1, FS_Surjection
  <2>3. QED
    BY <1>3, <2>2 DEF T
<1>7. Cardinality(SamplesOf(h, i)) \in Nat
  BY <1>6, FS_CardinalityType
<1>8. Cardinality(W) <= i
  BY <1>2, <1>4, <1>5
<1>9. QED
  BY <1>1, <1>4, <1>5, <1>6, <1>7, <1>8 DEF W

\* A request is added behind those before it.
LEMMA Appended ==
    ASSUME NEW h \in Seq(Record), NEW x \in Record, NEW g, g = Append(h, x),
           NEW n, n = Len(h)
    PROVE  /\ n \in Nat /\ DOMAIN h = 1 .. n
           /\ g \in Seq(Record) /\ Len(g) = n + 1 /\ DOMAIN g = 1 .. n + 1
           /\ g[n + 1] = x
           /\ \A j \in 1 .. n : g[j] = h[j] /\ h[j] \in Record
<1>1. n \in Nat /\ DOMAIN h = 1 .. n
  BY LenProperties
<1>2. /\ g \in Seq(Record) /\ Len(g) = n + 1
      /\ \A j \in 1 .. Len(h) + 1 : g[j] = IF j <= Len(h) THEN h[j] ELSE x
  BY AppendProperties
<1>3. DOMAIN g = 1 .. n + 1
  BY <1>2, LenProperties
<1>4. \A j \in 1 .. n : h[j] \in Record
  BY ElementOfSeq
<1>5. ~(n + 1 <= n) /\ n + 1 \in 1 .. n + 1 /\ \A j \in 1 .. n : j \in 1 .. n + 1 /\ j <= n
  BY <1>1
<1> QED
  BY <1>1, <1>2, <1>3, <1>4, <1>5

\* and keeps the order.
LEMMA OrderKept ==
    ASSUME NEW h \in Seq(Record), NEW x \in Record, NEW t \in Nat, Ordered(h, t),
           x.at = t, t >= 1
    PROVE  Ordered(Append(h, x), t)
<1> DEFINE g == Append(h, x)
           n == Len(h)
<1>1. /\ n \in Nat /\ DOMAIN h = 1 .. n
      /\ DOMAIN g = 1 .. n + 1
      /\ g[n + 1] = x
      /\ \A j \in 1 .. n : g[j] = h[j] /\ h[j] \in Record
  BY Appended
<1> HIDE DEF g, n
<1>2. \A j \in 1 .. n : h[j].at \in Nat /\ 1 <= h[j].at /\ h[j].at <= t
  BY <1>1 DEF Ordered, Record
<1>3. \A j \in 1 .. n : g[j].at = h[j].at
  BY <1>1
<1>4. g[n + 1].at = t
  BY <1>1
<1>5. \A j \in 1 .. n + 1 : j \in 1 .. n \/ j = n + 1
  BY <1>1
<1>6. \A i \in DOMAIN g : 1 <= g[i].at /\ g[i].at <= t
  BY <1>1, <1>2, <1>3, <1>4, <1>5
<1>7. ASSUME NEW i \in DOMAIN g, NEW j \in DOMAIN g, i < j PROVE g[i].at <= g[j].at
  <2>1. i \in 1 .. n
    BY <1>1, <1>7
  <2>2. CASE j \in 1 .. n
    BY <1>1, <1>3, <1>7, <2>1, <2>2 DEF Ordered
  <2>3. CASE j = n + 1
    BY <1>2, <1>3, <1>4, <2>1, <2>3
  <2>4. QED
    BY <1>1, <1>5, <2>2, <2>3
<1>8. Ordered(g, t)
  BY <1>6, <1>7 DEF Ordered
<1>9. QED
  BY <1>8 DEF g

\* The waves of the requests before are what they were.
LEMMA OldWaves ==
    ASSUME NEW h \in Seq(Record), NEW x \in Record, NEW g, g = Append(h, x),
           NEW i \in 0 .. Len(h)
    PROVE  /\ CountedIn(g, i) = CountedIn(h, i)
           /\ WaveIn(g, i) = WaveIn(h, i)
           /\ SamplesOf(g, i) = SamplesOf(h, i)
<1> DEFINE n == Len(h)
<1>1. n \in Nat /\ \A j \in 1 .. n : g[j] = h[j]
  BY Appended
<1>2. i \in Nat /\ i <= n
  BY <1>1
<1> HIDE DEF n
<1>3. \A j \in 1 .. i : g[j] = h[j]
  BY <1>1, <1>2
<1>4. QED
  BY <1>2, <1>3, WavesOfPrefix

\* A request that is not counted.
LEMMA UncountedHit ==
    ASSUME NEW h \in Seq(Record), NEW x \in Record, x.counted = FALSE
    PROVE  LET g == Append(h, x)
               n == Len(h)
           IN  /\ CountedIn(g, n + 1) = CountedIn(h, n)
               /\ WaveIn(g, n + 1) = WaveIn(h, n)
               /\ SamplesOf(g, n + 1) = SamplesOf(h, n)
<1> DEFINE g == Append(h, x)
           n == Len(h)
<1>1. n \in Nat /\ n \in 0 .. Len(h) /\ g[n + 1] = x /\ \A j \in 1 .. n : g[j] = h[j]
  BY Appended
<1>2. CountedIn(g, n) = CountedIn(h, n) /\ WaveIn(g, n) = WaveIn(h, n)
      /\ SamplesOf(g, n) = SamplesOf(h, n)
  BY <1>1, OldWaves
<1>3. ~ g[n + 1].counted
  BY <1>1
<1> HIDE DEF g
<1>4. CountedIn(g, n + 1) = CountedIn(g, n) /\ WaveIn(g, n + 1) = WaveIn(g, n)
  BY <1>1, <1>3, CountedNext, WaveStays
<1>5. SamplesOf(g, n + 1) = SamplesOf(g, n)
  BY <1>4 DEF SamplesOf
<1>6. QED
  BY <1>2, <1>4, <1>5 DEF g

\* Whether a request that is counted at t follows the wave closely.
Follows(h, t) ==
    /\ CountedIn(h, Len(h)) # {}
    /\ t - h[Max(CountedIn(h, Len(h)))].at < TimeFrame

\* A request that is counted.
LEMMA CountedHit ==
    ASSUME NEW h \in Seq(Record), NEW x \in Record, x.counted = TRUE
    PROVE  LET g == Append(h, x)
               n == Len(h)
           IN  /\ CountedIn(g, n + 1) # {} /\ Max(CountedIn(g, n + 1)) = n + 1
               /\ Follows(h, x.at) =>
                     /\ WaveIn(g, n + 1) = WaveIn(h, n) \cup {n + 1}
                     /\ SamplesOf(g, n + 1) = SamplesOf(h, n) \cup {x.sample}
               /\ ~Follows(h, x.at) =>
                     WaveIn(g, n + 1) = {n + 1} /\ SamplesOf(g, n + 1) = {x.sample}
<1> DEFINE g == Append(h, x)
           n == Len(h)
<1>1. n \in Nat /\ n \in 0 .. Len(h) /\ g[n + 1] = x /\ \A j \in 1 .. n : g[j] = h[j]
  BY Appended
<1>2. CountedIn(g, n) = CountedIn(h, n) /\ WaveIn(g, n) = WaveIn(h, n)
      /\ SamplesOf(g, n) = SamplesOf(h, n)
  BY <1>1, OldWaves
<1>3. g[n + 1].counted
  BY <1>1
<1> HIDE DEF g
<1>4. CountedIn(h, n) \in SUBSET (1 .. n)
  BY DEF CountedIn
<1>5. CountedIn(g, n + 1) = CountedIn(h, n) \cup {n + 1}
  <2>1. CountedIn(g, n + 1) = CountedIn(g, n) \cup {n + 1}
    BY <1>1, <1>3, CountedNext
  <2>2. QED
    BY <1>2, <2>1
<1>6. CountedIn(g, n + 1) # {} /\ Max(CountedIn(g, n + 1)) = n + 1
  BY <1>1, <1>4, <1>5, LargestAdded
<1>7. Follows(h, x.at) <=> CountedIn(g, n) # {} /\ Joins(g, n + 1)
  <2>1. CASE CountedIn(h, n) = {}
    BY <1>2, <2>1 DEF Follows
  <2>2. CASE CountedIn(h, n) # {}
    <3> DEFINE M == Max(CountedIn(h, n))
    <3>1. M \in 1 .. n
      BY <1>1, <1>4, <2>2, Largest
    <3>2. (n + 1) - 1 = n
      BY <1>1
    <3>3. Before(g, n + 1) = M
      BY <1>2, <3>2 DEF Before
    <3>4. Follows(h, x.at) <=> x.at - h[M].at < TimeFrame
      BY <2>2 DEF Follows
    <3> HIDE DEF M
    <3>5. g[M] = h[M]
      BY <1>1, <3>1
    <3>6. QED
      BY <1>1, <1>2, <2>2, <3>3, <3>4, <3>5 DEF Joins
  <2>3. QED
    BY <2>1, <2>2
<1>8. ASSUME Follows(h, x.at)
      PROVE  /\ WaveIn(g, n + 1) = WaveIn(h, n) \cup {n + 1}
             /\ SamplesOf(g, n + 1) = SamplesOf(h, n) \cup {x.sample}
  <2>1. WaveIn(g, n + 1) = WaveIn(g, n) \cup {n + 1}
    BY <1>1, <1>3, <1>7, <1>8, WaveGrows
  <2>2. SamplesOf(g, n + 1) = {g[j].sample : j \in WaveIn(g, n)} \cup {g[n + 1].sample}
    BY <2>1 DEF SamplesOf
  <2>3. QED
    BY <1>1, <1>2, <2>1, <2>2 DEF SamplesOf
<1>9. ASSUME ~Follows(h, x.at)
      PROVE  WaveIn(g, n + 1) = {n + 1} /\ SamplesOf(g, n + 1) = {x.sample}
  <2>1. WaveIn(g, n + 1) = {n + 1}
    BY <1>1, <1>3, <1>7, <1>9, WaveStarts
  <2>2. QED
    BY <1>1, <2>1 DEF SamplesOf
<1>10. QED
  BY <1>6, <1>8, <1>9 DEF g

\* As many members as places, when none is there twice.
LEMMA RangeSize ==
    ASSUME NEW S, NEW s \in Seq(S), IsInjective(s)
    PROVE  IsFiniteSet(KeysOf(s)) /\ Cardinality(KeysOf(s)) = Len(s)
<1> DEFINE n == Len(s)
           T == KeysOf(s)
<1>1. n \in Nat /\ DOMAIN s = 1 .. n /\ s \in [1 .. n -> S]
  BY LenProperties
<1>2. T = {s[i] : i \in 1 .. n}
  BY <1>1 DEF KeysOf
<1> HIDE DEF n, T
<1>3. s \in Surjection(1 .. n, T) /\ s \in Injection(1 .. n, T)
  BY <1>1, <1>2 DEF Surjection, Injection, IsInjective
<1>4. IsFiniteSet(1 .. n) /\ Cardinality(1 .. n) = n
  BY <1>1, FirstNumbers
<1>5. IsFiniteSet(T) /\ Cardinality(T) = Cardinality(1 .. n)
  BY <1>3, <1>4, FS_Surjection
<1>6. QED
  BY <1>4, <1>5 DEF n, T

\* Nothing is told of nothing.
LEMMA NothingTold == Tells({}, << >>)
<1>1. << >> \in Seq(Samples) /\ Len(<< >>) = 0 /\ DOMAIN << >> = {}
  BY EmptySeq
<1>2. MaxSamples \in Nat
  BY AttackWaveAssumption
<1>3. Cardinality({}) = 0
  BY FS_EmptySet
<1>4. KeysOf(<< >>) = {}
  BY <1>1 DEF KeysOf
<1>5. QED
  BY <1>1, <1>2, <1>3, <1>4 DEF Tells, IsInjective

\* trackSample keeps another sample unless it has it already, or has enough.
LEMMA TrackFacts ==
    ASSUME NEW of, IsFiniteSet(of), NEW samples, Tells(of, samples), NEW sample \in Samples
    PROVE  Tells(of \cup {sample}, trackSample(sample, samples))
<1> DEFINE t == trackSample(sample, samples)
           all == of \cup {sample}
           n == Len(samples)
           c == Cardinality(of)
           d == Cardinality(all)
<1>1. MaxSamples \in Nat
  BY AttackWaveAssumption
<1>2. c \in Nat /\ d = IF sample \in of THEN c ELSE c + 1
  BY FS_AddElement, FS_CardinalityType
<1>3. /\ samples \in Seq(Samples) /\ IsInjective(samples) /\ KeysOf(samples) \subseteq of
      /\ n = IF c < MaxSamples THEN c ELSE MaxSamples
  BY DEF Tells
<1>4. n \in Nat /\ DOMAIN samples = 1 .. n
  BY <1>3, LenProperties
<1>5. IsFiniteSet(KeysOf(samples)) /\ Cardinality(KeysOf(samples)) = n
  BY <1>3, RangeSize
<1>6. Contains(samples, sample) <=> sample \in KeysOf(samples)
  BY <1>4 DEF Contains, KeysOf
<1>7. KeysOf(samples) \subseteq all
  BY <1>3
<1> HIDE DEF c, d
<1>8. CASE n >= MaxSamples
  <2>1. t = samples
    BY <1>8 DEF trackSample
  <2>2. n = IF d < MaxSamples THEN d ELSE MaxSamples
    BY <1>1, <1>2, <1>3, <1>4, <1>8
  <2>3. QED
    BY <1>3, <1>7, <2>1, <2>2 DEF Tells, d
<1>9. CASE sample \in KeysOf(samples)
  <2>1. t = samples
    BY <1>6, <1>9 DEF trackSample
  <2>2. d = c
    BY <1>2, <1>3, <1>9
  <2>3. QED
    BY <1>3, <1>7, <2>1, <2>2 DEF Tells, d
<1>10. CASE ~(n >= MaxSamples) /\ sample \notin KeysOf(samples)
  <2>1. t = Append(samples, sample)
    BY <1>6, <1>10 DEF trackSample
  <2>2. n = c
    BY <1>1, <1>2, <1>3, <1>4, <1>10
  <2>3. KeysOf(samples) = of
    BY <1>3, <1>5, <2>2, FS_Subset DEF c
  <2>4. d = c + 1
    BY <1>2, <1>10, <2>3
  <2>5. \A i, j \in DOMAIN samples : samples[i] = samples[j] => i = j
    BY <1>3 DEF IsInjective
  <2>6. /\ t \in Seq(Samples)
        /\ \A i, j \in DOMAIN t : t[i] = t[j] => i = j
        /\ KeysOf(t) = KeysOf(samples) \cup {sample}
    BY <1>3, <1>10, <2>1, <2>5, AppendFacts
  <2>7. Len(t) = n + 1
    BY <1>3, <2>1, AppendProperties
  <2> HIDE DEF t
  <2>8. Len(t) = IF d < MaxSamples THEN d ELSE MaxSamples
    BY <1>1, <1>2, <1>4, <1>10, <2>2, <2>4, <2>7
  <2>9. QED
    BY <2>3, <2>6, <2>8 DEF Tells, IsInjective, d, t
<1>11. QED
  BY <1>8, <1>9, <1>10

\* Times between two others are no further apart.
LEMMA Closer ==
    ASSUME NEW a \in Nat, NEW b \in Nat, NEW p \in Nat, NEW q \in Nat, NEW d \in Nat,
           a <= p, q <= b, b - a < d
    PROVE  q - p < d
OBVIOUS

\* Requests that are all counted, within one TimeFrame, make one wave.
LEMMA RunIsOneWave ==
    ASSUME NEW t, NEW h \in Seq(Record), Ordered(h, t), NEW a \in DOMAIN h, NEW i \in DOMAIN h,
           \A j \in a .. i : h[j].counted, h[i].at - h[a].at < TimeFrame
    PROVE  a .. i \subseteq WaveIn(h, i)
<1> DEFINE n == Len(h)
<1>1. n \in Nat /\ DOMAIN h = 1 .. n /\ \A j \in 1 .. n : h[j].at \in Nat
  <2>1. n \in Nat /\ DOMAIN h = 1 .. n
    BY LenProperties
  <2>2. \A j \in 1 .. n : h[j] \in Record
    BY ElementOfSeq
  <2>3. QED
    BY <2>1, <2>2 DEF Record
<1>2. a \in 1 .. n /\ i \in 1 .. n
  BY <1>1
<1>3. \A j, m \in 1 .. n : j < m => h[j].at <= h[m].at
  BY <1>1 DEF Ordered
<1>4. TimeFrame \in Nat
  BY AttackWaveAssumption
<1> HIDE DEF n
<1>5. \A j \in a .. i : j \in 1 .. i /\ j \in 1 .. n
  BY <1>1, <1>2
<1>6. \A j \in a .. i : j \in CountedIn(h, i)
  BY <1>5 DEF CountedIn
<1>7. ASSUME NEW j \in a .. i, NEW m \in CountedIn(h, i), m > j
      PROVE  Joins(h, m)
  <2>1. m \in 1 .. i /\ m - 1 \in Nat
    BY DEF CountedIn
  <2>2. m - 1 \in a .. i /\ m \in a .. i /\ m - 1 \in 1 .. m - 1 /\ m - 1 \in 1 .. n /\ m \in 1 .. n
    BY <1>1, <1>2, <1>7, <2>1
  <2>3. m - 1 \in CountedIn(h, m - 1) /\ CountedIn(h, m - 1) \in SUBSET (1 .. m - 1)
    BY <2>2 DEF CountedIn
  <2>4. Before(h, m) \in 1 .. m - 1 /\ Before(h, m) >= m - 1
    BY <2>1, <2>3, Largest DEF Before
  <2>5. Before(h, m) = m - 1
    BY <2>1, <2>4
  <2>6. h[m].at <= h[i].at
    BY <1>1, <1>2, <1>3, <2>1, <2>2
  <2>7. h[a].at <= h[m - 1].at
    BY <1>1, <1>2, <1>3, <2>2
  <2>8. h[m].at \in Nat /\ h[m - 1].at \in Nat /\ h[a].at \in Nat /\ h[i].at \in Nat
    BY <1>1, <1>2, <2>2
  <2>9. h[m].at - h[m - 1].at < TimeFrame
    BY <1>4, <2>6, <2>7, <2>8, Closer
  <2>10. QED
    BY <2>5, <2>9 DEF Joins
<1>8. QED
  BY <1>6, <1>7 DEF WaveIn

\* Every request that was counted was reported iff its wave is large enough.
Judged(h) ==
    \A i \in DOMAIN h :
        h[i].counted => (h[i].reported <=> Cardinality(WaveIn(h, i)) >= Threshold)

\* A request that was not counted came less than MinBetween after the report
\* at r, and none was reported after it.
Answered(h, r) ==
    \A i \in DOMAIN h :
        /\ ~ h[i].counted => r > 0 /\ r + MinBetween > h[i].at
        /\ h[i].reported => r >= h[i].at

\* The entry of ip in lru tells the count, the time and the samples of the
\* wave the requests h end with, none if nothing of them was counted.
Keeps(lru, ip, h) ==
    LET n == Len(h)
        v == lru.item[ip].value
    IN  IF Has(lru, ip)
        THEN /\ CountedIn(h, n) # {}
             /\ lru.item[ip].expiry = h[Max(CountedIn(h, n))].at + TimeFrame
             /\ v.count = Cardinality(WaveIn(h, n))
             /\ Tells(SamplesOf(h, n), v.samples)
        ELSE CountedIn(h, n) = {}

\* The entry of ip in lru tells the time of its last report; where there is
\* none, the report was forgotten or is MinBetween old at t.
Remembers(lru, ip, report, t) ==
    IF Has(lru, ip)
    THEN /\ lru.item[ip].value = report.at /\ report.at > 0
         /\ lru.item[ip].expiry = report.at + MinBetween
    ELSE report.forgotten \/ report.at = 0 \/ t - report.at >= MinBetween

\* The samples are those of the last wave that was reported.
TellsLast(h, samples) ==
    LET at == {i \in DOMAIN h : h[i].reported}
    IN  at # {} => Tells(SamplesOf(h, Max(at)), samples)

-----------------------------------------------------------------------------
(* One step, in the requests of one address.                               *)

\* Judgement, once a request is added that is reported as its wave deserves.
LEMMA JudgedNext ==
    ASSUME NEW h \in Seq(Record), NEW x \in Record, Judged(h), NEW g, g = Append(h, x),
           x.counted => (x.reported <=> Cardinality(WaveIn(g, Len(h) + 1)) >= Threshold)
    PROVE  Judged(g)
<1> DEFINE n == Len(h)
<1>1. /\ n \in Nat /\ DOMAIN h = 1 .. n /\ DOMAIN g = 1 .. n + 1 /\ g[n + 1] = x
      /\ \A j \in 1 .. n : g[j] = h[j]
  BY Appended
<1>2. \A i \in 1 .. n : i \in 0 .. Len(h)
  BY <1>1
<1>3. \A i \in 1 .. n : WaveIn(g, i) = WaveIn(h, i)
  BY <1>2, OldWaves
<1>4. \A i \in 1 .. n + 1 : i \in 1 .. n \/ i = n + 1
  BY <1>1
<1>5. x.counted => (x.reported <=> Cardinality(WaveIn(g, n + 1)) >= Threshold)
  OBVIOUS
<1>6. SUFFICES ASSUME NEW i \in DOMAIN g
               PROVE  g[i].counted =>
                         (g[i].reported <=> Cardinality(WaveIn(g, i)) >= Threshold)
  BY DEF Judged
<1>7. CASE i \in 1 .. n
  BY <1>1, <1>3, <1>7 DEF Judged
<1>8. CASE i = n + 1
  BY <1>1, <1>5, <1>8
<1>9. QED
  BY <1>1, <1>4, <1>7, <1>8

\* The report at r answers one more request.
LEMMA AnsweredNext ==
    ASSUME NEW h \in Seq(Record), NEW x \in Record, NEW r \in Nat, NEW q \in Nat,
           Answered(h, q), q <= r,
           ~ x.counted => r > 0 /\ r + MinBetween > x.at,
           x.reported => r >= x.at
    PROVE  Answered(Append(h, x), r)
<1> DEFINE n == Len(h)
           g == Append(h, x)
<1>1. /\ n \in Nat /\ DOMAIN h = 1 .. n /\ DOMAIN g = 1 .. n + 1 /\ g[n + 1] = x
      /\ \A j \in 1 .. n : g[j] = h[j] /\ h[j] \in Record
  BY Appended
<1> HIDE DEF n, g
<1>2. \A i \in 1 .. n + 1 : i \in 1 .. n \/ i = n + 1
  BY <1>1
<1>3. SUFFICES ASSUME NEW i \in DOMAIN g
               PROVE  /\ ~ g[i].counted => r > 0 /\ r + MinBetween > g[i].at
                      /\ g[i].reported => r >= g[i].at
  BY DEF Answered, g
<1>4. CASE i \in 1 .. n
  <2>1. g[i] = h[i] /\ h[i].at \in Nat
    BY <1>1, <1>4 DEF Record
  <2>2. MinBetween \in Nat
    BY AttackWaveAssumption
  <2>3. /\ ~ h[i].counted => q > 0 /\ q + MinBetween > h[i].at
        /\ h[i].reported => q >= h[i].at
    BY <1>1, <1>4 DEF Answered
  <2>4. q > 0 => r > 0
    OBVIOUS
  <2>5. q + MinBetween > h[i].at => r + MinBetween > h[i].at
    BY <2>1, <2>2
  <2>6. q >= h[i].at => r >= h[i].at
    BY <2>1
  <2>7. QED
    BY <2>1, <2>3, <2>4, <2>5, <2>6
<1>5. CASE i = n + 1
  BY <1>1, <1>5
<1>6. QED
  BY <1>1, <1>2, <1>4, <1>5

\* A later report answers what an earlier one did.
LEMMA AnsweredLater ==
    ASSUME NEW h \in Seq(Record), NEW r \in Nat, NEW q \in Nat, Answered(h, q), q <= r
    PROVE  Answered(h, r)
<1>1. SUFFICES ASSUME NEW i \in DOMAIN h
               PROVE  /\ ~ h[i].counted => r > 0 /\ r + MinBetween > h[i].at
                      /\ h[i].reported => r >= h[i].at
  BY DEF Answered
<1>2. h[i] \in Record
  BY LenProperties, ElementOfSeq
<1>3. h[i].at \in Nat /\ MinBetween \in Nat
  BY <1>2, AttackWaveAssumption DEF Record
<1>4. /\ ~ h[i].counted => q > 0 /\ q + MinBetween > h[i].at
      /\ h[i].reported => q >= h[i].at
  BY DEF Answered
<1>5. q > 0 => r > 0
  OBVIOUS
<1>6. q + MinBetween > h[i].at => r + MinBetween > h[i].at
  BY <1>3
<1>7. q >= h[i].at => r >= h[i].at
  BY <1>3
<1>8. QED
  BY <1>4, <1>5, <1>6, <1>7

\* What an event told of the last reported wave it still tells.
LEMMA TellsStill ==
    ASSUME NEW h \in Seq(Record), NEW x \in Record, NEW samples,
           TellsLast(h, samples), ~ x.reported
    PROVE  TellsLast(Append(h, x), samples)
<1> DEFINE n == Len(h)
           g == Append(h, x)
           R(s) == {i \in DOMAIN s : s[i].reported}
<1>1. /\ n \in Nat /\ DOMAIN h = 1 .. n /\ DOMAIN g = 1 .. n + 1 /\ g[n + 1] = x
      /\ \A j \in 1 .. n : g[j] = h[j]
  BY Appended
<1>2. \A i \in 0 .. n : SamplesOf(g, i) = SamplesOf(h, i)
  BY OldWaves
<1> HIDE DEF n, g
<1>3. \A i \in 1 .. n + 1 : i \in 1 .. n \/ i = n + 1
  BY <1>1
<1>4. R(g) = R(h)
  BY <1>1, <1>3
<1>5. R(h) \in SUBSET (1 .. n)
  BY <1>1
<1>6. ASSUME R(h) # {} PROVE Tells(SamplesOf(g, Max(R(h))), samples)
  <2> DEFINE M == Max(R(h))
  <2>1. Tells(SamplesOf(h, M), samples)
    BY <1>6 DEF TellsLast
  <2>2. M \in R(h)
    BY <1>1, <1>5, <1>6, Largest
  <2> HIDE DEF M
  <2>3. M \in 0 .. n
    BY <1>1, <1>5, <2>2
  <2>4. SamplesOf(g, M) = SamplesOf(h, M)
    BY <1>2, <2>3
  <2>5. QED
    BY <2>1, <2>4 DEF M
<1>7. TellsLast(g, samples)
  BY <1>4, <1>6 DEF TellsLast
<1>8. QED
  BY <1>7 DEF g

\* An event that is sent now tells of the wave reported now.
LEMMA TellsNow ==
    ASSUME NEW h \in Seq(Record), NEW x \in Record, NEW samples, NEW g, g = Append(h, x),
           x.reported, Tells(SamplesOf(g, Len(h) + 1), samples)
    PROVE  TellsLast(g, samples)
<1> DEFINE n == Len(h)
           T == {i \in 1 .. n : g[i].reported}
<1>1. n \in Nat /\ DOMAIN g = 1 .. n + 1 /\ g[n + 1] = x
  BY Appended
<1>2. Tells(SamplesOf(g, n + 1), samples)
  OBVIOUS
<1>3. T \in SUBSET (1 .. n)
  OBVIOUS
<1> HIDE DEF n
<1>4. 1 .. n + 1 = (1 .. n) \cup {n + 1}
  BY <1>1
<1>5. {i \in DOMAIN g : g[i].reported} = T \cup {n + 1}
  BY <1>1, <1>4
<1> HIDE DEF T
<1>6. Max(T \cup {n + 1}) = n + 1
  BY <1>1, <1>3, LargestAdded
<1>7. QED
  BY <1>2, <1>5, <1>6 DEF TellsLast

\* Of an address with no requests on record there is nothing to keep.
LEMMA NoHits ==
    /\ Len(<< >>) = 0 /\ << >> \in Seq(Record)
    /\ CountedIn(<< >>, 0) = {}
    /\ Judged(<< >>)
    /\ \A t : Ordered(<< >>, t)
    /\ \A r : Answered(<< >>, r)
    /\ \A s : TellsLast(<< >>, s)
<1>1. Len(<< >>) = 0 /\ << >> \in Seq(Record) /\ DOMAIN << >> = {}
  BY EmptySeq
<1>2. CountedIn(<< >>, 0) = {}
  BY DEF CountedIn
<1>3. QED
  BY <1>1, <1>2 DEF Judged, Ordered, Answered, TellsLast

\* Nobody records more requests than all do.
LEMMA HitsCounted ==
    ASSUME hits \in [Ips -> Seq(Record)]
    PROVE  TotalHits \in Nat /\ \A ip \in Ips : Len(hits[ip]) <= TotalHits
<1> DEFINE P(ip) == {ip} \X DOMAIN hits[ip]
           F == [ip \in Ips |-> P(ip)]
           PP == {P(ip) : ip \in Ips}
<1>1. \A ip \in Ips : Len(hits[ip]) \in Nat /\ DOMAIN hits[ip] = 1 .. Len(hits[ip])
  BY LenProperties
<1>2. ASSUME NEW ip \in Ips
      PROVE  IsFiniteSet(P(ip)) /\ Cardinality(P(ip)) = Len(hits[ip])
  <2> DEFINE D == 1 .. Len(hits[ip])
             E == {ip}
  <2>1. IsFiniteSet(E) /\ Cardinality(E) = 1
    BY FS_Singleton
  <2>2. IsFiniteSet(D) /\ Cardinality(D) = Len(hits[ip])
    BY <1>1, FirstNumbers
  <2>3. P(ip) = E \X D
    BY <1>1
  <2> HIDE DEF P, D, E
  <2>4. IsFiniteSet(E \X D) /\ Cardinality(E \X D) = Cardinality(E) * Cardinality(D)
    BY <2>1, <2>2, FS_Product
  <2>5. QED
    BY <1>1, <2>1, <2>2, <2>3, <2>4
<1>3. TotalHits = Cardinality(UNION PP)
  BY DEF TotalHits
<1> HIDE DEF P
<1>4. IsFiniteSet(PP)
  <2>1. IsFiniteSet(Ips)
    BY AttackWaveAssumption
  <2>2. F \in Surjection(Ips, PP)
    BY DEF Surjection
  <2> HIDE DEF F, PP
  <2>3. QED
    BY <2>1, <2>2, FS_Surjection
<1>5. \A T \in PP : IsFiniteSet(T)
  BY <1>2
<1>6. \A ip \in Ips : P(ip) \in SUBSET UNION PP
  OBVIOUS
<1> HIDE DEF PP
<1>7. IsFiniteSet(UNION PP)
  BY <1>4, <1>5, FS_UNION
<1>8. \A ip \in Ips : Cardinality(P(ip)) <= Cardinality(UNION PP)
  BY <1>6, <1>7, FS_Subset
<1>9. Cardinality(UNION PP) \in Nat
  BY <1>7, FS_CardinalityType
<1>10. QED
  BY <1>2, <1>3, <1>8, <1>9

\* The requests, reports and event on record.
Recorded ==
    /\ now \in 1 .. MaxTime
    /\ hits \in [Ips -> Seq(Record)]
    /\ reports \in [Ips -> [at : Nat, forgotten : BOOLEAN]]
    /\ event \in [ip : Ips \cup {Missing}, samples : Seq(Samples)]
    /\ \A ip \in Ips : /\ Ordered(hits[ip], now)
                       /\ Len(hits[ip]) <= MaxHits
                       /\ reports[ip].at <= now

\* What suspiciousRequests holds.
Waves ==
    /\ WellFormed(suspiciousRequests, Ips)
    /\ \A ip \in Ips : Judged(hits[ip]) /\ Keeps(suspiciousRequests, ip, hits[ip])

\* What sentEvents holds.
Sent ==
    /\ WellFormed(sentEvents, Ips)
    /\ \A ip \in Ips : /\ Answered(hits[ip], reports[ip].at)
                       /\ Remembers(sentEvents, ip, reports[ip], now)

\* What the cloud was told.
Told == event # NoEvent => event.ip \in Ips /\ TellsLast(hits[event.ip], event.samples)

Inv == Recorded /\ Waves /\ Sent /\ Told

-----------------------------------------------------------------------------
(* The maps.                                                               *)

\* The maps hold entries of finitely many addresses.
LEMMA FinitelyMany ==
    ASSUME NEW lru, WellFormed(lru, Ips)
    PROVE  DOMAIN lru.item \subseteq Ips /\ IsFiniteSet(DOMAIN lru.item)
<1>1. lru.order \in Seq(Ips) /\ DOMAIN lru.item = KeysOf(lru.order)
  BY DEF WellFormed
<1>2. KeysOf(lru.order) \subseteq Ips
  BY <1>1, LenProperties DEF KeysOf
<1>3. IsFiniteSet(Ips)
  BY AttackWaveAssumption
<1>4. DOMAIN lru.item \in SUBSET Ips
  BY <1>1, <1>2
<1>5. QED
  BY <1>3, <1>4, FS_Subset

\* r is m with a new entry of ip, in place of the one that is evicted.
SetTo(r, m, ip, entry) ==
    LET out == Evicted(m, ip, MaxEntries)
    IN  /\ WellFormed(r, Ips)
        /\ out \subseteq DOMAIN m.item \ {ip}
        /\ DOMAIN r.item = (DOMAIN m.item \ out) \cup {ip}
        /\ \A j \in DOMAIN r.item : j # ip => r.item[j] = m.item[j]
        /\ r.item[ip] = entry

\* Setting a key that was just looked up makes its entry, and at most one other goes.
LEMMA SetFound ==
    ASSUME NEW m, WellFormed(m, Ips), NEW ip \in Ips, NEW v, NEW ttl, NEW t,
           NEW r, r = Set(m, ip, v, MaxEntries, ttl, t)
    PROVE  SetTo(r, m, ip, Entry(v, ttl, t))
<1>1. MaxEntries \in Nat /\ IsFiniteSet(DOMAIN m.item)
  BY AttackWaveAssumption, FinitelyMany
<1>2. Evicted(m, ip, MaxEntries) \subseteq DOMAIN m.item \ {ip}
  BY <1>1, SetItems
<1>3. DOMAIN r.item = (DOMAIN m.item \ Evicted(m, ip, MaxEntries)) \cup {ip}
  BY <1>1, SetItems
<1>4. \A j \in DOMAIN r.item : j # ip => r.item[j] = m.item[j]
  BY <1>1, SetItems
<1>5. WellFormed(r, Ips)
  BY <1>1, SetOrder
<1>6. r.item[ip] = Entry(v, ttl, t)
  BY SetEntry
<1>7. QED
  BY <1>2, <1>3, <1>4, <1>5, <1>6 DEF SetTo

\* A look-up drops an entry only once it has expired.
LEMMA SentLookedUp ==
    ASSUME Recorded, Sent, NEW ip \in Ips
    PROVE  /\ WellFormed(AfterSentGet(ip), Ips)
           /\ \A j \in Ips : Remembers(AfterSentGet(ip), j, reports[j], now)
<1> DEFINE r == AfterSentGet(ip)
<1>1. now \in Nat /\ MinBetween \in Nat /\ MinBetween > 0
  BY AttackWaveAssumption DEF Recorded
<1>2. WellFormed(sentEvents, Ips)
  BY DEF Sent
<1>3. /\ WellFormed(r, Ips)
      /\ Has(sentEvents, ip) /\ Expired(sentEvents, ip, MinBetween, now)
            => DOMAIN r.item = DOMAIN sentEvents.item \ {ip}
      /\ ~(Has(sentEvents, ip) /\ Expired(sentEvents, ip, MinBetween, now))
            => DOMAIN r.item = DOMAIN sentEvents.item
      /\ \A j \in DOMAIN r.item : r.item[j] = sentEvents.item[j]
  BY <1>2, GetFacts DEF AfterSentGet
<1> HIDE DEF r
<1>4. ASSUME NEW j \in Ips PROVE Remembers(r, j, reports[j], now)
  <2>1. Remembers(sentEvents, j, reports[j], now)
    BY DEF Sent
  <2>2. reports[j].at \in Nat
    BY DEF Recorded
  <2>3. CASE Has(r, j)
    <3>1. Has(sentEvents, j) /\ r.item[j] = sentEvents.item[j]
      BY <1>3, <2>3 DEF Has
    <3>2. QED
      BY <2>1, <2>3, <3>1 DEF Remembers
  <2>4. CASE ~Has(r, j) /\ ~Has(sentEvents, j)
    BY <2>1, <2>4 DEF Remembers
  <2>5. CASE ~Has(r, j) /\ Has(sentEvents, j)
    <3>1. j = ip /\ Expired(sentEvents, j, MinBetween, now)
      BY <1>3, <2>5 DEF Has
    <3>2. reports[j].at + MinBetween <= now
      BY <2>1, <2>5, <3>1 DEF Expired, Remembers
    <3>3. now - reports[j].at >= MinBetween
      BY <1>1, <2>2, <3>2
    <3>4. QED
      BY <2>5, <3>3 DEF Remembers
  <2>6. QED
    BY <2>3, <2>4, <2>5
<1>5. QED
  BY <1>3, <1>4 DEF r

\* What check decides from the entry it looks up.
LEMMA SentDecides ==
    ASSUME Recorded, Sent, NEW ip \in Ips
    PROVE  LET last == reports[ip]
           IN  IF RecentlySent(ip)
               THEN last.at > 0 /\ last.at + MinBetween > now
               ELSE last.forgotten \/ last.at = 0 \/ now - last.at >= MinBetween
<1> DEFINE last == reports[ip]
<1>1. now \in Nat /\ MinBetween \in Nat /\ MinBetween > 0 /\ last.at \in Nat
  BY AttackWaveAssumption DEF Recorded
<1>2. Remembers(sentEvents, ip, last, now)
  BY DEF Sent
<1> HIDE DEF last
<1>3. CASE ~Has(sentEvents, ip)
  BY <1>2, <1>3 DEF Remembers, RecentlySent, Fresh, last
<1>4. CASE Has(sentEvents, ip)
  <2>1. last.at > 0 /\ sentEvents.item[ip].expiry = last.at + MinBetween
    BY <1>2, <1>4 DEF Remembers
  <2>2. RecentlySent(ip) <=> ~(last.at + MinBetween <= now)
    BY <1>1, <1>4, <2>1 DEF RecentlySent, Fresh, Expired
  <2>3. CASE last.at + MinBetween <= now
    <3>1. now - last.at >= MinBetween
      BY <1>1, <2>3
    <3>2. QED
      BY <2>2, <2>3, <3>1 DEF last
  <2>4. CASE ~(last.at + MinBetween <= now)
    <3>1. last.at + MinBetween > now
      BY <1>1, <2>4
    <3>2. QED
      BY <2>1, <2>2, <2>4, <3>1 DEF last
  <2>5. QED
    BY <2>3, <2>4
<1>5. QED
  BY <1>3, <1>4

\* A report is remembered, and with it at most one is forgotten.
LEMMA SentMarked ==
    ASSUME Recorded, Sent, NEW ip \in Ips, NEW after,
           after = [j \in Ips |->
                      IF j = ip THEN [at |-> now, forgotten |-> FALSE]
                      ELSE IF j \in Evicted(AfterSentGet(ip), ip, MaxEntries)
                           THEN [reports[j] EXCEPT !.forgotten = TRUE]
                           ELSE reports[j]]
    PROVE  /\ after \in [Ips -> [at : Nat, forgotten : BOOLEAN]]
           /\ after[ip].at = now
           /\ \A j \in Ips : j # ip => after[j].at = reports[j].at
           /\ WellFormed(MarkSent(ip), Ips)
           /\ \A j \in Ips : Remembers(MarkSent(ip), j, after[j], now)
<1> DEFINE m == AfterSentGet(ip)
           r == MarkSent(ip)
           Out == Evicted(m, ip, MaxEntries)
<1>1. /\ now \in Nat /\ now > 0 /\ MinBetween \in Nat /\ MinBetween > 0
      /\ MaxEntries \in Nat
      /\ reports \in [Ips -> [at : Nat, forgotten : BOOLEAN]]
  BY AttackWaveAssumption DEF Recorded
<1>2. WellFormed(m, Ips) /\ \A j \in Ips : Remembers(m, j, reports[j], now)
  BY SentLookedUp
<1> HIDE DEF m
<1>3. r = Set(m, ip, now, MaxEntries, MinBetween, now)
  BY DEF MarkSent, m
<1> HIDE DEF r
<1>4. SetTo(r, m, ip, Entry(now, MinBetween, now))
  BY <1>2, <1>3, SetFound
<1>5. /\ WellFormed(r, Ips)
      /\ Out \subseteq DOMAIN m.item \ {ip}
      /\ DOMAIN r.item = (DOMAIN m.item \ Out) \cup {ip}
      /\ \A j \in DOMAIN r.item : j # ip => r.item[j] = m.item[j]
      /\ r.item[ip] = Entry(now, MinBetween, now)
  BY <1>4 DEF SetTo
<1>8. after = [j \in Ips |->
                 IF j = ip THEN [at |-> now, forgotten |-> FALSE]
                 ELSE IF j \in Out THEN [reports[j] EXCEPT !.forgotten = TRUE]
                 ELSE reports[j]]
  BY DEF m
<1> HIDE DEF Out
<1>9. after[ip] = [at |-> now, forgotten |-> FALSE]
  BY <1>8
<1>10. ASSUME NEW j \in Ips, j # ip, j \in Out
       PROVE  /\ after[j].at = reports[j].at /\ after[j].forgotten
              /\ after[j] \in [at : Nat, forgotten : BOOLEAN]
  BY <1>1, <1>8, <1>10
<1>11. ASSUME NEW j \in Ips, j # ip, j \notin Out
       PROVE  after[j] = reports[j]
  BY <1>8, <1>11
<1>12. ASSUME NEW j \in Ips PROVE Remembers(r, j, after[j], now)
  <2>1. CASE j = ip
    <3>1. r.item[ip].value = now /\ r.item[ip].expiry = now + MinBetween
      BY <1>1, <1>5 DEF Entry
    <3>2. Has(r, ip) /\ after[ip].at = now
      BY <1>5, <1>9 DEF Has
    <3>3. QED
      BY <1>1, <2>1, <3>1, <3>2 DEF Remembers
  <2>2. CASE j # ip /\ j \in Out
    <3>1. ~Has(r, j)
      BY <1>5, <2>2 DEF Has
    <3>2. QED
      BY <1>10, <2>2, <3>1 DEF Remembers
  <2>3. CASE j # ip /\ j \notin Out
    <3>1. after[j] = reports[j] /\ Remembers(m, j, reports[j], now)
      BY <1>2, <1>11, <2>3
    <3>2. Has(r, j) <=> Has(m, j)
      BY <1>5, <2>3 DEF Has
    <3>3. Has(r, j) => r.item[j] = m.item[j]
      BY <1>5, <2>3 DEF Has
    <3>4. QED
      BY <3>1, <3>2, <3>3 DEF Remembers
  <2>4. QED
    BY <2>1, <2>2, <2>3
<1>13. after \in [Ips -> [at : Nat, forgotten : BOOLEAN]]
  <2>1. \A j \in Ips : after[j] \in [at : Nat, forgotten : BOOLEAN]
    BY <1>1, <1>9, <1>10, <1>11
  <2>2. QED
    BY <1>8, <2>1
<1>14. \A j \in Ips : j # ip => after[j].at = reports[j].at
  BY <1>10, <1>11
<1>15. QED
  BY <1>5, <1>9, <1>12, <1>13, <1>14 DEF r

-----------------------------------------------------------------------------
(* Counting.                                                               *)

\* The look-up finds the wave that a request now would join.
LEMMA FoundFacts ==
    ASSUME Recorded, Waves, NEW ip \in Ips, NEW h, h = hits[ip], NEW n, n = Len(h)
    PROVE  /\ Follows(h, now) => /\ Found(ip).count = Cardinality(WaveIn(h, n))
                                 /\ Tells(SamplesOf(h, n), Found(ip).samples)
           /\ ~Follows(h, now) => Found(ip).count = 0 /\ Found(ip).samples = << >>
<1> DEFINE C == CountedIn(h, n)
           none == [count |-> 0, samples |-> << >>]
<1>1. /\ now \in Nat /\ TimeFrame \in Nat /\ TimeFrame > 0
      /\ h \in Seq(Record)
  BY AttackWaveAssumption DEF Recorded
<1>2. n \in Nat /\ \A j \in 1 .. n : h[j] \in Record
  BY <1>1, LenProperties, ElementOfSeq
<1>3. Keeps(suspiciousRequests, ip, h)
  BY DEF Waves
<1>4. C \in SUBSET (1 .. n)
  BY DEF CountedIn
<1>5. Follows(h, now) <=> C # {} /\ now - h[Max(C)].at < TimeFrame
  BY DEF Follows
<1>6. none.count = 0 /\ none.samples = << >>
  OBVIOUS
<1>7. Found(ip) = IF Fresh(suspiciousRequests, ip, TimeFrame, now)
                  THEN suspiciousRequests.item[ip].value ELSE none
  BY DEF Found, Lookup
<1> HIDE DEF none
<1>8. CASE ~Has(suspiciousRequests, ip)
  <2>1. C = {}
    BY <1>3, <1>8 DEF Keeps
  <2>2. ~Follows(h, now) /\ Found(ip) = none
    BY <1>5, <1>7, <1>8, <2>1 DEF Fresh
  <2>3. QED
    BY <1>6, <2>2
<1>9. CASE Has(suspiciousRequests, ip)
  <2>1. /\ C # {}
        /\ suspiciousRequests.item[ip].expiry = h[Max(C)].at + TimeFrame
        /\ suspiciousRequests.item[ip].value.count = Cardinality(WaveIn(h, n))
        /\ Tells(SamplesOf(h, n), suspiciousRequests.item[ip].value.samples)
    BY <1>3, <1>9 DEF Keeps
  <2> DEFINE a == h[Max(C)].at
  <2>2. Max(C) \in 1 .. n
    BY <1>2, <1>4, <2>1, Largest
  <2>3. a \in Nat
    BY <1>2, <2>2 DEF Record
  <2>4. Follows(h, now) <=> now - a < TimeFrame
    BY <1>5, <2>1
  <2>5. Fresh(suspiciousRequests, ip, TimeFrame, now) <=> ~(a + TimeFrame <= now)
    BY <1>1, <1>9, <2>1 DEF Fresh, Expired
  <2> HIDE DEF a
  <2>6. now - a < TimeFrame <=> ~(a + TimeFrame <= now)
    BY <1>1, <2>3
  <2>7. Follows(h, now) <=> Fresh(suspiciousRequests, ip, TimeFrame, now)
    BY <2>4, <2>5, <2>6
  <2>8. QED
    BY <1>6, <1>7, <2>1, <2>7
<1>10. QED
  BY <1>8, <1>9

\* What is stored for a request that is counted is its wave.
LEMMA StoredFacts ==
    ASSUME Recorded, Waves, NEW ip \in Ips, NEW sample \in Samples,
           NEW x \in Record, x.counted = TRUE, x.at = now, x.sample = sample
    PROVE  LET g == Append(hits[ip], x)
               n == Len(hits[ip])
           IN  /\ CountedIn(g, n + 1) # {} /\ Max(CountedIn(g, n + 1)) = n + 1
               /\ g[n + 1].at = now
               /\ Counted(ip, sample).count = Cardinality(WaveIn(g, n + 1))
               /\ Tells(SamplesOf(g, n + 1), Counted(ip, sample).samples)
               /\ IsWave(ip) <=> Cardinality(WaveIn(g, n + 1)) >= Threshold
<1> DEFINE h == hits[ip]
           n == Len(h)
           g == Append(h, x)
           s == Found(ip).samples
           c == Found(ip).count
           W == WaveIn(h, n)
           V == WaveIn(g, n + 1)
<1>1. h \in Seq(Record)
  BY DEF Recorded
<1>2. n \in Nat /\ g[n + 1] = x
  BY <1>1, Appended
<1>3. g[n + 1].at = now
  BY <1>2
<1>4. /\ CountedIn(g, n + 1) # {} /\ Max(CountedIn(g, n + 1)) = n + 1
      /\ Follows(h, x.at) => V = W \cup {n + 1}
      /\ Follows(h, x.at) => SamplesOf(g, n + 1) = SamplesOf(h, n) \cup {x.sample}
      /\ ~Follows(h, x.at) => V = {n + 1}
      /\ ~Follows(h, x.at) => SamplesOf(g, n + 1) = {x.sample}
  BY <1>1, <1>2, CountedHit
<1>5. /\ Follows(h, now) => V = W \cup {n + 1}
      /\ Follows(h, now) => SamplesOf(g, n + 1) = SamplesOf(h, n) \cup {sample}
      /\ ~Follows(h, now) => V = {n + 1}
      /\ ~Follows(h, now) => SamplesOf(g, n + 1) = {sample}
  BY <1>4
<1>6. /\ Follows(h, now) => c = Cardinality(W) /\ Tells(SamplesOf(h, n), s)
      /\ ~Follows(h, now) => c = 0 /\ s = << >>
  BY FoundFacts
<1>7. /\ W \subseteq 1 .. n /\ IsFiniteSet(W) /\ IsFiniteSet(SamplesOf(h, n))
  BY <1>2, WaveIsFinite
<1>8. Counted(ip, sample).count = c + 1 /\ Counted(ip, sample).samples = trackSample(sample, s)
  BY DEF Counted
<1>9. IsWave(ip) <=> c + 1 >= Threshold
  BY DEF IsWave
<1> HIDE DEF W, V, s, c
<1>10. c + 1 = Cardinality(V)
  <2>1. CASE Follows(h, now)
    <3>1. n + 1 \notin W
      BY <1>2, <1>7
    <3>2. Cardinality(W \cup {n + 1}) = Cardinality(W) + 1
      BY <1>7, <3>1, FS_AddElement
    <3>3. V = W \cup {n + 1} /\ c = Cardinality(W)
      BY <1>5, <1>6, <2>1
    <3>4. QED
      BY <3>2, <3>3
  <2>2. CASE ~Follows(h, now)
    <3>1. Cardinality({n + 1}) = 1
      BY FS_Singleton
    <3>2. V = {n + 1} /\ c = 0
      BY <1>5, <1>6, <2>2
    <3>3. QED
      BY <3>1, <3>2
  <2>3. QED
    BY <2>1, <2>2
<1>11. Tells(SamplesOf(g, n + 1), trackSample(sample, s))
  <2>1. CASE Follows(h, now)
    <3>1. Tells(SamplesOf(h, n) \cup {sample}, trackSample(sample, s))
      BY <1>6, <1>7, <2>1, TrackFacts
    <3>2. QED
      BY <1>5, <2>1, <3>1
  <2>2. CASE ~Follows(h, now)
    <3>1. IsFiniteSet({}) /\ {} \cup {sample} = {sample}
      BY FS_EmptySet
    <3>2. Tells({sample}, trackSample(sample, << >>))
      BY <3>1, NothingTold, TrackFacts
    <3>3. QED
      BY <1>5, <1>6, <2>2, <3>2
  <2>3. QED
    BY <2>1, <2>2
<1>12. IsWave(ip) <=> Cardinality(V) >= Threshold
  BY <1>9, <1>10
<1>13. QED
  BY <1>3, <1>4, <1>8, <1>10, <1>11, <1>12 DEF V

\* The requests on record once one is added, and some may be dropped.
LEMMA HitsNext ==
    ASSUME Recorded, TotalHits < MaxHits, NEW ip \in Ips, NEW x \in Record, x.at = now,
           NEW after, DOMAIN after = Ips, after = [j \in Ips |-> after[j]],
           after[ip] = Append(hits[ip], x),
           \A j \in Ips : j # ip => after[j] = << >> \/ after[j] = hits[j]
    PROVE  /\ after \in [Ips -> Seq(Record)]
           /\ \A j \in Ips : Ordered(after[j], now) /\ Len(after[j]) <= MaxHits
<1>1. hits \in [Ips -> Seq(Record)] /\ now \in Nat /\ now >= 1 /\ MaxHits \in Nat
  BY AttackWaveAssumption DEF Recorded
<1>2. \A j \in Ips : Ordered(hits[j], now) /\ Len(hits[j]) <= MaxHits
  BY DEF Recorded
<1>3. TotalHits \in Nat /\ Len(hits[ip]) <= TotalHits
  BY <1>1, HitsCounted
<1>4. after[ip] \in Seq(Record) /\ Len(after[ip]) = Len(hits[ip]) + 1 /\ Len(hits[ip]) \in Nat
  <2>1. hits[ip] \in Seq(Record)
    BY <1>1
  <2>2. /\ Append(hits[ip], x) \in Seq(Record)
        /\ Len(Append(hits[ip], x)) = Len(hits[ip]) + 1
    BY <2>1, AppendProperties
  <2>3. Len(hits[ip]) \in Nat
    BY <2>1, LenProperties
  <2>4. QED
    BY <2>2, <2>3
<1>5. Len(after[ip]) <= MaxHits
  BY <1>1, <1>3, <1>4
<1>6. Ordered(after[ip], now)
  BY <1>1, <1>2, OrderKept
<1>7. << >> \in Seq(Record) /\ Len(<< >>) <= MaxHits /\ Ordered(<< >>, now)
  BY <1>1, NoHits
<1>8. \A j \in Ips : /\ after[j] \in Seq(Record)
                     /\ Ordered(after[j], now) /\ Len(after[j]) <= MaxHits
  BY <1>1, <1>2, <1>4, <1>5, <1>6, <1>7
<1>9. QED
  BY <1>8

\* Counting stores the wave, and drops the wave of one other address at most.
LEMMA CountKeeps ==
    ASSUME Recorded, Waves, NEW ip \in Ips, NEW sample \in Samples, NEW b \in BOOLEAN,
           Count(ip, sample, b), b <=> IsWave(ip), NEW x, x = Hit(sample, TRUE, b)
    PROVE  /\ hits'[ip] = Append(hits[ip], x)
           /\ \A j \in Ips : j # ip => hits'[j] = << >> \/ hits'[j] = hits[j]
           /\ hits' = [j \in Ips |-> hits'[j]]
           /\ Waves'
           /\ Tells(SamplesOf(hits'[ip], Len(hits[ip]) + 1), Counted(ip, sample).samples)
<1> DEFINE m == AfterFind(ip)
           v == Counted(ip, sample)
           r == suspiciousRequests'
           Out == Evicted(m, ip, MaxEntries)
           h == hits[ip]
           n == Len(h)
           g == Append(h, x)
<1>1. MaxEntries \in Nat /\ TimeFrame \in Nat /\ TimeFrame > 0 /\ now \in Nat /\ h \in Seq(Record)
  BY AttackWaveAssumption DEF Recorded
<1>2. x \in Record /\ x.counted = TRUE /\ x.at = now /\ x.sample = sample /\ x.reported = b
  BY DEF Hit, Record, Recorded
<1>3. n \in Nat /\ Len(g) = n + 1
  BY <1>1, <1>2, Appended
<1>4. /\ CountedIn(g, n + 1) # {} /\ Max(CountedIn(g, n + 1)) = n + 1
      /\ g[n + 1].at = now
      /\ v.count = Cardinality(WaveIn(g, n + 1))
      /\ Tells(SamplesOf(g, n + 1), v.samples)
      /\ IsWave(ip) <=> Cardinality(WaveIn(g, n + 1)) >= Threshold
  BY <1>2, StoredFacts
<1>5. WellFormed(suspiciousRequests, Ips)
  BY DEF Waves
<1>6. /\ WellFormed(m, Ips)
      /\ Has(suspiciousRequests, ip) /\ Expired(suspiciousRequests, ip, TimeFrame, now)
            => DOMAIN m.item = DOMAIN suspiciousRequests.item \ {ip}
      /\ ~(Has(suspiciousRequests, ip) /\ Expired(suspiciousRequests, ip, TimeFrame, now))
            => DOMAIN m.item = DOMAIN suspiciousRequests.item
      /\ \A j \in DOMAIN m.item : m.item[j] = suspiciousRequests.item[j]
  BY <1>5, GetFacts DEF AfterFind
<1>7. /\ r = Set(m, ip, v, MaxEntries, TimeFrame, now)
      /\ hits' = [j \in Ips |-> IF j = ip THEN g ELSE IF j \in Out THEN << >> ELSE hits[j]]
  BY DEF Count
<1> HIDE DEF m, v, r
<1>8. SetTo(r, m, ip, Entry(v, TimeFrame, now))
  BY <1>6, <1>7, SetFound
<1>9. Out \subseteq DOMAIN m.item \ {ip} /\ DOMAIN r.item = (DOMAIN m.item \ Out) \cup {ip}
  BY <1>8 DEF SetTo
<1>10. \A j \in DOMAIN r.item : j # ip => r.item[j] = m.item[j]
  BY <1>8 DEF SetTo
<1>11. WellFormed(r, Ips) /\ r.item[ip] = Entry(v, TimeFrame, now)
  BY <1>8 DEF SetTo
<1> HIDE DEF Out, g, n
<1>14. /\ hits'[ip] = g
       /\ \A j \in Ips : j # ip => hits'[j] = IF j \in Out THEN << >> ELSE hits[j]
  BY <1>7
<1>15. Judged(g)
  <2>1. b <=> Cardinality(WaveIn(g, n + 1)) >= Threshold
    BY <1>4
  <2>2. Judged(h)
    BY DEF Waves
  <2>3. x.counted => (x.reported <=> Cardinality(WaveIn(g, Len(h) + 1)) >= Threshold)
    BY <1>2, <2>1 DEF n
  <2>4. QED
    BY <1>1, <1>2, <2>2, <2>3, JudgedNext DEF g
<1>16. Keeps(r, ip, g)
  <2>1. Has(r, ip)
    BY <1>9 DEF Has
  <2>2. r.item[ip].value = v /\ r.item[ip].expiry = now + TimeFrame
    BY <1>1, <1>11 DEF Entry
  <2>3. QED
    BY <1>3, <1>4, <2>1, <2>2 DEF Keeps
<1>17. ASSUME NEW j \in Ips, j # ip
       PROVE  Judged(hits'[j]) /\ Keeps(r, j, hits'[j])
  <2>1. CASE j \in Out
    <3>1. hits'[j] = << >> /\ ~Has(r, j)
      BY <1>9, <1>14, <1>17, <2>1 DEF Has
    <3>2. QED
      BY <3>1, NoHits DEF Keeps
  <2>2. CASE j \notin Out
    <3>1. hits'[j] = hits[j] /\ Judged(hits[j]) /\ Keeps(suspiciousRequests, j, hits[j])
      BY <1>14, <1>17, <2>2 DEF Waves
    <3>2. Has(r, j) <=> Has(suspiciousRequests, j)
      BY <1>6, <1>9, <1>17, <2>2 DEF Has
    <3>3. Has(r, j) => r.item[j] = suspiciousRequests.item[j]
      BY <1>6, <1>9, <1>10, <1>17 DEF Has
    <3>4. QED
      BY <3>1, <3>2, <3>3 DEF Keeps
  <2>3. QED
    BY <2>1, <2>2
<1>18. \A j \in Ips : Judged(hits'[j]) /\ Keeps(r, j, hits'[j])
  BY <1>14, <1>15, <1>16, <1>17
<1>19. Waves'
  BY <1>11, <1>18 DEF Waves, r
<1>20. Tells(SamplesOf(hits'[ip], Len(hits[ip]) + 1), Counted(ip, sample).samples)
  BY <1>4, <1>14 DEF n, v
<1>21. hits' = [j \in Ips |-> hits'[j]]
  BY <1>7
<1>22. \A j \in Ips : j # ip => hits'[j] = << >> \/ hits'[j] = hits[j]
  BY <1>14
<1>23. QED
  BY <1>14, <1>19, <1>20, <1>21, <1>22 DEF g

-----------------------------------------------------------------------------
(* The invariant, step by step.                                            *)

\* Nothing happened yet.
LEMMA InvInit == Init => Inv
<1> SUFFICES ASSUME Init PROVE Inv
  OBVIOUS
<1>1. now = 1 /\ suspiciousRequests = EmptyLRU /\ sentEvents = EmptyLRU /\ event = NoEvent
  BY DEF Init
<1>2. \A ip \in Ips : hits[ip] = << >> /\ reports[ip].at = 0
  BY DEF Init, NoReport
<1>3. Waves
  <2>1. WellFormed(suspiciousRequests, Ips)
    BY <1>1, EmptyWellFormed
  <2>2. \A ip \in Ips : ~Has(suspiciousRequests, ip)
    BY <1>1 DEF Has, EmptyLRU
  <2>3. QED
    BY <1>2, <2>1, <2>2, NoHits DEF Waves, Keeps
<1>4. Sent
  <2>1. WellFormed(sentEvents, Ips)
    BY <1>1, EmptyWellFormed
  <2>2. \A ip \in Ips : ~Has(sentEvents, ip)
    BY <1>1 DEF Has, EmptyLRU
  <2>3. QED
    BY <1>2, <2>1, <2>2, NoHits DEF Sent, Remembers
<1>5. Told
  BY <1>1 DEF Told
<1>6. Recorded
  <2>1. now \in 1 .. MaxTime
    BY <1>1, AttackWaveAssumption
  <2>2. hits \in [Ips -> Seq(Record)] /\ reports \in [Ips -> [at : Nat, forgotten : BOOLEAN]]
    BY NoHits DEF Init, NoReport
  <2>3. event \in [ip : Ips \cup {Missing}, samples : Seq(Samples)]
    BY <1>1, EmptySeq DEF NoEvent
  <2>4. \A ip \in Ips : Ordered(hits[ip], now) /\ Len(hits[ip]) <= MaxHits
    BY <1>2, NoHits, AttackWaveAssumption
  <2>5. \A ip \in Ips : reports[ip].at <= now
    BY <1>1, <1>2
  <2>6. QED
    BY <2>1, <2>2, <2>3, <2>4, <2>5 DEF Recorded
<1>7. QED
  BY <1>3, <1>4, <1>5, <1>6 DEF Inv

\* A look-up, of a request that is not suspicious.
LEMMA HarmlessKeeps ==
    ASSUME Inv, NEW ip \in Ips, CheckHarmless(ip)
    PROVE  Inv'
<1>1. /\ now' = now /\ suspiciousRequests' = suspiciousRequests
      /\ hits' = hits /\ reports' = reports /\ event' = event
      /\ sentEvents' = AfterSentGet(ip)
  BY DEF CheckHarmless, history
<1>2. Recorded' /\ Waves' /\ Told'
  BY <1>1 DEF Inv, Recorded, Waves, Told
<1>3. Sent'
  <2>1. /\ WellFormed(AfterSentGet(ip), Ips)
        /\ \A j \in Ips : Remembers(AfterSentGet(ip), j, reports[j], now)
    BY SentLookedUp DEF Inv
  <2>2. \A j \in Ips : Answered(hits[j], reports[j].at)
    BY DEF Inv, Sent
  <2>3. QED
    BY <1>1, <2>1, <2>2 DEF Sent
<1>4. QED
  BY <1>2, <1>3 DEF Inv

\* The count is kept when a request is suppressed.
LEMMA UncountedKept ==
    ASSUME NEW lru, NEW ip, NEW h \in Seq(Record), Keeps(lru, ip, h),
           NEW x \in Record, x.counted = FALSE
    PROVE  Keeps(lru, ip, Append(h, x))
<1> DEFINE n == Len(h)
           g == Append(h, x)
<1> SUFFICES Keeps(lru, ip, g)
  OBVIOUS
<1>1. /\ n \in Nat /\ Len(g) = n + 1
      /\ \A j \in 1 .. n : g[j] = h[j]
  BY Appended
<1>2. /\ CountedIn(g, n + 1) = CountedIn(h, n)
      /\ WaveIn(g, n + 1) = WaveIn(h, n)
      /\ SamplesOf(g, n + 1) = SamplesOf(h, n)
  BY UncountedHit
<1> HIDE DEF g
<1> DEFINE C == CountedIn(h, n)
<1>3. C \in SUBSET (1 .. n)
  BY DEF CountedIn
<1> HIDE DEF n
<1>4. CASE ~Has(lru, ip)
  BY <1>1, <1>2, <1>4 DEF Keeps, n
<1>5. CASE Has(lru, ip)
  <2>1. /\ C # {}
        /\ lru.item[ip].expiry = h[Max(C)].at + TimeFrame
        /\ lru.item[ip].value.count = Cardinality(WaveIn(h, n))
        /\ Tells(SamplesOf(h, n), lru.item[ip].value.samples)
    BY <1>5 DEF Keeps, n
  <2> HIDE DEF C
  <2>2. Max(C) \in 1 .. n
    BY <1>1, <1>3, <2>1, Largest
  <2>3. g[Max(C)] = h[Max(C)]
    BY <1>1, <2>2
  <2>4. CountedIn(g, n + 1) = C
    BY <1>2 DEF C
  <2>5. QED
    BY <1>1, <1>2, <1>5, <2>1, <2>3, <2>4 DEF Keeps
<1>6. QED
  BY <1>4, <1>5

\* What is still told of an address whose requests are not reported now.
LEMMA ToldStill ==
    ASSUME Inv, NEW ip \in Ips, NEW x \in Record, ~ x.reported, event' = event,
           hits'[ip] = Append(hits[ip], x),
           \A j \in Ips : j # ip => hits'[j] = << >> \/ hits'[j] = hits[j]
    PROVE  Told'
<1>1. SUFFICES ASSUME event # NoEvent
               PROVE  event.ip \in Ips /\ TellsLast(hits'[event.ip], event.samples)
  BY DEF Told
<1> DEFINE who == event.ip
           s == event.samples
<1>2. who \in Ips /\ TellsLast(hits[who], s)
  BY <1>1 DEF Inv, Told
<1> HIDE DEF who, s
<1>3. CASE who = ip
  <2>1. hits[ip] \in Seq(Record) /\ TellsLast(hits[ip], s)
    BY <1>2, <1>3 DEF Inv, Recorded
  <2>2. TellsLast(Append(hits[ip], x), s)
    BY <2>1, TellsStill
  <2>3. QED
    BY <1>2, <1>3, <2>2 DEF who, s
<1>4. CASE who # ip
  <2>1. hits'[who] = << >> \/ hits'[who] = hits[who]
    BY <1>2, <1>4
  <2>2. TellsLast(hits'[who], s)
    BY <1>2, <2>1, NoHits
  <2>3. QED
    BY <1>2, <2>2 DEF who, s
<1>5. QED
  BY <1>3, <1>4

\* A request soon after a report is not counted.
LEMMA SuppressedKeeps ==
    ASSUME Inv, NEW ip \in Ips, NEW sample \in Samples, CheckSuppressed(ip, sample)
    PROVE  Inv'
<1> DEFINE x == Hit(sample, FALSE, FALSE)
           h == hits[ip]
           g == Append(h, x)
<1>1. /\ TotalHits < MaxHits /\ RecentlySent(ip)
      /\ now' = now /\ suspiciousRequests' = suspiciousRequests
      /\ reports' = reports /\ event' = event
      /\ sentEvents' = AfterSentGet(ip)
      /\ hits' = [hits EXCEPT ![ip] = g]
  BY DEF CheckSuppressed
<1>2. x \in Record /\ x.counted = FALSE /\ x.reported = FALSE /\ x.at = now
  BY DEF Inv, Recorded, Record, Hit
<1>3. Recorded /\ Waves /\ Sent
  BY DEF Inv
<1>4. hits \in [Ips -> Seq(Record)] /\ h \in Seq(Record)
  BY <1>3 DEF Recorded
<1> HIDE DEF x, g
<1>5. /\ hits'[ip] = g
      /\ \A j \in Ips : j # ip => hits'[j] = hits[j]
      /\ DOMAIN hits' = Ips /\ hits' = [j \in Ips |-> hits'[j]]
  BY <1>1, <1>4
<1>6. Recorded'
  <2>1. /\ hits' \in [Ips -> Seq(Record)]
        /\ \A j \in Ips : Ordered(hits'[j], now) /\ Len(hits'[j]) <= MaxHits
    <3>1. hits'[ip] = Append(h, x)
      BY <1>5 DEF g
    <3>2. \A j \in Ips : j # ip => hits'[j] = << >> \/ hits'[j] = hits[j]
      BY <1>5
    <3>3. DOMAIN hits' = Ips /\ hits' = [j \in Ips |-> hits'[j]]
      BY <1>5
    <3>4. TotalHits < MaxHits
      BY <1>1
    <3>5. QED
      BY <1>2, <1>3, <3>1, <3>2, <3>3, <3>4, HitsNext
  <2>2. QED
    BY <1>1, <1>3, <2>1 DEF Recorded
<1>7. Waves'
  <2>1. Judged(h) /\ Keeps(suspiciousRequests, ip, h)
    BY <1>3 DEF Waves
  <2>2. Judged(g)
    BY <1>2, <1>4, <2>1, JudgedNext DEF g
  <2>3. Keeps(suspiciousRequests, ip, g)
    BY <1>2, <1>4, <2>1, UncountedKept DEF g
  <2>4. QED
    BY <1>1, <1>3, <1>5, <2>2, <2>3 DEF Waves
<1>8. Sent'
  <2>1. /\ WellFormed(AfterSentGet(ip), Ips)
        /\ \A j \in Ips : Remembers(AfterSentGet(ip), j, reports[j], now)
    BY <1>3, SentLookedUp
  <2> DEFINE r == reports[ip].at
  <2>2. r > 0 /\ r + MinBetween > now
    BY <1>1, <1>3, SentDecides
  <2>3. r \in Nat /\ r <= r
    BY <1>3 DEF Recorded
  <2>4. Answered(h, r)
    BY <1>3 DEF Sent
  <2> HIDE DEF r
  <2>5. Answered(g, r)
    BY <1>2, <1>4, <2>2, <2>3, <2>4, AnsweredNext DEF g
  <2>6. \A j \in Ips : Answered(hits'[j], reports[j].at)
    BY <1>3, <1>5, <2>5 DEF Sent, r
  <2>7. QED
    BY <1>1, <2>1, <2>6 DEF Sent
<1>9. Told'
  BY <1>1, <1>2, <1>5, ToldStill DEF g
<1>10. QED
  BY <1>6, <1>7, <1>8, <1>9 DEF Inv

\* A request is counted, and the threshold is not reached.
LEMMA CountsKeeps ==
    ASSUME Inv, NEW ip \in Ips, NEW sample \in Samples, CheckCounts(ip, sample)
    PROVE  Inv'
<1> DEFINE x == Hit(sample, TRUE, FALSE)
           h == hits[ip]
<1>1. /\ ~IsWave(ip) /\ Count(ip, sample, FALSE) /\ TotalHits < MaxHits
      /\ now' = now /\ reports' = reports /\ event' = event
      /\ sentEvents' = AfterSentGet(ip)
  BY DEF CheckCounts, Count
<1>2. x \in Record /\ x.counted = TRUE /\ x.reported = FALSE /\ x.at = now
  BY DEF Inv, Recorded, Record, Hit
<1>3. Recorded /\ Waves /\ Sent
  BY DEF Inv
<1>4. h \in Seq(Record)
  BY <1>3 DEF Recorded
<1>5. /\ hits'[ip] = Append(h, x)
      /\ \A j \in Ips : j # ip => hits'[j] = << >> \/ hits'[j] = hits[j]
      /\ hits' = [j \in Ips |-> hits'[j]]
      /\ Waves'
  BY <1>1, <1>3, CountKeeps
<1>6. DOMAIN hits' = Ips
  BY <1>5
<1> HIDE DEF x
<1>7. Recorded'
  <2>1. /\ hits' \in [Ips -> Seq(Record)]
        /\ \A j \in Ips : Ordered(hits'[j], now) /\ Len(hits'[j]) <= MaxHits
    BY <1>1, <1>2, <1>3, <1>5, <1>6, HitsNext
  <2>2. QED
    BY <1>1, <1>3, <2>1 DEF Recorded
<1>8. Sent'
  <2>1. /\ WellFormed(AfterSentGet(ip), Ips)
        /\ \A j \in Ips : Remembers(AfterSentGet(ip), j, reports[j], now)
    BY <1>3, SentLookedUp
  <2> DEFINE r == reports[ip].at
  <2>2. r \in Nat /\ r <= r
    BY <1>3 DEF Recorded
  <2>3. Answered(h, r)
    BY <1>3 DEF Sent
  <2> HIDE DEF r
  <2>4. Answered(Append(h, x), r)
    BY <1>2, <1>4, <2>2, <2>3, AnsweredNext
  <2>5. \A j \in Ips : Answered(hits'[j], reports[j].at)
    BY <1>3, <1>5, <2>4, NoHits DEF Sent, r
  <2>6. QED
    BY <1>1, <2>1, <2>5 DEF Sent
<1>9. Told'
  BY <1>1, <1>2, <1>5, ToldStill
<1>10. QED
  BY <1>5, <1>7, <1>8, <1>9 DEF Inv

\* A request is counted, and its wave is reported.
LEMMA ReportsKeeps ==
    ASSUME Inv, NEW ip \in Ips, NEW sample \in Samples, CheckReports(ip, sample)
    PROVE  Inv'
<1> DEFINE x == Hit(sample, TRUE, TRUE)
           h == hits[ip]
           s == Counted(ip, sample).samples
<1>1. /\ IsWave(ip) /\ Count(ip, sample, TRUE) /\ TotalHits < MaxHits
      /\ now' = now /\ sentEvents' = MarkSent(ip) /\ event' = [ip |-> ip, samples |-> s]
      /\ reports' = [j \in Ips |->
                       IF j = ip THEN [at |-> now, forgotten |-> FALSE]
                       ELSE IF j \in Evicted(AfterSentGet(ip), ip, MaxEntries)
                            THEN [reports[j] EXCEPT !.forgotten = TRUE]
                            ELSE reports[j]]
  BY DEF CheckReports, Count
<1>2. x \in Record /\ x.counted = TRUE /\ x.reported = TRUE /\ x.at = now
  BY DEF Inv, Recorded, Record, Hit
<1>3. Recorded /\ Waves /\ Sent
  BY DEF Inv
<1>4. h \in Seq(Record) /\ now \in Nat
  BY <1>3 DEF Recorded
<1> HIDE DEF s
<1>5. /\ hits'[ip] = Append(h, x)
      /\ \A j \in Ips : j # ip => hits'[j] = << >> \/ hits'[j] = hits[j]
      /\ hits' = [j \in Ips |-> hits'[j]]
      /\ Waves'
      /\ Tells(SamplesOf(hits'[ip], Len(h) + 1), s)
  BY <1>1, <1>3, CountKeeps DEF s
<1>6. DOMAIN hits' = Ips
  BY <1>5
<1>7. /\ reports' \in [Ips -> [at : Nat, forgotten : BOOLEAN]]
      /\ reports'[ip].at = now
      /\ \A j \in Ips : j # ip => reports'[j].at = reports[j].at
      /\ WellFormed(MarkSent(ip), Ips)
      /\ \A j \in Ips : Remembers(MarkSent(ip), j, reports'[j], now)
  BY <1>1, <1>3, SentMarked
<1> HIDE DEF x
<1>8. Recorded'
  <2>1. /\ hits' \in [Ips -> Seq(Record)]
        /\ \A j \in Ips : Ordered(hits'[j], now) /\ Len(hits'[j]) <= MaxHits
    BY <1>1, <1>2, <1>3, <1>5, <1>6, HitsNext
  <2>2. s \in Seq(Samples)
    BY <1>5 DEF Tells
  <2>3. event' \in [ip : Ips \cup {Missing}, samples : Seq(Samples)]
    BY <1>1, <2>2
  <2>4. \A j \in Ips : reports'[j].at <= now
    <3>1. \A j \in Ips : reports[j].at <= now
      BY <1>3 DEF Recorded
    <3>2. now <= now
      BY <1>4
    <3>3. QED
      BY <1>7, <3>1, <3>2, Zenon
  <2>5. QED
    BY <1>1, <1>3, <1>7, <2>1, <2>3, <2>4 DEF Recorded
<1>9. Sent'
  <2> DEFINE q == reports[ip].at
  <2>1. q \in Nat /\ q <= now /\ Answered(h, q)
    BY <1>3 DEF Recorded, Sent
  <2>2. now >= now
    BY <1>4
  <2> HIDE DEF q
  <2>3. Answered(Append(h, x), now)
    BY <1>2, <1>4, <2>1, <2>2, AnsweredNext
  <2>4. \A j \in Ips : Answered(hits'[j], reports'[j].at)
    BY <1>3, <1>5, <1>7, <2>3, NoHits DEF Sent
  <2>5. QED
    BY <1>1, <1>7, <2>4 DEF Sent
<1>10. Told'
  <2>1. event'.ip = ip /\ event'.samples = s
    BY <1>1
  <2>2. Tells(SamplesOf(Append(h, x), Len(h) + 1), s)
    BY <1>5
  <2>3. TellsLast(Append(h, x), s)
    BY <1>2, <1>4, <2>2, TellsNow
  <2>4. QED
    BY <1>5, <2>1, <2>3 DEF Told
<1>11. QED
  BY <1>5, <1>8, <1>9, <1>10 DEF Inv

\* Time passes.
LEMMA TickKeeps ==
    ASSUME Inv, Tick
    PROVE  Inv'
<1>1. /\ now' = now + 1 /\ now < MaxTime /\ suspiciousRequests' = suspiciousRequests
      /\ hits' = hits /\ reports' = reports /\ event' = event /\ sentEvents' = sentEvents
  BY DEF Tick, history
<1>2. Recorded /\ Waves /\ Sent /\ Told
  BY DEF Inv
<1>3. /\ now \in Nat /\ MaxTime \in Nat /\ now' \in 1 .. MaxTime
  BY <1>1, <1>2, AttackWaveAssumption DEF Recorded
<1>4. Recorded'
  <2>1. ASSUME NEW ip \in Ips
        PROVE  /\ Ordered(hits[ip], now') /\ Len(hits[ip]) <= MaxHits
               /\ reports[ip].at <= now'
    <3> DEFINE h == hits[ip]
    <3>1. h \in Seq(Record) /\ Ordered(h, now) /\ Len(h) <= MaxHits
          /\ reports[ip].at <= now /\ reports[ip].at \in Nat
      BY <1>2 DEF Recorded
    <3> HIDE DEF h
    <3>2. \A i \in DOMAIN h : h[i].at \in Nat
      <4>1. \A i \in DOMAIN h : h[i] \in Record
        BY <3>1, LenProperties, ElementOfSeq
      <4>2. QED
        BY <4>1 DEF Record
    <3>3. \A i \in DOMAIN h : h[i].at <= now'
      BY <1>1, <1>3, <3>1, <3>2 DEF Ordered
    <3>4. Ordered(h, now')
      BY <3>1, <3>3 DEF Ordered
    <3>5. QED
      BY <1>1, <1>3, <3>1, <3>4 DEF h
  <2>2. QED
    BY <1>1, <1>2, <1>3, <2>1 DEF Recorded
<1>5. Waves' /\ Told'
  BY <1>1, <1>2 DEF Waves, Told
<1>6. Sent'
  <2>1. ASSUME NEW ip \in Ips
        PROVE  Remembers(sentEvents, ip, reports[ip], now')
    <3>1. Remembers(sentEvents, ip, reports[ip], now) /\ reports[ip].at \in Nat
      BY <1>2 DEF Sent, Recorded
    <3>2. MinBetween \in Nat
      BY AttackWaveAssumption
    <3>3. now - reports[ip].at >= MinBetween => now' - reports[ip].at >= MinBetween
      BY <1>1, <1>3, <3>1, <3>2
    <3>4. QED
      BY <3>1, <3>3 DEF Remembers
  <2>2. QED
    BY <1>1, <1>2, <2>1 DEF Sent
<1>7. QED
  BY <1>4, <1>5, <1>6 DEF Inv

\* No step breaks the invariant.
LEMMA InvNext == Inv /\ [Next]_vars => Inv'
<1> SUFFICES ASSUME Inv, [Next]_vars PROVE Inv'
  OBVIOUS
<1>1. ASSUME NEW ip \in Ips, CheckHarmless(ip) PROVE Inv'
  BY <1>1, HarmlessKeeps
<1>2. ASSUME NEW ip \in Ips, NEW sample \in Samples, CheckSuppressed(ip, sample) PROVE Inv'
  BY <1>2, SuppressedKeeps
<1>3. ASSUME NEW ip \in Ips, NEW sample \in Samples, CheckCounts(ip, sample) PROVE Inv'
  BY <1>3, CountsKeeps
<1>4. ASSUME NEW ip \in Ips, NEW sample \in Samples, CheckReports(ip, sample) PROVE Inv'
  BY <1>4, ReportsKeeps
<1>5. ASSUME Tick PROVE Inv'
  BY <1>5, TickKeeps
<1>6. CASE UNCHANGED vars
  BY <1>6 DEF vars, history, Inv, Recorded, Waves, Sent, Told
<1>7. QED
  BY <1>1, <1>2, <1>3, <1>4, <1>5, <1>6 DEF Next

\* The invariant holds at all times.
LEMMA Invariance == Spec => []Inv
BY InvInit, InvNext, PTL DEF Spec

-----------------------------------------------------------------------------
(* What follows.                                                           *)

\* What the entries tell of a wave is within the bounds of the code.
LEMMA InvTypes == Inv => TypeOK
<1> SUFFICES ASSUME Inv PROVE TypeOK
  OBVIOUS
<1>1. Recorded /\ Waves /\ Sent
  BY DEF Inv
<1>2. MaxHits \in Nat /\ MaxSamples \in Nat /\ now \in Nat
  BY <1>1, AttackWaveAssumption DEF Recorded
<1>3. DOMAIN suspiciousRequests.item \subseteq Ips /\ DOMAIN sentEvents.item \subseteq Ips
  BY <1>1, FinitelyMany DEF Waves, Sent
<1>4. ASSUME NEW ip \in DOMAIN suspiciousRequests.item
      PROVE  LET v == suspiciousRequests.item[ip].value
             IN  /\ v.count \in 1 .. MaxHits
                 /\ v.samples \in Seq(Samples)
                 /\ Len(v.samples) <= MaxSamples /\ IsInjective(v.samples)
  <2> DEFINE h == hits[ip]
             n == Len(h)
             v == suspiciousRequests.item[ip].value
             W == WaveIn(h, n)
             d == Cardinality(SamplesOf(h, n))
  <2>1. h \in Seq(Record) /\ n <= MaxHits
    BY <1>1, <1>3 DEF Recorded
  <2>2. n \in Nat
    BY <2>1, LenProperties
  <2>3. Keeps(suspiciousRequests, ip, h)
    BY <1>1, <1>3 DEF Waves
  <2>4. CountedIn(h, n) # {} /\ v.count = Cardinality(W) /\ Tells(SamplesOf(h, n), v.samples)
    BY <2>3 DEF Keeps, Has
  <2> HIDE DEF h, n
  <2>5. W # {}
    BY <2>2, <2>4, WaveEnds
  <2>6. IsFiniteSet(W) /\ Cardinality(W) \in Nat /\ Cardinality(W) <= n /\ d \in Nat
    BY <2>2, WaveIsFinite
  <2>7. Cardinality(W) # 0
    BY <2>5, <2>6, FS_EmptySet
  <2>8. /\ v.samples \in Seq(Samples) /\ IsInjective(v.samples)
        /\ Len(v.samples) = IF d < MaxSamples THEN d ELSE MaxSamples
    BY <2>4 DEF Tells
  <2> HIDE DEF d, W, v
  <2>9. v.count \in 1 .. MaxHits
    BY <1>2, <2>1, <2>2, <2>4, <2>6, <2>7
  <2>10. Len(v.samples) <= MaxSamples
    BY <1>2, <2>6, <2>8
  <2>11. QED
    BY <2>8, <2>9, <2>10 DEF v
<1>5. ASSUME NEW ip \in DOMAIN sentEvents.item
      PROVE  sentEvents.item[ip].value \in 1 .. now
  <2>1. Remembers(sentEvents, ip, reports[ip], now) /\ reports[ip].at \in Nat
        /\ reports[ip].at <= now
    BY <1>1, <1>3 DEF Sent, Recorded
  <2>2. sentEvents.item[ip].value = reports[ip].at /\ reports[ip].at > 0
    BY <2>1 DEF Remembers, Has
  <2>3. QED
    BY <1>2, <2>1, <2>2
<1>6. ASSUME NEW ip \in Ips
      PROVE  /\ hits[ip] \in Seq([at : 1 .. now, sample : Samples,
                                  counted : BOOLEAN, reported : BOOLEAN])
             /\ reports[ip] \in [at : 0 .. now, forgotten : BOOLEAN]
  <2> DEFINE h == hits[ip]
             T == [at : 1 .. now, sample : Samples, counted : BOOLEAN, reported : BOOLEAN]
  <2>1. h \in Seq(Record) /\ Ordered(h, now)
    BY <1>1 DEF Recorded
  <2> HIDE DEF h
  <2>2. Len(h) \in Nat /\ DOMAIN h = 1 .. Len(h) /\ h = [i \in 1 .. Len(h) |-> h[i]]
    BY <2>1, LenProperties
  <2>3. \A i \in 1 .. Len(h) : h[i] \in Record /\ h[i].at >= 1 /\ h[i].at <= now
    BY <2>1, <2>2, ElementOfSeq DEF Ordered
  <2>4. \A i \in 1 .. Len(h) : h[i] \in T
    BY <1>2, <2>3 DEF Record
  <2> HIDE DEF T
  <2>5. h \in Seq(T)
    BY <2>2, <2>4
  <2>6. reports[ip] \in [at : Nat, forgotten : BOOLEAN] /\ reports[ip].at <= now
    BY <1>1 DEF Recorded
  <2>7. reports[ip] \in [at : 0 .. now, forgotten : BOOLEAN]
    BY <1>2, <2>6
  <2>8. QED
    BY <2>5, <2>7 DEF h, T
<1>7. /\ hits \in [Ips -> Seq([at : 1 .. now, sample : Samples,
                               counted : BOOLEAN, reported : BOOLEAN])]
      /\ reports \in [Ips -> [at : 0 .. now, forgotten : BOOLEAN]]
  BY <1>1, <1>6 DEF Recorded
<1>8. now \in 1 .. MaxTime /\ event \in [ip : Ips \cup {Missing}, samples : Seq(Samples)]
  BY <1>1 DEF Recorded
<1>9. QED
  BY <1>3, <1>4, <1>5, <1>7, <1>8 DEF TypeOK

\* The variables have their types, in every behaviour: no more than MaxSamples
\* samples are kept of a wave, none of them twice.
THEOREM TypeCorrect == Spec => []TypeOK
BY Invariance, InvTypes, PTL

\* The wave of the model is that of the lemmas.
LEMMA WaveIsWaveIn ==
    ASSUME NEW ip, NEW i \in Nat
    PROVE  Wave(ip, i) = WaveIn(hits[ip], i)
<1> DEFINE h == hits[ip]
           C == CountedIn(h, i)
           B(m) == {n \in C : n < m}
<1>1. CountedUpTo(ip, i) = C
  BY DEF CountedUpTo, CountedIn
<1>2. ASSUME NEW m \in C PROVE B(m) = CountedIn(h, m - 1)
  <2>1. m \in 1 .. i
    BY DEF CountedIn
  <2>2. \A n : n \in 1 .. i /\ n < m <=> n \in 1 .. m - 1
    BY <2>1
  <2>3. QED
    BY <2>2 DEF CountedIn
<1> HIDE DEF C
<1>3. \A m \in C : h[m].at - h[Max(B(m))].at < TimeFrame <=> Joins(h, m)
  BY <1>2 DEF Joins, Before
<1>4. Wave(ip, i) = {j \in C : \A m \in C : m > j => h[m].at - h[Max(B(m))].at < TimeFrame}
  BY <1>1 DEF Wave
<1>5. WaveIn(h, i) = {j \in C : \A m \in C : m > j => Joins(h, m)}
  BY DEF WaveIn, C
<1> HIDE DEF B
<1>6. Wave(ip, i) = WaveIn(h, i)
  BY <1>3, <1>4, <1>5
<1>7. QED
  BY <1>6

\* Every request was judged by its wave.
LEMMA InvReported == Inv => ReportedIffWave
<1> SUFFICES ASSUME Inv, NEW ip \in Ips, NEW i \in DOMAIN hits[ip]
             PROVE  hits[ip][i].counted =>
                       (hits[ip][i].reported <=> Cardinality(Wave(ip, i)) >= Threshold)
  BY DEF ReportedIffWave
<1>1. hits[ip] \in Seq(Record) /\ Judged(hits[ip])
  BY DEF Inv, Recorded, Waves
<1>2. i \in Nat
  BY <1>1, LenProperties
<1>3. Wave(ip, i) = WaveIn(hits[ip], i)
  BY <1>2, WaveIsWaveIn
<1>4. QED
  BY <1>1, <1>3 DEF Judged

\* A wave is reported as soon as it is large enough, and nothing else is.
THEOREM WavesAreReported == Spec => []ReportedIffWave
BY Invariance, InvReported, PTL

\* Requests within one TimeFrame were answered by a report before them, or
\* were all counted and so make a wave that was reported.
LEMMA InvMissed == Inv => NoWaveMissed
<1> SUFFICES ASSUME Inv, NEW ip \in Ips, NEW i \in DOMAIN hits[ip],
                    i - Threshold + 1 >= 1,
                    hits[ip][i].at - hits[ip][i - Threshold + 1].at < TimeFrame
             PROVE  /\ reports[ip].at > 0
                    /\ reports[ip].at + MinBetween > hits[ip][i - Threshold + 1].at
  BY DEF NoWaveMissed
<1> DEFINE h == hits[ip]
           a == i - Threshold + 1
           r == reports[ip].at
<1>1. Threshold \in Nat /\ Threshold > 0 /\ MinBetween \in Nat /\ MinBetween > 0
  BY AttackWaveAssumption
<1>2. /\ h \in Seq(Record) /\ Ordered(h, now) /\ Judged(h) /\ Answered(h, r) /\ r \in Nat
  BY DEF Inv, Recorded, Waves, Sent
<1>3. h[i].at - h[a].at < TimeFrame /\ a >= 1
  OBVIOUS
<1> HIDE DEF h, r
<1>4. DOMAIN h = 1 .. Len(h) /\ Len(h) \in Nat /\ \A j \in 1 .. Len(h) : h[j] \in Record
  BY <1>2, LenProperties, ElementOfSeq
<1>5. i \in 1 .. Len(h)
  BY <1>4 DEF h
<1>6. a \in 1 .. i /\ a \in 1 .. Len(h) /\ i - a + 1 = Threshold
  BY <1>1, <1>3, <1>4, <1>5
<1> HIDE DEF a
<1>7. \A j \in 1 .. Len(h) : h[j].at \in Nat
  BY <1>4 DEF Record
<1>8. \A j \in a .. i : j \in 1 .. Len(h) /\ h[a].at <= h[j].at
  <2>1. \A j \in a .. i : j \in 1 .. Len(h) /\ (a = j \/ a < j)
    BY <1>4, <1>5, <1>6
  <2>2. \A j \in a .. i : a < j => h[a].at <= h[j].at
    BY <1>2, <1>4, <1>6, <2>1 DEF Ordered
  <2>3. h[a].at <= h[a].at
    BY <1>6, <1>7
  <2>4. QED
    BY <2>1, <2>2, <2>3
<1>9. CASE \E j \in a .. i : ~ h[j].counted
  <2>1. PICK j \in a .. i : ~ h[j].counted
    BY <1>9
  <2>2. r > 0 /\ r + MinBetween > h[j].at
    BY <1>2, <1>4, <1>8, <2>1 DEF Answered
  <2>3. h[a].at \in Nat /\ h[j].at \in Nat /\ h[a].at <= h[j].at
    BY <1>6, <1>7, <1>8
  <2>4. r + MinBetween > h[a].at
    BY <1>1, <1>2, <2>2, <2>3
  <2>5. QED
    BY <2>2, <2>4 DEF h, r, a
<1>10. CASE \A j \in a .. i : h[j].counted
  <2> DEFINE W == WaveIn(h, i)
  <2>1. a .. i \subseteq W
    BY <1>2, <1>3, <1>4, <1>5, <1>6, <1>10, RunIsOneWave
  <2>2. IsFiniteSet(W) /\ Cardinality(W) \in Nat
    BY <1>5, WaveIsFinite
  <2>3. Cardinality(a .. i) = Threshold
    <3>1. a \in Int /\ i \in Int /\ ~(a > i)
      BY <1>4, <1>5, <1>6
    <3>2. QED
      BY <1>6, <3>1, FS_Interval
  <2> HIDE DEF W
  <2>4. Cardinality(a .. i) <= Cardinality(W)
    BY <2>1, <2>2, FS_Subset
  <2>5. Cardinality(W) >= Threshold
    BY <1>1, <2>2, <2>3, <2>4
  <2>6. h[i].counted
    <3>1. i \in a .. i
      BY <1>4, <1>5, <1>6
    <3>2. QED
      BY <1>10, <3>1
  <2>7. h[i].reported
    BY <1>2, <1>4, <1>5, <2>5, <2>6 DEF Judged, W
  <2>8. r >= h[i].at
    BY <1>2, <1>4, <1>5, <2>7 DEF Answered
  <2>9. h[i].at \in Nat /\ h[a].at \in Nat /\ h[a].at <= h[i].at /\ h[a].at >= 1
    <3>1. i \in a .. i
      BY <1>4, <1>5, <1>6
    <3>2. QED
      BY <1>2, <1>4, <1>5, <1>6, <1>7, <1>8, <3>1 DEF Ordered
  <2>10. r > 0 /\ r + MinBetween > h[a].at
    BY <1>1, <1>2, <2>8, <2>9
  <2>11. QED
    BY <2>10 DEF h, r, a
<1>11. QED
  BY <1>9, <1>10

\* Suppressing repeated reports never hides a new wave.
THEOREM NoWaveIsMissed == Spec => []NoWaveMissed
BY Invariance, InvMissed, PTL

\* What was told of the last reported wave is about that wave.
LEMMA InvTells == Inv => EventTellsItsWave
<1> DEFINE known == hits[event.ip]
           at == {i \in DOMAIN known : known[i].reported}
           M == Max(at)
           of == {known[j].sample : j \in Wave(event.ip, M)}
           s == event.samples
<1> SUFFICES ASSUME Inv, event # NoEvent, at # {}
             PROVE  /\ {s[i] : i \in DOMAIN s} \subseteq of
                    /\ Len(s) = IF Cardinality(of) < MaxSamples THEN Cardinality(of)
                                ELSE MaxSamples
  BY DEF EventTellsItsWave
<1>1. event.ip \in Ips /\ TellsLast(known, s)
  BY DEF Inv, Told
<1>2. known \in Seq(Record)
  BY <1>1 DEF Inv, Recorded
<1>3. Tells(SamplesOf(known, M), s)
  BY <1>1 DEF TellsLast
<1>4. Len(known) \in Nat /\ at \in SUBSET (1 .. Len(known))
  BY <1>2, LenProperties
<1>5. M \in Nat
  <2> HIDE DEF at, known
  <2>1. M \in at
    BY <1>4, Largest
  <2> HIDE DEF M
  <2>2. M \in 1 .. Len(known)
    BY <1>4, <2>1
  <2>3. QED
    BY <1>4, <2>2
<1>6. Wave(event.ip, M) = WaveIn(known, M)
  BY <1>5, WaveIsWaveIn
<1>7. SamplesOf(known, M) = of
  BY <1>6 DEF SamplesOf
<1> HIDE DEF of, M
<1>8. QED
  BY <1>3, <1>7 DEF Tells, KeysOf

\* An event tells of its own wave, and of no older one.
THEOREM EventsTellTheirWave == Spec => []EventTellsItsWave
BY Invariance, InvTells, PTL

\* Only CheckReports changes what was reported, and it looks up the last
\* report first.
LEMMA StepApart ==
    ASSUME Inv, [Next]_vars
    PROVE  \A ip \in Ips :
              reports'[ip].at # reports[ip].at /\ reports[ip].at > 0 =>
                  \/ now - reports[ip].at >= MinBetween
                  \/ reports[ip].forgotten
<1>1. Recorded /\ Sent
  BY DEF Inv
<1>2. CASE reports' = reports
  BY <1>2
<1>3. ASSUME NEW who \in Ips, NEW sample \in Samples, CheckReports(who, sample),
             NEW ip \in Ips, reports'[ip].at # reports[ip].at, reports[ip].at > 0
      PROVE  now - reports[ip].at >= MinBetween \/ reports[ip].forgotten
  <2>1. \A j \in Ips : j # who => reports'[j].at = reports[j].at
    BY <1>1, <1>3, SentMarked DEF CheckReports
  <2>2. ip = who
    BY <1>3, <2>1
  <2>3. ~RecentlySent(ip)
    BY <1>3, <2>2 DEF CheckReports, Count
  <2> DEFINE last == reports[ip]
  <2>4. last.forgotten \/ last.at = 0 \/ now - last.at >= MinBetween
    BY <1>1, <2>3, SentDecides
  <2>5. last.at # 0
    BY <1>3
  <2>6. QED
    BY <2>4, <2>5
<1>4. reports' = reports \/ \E who \in Ips, sample \in Samples : CheckReports(who, sample)
  BY DEF Next, vars, history, CheckHarmless, CheckSuppressed, CheckCounts, Tick
<1>5. QED
  BY <1>2, <1>3, <1>4

\* Two reports of one address are MinBetween apart unless the first was
\* forgotten, in every behaviour.
THEOREM ReportsAreApart == Spec => ReportsApart
<1>1. Inv /\ [Next]_vars =>
         [\A ip \in Ips :
            reports'[ip].at # reports[ip].at /\ reports[ip].at > 0 =>
                \/ now - reports[ip].at >= MinBetween
                \/ reports[ip].forgotten]_vars
  BY StepApart
<1>2. QED
  BY Invariance, <1>1, PTL DEF Spec, ReportsApart
=============================================================================
