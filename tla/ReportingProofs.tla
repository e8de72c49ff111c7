-------------------------- MODULE ReportingProofs --------------------------
(***************************************************************************)
(* Proofs about Reporting and Serverless: for all facts, invocations,      *)
(* limits and times, and both for a long-running agent and on a serverless *)
(* platform,                                                               *)
(*   - nothing that was observed is reported twice or lost but with the    *)
(*     heartbeat that took it (ImplementsLedger);                          *)
(*   - nothing is sent while the API refuses reports (SilentWhileRefused), *)
(*     and an attack is reported unless it does or the limit is reached    *)
(*     (AttacksReportedUpToLimit);                                         *)
(*   - an invocation ends with its attack events answered, unless it gave  *)
(*     up on them (AttacksAwaited), and its statistics flushed recently    *)
(*     (EndsFlushed).                                                      *)
(*                                                                         *)
(* The first half is about reporting alone.  Step says what a step of      *)
(* either process may do to it, so that the invariant of reporting, the    *)
(* ledger and the promises about what is sent are proved once.  The second *)
(* half adds the invariant of the invocations.                             *)
(***************************************************************************)
EXTENDS Serverless, FiniteSetTheorems, WellFoundedInduction, TLAPS

-----------------------------------------------------------------------------
(* The filter of the attack events.  Its recursion is unfolded by looking  *)
(* at the smallest position where what is claimed would fail.              *)

\* A set of numbers has a smallest one.
LEMMA Smallest ==
    ASSUME NEW T, T \subseteq Nat, T # {}
    PROVE  \E m \in T : \A k \in T : m <= k
<1> DEFINE R == OpToRel(<, Nat)
<1>1. IsWellFoundedOn(R, Nat)
  BY NatLessThanWellFounded
<1>2. \A x, y \in Nat : <<x, y>> \in R <=> x < y
  BY DEF OpToRel
<1> HIDE DEF R
<1>3. PICK x \in T : \A y \in T : ~ (<<y, x>> \in R)
  BY <1>1, WFMin, Zenon
<1>4. ASSUME NEW y \in T PROVE x <= y
  <2>1. x \in Nat /\ y \in Nat /\ ~ (y < x)
    BY <1>2, <1>3
  <2>2. QED
    BY <2>1
<1> QED
  BY <1>4

\* How many times of s, or of its first n, are after t.
CountAfter(s, t) == Cardinality({i \in DOMAIN s : s[i] > t})

\* A function as After defines it exists.
LEMMA KeptExists ==
    ASSUME NEW s \in Seq(Int), NEW moment \in Int
    PROVE  \E kept : kept = [n \in 0 .. Len(s) |->
               IF n = 0 THEN << >>
               ELSE IF s[n] > moment THEN Append(kept[n - 1], s[n]) ELSE kept[n - 1]]
<1> DEFINE N == Len(s)
           V == Seq(Int)
           next(v, i) == IF s[i] > moment THEN Append(v, s[i]) ELSE v
           Kept(f, n) == f[0] = << >> /\ \A i \in 1 .. n : f[i] = next(f[i - 1], i)
           Bad == {n \in 0 .. N : \A f \in [0 .. n -> V] : ~Kept(f, n)}
<1>1. N \in Nat /\ << >> \in V
  OBVIOUS
<1>2. \A i \in 1 .. N, v \in V : next(v, i) \in V
  OBVIOUS
<1> HIDE DEF V, N, next
<1>3. ASSUME Bad # {} PROVE FALSE
  <2>1. PICK m \in Bad : \A k \in Bad : m <= k
    <3>1. Bad \subseteq Nat
      BY <1>1
    <3>2. QED
      BY <3>1, <1>3, Smallest, Zenon
  <2>2. m # 0
    <3>1. [i \in 0 .. 0 |-> << >>] \in [0 .. 0 -> V] /\ Kept([i \in 0 .. 0 |-> << >>], 0)
      BY <1>1
    <3>2. QED
      BY <2>1, <3>1
  <2>3. m - 1 \in 0 .. N /\ m - 1 \notin Bad /\ m \in 1 .. N
    <3>1. m \in 0 .. N
      BY <2>1
    <3>2. m - 1 \in 0 .. N /\ m \in 1 .. N /\ ~ (m <= m - 1)
      BY <3>1, <1>1, <2>2
    <3>3. QED
      BY <3>2, <2>1
  <2>4. PICK f \in [0 .. (m - 1) -> V] : Kept(f, m - 1)
    BY <2>3
  <2> DEFINE g == [i \in 0 .. m |-> IF i = m THEN next(f[m - 1], m) ELSE f[i]]
  <2>5. f[m - 1] \in V /\ next(f[m - 1], m) \in V
    BY <1>1, <1>2, <2>3, <2>4
  <2>6. g \in [0 .. m -> V]
    BY <1>1, <2>3, <2>5
  <2>7. Kept(g, m)
    <3>1. g[0] = << >>
      BY <1>1, <2>3, <2>4
    <3>2. ASSUME NEW i \in 1 .. m PROVE g[i] = next(g[i - 1], i)
      <4>1. i - 1 \in 0 .. m /\ i - 1 # m /\ i \in 0 .. m
        BY <1>1, <2>3
      <4>2. g[i - 1] = f[i - 1]
        BY <4>1
      <4>3. CASE i = m
        BY <4>1, <4>2, <4>3
      <4>4. CASE i # m
        <5>1. i \in 1 .. (m - 1) /\ g[i] = f[i]
          BY <1>1, <4>4, <2>3
        <5>2. QED
          BY <2>4, <4>2, <5>1
      <4>5. QED
        BY <4>3, <4>4
    <3>3. QED
      BY <3>1, <3>2
  <2>8. QED
    BY <2>1, <2>6, <2>7
<1>4. PICK f \in [0 .. N -> V] : Kept(f, N)
  BY <1>1, <1>3
<1> DEFINE g == [n \in 0 .. N |-> IF n = 0 THEN << >> ELSE next(f[n - 1], n)]
<1>5. f = g
  <2>1. ASSUME NEW n \in 0 .. N PROVE f[n] = g[n]
    <3>1. CASE n = 0
      BY <3>1, <1>4
    <3>2. CASE n # 0
      <4>1. n \in 1 .. N
        BY <3>2, <1>1
      <4>2. QED
        BY <4>1, <3>2, <1>4
    <3>3. QED
      BY <3>1, <3>2
  <2>2. f = [n \in 0 .. N |-> f[n]] /\ g = [n \in 0 .. N |-> g[n]]
    BY <1>4
  <2> HIDE DEF g
  <2>3. QED
    BY <2>1, <2>2
<1>6. QED
  BY <1>5 DEF N, next

\* The recursion of After, unfolded.
LEMMA AfterUnfolds ==
    ASSUME NEW s \in Seq(Int), NEW moment \in Int
    PROVE  \E kept :
              /\ After(s, moment) = kept[Len(s)]
              /\ kept[0] = << >>
              /\ \A n \in 1 .. Len(s) :
                    kept[n] = IF s[n] > moment THEN Append(kept[n - 1], s[n]) ELSE kept[n - 1]
<1> DEFINE Eq(kept) == kept = [n \in 0 .. Len(s) |->
               IF n = 0 THEN << >>
               ELSE IF s[n] > moment THEN Append(kept[n - 1], s[n]) ELSE kept[n - 1]]
           kept == CHOOSE kept : Eq(kept)
<1>1. \E k : Eq(k)
  BY KeptExists
<1>2. Eq(kept)
  <2> HIDE DEF Eq
  <2>1. QED
    BY <1>1, Zenon
<1>3. After(s, moment) = kept[Len(s)]
  BY DEF After
<1>4. kept[0] = << >> /\ \A n \in 1 .. Len(s) :
         kept[n] = IF s[n] > moment THEN Append(kept[n - 1], s[n]) ELSE kept[n - 1]
  <2>1. Len(s) \in Nat
    OBVIOUS
  <2> HIDE DEF kept
  <2>2. kept[0] = << >>
    BY <1>2, <2>1
  <2>3. ASSUME NEW n \in 1 .. Len(s)
        PROVE  kept[n] = IF s[n] > moment THEN Append(kept[n - 1], s[n]) ELSE kept[n - 1]
    <3>1. n \in 0 .. Len(s) /\ n # 0
      BY <2>1
    <3>2. QED
      BY <3>1, <1>2
  <2>4. QED
    BY <2>2, <2>3
<1> HIDE DEF kept
<1>5. QED
  BY <1>3, <1>4

\* One element more.
LEMMA OneMore ==
    ASSUME NEW S, IsFiniteSet(S), NEW x, x \notin S
    PROVE  Cardinality(S \cup {x}) = Cardinality(S) + 1 /\ IsFiniteSet(S \cup {x})
BY FS_AddElement

CountUpTo(s, n, t) == Cardinality({i \in 1 .. n : s[i] > t})

\* Counting one position more.
LEMMA CountUpToFacts ==
    ASSUME NEW s, NEW n \in Nat, NEW t \in Int
    PROVE  /\ CountUpTo(s, 0, t) = 0
           /\ CountUpTo(s, n, t) \in Nat
           /\ CountUpTo(s, n + 1, t) = CountUpTo(s, n, t) + IF s[n + 1] > t THEN 1 ELSE 0
<1> DEFINE S(m) == {i \in 1 .. m : s[i] > t}
<1>1. \A m \in Nat : IsFiniteSet(S(m))
  <2>1. ASSUME NEW m \in Nat PROVE IsFiniteSet(S(m))
    <3>1. IsFiniteSet(1 .. m)
      BY FS_Interval
    <3>2. S(m) \subseteq 1 .. m
      OBVIOUS
    <3>3. QED
      BY <3>1, <3>2, FS_Subset
  <2>2. QED
    BY <2>1
<1>2. S(0) = {}
  OBVIOUS
<1>3. CASE s[n + 1] > t
  <2>1. S(n + 1) = S(n) \cup {n + 1} /\ n + 1 \notin S(n)
    BY <1>3
  <2>2. Cardinality(S(n) \cup {n + 1}) = Cardinality(S(n)) + 1
    BY <2>1, <1>1, OneMore
  <2>3. QED
    BY <1>1, <1>2, <1>3, <2>1, <2>2, FS_EmptySet, FS_CardinalityType DEF CountUpTo
<1>4. CASE ~ (s[n + 1] > t)
  <2>1. S(n + 1) = S(n)
    BY <1>4
  <2>2. Cardinality(S(n)) \in Nat
    BY <1>1, FS_CardinalityType
  <2>3. QED
    BY <1>1, <1>2, <1>4, <2>1, <2>2, FS_EmptySet DEF CountUpTo
<1>5. QED
  BY <1>3, <1>4

\* Counting one time more.
LEMMA CountAppend ==
    ASSUME NEW s \in Seq(Int), NEW x \in Int, NEW t \in Int
    PROVE  /\ CountAfter(s, t) \in Nat
           /\ CountAfter(Append(s, x), t) = CountAfter(s, t) + IF x > t THEN 1 ELSE 0
<1> DEFINE n == Len(s)
           r == Append(s, x)
<1>1. /\ n \in Nat /\ DOMAIN s = 1 .. n /\ DOMAIN r = 1 .. n + 1
      /\ r[n + 1] = x /\ \A i \in 1 .. n : r[i] = s[i]
  OBVIOUS
<1> HIDE DEF n, r
<1>2. {i \in 1 .. n : r[i] > t} = {i \in 1 .. n : s[i] > t}
  BY <1>1
<1>3. CountAfter(r, t) = CountUpTo(r, n + 1, t) /\ CountAfter(s, t) = CountUpTo(r, n, t)
  BY <1>1, <1>2 DEF CountAfter, CountUpTo
<1>4. /\ CountUpTo(r, n, t) \in Nat
      /\ CountUpTo(r, n + 1, t) = CountUpTo(r, n, t) + IF r[n + 1] > t THEN 1 ELSE 0
  BY <1>1, CountUpToFacts
<1>5. QED
  BY <1>1, <1>3, <1>4 DEF r

\* All times stay after t when such a time is appended.
LEMMA AppendAbove ==
    ASSUME NEW s \in Seq(Int), NEW x \in Int, NEW t \in Int,
           x > t, \A i \in DOMAIN s : s[i] > t
    PROVE  Append(s, x) \in Seq(Int) /\ \A i \in DOMAIN Append(s, x) : Append(s, x)[i] > t
<1> DEFINE n == Len(s)
           r == Append(s, x)
<1>1. /\ n \in Nat /\ DOMAIN s = 1 .. n /\ DOMAIN r = 1 .. n + 1 /\ r \in Seq(Int)
      /\ r[n + 1] = x /\ \A i \in 1 .. n : r[i] = s[i]
  OBVIOUS
<1> HIDE DEF n, r
<1>2. ASSUME NEW i \in 1 .. n + 1 PROVE r[i] > t
  <2>1. CASE i = n + 1
    BY <1>1, <2>1
  <2>2. CASE i # n + 1
    <3>1. i \in 1 .. n
      BY <1>1, <2>2
    <3>2. QED
      BY <1>1, <3>1
  <2>3. QED
    BY <2>1, <2>2
<1>3. QED
  BY <1>1, <1>2 DEF r

\* The filter keeps what is after the moment, and its length counts it.
LEMMA AfterFacts ==
    ASSUME NEW s \in Seq(Int), NEW moment \in Int
    PROVE  /\ After(s, moment) \in Seq(Int)
           /\ Len(After(s, moment)) = CountAfter(s, moment)
           /\ \A t \in Int : t >= moment =>
                 CountAfter(After(s, moment), t) = CountAfter(s, t)
<1> DEFINE N == Len(s)
<1>1. N \in Nat /\ DOMAIN s = 1 .. N /\ \A i \in 1 .. N : s[i] \in Int
  OBVIOUS
<1>2. PICK kept :
         /\ After(s, moment) = kept[N]
         /\ kept[0] = << >>
         /\ \A n \in 1 .. N :
               kept[n] = IF s[n] > moment THEN Append(kept[n - 1], s[n]) ELSE kept[n - 1]
  BY AfterUnfolds
<1> DEFINE Good(n) ==
              /\ kept[n] \in Seq(Int)
              /\ \A i \in DOMAIN kept[n] : kept[n][i] > moment
              /\ \A t \in Int : t >= moment => CountAfter(kept[n], t) = CountUpTo(s, n, t)
           Bad == {n \in 0 .. N : ~ Good(n)}
<1> HIDE DEF N
<1>3. Good(0)
  <2>1. << >> \in Seq(Int) /\ DOMAIN << >> = {}
    OBVIOUS
  <2>2. \A t \in Int : CountAfter(<< >>, t) = 0
    BY <2>1, FS_EmptySet DEF CountAfter
  <2>3. QED
    BY <1>2, <2>1, <2>2, CountUpToFacts
<1>4. ASSUME NEW n \in 1 .. N, Good(n - 1) PROVE Good(n)
  <2>1. n - 1 \in Nat /\ (n - 1) + 1 = n /\ s[n] \in Int
    BY <1>1
  <2> DEFINE k == kept[n - 1]
  <2>2. k \in Seq(Int) /\ \A i \in DOMAIN k : k[i] > moment
    BY <1>4
  <2>3. \A t \in Int : t >= moment => CountAfter(k, t) = CountUpTo(s, n - 1, t)
    BY <1>4
  <2>4. \A t \in Int : /\ CountUpTo(s, n - 1, t) \in Nat
                       /\ CountUpTo(s, n, t) = CountUpTo(s, n - 1, t) + IF s[n] > t THEN 1 ELSE 0
    <3>1. ASSUME NEW t \in Int
          PROVE  LET i == n - 1
                 IN  /\ CountUpTo(s, i, t) \in Nat
                     /\ CountUpTo(s, i + 1, t) = CountUpTo(s, i, t) + IF s[i + 1] > t THEN 1 ELSE 0
      BY <2>1, CountUpToFacts, Zenon
    <3>2. QED
      BY <2>1, <3>1, Zenon
  <2>5. CASE s[n] > moment
    <3>1. kept[n] = Append(k, s[n])
      BY <1>2, <2>5
    <3>2. /\ Append(k, s[n]) \in Seq(Int)
          /\ \A i \in DOMAIN Append(k, s[n]) : Append(k, s[n])[i] > moment
      BY <2>1, <2>2, <2>5, AppendAbove
    <3>3. \A t \in Int :
             CountAfter(Append(k, s[n]), t) = CountAfter(k, t) + IF s[n] > t THEN 1 ELSE 0
      BY <2>1, <2>2, CountAppend
    <3> HIDE DEF k
    <3>4. QED
      BY <3>1, <3>2, <3>3, <2>3, <2>4
  <2>6. CASE ~ (s[n] > moment)
    <3>1. kept[n] = k
      BY <1>2, <2>6
    <3>2. \A t \in Int : t >= moment => ~ (s[n] > t)
      BY <2>1, <2>6
    <3> HIDE DEF k
    <3>3. ASSUME NEW t \in Int, t >= moment PROVE CountUpTo(s, n, t) = CountUpTo(s, n - 1, t)
      <4>1. /\ CountUpTo(s, n - 1, t) \in Nat
            /\ CountUpTo(s, n, t) = CountUpTo(s, n - 1, t) + IF s[n] > t THEN 1 ELSE 0
        BY <2>4, Zenon
      <4>2. ~ (s[n] > t)
        BY <3>2, <3>3
      <4>3. QED
        BY <4>1, <4>2
    <3>4. QED
      BY <3>1, <3>3, <2>2, <2>3
  <2>7. QED
    BY <2>5, <2>6
<1> HIDE DEF Good
<1>5. ASSUME Bad # {} PROVE FALSE
  <2>1. Bad \subseteq Nat
    BY <1>1
  <2>2. PICK m \in Bad : \A k \in Bad : m <= k
    BY <2>1, <1>5, Smallest, Zenon
  <2>3. m \in 1 .. N
    BY <2>2, <1>1, <1>3
  <2>4. m - 1 \in 0 .. N /\ ~ (m <= m - 1)
    BY <2>3, <1>1
  <2>5. Good(m - 1)
    BY <2>2, <2>4
  <2>6. QED
    BY <1>4, <2>2, <2>3, <2>5
<1>6. Good(N)
  BY <1>1, <1>5
<1> DEFINE k == After(s, moment)
<1>7. /\ k \in Seq(Int) /\ \A i \in DOMAIN k : k[i] > moment
      /\ \A t \in Int : t >= moment => CountAfter(k, t) = CountUpTo(s, N, t)
  BY <1>2, <1>6 DEF Good
<1> HIDE DEF k
<1>8. \A t \in Int : CountUpTo(s, N, t) = CountAfter(s, t)
  BY <1>1 DEF CountUpTo, CountAfter
<1>9. Len(k) = CountAfter(k, moment)
  <2>1. Len(k) \in Nat /\ DOMAIN k = 1 .. Len(k)
    BY <1>7
  <2>2. {i \in DOMAIN k : k[i] > moment} = 1 .. Len(k)
    BY <1>7, <2>1
  <2>3. Cardinality(1 .. Len(k)) = Len(k)
    <3>1. 1 \in Int /\ Len(k) \in Int
      BY <2>1
    <3>2. Cardinality(1 .. Len(k)) = IF 1 > Len(k) THEN 0 ELSE Len(k) - 1 + 1
      BY <3>1, FS_Interval, Zenon
    <3>3. QED
      BY <2>1, <3>2
  <2>4. QED
    BY <2>2, <2>3 DEF CountAfter
<1>10. QED
  BY <1>7, <1>8, <1>9 DEF k

\* The facts of the reports I; reports are told apart by name, and share no fact.
SentOf(I) == UNION {r.facts : r \in I}
FactsApart(I) == \A r, q \in I : r # q => r.facts \cap q.facts = {}

\* The reporting part of a step.
Same == UNCHANGED <<now, statistics, inflight, wrappers, pending, history>>

Observes(f) ==
    /\ statistics' = statistics \cup {f}
    /\ UNCHANGED <<now, inflight, wrappers, pending, history>>

Reports(a) ==
    /\ a \notin Observed
    /\ statistics' = statistics \cup {a}
    /\ report(a, "attack", {})
    /\ pending' = IF Passes("attack") THEN pending \cup {a} ELSE pending
    /\ UNCHANGED now

Takes(name, kind, s) ==
    /\ sendHeartbeat(name, kind, s)
    /\ UNCHANGED <<now, pending>>

Starts ==
    /\ report(Startup, "started", {})
    /\ UNCHANGED <<now, statistics, pending>>

Waits ==
    /\ now < MaxTime
    /\ now' = now + 1
    /\ UNCHANGED <<statistics, inflight, wrappers, pending, history>>

\* The statistics that are taken, one of the facts N among them or not.
TakenWith(N) == {statistics} \cup {statistics \cup {f} : f \in N}

StepWith(N) ==
    \/ \E f \in N : Observes(f)
    \/ \E a \in Attacks : Reports(a)
    \/ \E name \in Beats \cup Invocations, kind \in {"heartbeat", "flush"}, s \in TakenWith(N) :
          /\ kind = "heartbeat" => name \in Beats
          /\ Takes(name, kind, s)
    \/ Starts
    \/ \E r \in inflight, answer \in Answers : Answer(r, answer)
    \/ Waits
    \/ Same

New == Facts \ (Observed \cup Attacks)
Taken == TakenWith(New)
Step == StepWith(New)

Unreturned ==
    \A i \in Invocations : phase[i] \in {"idle", "starting", "running"} => i \notin Observed

\* The end of the finally block, seen from reporting.
LEMMA FlushStep ==
    ASSUME NEW N, NEW i \in Invocations, NEW s \in TakenWith(N), FlushIfDue(i, s),
           UNCHANGED <<now, pending>>
    PROVE  StepWith(N)
<1>1. CASE ~FlushDue /\ statistics' = s /\ UNCHANGED <<inflight, wrappers, history>>
  <2>1. CASE s = statistics
    BY <1>1, <2>1 DEF StepWith, Same
  <2>2. CASE s # statistics
    <3>1. PICK f \in N : s = statistics \cup {f}
      BY <2>2 DEF TakenWith
    <3>2. Observes(f)
      BY <1>1, <3>1 DEF Observes
    <3>3. QED
      BY <3>2 DEF StepWith
  <2>3. QED
    BY <2>1, <2>2
<1>2. CASE flushStats(i, s)
  BY <1>2 DEF flushStats, Takes, StepWith
<1>3. QED
  BY <1>1, <1>2 DEF FlushIfDue

\* Whatever either process does is a step of reporting, with what is observed
\* among N.
LEMMA NextStepsWith ==
    ASSUME NEW N, [Next]_allVars,
           \A f \in Calls : f \notin Observed => f \in N,
           \A i \in Invocations, bypassed \in BOOLEAN : Return(i, bypassed) => i \in N
    PROVE  StepWith(N)
<1>1. CASE UNCHANGED allVars
  BY <1>1 DEF allVars, vars, StepWith, Same, wrappers, history
<1>2. ASSUME NEW f \in Calls, Inspect(f) PROVE StepWith(N)
  BY <1>2 DEF Inspect, StepWith, Observes
<1>3. ASSUME NEW a \in Attacks, DetectAttack(a) PROVE StepWith(N)
  BY <1>3 DEF DetectAttack, Reports, StepWith
<1>4. ASSUME NEW b \in Beats, Heartbeat(b) PROVE StepWith(N)
  <2>1. Takes(b, "heartbeat", statistics)
    BY <1>4 DEF Heartbeat, Takes
  <2>2. QED
    BY <2>1 DEF StepWith, TakenWith
<1>5. ASSUME NEW b \in Beats, Shutdown(b) PROVE StepWith(N)
  <2>1. Takes(b, "flush", statistics)
    BY <1>5 DEF Shutdown, Takes, flushStats
  <2>2. QED
    BY <2>1 DEF StepWith, TakenWith
<1>6. ASSUME NEW r \in inflight, NEW answer \in Answers, Answer(r, answer) PROVE StepWith(N)
  BY <1>6 DEF StepWith
<1>7. CASE Tick \/ TickFrozen
  BY <1>7 DEF Tick, TickFrozen, StepWith, Waits
<1>8. ASSUME NEW i \in Invocations, Begin(i) PROVE StepWith(N)
  <2>1. CASE BeginFirst(i)
    BY <2>1 DEF BeginFirst, Starts, StepWith
  <2>2. CASE BeginLater(i)
    BY <2>2 DEF BeginLater, vars, Same, StepWith, wrappers, history
  <2>3. QED
    BY <1>8, <2>1, <2>2 DEF Begin
<1>9. ASSUME NEW i \in Invocations, NEW bypassed \in BOOLEAN, Return(i, bypassed) PROVE StepWith(N)
  <2> DEFINE s == IF bypassed THEN statistics ELSE statistics \cup {i}
  <2>1. s \in TakenWith(N)
    <3>1. i \in N
      BY <1>9
    <3>2. QED
      BY <3>1 DEF TakenWith
  <2>2. UNCHANGED <<now, pending>>
    BY <1>9 DEF Return
  <2>3. \/ FlushIfDue(i, s)
        \/ statistics' = s /\ UNCHANGED <<inflight, wrappers, history>>
    BY <1>9 DEF Return
  <2> HIDE DEF s
  <2>4. CASE FlushIfDue(i, s)
    BY <2>1, <2>2, <2>4, FlushStep
  <2>5. CASE statistics' = s /\ UNCHANGED <<inflight, wrappers, history>>
    <3>1. CASE s = statistics
      BY <2>2, <2>5, <3>1 DEF StepWith, Same
    <3>2. CASE s # statistics
      <4>1. PICK f \in N : s = statistics \cup {f}
        BY <2>1, <3>2 DEF TakenWith
      <4>2. Observes(f)
        BY <2>2, <2>5, <4>1 DEF Observes
      <4>3. QED
        BY <4>2 DEF StepWith
    <3>3. QED
      BY <3>1, <3>2
  <2>6. QED
    BY <2>3, <2>4, <2>5
<1>10. ASSUME NEW i \in Invocations, NEW timedOut \in BOOLEAN, WaitOver(i, timedOut)
       PROVE StepWith(N)
  <2>1. statistics \in TakenWith(N) /\ FlushIfDue(i, statistics) /\ UNCHANGED <<now, pending>>
    BY <1>10 DEF WaitOver, TakenWith
  <2>2. QED
    BY <2>1, FlushStep
<1>11. CASE AgentNext
  BY <1>2, <1>3, <1>4, <1>5, <1>6, <1>7, <1>11 DEF AgentNext, Observe, AnswerAgent
<1>12. CASE InvocationNext
  BY <1>2, <1>3, <1>6, <1>7, <1>8, <1>9, <1>10, <1>12
  DEF InvocationNext, Observe, AnswerInvocation
<1>13. QED
  BY <1>1, <1>11, <1>12 DEF Next

\* So is it with facts that were not observed before.
LEMMA NextSteps == Unreturned /\ [Next]_allVars => Step
<1> SUFFICES ASSUME Unreturned, [Next]_allVars PROVE Step
  OBVIOUS
<1>1. \A f \in Calls : f \notin Observed => f \in New
  BY FactsAssumption DEF New
<1>2. \A i \in Invocations, bypassed \in BOOLEAN : Return(i, bypassed) => i \in New
  BY InvocationsAssumption DEF Return, Unreturned, New
<1>3. QED
  BY <1>1, <1>2, NextStepsWith DEF Step

-----------------------------------------------------------------------------
(* What a step does to the facts.                                          *)

\* A report more.
LEMMA SentOfAdd ==
    ASSUME NEW I, NEW q
    PROVE  SentOf(I \cup {q}) = SentOf(I) \cup q.facts
BY DEF SentOf

\* A report less: the others keep their facts.
LEMMA SentOfRemove ==
    ASSUME NEW I, NEW r \in I, FactsApart(I)
    PROVE  SentOf(I \ {r}) = SentOf(I) \ r.facts /\ r.facts \subseteq SentOf(I)
<1>1. SentOf(I \ {r}) \subseteq SentOf(I) \ r.facts
  <2>1. ASSUME NEW f \in SentOf(I \ {r}) PROVE f \in SentOf(I) \ r.facts
    <3>1. PICK q \in I \ {r} : f \in q.facts
      BY DEF SentOf
    <3>2. q.facts \cap r.facts = {}
      BY <3>1 DEF FactsApart
    <3>3. QED
      BY <3>1, <3>2 DEF SentOf
  <2>2. QED
    BY <2>1
<1>2. SentOf(I) \ r.facts \subseteq SentOf(I \ {r}) /\ r.facts \subseteq SentOf(I)
  BY DEF SentOf
<1>3. QED
  BY <1>1, <1>2

\* What may happen to the facts: nothing, a fact is observed, all that is held
\* is taken with or without a new fact, or reports that were sent are settled.
FactsMove(se, se2) ==
    \/ UNCHANGED <<statistics, delivered, lost>> /\ se2 = se
    \/ /\ \E f \in Facts \ Observed : statistics' = statistics \cup {f}
       /\ UNCHANGED <<delivered, lost>> /\ se2 = se
    \/ \E s \in {statistics} \cup {statistics \cup {f} : f \in Facts \ Observed} :
          /\ statistics' = {} /\ UNCHANGED delivered
          /\ \/ se2 = se \cup s /\ UNCHANGED lost
             \/ se2 = se /\ lost' = lost \cup s
    \/ \E S \in SUBSET se :
          /\ se2 = se \ S /\ UNCHANGED statistics
          /\ \/ delivered' = delivered \cup S /\ UNCHANGED lost
             \/ lost' = lost \cup S /\ UNCHANGED delivered

\* The facts of a report are sent, or lost on the spot.
LEMMA ReportFacts ==
    ASSUME NEW name, NEW kind, NEW facts, report(name, kind, facts)
    PROVE  /\ UNCHANGED delivered
           /\ \/ SentOf(inflight') = SentOf(inflight) \cup facts /\ UNCHANGED lost
              \/ SentOf(inflight') = SentOf(inflight) /\ lost' = lost \cup facts
<1> DEFINE q == [name |-> name, kind |-> kind, facts |-> facts, at |-> now]
<1>1. q.facts = facts
  OBVIOUS
<1>2. \/ inflight' = inflight \cup {q} /\ UNCHANGED lost
      \/ inflight' = inflight /\ lost' = lost \cup facts
  BY DEF report
<1>3. UNCHANGED delivered
  BY DEF report
<1> HIDE DEF q
<1>4. QED
  BY <1>1, <1>2, <1>3, SentOfAdd

\* Every step moves facts as FactsMove says.
LEMMA StepMovesFacts ==
    ASSUME Step, FactsApart(inflight)
    PROVE  FactsMove(SentOf(inflight), SentOf(inflight'))
<1>1. CASE \E f \in New : Observes(f)
  BY <1>1 DEF Observes, history, FactsMove, New
<1>2. ASSUME NEW a \in Attacks, Reports(a) PROVE FactsMove(SentOf(inflight), SentOf(inflight'))
  <2>1. /\ UNCHANGED <<delivered, lost>> /\ SentOf(inflight') = SentOf(inflight)
    BY <1>2, ReportFacts DEF Reports
  <2>2. a \in Facts \ Observed
    BY <1>2, FactsAssumption DEF Reports
  <2>3. QED
    BY <1>2, <2>1, <2>2 DEF Reports, FactsMove
<1>3. ASSUME NEW name, NEW kind, NEW s \in Taken, Takes(name, kind, s)
      PROVE FactsMove(SentOf(inflight), SentOf(inflight'))
  <2>1. s \in {statistics} \cup {statistics \cup {f} : f \in Facts \ Observed}
    BY DEF Taken, TakenWith, New
  <2>2. report(name, kind, s) /\ statistics' = {}
    BY <1>3 DEF Takes, sendHeartbeat
  <2>3. QED
    BY <2>1, <2>2, ReportFacts DEF FactsMove
<1>4. CASE Starts
  <2>1. UNCHANGED <<statistics, delivered, lost>> /\ SentOf(inflight') = SentOf(inflight)
    BY <1>4, ReportFacts DEF Starts
  <2>2. QED
    BY <2>1 DEF FactsMove
<1>5. ASSUME NEW r \in inflight, NEW answer \in Answers, Answer(r, answer)
      PROVE FactsMove(SentOf(inflight), SentOf(inflight'))
  <2>1. SentOf(inflight') = SentOf(inflight) \ r.facts /\ r.facts \in SUBSET SentOf(inflight)
    BY <1>5, SentOfRemove DEF Answer
  <2>2. /\ UNCHANGED statistics
        /\ \/ delivered' = delivered \cup r.facts /\ UNCHANGED lost
           \/ lost' = lost \cup r.facts /\ UNCHANGED delivered
    BY <1>5 DEF Answer, AfterAnswer
  <2>3. QED
    BY <2>1, <2>2 DEF FactsMove
<1>6. CASE Waits \/ Same
  BY <1>6 DEF Waits, Same, history, FactsMove
<1>7. QED
  BY <1>1, <1>2, <1>3, <1>4, <1>5, <1>6 DEF Step, StepWith, Taken

SetsApart ==
    /\ statistics \cap Sent = {}
    /\ (statistics \cup Sent) \cap delivered = {}
    /\ (statistics \cup Sent \cup delivered) \cap lost = {}

\* The four places of a fact stay apart.
LEMMA MoveKeepsFacts ==
    ASSUME SetsApart, FactsMove(Sent, Sent')
    PROVE  SetsApart' /\ Observed \subseteq Observed'
BY DEF SetsApart, FactsMove, Observed

\* Facts are observed one after the other, and never forgotten.
LEMMA MoveObserves ==
    ASSUME FactsMove(Sent, Sent')
    PROVE  Observed \subseteq Observed' /\ Observed' \ Observed \subseteq Facts
BY DEF FactsMove, Observed

-----------------------------------------------------------------------------
(* Reporting, by itself.                                                   *)

NamedByKind(r) ==
    /\ r.kind = "started" => r.name = Startup
    /\ r.kind = "attack" => r.name \in Attacks
    /\ r.kind = "heartbeat" => r.name \in Beats
    /\ r.kind = "flush" => r.name \in Beats \cup Invocations
    /\ r.kind \in {"started", "attack", "heartbeat", "flush"}

Sends(name, kind, facts) ==
    /\ report(name, kind, facts)
    /\ NamedByKind([name |-> name, kind |-> kind, facts |-> facts, at |-> now])
    /\ facts \cap Sent = {}
    /\ name \in Attacks => name \in Observed' \ Observed
    /\ pending' = IF kind = "attack" /\ Passes(kind) THEN pending \cup {name} ELSE pending
    /\ UNCHANGED now

\* A step sends one report, or tries to; or settles one; or time passes; or
\* nothing of it happens.
LEMMA StepSends ==
    ASSUME Step, SetsApart
    PROVE  \/ \E name, kind, facts : Sends(name, kind, facts)
           \/ \E r \in inflight, answer \in Answers : Answer(r, answer)
           \/ Waits
           \/ UNCHANGED <<now, inflight, wrappers, pending, history>>
<1>1. ASSUME NEW a \in Attacks, Reports(a) PROVE Sends(a, "attack", {})
  <2>1. a \in Observed'
    BY <1>1 DEF Reports, Observed
  <2>2. QED
    BY <1>1, <2>1 DEF Reports, Sends, NamedByKind
<1>2. ASSUME NEW name \in Beats \cup Invocations, NEW kind \in {"heartbeat", "flush"},
             NEW s \in Taken, kind = "heartbeat" => name \in Beats, Takes(name, kind, s)
      PROVE  Sends(name, kind, s)
  <2>1. s \cap Sent = {}
    BY DEF SetsApart, Taken, TakenWith, New, Observed
  <2>2. name \notin Attacks
    BY NamesAssumption, InvocationsAssumption
  <2>3. kind # "attack" /\ kind # "started"
    OBVIOUS
  <2>4. QED
    BY <1>2, <2>1, <2>2, <2>3 DEF Takes, sendHeartbeat, Sends, NamedByKind
<1>3. ASSUME Starts PROVE Sends(Startup, "started", {})
  BY <1>3, NamesAssumption DEF Starts, Sends, NamedByKind
<1>4. CASE \E f \in New : Observes(f)
  BY <1>4 DEF Observes
<1>5. QED
  BY <1>1, <1>2, <1>3, <1>4 DEF Step, StepWith, Taken, Same

Named == \A r \in inflight : NamedByKind(r)
AttacksKnown == \A r \in inflight : r.name \in Attacks => r.name \in Observed
WrappersTellHistory == refused = [token |-> tokenIsInvalid, at |-> rateLimitedAt]
EventsCounted ==
    /\ events \in Seq(Int) /\ attackEvents \in Seq(Int)
    /\ \A t \in Int : t >= now - EventInterval =>
          CountAfter(events, t) = CountAfter(attackEvents, t)

ReportingInv ==
    /\ TypeOK
    /\ Observed \subseteq Facts
    /\ SetsApart
    /\ FactsApart(inflight)
    /\ Named
    /\ AttacksKnown
    /\ WrappersTellHistory
    /\ EventsCounted

\* What is under way after a step.
LEMMA SendsOne ==
    ASSUME NEW name, NEW kind, NEW facts, Sends(name, kind, facts)
    PROVE  /\ \A r \in inflight : r.name # name
           /\ \/ inflight' = inflight /\ ~Passes(kind)
              \/ /\ inflight' = inflight \cup
                       {[name |-> name, kind |-> kind, facts |-> facts, at |-> now]}
                 /\ Passes(kind)
           /\ UNCHANGED <<now, tokenIsInvalid, rateLimitedAt, refused>>
BY DEF Sends, report

\* The types, the distinct names and pendingPromises (PendingEvents.ts) are kept.
LEMMA TypeOKNext == TypeOK /\ Observed' \subseteq Facts /\ SetsApart /\ Step => TypeOK'
<1> SUFFICES ASSUME TypeOK, Observed' \subseteq Facts, SetsApart, Step PROVE TypeOK'
  OBVIOUS
<1>1. now \in Nat /\ MaxTime \in Nat /\ now <= MaxTime
  BY TimesAssumption DEF TypeOK
<1>2. statistics' \subseteq Facts
  BY DEF Observed
<1>3. ASSUME NEW name, NEW kind, NEW facts, Sends(name, kind, facts) PROVE TypeOK'
  <2> DEFINE q == [name |-> name, kind |-> kind, facts |-> facts, at |-> now]
  <2>1. q.name = name /\ q.kind = kind /\ q.at = now
    OBVIOUS
  <2>2. /\ \A r \in inflight : r.name # name
        /\ \/ inflight' = inflight /\ ~Passes(kind)
           \/ inflight' = inflight \cup {q} /\ Passes(kind)
        /\ UNCHANGED <<now, tokenIsInvalid, rateLimitedAt>>
    BY <1>3, SendsOne
  <2>3. pending' = IF kind = "attack" /\ Passes(kind) THEN pending \cup {name} ELSE pending
    BY <1>3 DEF Sends
  <2> HIDE DEF q
  <2>4. \A r \in inflight' : r.at \in 0 .. now'
    BY <1>1, <2>1, <2>2 DEF TypeOK
  <2>5. \A r, p \in inflight' : r.name = p.name => r = p
    BY <2>1, <2>2 DEF TypeOK
  <2>6. pending' = {r.name : r \in {p \in inflight' : p.kind = "attack"}}
    BY <2>1, <2>2, <2>3 DEF TypeOK
  <2>7. QED
    BY <1>2, <2>2, <2>4, <2>5, <2>6 DEF TypeOK
<1>4. ASSUME NEW r \in inflight, NEW answer \in Answers, Answer(r, answer) PROVE TypeOK'
  <2>1. inflight' = inflight \ {r} /\ now' = now
    BY <1>4 DEF Answer
  <2>2. tokenIsInvalid' \in BOOLEAN
    BY <1>4 DEF Answer, TypeOK
  <2>3. rateLimitedAt' \in 0 .. now' \cup {Never}
    BY <1>1, <1>4 DEF Answer, TypeOK, PausedSince
  <2>4. pending' = {q.name : q \in {p \in inflight' : p.kind = "attack"}}
    BY <1>4, <2>1 DEF Answer, PendingAfter, TypeOK
  <2>5. QED
    BY <1>2, <2>1, <2>2, <2>3, <2>4 DEF TypeOK
<1>5. CASE Waits
  <2>1. /\ now' \in 0 .. MaxTime /\ 0 .. now \subseteq 0 .. now'
        /\ UNCHANGED <<inflight, tokenIsInvalid, rateLimitedAt, pending>>
    BY <1>1, <1>5 DEF Waits, wrappers
  <2>2. QED
    BY <1>2, <2>1 DEF TypeOK
<1>6. CASE UNCHANGED <<now, inflight, wrappers, pending, history>>
  BY <1>2, <1>6 DEF TypeOK, wrappers
<1>7. QED
  BY <1>3, <1>4, <1>5, <1>6, StepSends

\* Reports keep their facts apart and their names by kind.
LEMMA InflightNext ==
    ASSUME FactsApart(inflight), Named, AttacksKnown, Observed \subseteq Observed',
           SetsApart, Step
    PROVE  FactsApart(inflight') /\ Named' /\ AttacksKnown'
<1>1. ASSUME NEW name, NEW kind, NEW facts, Sends(name, kind, facts)
      PROVE FactsApart(inflight') /\ Named' /\ AttacksKnown'
  <2> DEFINE q == [name |-> name, kind |-> kind, facts |-> facts, at |-> now]
  <2>1. q.name = name /\ q.facts = facts
    OBVIOUS
  <2>2. inflight' = inflight \/ inflight' = inflight \cup {q}
    BY <1>1, SendsOne
  <2>3. NamedByKind(q) /\ facts \cap Sent = {} /\ (name \in Attacks => name \in Observed')
    BY <1>1 DEF Sends
  <2> HIDE DEF q
  <2>4. \A r \in inflight : r.facts \cap facts = {}
    BY <2>3 DEF Sent
  <2>5. FactsApart(inflight')
    BY <2>1, <2>2, <2>4 DEF FactsApart
  <2>6. Named'
    BY <2>2, <2>3 DEF Named
  <2>7. AttacksKnown'
    BY <2>1, <2>2, <2>3 DEF AttacksKnown
  <2>8. QED
    BY <2>5, <2>6, <2>7
<1>2. CASE inflight' \subseteq inflight
  BY <1>2 DEF FactsApart, Named, AttacksKnown
<1>3. ASSUME NEW r \in inflight, NEW answer \in Answers, Answer(r, answer)
      PROVE inflight' \subseteq inflight
  BY <1>3 DEF Answer
<1>4. CASE Waits
  BY <1>2, <1>4 DEF Waits
<1>5. QED
  BY <1>1, <1>2, <1>3, <1>4, StepSends

\* The wrappers know what an outsider has seen answered.
LEMMA HistoryNext == WrappersTellHistory /\ SetsApart /\ Step => WrappersTellHistory'
<1> SUFFICES ASSUME WrappersTellHistory, SetsApart, Step PROVE WrappersTellHistory'
  OBVIOUS
<1>1. ASSUME NEW name, NEW kind, NEW facts, Sends(name, kind, facts) PROVE WrappersTellHistory'
  BY <1>1, SendsOne DEF WrappersTellHistory
<1>2. ASSUME NEW r \in inflight, NEW answer \in Answers, Answer(r, answer)
      PROVE WrappersTellHistory'
  BY <1>2 DEF Answer, PausedSince, WrappersTellHistory
<1>3. CASE Waits
  BY <1>3 DEF Waits, wrappers, history, WrappersTellHistory
<1>4. CASE UNCHANGED <<now, inflight, wrappers, pending, history>>
  BY <1>4 DEF wrappers, history, WrappersTellHistory
<1>5. QED
  BY <1>1, <1>2, <1>3, <1>4, StepSends

\* When an attack event passes the wrappers: what they know is what was sent.
LEMMA AttackPasses ==
    ASSUME now \in Nat, EventsCounted, WrappersTellHistory
    PROVE  Passes("attack") <=> ~Refused /\ Cardinality(AttackEventsInInterval) < MaxEvents
<1> DEFINE moment == now - EventInterval
<1>1. moment \in Int /\ EventInterval \in Int /\ MaxEvents \in Int
  BY TimesAssumption
<1>2. events \in Seq(Int) /\ CountAfter(events, moment) = CountAfter(attackEvents, moment)
  BY <1>1 DEF EventsCounted
<1>3. Len(RecentEvents) = CountAfter(events, moment)
  BY <1>1, <1>2, AfterFacts DEF RecentEvents
<1>4. CountAfter(attackEvents, moment) = Cardinality(AttackEventsInInterval)
  <2>1. \A i \in DOMAIN attackEvents : attackEvents[i] \in Int
    BY DEF EventsCounted
  <2>2. {i \in DOMAIN attackEvents : attackEvents[i] > moment} = AttackEventsInInterval
    BY <1>1, <2>1 DEF AttackEventsInInterval
  <2>3. QED
    BY <2>2 DEF CountAfter
<1>5. CountAfter(events, moment) \in Int
  <2>1. \A x \in {1} : CountAfter(events, moment) \in Nat
    BY <1>1, <1>2, CountAppend
  <2>2. QED
    BY <2>1
<1>6. Len(RecentEvents) >= MaxEvents <=> ~ (Cardinality(AttackEventsInInterval) < MaxEvents)
  BY <1>1, <1>2, <1>3, <1>4, <1>5
<1>7. Refused <=> tokenIsInvalid \/ Paused
  BY DEF Refused, Paused, WrappersTellHistory
<1>8. QED
  BY <1>6, <1>7 DEF Passes, Held, ReachesLimit

\* Filtering the events never changes how many fall into an interval that is
\* still to be asked about.
LEMMA EventsNext ==
    ASSUME now \in Nat, EventsCounted, SetsApart, Step
    PROVE  EventsCounted'
<1> DEFINE moment == now - EventInterval
<1>1. moment \in Int /\ EventInterval \in Nat
  BY TimesAssumption
<1>2. events \in Seq(Int) /\ attackEvents \in Seq(Int)
  BY DEF EventsCounted
<1>3. \A t \in Int : t >= moment => CountAfter(events, t) = CountAfter(attackEvents, t)
  BY DEF EventsCounted
<1>4. /\ RecentEvents \in Seq(Int)
      /\ \A t \in Int : t >= moment => CountAfter(RecentEvents, t) = CountAfter(events, t)
  BY <1>1, <1>2, AfterFacts DEF RecentEvents
<1>5. \A s \in Seq(Int), t \in Int :
         CountAfter(Append(s, now), t) = CountAfter(s, t) + IF now > t THEN 1 ELSE 0
  BY CountAppend
<1>6. \A s \in Seq(Int) : Append(s, now) \in Seq(Int)
  OBVIOUS
<1>7. ASSUME UNCHANGED now, events' \in Seq(Int), attackEvents' \in Seq(Int),
             \A t \in Int : t >= moment => CountAfter(events', t) = CountAfter(attackEvents', t)
      PROVE  EventsCounted'
  BY <1>7 DEF EventsCounted
<1> HIDE DEF moment
<1>8. ASSUME NEW name, NEW kind, NEW facts, Sends(name, kind, facts) PROVE EventsCounted'
  <2>1. /\ UNCHANGED now
        /\ events' = Record(kind)
        /\ attackEvents' =
              IF Passes(kind) /\ kind = "attack" THEN Append(attackEvents, now) ELSE attackEvents
    BY <1>8 DEF Sends, report
  <2>2. CASE ~ReachesLimit(kind)
    <3>1. events' = events /\ attackEvents' = attackEvents
      BY <2>1, <2>2 DEF Record, ReachesLimit, Passes
    <3>2. QED
      BY <1>2, <1>3, <1>7, <2>1, <3>1
  <2>3. CASE ReachesLimit(kind) /\ Held(kind)
    <3>1. events' = RecentEvents /\ attackEvents' = attackEvents
      BY <2>1, <2>3 DEF Record, Passes
    <3>2. QED
      BY <1>2, <1>3, <1>4, <1>7, <2>1, <3>1
  <2>4. CASE ReachesLimit(kind) /\ ~Held(kind)
    <3>1. events' = Append(RecentEvents, now) /\ attackEvents' = Append(attackEvents, now)
      BY <2>1, <2>4 DEF Record, Passes, ReachesLimit
    <3>2. ASSUME NEW t \in Int, t >= moment
          PROVE  CountAfter(events', t) = CountAfter(attackEvents', t)
      BY <1>2, <1>3, <1>4, <1>5, <3>1, <3>2
    <3>3. QED
      BY <1>2, <1>4, <1>6, <1>7, <2>1, <3>1, <3>2
  <2>5. QED
    BY <2>2, <2>3, <2>4
<1>9. CASE UNCHANGED <<now, events, attackEvents>>
  BY <1>9 DEF EventsCounted
<1>10. ASSUME NEW r \in inflight, NEW answer \in Answers, Answer(r, answer)
       PROVE UNCHANGED <<now, events, attackEvents>>
  BY <1>10 DEF Answer
<1>11. CASE Waits
  <2>1. now' = now + 1 /\ UNCHANGED <<events, attackEvents>>
    BY <1>11 DEF Waits, wrappers, history
  <2>2. ASSUME NEW t \in Int, t >= now' - EventInterval PROVE t >= moment
    BY <1>1, <2>1, <2>2 DEF moment
  <2>3. QED
    BY <1>2, <1>3, <2>1, <2>2 DEF EventsCounted
<1>12. CASE UNCHANGED <<now, inflight, wrappers, pending, history>>
  BY <1>9, <1>12 DEF wrappers, history
<1>13. QED
  BY <1>8, <1>9, <1>10, <1>11, <1>12, StepSends

\* The invariant of reporting is kept by every step.
LEMMA ReportingNext == ReportingInv /\ Step => ReportingInv' /\ Observed \subseteq Observed'
<1> SUFFICES ASSUME ReportingInv, Step PROVE ReportingInv' /\ Observed \subseteq Observed'
  OBVIOUS
<1>1. FactsMove(Sent, Sent')
  BY StepMovesFacts DEF ReportingInv, SentOf, Sent
<1>2. SetsApart' /\ Observed \subseteq Observed' /\ Observed' \ Observed \subseteq Facts
  BY <1>1, MoveKeepsFacts, MoveObserves DEF ReportingInv
<1>3. Observed' \subseteq Facts
  BY <1>2 DEF ReportingInv
<1>4. TypeOK'
  BY <1>3, TypeOKNext DEF ReportingInv
<1>5. FactsApart(inflight)' /\ Named' /\ AttacksKnown'
  BY <1>2, InflightNext DEF ReportingInv, FactsApart
<1>6. WrappersTellHistory'
  BY HistoryNext DEF ReportingInv
<1>7. EventsCounted'
  BY EventsNext, TimesAssumption DEF ReportingInv, TypeOK
<1>8. QED
  BY <1>2, <1>3, <1>4, <1>5, <1>6, <1>7 DEF ReportingInv

\* It holds at first.
LEMMA ReportingInit == Init => ReportingInv
<1> SUFFICES ASSUME Init PROVE ReportingInv
  OBVIOUS
<1>1. inflight = {} \/ inflight = {StartupEvent}
  BY DEF Init
<1>2. /\ StartupEvent.facts = {} /\ StartupEvent.name = Startup
      /\ StartupEvent.kind = "started" /\ StartupEvent.at = now
  BY DEF StartupEvent
<1>3. Sent = {}
  BY <1>1, <1>2 DEF Sent
<1>4. TypeOK
  <2>1. now = 0 /\ 0 \in 0 .. MaxTime /\ 0 \in 0 .. now
    BY TimesAssumption DEF Init
  <2>2. pending = {r.name : r \in {q \in inflight : q.kind = "attack"}}
    <3>1. {q \in inflight : q.kind = "attack"} = {}
      BY <1>1, <1>2
    <3>2. QED
      BY <3>1 DEF Init
  <2>3. \A r \in inflight : r.at \in 0 .. now
    BY <1>1, <1>2, <2>1
  <2>4. \A r, q \in inflight : r.name = q.name => r = q
    BY <1>1
  <2>5. /\ statistics \subseteq Facts /\ tokenIsInvalid \in BOOLEAN
        /\ rateLimitedAt \in 0 .. now \cup {Never}
    BY DEF Init
  <2>6. QED
    BY <2>1, <2>2, <2>3, <2>4, <2>5 DEF TypeOK
<1>5. SetsApart /\ Observed \subseteq Facts
  BY <1>3 DEF Init, SetsApart, Observed
<1>6. FactsApart(inflight) /\ Named /\ AttacksKnown
  BY <1>1, <1>2, NamesAssumption DEF FactsApart, Named, NamedByKind, AttacksKnown
<1>7. WrappersTellHistory /\ EventsCounted
  <2>1. events = << >> /\ attackEvents = << >> /\ << >> \in Seq(Int)
    BY DEF Init
  <2>2. QED
    BY <2>1 DEF Init, WrappersTellHistory, EventsCounted
<1>8. QED
  BY <1>4, <1>5, <1>6, <1>7 DEF ReportingInv

-----------------------------------------------------------------------------
(* What a step may not do.                                                 *)

\* No step sends while refused.
LEMMA StepIsSilent ==
    ASSUME ReportingInv, Step
    PROVE  inflight' \ inflight # {} => ~Refused
<1>1. ASSUME NEW name, NEW kind, NEW facts, Sends(name, kind, facts)
      PROVE  inflight' \ inflight # {} => ~Refused
  <2>1. Passes(kind) => ~Refused
    BY DEF Passes, Paused, Refused, ReportingInv, WrappersTellHistory
  <2>2. QED
    BY <1>1, <2>1, SendsOne
<1>2. ASSUME NEW r \in inflight, NEW answer \in Answers, Answer(r, answer)
      PROVE inflight' \subseteq inflight
  BY <1>2 DEF Answer
<1>3. CASE Waits
  BY <1>3 DEF Waits
<1>4. QED
  BY <1>1, <1>2, <1>3, StepSends DEF ReportingInv

\* An attack is observed by the step that tries to report it.
LEMMA AttackIsReported ==
    ASSUME ReportingInv, Step, NEW a \in Attacks, a \notin Observed, a \in Observed'
    PROVE  Reports(a)
<1>1. Observed' = statistics' \cup SentOf(inflight') \cup delivered' \cup lost'
  BY DEF Observed, Sent, SentOf
<1>2. Observed = statistics \cup SentOf(inflight) \cup delivered \cup lost
  BY DEF Observed, Sent, SentOf
<1>3. CASE \E f \in New : Observes(f)
  <2>1. PICK f \in New : Observes(f)
    BY <1>3
  <2>2. Observed' = Observed \cup {f} /\ f # a
    BY <2>1, <1>1, <1>2 DEF Observes, history, New
  <2>3. QED
    BY <2>2
<1>4. ASSUME NEW b \in Attacks, Reports(b) PROVE Reports(a)
  <2>1. SentOf(inflight') = SentOf(inflight) /\ UNCHANGED <<delivered, lost>>
    BY <1>4, ReportFacts DEF Reports
  <2>2. Observed' = Observed \cup {b}
    BY <2>1, <1>1, <1>2, <1>4 DEF Reports
  <2>3. QED
    BY <2>2, <1>4
<1>5. ASSUME NEW name, NEW kind, NEW s \in Taken, Takes(name, kind, s) PROVE FALSE
  <2>1. a \notin s
    BY <1>2 DEF Taken, TakenWith, New
  <2>2. /\ statistics' = {} /\ delivered' = delivered
        /\ \/ SentOf(inflight') = SentOf(inflight) \cup s /\ UNCHANGED lost
           \/ SentOf(inflight') = SentOf(inflight) /\ lost' = lost \cup s
    BY <1>5, ReportFacts DEF Takes, sendHeartbeat
  <2>3. QED
    BY <1>1, <1>2, <2>1, <2>2
<1>6. CASE Starts
  <2>1. SentOf(inflight') = SentOf(inflight) /\ UNCHANGED <<statistics, delivered, lost>>
    BY <1>6, ReportFacts DEF Starts
  <2>2. QED
    BY <1>1, <1>2, <2>1
<1>7. ASSUME NEW r \in inflight, NEW answer \in Answers, Answer(r, answer) PROVE FALSE
  <2>1. SentOf(inflight') = SentOf(inflight) \ r.facts /\ r.facts \subseteq SentOf(inflight)
    BY <1>7, SentOfRemove DEF Answer, ReportingInv
  <2>2. UNCHANGED statistics /\ delivered' \subseteq delivered \cup r.facts
        /\ lost' \subseteq lost \cup r.facts
    BY <1>7 DEF Answer, AfterAnswer
  <2>3. QED
    BY <1>1, <1>2, <2>1, <2>2
<1>8. CASE Waits \/ Same
  BY <1>1, <1>2, <1>8 DEF Waits, Same, history
<1>9. QED
  BY <1>3, <1>4, <1>5, <1>6, <1>7, <1>8 DEF Step, StepWith, Taken

\* That step sends it unless refused or over the limit.
LEMMA StepReportsUpToLimit ==
    ASSUME ReportingInv, Step, NEW a \in Attacks, a \notin Observed, a \in Observed'
    PROVE  (\E r \in inflight' : r.name = a)
              <=> ~Refused /\ Cardinality(AttackEventsInInterval) < MaxEvents
<1>1. report(a, "attack", {})
  BY AttackIsReported DEF Reports
<1> DEFINE q == [name |-> a, kind |-> "attack", facts |-> {}, at |-> now]
<1>2. q.name = a
  OBVIOUS
<1>3. /\ \A r \in inflight : r.name # a
      /\ inflight' = IF Passes("attack") THEN inflight \cup {q} ELSE inflight
  BY <1>1 DEF report
<1> HIDE DEF q
<1>4. (\E r \in inflight' : r.name = a) <=> Passes("attack")
  BY <1>2, <1>3
<1>5. QED
  BY <1>4, AttackPasses, TimesAssumption DEF ReportingInv, TypeOK

-----------------------------------------------------------------------------
(* The ledger: where a fact is decides its fate, and where it moves moves  *)
(* its fate.                                                               *)

FateOf(st, se, de, lo) ==
    [f \in Facts |->
        CASE f \in st -> "held"
          [] f \in se \ st -> "sent"
          [] f \in de \ (se \cup st) -> "delivered"
          [] f \in lo \ (de \cup se \cup st) -> "lost"
          [] OTHER -> "unseen"]

DisjointSets(st, se, de, lo) ==
    /\ st \cap se = {}
    /\ (st \cup se) \cap de = {}
    /\ (st \cup se \cup de) \cap lo = {}
    /\ st \cup se \cup de \cup lo \subseteq Facts

\* The fate of a fact that is in one place at most.
LEMMA FateOfFact ==
    ASSUME NEW st, NEW se, NEW de, NEW lo, DisjointSets(st, se, de, lo), NEW f \in Facts
    PROVE  FateOf(st, se, de, lo)[f] =
              IF f \in st THEN "held"
              ELSE IF f \in se THEN "sent"
              ELSE IF f \in de THEN "delivered"
              ELSE IF f \in lo THEN "lost" ELSE "unseen"
<1>1. CASE f \in st
  BY <1>1 DEF FateOf, DisjointSets
<1>2. CASE f \in se
  BY <1>2 DEF FateOf, DisjointSets
<1>3. CASE f \in de
  BY <1>3 DEF FateOf, DisjointSets
<1>4. CASE f \in lo
  BY <1>4 DEF FateOf, DisjointSets
<1>5. CASE f \notin st \cup se \cup de \cup lo
  BY <1>5 DEF FateOf, DisjointSets
<1>6. QED
  BY <1>1, <1>2, <1>3, <1>4, <1>5 DEF DisjointSets

\* When only the facts S move, and all to where the fate is d, S meets d.
LEMMA LedgerMoves ==
    ASSUME NEW st, NEW se, NEW de, NEW lo, DisjointSets(st, se, de, lo),
           NEW st2, NEW se2, NEW de2, NEW lo2, DisjointSets(st2, se2, de2, lo2),
           NEW S \in SUBSET Facts, NEW d \in {"held", "sent", "delivered", "lost"},
           \A f \in Facts \ S :
              /\ f \in st <=> f \in st2
              /\ f \in se <=> f \in se2
              /\ f \in de <=> f \in de2
              /\ f \in lo <=> f \in lo2,
           \A f \in S :
              /\ d = "held" => f \in st2
              /\ d = "sent" => f \in se2
              /\ d = "delivered" => f \in de2
              /\ d = "lost" => f \in lo2
    PROVE  FateOf(st2, se2, de2, lo2) = Promise!Meets(FateOf(st, se, de, lo), S, d)
<1> DEFINE before == FateOf(st, se, de, lo)
           after == FateOf(st2, se2, de2, lo2)
           met == Promise!Meets(before, S, d)
<1>1. ASSUME NEW f \in Facts PROVE after[f] = met[f]
  <2>1. met[f] = IF f \in S THEN d ELSE before[f]
    BY DEF Promise!Meets
  <2>2. before[f] = IF f \in st THEN "held"
                    ELSE IF f \in se THEN "sent"
                    ELSE IF f \in de THEN "delivered"
                    ELSE IF f \in lo THEN "lost" ELSE "unseen"
    BY FateOfFact
  <2>3. after[f] = IF f \in st2 THEN "held"
                   ELSE IF f \in se2 THEN "sent"
                   ELSE IF f \in de2 THEN "delivered"
                   ELSE IF f \in lo2 THEN "lost" ELSE "unseen"
    BY FateOfFact
  <2> HIDE DEF before, after, met
  <2>4. CASE f \in S
    BY <2>1, <2>3, <2>4 DEF DisjointSets
  <2>5. CASE f \notin S
    BY <2>1, <2>2, <2>3, <2>5
  <2>6. QED
    BY <2>4, <2>5
<1>2. after = [f \in Facts |-> after[f]]
  BY DEF FateOf
<1>3. met = [f \in Facts |-> met[f]]
  BY DEF Promise!Meets
<1> HIDE DEF after, met
<1>4. after = met
  BY <1>1, <1>2, <1>3
<1>5. QED
  BY <1>4 DEF after, met, before

\* The facts with a fate.
LEMMA WithFate ==
    ASSUME NEW st, NEW se, NEW de, NEW lo, DisjointSets(st, se, de, lo)
    PROVE  /\ Promise!With(FateOf(st, se, de, lo), "held") = st
           /\ Promise!With(FateOf(st, se, de, lo), "sent") = se
           /\ Promise!With(FateOf(st, se, de, lo), "unseen") = Facts \ (st \cup se \cup de \cup lo)
<1> DEFINE before == FateOf(st, se, de, lo)
<1>1. \A f \in Facts : before[f] = IF f \in st THEN "held"
                    ELSE IF f \in se THEN "sent"
                    ELSE IF f \in de THEN "delivered"
                    ELSE IF f \in lo THEN "lost" ELSE "unseen"
  BY FateOfFact
<1> HIDE DEF before
<1>2. Promise!With(before, "held") = st
  BY <1>1 DEF Promise!With, DisjointSets
<1>3. Promise!With(before, "sent") = se
  BY <1>1 DEF Promise!With, DisjointSets
<1>4. Promise!With(before, "unseen") = Facts \ (st \cup se \cup de \cup lo)
  BY <1>1 DEF Promise!With, DisjointSets
<1>5. QED
  BY <1>2, <1>3, <1>4 DEF before

\* Every step is a move of the ledger, or leaves every fate as it is.
LEMMA StepMoves ==
    ASSUME ReportingInv, ReportingInv', Step
    PROVE  Promise!Moves(Fate, Fate') \/ Fate' = Fate
<1> DEFINE st == statistics  se == Sent  de == delivered  lo == lost
           st2 == statistics'  se2 == Sent'  de2 == delivered'  lo2 == lost'
           before == FateOf(st, se, de, lo)
           after == FateOf(st2, se2, de2, lo2)
<1>1. Fate = before /\ Fate' = after
  BY DEF Fate, FateOf
<1>2. DisjointSets(st, se, de, lo) /\ DisjointSets(st2, se2, de2, lo2)
  BY DEF ReportingInv, SetsApart, Observed, DisjointSets
<1>3. /\ Promise!With(before, "held") = st
      /\ Promise!With(before, "sent") = se
      /\ Promise!With(before, "unseen") = Facts \ Observed
  BY <1>2, WithFate DEF Observed
<1>4. FactsMove(se, se2)
  BY StepMovesFacts DEF ReportingInv, SentOf, Sent
<1>5. CASE UNCHANGED <<statistics, delivered, lost>> /\ se2 = se
  BY <1>1, <1>5
<1>6. ASSUME NEW f \in Facts \ Observed, statistics' = statistics \cup {f},
             UNCHANGED <<delivered, lost>>, se2 = se
      PROVE  Promise!Observed(before, after)
  <2> HIDE DEF se, se2
  <2>1. after = Promise!Meets(before, {f}, "held")
    BY <1>2, <1>6, LedgerMoves
  <2>2. QED
    BY <1>3, <2>1 DEF Promise!Observed
<1>7. ASSUME NEW s \in {statistics} \cup {statistics \cup {f} : f \in Facts \ Observed},
             statistics' = {}, UNCHANGED delivered,
             \/ se2 = se \cup s /\ UNCHANGED lost
             \/ se2 = se /\ lost' = lost \cup s
      PROVE  Promise!Taken(before, after)
  <2> HIDE DEF se, se2
  <2>1. s \subseteq Facts /\ statistics \subseteq s
    BY <1>2 DEF DisjointSets
  <2>2. CASE se2 = se \cup s /\ UNCHANGED lost
    <3>1. \A f \in Facts \ s :
              /\ f \in st <=> f \in st2
              /\ f \in se <=> f \in se2
              /\ f \in de <=> f \in de2
              /\ f \in lo <=> f \in lo2
      BY <1>7, <2>1, <2>2
    <3>2. \A f \in s : f \in se2
      BY <2>2
    <3>3. after = Promise!Meets(before, s, "sent")
      BY <1>2, <2>1, <3>1, <3>2, LedgerMoves
    <3>4. QED
      BY <1>3, <3>3 DEF Promise!Taken
  <2>3. CASE se2 = se /\ lost' = lost \cup s
    <3>1. \A f \in Facts \ s :
              /\ f \in st <=> f \in st2
              /\ f \in se <=> f \in se2
              /\ f \in de <=> f \in de2
              /\ f \in lo <=> f \in lo2
      BY <1>7, <2>1, <2>3
    <3>2. \A f \in s : f \in lo2
      BY <2>3
    <3>3. after = Promise!Meets(before, s, "lost")
      BY <1>2, <2>1, <3>1, <3>2, LedgerMoves
    <3>4. QED
      BY <1>3, <3>3 DEF Promise!Taken
  <2>4. QED
    BY <1>7, <2>2, <2>3
<1>8. ASSUME NEW S \in SUBSET se, se2 = se \ S, UNCHANGED statistics,
             \/ delivered' = delivered \cup S /\ UNCHANGED lost
             \/ lost' = lost \cup S /\ UNCHANGED delivered
      PROVE  Promise!Settled(before, after)
  <2> HIDE DEF se, se2
  <2>1. S \subseteq Facts
    BY <1>2 DEF DisjointSets
  <2>2. CASE delivered' = delivered \cup S /\ UNCHANGED lost
    <3>1. \A f \in Facts \ S :
              /\ f \in st <=> f \in st2
              /\ f \in se <=> f \in se2
              /\ f \in de <=> f \in de2
              /\ f \in lo <=> f \in lo2
      BY <1>8, <2>2
    <3>2. \A f \in S : f \in de2
      BY <2>2
    <3>3. after = Promise!Meets(before, S, "delivered")
      BY <1>2, <2>1, <3>1, <3>2, LedgerMoves
    <3>4. QED
      BY <1>3, <3>3 DEF Promise!Settled
  <2>3. CASE lost' = lost \cup S /\ UNCHANGED delivered
    <3>1. \A f \in Facts \ S :
              /\ f \in st <=> f \in st2
              /\ f \in se <=> f \in se2
              /\ f \in de <=> f \in de2
              /\ f \in lo <=> f \in lo2
      BY <1>8, <2>3
    <3>2. \A f \in S : f \in lo2
      BY <2>3
    <3>3. after = Promise!Meets(before, S, "lost")
      BY <1>2, <2>1, <3>1, <3>2, LedgerMoves
    <3>4. QED
      BY <1>3, <3>3 DEF Promise!Settled
  <2>4. QED
    BY <1>8, <2>2, <2>3
<1> HIDE DEF before, after
<1>9. QED
  BY <1>1, <1>4, <1>5, <1>6, <1>7, <1>8 DEF FactsMove, Promise!Moves

\* Nothing was observed at first.
LEMMA LedgerInit == Init => Promise!Init
<1> SUFFICES ASSUME Init PROVE Promise!Init
  OBVIOUS
<1>1. StartupEvent.facts = {}
  BY DEF StartupEvent
<1>2. Sent = {}
  BY <1>1 DEF Init, Sent
<1>3. statistics = {} /\ delivered = {} /\ lost = {}
  BY DEF Init
<1>4. QED
  BY <1>2, <1>3 DEF Promise!Init, Fate

-----------------------------------------------------------------------------
(* The invocations.                                                        *)

Reportable == Attacks \cup Invocations \cup {Startup}

PhaseTypes ==
    /\ phase \in [Invocations -> Phases]
    /\ awaits \in [Invocations -> SUBSET Reportable]
    /\ returned \in [Invocations -> SUBSET Attacks]

\* What an invocation awaits.
Awaiting ==
    \A i \in Invocations :
        /\ phase[i] = "starting" => awaits[i] = {Startup}
        /\ phase[i] = "waiting" => returned[i] \subseteq awaits[i]
        /\ phase[i] = "flushing" => awaits[i] = {i}

ReturnedObserved == \A i \in Invocations : returned[i] \subseteq Observed

AgentHasNone == ~serverless => \A i \in Invocations : phase[i] = "idle"

\* On a serverless platform, a flush under way is that of an invocation that
\* waits for it, and not older than the timeout.
FlushesAwaited ==
    serverless =>
        \A r \in inflight : r.kind = "flush" =>
            /\ r.name \in Invocations /\ phase[r.name] = "flushing"
            /\ now - r.at <= Timeout

FlushMoments ==
    /\ lastFlushStatsAt \in 0 .. now \cup {Never}
    /\ lastFlushStatsAt = Never <=> flushTakenAt = Never
    /\ lastFlushStatsAt # Never =>
          /\ flushTakenAt \in Nat
          /\ lastFlushStatsAt - flushTakenAt <= Timeout

InvocationsInv ==
    /\ PhaseTypes
    /\ Unreturned
    /\ Awaiting
    /\ ReturnedObserved
    /\ AttacksAwaited
    /\ AgentHasNone
    /\ FlushesAwaited
    /\ FlushMoments

Inv == ReportingInv /\ InvocationsInv

\* The invariant holds at first.
LEMMA InvInit == SInit => Inv
<1> SUFFICES ASSUME SInit PROVE Inv
  OBVIOUS
<1>1. ReportingInv
  BY ReportingInit DEF SInit
<1>2. Observed = {}
  <2>1. Sent = {}
    BY DEF SInit, Init, StartupEvent, Sent
  <2>2. QED
    BY <2>1 DEF SInit, Init, Observed
<1>3. \A i \in Invocations : phase[i] = "idle" /\ awaits[i] = {} /\ returned[i] = {}
  BY DEF SInit
<1>4. PhaseTypes
  BY DEF SInit, PhaseTypes, Phases
<1>5. Unreturned /\ Awaiting /\ ReturnedObserved /\ AgentHasNone
  BY <1>2, <1>3 DEF Unreturned, Awaiting, ReturnedObserved, AgentHasNone
<1>6. AttacksAwaited
  BY <1>3 DEF AttacksAwaited, In
<1>7. FlushesAwaited
  BY DEF SInit, Init, FlushesAwaited
<1>8. FlushMoments
  BY DEF SInit, FlushMoments
<1>9. QED
  BY <1>1, <1>4, <1>5, <1>6, <1>7, <1>8 DEF Inv, InvocationsInv

\* A step of the system is a step of reporting.
LEMMA InvSteps == Inv /\ [Next]_allVars => Step /\ ReportingInv' /\ Observed \subseteq Observed'
BY NextSteps, ReportingNext DEF Inv, InvocationsInv

\* A report that is new has no name of an attack that was observed before.
LEMMA NewNames ==
    ASSUME ReportingInv, Step, NEW r \in inflight', r \notin inflight, r.name \in Attacks
    PROVE  r.name \notin Observed
<1>1. ASSUME NEW name, NEW kind, NEW facts, Sends(name, kind, facts)
      PROVE  r.name \notin Observed
  <2> DEFINE q == [name |-> name, kind |-> kind, facts |-> facts, at |-> now]
  <2>1. r = q
    BY <1>1, SendsOne
  <2>2. r.name = name
    BY <2>1
  <2>3. QED
    BY <1>1, <2>2 DEF Sends
<1>2. ASSUME NEW p \in inflight, NEW answer \in Answers, Answer(p, answer) PROVE FALSE
  BY <1>2 DEF Answer
<1>3. CASE Waits
  BY <1>3 DEF Waits
<1>4. QED
  BY <1>1, <1>2, <1>3, StepSends DEF ReportingInv

\* The name of a report tells what it is.
LEMMA AttackNames ==
    ASSUME TypeOK, Named, NEW r \in inflight
    PROVE  /\ r.name \in Attacks <=> r.kind = "attack"
           /\ r.name \in Attacks <=> r.name \in pending /\ r.kind = "attack"
           /\ r.name \in Attacks => r.name \in pending
           /\ r.name \in Invocations => r.kind = "flush"
<1>1. NamedByKind(r)
  BY DEF Named
<1>2. r.name \in Attacks <=> r.kind = "attack"
  BY <1>1, NamesAssumption, InvocationsAssumption DEF NamedByKind
<1>3. r.kind = "attack" => r.name \in pending
  BY DEF TypeOK
<1>4. r.name \in Invocations => r.kind = "flush"
  BY <1>1, InvocationsAssumption DEF NamedByKind
<1>5. QED
  BY <1>2, <1>3, <1>4

\* pendingPromises are those of attacks.
LEMMA PendingAttacks == TypeOK /\ Named => pending \subseteq Attacks
BY DEF TypeOK, Named, NamedByKind

\* Only what is among N, and attacks, are observed.
LEMMA StepObserves ==
    ASSUME NEW N, StepWith(N), FactsApart(inflight)
    PROVE  Observed' \subseteq Observed \cup N \cup Attacks
<1>1. Observed' = statistics' \cup SentOf(inflight') \cup delivered' \cup lost'
  BY DEF Observed, Sent, SentOf
<1>2. Observed = statistics \cup SentOf(inflight) \cup delivered \cup lost
  BY DEF Observed, Sent, SentOf
<1>3. ASSUME NEW f \in N, Observes(f) PROVE Observed' \subseteq Observed \cup N
  BY <1>1, <1>2, <1>3 DEF Observes, history
<1>4. ASSUME NEW b \in Attacks, Reports(b) PROVE Observed' \subseteq Observed \cup Attacks
  <2>1. SentOf(inflight') = SentOf(inflight) /\ UNCHANGED <<delivered, lost>>
    BY <1>4, ReportFacts DEF Reports
  <2>2. QED
    BY <2>1, <1>1, <1>2, <1>4 DEF Reports
<1>5. ASSUME NEW name, NEW kind, NEW s \in TakenWith(N), Takes(name, kind, s)
      PROVE  Observed' \subseteq Observed \cup N
  <2>1. s \subseteq statistics \cup N
    BY DEF TakenWith
  <2>2. /\ statistics' = {} /\ delivered' = delivered
        /\ \/ SentOf(inflight') = SentOf(inflight) \cup s /\ UNCHANGED lost
           \/ SentOf(inflight') = SentOf(inflight) /\ lost' = lost \cup s
    BY <1>5, ReportFacts DEF Takes, sendHeartbeat
  <2>3. QED
    BY <1>1, <1>2, <2>1, <2>2
<1>6. CASE Starts
  <2>1. SentOf(inflight') = SentOf(inflight) /\ UNCHANGED <<statistics, delivered, lost>>
    BY <1>6, ReportFacts DEF Starts
  <2>2. QED
    BY <1>1, <1>2, <2>1
<1>7. ASSUME NEW r \in inflight, NEW answer \in Answers, Answer(r, answer)
      PROVE  Observed' \subseteq Observed
  <2>1. SentOf(inflight') = SentOf(inflight) \ r.facts /\ r.facts \subseteq SentOf(inflight)
    BY <1>7, SentOfRemove DEF Answer
  <2>2. /\ UNCHANGED statistics
        /\ delivered' \subseteq delivered \cup r.facts /\ lost' \subseteq lost \cup r.facts
    BY <1>7 DEF Answer, AfterAnswer
  <2>3. QED
    BY <1>1, <1>2, <2>1, <2>2
<1>8. CASE Waits \/ Same
  BY <1>1, <1>2, <1>8 DEF Waits, Same, history
<1>9. QED
  BY <1>3, <1>4, <1>5, <1>6, <1>7, <1>8 DEF StepWith

-----------------------------------------------------------------------------
(* How invocations go on.                                                  *)

\* The invocation i goes on, and all others stay where they are.
LEMMA GoesFacts ==
    ASSUME PhaseTypes, NEW i \in Invocations, NEW p, NEW X, Goes(i, p, X)
    PROVE  /\ phase'[i] = p /\ awaits'[i] = X
           /\ \A j \in Invocations \ {i} : phase'[j] = phase[j] /\ awaits'[j] = awaits[j]
           /\ p \in Phases => phase' \in [Invocations -> Phases]
           /\ X \subseteq Reportable => awaits' \in [Invocations -> SUBSET Reportable]
BY DEF PhaseTypes, Goes

\* The end of the finally block.
FlushOutcome(i) ==
    \/ /\ phase'[i] = "ended"
       /\ \/ ~FlushDue /\ UNCHANGED <<lastFlushStatsAt, flushTakenAt>>
          \/ FlushDue /\ lastFlushStatsAt' = now /\ flushTakenAt' = now
       /\ UNCHANGED inflight
    \/ /\ phase'[i] = "flushing" /\ awaits'[i] = {i}
       /\ UNCHANGED <<lastFlushStatsAt, flushTakenAt>>
       /\ \E q : /\ q.name = i /\ q.kind = "flush" /\ q.at = now
                 /\ inflight' = inflight \cup {q}

\* How the finally block ends.
LEMMA FlushOutcomes ==
    ASSUME PhaseTypes, NEW i \in Invocations, NEW s, FlushIfDue(i, s)
    PROVE  /\ FlushOutcome(i)
           /\ \A j \in Invocations \ {i} : phase'[j] = phase[j] /\ awaits'[j] = awaits[j]
           /\ phase' \in [Invocations -> Phases]
           /\ awaits' \in [Invocations -> SUBSET Reportable]
<1>1. PICK p \in {"ended", "flushing"}, X \in {{}, {i}} : Goes(i, p, X)
  BY DEF FlushIfDue
<1>2. /\ phase'[i] = p /\ awaits'[i] = X
      /\ \A j \in Invocations \ {i} : phase'[j] = phase[j] /\ awaits'[j] = awaits[j]
      /\ phase' \in [Invocations -> Phases]
      /\ awaits' \in [Invocations -> SUBSET Reportable]
  <2>1. p \in Phases /\ X \subseteq Reportable
    BY DEF Phases, Reportable
  <2>2. QED
    BY <1>1, <2>1, GoesFacts
<1>3. CASE ~FlushDue
  <2>1. Goes(i, "ended", {}) /\ UNCHANGED <<inflight, lastFlushStatsAt, flushTakenAt>>
    BY <1>3 DEF FlushIfDue
  <2>2. phase'[i] = "ended"
    BY <2>1, GoesFacts
  <2>3. QED
    BY <1>2, <1>3, <2>1, <2>2 DEF FlushOutcome
<1>4. CASE FlushDue /\ Passes("flush")
  <2> DEFINE q == [name |-> i, kind |-> "flush", facts |-> s, at |-> now]
  <2>1. Goes(i, "flushing", {i}) /\ UNCHANGED <<lastFlushStatsAt, flushTakenAt>>
    BY <1>4 DEF FlushIfDue
  <2>2. phase'[i] = "flushing" /\ awaits'[i] = {i}
    BY <2>1, GoesFacts
  <2>3. inflight' = inflight \cup {q}
    BY <1>4 DEF FlushIfDue, flushStats, sendHeartbeat, report
  <2>4. q.name = i /\ q.kind = "flush" /\ q.at = now
    OBVIOUS
  <2> HIDE DEF q
  <2>5. QED
    BY <1>2, <2>1, <2>2, <2>3, <2>4 DEF FlushOutcome
<1>5. CASE FlushDue /\ ~Passes("flush")
  <2>1. Goes(i, "ended", {}) /\ lastFlushStatsAt' = now /\ flushTakenAt' = now
    BY <1>5 DEF FlushIfDue
  <2>2. phase'[i] = "ended"
    BY <2>1, GoesFacts
  <2>3. inflight' = inflight
    BY <1>5 DEF FlushIfDue, flushStats, sendHeartbeat, report
  <2>4. QED
    BY <1>2, <1>5, <2>1, <2>2, <2>3 DEF FlushOutcome
<1>6. QED
  BY <1>3, <1>4, <1>5

\* The attacks that i reported before it returned are answered.
Settled(i) == \A r \in inflight : r.name \notin returned[i]

\* AttacksAwaited, one invocation at a time.
LEMMA AwaitedPointwise ==
    /\ AttacksAwaited <=>
          \A i \in Invocations :
              phase[i] \in {"flushing", "ended", "failed"} /\ i \notin gaveUp => Settled(i)
    /\ AttacksAwaited' <=>
          \A i \in Invocations :
              phase'[i] \in {"flushing", "ended", "failed"} /\ i \notin gaveUp' => Settled(i)'
BY DEF AttacksAwaited, In, Settled

\* Attacks that are answered stay so: an attack is reported once.
LEMMA StaysSettled ==
    ASSUME Inv, Step, NEW i \in Invocations, returned'[i] = returned[i], Settled(i)
    PROVE  Settled(i)'
<1>1. ASSUME NEW r \in inflight', r.name \in returned'[i] PROVE FALSE
  <2>1. r.name \in Attacks /\ r.name \in Observed
    BY <1>1 DEF Inv, InvocationsInv, PhaseTypes, ReturnedObserved
  <2>2. r \notin inflight
    BY <1>1 DEF Settled
  <2>3. QED
    BY <2>1, <2>2, NewNames DEF Inv
<1>2. QED
  BY <1>1 DEF Settled

\* The invariants of the invocations but Unreturned, which follows for all steps
\* at once.
Others ==
    /\ PhaseTypes
    /\ Awaiting
    /\ ReturnedObserved
    /\ AttacksAwaited
    /\ AgentHasNone
    /\ FlushesAwaited
    /\ FlushMoments

\* The numbers.
LEMMA NowFacts ==
    ASSUME Inv
    PROVE  /\ now \in Nat /\ Timeout \in Nat /\ FlushEvery \in Nat /\ Never \notin Nat
           /\ \A r \in inflight : r.at \in Nat /\ r.at <= now
BY TimesAssumption, InvocationsAssumption DEF Inv, ReportingInv, TypeOK

\* Steps that leave the invocations where they are.
LEMMA FrameKeeps ==
    ASSUME Inv, Step, Observed \subseteq Observed', UNCHANGED serverless,
           UNCHANGED invocationVars, now' = now \/ now' = now + 1,
           serverless => \A r \in inflight' : r.kind = "flush" =>
               /\ r \in inflight
               /\ now' = now \/ now - r.at < Timeout
    PROVE  Others'
<1> USE DEF Inv, InvocationsInv
<1>1. UNCHANGED <<phase, awaits, returned, gaveUp, lastFlushStatsAt, flushTakenAt>>
  BY DEF invocationVars, invocationHistory
<1>2. PhaseTypes'
  BY <1>1 DEF PhaseTypes
<1>3. Awaiting'
  BY <1>1 DEF Awaiting
<1>4. ReturnedObserved'
  BY <1>1 DEF ReturnedObserved
<1>5. AttacksAwaited'
  BY <1>1, AwaitedPointwise, StaysSettled
<1>6. AgentHasNone'
  BY <1>1 DEF AgentHasNone
<1>7. FlushesAwaited'
  <2>1. ASSUME serverless, NEW r \in inflight', r.kind = "flush"
        PROVE  r.name \in Invocations /\ phase'[r.name] = "flushing" /\ now' - r.at <= Timeout
    <3>1. /\ r \in inflight /\ r.name \in Invocations /\ phase[r.name] = "flushing"
          /\ now - r.at <= Timeout /\ (now' = now \/ now - r.at < Timeout)
      BY <2>1 DEF FlushesAwaited
    <3>2. now - r.at \in Int /\ now \in Int /\ r.at \in Int /\ Timeout \in Int
      BY <3>1, NowFacts
    <3>3. now' - r.at <= Timeout
      <4>1. CASE now' = now
        BY <3>1, <4>1
      <4>2. CASE now' = now + 1
        BY <3>1, <3>2, <4>2
      <4>3. QED
        BY <4>1, <4>2
    <3>4. QED
      BY <1>1, <3>1, <3>3
  <2>2. QED
    BY <2>1 DEF FlushesAwaited
<1>8. FlushMoments'
  <2>1. 0 .. now \subseteq 0 .. now'
    BY NowFacts
  <2>2. QED
    BY <1>1, <2>1 DEF FlushMoments
<1>9. QED
  BY <1>2, <1>3, <1>4, <1>5, <1>6, <1>7, <1>8 DEF Others

\* The wrapper begins.
LEMMA BeginKeeps ==
    ASSUME Inv, Step, Observed \subseteq Observed', serverless, serverless',
           NEW i \in Invocations, Begin(i)
    PROVE  Others'
<1> USE DEF Inv, InvocationsInv
<1>1. phase[i] = "idle"
  BY DEF Begin
<1>2. PICK p \in {"starting", "running"}, X \in {{}, {Startup}} :
         Goes(i, p, X) /\ (p = "starting" => X = {Startup})
  BY DEF Begin, BeginFirst, BeginLater
<1>3. /\ phase'[i] = p /\ awaits'[i] = X
      /\ \A j \in Invocations \ {i} : phase'[j] = phase[j] /\ awaits'[j] = awaits[j]
      /\ phase' \in [Invocations -> Phases]
      /\ awaits' \in [Invocations -> SUBSET Reportable]
  <2>1. p \in Phases /\ X \subseteq Reportable
    BY DEF Phases, Reportable
  <2>2. QED
    BY <1>2, <2>1, GoesFacts
<1>4. UNCHANGED <<now, returned, gaveUp, lastFlushStatsAt, flushTakenAt>>
  BY DEF Begin, BeginFirst, BeginLater, invocationHistory, vars
<1>5. PhaseTypes'
  BY <1>3, <1>4 DEF PhaseTypes
<1>6. Awaiting'
  BY <1>2, <1>3, <1>4 DEF Awaiting
<1>7. ReturnedObserved'
  BY <1>4 DEF ReturnedObserved
<1>8. AttacksAwaited'
  <2>1. ASSUME NEW j \in Invocations, phase'[j] \in {"flushing", "ended", "failed"},
               j \notin gaveUp'
        PROVE  Settled(j)'
    <3>1. phase[j] \in {"flushing", "ended", "failed"} /\ j \notin gaveUp
      BY <1>2, <1>3, <1>4, <2>1
    <3>2. QED
      BY <3>1, <1>4, AwaitedPointwise, StaysSettled
  <2>2. QED
    BY <2>1, AwaitedPointwise
<1>9. AgentHasNone'
  BY DEF AgentHasNone
<1>10. FlushesAwaited'
  <2>1. ASSUME NEW r \in inflight', r.kind = "flush"
        PROVE  r \in inflight
    <3>1. inflight' = inflight
          \/ inflight' = inflight \cup
               {[name |-> Startup, kind |-> "started", facts |-> {}, at |-> now]}
      BY DEF Begin, BeginFirst, BeginLater, report, vars
    <3>2. QED
      BY <2>1, <3>1
  <2>2. \A r \in inflight : r.kind = "flush" =>
           r.name \in Invocations /\ phase[r.name] = "flushing" /\ now - r.at <= Timeout
    BY DEF FlushesAwaited
  <2>3. \A j \in Invocations : phase[j] = "flushing" => phase'[j] = "flushing"
    BY <1>1, <1>3
  <2>4. QED
    BY <1>4, <2>1, <2>2, <2>3 DEF FlushesAwaited
<1>11. FlushMoments'
  BY <1>4 DEF FlushMoments
<1>12. QED
  BY <1>5, <1>6, <1>7, <1>8, <1>9, <1>10, <1>11 DEF Others

\* The end of the finally block, of an invocation that knows its attacks
\* answered or gave up waiting.
LEMMA FlushOutcomeKeeps ==
    ASSUME Inv, Step, Observed \subseteq Observed', UNCHANGED <<now, serverless>>, serverless,
           NEW i \in Invocations, phase[i] \in {"running", "waiting"}, FlushOutcome(i),
           PhaseTypes',
           \A j \in Invocations \ {i} :
               /\ phase'[j] = phase[j] /\ awaits'[j] = awaits[j]
               /\ returned'[j] = returned[j] /\ (j \in gaveUp' <=> j \in gaveUp),
           returned'[i] \subseteq Observed,
           i \in gaveUp' \/ \A r \in inflight : r.name \notin returned'[i]
    PROVE  Others'
<1> USE DEF Inv, InvocationsInv
<1>1. /\ phase'[i] = "ended" \/ (phase'[i] = "flushing" /\ awaits'[i] = {i})
      /\ \/ UNCHANGED inflight
         \/ /\ phase'[i] = "flushing"
            /\ \E q : q.name = i /\ q.kind = "flush" /\ q.at = now /\ inflight' = inflight \cup {q}
  BY DEF FlushOutcome
<1>2. Awaiting'
  BY <1>1 DEF Awaiting
<1>3. ReturnedObserved'
  BY DEF ReturnedObserved
<1>4. AttacksAwaited'
  <2>1. ASSUME NEW j \in Invocations, phase'[j] \in {"flushing", "ended", "failed"},
               j \notin gaveUp'
        PROVE  Settled(j)'
    <3>1. CASE j = i
      <4>1. \A r \in inflight : r.name \notin returned'[i]
        BY <2>1, <3>1
      <4>2. i \notin returned'[i]
        BY InvocationsAssumption DEF PhaseTypes
      <4>3. QED
        BY <1>1, <3>1, <4>1, <4>2 DEF Settled
    <3>2. CASE j # i
      <4>1. phase[j] \in {"flushing", "ended", "failed"} /\ j \notin gaveUp
            /\ returned'[j] = returned[j]
        BY <2>1, <3>2
      <4>2. QED
        BY <4>1, AwaitedPointwise, StaysSettled
    <3>3. QED
      BY <3>1, <3>2
  <2>2. QED
    BY <2>1, AwaitedPointwise
<1>5. AgentHasNone'
  BY DEF AgentHasNone
<1>6. FlushesAwaited'
  <2>1. \A r \in inflight : r.kind = "flush" =>
           r.name \in Invocations /\ phase[r.name] = "flushing" /\ now - r.at <= Timeout
    BY DEF FlushesAwaited
  <2>2. \A j \in Invocations : phase[j] = "flushing" => phase'[j] = "flushing"
    OBVIOUS
  <2>3. now - now <= Timeout
    BY NowFacts
  <2>4. ASSUME NEW r \in inflight', r.kind = "flush"
        PROVE  r.name \in Invocations /\ phase'[r.name] = "flushing" /\ now - r.at <= Timeout
    <3>1. CASE r \in inflight
      BY <2>1, <2>2, <2>4, <3>1
    <3>2. CASE r \notin inflight
      <4>1. phase'[i] = "flushing" /\ r.name = i /\ r.at = now
        BY <1>1, <2>4, <3>2
      <4>2. QED
        BY <4>1, <2>3
    <3>3. QED
      BY <3>1, <3>2
  <2>5. QED
    BY <2>4 DEF FlushesAwaited
<1>7. FlushMoments'
  <2>1. now \in 0 .. now /\ now - now <= Timeout /\ now \in Nat /\ Never # now
    BY NowFacts
  <2>2. CASE UNCHANGED <<lastFlushStatsAt, flushTakenAt>>
    BY <2>2 DEF FlushMoments
  <2>3. CASE lastFlushStatsAt' = now /\ flushTakenAt' = now
    BY <2>1, <2>3 DEF FlushMoments
  <2>4. QED
    BY <2>2, <2>3 DEF FlushOutcome
<1>8. QED
  BY <1>2, <1>3, <1>4, <1>5, <1>6, <1>7 DEF Others

\* The handler returns: with no attack pending, or into waitUntilSent.
LEMMA ReturnKeeps ==
    ASSUME Inv, Step, Observed \subseteq Observed', UNCHANGED serverless, serverless,
           NEW i \in Invocations, NEW bypassed \in BOOLEAN, Return(i, bypassed)
    PROVE  Others'
<1> USE DEF Inv, InvocationsInv
<1> DEFINE reported == {a \in Attacks : \E r \in inflight : r.name = a}
           s == IF bypassed THEN statistics ELSE statistics \cup {i}
<1>1. phase[i] = "running" /\ UNCHANGED <<now, gaveUp, pending>>
  BY DEF Return
<1>2. /\ returned' = [returned EXCEPT ![i] = reported]
      /\ \/ pending = {} /\ FlushIfDue(i, s)
         \/ /\ Goes(i, "waiting", pending)
            /\ UNCHANGED <<inflight, lastFlushStatsAt, flushTakenAt>>
  BY DEF Return
<1>3. /\ reported \subseteq Attacks
      /\ returned' \in [Invocations -> SUBSET Attacks]
      /\ returned'[i] = reported
      /\ \A j \in Invocations \ {i} : returned'[j] = returned[j]
  BY <1>2 DEF PhaseTypes
<1>4. reported \subseteq Observed
  BY DEF ReportingInv, AttacksKnown
<1>5. reported \subseteq pending
  BY AttackNames DEF ReportingInv
<1> HIDE DEF reported, s
<1>6. CASE pending = {} /\ FlushIfDue(i, s)
  <2>1. /\ FlushOutcome(i)
        /\ \A j \in Invocations \ {i} : phase'[j] = phase[j] /\ awaits'[j] = awaits[j]
        /\ phase' \in [Invocations -> Phases]
        /\ awaits' \in [Invocations -> SUBSET Reportable]
    BY <1>6, FlushOutcomes
  <2>2. PhaseTypes'
    BY <1>3, <2>1 DEF PhaseTypes
  <2>3. \A r \in inflight : r.name \notin returned'[i]
    BY <1>3, <1>5, <1>6
  <2>4. returned'[i] \subseteq Observed
    BY <1>3, <1>4
  <2>5. QED
    BY <1>1, <1>3, <2>1, <2>2, <2>3, <2>4, FlushOutcomeKeeps
<1>7. CASE Goes(i, "waiting", pending) /\ UNCHANGED <<inflight, lastFlushStatsAt, flushTakenAt>>
  <2>1. /\ phase'[i] = "waiting" /\ awaits'[i] = pending
        /\ \A j \in Invocations \ {i} : phase'[j] = phase[j] /\ awaits'[j] = awaits[j]
        /\ phase' \in [Invocations -> Phases]
        /\ awaits' \in [Invocations -> SUBSET Reportable]
    <3>1. pending \subseteq Reportable /\ "waiting" \in Phases
      BY PendingAttacks DEF ReportingInv, Reportable, Phases
    <3>2. QED
      BY <1>7, <3>1, GoesFacts
  <2>2. PhaseTypes'
    BY <1>3, <2>1 DEF PhaseTypes
  <2>3. Awaiting'
    BY <1>3, <1>5, <2>1 DEF Awaiting
  <2>4. ReturnedObserved'
    BY <1>3, <1>4 DEF ReturnedObserved
  <2>5. AttacksAwaited'
    <3>1. ASSUME NEW j \in Invocations, phase'[j] \in {"flushing", "ended", "failed"},
                 j \notin gaveUp'
          PROVE  Settled(j)'
      <4>1. /\ phase[j] \in {"flushing", "ended", "failed"} /\ j \notin gaveUp
            /\ returned'[j] = returned[j]
        BY <1>1, <1>3, <2>1, <3>1
      <4>2. QED
        BY <4>1, AwaitedPointwise, StaysSettled
    <3>2. QED
      BY <3>1, AwaitedPointwise
  <2>6. AgentHasNone' /\ FlushMoments'
    BY <1>1, <1>7 DEF AgentHasNone, FlushMoments
  <2>7. FlushesAwaited'
    BY <1>1, <1>7, <2>1 DEF FlushesAwaited
  <2>8. QED
    BY <2>2, <2>3, <2>4, <2>5, <2>6, <2>7 DEF Others
<1>8. QED
  BY <1>2, <1>6, <1>7

\* waitUntilSent resolves.
LEMMA WaitOverKeeps ==
    ASSUME Inv, Step, Observed \subseteq Observed', UNCHANGED serverless, serverless,
           NEW i \in Invocations, NEW timedOut \in BOOLEAN, WaitOver(i, timedOut)
    PROVE  Others'
<1> USE DEF Inv, InvocationsInv
<1>1. phase[i] = "waiting" /\ FlushIfDue(i, statistics) /\ UNCHANGED <<now, returned>>
  BY DEF WaitOver
<1>2. \/ gaveUp' = gaveUp \cup {i}
      \/ gaveUp' = gaveUp /\ AllSettled(i)
  BY DEF WaitOver
<1>3. /\ FlushOutcome(i)
      /\ \A j \in Invocations \ {i} : phase'[j] = phase[j] /\ awaits'[j] = awaits[j]
      /\ phase' \in [Invocations -> Phases]
      /\ awaits' \in [Invocations -> SUBSET Reportable]
  BY <1>1, FlushOutcomes
<1>4. PhaseTypes'
  BY <1>1, <1>3 DEF PhaseTypes
<1>5. i \in gaveUp' \/ \A r \in inflight : r.name \notin returned'[i]
  <2>1. ASSUME AllSettled(i), NEW r \in inflight, r.name \in returned[i] PROVE FALSE
    <3>1. r.name \in Attacks /\ r.name \in awaits[i]
      BY <1>1, <2>1 DEF PhaseTypes, Awaiting
    <3>2. r.name \in pending
      BY <3>1, AttackNames DEF ReportingInv
    <3>3. QED
      BY <2>1, <3>1, <3>2 DEF AllSettled
  <2>2. QED
    BY <1>1, <1>2, <2>1
<1>6. returned'[i] \subseteq Observed
  BY <1>1 DEF ReturnedObserved
<1>7. QED
  BY <1>1, <1>2, <1>3, <1>4, <1>5, <1>6, FlushOutcomeKeeps

\* An answer, also to what an invocation awaits.
LEMMA AnswerKeeps ==
    ASSUME Inv, Step, Observed \subseteq Observed', UNCHANGED serverless, serverless,
           NEW r \in inflight, NEW answer \in Answers, AnswerInvocation(r, answer)
    PROVE  Others'
<1> USE DEF Inv, InvocationsInv
<1>1. inflight' = inflight \ {r} /\ UNCHANGED <<now, awaits, returned, gaveUp>>
  BY DEF AnswerInvocation, Answer
<1>2. /\ phase' = [i \in Invocations |-> phase'[i]]
      /\ \A i \in Invocations :
            \/ phase'[i] = phase[i]
            \/ phase[i] = "starting" /\ phase'[i] = "running"
            \/ phase[i] = "flushing" /\ r.name \in awaits[i] /\ phase'[i] \in {"ended", "failed"}
  BY DEF AnswerInvocation
<1>3. PhaseTypes'
  <2>1. \A i \in Invocations : phase'[i] \in Phases
    BY <1>2 DEF PhaseTypes, Phases
  <2>2. QED
    BY <1>1, <1>2, <2>1 DEF PhaseTypes
<1>4. Awaiting' /\ ReturnedObserved' /\ AgentHasNone'
  BY <1>1, <1>2 DEF Awaiting, ReturnedObserved, AgentHasNone
<1>5. AttacksAwaited'
  <2>1. ASSUME NEW j \in Invocations, phase'[j] \in {"flushing", "ended", "failed"},
               j \notin gaveUp'
        PROVE  Settled(j)'
    <3>1. phase[j] \in {"flushing", "ended", "failed"} /\ j \notin gaveUp
      BY <1>1, <1>2, <2>1
    <3>2. QED
      BY <1>1, <3>1, AwaitedPointwise, StaysSettled
  <2>2. QED
    BY <2>1, AwaitedPointwise
<1>6. FlushesAwaited'
  <2>1. ASSUME NEW q \in inflight', q.kind = "flush"
        PROVE  q.name \in Invocations /\ phase'[q.name] = "flushing" /\ now - q.at <= Timeout
    <3>1. q \in inflight /\ q # r
      BY <1>1, <2>1
    <3>2. q.name \in Invocations /\ phase[q.name] = "flushing" /\ now - q.at <= Timeout
      BY <2>1, <3>1 DEF FlushesAwaited
    <3>3. awaits[q.name] = {q.name} /\ r.name # q.name
      BY <3>1, <3>2 DEF Awaiting, ReportingInv, TypeOK
    <3>4. QED
      BY <1>2, <3>2, <3>3
  <2>2. QED
    BY <1>1, <2>1 DEF FlushesAwaited
<1>7. FlushMoments'
  <2>1. now \in 0 .. now /\ Never # now /\ r.at \in Nat /\ Never # r.at
    BY NowFacts
  <2>2. CASE r.kind = "flush" /\ answer # "throws"
    <3>1. lastFlushStatsAt' = now /\ flushTakenAt' = r.at
      BY <2>2 DEF AnswerInvocation, Flushes
    <3>2. now - r.at <= Timeout
      BY <2>2 DEF FlushesAwaited
    <3>3. QED
      BY <1>1, <2>1, <3>1, <3>2 DEF FlushMoments
  <2>3. CASE ~ (r.kind = "flush" /\ answer # "throws")
    <3>1. UNCHANGED <<lastFlushStatsAt, flushTakenAt>>
      BY <2>3 DEF AnswerInvocation, Flushes
    <3>2. QED
      BY <1>1, <3>1 DEF FlushMoments
  <2>4. QED
    BY <2>2, <2>3
<1>8. QED
  BY <1>3, <1>4, <1>5, <1>6, <1>7 DEF Others

\* An invocation that was not observed is observed when its handler returns.
LEMMA ObservedOnReturn ==
    ASSUME Inv, [Next]_allVars, NEW i \in Invocations, i \notin Observed, i \in Observed'
    PROVE  \E bypassed \in BOOLEAN : Return(i, bypassed)
<1> SUFFICES ASSUME \A bypassed \in BOOLEAN : ~Return(i, bypassed) PROVE FALSE
  OBVIOUS
<1> DEFINE N == (Calls \cup Invocations) \ {i}
<1>1. \A f \in Calls : f \notin Observed => f \in N
  BY InvocationsAssumption
<1>2. \A j \in Invocations, bypassed \in BOOLEAN : Return(j, bypassed) => j \in N
  OBVIOUS
<1>3. i \notin N /\ i \notin Attacks
  BY InvocationsAssumption
<1> HIDE DEF N
<1>4. StepWith(N)
  BY <1>1, <1>2, NextStepsWith
<1>5. Observed' \subseteq Observed \cup N \cup Attacks
  BY <1>4, StepObserves DEF Inv, ReportingInv
<1>6. QED
  BY <1>3, <1>5

\* Where an invocation that has not returned comes from, and where one goes that
\* does.
LEMMA PhaseFacts ==
    ASSUME Inv, [Next]_allVars, NEW i \in Invocations,
           phase'[i] \in {"idle", "starting", "running"}
    PROVE  /\ phase[i] \in {"idle", "starting", "running"}
           /\ \A bypassed \in BOOLEAN : ~Return(i, bypassed)
<1> USE DEF Inv, InvocationsInv
<1>1. ASSUME UNCHANGED invocationVars PROVE UNCHANGED phase
  BY <1>1 DEF invocationVars
<1>2. ASSUME NEW j \in Invocations, Begin(j) PROVE phase[i] \in {"idle", "starting", "running"}
  <2>1. PICK p, X : Goes(j, p, X)
    BY <1>2 DEF Begin, BeginFirst, BeginLater
  <2>2. QED
    BY <1>2, <2>1, GoesFacts DEF Begin
<1>3. ASSUME NEW j \in Invocations, NEW s, FlushIfDue(j, s)
      PROVE  i # j /\ phase'[i] = phase[i]
  BY <1>3, FlushOutcomes DEF FlushOutcome
<1>4. ASSUME NEW j \in Invocations, NEW bypassed \in BOOLEAN, Return(j, bypassed)
      PROVE  i # j /\ phase'[i] = phase[i]
  <2>1. CASE Goes(j, "waiting", pending)
    BY <2>1, GoesFacts
  <2>2. QED
    BY <1>3, <1>4, <2>1 DEF Return
<1>5. ASSUME NEW j \in Invocations, NEW timedOut \in BOOLEAN, WaitOver(j, timedOut)
      PROVE  phase'[i] = phase[i]
  BY <1>3, <1>5 DEF WaitOver
<1>6. ASSUME NEW r \in inflight, NEW answer \in Answers, AnswerInvocation(r, answer)
      PROVE  phase[i] \in {"idle", "starting", "running"}
  BY <1>6 DEF AnswerInvocation
<1>7. ASSUME UNCHANGED allVars PROVE UNCHANGED phase
  BY <1>7 DEF allVars, invocationVars
<1>8. phase[i] \in {"idle", "starting", "running"}
  BY <1>1, <1>2, <1>4, <1>5, <1>6, <1>7 DEF Next, InvocationNext
<1>9. QED
  BY <1>4, <1>8

\* A request is counted once, when its handler returns.
LEMMA UnreturnedNext == Inv /\ [Next]_allVars => Unreturned'
<1> SUFFICES ASSUME Inv, [Next]_allVars, NEW i \in Invocations,
                    phase'[i] \in {"idle", "starting", "running"}
             PROVE  i \notin Observed'
  BY DEF Unreturned
<1>1. i \notin Observed
  BY PhaseFacts DEF Inv, InvocationsInv, Unreturned
<1>2. QED
  BY <1>1, PhaseFacts, ObservedOnReturn

\* The other invariants of the invocations, action by action.
LEMMA OthersNext == Inv /\ [Next]_allVars => Others'
<1> SUFFICES ASSUME Inv, [Next]_allVars PROVE Others'
  OBVIOUS
<1>1. Step /\ Observed \subseteq Observed'
  BY InvSteps
<1>2. CASE ~serverless /\ AgentNext /\ UNCHANGED <<serverless, invocationVars>>
  <2>1. now' = now \/ now' = now + 1
    BY <1>2 DEF AgentNext, Observe, Inspect, DetectAttack, Heartbeat, Shutdown, AnswerAgent,
                Answer, Tick
  <2>2. QED
    BY <1>1, <1>2, <2>1, FrameKeeps
<1>3. ASSUME serverless, UNCHANGED <<serverless, invocationVars>>, Observe
      PROVE  Others'
  <2>1. now' = now
    BY <1>3 DEF Observe, Inspect, DetectAttack
  <2>2. ASSUME NEW r \in inflight', r.kind = "flush" PROVE r \in inflight
    <3>1. CASE \E f \in Calls : Inspect(f)
      BY <3>1 DEF Inspect
    <3>2. ASSUME NEW a \in Attacks, DetectAttack(a) PROVE r \in inflight
      <4>1. \/ inflight' = inflight
            \/ inflight' = inflight \cup
                 {[name |-> a, kind |-> "attack", facts |-> {}, at |-> now]}
        BY <3>2 DEF DetectAttack, report
      <4>2. QED
        BY <2>2, <4>1
    <3>3. QED
      BY <1>3, <3>1, <3>2 DEF Observe
  <2>3. QED
    BY <1>1, <1>3, <2>1, <2>2, FrameKeeps
<1>4. ASSUME serverless, UNCHANGED <<serverless, invocationVars>>, Tick
      PROVE  Others'
  BY <1>1, <1>4, FrameKeeps DEF Tick
<1>5. ASSUME serverless, UNCHANGED <<serverless, invocationVars>>, TickFrozen
      PROVE  Others'
  <2>1. now' = now + 1 /\ inflight' = inflight
    BY <1>5 DEF TickFrozen
  <2>2. ASSUME NEW r \in inflight, r.kind = "flush" PROVE FALSE
    <3>1. r.name \in In("flushing")
      BY <1>5, <2>2 DEF In, Inv, InvocationsInv, FlushesAwaited
    <3>2. QED
      BY <1>5, <3>1 DEF TickFrozen, Active
  <2>3. QED
    BY <1>1, <1>5, <2>1, <2>2, FrameKeeps
<1>6. CASE UNCHANGED allVars
  <2>1. UNCHANGED <<serverless, now, inflight, invocationVars>>
    BY <1>6 DEF allVars, vars
  <2>2. QED
    BY <1>1, <2>1, FrameKeeps
<1>7. CASE serverless /\ UNCHANGED serverless /\ InvocationNext
  BY <1>1, <1>3, <1>4, <1>5, <1>7, BeginKeeps, ReturnKeeps, WaitOverKeeps, AnswerKeeps
  DEF InvocationNext
<1>8. QED
  BY <1>2, <1>6, <1>7 DEF Next

\* The invariant is kept by every step.
LEMMA InvNext == Inv /\ [Next]_allVars => Inv'
<1> SUFFICES ASSUME Inv, [Next]_allVars PROVE Inv'
  OBVIOUS
<1>1. ReportingInv' /\ Unreturned' /\ Others'
  BY InvSteps, UnreturnedNext, OthersNext
<1>2. QED
  BY <1>1 DEF Inv, InvocationsInv, Others

\* The inductive invariant: the wrappers know what was answered, facts are in one
\* place at a time, reports are named once, and each invocation waits for what it
\* has sent.
THEOREM Invariance == Spec => []Inv
<1>1. SInit => Inv
  BY InvInit
<1>2. Inv /\ [Next]_allVars => Inv'
  BY InvNext
<1>3. QED
  BY <1>1, <1>2, PTL DEF Spec

\* The types, and pendingPromises holds the attack reports under way.
THEOREM TypeCorrect == Spec => []InvocationsTypeOK
<1>1. Inv => InvocationsTypeOK
  BY DEF Inv, ReportingInv, InvocationsInv, PhaseTypes, FlushMoments, InvocationsTypeOK
<1>2. QED
  BY <1>1, Invariance, PTL

\* docs/lambda.md:94: an invocation that has ended without giving up has no attack
\* event under way, however many run at a time.
THEOREM AttacksAreAwaited == Spec => []AttacksAwaited
<1>1. Inv => AttacksAwaited
  BY DEF Inv, InvocationsInv
<1>2. QED
  BY <1>1, Invariance, PTL

\* After an invalid token nothing is sent, after a 429 nothing for the pause
\* (ReportingAPIThatValidatesToken, ReportingAPIRateLimitedServerSide).
THEOREM SilenceIsKept == Spec => SilentWhileRefused
<1>1. Inv /\ [Next]_allVars => [inflight' \ inflight # {} => ~Refused]_vars
  BY InvSteps, StepIsSilent DEF Inv
<1>2. QED
  BY <1>1, Invariance, PTL DEF Spec, SilentWhileRefused

\* ReportingAPIRateLimitedClientSide: an attack is sent iff the API does not refuse
\* reports and fewer than MaxEvents attack events were sent in the interval.
THEOREM AttacksAreReported == Spec => AttacksReportedUpToLimit
<1>1. Inv /\ [Next]_allVars =>
        [\A a \in Attacks : a \notin Observed /\ a \in Observed' =>
            ((\E r \in inflight' : r.name = a)
                <=> ~Refused /\ Cardinality(AttackEventsInInterval) < MaxEvents)]_vars
  BY InvSteps, StepReportsUpToLimit DEF Inv
<1>2. QED
  BY <1>1, Invariance, PTL DEF Spec, AttacksReportedUpToLimit

\* Statistics are taken and reset before the report is awaited (Agent.ts), so a
\* fact is reported once, and lost only with the heartbeat that took it.
THEOREM ReportingImplementsLedger == Spec => ImplementsLedger
<1>1. SInit => Promise!Init
  BY LedgerInit DEF SInit
<1>2. Inv /\ Inv' /\ [Next]_allVars => [Promise!Next]_Fate
  <2> SUFFICES ASSUME Inv, Inv', [Next]_allVars PROVE Promise!Next \/ Fate' = Fate
    OBVIOUS
  <2>1. Promise!Moves(Fate, Fate') \/ Fate' = Fate
    BY InvSteps, StepMoves DEF Inv
  <2>2. QED
    BY <2>1 DEF Promise!Next
<1>3. QED
  BY <1>1, <1>2, Invariance, PTL DEF Spec, ImplementsLedger, Promise!Spec

\* How an invocation ends.
LEMMA EndsFlushedNext ==
    ASSUME Inv, [Next]_allVars, NEW i \in Invocations, phase[i] # "ended", phase'[i] = "ended"
    PROVE  flushTakenAt' # Never /\ now - flushTakenAt' <= FlushEvery + Timeout
<1> USE DEF Inv, InvocationsInv
<1>1. now \in Nat /\ Timeout \in Nat /\ FlushEvery \in Nat /\ Never \notin Nat
  BY NowFacts
<1>2. ASSUME NEW j \in Invocations, NEW s, FlushIfDue(j, s)
      PROVE  flushTakenAt' # Never /\ now - flushTakenAt' <= FlushEvery + Timeout
  <2>1. i = j /\ FlushOutcome(i)
    BY <1>2, FlushOutcomes
  <2>2. CASE ~FlushDue /\ UNCHANGED <<lastFlushStatsAt, flushTakenAt>>
    <3>1. lastFlushStatsAt # Never /\ ~ (lastFlushStatsAt + FlushEvery < now)
      BY <2>2 DEF FlushDue
    <3>2. /\ lastFlushStatsAt \in Nat /\ flushTakenAt \in Nat /\ flushTakenAt # Never
          /\ lastFlushStatsAt - flushTakenAt <= Timeout
      BY <1>1, <3>1 DEF FlushMoments
    <3>3. now - flushTakenAt <= FlushEvery + Timeout
      BY <1>1, <3>1, <3>2
    <3>4. QED
      BY <2>2, <3>2, <3>3
  <2>3. CASE flushTakenAt' = now
    BY <1>1, <2>3
  <2>4. QED
    BY <2>1, <2>2, <2>3 DEF FlushOutcome
<1>3. ASSUME NEW r \in inflight, NEW answer \in Answers, AnswerInvocation(r, answer), serverless
      PROVE  flushTakenAt' # Never /\ now - flushTakenAt' <= FlushEvery + Timeout
  <2>1. phase[i] = "flushing" /\ r.name \in awaits[i] /\ answer # "throws"
    BY <1>3 DEF AnswerInvocation
  <2>2. r.name = i /\ r.kind = "flush"
    BY <2>1, AttackNames DEF Awaiting, ReportingInv
  <2>3. flushTakenAt' = r.at /\ r.at \in Nat /\ now - r.at <= Timeout
    BY <1>3, <2>1, <2>2, NowFacts DEF AnswerInvocation, FlushesAwaited
  <2>4. QED
    BY <1>1, <2>3
<1>4. ASSUME NEW j \in Invocations, Begin(j) PROVE FALSE
  <2>1. PICK p \in {"starting", "running"}, X \in {{}, {Startup}} : Goes(j, p, X)
    BY <1>4 DEF Begin, BeginFirst, BeginLater
  <2>2. QED
    BY <2>1, GoesFacts
<1>5. ASSUME NEW j \in Invocations, NEW bypassed \in BOOLEAN, Return(j, bypassed)
      PROVE  flushTakenAt' # Never /\ now - flushTakenAt' <= FlushEvery + Timeout
  <2>1. CASE Goes(j, "waiting", pending)
    BY <2>1, GoesFacts
  <2>2. QED
    BY <1>2, <1>5, <2>1 DEF Return
<1>6. ASSUME NEW j \in Invocations, NEW timedOut \in BOOLEAN, WaitOver(j, timedOut)
      PROVE  flushTakenAt' # Never /\ now - flushTakenAt' <= FlushEvery + Timeout
  BY <1>2, <1>6 DEF WaitOver
<1>7. ~ UNCHANGED phase
  OBVIOUS
<1>8. ~ UNCHANGED invocationVars /\ ~ UNCHANGED allVars
  BY <1>7 DEF invocationVars, allVars
<1>9. QED
  BY <1>3, <1>4, <1>5, <1>6, <1>8 DEF Next, InvocationNext

\* docs/lambda.md:92: an invocation that ends has flushed, or another one has not
\* longer than FlushEvery and the timeout of a report ago.
THEOREM InvocationsEndFlushed == Spec => EndsFlushed
<1>1. Inv /\ [Next]_allVars =>
        [\A i \in Invocations :
            phase[i] # "ended" /\ phase'[i] = "ended" =>
                flushTakenAt' # Never /\ now - flushTakenAt' <= FlushEvery + Timeout]_allVars
  BY EndsFlushedNext
<1>2. QED
  BY <1>1, Invariance, PTL DEF Spec, EndsFlushed
=============================================================================
