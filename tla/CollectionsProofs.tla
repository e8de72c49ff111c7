--------------------------- MODULE CollectionsProofs ---------------------------
(***************************************************************************)
(* Proofs about Collections, StreamLoop, LookUps and UserInput, which      *)
(* MCCollections checks in one run, for any limits, times, numbers of      *)
(* calls and inputs.                                                       *)
(*                                                                         *)
(* Collections: what the program collects stays within its limits, what    *)
(* makes room is one entry of a full collection, and a timing is told of   *)
(* once. A Map is a sequence of entries with different keys (Distinct);    *)
(* lemmas say what replacing, appending and removing an entry do to it.    *)
(* Each collection has its own invariant and its own account of a step.    *)
(*                                                                         *)
(* StreamLoop: the stream is never quiet for longer than LongestQuiet, and *)
(* backs off. While a connection lasts, its silence is what the timer of   *)
(* the socket has counted, and at most a timeout for each time that it was *)
(* started anew; while the loop waits, what is left of the wait            *)
(* is known not to exceed what may still be quiet. The next wait is the    *)
(* first, doubled as often as was tried.                                   *)
(*                                                                         *)
(* LookUps: what is found out about any chain of redirects and for any     *)
(* configuration of endpoints. Recursive functions are unfolded from the   *)
(* function that RecursionExists gives. The search back from a URL stops   *)
(* at the smallest depth at which one of its conditions holds: without a   *)
(* circle it has then met as many different redirects as it took steps.    *)
(* What matchEndpoints returns is known as a set and as an order of its    *)
(* elements, which filters keep and sorts establish.                       *)
(*                                                                         *)
(* UserInput: the strings kept of the input are always those it has.       *)
(***************************************************************************)
EXTENDS Collections, StreamLoop, LookUps, UserInput,
        SequenceTheorems, FiniteSetTheorems, WellFoundedInduction, TLAPS

-----------------------------------------------------------------------------
(* Numbers, and recursion over them.                                       *)

\* A set of numbers has a smallest one.
LEMMA Smallest ==
    ASSUME NEW T, T \subseteq Nat, T # {}
    PROVE  \E m \in T : \A k \in T : m <= k
<1> DEFINE R == OpToRel(<, Nat)
<1>1. IsWellFoundedOn(R, Nat)
  BY NatLessThanWellFounded
<1>2. \A x, y \in Nat : <<x, y>> \in R <=> x < y
  BY DEF OpToRel
<1> HIDE DEF R
<1>3. PICK x \in T : \A y \in T : ~ (<<y, x>> \in R)
  BY <1>1, WFMin, Zenon
<1>4. ASSUME NEW y \in T
      PROVE  x <= y
  <2>1. x \in Nat /\ y \in Nat /\ ~ (y < x)
    BY <1>2, <1>3
  <2> QED
    BY <2>1
<1> QED
  BY <1>4

\* What holds of 0 and passes from each number to the next holds up to any number.
LEMMA CountingUp ==
    ASSUME NEW n \in Nat, NEW T, 0 \in T, \A i \in 1 .. n : i - 1 \in T => i \in T
    PROVE  0 .. n \subseteq T
<1> DEFINE Bad == {i \in 0 .. n : i \notin T}
<1> SUFFICES ASSUME Bad # {}
             PROVE  FALSE
  OBVIOUS
<1>1. PICK m \in Bad : \A k \in Bad : m <= k
  <2>1. Bad \subseteq Nat
    OBVIOUS
  <2> HIDE DEF Bad
  <2> QED
    BY <2>1, Smallest, Zenon
<1>2. m # 0
  BY <1>1
<1>3. m \in 1 .. n /\ m - 1 \in 0 .. n /\ ~(m <= m - 1)
  BY <1>1, <1>2
<1>4. m - 1 \in T
  BY <1>1, <1>3
<1> QED
  BY <1>1, <1>3, <1>4

\* f starts with base, and each of its values follows from the one before.
Follows(f, n, S, base, step) ==
    /\ f \in [0 .. n -> S]
    /\ f[0] = base
    /\ \A i \in 1 .. n : f[i] = step[i][f[i - 1]]

\* Recursion over numbers is well-defined: if a function follows the steps up to one
\* number, one follows them up to the next.
LEMMA RecursionExists ==
    ASSUME NEW S, NEW base \in S, NEW n \in Nat, NEW step \in [1 .. n -> [S -> S]]
    PROVE  \E f : Follows(f, n, S, base, step)
<1> DEFINE T == {k \in 0 .. n : \E f : Follows(f, k, S, base, step)}
<1>1. 0 \in T
  <2>1. Follows([i \in 0 .. 0 |-> base], 0, S, base, step)
    BY DEF Follows
  <2> QED
    BY <2>1
<1>2. ASSUME NEW m \in 1 .. n, m - 1 \in T
      PROVE  m \in T
  <2>1. PICK f : Follows(f, m - 1, S, base, step)
    BY <1>2
  <2> DEFINE g == [i \in 0 .. m |-> IF i = m THEN step[m][f[m - 1]] ELSE f[i]]
  <2>2. f[m - 1] \in S /\ step[m][f[m - 1]] \in S
    <3>1. f[m - 1] \in S
      BY <2>1 DEF Follows
    <3>2. step[m] \in [S -> S]
      OBVIOUS
    <3> QED
      BY <3>1, <3>2
  <2>3. g \in [0 .. m -> S] /\ g[0] = base
    BY <2>1, <2>2 DEF Follows
  <2>4. ASSUME NEW i \in 1 .. m
        PROVE  g[i] = step[i][g[i - 1]]
    <3>1. i - 1 \in 0 .. m /\ i - 1 # m /\ g[i - 1] = f[i - 1]
      OBVIOUS
    <3>2. CASE i = m
      BY <3>1, <3>2
    <3>3. CASE i # m
      <4>1. i \in 1 .. m - 1 /\ g[i] = f[i]
        BY <3>3
      <4> QED
        BY <2>1, <3>1, <4>1 DEF Follows
    <3> QED
      BY <3>2, <3>3
  <2> HIDE DEF g
  <2>5. Follows(g, m, S, base, step)
    BY <2>3, <2>4 DEF Follows
  <2> QED
    BY <2>5
<1> HIDE DEF T
<1>3. n \in T
  <2>1. 0 .. n \subseteq T
    BY <1>1, <1>2, CountingUp
  <2> QED
    BY <2>1
<1> QED
  BY <1>3 DEF T

-----------------------------------------------------------------------------
(* Maps: sequences of entries with a key of their own.                     *)

Distinct(map) == \A i, j \in DOMAIN map : map[i].key = map[j].key => i = j

\* The keys of a map, by its positions.
LEMMA KeysAre ==
    ASSUME NEW map
    PROVE  /\ Keys(map) = {map[i].key : i \in DOMAIN map}
           /\ ToSet(map) = {map[i] : i \in DOMAIN map}
  BY DEF Keys, ToSet

\* A map has as many keys as entries.
LEMMA KeysCounted ==
    ASSUME NEW S, NEW map \in Seq(S), Distinct(map)
    PROVE  NoKeyTwice(map) /\ IsFiniteSet(Keys(map))
<1> DEFINE n == Len(map)
           f == [i \in 1 .. n |-> map[i].key]
<1>1. n \in Nat /\ DOMAIN map = 1 .. n
  BY LenProperties
<1>2. Keys(map) = {map[i].key : i \in 1 .. n}
  BY <1>1, KeysAre
<1>3. f \in Injection(1 .. n, Keys(map)) /\ f \in Surjection(1 .. n, Keys(map))
  <2>1. f \in [1 .. n -> Keys(map)]
    BY <1>2
  <2>2. \A i, j \in 1 .. n : f[i] = f[j] => i = j
    BY <1>1 DEF Distinct
  <2>3. \A k \in Keys(map) : \E i \in 1 .. n : f[i] = k
    BY <1>2
  <2> QED
    BY <2>1, <2>2, <2>3 DEF Injection, Surjection, IsInjective
<1>4. IsFiniteSet(1 .. n) /\ Cardinality(1 .. n) = n
  <2>1. 0 \in Int /\ 1 \in Int /\ n \in Int /\ (1 > n => n = 0) /\ n - 1 + 1 = n
    BY <1>1
  <2> QED
    BY <2>1, FS_Interval
<1> HIDE DEF f
<1>5. IsFiniteSet(Keys(map)) /\ Cardinality(Keys(map)) = Cardinality(1 .. n)
  BY <1>3, <1>4, FS_Surjection
<1> QED
  BY <1>4, <1>5 DEF NoKeyTwice

\* At finds the entry of a key, if there is one.
LEMMA FoundAt ==
    ASSUME NEW S, NEW map \in Seq(S), NEW key
    PROVE  /\ Holds(map, key) => At(map, key) \in DOMAIN map /\ map[At(map, key)].key = key
           /\ ~Holds(map, key) => \A i \in DOMAIN map : map[i].key # key
<1> DEFINE I == {i \in 1 .. Len(map) : map[i].key = key}
<1>1. Len(map) \in Nat /\ DOMAIN map = 1 .. Len(map)
  BY LenProperties
<1>2. At(map, key) = IF I # {} THEN Min(I) ELSE 0
  BY DEF At, SelectInSeq
<1>3. CASE I = {}
  BY <1>1, <1>2, <1>3 DEF Holds
<1>4. CASE I # {}
  <2>1. I \subseteq Nat
    BY <1>1
  <2>2. PICK m \in I : \A i \in I : m <= i
    BY <1>4, <2>1, Smallest
  <2>3. Min(I) \in I
    <3> HIDE DEF I
    <3> QED
      BY <2>2 DEF Min
  <2>4. At(map, key) \in I
    BY <1>2, <1>4, <2>3
  <2> QED
    BY <1>1, <2>4 DEF Holds
<1> QED
  BY <1>3, <1>4

\* An entry that changes and keeps its key leaves the keys as they are.
LEMMA ReplacedFacts ==
    ASSUME NEW S, NEW map \in Seq(S), Distinct(map),
           NEW i \in DOMAIN map, NEW e \in S, e.key = map[i].key
    PROVE  LET new == [map EXCEPT ![i] = e]
           IN  /\ new \in Seq(S) /\ Distinct(new)
               /\ Len(new) = Len(map) /\ DOMAIN new = DOMAIN map
               /\ new[i] = e
               /\ \A j \in DOMAIN map : j # i => new[j] = map[j]
               /\ Keys(new) = Keys(map)
<1> DEFINE new == [map EXCEPT ![i] = e]
<1>1. /\ new \in Seq(S) /\ Len(new) = Len(map) /\ DOMAIN new = DOMAIN map
      /\ \A j \in DOMAIN map : new[j] = IF j = i THEN e ELSE map[j]
  BY ExceptSeq
<1> HIDE DEF new
<1>2. \A j \in DOMAIN map : new[j].key = map[j].key
  BY <1>1
<1>3. Distinct(new)
  BY <1>1, <1>2 DEF Distinct
<1>4. Keys(new) = Keys(map)
  <2>1. /\ Keys(new) = {new[j].key : j \in DOMAIN map}
        /\ Keys(map) = {map[j].key : j \in DOMAIN map}
    BY <1>1, KeysAre
  <2> QED
    BY <1>2, <2>1
<1> QED
  BY <1>1, <1>3, <1>4 DEF new

\* A new key comes last.
LEMMA AppendedFacts ==
    ASSUME NEW S, NEW map \in Seq(S), Distinct(map),
           NEW e \in S, \A i \in DOMAIN map : map[i].key # e.key
    PROVE  LET new == Append(map, e)
           IN  /\ new \in Seq(S) /\ Distinct(new)
               /\ Len(new) = Len(map) + 1
               /\ DOMAIN new = DOMAIN map \cup {Len(map) + 1}
               /\ new[Len(map) + 1] = e
               /\ \A j \in DOMAIN map : new[j] = map[j]
               /\ Keys(new) = Keys(map) \cup {e.key}
<1> DEFINE new == Append(map, e)
           n == Len(map)
<1>1. /\ n \in Nat /\ DOMAIN map = 1 .. n
      /\ new \in Seq(S) /\ Len(new) = n + 1 /\ DOMAIN new = 1 .. n + 1
      /\ new[n + 1] = e
      /\ \A j \in 1 .. n : new[j] = map[j]
  BY AppendProperties, LenProperties
<1> HIDE DEF new, n
<1>2. DOMAIN new = DOMAIN map \cup {n + 1} /\ n + 1 \notin DOMAIN map
  BY <1>1
<1>3. Distinct(new)
  BY <1>1, <1>2 DEF Distinct
<1>4. Keys(new) = Keys(map) \cup {e.key}
  BY <1>1, <1>2, KeysAre
<1> QED
  BY <1>1, <1>2, <1>3, <1>4 DEF new, n

\* RemoveAt closes the gap: the entries behind it move down by one.
LEMMA RemovedShape ==
    ASSUME NEW S, NEW s \in Seq(S), NEW i \in DOMAIN s
    PROVE  /\ RemoveAt(s, i) \in Seq(S)
           /\ Len(RemoveAt(s, i)) = Len(s) - 1
           /\ \A m \in 1 .. Len(s) - 1 :
                 RemoveAt(s, i)[m] = IF m < i THEN s[m] ELSE s[m + 1]
<1> DEFINE front == SubSeq(s, 1, i - 1)
           back  == SubSeq(s, i + 1, Len(s))
<1>1. i \in 1 .. Len(s) /\ Len(s) \in Nat
  BY LenProperties
<1>2. /\ front \in Seq(S) /\ Len(front) = i - 1
      /\ \A m \in 1 .. i - 1 : front[m] = s[m]
  <2>1. \A m \in 1 .. i - 1 : s[m] \in S
    BY <1>1, ElementOfSeq
  <2> QED
    BY <1>1, <2>1, SubSeqProperties
<1>3. /\ back \in Seq(S) /\ Len(back) = Len(s) - i
      /\ \A m \in 1 .. Len(s) - i : back[m] = s[i + m]
  <2>1. \A m \in i + 1 .. Len(s) : s[m] \in S
    BY <1>1, ElementOfSeq
  <2> QED
    BY <1>1, <2>1, SubSeqProperties
<1> HIDE DEF front, back
<1>4. /\ front \o back \in Seq(S)
      /\ Len(front \o back) = Len(s) - 1
      /\ \A m \in 1 .. Len(s) - 1 :
            (front \o back)[m] = IF m <= i - 1 THEN front[m] ELSE back[m - (i - 1)]
  <2>1. Len(front) + Len(back) = Len(s) - 1 /\ Len(front) = i - 1
    BY <1>1, <1>2, <1>3
  <2>2. /\ front \o back \in Seq(S)
        /\ Len(front \o back) = Len(front) + Len(back)
        /\ \A m \in 1 .. Len(front) + Len(back) :
              (front \o back)[m] =
                  IF m <= Len(front) THEN front[m] ELSE back[m - Len(front)]
    BY <1>2, <1>3, ConcatProperties
  <2> QED
    BY <2>1, <2>2
<1>5. ASSUME NEW m \in 1 .. Len(s) - 1
      PROVE  (front \o back)[m] = IF m < i THEN s[m] ELSE s[m + 1]
  <2>1. CASE m < i
    BY <1>1, <1>2, <1>4, <2>1
  <2>2. CASE ~(m < i)
    <3>1. m - (i - 1) \in 1 .. Len(s) - i /\ ~(m <= i - 1) /\ i + (m - (i - 1)) = m + 1
      BY <1>1, <2>2
    <3>2. back[m - (i - 1)] = s[i + (m - (i - 1))]
      BY <1>3, <3>1
    <3> QED
      BY <1>4, <2>2, <3>1, <3>2
  <2> QED
    BY <2>1, <2>2
<1> QED
  BY <1>4, <1>5 DEF RemoveAt, front, back

\* new is map without its entry i.
Removes(new, map, i) ==
    /\ Distinct(new)
    /\ Len(new) = Len(map) - 1
    /\ \A m \in DOMAIN new : \E j \in DOMAIN map : j # i /\ new[m] = map[j]
    /\ \A j \in DOMAIN map : j # i => \E m \in DOMAIN new : new[m] = map[j]
    /\ Keys(new) = Keys(map) \ {map[i].key}

\* What moves down by one from an entry on.
LEMMA GapCloses ==
    ASSUME NEW S, NEW map \in Seq(S), Distinct(map), NEW i \in DOMAIN map,
           NEW new \in Seq(S), Len(new) = Len(map) - 1,
           \A m \in 1 .. Len(map) - 1 : new[m] = IF m < i THEN map[m] ELSE map[m + 1]
    PROVE  Removes(new, map, i)
<1> DEFINE n == Len(map)
           Old(m) == IF m < i THEN m ELSE m + 1
<1>1. n \in Nat /\ DOMAIN map = 1 .. n /\ DOMAIN new = 1 .. n - 1 /\ i \in 1 .. n
  BY LenProperties
<1>2. \A m \in 1 .. n - 1 :
         Old(m) \in 1 .. n /\ Old(m) # i /\ new[m] = map[Old(m)]
  BY <1>1
<1>3. \A m, k \in 1 .. n - 1 : Old(m) = Old(k) => m = k
  BY <1>1
<1>4. \A j \in 1 .. n : j # i => \E m \in 1 .. n - 1 : Old(m) = j
  <2> SUFFICES ASSUME NEW j \in 1 .. n, j # i
               PROVE  \E m \in 1 .. n - 1 : Old(m) = j
    OBVIOUS
  <2>1. CASE j < i
    <3>1. j \in 1 .. n - 1 /\ Old(j) = j
      BY <1>1, <2>1
    <3> QED
      BY <3>1
  <2>2. CASE ~(j < i)
    <3>1. j - 1 \in 1 .. n - 1 /\ Old(j - 1) = j
      BY <1>1, <2>2
    <3> QED
      BY <3>1
  <2> QED
    BY <2>1, <2>2
<1> HIDE DEF Old, n
<1>5. Distinct(new)
  <2> SUFFICES ASSUME NEW m \in 1 .. n - 1, NEW k \in 1 .. n - 1, new[m].key = new[k].key
               PROVE  m = k
    BY <1>1 DEF Distinct
  <2>1. Old(m) \in 1 .. n /\ Old(k) \in 1 .. n /\ map[Old(m)].key = map[Old(k)].key
    BY <1>2
  <2>2. Old(m) = Old(k)
    BY <1>1, <2>1 DEF Distinct
  <2> QED
    BY <1>3, <2>2
<1>6. /\ \A m \in DOMAIN new : \E j \in DOMAIN map : j # i /\ new[m] = map[j]
      /\ \A j \in DOMAIN map : j # i => \E m \in DOMAIN new : new[m] = map[j]
  BY <1>1, <1>2, <1>4
<1>7. \A j \in DOMAIN map : j # i => map[j].key # map[i].key
  BY DEF Distinct
<1>8. Keys(new) = Keys(map) \ {map[i].key}
  <2>1. ASSUME NEW k \in Keys(new) PROVE k \in Keys(map) \ {map[i].key}
    <3>1. PICK m \in DOMAIN new : new[m].key = k
      BY KeysAre
    <3>2. PICK j \in DOMAIN map : j # i /\ new[m] = map[j]
      BY <1>6
    <3>3. map[j].key \in Keys(map)
      BY KeysAre
    <3> QED
      BY <1>7, <3>1, <3>2, <3>3
  <2>2. ASSUME NEW k \in Keys(map) \ {map[i].key} PROVE k \in Keys(new)
    <3>1. PICK j \in DOMAIN map : map[j].key = k
      BY KeysAre
    <3>2. PICK m \in DOMAIN new : new[m] = map[j]
      BY <1>6, <3>1
    <3> QED
      BY <3>1, <3>2, KeysAre
  <2> QED
    BY <2>1, <2>2
<1> QED
  BY <1>5, <1>6, <1>8 DEF Removes, n

\* RemoveAt takes out one entry.
LEMMA RemovedFacts ==
    ASSUME NEW S, NEW map \in Seq(S), Distinct(map), NEW i \in DOMAIN map
    PROVE  RemoveAt(map, i) \in Seq(S) /\ Removes(RemoveAt(map, i), map, i)
  BY RemovedShape, GapCloses

\* Tail takes out the first.
LEMMA TailFacts ==
    ASSUME NEW S, NEW map \in Seq(S), Distinct(map), map # << >>
    PROVE  /\ 1 \in DOMAIN map
           /\ Tail(map) \in Seq(S) /\ Removes(Tail(map), map, 1)
<1>1. Len(map) \in Nat /\ DOMAIN map = 1 .. Len(map) /\ Len(map) # 0
  BY LenProperties, EmptySeq
<1>2. /\ Tail(map) \in Seq(S) /\ Len(Tail(map)) = Len(map) - 1
      /\ \A m \in 1 .. Len(map) - 1 : Tail(map)[m] = map[m + 1]
  BY HeadTailProperties
<1>3. 1 \in DOMAIN map
  BY <1>1
<1>4. \A m \in 1 .. Len(map) - 1 : Tail(map)[m] = IF m < 1 THEN map[m] ELSE map[m + 1]
  BY <1>1, <1>2
<1> QED
  BY <1>2, <1>3, <1>4, GapCloses

\* What was appended has its key in the map.
LEMMA AppendedIsThere ==
    ASSUME NEW S, NEW map \in Seq(S), NEW e \in S
    PROVE  e.key \in Keys(Append(map, e))
<1> DEFINE new == Append(map, e)
<1>1. /\ Len(map) \in Nat /\ DOMAIN new = 1 .. Len(map) + 1
      /\ new[Len(map) + 1] = e
  BY AppendProperties, LenProperties
<1> HIDE DEF new
<1>2. Len(map) + 1 \in DOMAIN new
  BY <1>1
<1> QED
  BY <1>1, <1>2, KeysAre DEF new

\* And so has what replaced the entry of its key.
LEMMA ReplacedIsThere ==
    ASSUME NEW S, NEW map \in Seq(S), Distinct(map),
           NEW i \in DOMAIN map, NEW e \in S, e.key = map[i].key
    PROVE  e.key \in Keys([map EXCEPT ![i] = e])
<1> DEFINE new == [map EXCEPT ![i] = e]
<1>1. i \in DOMAIN new /\ new[i] = e
  BY ReplacedFacts
<1> HIDE DEF new
<1> QED
  BY <1>1, KeysAre DEF new

-----------------------------------------------------------------------------
(* Hostnames: what is added to the endpoints and taken from them.          *)

PortEntry == [key : Ports, hits : Nat]
HostEntry == [key : Hosts, ports : Seq(PortEntry)]

PortsOK(ports) == ports \in Seq(PortEntry) /\ ports # << >> /\ Distinct(ports)

\* A map of hosts, each with ports.
HostsOK(map) ==
    /\ map \in Seq(HostEntry)
    /\ Distinct(map)
    /\ \A i \in DOMAIN map : PortsOK(map[i].ports)
    /\ IsFiniteSet(Endpoints(map))

\* The endpoints of a map, by its positions.
LEMMA EndpointsAre ==
    ASSUME NEW map
    PROVE  \A x : x \in Endpoints(map) <=>
               \E i \in DOMAIN map : x \in {map[i].key} \X Keys(map[i].ports)
  BY DEF Endpoints, ToSet

\* new has the endpoint that map may not have had, or has it no more.
Adds(new, map, x) == HostsOK(new) /\ Endpoints(new) = Endpoints(map) \cup {x}
Drops(new, map, x) == HostsOK(new) /\ Endpoints(new) = Endpoints(map) \ {x}

\* A port more or less in an entry is an endpoint more or less.
LEMMA HostChanged ==
    ASSUME NEW map, HostsOK(map), NEW i \in DOMAIN map, NEW ports, PortsOK(ports), NEW p
    PROVE  LET new == [map EXCEPT ![i].ports = ports]
               old == map[i].ports
           IN  /\ Keys(ports) = Keys(old) \cup {p} => Adds(new, map, <<map[i].key, p>>)
               /\ Keys(ports) = Keys(old) \ {p} => Drops(new, map, <<map[i].key, p>>)
<1> DEFINE e == [map[i] EXCEPT !.ports = ports]
           new == [map EXCEPT ![i] = e]
           host == map[i].key
<1>1. map \in Seq(HostEntry) /\ map[i] \in HostEntry /\ Distinct(map)
  BY ElementOfSeq DEF HostsOK
<1>2. e \in HostEntry /\ e.key = host /\ e.ports = ports
  BY <1>1 DEF HostEntry, PortsOK
<1>3. [map EXCEPT ![i].ports = ports] = new
  OBVIOUS
<1> HIDE DEF e
<1>4. /\ new \in Seq(HostEntry) /\ Distinct(new)
      /\ DOMAIN new = DOMAIN map
      /\ new[i] = e
      /\ \A j \in DOMAIN map : j # i => new[j] = map[j]
  BY <1>1, <1>2, ReplacedFacts
<1> HIDE DEF new
<1>5. \A j \in DOMAIN new : PortsOK(new[j].ports)
  BY <1>2, <1>4 DEF HostsOK
<1>6. \A j \in DOMAIN map : j # i => map[j].key # host
  BY <1>1 DEF Distinct
<1>7. IsFiniteSet(Endpoints(map))
  BY DEF HostsOK
<1>8. ASSUME NEW x
      PROVE  /\ x \in Endpoints(new) <=>
                    \/ x \in {host} \X Keys(ports)
                    \/ \E j \in DOMAIN map : j # i /\ x \in {map[j].key} \X Keys(map[j].ports)
             /\ x \in Endpoints(map) <=>
                    \/ x \in {host} \X Keys(map[i].ports)
                    \/ \E j \in DOMAIN map : j # i /\ x \in {map[j].key} \X Keys(map[j].ports)
  BY <1>2, <1>4, EndpointsAre
<1>9. ASSUME Keys(ports) = Keys(map[i].ports) \cup {p}
      PROVE  Adds(new, map, <<host, p>>)
  <2>1. Endpoints(new) = Endpoints(map) \cup {<<host, p>>}
    BY <1>8, <1>9
  <2>2. IsFiniteSet(Endpoints(new))
    BY <1>7, <2>1, FS_AddElement
  <2> QED
    BY <1>4, <1>5, <2>1, <2>2 DEF Adds, HostsOK
<1>10. ASSUME Keys(ports) = Keys(map[i].ports) \ {p}
       PROVE  Drops(new, map, <<host, p>>)
  <2>1. Endpoints(new) = Endpoints(map) \ {<<host, p>>}
    BY <1>6, <1>8, <1>10
  <2>2. IsFiniteSet(Endpoints(new))
    BY <1>7, <2>1, FS_RemoveElement
  <2> QED
    BY <1>4, <1>5, <2>1, <2>2 DEF Drops, HostsOK
<1> HIDE DEF host
<1> QED
  BY <1>3, <1>9, <1>10 DEF host

\* One port of one hit is a map of ports.
LEMMA OnePort ==
    ASSUME NEW port \in Ports
    PROVE  LET ports == <<[key |-> port, hits |-> 1]>>
           IN  PortsOK(ports) /\ Keys(ports) = {port}
<1> DEFINE e == [key |-> port, hits |-> 1]
<1>1. e \in PortEntry /\ e.key = port
  BY DEF PortEntry
<1> HIDE DEF e
<1>2. /\ <<e>> \in Seq(PortEntry) /\ <<e>> # << >>
      /\ DOMAIN <<e>> = {1} /\ <<e>>[1] = e
  BY <1>1
<1>3. Keys(<<e>>) = {port}
  BY <1>1, <1>2, KeysAre
<1> QED
  BY <1>2, <1>3 DEF PortsOK, Distinct, e

\* A hit adds its endpoint, unless that is there.
LEMMA HitFacts ==
    ASSUME NEW map, HostsOK(map), NEW host \in Hosts, NEW port \in Ports
    PROVE  Adds(Hit(map, host, port), map, <<host, port>>)
<1> DEFINE one == [key |-> port, hits |-> 1]
<1>1. map \in Seq(HostEntry) /\ Distinct(map) /\ IsFiniteSet(Endpoints(map))
  BY DEF HostsOK
<1>2. one \in PortEntry /\ one.key = port
  BY DEF PortEntry
<1>3. PortsOK(<<one>>) /\ Keys(<<one>>) = {port}
  BY OnePort
<1> HIDE DEF one
<1>4. CASE ~Holds(map, host)
  <2> DEFINE e == [key |-> host, ports |-> <<one>>]
             new == Append(map, e)
  <2>1. Hit(map, host, port) = new
    BY <1>4 DEF Hit, one
  <2>2. e \in HostEntry /\ e.key = host /\ e.ports = <<one>>
    BY <1>3 DEF HostEntry, PortsOK
  <2>3. \A i \in DOMAIN map : map[i].key # e.key
    BY <1>1, <1>4, <2>2, FoundAt
  <2> HIDE DEF e
  <2>4. /\ new \in Seq(HostEntry) /\ Distinct(new)
        /\ Len(new) = Len(map) + 1
        /\ DOMAIN new = DOMAIN map \cup {Len(map) + 1}
        /\ new[Len(map) + 1] = e
        /\ \A j \in DOMAIN map : new[j] = map[j]
        /\ Keys(new) = Keys(map) \cup {e.key}
    BY <1>1, <2>2, <2>3, AppendedFacts
  <2> HIDE DEF new
  <2>5. \A j \in DOMAIN new : PortsOK(new[j].ports)
    BY <1>3, <2>2, <2>4 DEF HostsOK
  <2>6. Endpoints(new) = Endpoints(map) \cup {<<host, port>>}
    <3> DEFINE last == Len(map) + 1
    <3>1. last \in DOMAIN new /\ new[last].key = host /\ Keys(new[last].ports) = {port}
      BY <1>3, <2>2, <2>4
    <3>2. DOMAIN new = DOMAIN map \cup {last} /\ \A j \in DOMAIN map : new[j] = map[j]
      BY <2>4
    <3> HIDE DEF last
    <3>3. ASSUME NEW x \in Endpoints(new)
          PROVE  x \in Endpoints(map) \cup {<<host, port>>}
      <4>1. PICK j \in DOMAIN new : x \in {new[j].key} \X Keys(new[j].ports)
        BY EndpointsAre
      <4>2. CASE j \in DOMAIN map
        BY <3>2, <4>1, <4>2, EndpointsAre
      <4>3. CASE j = last
        BY <3>1, <4>1, <4>3
      <4> QED
        BY <3>2, <4>2, <4>3
    <3>4. ASSUME NEW x \in Endpoints(map)
          PROVE  x \in Endpoints(new)
      <4>1. PICK j \in DOMAIN map : x \in {map[j].key} \X Keys(map[j].ports)
        BY EndpointsAre
      <4> QED
        BY <3>2, <4>1, EndpointsAre
    <3>5. <<host, port>> \in Endpoints(new)
      <4>1. <<host, port>> \in {new[last].key} \X Keys(new[last].ports)
        BY <3>1
      <4> QED
        BY <3>1, <4>1, EndpointsAre
    <3> QED
      BY <3>3, <3>4, <3>5
  <2>7. IsFiniteSet(Endpoints(new))
    BY <1>1, <2>6, FS_AddElement
  <2> QED
    BY <2>1, <2>4, <2>5, <2>6, <2>7 DEF Adds, HostsOK
<1>5. CASE Holds(map, host)
  <2> DEFINE i == At(map, host)
             old == map[i].ports
             ports == IF Holds(old, port) THEN Bumped(old, port) ELSE Append(old, one)
  <2>1. Hit(map, host, port) = [map EXCEPT ![i].ports = ports]
    BY <1>5 DEF Hit, one
  <2>2. i \in DOMAIN map /\ map[i].key = host
    BY <1>1, <1>5, FoundAt
  <2> HIDE DEF i
  <2>3. PortsOK(old)
    BY <2>2 DEF HostsOK
  <2> HIDE DEF old
  <2>4. PortsOK(ports) /\ Keys(ports) = Keys(old) \cup {port}
    <3>1. CASE Holds(old, port)
      <4> DEFINE j == At(old, port)
                 e == [old[j] EXCEPT !.hits = @ + 1]
      <4>1. Bumped(old, port) = [old EXCEPT ![j] = e]
        BY DEF Bumped
      <4>2. j \in DOMAIN old /\ old[j].key = port /\ old[j] \in PortEntry
        BY <2>3, <3>1, FoundAt, ElementOfSeq DEF PortsOK
      <4> HIDE DEF j
      <4>3. e \in PortEntry /\ e.key = old[j].key
        BY <4>2 DEF PortEntry
      <4> DEFINE new == [old EXCEPT ![j] = e]
      <4> HIDE DEF e
      <4>4. /\ new \in Seq(PortEntry) /\ Distinct(new) /\ DOMAIN new = DOMAIN old
            /\ Keys(new) = Keys(old)
        BY <2>3, <4>2, <4>3, ReplacedFacts DEF PortsOK
      <4> HIDE DEF new
      <4>5. new # << >>
        BY <4>2, <4>4, EmptySeq
      <4>6. port \in Keys(old)
        BY <4>2, KeysAre
      <4> QED
        BY <3>1, <4>1, <4>4, <4>5, <4>6 DEF PortsOK, new
    <3>2. CASE ~Holds(old, port)
      <4> DEFINE new == Append(old, one)
      <4>1. \A j \in DOMAIN old : old[j].key # one.key
        BY <1>2, <2>3, <3>2, FoundAt DEF PortsOK
      <4>2. /\ new \in Seq(PortEntry) /\ Distinct(new)
            /\ Len(new) = Len(old) + 1
            /\ Keys(new) = Keys(old) \cup {one.key}
        BY <1>2, <2>3, <4>1, AppendedFacts DEF PortsOK
      <4> HIDE DEF new
      <4>3. new # << >>
        <5>1. Len(old) \in Nat
          BY <2>3, LenProperties DEF PortsOK
        <5> QED
          BY <4>2, <5>1, EmptySeq
      <4> QED
        BY <1>2, <3>2, <4>2, <4>3 DEF PortsOK, new
    <3> QED
      BY <3>1, <3>2
  <2> HIDE DEF ports
  <2>5. Adds([map EXCEPT ![i].ports = ports], map, <<map[i].key, port>>)
    BY <2>2, <2>4, HostChanged DEF old
  <2> QED
    BY <2>1, <2>2, <2>5
<1> QED
  BY <1>4, <1>5

\* The first port of the first host.
FirstPort(map) == <<map[1].key, map[1].ports[1].key>>

\* What makes room is the first endpoint.
LEMMA FirstPortFacts ==
    ASSUME NEW map, HostsOK(map), map # << >>
    PROVE  /\ FirstPort(map) \in Endpoints(map)
           /\ Drops(WithoutFirstPort(map), map, FirstPort(map))
<1> DEFINE old == map[1].ports
           host == map[1].key
<1>1. map \in Seq(HostEntry) /\ Distinct(map) /\ IsFiniteSet(Endpoints(map))
  BY DEF HostsOK
<1>2. /\ 1 \in DOMAIN map /\ Head(map) = map[1]
      /\ Tail(map) \in Seq(HostEntry) /\ Removes(Tail(map), map, 1)
  BY <1>1, TailFacts, HeadTailProperties
<1>3. PortsOK(old)
  BY <1>2 DEF HostsOK
<1>4. /\ 1 \in DOMAIN old
      /\ Tail(old) \in Seq(PortEntry) /\ Removes(Tail(old), old, 1)
  BY <1>3, TailFacts DEF PortsOK
<1> DEFINE p == old[1].key
           x == <<host, p>>
<1>5. p \in Keys(old)
  BY <1>4, KeysAre
<1>6. x \in Endpoints(map) /\ x = FirstPort(map)
  BY <1>2, <1>5, EndpointsAre DEF FirstPort
<1>7. Len(old) \in Nat /\ DOMAIN old = 1 .. Len(old)
  BY <1>3, LenProperties DEF PortsOK
<1>8. CASE Len(old) > 1
  <2>1. WithoutFirstPort(map) = [map EXCEPT ![1].ports = Tail(old)]
    BY <1>2, <1>8 DEF WithoutFirstPort
  <2>2. PortsOK(Tail(old)) /\ Keys(Tail(old)) = Keys(old) \ {p}
    <3>1. Len(Tail(old)) # 0
      BY <1>4, <1>7, <1>8 DEF Removes
    <3>2. Tail(old) # << >>
      BY <3>1, EmptySeq
    <3> QED
      BY <1>4, <3>2 DEF Removes, PortsOK
  <2> DEFINE ports == Tail(old)
  <2>3. PortsOK(ports) /\ Keys(ports) = Keys(old) \ {p}
    BY <2>2
  <2> HIDE DEF ports, p
  <2>4. Drops([map EXCEPT ![1].ports = ports], map, <<map[1].key, p>>)
    BY <1>2, <2>3, HostChanged
  <2> QED
    BY <1>6, <2>1, <2>4 DEF ports
<1>9. CASE ~(Len(old) > 1)
  <2> DEFINE new == Tail(map)
  <2>1. WithoutFirstPort(map) = new
    BY <1>2, <1>9 DEF WithoutFirstPort
  <2>2. Keys(old) = {p}
    <3>1. DOMAIN old = {1}
      BY <1>4, <1>7, <1>9
    <3> QED
      BY <3>1, KeysAre
  <2>3. new \in Seq(HostEntry) /\ Removes(new, map, 1)
    BY <1>2
  <2> HIDE DEF new, p
  <2>4. \A j \in DOMAIN map : j # 1 => map[j].key # host
    BY <1>1, <1>2 DEF Distinct
  <2>5. ASSUME NEW y
        PROVE  /\ y \in Endpoints(new) <=>
                     \E j \in DOMAIN map : j # 1 /\ y \in {map[j].key} \X Keys(map[j].ports)
               /\ y \in Endpoints(map) <=>
                      \/ y \in {host} \X {p}
                      \/ \E j \in DOMAIN map : j # 1 /\ y \in {map[j].key} \X Keys(map[j].ports)
    <3>1. y \in Endpoints(new) =>
              \E j \in DOMAIN map : j # 1 /\ y \in {map[j].key} \X Keys(map[j].ports)
      <4>1. SUFFICES ASSUME NEW m \in DOMAIN new, y \in {new[m].key} \X Keys(new[m].ports)
                     PROVE \E j \in DOMAIN map : j # 1 /\ y \in {map[j].key} \X Keys(map[j].ports)
        BY EndpointsAre
      <4>2. PICK j \in DOMAIN map : j # 1 /\ new[m] = map[j]
        BY <2>3 DEF Removes
      <4> QED
        BY <4>1, <4>2
    <3>2. ASSUME NEW j \in DOMAIN map, j # 1, y \in {map[j].key} \X Keys(map[j].ports)
          PROVE  y \in Endpoints(new)
      <4>1. PICK m \in DOMAIN new : new[m] = map[j]
        BY <2>3, <3>2 DEF Removes
      <4> QED
        BY <3>2, <4>1, EndpointsAre
    <3>3. y \in Endpoints(map) <=>
                      \/ y \in {host} \X {p}
                      \/ \E j \in DOMAIN map : j # 1 /\ y \in {map[j].key} \X Keys(map[j].ports)
      BY <1>2, <2>2, EndpointsAre
    <3> QED
      BY <3>1, <3>2, <3>3
  <2>6. Endpoints(new) = Endpoints(map) \ {x}
    BY <2>4, <2>5
  <2>7. IsFiniteSet(Endpoints(new))
    BY <1>1, <2>6, FS_RemoveElement
  <2>8. \A m \in DOMAIN new : PortsOK(new[m].ports)
    BY <2>3 DEF Removes, HostsOK
  <2>9. Drops(new, map, x)
    BY <2>3, <2>6, <2>7, <2>8 DEF Drops, HostsOK, Removes
  <2> QED
    BY <1>6, <2>1, <2>9
<1> QED
  BY <1>7, <1>8, <1>9

\* What the host calls can do to the map.
HostsStep ==
    \/ hostnames' = hostnames
    \/ hostnames' = << >>
    \/ \E host \in Hosts, port \in Ports : hostnames' = KeptHostnames(Hit(hostnames, host, port))

HostsInv == HostsOK(hostnames) /\ PortsIn(hostnames) <= MaxHostnames

HostsEvictOne ==
    hostnames' # << >> =>
        PushesOutOneAtMost(Endpoints(hostnames), Endpoints(hostnames'), MaxHostnames)

LEMMA NoHosts == HostsOK(<< >>) /\ PortsIn(<< >>) = 0
<1>1. << >> \in Seq(HostEntry) /\ DOMAIN << >> = {}
  BY EmptySeq
<1>2. Endpoints(<< >>) = {}
  BY <1>1, EndpointsAre
<1> QED
  BY <1>1, <1>2, FS_EmptySet DEF HostsOK, Distinct, PortsIn

\* A hit, and room made for it, is one endpoint more and at most one less.
LEMMA HostsKept ==
    ASSUME HostsInv, HostsStep
    PROVE  HostsInv' /\ HostsEvictOne
<1> DEFINE before == Endpoints(hostnames)
           after == Endpoints(hostnames')
<1>1. MaxHostnames \in Nat /\ MaxHostnames # 0
  BY LimitsAssumption
<1>2. /\ IsFiniteSet(before) /\ Cardinality(before) \in Nat
      /\ Cardinality(before) <= MaxHostnames
  BY FS_CardinalityType DEF HostsInv, HostsOK, PortsIn
<1>3. CASE hostnames' = hostnames
  BY <1>3 DEF HostsInv, HostsEvictOne, PushesOutOneAtMost, PortsIn
<1>4. CASE hostnames' = << >>
  BY <1>1, <1>4, NoHosts DEF HostsInv, HostsEvictOne, PortsIn
<1>5. CASE \E host \in Hosts, port \in Ports :
               hostnames' = KeptHostnames(Hit(hostnames, host, port))
  <2>1. PICK host \in Hosts, port \in Ports :
            hostnames' = KeptHostnames(Hit(hostnames, host, port))
    BY <1>5
  <2> DEFINE hit == Hit(hostnames, host, port)
             x == <<host, port>>
  <2>2. HostsOK(hit) /\ Endpoints(hit) = before \cup {x} /\ IsFiniteSet(Endpoints(hit))
    BY HitFacts DEF HostsInv, Adds, HostsOK
  <2> HIDE DEF hit, x
  <2>3. /\ Cardinality(Endpoints(hit)) \in Nat
        /\ Cardinality(Endpoints(hit)) <= Cardinality(before) + 1
    BY <1>2, <2>2, FS_AddElement, FS_CardinalityType
  <2>4. CASE PortsIn(hit) > MaxHostnames
    <3>1. hit # << >>
      <4>1. Endpoints(hit) # {}
        BY <2>2
      <4>2. \E i : i \in DOMAIN hit
        BY <4>1, EndpointsAre
      <4> QED
        BY <4>2, EmptySeq
    <3>2. hostnames' = WithoutFirstPort(hit)
      BY <2>1, <2>4 DEF KeptHostnames, hit
    <3> DEFINE y == FirstPort(hit)
    <3>3. y \in Endpoints(hit) /\ Drops(hostnames', hit, y)
      BY <2>2, <3>1, <3>2, FirstPortFacts
    <3> HIDE DEF y
    <3>4. HostsOK(hostnames') /\ after = Endpoints(hit) \ {y}
      BY <3>3 DEF Drops
    <3>5. Cardinality(after) = Cardinality(Endpoints(hit)) - 1
      BY <2>2, <3>3, <3>4, FS_RemoveElement
    <3>6. Cardinality(Endpoints(hit)) > MaxHostnames
      BY <2>4 DEF PortsIn
    <3>7. Cardinality(after) = MaxHostnames
      BY <1>1, <1>2, <2>3, <3>5, <3>6
    <3>8. PushesOutOneAtMost(before, after, MaxHostnames)
      BY <2>2, <3>4, <3>7 DEF PushesOutOneAtMost
    <3> QED
      BY <1>1, <3>4, <3>7, <3>8 DEF HostsInv, HostsEvictOne, PortsIn
  <2>5. CASE ~(PortsIn(hit) > MaxHostnames)
    <3>1. hostnames' = hit
      BY <2>1, <2>5 DEF KeptHostnames, hit
    <3>2. Cardinality(Endpoints(hit)) <= MaxHostnames
      BY <1>1, <2>3, <2>5 DEF PortsIn
    <3>3. before \subseteq after
      BY <2>2, <3>1
    <3> QED
      BY <2>2, <3>1, <3>2, <3>3 DEF HostsInv, HostsEvictOne, PushesOutOneAtMost, PortsIn
  <2> QED
    BY <2>4, <2>5
<1> QED
  BY <1>3, <1>4, <1>5 DEF HostsStep

\* A hit leaves the first port the first.
LEMMA FirstPortStays ==
    ASSUME NEW map, HostsOK(map), map # << >>, NEW host \in Hosts, NEW port \in Ports
    PROVE  FirstPort(Hit(map, host, port)) = FirstPort(map)
<1> DEFINE one == [key |-> port, hits |-> 1]
           hit == Hit(map, host, port)
<1>1. map \in Seq(HostEntry) /\ Distinct(map) /\ 1 \in DOMAIN map
  BY TailFacts DEF HostsOK
<1>2. PortsOK(map[1].ports) /\ 1 \in DOMAIN map[1].ports
  BY <1>1, TailFacts DEF HostsOK, PortsOK
<1>3. CASE ~Holds(map, host)
  <2> DEFINE e == [key |-> host, ports |-> <<one>>]
  <2>1. hit = Append(map, e)
    BY <1>3 DEF Hit
  <2>2. e \in HostEntry
    BY OnePort DEF HostEntry, PortsOK
  <2> HIDE DEF e, hit
  <2>3. hit[1] = map[1]
    BY <1>1, <2>1, <2>2, AppendProperties, LenProperties
  <2> QED
    BY <2>3 DEF FirstPort, hit
<1>4. CASE Holds(map, host)
  <2> DEFINE i == At(map, host)
             old == map[i].ports
             ports == IF Holds(old, port) THEN Bumped(old, port) ELSE Append(old, one)
  <2>1. hit = [map EXCEPT ![i].ports = ports]
    BY <1>4 DEF Hit
  <2>2. i \in DOMAIN map
    BY <1>1, <1>4, FoundAt
  <2> HIDE DEF i, hit
  <2>3. CASE i # 1
    BY <1>1, <2>1, <2>2, <2>3 DEF FirstPort, hit
  <2>4. CASE i = 1
    <3>1. old \in Seq(PortEntry) /\ 1 \in DOMAIN old
      BY <1>2, <2>4 DEF PortsOK
    <3> HIDE DEF old
    <3>2. ports[1].key = old[1].key
      <4>1. CASE Holds(old, port)
        <5> DEFINE j == At(old, port)
        <5>1. j \in DOMAIN old /\ old[j] \in PortEntry
          BY <3>1, <4>1, FoundAt, ElementOfSeq
        <5>2. Bumped(old, port) = [old EXCEPT ![j] = [old[j] EXCEPT !.hits = @ + 1]]
          BY DEF Bumped
        <5> HIDE DEF j
        <5> QED
          BY <3>1, <4>1, <5>1, <5>2 DEF PortEntry
      <4>2. CASE ~Holds(old, port)
        <5>1. one \in PortEntry
          BY DEF PortEntry
        <5> HIDE DEF one
        <5>2. Append(old, one)[1] = old[1]
          BY <3>1, <5>1, AppendProperties, LenProperties
        <5> QED
          BY <4>2, <5>2
      <4> QED
        BY <4>1, <4>2
    <3> HIDE DEF ports
    <3>3. map[1] \in HostEntry
      BY <1>1, ElementOfSeq
    <3>4. hit[1].key = map[1].key /\ hit[1].ports = ports
      BY <1>1, <2>1, <2>4, <3>3 DEF HostEntry
    <3> QED
      BY <2>4, <3>2, <3>4 DEF FirstPort, hit, old
  <2> QED
    BY <2>3, <2>4
<1> QED
  BY <1>3, <1>4

\* So what a hit adds is not what makes room for it.
LEMMA HostIsThere ==
    ASSUME HostsInv, NEW host \in Hosts, NEW port \in Ports,
           hostnames' = KeptHostnames(Hit(hostnames, host, port))
    PROVE  <<host, port>> \in Endpoints(hostnames')
<1> DEFINE hit == Hit(hostnames, host, port)
           x == <<host, port>>
           before == Endpoints(hostnames)
<1>1. HostsOK(hit) /\ Endpoints(hit) = before \cup {x}
  BY HitFacts DEF HostsInv, Adds
<1>2. CASE ~(PortsIn(hit) > MaxHostnames)
  BY <1>1, <1>2 DEF KeptHostnames
<1>3. CASE PortsIn(hit) > MaxHostnames
  <2> DEFINE y == FirstPort(hit)
  <2>1. PortsIn(hostnames) <= MaxHostnames /\ MaxHostnames \in Nat \ {0}
    BY LimitsAssumption DEF HostsInv
  <2>2. x \notin before
    <3>1. SUFFICES ASSUME x \in before
                   PROVE  FALSE
      OBVIOUS
    <3> HIDE DEF x, hit
    <3>2. Endpoints(hit) = before
      BY <1>1, <3>1
    <3>3. PortsIn(hostnames) \in Nat
      BY FS_CardinalityType DEF HostsInv, HostsOK, PortsIn
    <3> QED
      BY <1>3, <2>1, <3>2, <3>3 DEF PortsIn
  <2>3. hostnames # << >>
    <3>1. SUFFICES ASSUME hostnames = << >>
                   PROVE  FALSE
      OBVIOUS
    <3>2. before = {}
      BY <3>1, EndpointsAre, EmptySeq
    <3> HIDE DEF x, hit, before
    <3>3. PortsIn(hit) = 1
      BY <1>1, <3>2, FS_Singleton DEF PortsIn
    <3> QED
      BY <1>3, <2>1, <3>3
  <2>4. hit # << >>
    <3>1. \E i : i \in DOMAIN hit
      BY <1>1, EndpointsAre
    <3> QED
      BY <3>1, EmptySeq
  <2>5. y \in before
    BY <2>3, FirstPortStays, FirstPortFacts DEF HostsInv
  <2>6. hostnames' = WithoutFirstPort(hit)
    BY <1>3 DEF KeptHostnames
  <2> HIDE DEF x, hit, before
  <2>7. Endpoints(hostnames') = Endpoints(hit) \ {y}
    BY <1>1, <2>4, <2>6, FirstPortFacts DEF Drops
  <2> HIDE DEF y
  <2>8. x \in Endpoints(hostnames')
    BY <1>1, <2>2, <2>5, <2>7
  <2> QED
    BY <2>8 DEF x
<1> QED
  BY <1>2, <1>3

-----------------------------------------------------------------------------
(* Users, packages and schemas.                                            *)

UserEntry == [key : UserIds, name : UserNames, firstSeenAt : Nat, lastSeenAt : Nat]

UsersInv == users \in Seq(UserEntry) /\ Distinct(users) /\ Len(users) <= MaxUsers

UsersStep ==
    \/ users' = users
    \/ users' = << >>
    \/ \E id \in UserIds, name \in UserNames : AddUser(id, name)

UsersEvictOne ==
    users' # << >> => PushesOutOneAtMost(Keys(users), Keys(users'), MaxUsers)

LEMMA UsersKept ==
    ASSUME UsersInv, UsersStep, now \in Nat
    PROVE  UsersInv' /\ UsersEvictOne
<1>1. MaxUsers \in Nat /\ MaxUsers # 0
  BY LimitsAssumption
<1>2. /\ users \in Seq(UserEntry) /\ Distinct(users)
      /\ Len(users) \in Nat /\ Len(users) <= MaxUsers
  BY LenProperties DEF UsersInv
<1>3. CASE users' = users
  BY <1>2, <1>3 DEF UsersInv, UsersEvictOne, PushesOutOneAtMost
<1>4. CASE users' = << >>
  BY <1>1, <1>4, EmptySeq DEF UsersInv, UsersEvictOne, Distinct
<1>5. CASE \E id \in UserIds, name \in UserNames : AddUser(id, name)
  <2>1. PICK id \in UserIds, name \in UserNames : AddUser(id, name)
    BY <1>5
  <2>2. CASE Holds(users, id)
    <3> DEFINE i == At(users, id)
               e == UserRecord(id, name, users[i].firstSeenAt, now)
               new == [users EXCEPT ![i] = e]
    <3>1. users' = new
      BY <2>1, <2>2 DEF AddUser
    <3>2. i \in DOMAIN users /\ users[i].key = id /\ users[i] \in UserEntry
      BY <1>2, <2>2, FoundAt, ElementOfSeq
    <3> HIDE DEF i
    <3>3. e \in UserEntry /\ e.key = users[i].key
      BY <3>2 DEF UserRecord, UserEntry
    <3> HIDE DEF e
    <3>4. /\ new \in Seq(UserEntry) /\ Distinct(new) /\ Len(new) = Len(users)
          /\ Keys(new) = Keys(users)
      BY <1>2, <3>2, <3>3, ReplacedFacts
    <3> HIDE DEF new
    <3> QED
      BY <1>2, <3>1, <3>4 DEF UsersInv, UsersEvictOne, PushesOutOneAtMost
  <2>3. CASE ~Holds(users, id)
    <3> DEFINE room == IF Len(users) >= MaxUsers THEN Tail(users) ELSE users
               e == UserRecord(id, name, now, now)
               new == Append(room, e)
    <3>1. users' = new
      BY <2>1, <2>3 DEF AddUser
    <3>2. e \in UserEntry /\ e.key = id
      BY DEF UserRecord, UserEntry
    <3> HIDE DEF e
    <3>3. id \notin Keys(users)
      BY <1>2, <2>3, FoundAt, KeysAre
    <3>4. /\ room \in Seq(UserEntry) /\ Distinct(room) /\ Len(room) < MaxUsers
          /\ \/ Keys(room) = Keys(users)
             \/ /\ Len(room) = MaxUsers - 1
                /\ \E k \in Keys(users) : Keys(room) = Keys(users) \ {k}
      <4>1. CASE Len(users) >= MaxUsers
        <5>1. Len(users) = MaxUsers /\ Len(users) # 0
          BY <1>1, <1>2, <4>1
        <5>2. users # << >>
          BY <5>1, EmptySeq
        <5>3. /\ 1 \in DOMAIN users /\ Tail(users) \in Seq(UserEntry)
              /\ Removes(Tail(users), users, 1)
          BY <1>2, <5>2, TailFacts
        <5>4. /\ Distinct(Tail(users)) /\ Len(Tail(users)) = Len(users) - 1
              /\ Keys(Tail(users)) = Keys(users) \ {users[1].key}
          BY <5>3 DEF Removes
        <5>5. users[1].key \in Keys(users)
          BY <5>3, KeysAre
        <5> QED
          BY <1>1, <4>1, <5>1, <5>3, <5>4, <5>5
      <4>2. CASE ~(Len(users) >= MaxUsers)
        BY <1>1, <1>2, <4>2
      <4> QED
        BY <4>1, <4>2
    <3> HIDE DEF room
    <3>5. \A j \in DOMAIN room : room[j].key # e.key
      <4>1. e.key \notin Keys(room)
        BY <3>2, <3>3, <3>4
      <4> QED
        BY <4>1, KeysAre
    <3>6. /\ new \in Seq(UserEntry) /\ Distinct(new) /\ Len(new) = Len(room) + 1
          /\ Keys(new) = Keys(room) \cup {e.key}
      BY <3>2, <3>4, <3>5, AppendedFacts
    <3> HIDE DEF new
    <3>7. Len(room) \in Nat /\ Len(new) <= MaxUsers
      BY <1>1, <3>4, <3>6, LenProperties
    <3>8. Cardinality(Keys(new)) = Len(new)
      BY <3>6, KeysCounted DEF NoKeyTwice
    <3>9. PushesOutOneAtMost(Keys(users), Keys(new), MaxUsers)
      <4>1. CASE Keys(room) = Keys(users)
        BY <3>6, <4>1 DEF PushesOutOneAtMost
      <4>2. CASE /\ Len(room) = MaxUsers - 1
                 /\ \E k \in Keys(users) : Keys(room) = Keys(users) \ {k}
        <5>1. Cardinality(Keys(new)) = MaxUsers
          BY <1>1, <3>6, <3>8, <4>2
        <5>2. \E k \in Keys(users) : Keys(users) \ {k} \subseteq Keys(new)
          BY <3>6, <4>2
        <5> QED
          BY <5>1, <5>2 DEF PushesOutOneAtMost
      <4> QED
        BY <3>4, <4>1, <4>2
    <3> QED
      BY <3>1, <3>6, <3>7, <3>9 DEF UsersInv, UsersEvictOne
  <2> QED
    BY <2>2, <2>3
<1> QED
  BY <1>3, <1>4, <1>5 DEF UsersStep

\* A user that is added is there.
LEMMA UserIsThere ==
    ASSUME UsersInv, now \in Nat, NEW id \in UserIds, NEW name \in UserNames, AddUser(id, name)
    PROVE  id \in Keys(users')
<1>1. /\ users \in Seq(UserEntry) /\ Distinct(users)
      /\ Len(users) \in Nat /\ MaxUsers \in Nat \ {0}
  BY LenProperties, LimitsAssumption DEF UsersInv
<1>2. CASE Holds(users, id)
  <2> DEFINE i == At(users, id)
             e == UserRecord(id, name, users[i].firstSeenAt, now)
  <2>1. users' = [users EXCEPT ![i] = e]
    BY <1>2 DEF AddUser
  <2>2. i \in DOMAIN users /\ users[i].key = id /\ users[i] \in UserEntry
    BY <1>1, <1>2, FoundAt, ElementOfSeq
  <2> HIDE DEF i
  <2>3. e \in UserEntry /\ e.key = id
    BY <2>2 DEF UserRecord, UserEntry
  <2> HIDE DEF e
  <2>4. e.key \in Keys([users EXCEPT ![i] = e])
    BY <1>1, <2>2, <2>3, ReplacedIsThere
  <2> QED
    BY <2>1, <2>3, <2>4
<1>3. CASE ~Holds(users, id)
  <2> DEFINE room == IF Len(users) >= MaxUsers THEN Tail(users) ELSE users
             e == UserRecord(id, name, now, now)
  <2>1. users' = Append(room, e)
    BY <1>3 DEF AddUser
  <2>2. e \in UserEntry /\ e.key = id
    BY DEF UserRecord, UserEntry
  <2>3. room \in Seq(UserEntry)
    <3>1. CASE Len(users) >= MaxUsers
      <4>1. Len(users) # 0
        BY <1>1, <3>1
      <4>2. users # << >>
        BY <4>1, EmptySeq
      <4> QED
        BY <1>1, <3>1, <4>2, TailFacts
    <3>2. CASE ~(Len(users) >= MaxUsers)
      BY <1>1, <3>2
    <3> QED
      BY <3>1, <3>2
  <2> HIDE DEF room, e
  <2> QED
    BY <2>1, <2>2, <2>3, AppendedIsThere
<1> QED
  BY <1>2, <1>3

\* What is taken in while there is room stays within the limit.
LEMMA RoomIsLeft ==
    ASSUME NEW S, IsFiniteSet(S), NEW limit \in Nat, Cardinality(S) < limit, NEW x
    PROVE  IsFiniteSet(S \cup {x}) /\ Cardinality(S \cup {x}) <= limit
<1>1. Cardinality(S) \in Nat
  BY FS_CardinalityType
<1>2. /\ IsFiniteSet(S \cup {x})
      /\ Cardinality(S \cup {x}) = IF x \in S THEN Cardinality(S) ELSE Cardinality(S) + 1
  BY FS_AddElement
<1> QED
  BY <1>1, <1>2

Within(S, limit) == IsFiniteSet(S) /\ Cardinality(S) <= limit

PackagesInv == Within(PackageNamesIn(packages), MaxPackages)

PackagesStep ==
    \/ packages' = packages
    \/ packages' = {}
    \/ \E name \in PackageNames, version \in Versions : addPackage(name, version)

LEMMA PackagesKept ==
    ASSUME PackagesInv, PackagesStep
    PROVE  PackagesInv'
<1>1. MaxPackages \in Nat
  BY LimitsAssumption
<1>2. CASE packages' = packages
  BY <1>2 DEF PackagesInv
<1>3. CASE packages' = {}
  <2>1. PackageNamesIn({}) = {}
    BY DEF PackageNamesIn
  <2> QED
    BY <1>1, <1>3, <2>1, FS_EmptySet DEF PackagesInv, Within
<1>4. CASE \E name \in PackageNames, version \in Versions : addPackage(name, version)
  <2>1. PICK name \in PackageNames, version \in Versions : addPackage(name, version)
    BY <1>4
  <2> DEFINE S == PackageNamesIn(packages)
             new == packages \cup {[name |-> name, version |-> version]}
  <2>2. IsFiniteSet(S) /\ Cardinality(S) \in Nat
    BY FS_CardinalityType DEF PackagesInv, Within
  <2>3. CASE Cardinality(S) >= MaxPackages
    BY <2>1, <2>3 DEF addPackage, PackagesInv
  <2>4. CASE ~(Cardinality(S) >= MaxPackages)
    <3>1. packages' = new
      BY <2>1, <2>4 DEF addPackage
    <3>2. PackageNamesIn(new) = S \cup {name}
      <4> DEFINE e == [name |-> name, version |-> version]
      <4>1. e.name = name /\ new = packages \cup {e}
        OBVIOUS
      <4> HIDE DEF e
      <4> QED
        BY <4>1 DEF PackageNamesIn
    <3>3. Cardinality(S) < MaxPackages
      BY <1>1, <2>2, <2>4
    <3> HIDE DEF S, new
    <3> QED
      BY <1>1, <2>2, <3>1, <3>2, <3>3, RoomIsLeft DEF PackagesInv, Within
  <2> QED
    BY <2>3, <2>4
<1> QED
  BY <1>2, <1>3, <1>4 DEF PackagesStep

SchemasInv == Within(graphQLSchemas, MaxGraphQLSchemas)

SchemasStep ==
    \/ graphQLSchemas' = graphQLSchemas
    \/ \E key \in RouteKeys : setGraphQLSchema(key)

LEMMA SchemasKept ==
    ASSUME SchemasInv, SchemasStep
    PROVE  SchemasInv'
<1>1. MaxGraphQLSchemas \in Nat
  BY LimitsAssumption
<1>2. CASE graphQLSchemas' = graphQLSchemas
  BY <1>2 DEF SchemasInv
<1>3. CASE \E key \in RouteKeys : setGraphQLSchema(key)
  BY <1>1, <1>3, RoomIsLeft DEF SchemasInv, Within, setGraphQLSchema
<1> QED
  BY <1>2, <1>3 DEF SchemasStep

-----------------------------------------------------------------------------
(* Routes.                                                                 *)

RouteEntry == [key : RouteKeys, hits : Nat, rateLimitedCount : Nat]

RoutesInv == routes \in Seq(RouteEntry) /\ Distinct(routes) /\ Len(routes) <= MaxRoutes

RoutesStep ==
    \/ routes' = routes
    \/ routes' = << >>
    \/ \E key \in RouteKeys : AddRoute(key) \/ countRouteRateLimited(key)

RoutesEvictOne ==
    routes' # << >> =>
        \A route \in ToSet(routes) :
            \/ KeepsItsCounts(route)
            \/ /\ Len(routes) = MaxRoutes
               /\ \A other \in ToSet(routes) : route.hits <= other.hits

\* Of several routes one has the fewest hits and came before the others that
\* have as few.
LEMMA LeastUsedExists ==
    ASSUME routes \in Seq(RouteEntry), routes # << >>
    PROVE  /\ LeastUsedRoute \in DOMAIN routes
           /\ \A j \in DOMAIN routes : routes[LeastUsedRoute].hits <= routes[j].hits
<1> DEFINE n == Len(routes)
<1>1. n \in Nat /\ DOMAIN routes = 1 .. n /\ n # 0
  BY LenProperties, EmptySeq
<1>2. \A j \in 1 .. n : routes[j].hits \in Nat
  <2> SUFFICES ASSUME NEW j \in 1 .. n PROVE routes[j].hits \in Nat
    OBVIOUS
  <2>1. routes[j] \in RouteEntry
    BY ElementOfSeq
  <2> QED
    BY <2>1 DEF RouteEntry
<1>3. PICK least \in {routes[j].hits : j \in 1 .. n} :
          \A h \in {routes[j].hits : j \in 1 .. n} : least <= h
  <2> DEFINE H == {routes[j].hits : j \in 1 .. n}
  <2>1. H \subseteq Nat /\ H # {}
    BY <1>1, <1>2
  <2> HIDE DEF H
  <2>2. \E m \in H : \A k \in H : m <= k
    BY <2>1, Smallest
  <2> QED
    BY <2>2 DEF H
<1>4. PICK i \in {j \in 1 .. n : routes[j].hits = least} :
          \A j \in {j \in 1 .. n : routes[j].hits = least} : i <= j
  <2> DEFINE I == {j \in 1 .. n : routes[j].hits = least}
  <2>1. I \subseteq Nat /\ I # {}
    BY <1>1, <1>3
  <2> HIDE DEF I
  <2>2. \E m \in I : \A k \in I : m <= k
    BY <2>1, Smallest
  <2> QED
    BY <2>2 DEF I
<1> DEFINE P(k) == \A j \in 1 .. n :
                       \/ routes[k].hits < routes[j].hits
                       \/ routes[k].hits = routes[j].hits /\ k <= j
<1>5. i \in 1 .. n /\ P(i)
  <2> SUFFICES ASSUME NEW j \in 1 .. n
               PROVE  \/ routes[i].hits < routes[j].hits
                      \/ routes[i].hits = routes[j].hits /\ i <= j
    BY <1>4
  <2>1. routes[i].hits = least /\ least \in Nat
    BY <1>2, <1>4
  <2>2. routes[j].hits \in Nat /\ least <= routes[j].hits
    BY <1>2, <1>3
  <2>3. routes[j].hits = least => i <= j
    BY <1>4
  <2> QED
    BY <2>1, <2>2, <2>3
<1>6. LeastUsedRoute = CHOOSE k \in 1 .. n : P(k)
  BY DEF LeastUsedRoute
<1> HIDE DEF P
<1>7. LeastUsedRoute \in 1 .. n /\ P(LeastUsedRoute)
  BY <1>5, <1>6
<1>8. \A j \in 1 .. n : routes[LeastUsedRoute].hits <= routes[j].hits
  BY <1>2, <1>7 DEF P
<1> QED
  BY <1>1, <1>7, <1>8

\* A route that stays, and one whose counts grew.
LEMMA Kept ==
    ASSUME NEW route, NEW later \in ToSet(routes'), later.key = route.key,
           later.hits >= route.hits, later.rateLimitedCount >= route.rateLimitedCount
    PROVE  KeepsItsCounts(route)
  BY DEF KeepsItsCounts

\* A route that was known counts on.
LEMMA RouteCounts ==
    ASSUME RoutesInv, NEW i \in DOMAIN routes, NEW e \in RouteEntry,
           e.key = routes[i].key, e.hits >= routes[i].hits,
           e.rateLimitedCount >= routes[i].rateLimitedCount
    PROVE  routes' = [routes EXCEPT ![i] = e] => RoutesInv' /\ RoutesEvictOne
<1> DEFINE new == [routes EXCEPT ![i] = e]
<1>1. routes \in Seq(RouteEntry) /\ Distinct(routes) /\ Len(routes) <= MaxRoutes
  BY DEF RoutesInv
<1>2. /\ new \in Seq(RouteEntry) /\ Distinct(new)
      /\ Len(new) = Len(routes) /\ DOMAIN new = DOMAIN routes
      /\ new[i] = e
      /\ \A j \in DOMAIN routes : j # i => new[j] = routes[j]
      /\ Keys(new) = Keys(routes)
  BY <1>1, ReplacedFacts
<1> HIDE DEF new
<1>3. SUFFICES ASSUME routes' = new
               PROVE  RoutesInv' /\ RoutesEvictOne
  BY DEF new
<1>4. ASSUME NEW j \in DOMAIN routes
      PROVE  KeepsItsCounts(routes[j])
  <2>1. routes[j] \in RouteEntry
    BY <1>1, ElementOfSeq
  <2>2. /\ new[j].key = routes[j].key /\ new[j].hits >= routes[j].hits
        /\ new[j].rateLimitedCount >= routes[j].rateLimitedCount
    <3>1. CASE j = i
      BY <1>2, <3>1
    <3>2. CASE j # i
      <4>1. routes[j].hits >= routes[j].hits
        BY <2>1 DEF RouteEntry
      <4>2. routes[j].rateLimitedCount >= routes[j].rateLimitedCount
        BY <2>1 DEF RouteEntry
      <4> QED
        BY <1>2, <3>2, <4>1, <4>2
    <3> QED
      BY <3>1, <3>2
  <2>3. new[j] \in ToSet(new)
    BY <1>2, KeysAre
  <2> QED
    BY <1>3, <2>2, <2>3, Kept
<1>5. RoutesEvictOne
  BY <1>4, KeysAre DEF RoutesEvictOne
<1> QED
  BY <1>1, <1>2, <1>3, <1>5 DEF RoutesInv

\* A route that was not known comes last; the one it pushes out, if any, was
\* the least used.
LEMMA RouteIsAdded ==
    ASSUME RoutesInv, NEW e \in RouteEntry, ~Holds(routes, e.key),
           routes' = Append(RoutesWithRoom, e)
    PROVE  RoutesInv' /\ RoutesEvictOne
<1> DEFINE room == RoutesWithRoom
           least == LeastUsedRoute
<1>1. /\ routes \in Seq(RouteEntry) /\ Distinct(routes)
      /\ Len(routes) \in Nat /\ Len(routes) <= MaxRoutes
      /\ MaxRoutes \in Nat /\ MaxRoutes # 0
  BY LenProperties, LimitsAssumption DEF RoutesInv
<1>2. \A j \in DOMAIN routes : routes[j].key # e.key
  BY <1>1, FoundAt
<1>3. /\ room \in Seq(RouteEntry) /\ Distinct(room) /\ Len(room) < MaxRoutes
      /\ Keys(room) \subseteq Keys(routes)
      /\ \A j \in DOMAIN routes :
            \/ \E m \in DOMAIN room : room[m] = routes[j]
            \/ /\ Len(routes) = MaxRoutes
               /\ \A other \in ToSet(routes) : routes[j].hits <= other.hits
  <2>1. CASE Len(routes) >= MaxRoutes
    <3>1. Len(routes) = MaxRoutes /\ Len(routes) # 0
      BY <1>1, <2>1
    <3>2. routes # << >>
      BY <3>1, EmptySeq
    <3>3. /\ least \in DOMAIN routes
          /\ \A j \in DOMAIN routes : routes[least].hits <= routes[j].hits
      BY <1>1, <3>2, LeastUsedExists
    <3>4. room = RemoveAt(routes, least)
      BY <2>1 DEF RoutesWithRoom
    <3> HIDE DEF room, least
    <3>5. room \in Seq(RouteEntry) /\ Removes(room, routes, least)
      BY <1>1, <3>3, <3>4, RemovedFacts
    <3>6. \A other \in ToSet(routes) : routes[least].hits <= other.hits
      BY <3>3, KeysAre
    <3>7. /\ Distinct(room) /\ Len(room) = Len(routes) - 1
          /\ Keys(room) \subseteq Keys(routes)
          /\ \A j \in DOMAIN routes :
                j # least => \E m \in DOMAIN room : room[m] = routes[j]
      BY <3>5 DEF Removes
    <3>8. Len(room) < MaxRoutes
      BY <1>1, <3>1, <3>7
    <3> QED
      BY <3>1, <3>5, <3>6, <3>7, <3>8
  <2>2. CASE ~(Len(routes) >= MaxRoutes)
    BY <1>1, <2>2 DEF RoutesWithRoom
  <2> QED
    BY <2>1, <2>2
<1> HIDE DEF room, least
<1> DEFINE new == Append(room, e)
<1>4. routes' = new
  BY DEF room
<1>5. \A m \in DOMAIN room : room[m].key # e.key
  <2>1. e.key \notin Keys(routes)
    BY <1>2, KeysAre
  <2>2. e.key \notin Keys(room)
    BY <1>3, <2>1
  <2> QED
    BY <2>2, KeysAre
<1>6. /\ new \in Seq(RouteEntry) /\ Distinct(new)
      /\ Len(new) = Len(room) + 1
      /\ DOMAIN new = DOMAIN room \cup {Len(room) + 1}
      /\ new[Len(room) + 1] = e
      /\ \A j \in DOMAIN room : new[j] = room[j]
      /\ Keys(new) = Keys(room) \cup {e.key}
  BY <1>3, <1>5, AppendedFacts
<1> HIDE DEF new
<1>7. Len(new) <= MaxRoutes
  <2>1. Len(room) \in Nat
    BY <1>3, LenProperties
  <2> QED
    BY <1>1, <1>3, <1>6, <2>1
<1>8. ASSUME NEW j \in DOMAIN routes, NEW m \in DOMAIN room, room[m] = routes[j]
      PROVE  KeepsItsCounts(routes[j])
  <2>1. routes[j] \in RouteEntry
    BY <1>1, ElementOfSeq
  <2>2. new[m] = routes[j] /\ m \in DOMAIN new
    BY <1>6, <1>8
  <2>3. routes[j] \in ToSet(routes')
    BY <1>4, <2>2, KeysAre
  <2>4. routes[j].hits >= routes[j].hits
    BY <2>1 DEF RouteEntry
  <2>5. routes[j].rateLimitedCount >= routes[j].rateLimitedCount
    BY <2>1 DEF RouteEntry
  <2> QED
    BY <2>3, <2>4, <2>5, Kept
<1>9. RoutesEvictOne
  <2> SUFFICES ASSUME NEW route \in ToSet(routes)
               PROVE  \/ KeepsItsCounts(route)
                      \/ /\ Len(routes) = MaxRoutes
                         /\ \A other \in ToSet(routes) : route.hits <= other.hits
    BY DEF RoutesEvictOne
  <2>1. PICK j \in DOMAIN routes : route = routes[j]
    BY KeysAre
  <2> QED
    BY <1>3, <1>8, <2>1
<1> QED
  BY <1>4, <1>6, <1>7, <1>9 DEF RoutesInv

LEMMA RoutesKept ==
    ASSUME RoutesInv, RoutesStep
    PROVE  RoutesInv' /\ RoutesEvictOne
<1>1. /\ routes \in Seq(RouteEntry) /\ Distinct(routes) /\ Len(routes) <= MaxRoutes
      /\ MaxRoutes \in Nat
  BY LimitsAssumption DEF RoutesInv
<1>2. CASE routes' = routes
  <2>1. ASSUME NEW route \in ToSet(routes) PROVE KeepsItsCounts(route)
    <3>1. PICK j \in DOMAIN routes : route = routes[j]
      BY KeysAre
    <3>2. route \in RouteEntry
      BY <1>1, <3>1, ElementOfSeq
    <3>3. route.hits >= route.hits
      BY <3>2 DEF RouteEntry
    <3>4. route.rateLimitedCount >= route.rateLimitedCount
      BY <3>2 DEF RouteEntry
    <3> QED
      BY <1>2, <3>3, <3>4 DEF KeepsItsCounts
  <2> QED
    BY <1>2, <2>1 DEF RoutesInv, RoutesEvictOne
<1>3. CASE routes' = << >>
  BY <1>1, <1>3, EmptySeq DEF RoutesInv, RoutesEvictOne, Distinct
<1>4. CASE \E key \in RouteKeys : AddRoute(key) \/ countRouteRateLimited(key)
  <2>1. PICK key \in RouteKeys : AddRoute(key) \/ countRouteRateLimited(key)
    BY <1>4
  <2>2. CASE Holds(routes, key)
    <3> DEFINE i == At(routes, key)
               hit == [routes[i] EXCEPT !.hits = @ + 1]
               limited == [routes[i] EXCEPT !.rateLimitedCount = @ + 1]
    <3>1. \/ routes' = [routes EXCEPT ![i] = hit]
          \/ routes' = [routes EXCEPT ![i] = limited]
      BY <2>1, <2>2 DEF AddRoute, countRouteRateLimited, Bumped
    <3>2. i \in DOMAIN routes /\ routes[i] \in RouteEntry
      BY <1>1, <2>2, FoundAt, ElementOfSeq
    <3> HIDE DEF i
    <3>3. /\ hit \in RouteEntry /\ hit.key = routes[i].key
          /\ hit.hits >= routes[i].hits
          /\ hit.rateLimitedCount >= routes[i].rateLimitedCount
      BY <3>2 DEF RouteEntry
    <3>4. /\ limited \in RouteEntry /\ limited.key = routes[i].key
          /\ limited.hits >= routes[i].hits
          /\ limited.rateLimitedCount >= routes[i].rateLimitedCount
      BY <3>2 DEF RouteEntry
    <3> HIDE DEF hit, limited
    <3> QED
      BY <3>1, <3>2, <3>3, <3>4, RouteCounts
  <2>3. CASE ~Holds(routes, key)
    <3> DEFINE hit == NewRoute(key, 1, 0)
               limited == NewRoute(key, 0, 1)
    <3>1. \/ routes' = Append(RoutesWithRoom, hit)
          \/ routes' = Append(RoutesWithRoom, limited)
      BY <2>1, <2>3 DEF AddRoute, countRouteRateLimited
    <3>2. /\ hit \in RouteEntry /\ hit.key = key
          /\ limited \in RouteEntry /\ limited.key = key
      BY DEF NewRoute, RouteEntry
    <3> HIDE DEF hit, limited
    <3> QED
      BY <2>3, <3>1, <3>2, RouteIsAdded
  <2> QED
    BY <2>2, <2>3
<1> QED
  BY <1>2, <1>3, <1>4 DEF RoutesStep

\* A route that counts is there.
LEMMA RouteIsThere ==
    ASSUME RoutesInv, NEW key \in RouteKeys, AddRoute(key) \/ countRouteRateLimited(key)
    PROVE  key \in Keys(routes')
<1>1. /\ routes \in Seq(RouteEntry) /\ Distinct(routes)
      /\ Len(routes) \in Nat /\ MaxRoutes \in Nat \ {0}
  BY LenProperties, LimitsAssumption DEF RoutesInv
<1>2. CASE Holds(routes, key)
  <2> DEFINE i == At(routes, key)
             hit == [routes[i] EXCEPT !.hits = @ + 1]
             limited == [routes[i] EXCEPT !.rateLimitedCount = @ + 1]
  <2>1. routes' = [routes EXCEPT ![i] = hit] \/ routes' = [routes EXCEPT ![i] = limited]
    BY <1>2 DEF AddRoute, countRouteRateLimited, Bumped
  <2>2. i \in DOMAIN routes /\ routes[i].key = key /\ routes[i] \in RouteEntry
    BY <1>1, <1>2, FoundAt, ElementOfSeq
  <2> HIDE DEF i
  <2>3. /\ hit \in RouteEntry /\ hit.key = key
        /\ limited \in RouteEntry /\ limited.key = key
    BY <2>2 DEF RouteEntry
  <2> HIDE DEF hit, limited
  <2>4. /\ hit.key \in Keys([routes EXCEPT ![i] = hit])
        /\ limited.key \in Keys([routes EXCEPT ![i] = limited])
    BY <1>1, <2>2, <2>3, ReplacedIsThere
  <2> QED
    BY <2>1, <2>3, <2>4
<1>3. CASE ~Holds(routes, key)
  <2> DEFINE hit == NewRoute(key, 1, 0)
             limited == NewRoute(key, 0, 1)
             room == RoutesWithRoom
             least == LeastUsedRoute
  <2>1. routes' = Append(room, hit) \/ routes' = Append(room, limited)
    BY <1>3 DEF AddRoute, countRouteRateLimited
  <2>2. /\ hit \in RouteEntry /\ hit.key = key
        /\ limited \in RouteEntry /\ limited.key = key
    BY DEF NewRoute, RouteEntry
  <2>3. room \in Seq(RouteEntry)
    <3>1. CASE Len(routes) >= MaxRoutes
      <4>1. Len(routes) # 0
        BY <1>1, <3>1
      <4>2. routes # << >>
        BY <4>1, EmptySeq
      <4>3. least \in DOMAIN routes
        BY <1>1, <4>2, LeastUsedExists
      <4>4. room = RemoveAt(routes, least)
        BY <3>1 DEF RoutesWithRoom
      <4> HIDE DEF room, least
      <4> QED
        BY <1>1, <4>3, <4>4, RemovedShape
    <3>2. CASE ~(Len(routes) >= MaxRoutes)
      BY <1>1, <3>2 DEF RoutesWithRoom
    <3> QED
      BY <3>1, <3>2
  <2> HIDE DEF room, hit, limited
  <2> QED
    BY <2>1, <2>2, <2>3, AppendedIsThere
<1> QED
  BY <1>2, <1>3

-----------------------------------------------------------------------------
(* Timings: calls that were made, each in one place.                       *)

Made == 0 .. calls - 1

BlockOK(block) ==
    /\ block \subseteq Made
    /\ Within(block, MaxPerfSamples)
    /\ block \cap reported = {}

BlocksOK(blocks) ==
    /\ blocks \in Seq(SUBSET Nat)
    /\ Len(blocks) <= MaxCompressedStats
    /\ \A i \in DOMAIN blocks : BlockOK(blocks[i])
    /\ \A i, j \in DOMAIN blocks : i # j => blocks[i] \cap blocks[j] = {}

TimingsInv ==
    /\ calls \in Nat
    /\ reported \subseteq Made
    /\ BlockOK(durations)
    /\ BlocksOK(compressed)
    /\ \A i \in DOMAIN compressed : compressed[i] \cap durations = {}

TimingsStep ==
    \/ calls' \in {calls, calls + 1} /\ UNCHANGED <<durations, compressed, reported>>
    \/ onInspectedCall
    \/ sendHeartbeat
    \/ flushStats

\* The waiting timings make a block of their own, and the oldest block goes
\* when there are too many.
LEMMA CompressedFacts ==
    ASSUME TimingsInv
    PROVE  BlocksOK(CompressedTimings)
<1> DEFINE all == Append(compressed, durations)
           n == Len(compressed)
<1>1. CASE durations = {}
  BY <1>1 DEF CompressedTimings, TimingsInv
<1>2. CASE durations # {}
  <2>1. /\ compressed \in Seq(SUBSET Nat) /\ durations \in SUBSET Nat
        /\ n <= MaxCompressedStats /\ MaxCompressedStats \in Nat
    BY LimitsAssumption DEF TimingsInv, BlocksOK, BlockOK, Made
  <2>2. /\ n \in Nat /\ DOMAIN compressed = 1 .. n
        /\ all \in Seq(SUBSET Nat) /\ Len(all) = n + 1 /\ DOMAIN all = 1 .. n + 1
        /\ all[n + 1] = durations
        /\ \A i \in 1 .. n : all[i] = compressed[i]
    BY <2>1, AppendProperties, LenProperties
  <2> HIDE DEF all, n
  <2>3. \A i \in DOMAIN all : BlockOK(all[i])
    BY <2>2 DEF TimingsInv, BlocksOK
  <2>4. \A i, j \in DOMAIN all : i # j => all[i] \cap all[j] = {}
    <3> SUFFICES ASSUME NEW i \in DOMAIN all, NEW j \in DOMAIN all, i # j
                 PROVE  all[i] \cap all[j] = {}
      OBVIOUS
    <3>1. CASE i \in 1 .. n /\ j \in 1 .. n
      BY <2>2, <3>1 DEF TimingsInv, BlocksOK
    <3>2. CASE i = n + 1
      <4>1. j \in 1 .. n
        BY <2>2, <3>2
      <4> QED
        BY <2>2, <3>2, <4>1 DEF TimingsInv
    <3>3. CASE j = n + 1
      <4>1. i \in 1 .. n
        BY <2>2, <3>3
      <4> QED
        BY <2>2, <3>3, <4>1 DEF TimingsInv
    <3> QED
      BY <2>2, <3>1, <3>2, <3>3
  <2>5. CASE Len(all) > MaxCompressedStats
    <3> DEFINE new == Tail(all)
    <3>1. CompressedTimings = new
      BY <1>2, <2>5 DEF CompressedTimings, all
    <3>2. all # << >>
      BY <2>2, EmptySeq
    <3>3. /\ new \in Seq(SUBSET Nat) /\ Len(new) = n
          /\ \A i \in 1 .. n : new[i] = all[i + 1]
      BY <2>2, <3>2, HeadTailProperties
    <3>4. DOMAIN new = 1 .. n
      BY <3>3, LenProperties
    <3> HIDE DEF new
    <3>5. \A i \in 1 .. n : i + 1 \in DOMAIN all
      BY <2>2
    <3>6. \A i \in DOMAIN new : BlockOK(new[i])
      BY <2>3, <3>3, <3>4, <3>5
    <3>7. \A i, j \in 1 .. n : i # j => i + 1 # j + 1
      BY <2>2
    <3>8. \A i, j \in DOMAIN new : i # j => new[i] \cap new[j] = {}
      BY <2>4, <3>3, <3>4, <3>5, <3>7
    <3> QED
      BY <2>1, <3>1, <3>3, <3>6, <3>8 DEF BlocksOK
  <2>6. CASE ~(Len(all) > MaxCompressedStats)
    <3>1. CompressedTimings = all
      BY <1>2, <2>6 DEF CompressedTimings, all
    <3>2. Len(all) <= MaxCompressedStats
      BY <2>1, <2>2, <2>6
    <3> QED
      BY <2>2, <2>3, <2>4, <3>1, <3>2 DEF BlocksOK
  <2> QED
    BY <2>5, <2>6
<1> QED
  BY <1>1, <1>2

\* No timings at all are well kept timings.
LEMMA NoTimings ==
    /\ << >> \in Seq(SUBSET Nat) /\ DOMAIN << >> = {} /\ Len(<< >>) = 0
    /\ Within({}, MaxPerfSamples) /\ 0 <= MaxCompressedStats
<1>1. << >> \in Seq(SUBSET Nat) /\ DOMAIN << >> = {} /\ Len(<< >>) = 0
  BY EmptySeq
<1>2. MaxPerfSamples \in Nat /\ MaxCompressedStats \in Nat
  BY LimitsAssumption
<1> QED
  BY <1>1, <1>2, FS_EmptySet DEF Within

\* A report of blocks of calls that were made leaves nothing behind.
LEMMA ReportKeeps ==
    ASSUME TimingsInv, NEW blocks, BlocksOK(blocks), TakeReport(blocks)
    PROVE  TimingsInv'
<1>1. /\ calls' = calls + 1 /\ durations' = {} /\ compressed' = << >>
      /\ reported' = reported \cup UNION ToSet(blocks)
  BY DEF TakeReport, Call
<1>2. UNION ToSet(blocks) \subseteq Made
  BY KeysAre DEF BlocksOK, BlockOK
<1>3. calls \in Nat /\ reported \subseteq Made
  BY DEF TimingsInv
<1>4. Made' = 0 .. calls /\ Made \subseteq 0 .. calls
  BY <1>1, <1>3 DEF Made
<1>5. calls' \in Nat /\ reported' \subseteq Made'
  <2>1. calls' \in Nat
    BY <1>1, <1>3
  <2>2. reported' \subseteq Made'
    BY <1>1, <1>2, <1>3, <1>4, Zenon
  <2> QED
    BY <2>1, <2>2
<1>6. BlockOK(durations)'
  BY <1>1, NoTimings DEF BlockOK
<1>7. BlocksOK(compressed)'
  BY <1>1, NoTimings DEF BlocksOK
<1>8. (\A i \in DOMAIN compressed : compressed[i] \cap durations = {})'
  BY <1>1
<1> QED
  BY <1>5, <1>6, <1>7, <1>8 DEF TimingsInv

LEMMA TimingsKept ==
    ASSUME TimingsInv, TimingsStep
    PROVE  TimingsInv'
<1>1. /\ calls \in Nat /\ reported \subseteq Made
      /\ durations \subseteq Made /\ Within(durations, MaxPerfSamples)
      /\ durations \cap reported = {}
      /\ BlocksOK(compressed)
      /\ MaxPerfSamples \in Nat /\ MaxPerfSamples # 0
  BY LimitsAssumption DEF TimingsInv, BlockOK
<1>2. CASE calls' \in {calls, calls + 1} /\ UNCHANGED <<durations, compressed, reported>>
  <2>1. calls' \in Nat /\ Made \subseteq Made'
    <3>1. calls' = calls \/ calls' = calls + 1
      BY <1>2
    <3>2. calls' \in Nat /\ calls <= calls'
      BY <1>1, <3>1
    <3>3. 0 .. calls - 1 \subseteq 0 .. calls' - 1
      <4>1. \A a, b \in Nat : a <= b => 0 .. a - 1 \subseteq 0 .. b - 1
        OBVIOUS
      <4>2. calls \in Nat
        BY <1>1
      <4> QED
        BY <3>2, <4>1, <4>2, Zenon
    <3> QED
      BY <3>2, <3>3 DEF Made
  <2>2. \A block : BlockOK(block) => BlockOK(block)'
    BY <1>2, <2>1 DEF BlockOK
  <2> QED
    BY <1>2, <2>1, <2>2 DEF TimingsInv, BlocksOK
<1>3. CASE onInspectedCall
  <2>1. calls' = calls + 1 /\ reported' = reported
    BY <1>3 DEF onInspectedCall, Call
  <2>2. calls' \in Nat /\ Made' = Made \cup {calls} /\ calls \notin Made
    BY <1>1, <2>1 DEF Made
  <2>3. \A block : BlockOK(block) => BlockOK(block)'
    BY <2>1, <2>2 DEF BlockOK
  <2>4. calls \notin reported /\ reported' \subseteq Made'
    BY <1>1, <2>1, <2>2
  <2>5. CASE Cardinality(durations) >= MaxPerfSamples
    <3>1. durations' = {calls} /\ compressed' = CompressedTimings
      BY <1>3, <2>5 DEF onInspectedCall
    <3>2. BlocksOK(CompressedTimings)
      BY CompressedFacts
    <3>3. BlocksOK(compressed)'
      BY <2>3, <3>1, <3>2 DEF BlocksOK
    <3>4. Within({calls}, MaxPerfSamples)
      <4>1. IsFiniteSet({calls}) /\ Cardinality({calls}) = 1
        BY FS_Singleton
      <4> QED
        BY <1>1, <4>1 DEF Within
    <3>5. BlockOK(durations)'
      BY <2>1, <2>2, <2>4, <3>1, <3>4 DEF BlockOK
    <3>6. (\A i \in DOMAIN compressed : compressed[i] \cap durations = {})'
      BY <2>2, <3>1, <3>2 DEF BlocksOK, BlockOK
    <3> QED
      BY <2>2, <2>4, <3>3, <3>5, <3>6 DEF TimingsInv
  <2>6. CASE ~(Cardinality(durations) >= MaxPerfSamples)
    <3>1. durations' = durations \cup {calls} /\ compressed' = compressed
      BY <1>3, <2>6 DEF onInspectedCall
    <3>2. IsFiniteSet(durations) /\ Cardinality(durations) < MaxPerfSamples
      <4>1. IsFiniteSet(durations) /\ Cardinality(durations) \in Nat
        BY <1>1, FS_CardinalityType DEF Within
      <4> QED
        BY <1>1, <2>6, <4>1
    <3>3. Within(durations \cup {calls}, MaxPerfSamples)
      BY <1>1, <3>2, RoomIsLeft DEF Within
    <3>4. BlockOK(durations)'
      BY <1>1, <2>1, <2>2, <2>4, <3>1, <3>3 DEF BlockOK
    <3>5. BlocksOK(compressed)'
      BY <1>1, <2>3, <3>1 DEF BlocksOK
    <3>6. (\A i \in DOMAIN compressed : compressed[i] \cap durations = {})'
      BY <1>1, <2>2, <3>1 DEF TimingsInv, BlocksOK, BlockOK
    <3> QED
      BY <2>2, <2>4, <3>4, <3>5, <3>6 DEF TimingsInv
  <2> QED
    BY <2>5, <2>6
<1>4. CASE sendHeartbeat
  BY <1>1, <1>4, ReportKeeps DEF sendHeartbeat
<1>5. CASE flushStats
  BY <1>5, CompressedFacts, ReportKeeps DEF flushStats
<1> QED
  BY <1>2, <1>3, <1>4, <1>5 DEF TimingsStep

LEMMA TimingsApart ==
    ASSUME TimingsInv
    PROVE  TimingsReportedOnce
<1> DEFINE first == <<durations, reported>>
           places == first \o compressed
           n == Len(compressed)
<1>1. /\ first \in Seq(SUBSET Nat) /\ Len(first) = 2
      /\ first[1] = durations /\ first[2] = reported
  BY DEF TimingsInv, BlockOK, Made
<1>2. compressed \in Seq(SUBSET Nat) /\ n \in Nat /\ DOMAIN compressed = 1 .. n
  BY LenProperties DEF TimingsInv, BlocksOK
<1> HIDE DEF first, n
<1>3. /\ Len(places) = 2 + n
      /\ \A k \in 1 .. 2 + n :
            places[k] = IF k <= 2 THEN first[k] ELSE compressed[k - 2]
  <2>1. /\ Len(first \o compressed) = Len(first) + Len(compressed)
        /\ \A k \in 1 .. Len(first) + Len(compressed) :
              (first \o compressed)[k] =
                  IF k <= Len(first) THEN first[k] ELSE compressed[k - Len(first)]
    BY <1>1, <1>2, ConcatProperties
  <2> QED
    BY <1>1, <2>1 DEF n
<1> HIDE DEF places
<1>4. /\ places[1] = durations /\ places[2] = reported
      /\ \A k \in 3 .. 2 + n : places[k] = compressed[k - 2] /\ k - 2 \in DOMAIN compressed
  BY <1>1, <1>2, <1>3
<1>5. /\ durations \cap reported = {}
      /\ \A i \in DOMAIN compressed :
            compressed[i] \cap durations = {} /\ compressed[i] \cap reported = {}
      /\ \A i, j \in DOMAIN compressed : i # j => compressed[i] \cap compressed[j] = {}
  BY DEF TimingsInv, BlocksOK, BlockOK
<1>6. ASSUME NEW i \in 1 .. 2 + n, NEW j \in 1 .. 2 + n, i < j
      PROVE  places[i] \cap places[j] = {}
  <2>1. \/ i = 1 /\ j = 2
        \/ i \in {1, 2} /\ j \in 3 .. 2 + n
        \/ i \in 3 .. 2 + n /\ j \in 3 .. 2 + n
    BY <1>2, <1>6
  <2>2. CASE i = 1 /\ j = 2
    BY <1>4, <1>5, <2>2
  <2>3. CASE i \in {1, 2} /\ j \in 3 .. 2 + n
    BY <1>4, <1>5, <2>3
  <2>4. CASE i \in 3 .. 2 + n /\ j \in 3 .. 2 + n
    <3>1. i - 2 # j - 2
      BY <1>6
    <3> QED
      BY <1>4, <1>5, <2>4, <3>1
  <2> QED
    BY <2>1, <2>2, <2>3, <2>4
<1>7. ASSUME NEW i \in 1 .. 2 + n, NEW j \in 1 .. 2 + n, i # j
      PROVE  places[i] \cap places[j] = {}
  <2>1. i < j \/ j < i
    BY <1>2, <1>7
  <2> QED
    BY <1>6, <2>1
<1> QED
  BY <1>3, <1>7 DEF TimingsReportedOnce, places, first

-----------------------------------------------------------------------------
(* The lines of the attack logger.                                         *)

\* The lines of a log from one moment to another.
LinesOf(lines, from, to) == {i \in 1 .. Len(lines) : lines[i] \in from .. to}

LogInv ==
    /\ now \in Nat /\ lastResetTime \in Nat /\ lastResetTime <= now
    /\ printed \in Seq(Nat)
    /\ \A i \in 1 .. Len(printed) : printed[i] <= now /\ printed[i] < lastResetTime + Hour
    /\ logCount = LinesIn(lastResetTime, now) /\ logCount <= MaxLogs
    /\ \E r \in Int :
           r + Hour <= lastResetTime /\ LinesIn(r, lastResetTime - 1) <= MaxLogs

LogStep ==
    \/ UNCHANGED <<logger, now, printed>>
    \/ log
    \/ now' = now + 1 /\ UNCHANGED <<logger, printed>>

LEMMA LinesAre ==
    \A from, to : LinesIn(from, to) = Cardinality(LinesOf(printed, from, to))
  BY DEF LinesIn, LinesOf

\* Lines are finitely many, and fewer in a smaller span.
LEMMA LinesCounted ==
    ASSUME NEW lines, NEW n \in Nat, n = Len(lines), NEW A \in SUBSET (1 .. n), NEW B \in SUBSET A
    PROVE  /\ IsFiniteSet(A) /\ Cardinality(A) \in Nat
           /\ Cardinality(B) \in Nat /\ Cardinality(B) <= Cardinality(A)
<1>1. IsFiniteSet(1 .. n)
  <2>1. 1 \in Int /\ n \in Int
    OBVIOUS
  <2> QED
    BY <2>1, FS_Interval
<1>2. IsFiniteSet(A)
  BY <1>1, FS_Subset
<1>3. IsFiniteSet(B) /\ Cardinality(B) <= Cardinality(A)
  BY <1>2, FS_Subset
<1> QED
  BY <1>2, <1>3, FS_CardinalityType

LEMMA LogKept ==
    ASSUME LogInv, LogStep
    PROVE  LogInv'
<1> DEFINE n == Len(printed)
<1>1. /\ now \in Nat /\ lastResetTime \in Nat /\ lastResetTime <= now
      /\ printed \in Seq(Nat)
      /\ \A i \in 1 .. n : printed[i] <= now /\ printed[i] < lastResetTime + Hour
      /\ logCount = LinesIn(lastResetTime, now) /\ logCount <= MaxLogs
  BY DEF LogInv
<1>2. PICK r \in Int : r + Hour <= lastResetTime /\ LinesIn(r, lastResetTime - 1) <= MaxLogs
  BY DEF LogInv
<1>3. /\ n \in Nat /\ \A i \in 1 .. n : printed[i] \in Nat
      /\ Hour \in Nat /\ Hour # 0 /\ MaxLogs \in Nat /\ MaxLogs # 0
  BY <1>1, LenProperties, ElementOfSeq, LimitsAssumption
<1>4. ASSUME NEW from, NEW to
      PROVE  LinesOf(printed, from, to) \in SUBSET (1 .. n)
  BY DEF LinesOf
<1>5. CASE UNCHANGED <<logger, now, printed>>
  BY <1>5 DEF LogInv, LinesIn, logger
<1>6. CASE now' = now + 1 /\ UNCHANGED <<logger, printed>>
  <2>1. /\ lastResetTime' = lastResetTime /\ logCount' = logCount /\ printed' = printed
    BY <1>6 DEF logger
  <2>2. LinesOf(printed, lastResetTime, now + 1) = LinesOf(printed, lastResetTime, now)
    BY <1>1, <1>3 DEF LinesOf
  <2>3. logCount' = LinesIn(lastResetTime, now)'
    BY <1>1, <1>6, <2>1, <2>2 DEF LinesIn, LinesOf
  <2>4. LinesIn(r, lastResetTime - 1)' = LinesIn(r, lastResetTime - 1)
    BY <2>1 DEF LinesIn
  <2>5. \A i \in 1 .. n : printed[i] <= now + 1
    BY <1>1, <1>3
  <2>6. now + 1 \in Nat /\ lastResetTime <= now + 1
    BY <1>1
  <2> QED
    BY <1>1, <1>2, <1>6, <2>1, <2>3, <2>4, <2>5, <2>6 DEF LogInv
<1>7. CASE log
  <2> DEFINE new == Append(printed, now)
  <2>1. now' = now
    BY <1>7 DEF log
  <2>2. /\ new \in Seq(Nat) /\ Len(new) = n + 1
        /\ new[n + 1] = now /\ \A i \in 1 .. n : new[i] = printed[i]
    BY <1>1, AppendProperties
  <2> HIDE DEF new, n
  <2>3. ASSUME NEW from \in Int, NEW to \in Int
        PROVE  /\ from <= now /\ now <= to =>
                     LinesOf(new, from, to) = LinesOf(printed, from, to) \cup {n + 1}
               /\ ~(from <= now /\ now <= to) =>
                     LinesOf(new, from, to) = LinesOf(printed, from, to)
    <3>1. n \in Nat /\ n = Len(printed) /\ \A i \in 1 .. n : printed[i] \in Nat
      BY <1>3 DEF n
    <3>2. 1 .. n + 1 = (1 .. n) \cup {n + 1} /\ n + 1 \notin 1 .. n
      BY <3>1
    <3>3. now \in from .. to <=> from <= now /\ now <= to
      BY <1>1
    <3> QED
      BY <2>2, <3>1, <3>2, <3>3 DEF LinesOf
  <2>4. CASE ~HourIsOver
    <3>1. /\ lastResetTime' = lastResetTime
          /\ IF logCount >= MaxLogs THEN logCount' = logCount /\ printed' = printed
             ELSE logCount' = logCount + 1 /\ printed' = new
      BY <1>7, <2>4 DEF log, new
    <3>2. CASE logCount >= MaxLogs
      <4>1. UNCHANGED <<logger, now, printed>>
        BY <2>1, <3>1, <3>2 DEF logger
      <4> QED
        BY <1>5, <4>1
    <3>3. CASE ~(logCount >= MaxLogs)
      <4>1. logCount' = logCount + 1 /\ printed' = new
        BY <3>1, <3>3
      <4>2. now < lastResetTime + Hour
        BY <1>1, <1>3, <2>4 DEF HourIsOver
      <4>3. /\ LinesOf(new, lastResetTime, now) =
                   LinesOf(printed, lastResetTime, now) \cup {n + 1}
            /\ LinesOf(new, r, lastResetTime - 1) = LinesOf(printed, r, lastResetTime - 1)
        <5>1. /\ lastResetTime \in Int /\ now \in Int /\ lastResetTime - 1 \in Int
              /\ lastResetTime <= now /\ now <= now /\ ~(now <= lastResetTime - 1)
          BY <1>1
        <5> QED
          BY <2>3, <5>1
      <4>4. /\ IsFiniteSet(LinesOf(printed, lastResetTime, now))
            /\ n + 1 \notin LinesOf(printed, lastResetTime, now)
            /\ Cardinality(LinesOf(printed, lastResetTime, now)) \in Nat
        BY <1>3, <1>4, LinesCounted DEF n
      <4>5. Cardinality(LinesOf(new, lastResetTime, now)) =
                Cardinality(LinesOf(printed, lastResetTime, now)) + 1
        BY <4>3, <4>4, FS_AddElement
      <4>6. logCount' = LinesIn(lastResetTime, now)'
        BY <1>1, <2>1, <3>1, <4>1, <4>5 DEF LinesIn, LinesOf
      <4>7. LinesIn(r, lastResetTime - 1)' = LinesIn(r, lastResetTime - 1)
        BY <3>1, <4>1, <4>3 DEF LinesIn, LinesOf
      <4>8. logCount' <= MaxLogs
        BY <1>1, <1>3, <3>3, <4>1, <4>4, LinesAre
      <4>9. \A i \in 1 .. n + 1 : new[i] <= now /\ new[i] < lastResetTime + Hour
        <5>1. \A i \in 1 .. n : new[i] <= now /\ new[i] < lastResetTime + Hour
          BY <1>1, <2>2 DEF n
        <5>2. \A i \in 1 .. n + 1 : i \in 1 .. n \/ i = n + 1
          BY <1>3 DEF n
        <5>3. now <= now
          BY <1>1
        <5> QED
          BY <2>2, <4>2, <5>1, <5>2, <5>3
      <4> QED
        BY <1>1, <1>2, <2>1, <2>2, <3>1, <4>1, <4>6, <4>7, <4>8, <4>9 DEF LogInv
    <3> QED
      BY <3>2, <3>3
  <2>5. CASE HourIsOver
    <3>1. lastResetTime' = now /\ logCount' = 1 /\ printed' = new
      BY <1>3, <1>7, <2>5 DEF log, new
    <3>2. lastResetTime + Hour <= now
      BY <1>1, <1>3, <2>5 DEF HourIsOver
    <3>3. LinesOf(new, now, now) = {n + 1}
      <4>1. LinesOf(printed, now, now) = {}
        BY <1>1, <1>3, <3>2 DEF LinesOf, n
      <4> QED
        <5>1. now \in Int /\ now <= now
          BY <1>1
        <5> QED
          BY <2>3, <4>1, <5>1
    <3>4. logCount' = LinesIn(lastResetTime, now)'
      <4>1. Cardinality(LinesOf(new, now, now)) = 1
        BY <3>3, FS_Singleton
      <4> QED
        BY <2>1, <3>1, <4>1 DEF LinesIn, LinesOf
    <3>5. LinesOf(new, lastResetTime, now - 1) \in SUBSET LinesOf(printed, lastResetTime, now)
      <4>1. LinesOf(new, lastResetTime, now - 1) = LinesOf(printed, lastResetTime, now - 1)
        <5>1. lastResetTime \in Int /\ now - 1 \in Int /\ ~(now <= now - 1)
          BY <1>1
        <5> QED
          BY <2>3, <5>1
      <4>2. LinesOf(printed, lastResetTime, now - 1)
                \subseteq LinesOf(printed, lastResetTime, now)
        BY <1>1, <1>3 DEF LinesOf, n
      <4> QED
        BY <4>1, <4>2
    <3>6. Cardinality(LinesOf(new, lastResetTime, now - 1)) <= MaxLogs
      <4>1. /\ Cardinality(LinesOf(new, lastResetTime, now - 1)) \in Nat
            /\ Cardinality(LinesOf(printed, lastResetTime, now)) \in Nat
            /\ Cardinality(LinesOf(new, lastResetTime, now - 1))
                   <= Cardinality(LinesOf(printed, lastResetTime, now))
        BY <1>3, <1>4, <3>5, LinesCounted DEF n
      <4>2. Cardinality(LinesOf(printed, lastResetTime, now)) <= MaxLogs
        BY <1>1, LinesAre
      <4> QED
        BY <1>3, <4>1, <4>2
    <3>7. (\E q \in Int :
              q + Hour <= lastResetTime /\ LinesIn(q, lastResetTime - 1) <= MaxLogs)'
      <4>1. PICK q \in Int : q = lastResetTime
        BY <1>1
      <4>2. q + Hour <= lastResetTime'
        BY <3>1, <3>2, <4>1
      <4>3. LinesIn(q, lastResetTime - 1)' = Cardinality(LinesOf(new, q, now - 1))
        BY <3>1 DEF LinesIn, LinesOf
      <4>4. LinesIn(q, lastResetTime - 1)' <= MaxLogs
        BY <3>6, <4>1, <4>3
      <4> QED
        BY <4>2, <4>4
    <3>8. \A i \in 1 .. n + 1 : new[i] <= now /\ new[i] < now + Hour
      <4>1. \A i \in 1 .. n : new[i] \in Nat /\ new[i] <= now
        BY <1>1, <1>3, <2>2 DEF n
      <4>2. \A i \in 1 .. n + 1 : i \in 1 .. n \/ i = n + 1
        BY <1>3 DEF n
      <4>3. now <= now /\ now < now + Hour
        BY <1>1, <1>3
      <4>4. \A t \in Nat : t <= now => t < now + Hour
        BY <1>1, <1>3
      <4> QED
        BY <2>2, <4>1, <4>2, <4>3, <4>4
    <3> QED
      BY <1>1, <1>3, <2>1, <2>2, <3>1, <3>4, <3>7, <3>8 DEF LogInv
  <2> QED
    BY <2>4, <2>5
<1> QED
  BY <1>5, <1>6, <1>7 DEF LogStep

\* The hour before now is part of the counted hour and of the one before it.
LEMMA LogWithin ==
    ASSUME LogInv
    PROVE  LogsBounded
<1> DEFINE n == Len(printed)
           start == now - Hour + 1
           counted == LinesOf(printed, lastResetTime, now)
           hour == LinesOf(printed, start, now)
<1>1. /\ now \in Nat /\ lastResetTime \in Nat /\ lastResetTime <= now
      /\ printed \in Seq(Nat)
      /\ logCount = LinesIn(lastResetTime, now) /\ logCount <= MaxLogs
  BY DEF LogInv
<1>2. PICK r \in Int : r + Hour <= lastResetTime /\ LinesIn(r, lastResetTime - 1) <= MaxLogs
  BY DEF LogInv
<1> DEFINE former == LinesOf(printed, r, lastResetTime - 1)
<1>3. /\ n \in Nat /\ \A i \in 1 .. n : printed[i] \in Nat
      /\ Hour \in Nat /\ MaxLogs \in Nat
  BY <1>1, LenProperties, ElementOfSeq, LimitsAssumption
<1>4. /\ counted \in SUBSET (1 .. n) /\ former \in SUBSET (1 .. n)
      /\ hour \in SUBSET (counted \cup former)
  <2>1. counted \in SUBSET (1 .. n) /\ former \in SUBSET (1 .. n)
    BY DEF LinesOf
  <2>2. ASSUME NEW i \in hour PROVE i \in counted \cup former
    <3>1. i \in 1 .. n /\ printed[i] \in Nat /\ start <= printed[i] /\ printed[i] <= now
      BY <1>3, <2>2 DEF LinesOf
    <3>2. r <= start
      BY <1>1, <1>2, <1>3
    <3> QED
      BY <1>1, <1>2, <1>3, <3>1, <3>2 DEF LinesOf
  <2> QED
    BY <2>1, <2>2
<1>5. LinesIn(start, now) = Cardinality(hour)
  BY LinesAre
<1>6. Cardinality(counted) <= MaxLogs /\ Cardinality(former) <= MaxLogs
  BY <1>1, <1>2, LinesAre
<1> HIDE DEF counted, former, hour
<1>7. /\ IsFiniteSet(counted) /\ IsFiniteSet(former)
      /\ Cardinality(counted) \in Nat /\ Cardinality(former) \in Nat
  BY <1>3, <1>4, LinesCounted
<1>8. /\ IsFiniteSet(counted \cup former)
      /\ Cardinality(counted \cup former) \in Nat
      /\ Cardinality(counted \cup former) <= Cardinality(counted) + Cardinality(former)
  <2>1. /\ IsFiniteSet(counted \cup former) /\ IsFiniteSet(counted \cap former)
        /\ Cardinality(counted \cup former) =
               Cardinality(counted) + Cardinality(former) - Cardinality(counted \cap former)
    BY <1>7, FS_Union, FS_Intersection
  <2>2. Cardinality(counted \cap former) \in Nat /\ Cardinality(counted \cup former) \in Nat
    BY <2>1, FS_CardinalityType
  <2> QED
    BY <1>7, <2>1, <2>2
<1>9. /\ Cardinality(hour) \in Nat
      /\ Cardinality(hour) <= Cardinality(counted \cup former)
  BY <1>4, <1>8, FS_Subset, FS_CardinalityType
<1>10. Cardinality(hour) <= 2 * MaxLogs
  BY <1>3, <1>6, <1>7, <1>8, <1>9
<1> QED
  BY <1>1, <1>5, <1>10 DEF LogsBounded

-----------------------------------------------------------------------------
(* All the collections.                                                    *)

Inv ==
    /\ HostsInv
    /\ UsersInv
    /\ RoutesInv
    /\ PackagesInv
    /\ SchemasInv
    /\ TimingsInv
    /\ LogInv

LEMMA InitInv == Init => Inv
<1> SUFFICES ASSUME Init PROVE Inv
  OBVIOUS
<1>1. \A limit \in {MaxHostnames, MaxUsers, MaxRoutes, MaxGraphQLSchemas, MaxPackages,
                    MaxPerfSamples, MaxCompressedStats, MaxLogs, Hour} :
         limit \in Nat /\ 0 <= limit
  BY LimitsAssumption
<1>2. \A S : << >> \in Seq(S) /\ Len(<< >>) = 0 /\ DOMAIN << >> = {}
  BY EmptySeq
<1>3. HostsInv
  BY <1>1, NoHosts DEF Init, HostsInv
<1>4. UsersInv /\ RoutesInv
  BY <1>1, <1>2 DEF Init, UsersInv, RoutesInv, Distinct
<1>5. PackagesInv /\ SchemasInv
  <2>1. PackageNamesIn({}) = {}
    BY DEF PackageNamesIn
  <2> QED
    BY <1>1, <2>1, FS_EmptySet DEF Init, PackagesInv, SchemasInv, Within
<1>6. TimingsInv
  BY NoTimings DEF Init, TimingsInv, BlocksOK, BlockOK
<1>7. LogInv
  <2>1. \A from, to : LinesOf(printed, from, to) = {}
    BY <1>2 DEF Init, LinesOf
  <2>2. \A from, to : LinesIn(from, to) = 0
    BY <2>1, LinesAre, FS_EmptySet
  <2>3. -Hour \in Int /\ -Hour + Hour <= 0 /\ Hour \in Nat /\ MaxLogs \in Nat
    BY <1>1
  <2>4. \E r \in Int : r + Hour <= lastResetTime /\ LinesIn(r, lastResetTime - 1) <= MaxLogs
    BY <2>2, <2>3 DEF Init
  <2> QED
    BY <1>2, <2>2, <2>3, <2>4 DEF Init, LogInv
<1> QED
  BY <1>3, <1>4, <1>5, <1>6, <1>7 DEF Inv

\* Of every collection, what a step can do to it.
LEMMA StepsAre ==
    ASSUME [Next]_vars
    PROVE  /\ HostsStep /\ UsersStep /\ RoutesStep /\ PackagesStep /\ SchemasStep
           /\ TimingsStep /\ LogStep
<1> USE DEF HostsStep, UsersStep, RoutesStep, PackagesStep, SchemasStep, TimingsStep, LogStep,
            Call, collected, routing, logger
<1>1. CASE UNCHANGED vars
  BY <1>1 DEF vars
<1>2. ASSUME NEW host \in Hosts, NEW port \in Ports, AddHostname(host, port)
      PROVE  /\ HostsStep /\ UsersStep /\ RoutesStep /\ PackagesStep /\ SchemasStep
             /\ TimingsStep /\ LogStep
  BY <1>2 DEF AddHostname
<1>3. ASSUME NEW id \in UserIds, NEW name \in UserNames, AddUser(id, name)
      PROVE  /\ HostsStep /\ UsersStep /\ RoutesStep /\ PackagesStep /\ SchemasStep
             /\ TimingsStep /\ LogStep
  <2>1. UsersStep
    BY <1>3
  <2>2. /\ UNCHANGED <<hostnames, routes, graphQLSchemas, packages, durations, compressed,
                       logCount, lastResetTime, now, reported, printed>>
        /\ calls' = calls + 1
    BY <1>3 DEF AddUser
  <2> QED
    BY <2>1, <2>2
<1>4. ASSUME NEW key \in RouteKeys, AddRoute(key) \/ countRouteRateLimited(key)
      PROVE  /\ HostsStep /\ UsersStep /\ RoutesStep /\ PackagesStep /\ SchemasStep
             /\ TimingsStep /\ LogStep
  <2>1. RoutesStep
    BY <1>4
  <2>2. /\ UNCHANGED <<hostnames, users, graphQLSchemas, packages, durations, compressed,
                       logCount, lastResetTime, now, reported, printed>>
        /\ calls' = calls + 1
    BY <1>4 DEF AddRoute, countRouteRateLimited, RoutesUnchanged
  <2> QED
    BY <2>1, <2>2
<1>5. ASSUME NEW key \in RouteKeys, setGraphQLSchema(key)
      PROVE  /\ HostsStep /\ UsersStep /\ RoutesStep /\ PackagesStep /\ SchemasStep
             /\ TimingsStep /\ LogStep
  <2>1. SchemasStep
    BY <1>5
  <2>2. /\ UNCHANGED <<hostnames, users, routes, packages, durations, compressed,
                       logCount, lastResetTime, now, reported, printed>>
        /\ calls' = calls + 1
    BY <1>5 DEF setGraphQLSchema
  <2> QED
    BY <2>1, <2>2
<1>6. ASSUME NEW name \in PackageNames, NEW version \in Versions, addPackage(name, version)
      PROVE  /\ HostsStep /\ UsersStep /\ RoutesStep /\ PackagesStep /\ SchemasStep
             /\ TimingsStep /\ LogStep
  <2>1. PackagesStep
    BY <1>6
  <2>2. /\ UNCHANGED <<hostnames, users, routes, graphQLSchemas, durations, compressed,
                       logCount, lastResetTime, now, reported, printed>>
        /\ calls' = calls + 1
    BY <1>6 DEF addPackage
  <2> QED
    BY <2>1, <2>2
<1>7. CASE onInspectedCall
  BY <1>7 DEF onInspectedCall
<1>8. CASE sendHeartbeat \/ flushStats
  <2>1. TimingsStep
    BY <1>8
  <2>2. /\ UNCHANGED <<graphQLSchemas, logCount, lastResetTime, now, printed>>
        /\ hostnames' = << >> /\ users' = << >> /\ routes' = << >> /\ packages' = {}
    BY <1>8 DEF sendHeartbeat, flushStats, TakeReport
  <2> QED
    BY <2>1, <2>2
<1>9. CASE log
  BY <1>9 DEF log
<1>10. CASE Tick
  BY <1>10 DEF Tick
<1> QED
  BY <1>1, <1>2, <1>3, <1>4, <1>5, <1>6, <1>7, <1>8, <1>9, <1>10 DEF Next, AgentCalls

LEMMA NextInv == Inv /\ [Next]_vars => Inv'
<1> SUFFICES ASSUME Inv, [Next]_vars PROVE Inv'
  OBVIOUS
<1>1. now \in Nat
  BY DEF Inv, LogInv
<1> QED
  BY <1>1, StepsAre, HostsKept, UsersKept, RoutesKept, PackagesKept, SchemasKept, TimingsKept,
     LogKept DEF Inv

LEMMA InvWithin == Inv => WithinLimits
<1> SUFFICES ASSUME Inv PROVE WithinLimits
  OBVIOUS
<1>1. LogsBounded
  BY LogWithin DEF Inv
<1>2. PortsIn(hostnames) <= MaxHostnames /\ NoKeyTwice(hostnames)
  BY KeysCounted DEF Inv, HostsInv, HostsOK
<1>3. Len(users) <= MaxUsers /\ NoKeyTwice(users)
  BY KeysCounted DEF Inv, UsersInv
<1>4. Len(routes) <= MaxRoutes /\ NoKeyTwice(routes)
  BY KeysCounted DEF Inv, RoutesInv
<1>5. /\ Cardinality(graphQLSchemas) <= MaxGraphQLSchemas
      /\ Cardinality(PackageNamesIn(packages)) <= MaxPackages
  BY DEF Inv, SchemasInv, PackagesInv, Within
<1>6. \A host \in ToSet(hostnames) : host.ports # << >> /\ NoKeyTwice(host.ports)
  <2> SUFFICES ASSUME NEW host \in ToSet(hostnames)
               PROVE  host.ports # << >> /\ NoKeyTwice(host.ports)
    OBVIOUS
  <2>1. PICK i \in DOMAIN hostnames : host = hostnames[i]
    BY KeysAre
  <2>2. PortsOK(host.ports)
    BY <2>1 DEF Inv, HostsInv, HostsOK
  <2> QED
    BY <2>2, KeysCounted DEF PortsOK
<1>7. Len(compressed) <= MaxCompressedStats
  BY DEF Inv, TimingsInv, BlocksOK
<1>8. \A block \in ToSet(compressed) \cup {durations} : Cardinality(block) <= MaxPerfSamples
  <2> SUFFICES ASSUME NEW block \in ToSet(compressed) \cup {durations}
               PROVE  BlockOK(block)
    BY DEF BlockOK, Within
  <2>1. CASE block = durations
    BY <2>1 DEF Inv, TimingsInv
  <2>2. CASE block \in ToSet(compressed)
    <3>1. PICK i \in DOMAIN compressed : block = compressed[i]
      BY <2>2, KeysAre
    <3> QED
      BY <3>1 DEF Inv, TimingsInv, BlocksOK
  <2> QED
    BY <2>1, <2>2
<1> QED
  BY <1>1, <1>2, <1>3, <1>4, <1>5, <1>6, <1>7, <1>8 DEF WithinLimits

LEMMA CollectionsInvariant == Spec => []Inv
<1> QED
  BY InitInv, NextInv, PTL DEF Spec

\* However many hosts, users, routes, packages, schemas, timings and lines
\* the program brings, every collection stays within its limit, and no entry
\* has two places: Hostnames, Users, Routes, Packages, InspectionStatistics
\* and AttackLogger.
THEOREM CollectionsStayWithinLimits == Spec => []WithinLimits
<1> QED
  BY CollectionsInvariant, InvWithin, PTL

\* The timing of a call is told of at most once, however the blocks of
\* InspectionStatistics are made, dropped and reported.
THEOREM TimingsAreReportedOnce == Spec => []TimingsReportedOnce
<1>1. Inv => TimingsReportedOnce
  BY TimingsApart DEF Inv
<1> QED
  BY <1>1, CollectionsInvariant, PTL

\* A call that makes room takes one entry, only from a collection that is
\* full, and of the routes one that was used least; what it added stays.
THEOREM OneIsEvicted == Spec => EvictsOneAtTheLimit
<1>1. Inv /\ [Next]_vars => HostsEvictOne /\ UsersEvictOne /\ RoutesEvictOne
  <2> SUFFICES ASSUME Inv, [Next]_vars
               PROVE  HostsEvictOne /\ UsersEvictOne /\ RoutesEvictOne
    OBVIOUS
  <2>1. now \in Nat
    BY DEF Inv, LogInv
  <2> QED
    BY <2>1, StepsAre, HostsKept, UsersKept, RoutesKept DEF Inv
<1>2. Inv => TheAddedIsThere
  <2> SUFFICES ASSUME Inv
               PROVE  TheAddedIsThere
    OBVIOUS
  <2>1. HostsInv /\ UsersInv /\ RoutesInv /\ now \in Nat
    BY DEF Inv, LogInv
  <2>2. ASSUME NEW host \in Hosts, NEW port \in Ports, AddHostname(host, port), ~(port <= 0)
        PROVE  <<host, port>> \in Endpoints(hostnames')
    <3>1. hostnames' = KeptHostnames(Hit(hostnames, host, port))
      BY <2>2 DEF AddHostname
    <3> QED
      BY <2>1, <3>1, HostIsThere
  <2> QED
    BY <2>1, <2>2, UserIsThere, RouteIsThere DEF TheAddedIsThere
<1>3. Inv /\ [Next]_vars => [/\ TheAddedIsThere
                            /\ HostsEvictOne /\ UsersEvictOne /\ RoutesEvictOne]_vars
  BY <1>1, <1>2
<1> QED
  BY <1>3, CollectionsInvariant, PTL
     DEF Spec, EvictsOneAtTheLimit, HostsEvictOne, UsersEvictOne, RoutesEvictOne

-----------------------------------------------------------------------------
(* The realtime stream: silence.                                           *)

LoopTypes ==
    /\ stream \in {"connecting", "open", "waiting", "stopped"}
    /\ reconnectMs \in InitialReconnect .. MaxReconnect
    /\ sinceStart \in 0 .. StableConnection
    /\ idle \in 0 .. ReadTimeout
    /\ delay \in Nat
    /\ quiet \in Nat
    /\ acts \in Nat

\* What the socket's timer lost of the silence of a connection is a timeout
\* for each activity; the silence does not outrun sinceStart.
Measured ==
    Connected =>
        /\ quiet + ReadTimeout <= Silence(acts) + idle
        /\ quiet <= sinceStart \/ sinceStart = StableConnection

\* What is left of a wait fits into what may be quiet.
Foreseen == stream = "waiting" => quiet + delay <= LongestQuiet(acts)

LoopInv == LoopTypes /\ Measured /\ Foreseen

\* A shorter interval has a shorter longest wait.
LEMMA LongestWaitGrows ==
    ASSUME NEW a \in Nat, NEW b \in Nat, a <= b
    PROVE  LongestWait(a) \in Nat /\ LongestWait(a) <= LongestWait(b)
  BY DEF LongestWait

\* Each activity of the socket lets a connection be silent for a timeout more.
LEMMA SilenceGrows ==
    /\ Silence(0) = ReadTimeout
    /\ \A n \in Nat : Silence(n) \in Nat /\ Silence(n + 1) = Silence(n) + ReadTimeout
  BY StreamLoopAssumption DEF StreamLoopAssumption, Silence

\* LongestQuiet is the longer of the two silences.
LEMMA LongestQuietCovers ==
    ASSUME NEW n \in Nat
    PROVE  /\ LongestQuiet(n) \in Nat
           /\ Silence(n) + LongestWait(InitialReconnect) <= LongestQuiet(n)
           /\ Least(StableConnection, Silence(n)) + LongestWait(MaxReconnect)
                  <= LongestQuiet(n)
<1>1. LongestWait(InitialReconnect) \in Nat /\ LongestWait(MaxReconnect) \in Nat
  BY StreamLoopAssumption, LongestWaitGrows DEF StreamLoopAssumption
<1>2. Silence(n) \in Nat
  BY SilenceGrows
<1> QED
  BY <1>1, <1>2, StreamLoopAssumption DEF StreamLoopAssumption, LongestQuiet, Least

\* A silence is one that the stream may have.
LEMMA SilenceIsCovered ==
    ASSUME NEW n \in Nat
    PROVE  Silence(n) <= LongestQuiet(n)
<1>1. LongestWait(InitialReconnect) \in Nat
  BY StreamLoopAssumption, LongestWaitGrows DEF StreamLoopAssumption
<1> QED
  BY <1>1, LongestQuietCovers, SilenceGrows

\* The loop starts in the invariant.
LEMMA LoopInitInv == LoopInit => LoopInv
  BY StreamLoopAssumption, SilenceGrows
     DEF StreamLoopAssumption, LoopInit, LoopInv, LoopTypes, Measured, Foreseen, Connected

\* A connection that ends leaves room for the wait, whether it was stable or not.
LEMMA ReconnectsKeeps ==
    ASSUME LoopInv, Connected, Reconnects
    PROVE  LoopInv'
<1> DEFINE reconnect == IF IsStable THEN InitialReconnect ELSE reconnectMs
<1>1. /\ reconnect \in InitialReconnect .. MaxReconnect
      /\ InitialReconnect \in Nat \ {0} /\ MaxReconnect \in Nat \ {0}
      /\ ReadTimeout \in Nat /\ StableConnection \in Nat \ {0}
  BY StreamLoopAssumption DEF StreamLoopAssumption, LoopInv, LoopTypes
<1>2. PICK wait \in reconnect .. LongestWait(reconnect) :
          /\ delay' = wait
          /\ reconnectMs' = Least(2 * reconnect, MaxReconnect)
          /\ stream' = "waiting" /\ sinceStart' = 0 /\ idle' = 0
          /\ quiet' = quiet /\ acts' = acts
  BY DEF Reconnects
<1>3. /\ quiet \in Nat /\ acts \in Nat /\ idle \in 0 .. ReadTimeout
      /\ sinceStart \in 0 .. StableConnection /\ Silence(acts) \in Nat
  BY SilenceGrows DEF LoopInv, LoopTypes
<1>silent. quiet <= Silence(acts)
  BY <1>1, <1>3 DEF LoopInv, Measured
<1>4. quiet + wait <= LongestQuiet(acts) /\ wait \in Nat
  <2>1. CASE IsStable
    <3>1. reconnect = InitialReconnect
      BY <2>1
    <3>2. LongestWait(InitialReconnect) \in Nat
      BY <1>1, LongestWaitGrows
    <3> HIDE DEF reconnect
    <3>3. wait \in Nat /\ quiet + wait <= Silence(acts) + LongestWait(InitialReconnect)
      BY <1>1, <1>2, <1>3, <1>silent, <3>1, <3>2
    <3> QED
      BY <1>1, <1>3, <3>2, <3>3, LongestQuietCovers
  <2>2. CASE ~IsStable
    <3>1. reconnect = reconnectMs /\ quiet <= Least(StableConnection, Silence(acts))
      BY <1>1, <1>3, <1>silent, <2>2 DEF LoopInv, Measured, IsStable, Least
    <3>2. Least(StableConnection, Silence(acts)) \in Nat
      BY <1>1, <1>3 DEF Least
    <3> HIDE DEF reconnect
    <3>3. /\ LongestWait(reconnect) \in Nat /\ LongestWait(MaxReconnect) \in Nat
          /\ LongestWait(reconnect) <= LongestWait(MaxReconnect)
      BY <1>1, LongestWaitGrows
    <3>4. /\ wait \in Nat
          /\ quiet + wait
                 <= Least(StableConnection, Silence(acts)) + LongestWait(MaxReconnect)
      BY <1>1, <1>2, <1>3, <3>1, <3>2, <3>3
    <3> QED
      BY <1>3, <3>2, <3>3, <3>4, LongestQuietCovers
  <2> QED
    BY <2>1, <2>2
<1>5. Foreseen'
  BY <1>2, <1>4 DEF Foreseen
<1>6. LoopTypes' /\ Measured'
  BY <1>1, <1>2, <1>3, <1>4 DEF LoopTypes, Measured, Connected, Least
<1> QED
  BY <1>5, <1>6 DEF LoopInv

\* Time passes for the silence and for the timer alike.
LEMMA TimePassesKeeps ==
    ASSUME LoopInv, TimePasses
    PROVE  LoopInv'
<1>1. /\ ReadTimeout \in Nat \ {0} /\ StableConnection \in Nat \ {0}
      /\ acts \in Nat /\ Silence(acts) \in Nat
      /\ LongestQuiet(acts) \in Nat /\ Silence(acts) <= LongestQuiet(acts)
  BY StreamLoopAssumption, SilenceGrows, LongestQuietCovers, SilenceIsCovered
     DEF StreamLoopAssumption, LoopInv, LoopTypes
<1>2. CASE Connected
  <2>1. idle < ReadTimeout
    BY <1>1, <1>2 DEF TimePasses, TimerIsDue, SocketIsIdle, LoopInv, LoopTypes
  <2>2. /\ sinceStart' = Least(sinceStart + 1, StableConnection)
        /\ idle' = idle + 1 /\ delay' = delay
        /\ quiet' = Least(quiet + 1, LongestQuiet(acts) + 1)
        /\ stream' = stream /\ reconnectMs' = reconnectMs /\ acts' = acts
    BY <1>1, <1>2, <2>1 DEF TimePasses, LoopInv, LoopTypes, Least
  <2>3. /\ quiet + ReadTimeout <= Silence(acts) + idle
        /\ quiet <= sinceStart \/ sinceStart = StableConnection
    BY <1>2 DEF LoopInv, Measured
  <2>4. /\ quiet' + ReadTimeout <= Silence(acts) + idle'
        /\ quiet' <= sinceStart' \/ sinceStart' = StableConnection
    BY <1>1, <2>1, <2>2, <2>3 DEF LoopInv, LoopTypes, Least
  <2>5. LoopTypes'
    BY <1>1, <2>1, <2>2, <2>4 DEF LoopInv, LoopTypes, Least
  <2>6. stream' # "waiting" /\ acts' = acts
    BY <1>2, <2>2 DEF Connected
  <2> QED
    BY <2>4, <2>5, <2>6 DEF LoopInv, Measured, Foreseen
<1>3. CASE ~Connected
  <2>1. stream = "waiting" /\ delay # 0
    BY <1>3 DEF Connected, TimePasses, TimerIsDue, LoopInv, LoopTypes
  <2>2. /\ UNCHANGED <<sinceStart, idle, stream, reconnectMs, acts>>
        /\ delay' = delay - 1
        /\ quiet' = Least(quiet + 1, LongestQuiet(acts) + 1)
    BY <1>3 DEF TimePasses
  <2>3. quiet' + delay' <= LongestQuiet(acts) /\ delay' \in Nat /\ quiet' \in Nat
    BY <1>1, <2>1, <2>2 DEF LoopInv, LoopTypes, Foreseen, Least
  <2> QED
    BY <2>1, <2>2, <2>3 DEF LoopInv, LoopTypes, Measured, Foreseen, Connected
<1> QED
  BY <1>2, <1>3

\* What the timer of the socket loses by an activity is less than a timeout.
LEMMA SocketActsKeeps ==
    ASSUME LoopInv, SocketActs
    PROVE  LoopInv'
<1>1. /\ UNCHANGED <<stream, reconnectMs, sinceStart, delay, quiet>>
      /\ idle' = 0 /\ acts' = acts + 1 /\ Connected
  BY DEF SocketActs
<1>2. /\ quiet \in Nat /\ acts \in Nat /\ idle \in 0 .. ReadTimeout /\ ReadTimeout \in Nat
      /\ Silence(acts) \in Nat /\ Silence(acts + 1) = Silence(acts) + ReadTimeout
      /\ quiet + ReadTimeout <= Silence(acts) + idle
  BY <1>1, StreamLoopAssumption, SilenceGrows
     DEF StreamLoopAssumption, LoopInv, LoopTypes, Measured
<1>3. quiet' + ReadTimeout <= Silence(acts') + idle'
  BY <1>1, <1>2
<1> QED
  BY <1>1, <1>2, <1>3 DEF LoopInv, LoopTypes, Measured, Foreseen, Connected

\* Every step keeps the invariant.
LEMMA LoopNextInv == LoopInv /\ [LoopNext]_loopVars => LoopInv'
<1> SUFFICES ASSUME LoopInv, [LoopNext]_loopVars
             PROVE  LoopInv'
  OBVIOUS
<1>1. CASE ConnectionEnds
  BY <1>1, ReconnectsKeeps DEF ConnectionEnds
<1>2. CASE TimesOut
  BY <1>2, ReconnectsKeeps DEF TimesOut, SocketIsIdle
<1>3. CASE Rejected
  BY <1>3 DEF Rejected, LoopInv, LoopTypes, Measured, Foreseen, Connected
<1>4. CASE Hears
  BY <1>4, StreamLoopAssumption, SilenceGrows
     DEF StreamLoopAssumption, Hears, LoopInv, LoopTypes, Measured, Foreseen, Connected
<1>5. CASE Connects
  BY <1>5, StreamLoopAssumption, SilenceGrows
     DEF StreamLoopAssumption, Connects, LoopInv, LoopTypes, Measured, Foreseen, Connected
<1>6. CASE TimePasses
  BY <1>6, TimePassesKeeps
<1>7. CASE UNCHANGED loopVars
  BY <1>7 DEF loopVars, LoopInv, LoopTypes, Measured, Foreseen, Connected
<1>8. CASE SocketActs
  BY <1>8, SocketActsKeeps
<1> QED
  BY <1>1, <1>2, <1>3, <1>4, <1>5, <1>6, <1>7, <1>8 DEF LoopNext

\* The invariant bounds the silence.
LEMMA InvImpliesBound == LoopInv => NeverQuietForLong
<1> SUFFICES ASSUME LoopInv, stream # "stopped"
             PROVE  quiet <= LongestQuiet(acts)
  BY DEF NeverQuietForLong
<1>1. CASE Connected
  <2>1. /\ quiet \in Nat /\ acts \in Nat /\ idle \in 0 .. ReadTimeout /\ ReadTimeout \in Nat
        /\ Silence(acts) \in Nat /\ LongestQuiet(acts) \in Nat
        /\ Silence(acts) <= LongestQuiet(acts)
        /\ quiet + ReadTimeout <= Silence(acts) + idle
    BY <1>1, StreamLoopAssumption, SilenceGrows, LongestQuietCovers, SilenceIsCovered
       DEF StreamLoopAssumption, LoopInv, LoopTypes, Measured
  <2> QED
    BY <2>1
<1>2. CASE stream = "waiting"
  BY <1>2, LongestQuietCovers DEF LoopInv, LoopTypes, Foreseen
<1> QED
  BY <1>1, <1>2 DEF LoopInv, LoopTypes, Connected

\* connectToSSE.ts: whatever connections do, the stream says something or is
\* asked for again within LongestQuiet, unless the cloud rejected the agent;
\* and each time its socket is active without that holds off the timeout once.
THEOREM StreamIsNeverQuietForLong == LoopSpec => []NeverQuietForLong
<1>1. LoopInit => LoopInv
  BY LoopInitInv
<1>2. LoopInv /\ [LoopNext]_loopVars => LoopInv'
  BY LoopNextInv
<1>3. LoopInv => NeverQuietForLong
  BY InvImpliesBound
<1> QED
  BY <1>1, <1>2, <1>3, PTL DEF LoopSpec

-----------------------------------------------------------------------------
(* The back-off.                                                           *)

Longer(wait) == Least(2 * wait, MaxReconnect)

\* f doubles the first wait n times.
Doubles(f, n) ==
    /\ f \in [0 .. n -> Nat]
    /\ f[0] = InitialReconnect
    /\ \A i \in 1 .. n : f[i] = Longer(f[i - 1])

\* Such a function exists.
LEMMA DoublesExists == \E f : Doubles(f, MaxTries)
<1>1. InitialReconnect \in Nat /\ MaxReconnect \in Nat /\ MaxTries \in Nat
  BY StreamLoopAssumption DEF StreamLoopAssumption
<1> DEFINE step == [i \in 1 .. MaxTries |-> [wait \in Nat |-> Longer(wait)]]
<1>2. step \in [1 .. MaxTries -> [Nat -> Nat]]
  BY <1>1 DEF Longer, Least
<1>3. \A i \in 1 .. MaxTries, wait \in Nat : step[i][wait] = Longer(wait)
  OBVIOUS
<1> HIDE DEF step
<1>4. PICK f : Follows(f, MaxTries, Nat, InitialReconnect, step)
  BY <1>1, <1>2, RecursionExists
<1>5. f \in [0 .. MaxTries -> Nat] /\ \A i \in 1 .. MaxTries : f[i - 1] \in Nat
  BY <1>1, <1>4 DEF Follows
<1>6. f[0] = InitialReconnect /\ \A i \in 1 .. MaxTries : f[i] = Longer(f[i - 1])
  BY <1>3, <1>4, <1>5 DEF Follows
<1> QED
  BY <1>5, <1>6 DEF Doubles

\* The recursion of Doubled, unfolded.
LEMMA DoubledUnfolds ==
    /\ Doubled[0] = InitialReconnect
    /\ \A n \in 1 .. MaxTries : Doubled[n] = Longer(Doubled[n - 1])
<1> DEFINE Eq(f) == f = [n \in 0 .. MaxTries |->
               IF n = 0 THEN InitialReconnect ELSE Least(2 * f[n - 1], MaxReconnect)]
           doubled == CHOOSE f : Eq(f)
<1>1. MaxTries \in Nat
  BY StreamLoopAssumption DEF StreamLoopAssumption
<1>2. \E f : Eq(f)
  <2>1. PICK f : Doubles(f, MaxTries)
    BY DoublesExists
  <2> DEFINE g == [n \in 0 .. MaxTries |->
               IF n = 0 THEN InitialReconnect ELSE Least(2 * f[n - 1], MaxReconnect)]
  <2>2. ASSUME NEW n \in 0 .. MaxTries
        PROVE  f[n] = g[n]
    <3>1. CASE n = 0
      BY <2>1, <3>1 DEF Doubles
    <3>2. CASE n # 0
      <4>1. n \in 1 .. MaxTries
        BY <1>1, <3>2
      <4> QED
        BY <2>1, <3>2, <4>1 DEF Doubles, Longer
    <3> QED
      BY <3>1, <3>2
  <2>3. f = [n \in 0 .. MaxTries |-> f[n]] /\ g = [n \in 0 .. MaxTries |-> g[n]]
    BY <2>1 DEF Doubles
  <2> HIDE DEF g
  <2>4. f = g
    BY <2>2, <2>3
  <2> QED
    BY <2>4 DEF g
<1>3. Eq(doubled)
  <2> HIDE DEF Eq
  <2> QED
    BY <1>2, Zenon
<1>4. Doubled = doubled
  BY DEF Doubled
<1> HIDE DEF doubled
<1>5. Doubled = [n \in 0 .. MaxTries |->
          IF n = 0 THEN InitialReconnect ELSE Least(2 * Doubled[n - 1], MaxReconnect)]
  BY <1>3, <1>4
<1>6. Doubled[0] = InitialReconnect
  BY <1>1, <1>5
<1>7. ASSUME NEW n \in 1 .. MaxTries
      PROVE  Doubled[n] = Longer(Doubled[n - 1])
  <2>1. n \in 0 .. MaxTries /\ n # 0
    BY <1>1
  <2> QED
    BY <1>5, <2>1 DEF Longer
<1> QED
  BY <1>6, <1>7

\* The next wait is the first, doubled with every connection that ended since
\* the last stable one; more than MaxTries double nothing any more.
Doubling == tries \in 0 .. MaxTries /\ reconnectMs = Doubled[tries]

\* At the bound of tries the limit was reached.
LEMMA LimitIsReached ==
    /\ Doubled[MaxTries - 1] = MaxReconnect
    /\ Doubled[MaxTries] = MaxReconnect
<1>1. /\ MaxTries \in Nat \ {0} /\ MaxReconnect \in Nat \ {0}
      /\ Doubled[MaxTries - 1] = MaxReconnect
  BY StreamLoopAssumption DEF StreamLoopAssumption
<1>2. MaxTries \in 1 .. MaxTries
  BY <1>1
<1>3. Doubled[MaxTries] = Longer(MaxReconnect)
  BY <1>1, <1>2, DoubledUnfolds
<1> QED
  BY <1>1, <1>3 DEF Longer, Least

\* A connection that ends waits as long as that, and doubles it.
LEMMA ReconnectsDoubling ==
    ASSUME Doubling, sinceStart \in 0 .. StableConnection, Reconnects
    PROVE  /\ Doubling'
           /\ delay' \in Doubled[tries' - 1] .. LongestWait(Doubled[tries' - 1])
<1> DEFINE reconnect == IF IsStable THEN InitialReconnect ELSE reconnectMs
<1>1. /\ delay' \in reconnect .. LongestWait(reconnect)
      /\ reconnectMs' = Longer(reconnect)
      /\ tries' = IF IsStable THEN 1 ELSE Least(tries + 1, MaxTries)
  BY DEF Reconnects, Longer, IsStable
<1>2. MaxTries \in Nat \ {0} /\ tries \in 0 .. MaxTries /\ reconnectMs = Doubled[tries]
  BY StreamLoopAssumption DEF StreamLoopAssumption, Doubling
<1>3. tries' \in 1 .. MaxTries
  BY <1>1, <1>2 DEF Least
<1>4. reconnect = Doubled[tries' - 1]
  <2>1. CASE IsStable
    BY <1>1, <2>1, DoubledUnfolds
  <2>2. CASE ~IsStable /\ tries < MaxTries
    <3>1. tries' = tries + 1 /\ tries' - 1 = tries
      BY <1>1, <1>2, <2>2 DEF Least
    <3> QED
      BY <1>2, <2>2, <3>1
  <2>3. CASE ~IsStable /\ ~(tries < MaxTries)
    <3>1. tries = MaxTries /\ tries' = MaxTries
      BY <1>1, <1>2, <2>3 DEF Least
    <3> QED
      BY <1>2, <2>3, <3>1, LimitIsReached
  <2> QED
    BY <2>1, <2>2, <2>3
<1>5. Doubled[tries'] = Longer(reconnect)
  BY <1>3, <1>4, DoubledUnfolds
<1>6. tries' \in 0 .. MaxTries
  BY <1>3
<1> HIDE DEF reconnect
<1> QED
  BY <1>1, <1>4, <1>5, <1>6 DEF Doubling

\* connectToSSE.ts, the loop: each wait is that of the last stable connection,
\* doubled with every one that ended since, and at most half as long again.
THEOREM LoopBacksOff == LoopSpec => BacksOff
<1> DEFINE Waits ==
        stream # "waiting" /\ stream' = "waiting" =>
            LET wait == Doubled[tries' - 1]
            IN  delay' \in wait .. LongestWait(wait)
<1>1. LoopInit => LoopInv /\ Doubling
  BY LoopInitInv, StreamLoopAssumption, DoubledUnfolds DEF StreamLoopAssumption, LoopInit, Doubling
<1>2. LoopInv /\ Doubling /\ [LoopNext]_loopVars => Doubling' /\ [Waits]_loopVars
  <2> SUFFICES ASSUME LoopInv, Doubling, [LoopNext]_loopVars
               PROVE  Doubling' /\ [Waits]_loopVars
    OBVIOUS
  <2>1. CASE ConnectionEnds \/ TimesOut
    <3>1. Reconnects /\ sinceStart \in 0 .. StableConnection
      BY <2>1 DEF ConnectionEnds, TimesOut, LoopInv, LoopTypes
    <3> QED
      BY <3>1, ReconnectsDoubling
  <2>2. CASE Rejected \/ SocketActs \/ Hears \/ Connects \/ TimePasses \/ UNCHANGED loopVars
    <3>1. UNCHANGED <<reconnectMs, tries>>
      BY <2>2 DEF Rejected, SocketActs, Hears, Connects, TimePasses, loopVars
    <3>2. stream # "waiting" => stream' # "waiting"
      BY <2>2 DEF Rejected, SocketActs, Hears, Connects, TimePasses, loopVars
    <3> QED
      BY <3>1, <3>2 DEF Doubling
  <2> QED
    BY <2>1, <2>2 DEF LoopNext
<1>3. LoopInv /\ [LoopNext]_loopVars => LoopInv'
  BY LoopNextInv
<1> QED
  BY <1>1, <1>2, <1>3, PTL DEF LoopSpec, BacksOff

-----------------------------------------------------------------------------
(* Redirects: the chain of calls of findOrigin.                            *)

\* To finds the first redirect to a URL, if there is one.
LEMMA ToFacts ==
    ASSUME NEW redirects \in Seq(Redirect), NEW url
    PROVE  /\ To(redirects, url) = 0 \/ To(redirects, url) \in DOMAIN redirects
           /\ To(redirects, url) # 0 => redirects[To(redirects, url)].destination = url
           /\ To(redirects, url) = 0 => \A r \in ToSet(redirects) : r.destination # url
<1> DEFINE I == {i \in 1 .. Len(redirects) : redirects[i].destination = url}
<1>1. Len(redirects) \in Nat /\ DOMAIN redirects = 1 .. Len(redirects)
  BY LenProperties
<1>2. To(redirects, url) = IF I # {} THEN Min(I) ELSE 0
  BY DEF To, SelectInSeq
<1>3. CASE I = {}
  BY <1>1, <1>2, <1>3 DEF ToSet
<1>4. CASE I # {}
  <2>1. I \subseteq Nat
    BY <1>1
  <2>2. PICK m \in I : \A i \in I : m <= i
    BY <1>4, <2>1, Smallest
  <2>3. Min(I) \in I
    <3> HIDE DEF I
    <3> QED
      BY <2>2 DEF Min
  <2>4. To(redirects, url) \in I
    BY <1>2, <1>4, <2>3
  <2>5. To(redirects, url) # 0
    BY <1>1, <2>4
  <2> QED
    BY <1>1, <2>4, <2>5
<1> QED
  BY <1>3, <1>4

\* Back goes to a URL along a recorded redirect.
LEMMA BackFacts ==
    ASSUME NEW redirects \in Seq(Redirect), NEW url \in Urls
    PROVE  /\ Back(redirects, url) \in Urls
           /\ To(redirects, url) # 0 =>
                  \E r \in ToSet(redirects) :
                      r.destination = url /\ r.source = Back(redirects, url)
<1>1. CASE To(redirects, url) = 0
  BY <1>1 DEF Back
<1>2. CASE To(redirects, url) # 0
  <2> DEFINE r == redirects[To(redirects, url)]
  <2>1. To(redirects, url) \in DOMAIN redirects /\ r.destination = url
    BY <1>2, ToFacts
  <2>2. r \in Redirect /\ r \in ToSet(redirects)
    BY <2>1, LenProperties, ElementOfSeq DEF ToSet
  <2>3. Back(redirects, url) = r.source
    BY <1>2 DEF Back
  <2> QED
    BY <2>1, <2>2, <2>3 DEF Redirect
<1> QED
  BY <1>1, <1>2

\* The recursion of Visited, unfolded.
LEMMA VisitedUnfolds ==
    ASSUME NEW redirects \in Seq(Redirect), NEW url \in Urls
    PROVE  LET visited == Visited(redirects, url)
           IN  /\ visited \in [0 .. MaxRecursionDepth + 1 -> Urls]
               /\ visited[0] = url
               /\ \A n \in 1 .. MaxRecursionDepth + 1 :
                     visited[n] = Back(redirects, visited[n - 1])
<1> DEFINE N == MaxRecursionDepth + 1
           Eq(f) == f = [n \in 0 .. MaxRecursionDepth + 1 |->
                            IF n = 0 THEN url ELSE Back(redirects, f[n - 1])]
           visited == CHOOSE f : Eq(f)
           step == [n \in 1 .. N |-> [u \in Urls |-> Back(redirects, u)]]
<1>1. N \in Nat /\ N = MaxRecursionDepth + 1
  BY RedirectsAssumption DEF RedirectsAssumption
<1>2. step \in [1 .. N -> [Urls -> Urls]]
  BY BackFacts
<1>3. PICK f : Follows(f, N, Urls, url, step)
  <2> HIDE DEF N, step
  <2> QED
    BY <1>1, <1>2, RecursionExists
<1>4. /\ f \in [0 .. N -> Urls] /\ f[0] = url
      /\ \A n \in 1 .. N : f[n] = Back(redirects, f[n - 1])
  <2>1. f \in [0 .. N -> Urls] /\ f[0] = url /\ \A n \in 1 .. N : f[n] = step[n][f[n - 1]]
    BY <1>3 DEF Follows
  <2>2. ASSUME NEW n \in 1 .. N
        PROVE  f[n] = Back(redirects, f[n - 1])
    <3>1. n - 1 \in 0 .. N
      BY <1>1
    <3>2. f[n - 1] \in Urls
      BY <2>1, <3>1
    <3> QED
      BY <2>1, <3>2
  <2> QED
    BY <2>1, <2>2
<1>5. Eq(f)
  <2> DEFINE g == [n \in 0 .. MaxRecursionDepth + 1 |->
                      IF n = 0 THEN url ELSE Back(redirects, f[n - 1])]
  <2>1. ASSUME NEW n \in 0 .. N PROVE f[n] = g[n]
    <3>1. n = 0 \/ n \in 1 .. N
      BY <1>1
    <3> QED
      BY <1>1, <1>4, <3>1
  <2>2. f = [n \in 0 .. N |-> f[n]] /\ g = [n \in 0 .. N |-> g[n]]
    BY <1>1, <1>4
  <2> HIDE DEF g, N
  <2>3. f = g
    BY <2>1, <2>2
  <2> QED
    BY <2>3 DEF g
<1>6. Eq(visited)
  <2> HIDE DEF Eq
  <2> QED
    BY <1>5, Zenon
<1>7. Visited(redirects, url) = visited
  BY DEF Visited
<1> HIDE DEF visited
<1>8. \A n \in 0 .. N : visited[n] = IF n = 0 THEN url ELSE Back(redirects, visited[n - 1])
  BY <1>1, <1>6
<1>9. visited[0] = url /\ \A n \in 1 .. N : visited[n] = Back(redirects, visited[n - 1])
  BY <1>1, <1>8
<1>10. \A n \in 0 .. N : visited[n] \in Urls
  <2> DEFINE T == {n \in 0 .. N : visited[n] \in Urls}
  <2>1. 0 \in T
    BY <1>1, <1>9
  <2>2. \A n \in 1 .. N : n - 1 \in T => n \in T
    BY <1>1, <1>9, BackFacts
  <2>3. 0 .. N \subseteq T
    <3> HIDE DEF T, N
    <3> QED
      BY <1>1, <2>1, <2>2, CountingUp
  <2> QED
    BY <2>3
<1> QED
  BY <1>1, <1>6, <1>7, <1>9, <1>10

\* The URLs one redirect before those of a set.
OneBefore(redirects, urls) ==
    {r.source : r \in {s \in ToSet(redirects) : s.destination \in urls}}

Most(redirects) == Len(redirects) + MaxRecursionDepth + 2

\* The recursion of StepsBefore, unfolded.
LEMMA StepsUnfold ==
    ASSUME NEW redirects \in Seq(Redirect), NEW url \in Urls
    PROVE  LET before == StepsBefore(redirects, url)
           IN  /\ before[0] = {url}
               /\ \A n \in 1 .. Most(redirects) :
                     before[n] = OneBefore(redirects, before[n - 1])
<1> DEFINE N == Most(redirects)
           S == SUBSET Urls
           Eq(f) == f = [n \in 0 .. Len(redirects) + MaxRecursionDepth + 2 |->
               IF n = 0 THEN {url}
               ELSE {r.source : r \in {s \in ToSet(redirects) : s.destination \in f[n - 1]}}]
           before == CHOOSE f : Eq(f)
           step == [n \in 1 .. N |-> [urls \in S |-> OneBefore(redirects, urls)]]
<1>1. N \in Nat /\ N = Len(redirects) + MaxRecursionDepth + 2
  BY RedirectsAssumption, LenProperties DEF RedirectsAssumption, Most
<1>2. \A urls \in S : OneBefore(redirects, urls) \in S
  <2>1. ASSUME NEW r \in ToSet(redirects)
        PROVE  r.source \in Urls
    <3>1. PICK i \in 1 .. Len(redirects) : r = redirects[i]
      BY LenProperties DEF ToSet
    <3>2. r \in Redirect
      BY <3>1, ElementOfSeq
    <3> QED
      BY <3>2 DEF Redirect
  <2> QED
    BY <2>1 DEF OneBefore
<1>3. PICK f : Follows(f, N, S, {url}, step)
  <2>1. step \in [1 .. N -> [S -> S]] /\ {url} \in S
    BY <1>2
  <2> HIDE DEF N, step, S
  <2> QED
    BY <1>1, <2>1, RecursionExists
<1>4. /\ f \in [0 .. N -> S] /\ f[0] = {url}
      /\ \A n \in 1 .. N : f[n] = OneBefore(redirects, f[n - 1])
  <2>1. f \in [0 .. N -> S] /\ f[0] = {url} /\ \A n \in 1 .. N : f[n] = step[n][f[n - 1]]
    BY <1>3 DEF Follows
  <2>2. ASSUME NEW n \in 1 .. N
        PROVE  f[n] = OneBefore(redirects, f[n - 1])
    <3>1. n - 1 \in 0 .. N
      BY <1>1
    <3>2. f[n - 1] \in S
      BY <2>1, <3>1
    <3> QED
      BY <2>1, <3>2
  <2> QED
    BY <2>1, <2>2
<1>5. Eq(f)
  <2> DEFINE g == [n \in 0 .. Len(redirects) + MaxRecursionDepth + 2 |->
               IF n = 0 THEN {url}
               ELSE {r.source : r \in {s \in ToSet(redirects) : s.destination \in f[n - 1]}}]
  <2>1. ASSUME NEW n \in 0 .. N PROVE f[n] = g[n]
    <3>1. n = 0 \/ n \in 1 .. N
      BY <1>1
    <3>2. g[n] = IF n = 0 THEN {url} ELSE OneBefore(redirects, f[n - 1])
      BY <1>1 DEF OneBefore
    <3> HIDE DEF g
    <3> QED
      BY <1>1, <1>4, <3>1, <3>2
  <2>2. f = [n \in 0 .. N |-> f[n]] /\ g = [n \in 0 .. N |-> g[n]]
    BY <1>1, <1>4
  <2> HIDE DEF g, N
  <2>3. f = g
    BY <2>1, <2>2
  <2> QED
    BY <2>3 DEF g
<1>6. Eq(before)
  <2> HIDE DEF Eq
  <2> QED
    BY <1>5, Zenon
<1>7. StepsBefore(redirects, url) = before
  BY DEF StepsBefore
<1> HIDE DEF before
<1>8. \A n \in 0 .. N :
         before[n] = IF n = 0 THEN {url} ELSE OneBefore(redirects, before[n - 1])
  BY <1>1, <1>6 DEF OneBefore
<1>9. before[0] = {url} /\ \A n \in 1 .. N : before[n] = OneBefore(redirects, before[n - 1])
  BY <1>1, <1>8
<1> QED
  BY <1>7, <1>9

\* What leads on from a call: the URL of the next is one redirect before.
Leads(redirects, visited, n) ==
    \E r \in ToSet(redirects) : r.destination = visited[n] /\ r.source = visited[n + 1]

\* The last call of findOrigin, for which each call before it went on.
LEMMA LastCall ==
    ASSUME NEW redirects \in Seq(Redirect), NEW url \in Urls
    PROVE  LET visited == Visited(redirects, url)
           IN  \E m \in 0 .. MaxRecursionDepth + 1 :
                 /\ findOrigin(redirects, url) = visited[m]
                 /\ \/ \E k \in 0 .. m - 1 : visited[k] = visited[m]
                    \/ m = MaxRecursionDepth + 1
                    \/ To(redirects, visited[m]) = 0
                 /\ \A n \in 0 .. m - 1 :
                       /\ To(redirects, visited[n]) # 0
                       /\ Leads(redirects, visited, n)
                       /\ \A k \in 0 .. n - 1 : visited[k] # visited[n]
<1> DEFINE visited == Visited(redirects, url)
           N == MaxRecursionDepth + 1
           Ends == {depth \in 0 .. MaxRecursionDepth + 1 :
                        \/ \E before \in 0 .. depth - 1 : visited[before] = visited[depth]
                        \/ depth > MaxRecursionDepth
                        \/ To(redirects, visited[depth]) = 0}
<1>1. MaxRecursionDepth \in Nat
  BY RedirectsAssumption DEF RedirectsAssumption
<1>2. /\ visited \in [0 .. N -> Urls]
      /\ visited[0] = url
      /\ \A n \in 1 .. N : visited[n] = Back(redirects, visited[n - 1])
  BY VisitedUnfolds
<1> HIDE DEF visited
<1>3. PICK m \in Ends : \A n \in Ends : m <= n
  <2>1. N \in Ends /\ Ends \subseteq Nat
    BY <1>1
  <2> HIDE DEF Ends, N
  <2> QED
    BY <2>1, Smallest, Zenon
<1>4. findOrigin(redirects, url) = visited[m]
  <2>1. findOrigin(redirects, url) = visited[Min(Ends)]
    BY DEF findOrigin, visited
  <2>2. Ends \subseteq Nat
    OBVIOUS
  <2>3. Min(Ends) = m
    <3> HIDE DEF Ends
    <3>1. \A x \in Ends : (\A y \in Ends : x <= y) => x = m
      BY <1>3, <2>2
    <3> QED
      BY <1>3, <3>1 DEF Min
  <2> QED
    BY <2>1, <2>3
<1>5. m \in 0 .. N
  BY <1>3
<1>6. \/ \E k \in 0 .. m - 1 : visited[k] = visited[m]
      \/ m = N
      \/ To(redirects, visited[m]) = 0
  <2>1. m \in Nat /\ (m > MaxRecursionDepth => m = N)
    BY <1>1, <1>5
  <2>2. \/ \E k \in 0 .. m - 1 : visited[k] = visited[m]
        \/ m > MaxRecursionDepth
        \/ To(redirects, visited[m]) = 0
    BY <1>3
  <2> QED
    BY <2>1, <2>2
<1>7. ASSUME NEW n \in 0 .. m - 1
      PROVE  /\ To(redirects, visited[n]) # 0
             /\ Leads(redirects, visited, n)
             /\ \A k \in 0 .. n - 1 : visited[k] # visited[n]
  <2>1. n \in 0 .. N /\ n + 1 \in 1 .. N /\ ~(m <= n) /\ n + 1 - 1 = n
    BY <1>1, <1>5
  <2>2. n \notin Ends
    BY <1>3, <2>1
  <2>3. To(redirects, visited[n]) # 0 /\ \A k \in 0 .. n - 1 : visited[k] # visited[n]
    BY <1>1, <2>1, <2>2
  <2>4. visited[n] \in Urls
    BY <1>2, <2>1
  <2>5. visited[n + 1] = Back(redirects, visited[n])
    BY <1>2, <2>1
  <2>6. Leads(redirects, visited, n)
    BY <2>3, <2>4, <2>5, BackFacts DEF Leads
  <2> QED
    BY <2>3, <2>6
<1> QED
  BY <1>4, <1>5, <1>6, <1>7 DEF visited

\* A chain of different URLs is no longer than the list of redirects.
LEMMA ChainIsShort ==
    ASSUME NEW redirects \in Seq(Redirect), NEW visited, NEW m \in Nat,
           \A n \in 0 .. m - 1 : To(redirects, visited[n]) # 0,
           \A n \in 0 .. m - 1 : \A k \in 0 .. n - 1 : visited[k] # visited[n]
    PROVE  m <= Len(redirects)
<1> DEFINE L == Len(redirects)
           f == [n \in 0 .. m - 1 |-> To(redirects, visited[n])]
<1>1. L \in Nat /\ DOMAIN redirects = 1 .. L
  BY LenProperties
<1>2. \A n \in 0 .. m - 1 : f[n] \in 1 .. L /\ redirects[f[n]].destination = visited[n]
  BY <1>1, ToFacts
<1>3. f \in [0 .. m - 1 -> 1 .. L]
  BY <1>2
<1>4. \A x, y \in 0 .. m - 1 : f[x] = f[y] => x = y
  <2> SUFFICES ASSUME NEW x \in 0 .. m - 1, NEW y \in 0 .. m - 1, f[x] = f[y], x # y
               PROVE  FALSE
    OBVIOUS
  <2>1. visited[x] = visited[y]
    <3> HIDE DEF f
    <3> QED
      BY <1>2
  <2>2. x \in 0 .. y - 1 \/ y \in 0 .. x - 1
    OBVIOUS
  <2> QED
    BY <2>1, <2>2
<1>5. f \in Injection(0 .. m - 1, 1 .. L)
  <2> HIDE DEF f
  <2> QED
    BY <1>3, <1>4 DEF Injection, IsInjective
<1>6. /\ IsFiniteSet(0 .. m - 1) /\ Cardinality(0 .. m - 1) = m
      /\ IsFiniteSet(1 .. L) /\ Cardinality(1 .. L) = L
  <2>1. /\ 0 \in Int /\ 1 \in Int /\ m - 1 \in Int /\ L \in Int
        /\ (0 > m - 1 => m = 0) /\ m - 1 - 0 + 1 = m
        /\ (1 > L => L = 0) /\ L - 1 + 1 = L
    BY <1>1
  <2> HIDE DEF L
  <2> QED
    BY <2>1, FS_Interval
<1> HIDE DEF f
<1>7. Cardinality(0 .. m - 1) <= Cardinality(1 .. L)
  BY <1>5, <1>6, FS_Injection
<1> QED
  BY <1>6, <1>7

\* Where redirects lead in a circle, there is always something before it.
LEMMA CirclesHaveNoStart ==
    ASSUME NEW redirects \in Seq(Redirect), NEW url \in Urls, NEW visited,
           NEW from \in Nat, NEW m \in Nat, from < m,
           visited[from] = visited[m],
           \A n \in 0 .. m - 1 : Leads(redirects, visited, n),
           visited[0] = url
    PROVE  \A n \in 0 .. Most(redirects) :
              \E i \in 0 .. m - 1 : visited[i] \in StepsBefore(redirects, url)[n]
<1> DEFINE before == StepsBefore(redirects, url)
           T == {n \in 0 .. Most(redirects) : \E i \in 0 .. m - 1 : visited[i] \in before[n]}
<1>1. /\ before[0] = {url}
      /\ \A n \in 1 .. Most(redirects) : before[n] = OneBefore(redirects, before[n - 1])
  BY StepsUnfold
<1>2. Most(redirects) \in Nat
  BY RedirectsAssumption, LenProperties DEF RedirectsAssumption, Most
<1> HIDE DEF before
<1>3. 0 \in T
  <2>1. 0 \in 0 .. m - 1 /\ visited[0] \in before[0]
    BY <1>1
  <2> QED
    BY <1>2, <2>1
<1>4. ASSUME NEW n \in 1 .. Most(redirects), n - 1 \in T
      PROVE  n \in T
  <2>1. PICK i \in 0 .. m - 1 : visited[i] \in before[n - 1]
    BY <1>4
  <2>2. PICK r \in ToSet(redirects) : r.destination = visited[i] /\ r.source = visited[i + 1]
    BY DEF Leads
  <2>3. visited[i + 1] \in before[n]
    BY <1>1, <2>1, <2>2 DEF OneBefore
  <2>4. \E j \in 0 .. m - 1 : visited[j] = visited[i + 1]
    <3>1. CASE i + 1 = m
      <4>1. from \in 0 .. m - 1
        OBVIOUS
      <4> QED
        BY <3>1, <4>1
    <3>2. CASE i + 1 # m
      <4>1. i + 1 \in 0 .. m - 1
        BY <3>2
      <4> QED
        BY <4>1
    <3> QED
      BY <3>1, <3>2
  <2>5. n \in 0 .. Most(redirects)
    BY <1>2
  <2> QED
    BY <2>3, <2>4, <2>5
<1>5. 0 .. Most(redirects) \subseteq T
  <2> HIDE DEF T
  <2> QED
    BY <1>2, <1>3, <1>4, CountingUp
<1> QED
  BY <1>5 DEF before

\* Each call is given a URL as many redirects before the first one's as it is deep.
LEMMA VisitedAreBefore ==
    ASSUME NEW redirects \in Seq(Redirect), NEW url \in Urls, NEW visited,
           NEW m \in 0 .. Most(redirects),
           \A n \in 0 .. m - 1 : Leads(redirects, visited, n),
           visited[0] = url
    PROVE  \A n \in 0 .. m : visited[n] \in StepsBefore(redirects, url)[n]
<1> DEFINE before == StepsBefore(redirects, url)
           T == {n \in 0 .. m : visited[n] \in before[n]}
<1>1. /\ before[0] = {url}
      /\ \A n \in 1 .. Most(redirects) : before[n] = OneBefore(redirects, before[n - 1])
  BY StepsUnfold
<1>2. Most(redirects) \in Nat /\ m \in Nat
  BY RedirectsAssumption, LenProperties DEF RedirectsAssumption, Most
<1> HIDE DEF before
<1>3. 0 \in T
  BY <1>1, <1>2
<1>4. ASSUME NEW n \in 1 .. m, n - 1 \in T
      PROVE  n \in T
  <2>1. n \in 1 .. Most(redirects) /\ n - 1 \in 0 .. m - 1 /\ n - 1 + 1 = n /\ n \in 0 .. m
    BY <1>2
  <2>2. PICK r \in ToSet(redirects) : r.destination = visited[n - 1] /\ r.source = visited[n]
    BY <2>1 DEF Leads
  <2>3. visited[n] \in before[n]
    BY <1>1, <1>4, <2>1, <2>2 DEF OneBefore
  <2> QED
    BY <2>1, <2>3
<1>5. 0 .. m \subseteq T
  <2> HIDE DEF T
  <2> QED
    BY <1>2, <1>3, <1>4, CountingUp
<1> QED
  BY <1>5 DEF before

\* For any list of redirects and any URL, the answer leads to the URL, and is
\* the start of the chain where the chain has one that the search can reach.
LEMMA OriginOfAnyChain ==
    ASSUME NEW redirects \in Seq(Redirect), NEW url \in Urls
    PROVE  OriginStartsTheChain(redirects, url)
<1> DEFINE visited == Visited(redirects, url)
           before == StepsBefore(redirects, url)
           origin == getRedirectOrigin(redirects, url)
           length == Len(redirects)
           D == MaxRecursionDepth
<1>1. D \in Nat /\ length \in Nat /\ Most(redirects) = length + D + 2
  BY RedirectsAssumption, LenProperties DEF RedirectsAssumption, Most
<1>2. visited \in [0 .. D + 1 -> Urls] /\ visited[0] = url
  BY VisitedUnfolds
<1>3. /\ before[0] = {url}
      /\ \A n \in 1 .. Most(redirects) : before[n] = OneBefore(redirects, before[n - 1])
  BY StepsUnfold
<1>4. PICK m \in 0 .. D + 1 :
         /\ findOrigin(redirects, url) = visited[m]
         /\ \/ \E k \in 0 .. m - 1 : visited[k] = visited[m]
            \/ m = D + 1
            \/ To(redirects, visited[m]) = 0
         /\ \A n \in 0 .. m - 1 :
               /\ To(redirects, visited[n]) # 0
               /\ Leads(redirects, visited, n)
               /\ \A k \in 0 .. n - 1 : visited[k] # visited[n]
  BY LastCall
<1>5. origin = IF visited[m] = url THEN NoOrigin ELSE visited[m]
  BY <1>4 DEF getRedirectOrigin
<1>6. m \in Nat /\ m <= length /\ m \in 0 .. Most(redirects)
  <2>1. m \in Nat
    BY <1>1
  <2> HIDE DEF visited
  <2>2. m <= length
    BY <1>4, <2>1, ChainIsShort
  <2> QED
    BY <1>1, <2>1, <2>2
<1>7. visited[m] \in before[m]
  <2> HIDE DEF visited, before
  <2>1. \A n \in 0 .. m : visited[n] \in StepsBefore(redirects, url)[n]
    BY <1>2, <1>4, <1>6, VisitedAreBefore
  <2> QED
    BY <1>6, <2>1 DEF before
<1>8. visited[m] \in Urls /\ NoOrigin \notin Urls
  BY <1>2, RedirectsAssumption DEF RedirectsAssumption
<1> HIDE DEF visited, before, origin
<1>9. origin # NoOrigin => \E n \in 1 .. length : origin \in before[n]
  <2> SUFFICES ASSUME origin # NoOrigin PROVE \E n \in 1 .. length : origin \in before[n]
    OBVIOUS
  <2>1. visited[m] # url /\ origin = visited[m]
    BY <1>5
  <2>2. m \in 1 .. length
    BY <1>1, <1>2, <1>6, <2>1
  <2> QED
    BY <1>7, <2>1, <2>2
<1>10. ASSUME before[length + 1] = {}, before[D + 2] = {}
       PROVE  /\ origin = NoOrigin <=> before[1] = {}
              /\ \A r \in ToSet(redirects) : r.destination # origin
  <2>1. To(redirects, visited[m]) = 0
    <3>1. ~ \E k \in 0 .. m - 1 : visited[k] = visited[m]
      <4> SUFFICES ASSUME NEW k \in 0 .. m - 1, visited[k] = visited[m] PROVE FALSE
        OBVIOUS
      <4>1. k \in Nat /\ k < m
        BY <1>6
      <4>2. \A n \in 0 .. Most(redirects) :
               \E i \in 0 .. m - 1 : visited[i] \in StepsBefore(redirects, url)[n]
        BY <1>2, <1>4, <1>6, <4>1, CirclesHaveNoStart
      <4>3. length + 1 \in 0 .. Most(redirects)
        BY <1>1
      <4> QED
        BY <1>10, <4>2, <4>3 DEF before
    <3>2. CASE m = D + 1 /\ To(redirects, visited[m]) # 0
      <4>1. PICK r \in ToSet(redirects) : r.destination = visited[m]
        BY <1>8, <3>2, BackFacts
      <4>2. PICK n \in 1 .. Most(redirects) : n = D + 2 /\ n - 1 = m
        BY <1>1, <3>2
      <4>3. before[n] = OneBefore(redirects, before[n - 1])
        BY <1>3
      <4>4. r.source \in OneBefore(redirects, before[m])
        BY <1>7, <4>1 DEF OneBefore
      <4> QED
        BY <1>10, <4>2, <4>3, <4>4
    <3> QED
      BY <1>4, <3>1, <3>2
  <2>2. \A r \in ToSet(redirects) : r.destination # visited[m]
    BY <2>1, ToFacts
  <2>3. before[1] = OneBefore(redirects, {url})
    <3>1. 1 \in 1 .. Most(redirects) /\ 1 - 1 = 0
      BY <1>1
    <3> QED
      BY <1>3, <3>1
  <2>4. CASE visited[m] = url
    <3>1. before[1] = {}
      BY <2>2, <2>3, <2>4 DEF OneBefore
    <3>2. \A r \in ToSet(redirects) : r.destination \in Urls
      <4> SUFFICES ASSUME NEW r \in ToSet(redirects) PROVE r.destination \in Urls
        OBVIOUS
      <4>1. PICK i \in 1 .. Len(redirects) : r = redirects[i]
        BY LenProperties DEF ToSet
      <4>2. r \in Redirect
        BY <4>1, ElementOfSeq
      <4> QED
        BY <4>2 DEF Redirect
    <3> QED
      BY <1>5, <1>8, <2>4, <3>1, <3>2
  <2>5. CASE visited[m] # url
    <3>1. origin = visited[m] /\ origin # NoOrigin
      BY <1>5, <1>8, <2>5
    <3>2. m # 0
      BY <1>2, <2>5
    <3>3. To(redirects, visited[0]) # 0
      <4>1. 0 \in 0 .. m - 1
        BY <1>6, <3>2
      <4> QED
        BY <1>4, <4>1
    <3>4. PICK r \in ToSet(redirects) : r.destination = url
      BY <1>2, <3>3, BackFacts
    <3>5. r.source \in before[1]
      BY <2>3, <3>4 DEF OneBefore
    <3> QED
      BY <2>2, <3>1, <3>5
  <2> QED
    BY <2>4, <2>5
<1> QED
  BY <1>9, <1>10 DEF OriginStartsTheChain, before, origin

-----------------------------------------------------------------------------
(* Lists whose elements are in an order.                                   *)

\* An order of a list, given as the pairs it may hold one before the other.
Ordered(s, R) == \A i, j \in DOMAIN s : i < j => <<s[i], s[j]>> \in R

\* The elements of a list are those at its places.
LEMMA ToSetIs ==
    ASSUME NEW S, NEW s \in Seq(S)
    PROVE  /\ Len(s) \in Nat /\ DOMAIN s = 1 .. Len(s)
           /\ ToSet(s) = {s[i] : i \in 1 .. Len(s)}
           /\ ToSet(s) \subseteq S
           /\ s = << >> <=> ToSet(s) = {}
           /\ s # << >> => 1 \in DOMAIN s /\ s[1] \in ToSet(s)
<1>1. Len(s) \in Nat /\ DOMAIN s = 1 .. Len(s)
  BY LenProperties
<1>2. ToSet(s) = {s[i] : i \in 1 .. Len(s)}
  BY <1>1 DEF ToSet
<1>3. ToSet(s) \subseteq S
  BY <1>2, ElementOfSeq
<1>4. s = << >> <=> Len(s) = 0
  BY EmptySeq
<1>5. Len(s) = 0 => ToSet(s) = {}
  BY <1>1, <1>2
<1>6. Len(s) # 0 => 1 \in 1 .. Len(s) /\ s[1] \in ToSet(s)
  BY <1>1, <1>2
<1> QED
  BY <1>1, <1>2, <1>3, <1>4, <1>5, <1>6

\* One more element that all the others may stand before.
LEMMA OrderedAppend ==
    ASSUME NEW S, NEW s \in Seq(S), NEW e \in S, NEW R,
           Ordered(s, R), \A x \in ToSet(s) : <<x, e>> \in R
    PROVE  Ordered(Append(s, e), R)
<1> DEFINE n == Len(s)
           new == Append(s, e)
<1>1. /\ n \in Nat /\ DOMAIN s = 1 .. n
      /\ DOMAIN new = 1 .. n + 1
      /\ new[n + 1] = e
      /\ \A j \in 1 .. n : new[j] = s[j]
  BY AppendProperties, LenProperties
<1> HIDE DEF n, new
<1> SUFFICES ASSUME NEW i \in 1 .. n + 1, NEW j \in 1 .. n + 1, i < j
             PROVE  <<new[i], new[j]>> \in R
  BY <1>1 DEF Ordered, new
<1>2. i \in 1 .. n /\ new[i] = s[i]
  BY <1>1
<1>3. CASE j = n + 1
  <2>1. s[i] \in ToSet(s)
    BY <1>1, <1>2 DEF ToSet
  <2> QED
    BY <1>1, <1>2, <1>3, <2>1
<1>4. CASE j # n + 1
  <2>1. j \in 1 .. n /\ new[j] = s[j]
    BY <1>1, <1>4
  <2> QED
    BY <1>1, <1>2, <2>1 DEF Ordered
<1> QED
  BY <1>3, <1>4

\* What is appended is the one element more.
LEMMA AppendedSet ==
    ASSUME NEW S, NEW s \in Seq(S), NEW e \in S
    PROVE  Append(s, e) \in Seq(S) /\ ToSet(Append(s, e)) = ToSet(s) \cup {e}
<1> DEFINE n == Len(s)
           new == Append(s, e)
<1>1. /\ n \in Nat /\ new \in Seq(S) /\ Len(new) = n + 1
      /\ new[n + 1] = e
      /\ \A j \in 1 .. n : new[j] = s[j]
  BY AppendProperties, LenProperties
<1> HIDE DEF new
<1>2. ToSet(new) = {new[i] : i \in 1 .. n + 1} /\ ToSet(s) = {s[i] : i \in 1 .. n}
  BY <1>1, ToSetIs
<1>3. 1 .. n + 1 = (1 .. n) \cup {n + 1}
  BY <1>1
<1> HIDE DEF n
<1>4. ToSet(new) = ToSet(s) \cup {e}
  BY <1>1, <1>2, <1>3
<1> QED
  BY <1>1, <1>4 DEF new

\* Two lists one after the other.
LEMMA JoinedFacts ==
    ASSUME NEW S, NEW a \in Seq(S), NEW b \in Seq(S), NEW R
    PROVE  /\ a \o b \in Seq(S)
           /\ ToSet(a \o b) = ToSet(a) \cup ToSet(b)
           /\ a # << >> => (a \o b)[1] = a[1]
           /\ Ordered(a, R) /\ Ordered(b, R)
                  /\ (\A x \in ToSet(a), y \in ToSet(b) : <<x, y>> \in R)
              => Ordered(a \o b, R)
<1> DEFINE l == Len(a)
           m == Len(b)
           c == a \o b
<1>1. l \in Nat /\ m \in Nat /\ DOMAIN a = 1 .. l /\ DOMAIN b = 1 .. m
  BY LenProperties
<1>2. /\ c \in Seq(S) /\ Len(c) = l + m
      /\ \A i \in 1 .. l + m : c[i] = IF i <= l THEN a[i] ELSE b[i - l]
  BY ConcatProperties
<1> HIDE DEF c
<1>3. DOMAIN c = 1 .. l + m
  BY <1>2, LenProperties
<1>4. /\ ToSet(c) = {c[i] : i \in 1 .. l + m}
      /\ ToSet(a) = {a[i] : i \in 1 .. l}
      /\ ToSet(b) = {b[i] : i \in 1 .. m}
  <2>1. ToSet(c) = {c[i] : i \in 1 .. l + m}
    BY <1>2, <1>3 DEF ToSet
  <2> QED
    BY <1>1, <2>1 DEF ToSet
<1> HIDE DEF l, m
<1>5. ASSUME NEW i \in 1 .. l + m
      PROVE  \/ i \in 1 .. l /\ c[i] = a[i]
             \/ i - l \in 1 .. m /\ c[i] = b[i - l] /\ ~(i <= l)
  <2>1. CASE i <= l
    BY <1>1, <1>2, <2>1
  <2>2. CASE ~(i <= l)
    BY <1>1, <1>2, <2>2
  <2> QED
    BY <2>1, <2>2
<1>6. ToSet(c) = ToSet(a) \cup ToSet(b)
  <2>1. ToSet(c) \subseteq ToSet(a) \cup ToSet(b)
    BY <1>4, <1>5
  <2>2. ASSUME NEW i \in 1 .. l PROVE a[i] \in ToSet(c)
    <3>1. i \in 1 .. l + m /\ i <= l
      BY <1>1
    <3> QED
      BY <1>2, <1>4, <3>1
  <2>3. ASSUME NEW i \in 1 .. m PROVE b[i] \in ToSet(c)
    <3>1. PICK k \in 1 .. l + m : k = i + l /\ ~(k <= l) /\ k - l = i
      BY <1>1
    <3>2. c[k] = b[i]
      BY <1>2, <3>1
    <3> QED
      BY <1>4, <3>2
  <2>4. ToSet(a) \cup ToSet(b) \subseteq ToSet(c)
    BY <1>4, <2>2, <2>3
  <2> QED
    BY <2>1, <2>4
<1>7. ASSUME a # << >> PROVE c[1] = a[1]
  <2>1. 1 \in 1 .. l
    BY <1>1, <1>7, ToSetIs
  <2>2. 1 \in 1 .. l + m /\ 1 <= l
    BY <1>1, <2>1
  <2> QED
    BY <1>2, <2>2
<1>8. ASSUME Ordered(a, R), Ordered(b, R),
             \A x \in ToSet(a), y \in ToSet(b) : <<x, y>> \in R
      PROVE  Ordered(c, R)
  <2> SUFFICES ASSUME NEW i \in 1 .. l + m, NEW j \in 1 .. l + m, i < j
               PROVE  <<c[i], c[j]>> \in R
    BY <1>3 DEF Ordered
  <2>1. CASE i \in 1 .. l /\ j \in 1 .. l
    <3>1. c[i] = a[i] /\ c[j] = a[j]
      BY <1>1, <1>2, <2>1
    <3> QED
      BY <1>1, <1>8, <2>1, <3>1 DEF Ordered
  <2>2. CASE i \in 1 .. l /\ j \notin 1 .. l
    <3>1. c[i] = a[i] /\ j - l \in 1 .. m /\ c[j] = b[j - l]
      BY <1>1, <1>2, <2>2
    <3>2. a[i] \in ToSet(a) /\ b[j - l] \in ToSet(b)
      BY <1>4, <2>2, <3>1
    <3> QED
      BY <1>8, <3>1, <3>2
  <2>3. CASE i \notin 1 .. l
    <3>1. i - l \in 1 .. m /\ c[i] = b[i - l] /\ j - l \in 1 .. m /\ c[j] = b[j - l]
      BY <1>1, <1>2, <2>3
    <3>2. i - l < j - l
      BY <1>1
    <3> QED
      BY <1>1, <1>8, <3>1, <3>2 DEF Ordered
  <2> QED
    BY <2>1, <2>2, <2>3
<1> QED
  BY <1>2, <1>6, <1>7, <1>8 DEF c

\* The recursion of Matching, unfolded: Keeps gives the list so far.
Keeps(K, those, s, S) ==
    /\ K \in [0 .. Len(s) -> Seq(S)]
    /\ K[0] = << >>
    /\ \A n \in 1 .. Len(s) :
          K[n] = IF s[n] \in those THEN Append(K[n - 1], s[n]) ELSE K[n - 1]

\* The last of these lists is what Matching returns.
LEMMA MatchingUnfolds ==
    ASSUME NEW S, NEW s \in Seq(S), NEW those
    PROVE  \E K : Keeps(K, those, s, S) /\ Matching(those, s) = K[Len(s)]
<1> DEFINE N == Len(s)
           Grown(n, list) == IF s[n] \in those THEN Append(list, s[n]) ELSE list
           Eq(f) == f = [n \in 0 .. Len(s) |->
                            IF n = 0 THEN << >>
                            ELSE IF s[n] \in those THEN Append(f[n - 1], s[n])
                            ELSE f[n - 1]]
           K == CHOOSE f : Eq(f)
           step == [n \in 1 .. N |-> [list \in Seq(S) |-> Grown(n, list)]]
<1>1. N \in Nat /\ \A n \in 1 .. N : s[n] \in S
  BY LenProperties, ElementOfSeq
<1>2. \A n \in 1 .. N, list \in Seq(S) : Grown(n, list) \in Seq(S)
  BY <1>1, AppendProperties
<1>3. PICK f : Follows(f, N, Seq(S), << >>, step)
  <2>1. step \in [1 .. N -> [Seq(S) -> Seq(S)]] /\ << >> \in Seq(S)
    <3> HIDE DEF Grown
    <3> QED
      BY <1>2, EmptySeq
  <2> HIDE DEF N, step
  <2> QED
    BY <1>1, <2>1, RecursionExists
<1> HIDE DEF Grown
<1>4. /\ f \in [0 .. N -> Seq(S)] /\ f[0] = << >>
      /\ \A n \in 1 .. N : f[n] = Grown(n, f[n - 1])
  <2>1. f \in [0 .. N -> Seq(S)] /\ f[0] = << >> /\ \A n \in 1 .. N : f[n] = step[n][f[n - 1]]
    BY <1>3 DEF Follows
  <2>2. ASSUME NEW n \in 1 .. N
        PROVE  f[n] = Grown(n, f[n - 1])
    <3>1. n - 1 \in 0 .. N
      BY <1>1
    <3>2. f[n - 1] \in Seq(S)
      BY <2>1, <3>1
    <3> QED
      BY <2>1, <3>2
  <2> QED
    BY <2>1, <2>2
<1>5. Eq(f)
  <2> DEFINE g == [n \in 0 .. Len(s) |->
                      IF n = 0 THEN << >>
                      ELSE IF s[n] \in those THEN Append(f[n - 1], s[n])
                      ELSE f[n - 1]]
  <2>1. ASSUME NEW n \in 0 .. N PROVE f[n] = g[n]
    <3>1. n = 0 \/ n \in 1 .. N
      BY <1>1
    <3>2. g[n] = IF n = 0 THEN << >> ELSE Grown(n, f[n - 1])
      BY DEF Grown
    <3> HIDE DEF g
    <3> QED
      BY <1>1, <1>4, <3>1, <3>2
  <2>2. f = [n \in 0 .. N |-> f[n]] /\ g = [n \in 0 .. N |-> g[n]]
    BY <1>4
  <2> HIDE DEF g, N
  <2>3. f = g
    BY <2>1, <2>2
  <2> QED
    BY <2>3 DEF g
<1>6. Eq(K)
  <2> HIDE DEF Eq
  <2> QED
    BY <1>5, Zenon
<1>7. Matching(those, s) = K[Len(s)]
  BY DEF Matching
<1> HIDE DEF K
<1>8. /\ K = [n \in 0 .. N |-> K[n]]
      /\ \A n \in 0 .. N : K[n] = IF n = 0 THEN << >> ELSE Grown(n, K[n - 1])
  BY <1>6 DEF Grown
<1>9. K[0] = << >> /\ \A n \in 1 .. N : K[n] = Grown(n, K[n - 1])
  BY <1>1, <1>8
<1>10. \A n \in 0 .. N : K[n] \in Seq(S)
  <2> DEFINE T == {n \in 0 .. N : K[n] \in Seq(S)}
  <2>1. 0 \in T
    <3>1. 0 \in 0 .. N
      BY <1>1
    <3>2. K[0] \in Seq(S)
      <4>1. << >> \in Seq(S)
        BY EmptySeq
      <4> QED
        BY <1>9, <4>1
    <3> HIDE DEF N
    <3> QED
      BY <3>1, <3>2
  <2>2. \A n \in 1 .. N : n - 1 \in T => n \in T
    BY <1>1, <1>2, <1>9
  <2>3. 0 .. N \subseteq T
    <3> HIDE DEF T, N
    <3> QED
      BY <1>1, <2>1, <2>2, CountingUp
  <2> QED
    BY <2>3
<1>11. K \in [0 .. N -> Seq(S)]
  BY <1>8, <1>10
<1>12. Keeps(K, those, s, S)
  BY <1>9, <1>11 DEF Keeps, Grown
<1> QED
  BY <1>7, <1>12

\* Matching keeps the elements that are among those, in their order.
LEMMA MatchingFacts ==
    ASSUME NEW S, NEW s \in Seq(S), NEW those
    PROVE  /\ Matching(those, s) \in Seq(S)
           /\ ToSet(Matching(those, s)) = ToSet(s) \cap those
           /\ \A R : Ordered(s, R) => Ordered(Matching(those, s), R)
<1> DEFINE N == Len(s)
<1>1. /\ N \in Nat /\ DOMAIN s = 1 .. N
      /\ \A n \in 1 .. N : s[n] \in S
      /\ ToSet(s) = {s[i] : i \in 1 .. N}
  BY LenProperties, ElementOfSeq DEF ToSet
<1>2. PICK K : Keeps(K, those, s, S) /\ Matching(those, s) = K[N]
  BY MatchingUnfolds
<1>3. /\ \A n \in 0 .. N : K[n] \in Seq(S)
      /\ K[0] = << >>
      /\ \A n \in 1 .. N :
            K[n] = IF s[n] \in those THEN Append(K[n - 1], s[n]) ELSE K[n - 1]
  BY <1>2 DEF Keeps
<1> HIDE DEF N
<1> DEFINE Good(n) ==
               /\ ToSet(K[n]) = {s[i] : i \in 1 .. n} \cap those
               /\ \A R : Ordered(s, R) => Ordered(K[n], R)
           T == {n \in 0 .. N : Good(n)}
<1>4. 0 \in T
  <2>1. ToSet(K[0]) = {} /\ 1 .. 0 = {} /\ DOMAIN K[0] = {}
    BY <1>3, EmptySeq DEF ToSet
  <2> QED
    BY <1>1, <2>1 DEF Ordered
<1>5. ASSUME NEW m \in 1 .. N, m - 1 \in T
      PROVE  m \in T
  <2>1. Good(m - 1) /\ m \in 0 .. N
    BY <1>1, <1>5
  <2>2. K[m - 1] \in Seq(S) /\ s[m] \in S /\ 1 .. m = (1 .. m - 1) \cup {m}
    <3>1. m - 1 \in 0 .. N /\ 1 .. m = (1 .. m - 1) \cup {m}
      BY <1>1
    <3> QED
      BY <1>1, <1>3, <3>1
  <2>3. CASE s[m] \in those
    <3>1. K[m] = Append(K[m - 1], s[m])
      BY <1>3, <2>3
    <3>2. ToSet(K[m]) = {s[i] : i \in 1 .. m} \cap those
      <4>1. ToSet(K[m]) = ToSet(K[m - 1]) \cup {s[m]}
        BY <2>2, <3>1, AppendedSet
      <4> QED
        BY <2>1, <2>2, <2>3, <4>1
    <3>3. ASSUME NEW R, Ordered(s, R)
          PROVE  Ordered(K[m], R)
      <4>1. \A x \in ToSet(K[m - 1]) : <<x, s[m]>> \in R
        <5> SUFFICES ASSUME NEW i \in 1 .. m - 1 PROVE <<s[i], s[m]>> \in R
          BY <2>1
        <5>1. i \in 1 .. N /\ m \in 1 .. N /\ i < m
          BY <1>1
        <5> QED
          BY <1>1, <3>3, <5>1 DEF Ordered
      <4>2. Ordered(K[m - 1], R)
        BY <2>1, <3>3
      <4> HIDE DEF Good, T
      <4> QED
        BY <2>2, <3>1, <4>1, <4>2, OrderedAppend
    <3> QED
      BY <2>1, <3>2, <3>3
  <2>4. CASE s[m] \notin those
    <3>1. K[m] = K[m - 1]
      BY <1>3, <2>4
    <3> QED
      BY <2>1, <2>2, <2>4, <3>1
  <2> QED
    BY <2>3, <2>4
<1>6. Good(N)
  <2> HIDE DEF Good
  <2>1. 0 .. N \subseteq T
    <3> HIDE DEF T
    <3> QED
      BY <1>1, <1>4, <1>5, CountingUp
  <2> QED
    BY <1>1, <2>1
<1> QED
  BY <1>1, <1>2, <1>3, <1>6

\* What may stand in any order is ordered.
LEMMA AnyOrder ==
    ASSUME NEW S, NEW s \in Seq(S), NEW R,
           \A x, y \in ToSet(s) : <<x, y>> \in R
    PROVE  Ordered(s, R)
  BY DEF Ordered, ToSet

\* The first of an ordered list may stand before all the others.
LEMMA FirstInOrder ==
    ASSUME NEW S, NEW s \in Seq(S), NEW R, Ordered(s, R), s # << >>
    PROVE  \A x \in ToSet(s) : x = s[1] \/ <<s[1], x>> \in R
<1>1. Len(s) \in Nat /\ DOMAIN s = 1 .. Len(s) /\ 1 \in DOMAIN s
  BY ToSetIs
<1> SUFFICES ASSUME NEW i \in 1 .. Len(s) PROVE s[i] = s[1] \/ <<s[1], s[i]>> \in R
  BY <1>1 DEF ToSet
<1>2. i = 1 \/ 1 < i
  BY <1>1
<1> QED
  BY <1>1, <1>2 DEF Ordered

-----------------------------------------------------------------------------
(* The endpoints that matchEndpoints finds, and their order.               *)

\* Which endpoint may stand before which, after each of the sorts.
OwnFirst ==
    {pair \in Endpoint \X Endpoint : pair[1].method # AnyMethod \/ pair[2].method = AnyMethod}
StarsFirst ==
    {pair \in Endpoint \X Endpoint :
        \/ pair[1].route.stars > pair[2].route.stars
        \/ pair[1].route.stars = pair[2].route.stars /\ pair \in OwnFirst}

\* The first sort loses nothing and puts the own method first.
LEMMA OwnMethodFirstFacts ==
    ASSUME NEW s \in Seq(Endpoint)
    PROVE  /\ OwnMethodFirst(s) \in Seq(Endpoint)
           /\ ToSet(OwnMethodFirst(s)) = ToSet(s)
           /\ Ordered(OwnMethodFirst(s), OwnFirst)
<1> DEFINE any == OfMethods({AnyMethod}, s)
           a == Matching(ToSet(s) \ any, s)
           b == Matching(any, s)
<1>1. /\ a \in Seq(Endpoint) /\ ToSet(a) = ToSet(s) \cap (ToSet(s) \ any)
      /\ b \in Seq(Endpoint) /\ ToSet(b) = ToSet(s) \cap any
  BY MatchingFacts
<1>2. OwnMethodFirst(s) = a \o b
  BY DEF OwnMethodFirst
<1>3. ToSet(s) \subseteq Endpoint
  BY ToSetIs
<1> HIDE DEF a, b
<1>4. ToSet(a) \cup ToSet(b) = ToSet(s)
  BY <1>1
<1>5. /\ \A x \in ToSet(a) : x \in Endpoint /\ x.method # AnyMethod
      /\ \A x \in ToSet(b) : x \in Endpoint /\ x.method = AnyMethod
  BY <1>1, <1>3 DEF OfMethods
<1>6. /\ \A x, y \in ToSet(a) : <<x, y>> \in OwnFirst
      /\ \A x, y \in ToSet(b) : <<x, y>> \in OwnFirst
      /\ \A x \in ToSet(a), y \in ToSet(b) : <<x, y>> \in OwnFirst
  BY <1>5 DEF OwnFirst
<1>7. Ordered(a, OwnFirst) /\ Ordered(b, OwnFirst)
  BY <1>1, <1>6, AnyOrder
<1>8. /\ a \o b \in Seq(Endpoint)
      /\ ToSet(a \o b) = ToSet(a) \cup ToSet(b)
      /\ Ordered(a \o b, OwnFirst)
  BY <1>1, <1>6, <1>7, JoinedFacts
<1> QED
  BY <1>2, <1>4, <1>8

\* The recursion of MostStarsFirst, unfolded: J gives the list so far.
Joins(J, s) ==
    /\ J \in [0 .. MaxStars -> Seq(Endpoint)]
    /\ J[0] = << >>
    /\ \A n \in 1 .. MaxStars : J[n] = Matching(OfStars({n}, s), s) \o J[n - 1]

\* The last of these lists is the sorted one.
LEMMA StarsUnfold ==
    ASSUME NEW s \in Seq(Endpoint)
    PROVE  \E J : Joins(J, s) /\ MostStarsFirst(s) = J[MaxStars]
<1> DEFINE N == MaxStars
           S == Endpoint
           Joined(n, list) == Matching(OfStars({n}, s), s) \o list
           Eq(f) == f = [n \in 0 .. MaxStars |->
                            IF n = 0 THEN << >>
                            ELSE Matching(OfStars({n}, s), s) \o f[n - 1]]
           J == CHOOSE f : Eq(f)
           step == [n \in 1 .. N |-> [list \in Seq(S) |-> Joined(n, list)]]
<1>1. N \in Nat
  BY EndpointsAssumption DEF EndpointsAssumption
<1>2. \A n \in 1 .. N, list \in Seq(S) : Joined(n, list) \in Seq(S)
  <2> SUFFICES ASSUME NEW n \in 1 .. N, NEW list \in Seq(S)
               PROVE  Joined(n, list) \in Seq(S)
    BY Zenon
  <2>1. Matching(OfStars({n}, s), s) \in Seq(S)
    BY MatchingFacts
  <2> QED
    BY <2>1, ConcatProperties
<1>3. PICK f : Follows(f, N, Seq(S), << >>, step)
  <2>1. step \in [1 .. N -> [Seq(S) -> Seq(S)]] /\ << >> \in Seq(S)
    <3> HIDE DEF Joined, S
    <3> QED
      BY <1>2, EmptySeq
  <2> HIDE DEF N, step, S
  <2> QED
    BY <1>1, <2>1, RecursionExists
<1> HIDE DEF Joined
<1>4. /\ f \in [0 .. N -> Seq(S)] /\ f[0] = << >>
      /\ \A n \in 1 .. N : f[n] = Joined(n, f[n - 1])
  <2>1. f \in [0 .. N -> Seq(S)] /\ f[0] = << >> /\ \A n \in 1 .. N : f[n] = step[n][f[n - 1]]
    BY <1>3 DEF Follows
  <2>2. ASSUME NEW n \in 1 .. N
        PROVE  f[n] = Joined(n, f[n - 1])
    <3>1. n - 1 \in 0 .. N
      BY <1>1
    <3>2. f[n - 1] \in Seq(S)
      BY <2>1, <3>1
    <3> QED
      BY <2>1, <3>2
  <2> QED
    BY <2>1, <2>2
<1>5. Eq(f)
  <2> DEFINE g == [n \in 0 .. MaxStars |->
                      IF n = 0 THEN << >>
                      ELSE Matching(OfStars({n}, s), s) \o f[n - 1]]
  <2>1. ASSUME NEW n \in 0 .. N PROVE f[n] = g[n]
    <3>1. n = 0 \/ n \in 1 .. N
      BY <1>1
    <3>2. g[n] = IF n = 0 THEN << >> ELSE Joined(n, f[n - 1])
      BY DEF Joined
    <3> HIDE DEF g
    <3> QED
      BY <1>1, <1>4, <3>1, <3>2
  <2>2. f = [n \in 0 .. N |-> f[n]] /\ g = [n \in 0 .. N |-> g[n]]
    BY <1>4
  <2> HIDE DEF g, N
  <2>3. f = g
    BY <2>1, <2>2
  <2> QED
    BY <2>3 DEF g
<1>6. Eq(J)
  <2> HIDE DEF Eq
  <2> QED
    BY <1>5, Zenon
<1>7. MostStarsFirst(s) = J[MaxStars]
  BY DEF MostStarsFirst
<1> HIDE DEF J
<1>8. /\ J = [n \in 0 .. N |-> J[n]]
      /\ \A n \in 0 .. N : J[n] = IF n = 0 THEN << >> ELSE Joined(n, J[n - 1])
  BY <1>6 DEF Joined
<1>9. J[0] = << >> /\ \A n \in 1 .. N : J[n] = Joined(n, J[n - 1])
  BY <1>1, <1>8
<1>10. \A n \in 0 .. N : J[n] \in Seq(S)
  <2> DEFINE T == {n \in 0 .. N : J[n] \in Seq(S)}
  <2>1. 0 \in T
    <3>1. 0 \in 0 .. N
      BY <1>1
    <3>2. J[0] \in Seq(S)
      <4>1. << >> \in Seq(S)
        BY EmptySeq
      <4> QED
        BY <1>9, <4>1
    <3> HIDE DEF N
    <3> QED
      BY <3>1, <3>2
  <2>2. \A n \in 1 .. N : n - 1 \in T => n \in T
    BY <1>1, <1>2, <1>9
  <2>3. 0 .. N \subseteq T
    <3> HIDE DEF T, N
    <3> QED
      BY <1>1, <2>1, <2>2, CountingUp
  <2> QED
    BY <2>3
<1>11. J \in [0 .. N -> Seq(S)]
  BY <1>8, <1>10
<1>12. Joins(J, s)
  BY <1>9, <1>11 DEF Joins, Joined
<1> QED
  BY <1>7, <1>12

\* The second sort keeps the first one's order among equally many "*".
LEMMA MostStarsFirstFacts ==
    ASSUME NEW s \in Seq(Endpoint), Ordered(s, OwnFirst)
    PROVE  /\ MostStarsFirst(s) \in Seq(Endpoint)
           /\ ToSet(MostStarsFirst(s)) = OfStars(1 .. MaxStars, s)
           /\ Ordered(MostStarsFirst(s), StarsFirst)
<1>1. MaxStars \in Nat
  BY EndpointsAssumption DEF EndpointsAssumption
<1>2. PICK J : Joins(J, s) /\ MostStarsFirst(s) = J[MaxStars]
  BY StarsUnfold
<1>3. /\ \A n \in 0 .. MaxStars : J[n] \in Seq(Endpoint)
      /\ J[0] = << >>
      /\ \A n \in 1 .. MaxStars : J[n] = Matching(OfStars({n}, s), s) \o J[n - 1]
  BY <1>2 DEF Joins
<1> DEFINE Good(n) ==
               ToSet(J[n]) = OfStars(1 .. n, s) /\ Ordered(J[n], StarsFirst)
           T == {n \in 0 .. MaxStars : Good(n)}
<1>4. 0 \in T
  <2>1. ToSet(J[0]) = {} /\ 1 .. 0 = {} /\ DOMAIN J[0] = {}
    BY <1>3, EmptySeq DEF ToSet
  <2> QED
    BY <1>1, <2>1 DEF Ordered, OfStars
<1>5. ASSUME NEW m \in 1 .. MaxStars, m - 1 \in T
      PROVE  m \in T
  <2>1. m \in 0 .. MaxStars /\ m - 1 \in 0 .. MaxStars
    BY <1>1
  <2>2. Good(m - 1)
    BY <1>5
  <2> DEFINE a == Matching(OfStars({m}, s), s)
             b == J[m - 1]
  <2>3. /\ a \in Seq(Endpoint) /\ ToSet(a) = ToSet(s) \cap OfStars({m}, s)
        /\ Ordered(a, OwnFirst)
    BY MatchingFacts
  <2>4. b \in Seq(Endpoint) /\ J[m] = a \o b /\ 1 .. m = (1 .. m - 1) \cup {m}
    <3>1. b \in Seq(Endpoint) /\ J[m] = a \o b
      BY <1>3, <2>1
    <3>2. 1 .. m = (1 .. m - 1) \cup {m}
      BY <1>1, <2>1
    <3> QED
      BY <3>1, <3>2
  <2>5. ToSet(s) \subseteq Endpoint
    BY ToSetIs
  <2> HIDE DEF a
  <2>6. /\ \A x \in ToSet(a) : x \in Endpoint /\ x.route.stars = m
        /\ \A x \in ToSet(b) : x \in Endpoint /\ x.route.stars \in 1 .. m - 1
    BY <2>2, <2>3, <2>5 DEF OfStars
  <2>7. Ordered(a, StarsFirst)
    <3>1. DOMAIN a = 1 .. Len(a) /\ \A i \in DOMAIN a : a[i] \in ToSet(a)
      BY <2>3, ToSetIs DEF ToSet
    <3> SUFFICES ASSUME NEW i \in DOMAIN a, NEW j \in DOMAIN a, i < j
                 PROVE  <<a[i], a[j]>> \in StarsFirst
      BY DEF Ordered
    <3>2. <<a[i], a[j]>> \in OwnFirst
      BY <2>3 DEF Ordered
    <3>3. a[i].route.stars = a[j].route.stars /\ <<a[i], a[j]>> \in Endpoint \X Endpoint
      BY <2>6, <3>1
    <3> QED
      BY <3>2, <3>3 DEF StarsFirst
  <2>8. \A x \in ToSet(a), y \in ToSet(b) : <<x, y>> \in StarsFirst
    <3> SUFFICES ASSUME NEW x \in ToSet(a), NEW y \in ToSet(b)
                 PROVE  <<x, y>> \in StarsFirst
      OBVIOUS
    <3>1. x.route.stars > y.route.stars /\ <<x, y>> \in Endpoint \X Endpoint
      BY <2>1, <2>6
    <3> QED
      BY <3>1 DEF StarsFirst
  <2>9. Ordered(b, StarsFirst)
    BY <2>2
  <2>10. ToSet(a \o b) = ToSet(a) \cup ToSet(b) /\ Ordered(a \o b, StarsFirst)
    <3> HIDE DEF b
    <3> QED
      BY <2>3, <2>4, <2>7, <2>8, <2>9, JoinedFacts
  <2>11. OfStars(1 .. m, s) = OfStars(1 .. m - 1, s) \cup (ToSet(s) \cap OfStars({m}, s))
    BY <2>4 DEF OfStars
  <2>12. Good(m)
    BY <2>2, <2>3, <2>4, <2>10, <2>11
  <2> HIDE DEF Good
  <2> QED
    BY <2>1, <2>12
<1>6. Good(MaxStars)
  <2> HIDE DEF Good
  <2>1. 0 .. MaxStars \subseteq T
    <3> HIDE DEF T
    <3> QED
      BY <1>1, <1>4, <1>5, CountingUp
  <2> QED
    BY <1>1, <2>1
<1>7. MaxStars \in 0 .. MaxStars
  BY <1>1
<1> QED
  BY <1>2, <1>3, <1>6, <1>7

\* No two of these endpoints have the same method and route.
OnlyOnce(endpoints) ==
    \A d, e \in endpoints : d.method = e.method /\ d.route = e.route => d = e

\* The endpoints of the method of a request, its own before those of all methods.
LEMMA PossibleFacts ==
    ASSUME NEW context, context.method # Unknown, NEW endpoints \in Seq(Endpoint)
    PROVE  LET possible == OwnMethodFirst(Matching(OfMethods({AnyMethod, context.method},
                                                             endpoints), endpoints))
           IN  /\ possible \in Seq(Endpoint)
               /\ ToSet(possible) = {e \in ToSet(endpoints) : Concerns(e, context)}
               /\ Ordered(possible, OwnFirst)
<1> DEFINE T == OfMethods({AnyMethod, context.method}, endpoints)
<1>1. /\ Matching(T, endpoints) \in Seq(Endpoint)
      /\ ToSet(Matching(T, endpoints)) = ToSet(endpoints) \cap T
  BY MatchingFacts
<1>2. ToSet(endpoints) \cap T = {e \in ToSet(endpoints) : Concerns(e, context)}
  BY DEF OfMethods, Concerns
<1> QED
  BY <1>1, <1>2, OwnMethodFirstFacts

\* The one endpoint of exactly the route of a request, if there is one.
LEMMA ExactFacts ==
    ASSUME NEW context, NEW endpoints \in Seq(Endpoint), OnlyOnce(ToSet(endpoints)),
           NEW possible \in Seq(Endpoint),
           ToSet(possible) = {e \in ToSet(endpoints) : Concerns(e, context)},
           Ordered(possible, OwnFirst)
    PROVE  LET exact == Matching(OfRoute(context.route, possible), possible)
               one == SubSeq(exact, 1, IF exact = << >> THEN 0 ELSE 1)
           IN  /\ one \in Seq(Endpoint)
               /\ ToSet(one) = Exact(context, ToSet(endpoints))
               /\ \A d, e \in ToSet(one) : d = e
<1> DEFINE exact == Matching(OfRoute(context.route, possible), possible)
           one == SubSeq(exact, 1, IF exact = << >> THEN 0 ELSE 1)
           here == {e \in ToSet(endpoints) : Concerns(e, context) /\ e.route = context.route}
           own == {e \in here : e.method = context.method}
<1>1. /\ exact \in Seq(Endpoint) /\ Ordered(exact, OwnFirst)
      /\ ToSet(exact) = ToSet(possible) \cap OfRoute(context.route, possible)
  BY MatchingFacts
<1>2. ToSet(exact) = here
  BY <1>1 DEF OfRoute
<1>3. Exact(context, ToSet(endpoints)) = IF own # {} THEN own ELSE here
  BY DEF Exact
<1> HIDE DEF exact
<1>4. ASSUME exact = << >>
      PROVE  /\ one \in Seq(Endpoint)
             /\ ToSet(one) = Exact(context, ToSet(endpoints))
             /\ \A d, e \in ToSet(one) : d = e
  <2>1. one = << >>
    <3>1. one = SubSeq(exact, 1, 0)
      BY <1>4
    <3> QED
      BY <1>1, <3>1, SubSeqProperties, EmptySeq
  <2>2. ToSet(one) = {} /\ here = {}
    BY <1>1, <1>2, <1>4, <2>1, EmptySeq, ToSetIs
  <2> QED
    BY <1>3, <2>1, <2>2, EmptySeq
<1>5. ASSUME exact # << >>
      PROVE  /\ one \in Seq(Endpoint)
             /\ ToSet(one) = Exact(context, ToSet(endpoints))
             /\ \A d, e \in ToSet(one) : d = e
  <2>1. /\ Len(exact) \in Nat /\ 1 \in 1 .. Len(exact)
        /\ exact[1] \in here /\ exact[1] \in Endpoint
    BY <1>1, <1>2, <1>5, ToSetIs
  <2>2. one \in Seq(Endpoint) /\ Len(one) = 1 /\ one[1] = exact[1]
    <3>1. one = SubSeq(exact, 1, 1)
      BY <1>5
    <3>2. \A i \in 1 .. 1 : exact[i] \in Endpoint
      BY <2>1
    <3> HIDE DEF one
    <3> QED
      BY <1>1, <2>1, <3>1, <3>2, SubSeqProperties
  <2> HIDE DEF one
  <2>3. ToSet(one) = {exact[1]}
    <3>1. DOMAIN one = 1 .. 1
      BY <2>2, LenProperties
    <3> QED
      BY <2>2, <3>1 DEF ToSet
  <2>4. \A x \in here : x = exact[1] \/ <<exact[1], x>> \in OwnFirst
    BY <1>1, <1>2, <1>5, FirstInOrder
  <2>5. own # {} => exact[1] \in own
    <3> SUFFICES ASSUME NEW x \in own PROVE exact[1].method = context.method
      BY <2>1
    <3>1. exact[1].method \in {AnyMethod, context.method} /\ x.method = context.method
      BY <2>1 DEF Concerns
    <3>2. x = exact[1] \/ exact[1].method # AnyMethod \/ x.method = AnyMethod
      BY <2>4 DEF OwnFirst
    <3> QED
      BY <3>1, <3>2
  <2>6. \A x \in own : x = exact[1]
    <3> SUFFICES ASSUME NEW x \in own PROVE x = exact[1]
      OBVIOUS
    <3>1. x.method = exact[1].method /\ x.route = exact[1].route
      BY <2>1, <2>5
    <3> QED
      BY <2>1, <3>1 DEF OnlyOnce
  <2>7. own = {} => \A x \in here : x = exact[1]
    <3> SUFFICES ASSUME own = {}, NEW x \in here PROVE x = exact[1]
      OBVIOUS
    <3>1. x.method = AnyMethod /\ exact[1].method = AnyMethod
      BY <2>1 DEF Concerns
    <3> QED
      BY <2>1, <3>1 DEF OnlyOnce
  <2>8. Exact(context, ToSet(endpoints)) = {exact[1]}
    <3> HIDE DEF own, here
    <3>1. CASE own # {}
      BY <1>3, <2>5, <2>6, <3>1
    <3>2. CASE own = {}
      BY <1>3, <2>1, <2>7, <3>2
    <3> QED
      BY <3>1, <3>2
  <2> QED
    BY <2>2, <2>3, <2>8 DEF one
<1> HIDE DEF one
<1>6. /\ one \in Seq(Endpoint)
      /\ ToSet(one) = Exact(context, ToSet(endpoints))
      /\ \A d, e \in ToSet(one) : d = e
  BY <1>4, <1>5
<1> QED
  BY <1>6 DEF one, exact

\* The wildcards that cover the path of a request, those with the most "*" first.
LEMMA CoveringFacts ==
    ASSUME NEW context, NEW endpoints \in Seq(Endpoint),
           NEW possible \in Seq(Endpoint),
           ToSet(possible) = {e \in ToSet(endpoints) : Concerns(e, context)},
           Ordered(possible, OwnFirst)
    PROVE  LET wildcards == MostStarsFirst(Matching(OfStars(1 .. MaxStars, possible), possible))
               covering == Matching(OfPath(context.path, wildcards), wildcards)
           IN  /\ covering \in Seq(Endpoint)
               /\ ToSet(covering) = Covering(context, ToSet(endpoints))
               /\ Ordered(covering, StarsFirst)
<1> DEFINE first == Matching(OfStars(1 .. MaxStars, possible), possible)
           wildcards == MostStarsFirst(first)
           covering == Matching(OfPath(context.path, wildcards), wildcards)
<1>1. /\ first \in Seq(Endpoint) /\ Ordered(first, OwnFirst)
      /\ ToSet(first) = ToSet(possible) \cap OfStars(1 .. MaxStars, possible)
  BY MatchingFacts
<1> HIDE DEF first
<1>2. /\ wildcards \in Seq(Endpoint) /\ Ordered(wildcards, StarsFirst)
      /\ ToSet(wildcards) = OfStars(1 .. MaxStars, first)
  BY <1>1, MostStarsFirstFacts
<1> HIDE DEF wildcards
<1>3. /\ covering \in Seq(Endpoint) /\ Ordered(covering, StarsFirst)
      /\ ToSet(covering) = ToSet(wildcards) \cap OfPath(context.path, wildcards)
  BY <1>2, MatchingFacts
<1> HIDE DEF covering
<1>4. \A e : e \in ToSet(covering) <=>
             /\ e \in ToSet(possible)
             /\ e.route.stars \in 1 .. MaxStars
             /\ context.path \in e.route.covers
  BY <1>1, <1>2, <1>3 DEF OfStars, OfPath
<1>5. ASSUME NEW e \in ToSet(possible), context.path \in e.route.covers
      PROVE  e.route.stars \in 1 .. MaxStars
  <2>1. e.route \in Routes
    <3>1. e \in Endpoint
      BY ToSetIs
    <3> QED
      BY <3>1 DEF Endpoint
  <2>2. /\ e.route.stars \in 0 .. MaxStars /\ MaxStars \in Nat
        /\ e.route.stars = 0 => e.route.covers = {}
    BY <2>1, EndpointsAssumption DEF EndpointsAssumption
  <2>3. e.route.stars # 0
    BY <1>5, <2>2
  <2> QED
    BY <2>2, <2>3
<1>6. ToSet(covering) = Covering(context, ToSet(endpoints))
  <2>1. \A e : e \in ToSet(covering) <=>
               e \in ToSet(possible) /\ context.path \in e.route.covers
    BY <1>4, <1>5
  <2>2. \A e : e \in Covering(context, ToSet(endpoints)) <=>
               e \in ToSet(possible) /\ context.path \in e.route.covers
    BY DEF Covering
  <2> QED
    BY <2>1, <2>2
<1> QED
  BY <1>3, <1>6 DEF covering, wildcards, first

\* What matchEndpoints finds: the exact endpoint first, then the wildcards that cover
\* the path, ordered.
LEMMA MatchFacts ==
    ASSUME NEW context \in RequestContext, NEW endpoints \in Seq(Endpoint),
           OnlyOnce(ToSet(endpoints))
    PROVE  LET found == matchEndpoints(context, endpoints)
               exact == Exact(context, ToSet(endpoints))
               covering == Covering(context, ToSet(endpoints))
           IN  /\ found \in Seq(Endpoint)
               /\ ToSet(found) = exact \cup covering
               /\ \A d, e \in exact : d = e
               /\ \A e \in exact : e.route = context.route
               /\ \A e \in covering : e.route # context.route
               /\ exact # {} => First(found) \in exact
               /\ exact = {} /\ covering # {} =>
                      /\ First(found) \in covering
                      /\ \A e \in covering : e = First(found) \/ <<First(found), e>> \in StarsFirst
               /\ exact = {} /\ covering = {} => found = << >>
<1> DEFINE found == matchEndpoints(context, endpoints)
           exact == Exact(context, ToSet(endpoints))
           covering == Covering(context, ToSet(endpoints))
<1>1. /\ \A e \in exact : e.route = context.route
      /\ \A e \in covering : e.route # context.route
  <2>1. \A e \in exact : e.route = context.route
    BY DEF Exact
  <2>2. ASSUME NEW e \in covering, e.route = context.route
        PROVE  FALSE
    <3>1. e \in Endpoint /\ context.path \in e.route.covers
      BY ToSetIs DEF Covering
    <3>2. e.route \in Routes
      BY <3>1 DEF Endpoint
    <3>3. context.route.stars = 0 \/ context.route = NoRoute
      BY DEF RequestContext
    <3> QED
      BY <2>2, <3>1, <3>2, <3>3, EndpointsAssumption DEF EndpointsAssumption
  <2> QED
    BY <2>1, <2>2
<1>2. CASE context.method = Unknown
  <2>1. found = << >> /\ exact = {} /\ covering = {}
    BY <1>2 DEF matchEndpoints, Exact, Covering, Concerns
  <2>2. << >> \in Seq(Endpoint) /\ ToSet(<< >>) = {}
    BY EmptySeq, ToSetIs
  <2> HIDE DEF found, exact, covering
  <2>3. found \in Seq(Endpoint) /\ ToSet(found) = exact \cup covering
    BY <2>1, <2>2
  <2> QED
    BY <2>1, <2>3 DEF found, exact, covering
<1>3. CASE context.method # Unknown
  <2> DEFINE possible == OwnMethodFirst(Matching(OfMethods({AnyMethod, context.method},
                                                           endpoints), endpoints))
             list == Matching(OfRoute(context.route, possible), possible)
             one == SubSeq(list, 1, IF list = << >> THEN 0 ELSE 1)
             wildcards == MostStarsFirst(Matching(OfStars(1 .. MaxStars, possible), possible))
             rest == Matching(OfPath(context.path, wildcards), wildcards)
  <2>1. found = one \o rest
    BY <1>3 DEF matchEndpoints
  <2>2. /\ possible \in Seq(Endpoint)
        /\ ToSet(possible) = {e \in ToSet(endpoints) : Concerns(e, context)}
        /\ Ordered(possible, OwnFirst)
    BY <1>3, PossibleFacts
  <2> HIDE DEF possible
  <2>3. one \in Seq(Endpoint) /\ ToSet(one) = exact /\ \A d, e \in ToSet(one) : d = e
    BY <2>2, ExactFacts
  <2>4. rest \in Seq(Endpoint) /\ ToSet(rest) = covering /\ Ordered(rest, StarsFirst)
    BY <2>2, CoveringFacts
  <2> HIDE DEF one, rest, found, exact, covering
  <2>5. found \in Seq(Endpoint) /\ ToSet(found) = exact \cup covering
    BY <2>1, <2>3, <2>4, JoinedFacts
  <2>6. exact # {} => First(found) \in exact
    <3> SUFFICES ASSUME exact # {} PROVE First(found) \in exact
      OBVIOUS
    <3>1. one # << >> /\ one[1] \in exact /\ found # << >>
      BY <2>3, <2>5, ToSetIs
    <3>2. found[1] = one[1]
      BY <2>1, <2>3, <2>4, <3>1, JoinedFacts
    <3> QED
      BY <3>1, <3>2 DEF First
  <2>7. ASSUME exact = {}
        PROVE  found = rest
    <3>1. one = << >>
      BY <2>3, <2>7, ToSetIs
    <3> QED
      BY <2>1, <2>4, <3>1, ConcatEmptySeq
  <2>8. exact = {} /\ covering = {} => found = << >>
    BY <2>5, ToSetIs
  <2>9. ASSUME exact = {}, covering # {}
        PROVE  /\ First(found) \in covering
               /\ \A e \in covering : e = First(found) \/ <<First(found), e>> \in StarsFirst
    <3>1. found = rest /\ rest # << >> /\ rest[1] \in covering
      BY <2>4, <2>7, <2>9, ToSetIs
    <3>2. First(found) = rest[1]
      BY <3>1 DEF First
    <3>3. \A e \in ToSet(rest) : e = rest[1] \/ <<rest[1], e>> \in StarsFirst
      BY <2>4, <3>1, FirstInOrder
    <3> QED
      BY <2>4, <3>1, <3>2, <3>3
  <2> QED
    BY <1>1, <2>3, <2>5, <2>6, <2>8, <2>9 DEF found, exact, covering
<1> QED
  BY <1>2, <1>3

-----------------------------------------------------------------------------
(* What the callers of getEndpoints decide.                                *)

\* What is configured of a field, or of no field.
LEMMA OfFieldFacts ==
    ASSUME NEW configs \in Seq(Endpoint), ListedOnce(configs), NEW field
    PROVE  LET some == Matching(OfField(field, configs), configs)
           IN  /\ some \in Seq(Endpoint)
               /\ ToSet(some) = OfField(field, configs)
               /\ OnlyOnce(ToSet(some))
<1> DEFINE some == Matching(OfField(field, configs), configs)
<1>1. some \in Seq(Endpoint) /\ ToSet(some) = ToSet(configs) \cap OfField(field, configs)
  BY MatchingFacts
<1> HIDE DEF some
<1>2. ToSet(some) = OfField(field, configs)
  BY <1>1 DEF OfField
<1>3. ASSUME NEW d \in ToSet(some), NEW e \in ToSet(some),
             d.method = e.method, d.route = e.route
      PROVE  d = e
  <2>1. d.graphql = e.graphql /\ d \in ToSet(configs) /\ e \in ToSet(configs)
    BY <1>2 DEF OfField
  <2>2. PICK i \in DOMAIN configs, j \in DOMAIN configs : d = configs[i] /\ e = configs[j]
    BY <2>1 DEF ToSet
  <2> QED
    BY <1>3, <2>1, <2>2 DEF ListedOnce
<1>4. OnlyOnce(ToSet(some))
  BY <1>3 DEF OnlyOnce
<1> QED
  BY <1>1, <1>2, <1>4 DEF some

\* What the callers of getEndpoints are given.
LEMMA EndpointsAreFound ==
    ASSUME NEW context \in RequestContext, NEW configs \in Seq(Endpoint), ListedOnce(configs)
    PROVE  LET endpoints == OfField(NoField, configs)
               found == getEndpoints(context, configs)
               exact == Exact(context, endpoints)
               covering == Covering(context, endpoints)
           IN  /\ found \in Seq(Endpoint)
               /\ ToSet(found) = exact \cup covering
               /\ \A d, e \in exact : d = e
               /\ \A e \in exact : e.route = context.route
               /\ \A e \in covering : e.route # context.route
<1> DEFINE some == Matching(OfField(NoField, configs), configs)
<1>1. /\ some \in Seq(Endpoint) /\ ToSet(some) = OfField(NoField, configs)
      /\ OnlyOnce(ToSet(some))
  BY OfFieldFacts
<1>2. getEndpoints(context, configs) = matchEndpoints(context, some)
  BY DEF getEndpoints
<1> HIDE DEF some
<1> QED
  BY <1>1, <1>2, MatchFacts

\* Protection is off exactly where an endpoint that concerns the request says so.
LEMMA ProtectionOfAny ==
    ASSUME NEW context \in RequestContext, NEW configs \in Seq(Endpoint), ListedOnce(configs)
    PROVE  ProtectionIsAsListed(context, configs)
  BY EndpointsAreFound DEF ProtectionIsAsListed, protectionOff

\* A field is matched as its most specific endpoint.
LEMMA FieldOfAny ==
    ASSUME NEW context \in RequestContext, NEW configs \in Seq(Endpoint), ListedOnce(configs),
           NEW field
    PROVE  FieldIsTheMostSpecific(context, field, configs)
<1> DEFINE some == Matching(OfField(field, configs), configs)
           endpoints == OfField(field, configs)
           exact == Exact(context, endpoints)
           covering == Covering(context, endpoints)
           found == getGraphQLField(context, field, configs)
<1>1. some \in Seq(Endpoint) /\ ToSet(some) = endpoints /\ OnlyOnce(ToSet(some))
  BY OfFieldFacts
<1>2. found = First(matchEndpoints(context, some))
  BY DEF getGraphQLField
<1> HIDE DEF some, endpoints, found
<1>3. /\ exact # {} => found \in exact
      /\ exact = {} /\ covering # {} =>
             /\ found \in covering
             /\ \A e \in covering : e = found \/ <<found, e>> \in StarsFirst
      /\ exact = {} /\ covering = {} => matchEndpoints(context, some) = << >>
  BY <1>1, <1>2, MatchFacts
<1> HIDE DEF exact, covering
<1>4. exact = {} /\ covering = {} => found = NoEndpoint
  BY <1>2, <1>3 DEF First
<1>5. ASSUME exact = {}, covering # {}, NEW e \in covering
      PROVE  /\ e.route.stars <= found.route.stars
             /\ e.route.stars = found.route.stars /\ e.method # AnyMethod
                    => found.method # AnyMethod
  <2>1. e \in Endpoint /\ found \in Endpoint
    <3>1. covering \subseteq endpoints
      BY DEF covering, Covering
    <3>2. endpoints \subseteq Endpoint
      BY <1>1, ToSetIs
    <3> QED
      BY <1>3, <1>5, <3>1, <3>2
  <2>2. e.route.stars \in Nat /\ found.route.stars \in Nat
    <3>1. e.route \in Routes /\ found.route \in Routes
      BY <2>1 DEF Endpoint
    <3> QED
      BY <3>1, EndpointsAssumption DEF EndpointsAssumption
  <2>3. CASE e = found
    BY <2>2, <2>3
  <2>4. CASE <<found, e>> \in StarsFirst
    BY <2>2, <2>4 DEF StarsFirst, OwnFirst
  <2> QED
    BY <1>3, <1>5, <2>3, <2>4
<1> QED
  BY <1>3, <1>4, <1>5 DEF FieldIsTheMostSpecific, exact, covering, endpoints, found

\* An address gets in as the lists say.
LEMMA AccessOfAny ==
    ASSUME NEW context \in RequestContext, NEW configs \in Seq(Endpoint), ListedOnce(configs)
    PROVE  AccessIsAsListed(context, configs)
<1> DEFINE endpoints == OfField(NoField, configs)
           found == getEndpoints(context, configs)
           exact == Exact(context, endpoints)
           covering == Covering(context, endpoints)
           matches == Matching({e \in ToSet(found) : e.allowedIPAddresses # {}}, found)
           listed == Matching(OfRoute(context.route, matches), matches)
           ip == context.remoteAddress
<1>1. /\ found \in Seq(Endpoint)
      /\ ToSet(found) = exact \cup covering
      /\ \A d, e \in exact : d = e
      /\ \A e \in exact : e.route = context.route
      /\ \A e \in covering : e.route # context.route
  BY EndpointsAreFound
<1> HIDE DEF found, exact, covering
<1>2. /\ matches \in Seq(Endpoint)
      /\ ToSet(matches) = {e \in exact \cup covering : e.allowedIPAddresses # {}}
  <2>1. /\ matches \in Seq(Endpoint)
        /\ ToSet(matches) = ToSet(found) \cap {e \in ToSet(found) : e.allowedIPAddresses # {}}
    BY <1>1, MatchingFacts
  <2> HIDE DEF matches
  <2> QED
    BY <1>1, <2>1
<1> HIDE DEF matches
<1>3. /\ listed \in Seq(Endpoint)
      /\ ToSet(listed) = {e \in exact : e.allowedIPAddresses # {}}
  <2>1. /\ listed \in Seq(Endpoint)
        /\ ToSet(listed) = ToSet(matches) \cap OfRoute(context.route, matches)
    BY <1>2, MatchingFacts
  <2> HIDE DEF listed
  <2> QED
    BY <1>1, <1>2, <2>1 DEF OfRoute
<1> HIDE DEF listed
<1>4. ipAllowedToAccessRoute(context, configs) <=>
         \/ ip = Localhost
         \/ matches = << >>
         \/ /\ ip # Unknown
            /\ \/ First(listed) # NoEndpoint /\ ip \in First(listed).allowedIPAddresses
               \/ \A e \in ToSet(matches) : ip \in e.allowedIPAddresses
  BY DEF ipAllowedToAccessRoute, matches, found, listed
<1>5. matches = << >> <=> ToSet(matches) = {}
  BY <1>2, ToSetIs
<1>6. \A e \in exact \cup covering :
         /\ e \in Endpoint
         /\ e # NoEndpoint
         /\ Unknown \notin e.allowedIPAddresses
  <2> SUFFICES ASSUME NEW e \in exact \cup covering
               PROVE  /\ e \in Endpoint
                      /\ e # NoEndpoint
                      /\ Unknown \notin e.allowedIPAddresses
    OBVIOUS
  <2>1. e \in Endpoint
    BY <1>1, ToSetIs
  <2>2. e.method # Unknown /\ e.allowedIPAddresses \subseteq Ips /\ Unknown \notin Ips
    BY <2>1, EndpointsAssumption DEF Endpoint, EndpointsAssumption, AnyMethod, Unknown
  <2>3. NoEndpoint.method = Unknown
    BY DEF NoEndpoint
  <2> QED
    BY <2>1, <2>2, <2>3
<1>7. First(listed) # NoEndpoint /\ ip \in First(listed).allowedIPAddresses
         <=> \E e \in exact : ip \in e.allowedIPAddresses
  <2>1. CASE listed = << >>
    <3>1. ToSet(listed) = {}
      BY <1>3, <2>1, ToSetIs
    <3>2. First(listed) = NoEndpoint
      BY <2>1 DEF First
    <3> QED
      BY <1>3, <3>1, <3>2
  <2>2. CASE listed # << >>
    <3>1. First(listed) = listed[1] /\ listed[1] \in ToSet(listed)
      BY <1>3, <2>2, ToSetIs DEF First
    <3> QED
      BY <1>1, <1>3, <1>6, <3>1
  <2> QED
    BY <2>1, <2>2
<1>8. AccessIsAsListed(context, configs) <=>
         (ipAllowedToAccessRoute(context, configs) <=>
             \/ ip = Localhost
             \/ \E e \in exact : ip \in e.allowedIPAddresses
             \/ \A e \in exact \cup covering :
                    ~(e.allowedIPAddresses # {} /\ ip \notin e.allowedIPAddresses))
  BY DEF AccessIsAsListed, exact, covering
<1> HIDE DEF ip
<1>9. CASE ip = Unknown
  <2>1. /\ ~ \E e \in exact : ip \in e.allowedIPAddresses
        /\ (\A e \in exact \cup covering :
                ~(e.allowedIPAddresses # {} /\ ip \notin e.allowedIPAddresses))
               <=> ToSet(matches) = {}
    BY <1>2, <1>6, <1>9
  <2> QED
    BY <1>4, <1>5, <1>8, <1>9, <2>1
<1>10. CASE ip # Unknown
  <2>1. (\A e \in exact \cup covering :
            ~(e.allowedIPAddresses # {} /\ ip \notin e.allowedIPAddresses))
           <=> \A e \in ToSet(matches) : ip \in e.allowedIPAddresses
    BY <1>2
  <2>2. matches = << >> => \A e \in ToSet(matches) : ip \in e.allowedIPAddresses
    BY <1>5
  <2> QED
    BY <1>4, <1>7, <1>8, <1>10, <2>1, <2>2
<1> QED
  BY <1>9, <1>10

\* Of three fractions, the comparisons by cross products go on from one to the next.
LEMMA RatiosCompare ==
    ASSUME NEW a \in Nat, NEW b \in Nat, NEW c \in Nat,
           NEW u \in Nat \ {0}, NEW v \in Nat \ {0}, NEW w \in Nat \ {0},
           a * v <= b * u, b * w <= c * v
    PROVE  a * w <= c * u
<1>1. \A x, y, z \in Nat : x <= y => x * z <= y * z
  OBVIOUS
<1>2. \A x, y \in Nat : x * y \in Nat
  OBVIOUS
<1>3. (a * v) * w <= (b * u) * w /\ (b * w) * u <= (c * v) * u
  BY <1>1, <1>2
<1>4. \A x, y, z \in Nat : (x * y) * z = (x * z) * y
  OBVIOUS
<1>5. (a * w) * v <= (c * u) * v
  <2>1. (a * v) * w = (a * w) * v /\ (b * u) * w = (b * w) * u /\ (c * v) * u = (c * u) * v
    BY <1>4
  <2>2. (a * v) * w \in Nat /\ (b * u) * w \in Nat /\ (c * v) * u \in Nat
    BY <1>2
  <2> QED
    BY <1>3, <2>1, <2>2
<1>6. \A x, y \in Nat, z \in Nat \ {0} : x * z <= y * z => x <= y
  OBVIOUS
<1> QED
  BY <1>2, <1>5, <1>6

\* Being no stricter goes on from one limit to the next, and holds one way or the other.
LEMMA NoStricterOrders ==
    ASSUME NEW d \in Endpoint, NEW e \in Endpoint, NEW f \in Endpoint,
           d.rateLimiting.enabled, e.rateLimiting.enabled, f.rateLimiting.enabled
    PROVE  /\ ~Stricter(d, d)
           /\ ~Stricter(d, e) \/ ~Stricter(e, d)
           /\ ~Stricter(e, d) /\ ~Stricter(f, e) => ~Stricter(f, d)
<1> DEFINE Rate(x) == x.rateLimiting.maxRequests
           Window(x) == x.rateLimiting.windowSizeInMS
<1>1. \A x \in {d, e, f} : Rate(x) \in Nat /\ Window(x) \in Nat \ {0}
  <2> SUFFICES ASSUME NEW x \in {d, e, f} PROVE Rate(x) \in Nat /\ Window(x) \in Nat \ {0}
    OBVIOUS
  <2>1. x.rateLimiting \in RateLimiting
    BY DEF Endpoint
  <2> QED
    BY <2>1 DEF RateLimiting
<1>2. \A x, y \in {d, e, f} : Stricter(x, y) <=> Rate(x) * Window(y) < Rate(y) * Window(x)
  BY DEF Stricter
<1> HIDE DEF Rate, Window
<1>3. \A x, y \in {d, e, f} :
         /\ Rate(x) * Window(y) \in Nat
         /\ ~Stricter(x, y) <=> Rate(y) * Window(x) <= Rate(x) * Window(y)
  <2>1. \A i, j \in Nat : i * j \in Nat /\ \A k, l \in Nat : ~(i * j < k * l) <=> k * l <= i * j
    <3>1. \A i, j \in Nat : i * j \in Nat
      OBVIOUS
    <3>2. \A i, j \in Nat : ~(i < j) <=> j <= i
      OBVIOUS
    <3> QED
      BY <3>1, <3>2
  <2> SUFFICES ASSUME NEW x \in {d, e, f}, NEW y \in {d, e, f}
               PROVE  /\ Rate(x) * Window(y) \in Nat
                      /\ ~Stricter(x, y) <=> Rate(y) * Window(x) <= Rate(x) * Window(y)
    BY Zenon
  <2>2. Rate(x) \in Nat /\ Rate(y) \in Nat /\ Window(x) \in Nat /\ Window(y) \in Nat
    BY <1>1
  <2>3. Stricter(x, y) <=> Rate(x) * Window(y) < Rate(y) * Window(x)
    BY <1>2, Zenon
  <2> QED
    BY <2>1, <2>2, <2>3
<1>4. ~Stricter(d, e) \/ ~Stricter(e, d)
  BY <1>2, <1>3
<1>5. ASSUME ~Stricter(e, d), ~Stricter(f, e)
      PROVE  ~Stricter(f, d)
  <2>1. Rate(d) * Window(e) <= Rate(e) * Window(d) /\ Rate(e) * Window(f) <= Rate(f) * Window(e)
    BY <1>3, <1>5
  <2>2. Rate(d) * Window(f) <= Rate(f) * Window(d)
    BY <1>1, <2>1, RatiosCompare
  <2> QED
    BY <1>3, <2>2
<1>6. ~Stricter(d, d)
  BY <1>4, <1>2, <1>3
<1> QED
  BY <1>4, <1>5, <1>6

\* There is a strictest of some endpoints with limits.
LEMMA StrictestExists ==
    ASSUME NEW s \in Seq(Endpoint), s # << >>, \A e \in ToSet(s) : e.rateLimiting.enabled
    PROVE  Strictest(s) # {}
<1> DEFINE N == Len(s)
           Lowest(n, k) == k \in 1 .. n /\ \A j \in 1 .. n : ~Stricter(s[j], s[k])
           T == {n \in 0 .. N - 1 : \E k \in 1 .. n + 1 : Lowest(n + 1, k)}
<1>1. /\ N \in Nat \ {0}
      /\ ToSet(s) = {s[i] : i \in 1 .. N}
      /\ \A i \in 1 .. N : s[i] \in Endpoint /\ s[i].rateLimiting.enabled
  <2>1. N \in Nat /\ 1 \in 1 .. N /\ ToSet(s) = {s[i] : i \in 1 .. N} /\ ToSet(s) \subseteq Endpoint
    BY ToSetIs
  <2> QED
    BY <2>1
<1>2. \A i, j, k \in 1 .. N :
         /\ ~Stricter(s[i], s[i])
         /\ ~Stricter(s[i], s[j]) \/ ~Stricter(s[j], s[i])
         /\ ~Stricter(s[j], s[i]) /\ ~Stricter(s[k], s[j]) => ~Stricter(s[k], s[i])
  BY <1>1, NoStricterOrders
<1> HIDE DEF N
<1>3. 0 \in T
  <2>1. 1 \in 1 .. N /\ 1 \in 1 .. 0 + 1 /\ \A j \in 1 .. 0 + 1 : j = 1
    BY <1>1
  <2>2. Lowest(0 + 1, 1)
    BY <1>2, <2>1
  <2> QED
    BY <1>1, <2>1, <2>2
<1>4. ASSUME NEW n \in 1 .. N - 1, n - 1 \in T
      PROVE  n \in T
  <2>1. PICK m \in 1 .. N : m = n + 1
    BY <1>1
  <2>2. n - 1 + 1 = n /\ n \in 0 .. N - 1 /\ m \in 1 .. m
    BY <1>1, <2>1
  <2>3. PICK k \in 1 .. n : Lowest(n, k)
    <3> HIDE DEF Lowest
    <3> QED
      BY <1>4, <2>2
  <2>4. k \in 1 .. N /\ k \in 1 .. m
    BY <1>1, <2>1
  <2>5. \A j \in 1 .. m : j \in 1 .. N /\ (j \in 1 .. n \/ j = m)
    <3> HIDE DEF T, Lowest
    <3> QED
      BY <1>1, <2>1
  <2>6. CASE ~Stricter(s[m], s[k])
    <3>1. Lowest(m, k)
      BY <2>3, <2>4, <2>5, <2>6
    <3> QED
      BY <2>1, <2>2, <2>4, <3>1
  <2>7. CASE Stricter(s[m], s[k])
    <3>1. ~Stricter(s[k], s[m])
      BY <1>2, <2>4, <2>7
    <3>2. ASSUME NEW j \in 1 .. m
          PROVE  ~Stricter(s[j], s[m])
      <4>1. CASE j = m
        BY <1>2, <4>1
      <4>2. CASE j \in 1 .. n
        <5>1. ~Stricter(s[j], s[k]) /\ j \in 1 .. N
          BY <2>3, <2>5, <4>2
        <5> QED
          BY <1>2, <2>4, <3>1, <5>1
      <4> QED
        BY <2>5, <4>1, <4>2
    <3>3. Lowest(m, m)
      BY <2>2, <3>2
    <3> QED
      BY <2>1, <2>2, <3>3
  <2> QED
    BY <2>6, <2>7
<1>5. PICK k \in 1 .. N : Lowest(N, k)
  <2>1. N - 1 \in Nat /\ N - 1 + 1 = N
    BY <1>1
  <2> HIDE DEF Lowest
  <2>2. 0 .. N - 1 \subseteq T
    <3> HIDE DEF T
    <3> QED
      BY <1>3, <1>4, <2>1, CountingUp
  <2> QED
    BY <2>1, <2>2
<1>6. s[k] \in Strictest(s)
  BY <1>1, <1>5 DEF Strictest
<1> QED
  BY <1>6

\* The limit that counts is the exact endpoint's, or else the strictest.
LEMMA LimitOfAny ==
    ASSUME NEW context \in RequestContext, NEW configs \in Seq(Endpoint), ListedOnce(configs)
    PROVE  LimitIsTheRelevantOne(context, configs)
<1> DEFINE endpoints == OfField(NoField, configs)
           found == getEndpoints(context, configs)
           exact == Exact(context, endpoints)
           covering == Covering(context, endpoints)
           matches == Matching({e \in ToSet(found) : e.rateLimiting.enabled}, found)
           listed == Matching(OfRoute(context.route, matches), matches)
           strictest == Matching(Strictest(matches), matches)
           limited == getRateLimitedEndpoint(context, configs)
<1>1. /\ found \in Seq(Endpoint)
      /\ ToSet(found) = exact \cup covering
      /\ \A e \in exact : e.route = context.route
      /\ \A e \in covering : e.route # context.route
  BY EndpointsAreFound
<1>2. limited = IF First(listed) # NoEndpoint THEN First(listed) ELSE First(strictest)
  BY DEF getRateLimitedEndpoint
<1> HIDE DEF found, exact, covering, limited
<1>3. /\ matches \in Seq(Endpoint)
      /\ ToSet(matches) = {e \in exact \cup covering : e.rateLimiting.enabled}
  <2>1. /\ matches \in Seq(Endpoint)
        /\ ToSet(matches) = ToSet(found) \cap {e \in ToSet(found) : e.rateLimiting.enabled}
    BY <1>1, MatchingFacts
  <2> HIDE DEF matches
  <2> QED
    BY <1>1, <2>1
<1> HIDE DEF matches
<1>4. /\ listed \in Seq(Endpoint)
      /\ ToSet(listed) = {e \in exact : e.rateLimiting.enabled}
  <2>1. /\ listed \in Seq(Endpoint)
        /\ ToSet(listed) = ToSet(matches) \cap OfRoute(context.route, matches)
    BY <1>3, MatchingFacts
  <2> HIDE DEF listed
  <2> QED
    BY <1>1, <1>3, <2>1 DEF OfRoute
<1>5. /\ strictest \in Seq(Endpoint)
      /\ ToSet(strictest) = Strictest(matches)
  <2>1. /\ strictest \in Seq(Endpoint)
        /\ ToSet(strictest) = ToSet(matches) \cap Strictest(matches)
    BY <1>3, MatchingFacts
  <2> HIDE DEF strictest
  <2> QED
    BY <2>1 DEF Strictest
<1> HIDE DEF listed, strictest
<1>6. NoEndpoint \notin Endpoint
  BY EndpointsAssumption DEF Endpoint, EndpointsAssumption, AnyMethod, Unknown, NoEndpoint
<1> DEFINE exactOnes == {e \in exact : e.rateLimiting.enabled}
           coveringOnes == {e \in covering : e.rateLimiting.enabled}
<1>7. ASSUME exactOnes # {}
      PROVE  limited \in exactOnes
  <2>1. /\ First(listed) = listed[1] /\ listed[1] \in ToSet(listed)
        /\ ToSet(listed) \subseteq Endpoint
    BY <1>4, <1>7, ToSetIs DEF First
  <2> QED
    BY <1>2, <1>4, <1>6, <2>1
<1>8. ASSUME exactOnes = {}
      PROVE  limited = First(strictest) /\ ToSet(matches) = coveringOnes
  <2>1. listed = << >>
    BY <1>4, <1>8, ToSetIs
  <2> QED
    BY <1>2, <1>3, <1>8, <2>1 DEF First
<1>9. ASSUME exactOnes = {}, coveringOnes # {}
      PROVE  limited \in coveringOnes /\ \A e \in coveringOnes : ~Stricter(e, limited)
  <2>1. ToSet(matches) = coveringOnes /\ limited = First(strictest)
    BY <1>8, <1>9
  <2>2. matches # << >>
    BY <1>3, <1>9, <2>1, ToSetIs
  <2>3. Strictest(matches) # {}
    BY <1>3, <2>2, StrictestExists
  <2>4. strictest # << >> /\ strictest[1] \in Strictest(matches)
    BY <1>5, <2>3, ToSetIs
  <2> QED
    BY <2>1, <2>4 DEF First, Strictest
<1>10. ASSUME exactOnes = {}, coveringOnes = {}
       PROVE  limited = NoEndpoint
  <2>1. ToSet(matches) = {} /\ limited = First(strictest)
    BY <1>8, <1>10
  <2>2. strictest = << >>
    BY <1>5, <2>1, ToSetIs DEF Strictest
  <2> QED
    BY <2>1, <2>2 DEF First
<1> QED
  BY <1>7, <1>9, <1>10 DEF LimitIsTheRelevantOne, exact, covering, limited

-----------------------------------------------------------------------------
(* The look-ups, on every input.                                           *)

\* Nothing moves: what holds of every input holds of every state.
LEMMA LookUpsStay == LookUpSpec => []LookUpInit
<1>1. LookUpInit /\ [FALSE]_focus => LookUpInit'
  BY DEF LookUpInit
<1> QED
  BY <1>1, PTL DEF LookUpSpec

\* getRedirectOrigin.ts: for any list of redirects and any URL, with any depth
\* at which the search gives up, the answer is the start of the URL's chain.
THEOREM OriginsAreFound == LookUpSpec => []OriginsFound
<1>1. LookUpInit => OriginsFound
  <2> SUFFICES ASSUME LookUpInit, focus.on = "redirects"
               PROVE  OriginStartsTheChain(focus.list, focus.url)
    BY DEF OriginsFound
  <2>1. focus.list \in Seq(Redirect) /\ focus.url \in Urls
    BY LookUpsAssumption DEF LookUpInit, LookUpsAssumption
  <2> QED
    BY <2>1, OriginOfAnyChain
<1> QED
  BY <1>1, LookUpsStay, PTL

\* matchEndpoints.ts and its callers: whatever endpoints are configured, in any
\* order, each request is limited, let in, protected and matched to a field of
\* GraphQL as the endpoints that concern it say.
THEOREM EndpointsAreDecided == LookUpSpec => []EndpointsDecide
<1>1. LookUpInit => EndpointsDecide
  <2> SUFFICES ASSUME LookUpInit, focus.on = "endpoints", NEW context \in RequestContexts
               PROVE  /\ LimitIsTheRelevantOne(context, focus.list)
                      /\ AccessIsAsListed(context, focus.list)
                      /\ ProtectionIsAsListed(context, focus.list)
                      /\ \A field \in Fields :
                             FieldIsTheMostSpecific(context, field, focus.list)
    BY DEF EndpointsDecide
  <2>1. focus.list \in Seq(Endpoint) /\ ListedOnce(focus.list) /\ context \in RequestContext
    BY LookUpsAssumption DEF LookUpInit, LookUpsAssumption
  <2> QED
    BY <2>1, LimitOfAny, AccessOfAny, ProtectionOfAny, FieldOfAny
<1> QED
  BY <1>1, LookUpsStay, PTL

-----------------------------------------------------------------------------
(* UserInput.                                                              *)

\* The fields of a context hold sets of strings.
InputTypes == store \in Contexts

\* A field that is set is a source, and both caches are dropped, or is none, and
\* what they hold does not depend on it.
LEMMA UpdateKeepsFresh ==
    ASSUME InputTypes, CacheFresh,
           NEW key \in ContextFields, NEW value \in SUBSET InputStrings,
           updateContext(key, value)
    PROVE  InputTypes' /\ CacheFresh'
<1>1. store' = [store EXCEPT ![key] = value]
  BY DEF updateContext
<1>2. store' \in Contexts
  BY <1>1 DEF InputTypes, Contexts
<1>3. ASSUME isSourceKey(key)
      PROVE  CacheFresh'
  BY <1>3 DEF updateContext, ForgetsStrings, CacheFresh
<1>4. ASSUME ~isSourceKey(key)
      PROVE  CacheFresh'
  <2>1. \A other \in ContextFields \cap SOURCES : store'[other] = store[other]
    BY <1>1, <1>4 DEF isSourceKey, InputTypes, Contexts
  <2>2. UserStrings(store') = UserStrings(store)
    BY <2>1 DEF UserStrings
  <2>3. UNCHANGED <<cache, cachePathTraversal>>
    BY <1>4 DEF updateContext
  <2>4. UserPathStrings(store') = UserPathStrings(store)
    BY <2>2 DEF UserPathStrings
  <2> QED
    BY <2>2, <2>3, <2>4 DEF CacheFresh
<1> QED
  BY <1>2, <1>3, <1>4 DEF InputTypes

\* Context.ts, updateContext and runWithContext: whatever is parsed, marked or
\* replaced between the questions of sinks, what was kept for one is what the
\* context holds.
THEOREM CacheIsFresh == InputSpec => []CacheFresh
<1>1. InputInit => InputTypes /\ CacheFresh
  BY DEF InputInit, InputTypes, CacheFresh
<1>2. InputTypes /\ CacheFresh /\ [InputNext]_inputVars => (InputTypes /\ CacheFresh)'
  <2> SUFFICES ASSUME InputTypes, CacheFresh, [InputNext]_inputVars
               PROVE  InputTypes' /\ CacheFresh'
    OBVIOUS
  <2>1. ASSUME NEW key \in ContextFields, NEW value \in SUBSET InputStrings,
               updateContext(key, value)
        PROVE  InputTypes' /\ CacheFresh'
    BY <2>1, UpdateKeepsFresh
  <2>2. ASSUME NEW context \in Contexts, runWithContext(context)
        PROVE  InputTypes' /\ CacheFresh'
    <3>1. store' \in Contexts
      BY <2>2 DEF runWithContext, InputTypes, Contexts
    <3> QED
      BY <2>2, <3>1 DEF runWithContext, ForgetsStrings, InputTypes, CacheFresh
  <2>3. ASSUME NEW payload \in InputStrings, markUnsafe(payload)
        PROVE  InputTypes' /\ CacheFresh'
    <3>1. store["markUnsafe"] \cup {payload} \in SUBSET InputStrings
      BY UserInputAssumption DEF UserInputAssumption, InputTypes, Contexts
    <3> QED
      BY <2>3, <3>1, UserInputAssumption, UpdateKeepsFresh DEF UserInputAssumption, markUnsafe
  <2>4. CASE extractStringsFromUserInputCached \/ extractPathStringsFromUserInputCached
    BY <2>4 DEF extractStringsFromUserInputCached, extractPathStringsFromUserInputCached,
       InputTypes, CacheFresh
  <2>5. CASE UNCHANGED inputVars
    BY <2>5 DEF inputVars, InputTypes, CacheFresh
  <2> QED
    BY <2>1, <2>2, <2>3, <2>4, <2>5 DEF InputNext
<1> QED
  BY <1>1, <1>2, PTL DEF InputSpec
=============================================================================
