----------------------------- MODULE AttackWave -----------------------------
(***************************************************************************)
(* library/vulnerabilities/attack-wave-detection/AttackWaveDetector.ts:    *)
(* a wave is reported when one address made enough suspicious requests,    *)
(* and then not again for a while.  Both facts live in LRUMaps whose       *)
(* entries expire and are evicted: suspiciousRequests counts, sentEvents   *)
(* remembers what was reported.                                            *)
(*                                                                         *)
(* A request is handled in one synchronous block, the report to the cloud  *)
(* included (Agent.ts:748, called from the request listener as soon as     *)
(* check returns true).  The clock is positive: performance.now() counts   *)
(* from the start of the process, and check takes a time 0 for no report.  *)
(* Whether a request looks like one of a scanner is up to its data, and    *)
(* chosen freely here.  hits, reports and event are history variables.     *)
(***************************************************************************)
EXTENDS LRUOps

CONSTANTS
    Ips,            \* remote addresses
    Samples,        \* what is kept of a suspicious request: method and url
    Missing,        \* undefined
    Threshold,      \* attackWaveThreshold
    TimeFrame,      \* attackWaveTimeFrame
    MinBetween,     \* minTimeBetweenEvents
    MaxEntries,     \* maxLRUEntries
    MaxSamples,     \* maxSamplesPerIP
    MaxTime,        \* bound of the clock
    MaxHits         \* bound of the suspicious requests of all addresses

ASSUME AttackWaveAssumption ==
    /\ IsFiniteSet(Ips)
    /\ {Threshold, TimeFrame, MinBetween, MaxEntries} \subseteq Nat \ {0}
    /\ MaxSamples \in 0 .. Threshold
    /\ MaxTime \in Nat \ {0} /\ MaxHits \in Nat
    /\ Missing \notin Ips

VARIABLES
    now,                \* performance.now()
    suspiciousRequests, \* address -> [count, samples], for TimeFrame after the last
    sentEvents,         \* address -> time of its last report, for MinBetween
    hits,               \* history: the suspicious requests of each address since its
                        \* count was evicted, [at, sample, counted, reported]
    reports,            \* history: the last report of each address, and whether
                        \* it was evicted from sentEvents, [at, forgotten]
    event               \* history: the last event sent, [ip, samples]

history == <<hits, reports, event>>
vars == <<now, suspiciousRequests, sentEvents, history>>

NoReport == [at |-> 0, forgotten |-> FALSE]
NoEvent == [ip |-> Missing, samples |-> << >>]

-----------------------------------------------------------------------------
(* check(), step by step.                                                  *)

\* A report was sent for the address less than MinBetween ago.
EverSent(ip) == Has(sentEvents, ip)         \* however long ago
RecentlySent(ip) == Fresh(sentEvents, ip, MinBetween, now)

AfterSentGet(ip) == Get(sentEvents, ip, MinBetween, now)

Found(ip) == Lookup(suspiciousRequests, ip, TimeFrame, now,
                    [count |-> 0, samples |-> << >>])

AfterFind(ip) == Get(suspiciousRequests, ip, TimeFrame, now)

TrackAll(sample, samples) == Append(samples, sample)    \* duplicates and all
trackSample(sample, samples) ==
    IF Len(samples) >= MaxSamples \/ Contains(samples, sample)
    THEN samples
    ELSE Append(samples, sample)

\* The samples of an expired entry kept.
CountedAmongOld(ip, sample) ==
    [count |-> Found(ip).count + 1,
     samples |-> trackSample(sample,
                     IF Has(suspiciousRequests, ip)
                     THEN suspiciousRequests.item[ip].value.samples ELSE << >>)]
Counted(ip, sample) ==
    [count |-> Found(ip).count + 1, samples |-> trackSample(sample, Found(ip).samples)]

\* A count that goes on where an entry expired.
FoundExpired(ip) ==
    IF Has(suspiciousRequests, ip) THEN suspiciousRequests.item[ip].value.count ELSE 0

IsWaveOfExpired(ip) == FoundExpired(ip) + 1 >= Threshold
IsWave(ip) == Found(ip).count + 1 >= Threshold

ForgetSent(ip) == AfterSentGet(ip)          \* the report is not remembered
MarkSent(ip) == Set(AfterSentGet(ip), ip, now, MaxEntries, MinBetween, now)

-----------------------------------------------------------------------------
Init ==
    /\ now = 1
    /\ suspiciousRequests = EmptyLRU
    /\ sentEvents = EmptyLRU
    /\ hits = [ip \in Ips |-> << >>]
    /\ reports = [ip \in Ips |-> NoReport]
    /\ event = NoEvent

TotalHits == Cardinality(UNION {{ip} \X DOMAIN hits[ip] : ip \in Ips})

Hit(sample, counted, reported) ==
    [at |-> now, sample |-> sample, counted |-> counted, reported |-> reported]

\* A request that check sees, of an address that was reported recently or
\* that does not look like a scanner: only the look-up leaves a trace.
CheckHarmless(ip) ==
    /\ sentEvents' = AfterSentGet(ip)
    /\ UNCHANGED <<now, suspiciousRequests, history>>

CheckSuppressed(ip, sample) ==
    /\ TotalHits < MaxHits
    /\ RecentlySent(ip)
    /\ sentEvents' = AfterSentGet(ip)
    /\ hits' = [hits EXCEPT ![ip] = Append(@, Hit(sample, FALSE, FALSE))]
    /\ UNCHANGED <<now, suspiciousRequests, reports, event>>

\* What counting a request does, the report apart.
Count(ip, sample, reported) ==
    /\ TotalHits < MaxHits
    /\ ~RecentlySent(ip)
    /\ suspiciousRequests' =
          Set(AfterFind(ip), ip, Counted(ip, sample), MaxEntries, TimeFrame, now)
    /\ hits' = [j \in Ips |->
                   IF j = ip THEN Append(hits[ip], Hit(sample, TRUE, reported))
                   ELSE IF j \in Evicted(AfterFind(ip), ip, MaxEntries) THEN << >> ELSE hits[j]]

CheckCounts(ip, sample) ==
    /\ ~IsWave(ip)
    /\ Count(ip, sample, FALSE)
    /\ sentEvents' = AfterSentGet(ip)
    /\ UNCHANGED <<now, reports, event>>

\* The threshold is reached, and onDetectedAttackWave reports the samples it
\* reads back: getSamplesForIP finds the entry that was just set.
CheckReports(ip, sample) ==
    /\ IsWave(ip)
    /\ Count(ip, sample, TRUE)
    /\ sentEvents' = MarkSent(ip)
    /\ reports' = [j \in Ips |->
                      IF j = ip THEN [at |-> now, forgotten |-> FALSE]
                      ELSE IF j \in Evicted(AfterSentGet(ip), ip, MaxEntries)
                           THEN [reports[j] EXCEPT !.forgotten = TRUE]
                           ELSE reports[j]]
    /\ event' = [ip |-> ip, samples |-> Counted(ip, sample).samples]
    /\ UNCHANGED now

Tick ==
    /\ now < MaxTime
    /\ now' = now + 1
    /\ UNCHANGED <<suspiciousRequests, sentEvents, history>>

Next ==
    \/ \E ip \in Ips : CheckHarmless(ip)
    \/ \E ip \in Ips, sample \in Samples :
          CheckSuppressed(ip, sample) \/ CheckCounts(ip, sample) \/ CheckReports(ip, sample)
    \/ Tick

Spec == Init /\ [][Next]_vars

-----------------------------------------------------------------------------
(* What is checked.                                                        *)

\* The variables have their types; no sample is kept twice, nor more of them
\* than MaxSamples.
TypeOK ==
    /\ now \in 1 .. MaxTime
    /\ DOMAIN suspiciousRequests.item \subseteq Ips
    /\ \A ip \in DOMAIN suspiciousRequests.item :
          LET v == suspiciousRequests.item[ip].value
          IN  /\ v.count \in 1 .. MaxHits
              /\ v.samples \in Seq(Samples)
              /\ Len(v.samples) <= MaxSamples /\ IsInjective(v.samples)
    /\ DOMAIN sentEvents.item \subseteq Ips
    /\ \A ip \in DOMAIN sentEvents.item : sentEvents.item[ip].value \in 1 .. now
    /\ hits \in [Ips -> Seq([at : 1 .. now, sample : Samples,
                             counted : BOOLEAN, reported : BOOLEAN])]
    /\ reports \in [Ips -> [at : 0 .. now, forgotten : BOOLEAN]]
    /\ event \in [ip : Ips \cup {Missing}, samples : Seq(Samples)]

\* The counted requests of ip that led to its i-th, each less than TimeFrame
\* after the one before.
CountedUpTo(ip, i) == {j \in 1 .. i : hits[ip][j].counted}
Wave(ip, i) ==
    {j \in CountedUpTo(ip, i) :
        \A m \in CountedUpTo(ip, i) :
            m > j => LET before == {n \in CountedUpTo(ip, i) : n < m}
                     IN  hits[ip][m].at - hits[ip][Max(before)].at < TimeFrame}

\* A report is made at a counted request iff Threshold of them came one
\* shortly after the other: a pause of TimeFrame starts the count anew
\* (AttackWaveDetector.ts:90-112).
ReportedIffWave ==
    \A ip \in Ips : \A i \in DOMAIN hits[ip] :
        hits[ip][i].counted =>
            (hits[ip][i].reported <=> Cardinality(Wave(ip, i)) >= Threshold)

\* When Threshold suspicious requests came within one TimeFrame, their address
\* was reported by the last of them, or less than MinBetween before the
\* first: suppressing repeated reports never hides a wave that is new.
NoWaveMissed ==
    \A ip \in Ips : \A i \in DOMAIN hits[ip] :
        LET start == i - Threshold + 1
        IN  /\ start >= 1
            /\ hits[ip][i].at - hits[ip][start].at < TimeFrame
            => /\ reports[ip].at > 0
               /\ reports[ip].at + MinBetween > hits[ip][start].at

\* The samples of an event are the first distinct requests of its wave, those
\* of an older wave of the same address not among them.
EventTellsItsWave ==
    event # NoEvent =>
        LET known == hits[event.ip]
            at == {i \in DOMAIN known : known[i].reported}
            of == {known[j].sample : j \in Wave(event.ip, Max(at))}
        IN  at # {} =>
              /\ {event.samples[i] : i \in DOMAIN event.samples} \subseteq of
              /\ Len(event.samples) =
                    IF Cardinality(of) < MaxSamples THEN Cardinality(of) ELSE MaxSamples

\* Two reports of one address are MinBetween apart, unless the first one was
\* evicted from the memory of what was sent.
ReportsApart ==
    [][\A ip \in Ips :
          reports'[ip].at # reports[ip].at /\ reports[ip].at > 0 =>
              \/ now - reports[ip].at >= MinBetween
              \/ reports[ip].forgotten]_vars

\* AttackWaveDetector.ts:22 "In what time frame must these requests occur", of
\* the requests that trigger a report: all of them within one TimeFrame.
WaveWithinTimeFrame ==
    \A ip \in Ips : \A i \in DOMAIN hits[ip] :
        hits[ip][i].reported =>
            Cardinality({j \in 1 .. i : hits[ip][i].at - hits[ip][j].at < TimeFrame})
                >= Threshold

=============================================================================
