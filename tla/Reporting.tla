------------------------------ MODULE Reporting ------------------------------
(***************************************************************************)
(* The agent's reports to the Aikido API: statistics that are taken and    *)
(* reset by a heartbeat before it is sent (Agent.ts), attack events that   *)
(* are sent at once, and the three wrappers every report passes            *)
(* (protect.ts:91): one stops for good at an invalid token, one pauses     *)
(* after a 429, one limits the attack events per interval.                 *)
(*                                                                         *)
(* Every observation is a fact of its own, so that one that is lost or     *)
(* reported twice can be told.  All that a heartbeat takes (operations,    *)
(* requests, AI calls, routes, hostnames, users, packages) is taken and    *)
(* reset in the same synchronous block, and modelled by one set; what each *)
(* of them keeps at its limit is Collections.  What an answer does to the  *)
(* configuration is ConfigSync; console output is left out.  The agent has *)
(* a token: without one it reports nothing.                                *)
(***************************************************************************)
EXTENDS Integers, Sequences, FiniteSets

CONSTANTS
    Facts,          \* all that can be observed
    Calls,          \* inspected calls, hostnames, ... among them
    Attacks,        \* detected attacks and attack waves among them
    Startup, Beats, \* names for the startup event and for heartbeats under way
    Answers,        \* what may become of a report, in this instance
    Never,          \* null: no such moment
    Pause,          \* stopSendingForInMilliseconds
    MaxEvents,      \* maxEventsPerInterval
    EventInterval,  \* intervalInMs
    FirstHeartbeat, SecondHeartbeat, NextHeartbeat,  \* getHeartbeatInterval
    Timeout,        \* timeoutInMS of a report
    MaxTime         \* bound of the clock

\* A timeout, an unknown status or an unreadable body make no difference here:
\* they are one "error" that is returned; a failed connection throws.
ASSUME AnswersAssumption ==
    Answers \subseteq {"success", "invalid_token", "rate_limited", "error", "throws"}

ASSUME FactsAssumption == Calls \cup Attacks \subseteq Facts /\ Calls \cap Attacks = {}

\* Reports of different kinds have different names.
ASSUME NamesAssumption == Startup \notin Attacks /\ Beats \cap Attacks = {}

ASSUME TimesAssumption ==
    /\ {Pause, MaxEvents, EventInterval, Timeout, MaxTime} \subseteq Nat
    /\ Never \notin Nat

VARIABLES
    now,
    serverless,     \* the process is frozen between invocations
    statistics,     \* what was observed since the last heartbeat was made
    inflight,       \* the reports that were sent and not answered yet
    tokenIsInvalid, rateLimitedAt, events,  \* the state of the three wrappers
    pending,        \* pendingPromises: names of attack reports not settled yet
    heartbeats,     \* [on, count, last]: interval, sentHeartbeatCounter, lastHeartbeat
    delivered, lost,    \* history: the facts of heartbeats that ended, well or not
    refused,        \* history: [token, at], an invalid token and the last 429 answered
    attackEvents    \* history: when attack events were sent

wrappers == <<tokenIsInvalid, rateLimitedAt, events>>
history == <<delivered, lost, refused, attackEvents>>
vars == <<now, serverless, statistics, inflight, wrappers, pending, heartbeats, history>>

Sent == UNION {r.facts : r \in inflight}
Observed == statistics \cup Sent \cup delivered \cup lost

-----------------------------------------------------------------------------
(* A report on its way through the wrappers.                               *)

Paused == rateLimitedAt # Never /\ now - rateLimitedAt < Pause

\* filter: the times of s that are after a moment, in their order.
After(s, moment) ==
    LET kept[n \in 0 .. Len(s)] ==
            IF n = 0 THEN << >>
            ELSE IF s[n] > moment THEN Append(kept[n - 1], s[n]) ELSE kept[n - 1]
    IN  kept[Len(s)]

\* The boundary counts as well.
RecentEventsAndBoundary == After(events, now - EventInterval - 1)
RecentEvents == After(events, now - EventInterval)

ReachesLimit(kind) == kind = "attack" /\ ~tokenIsInvalid /\ ~Paused

Held(kind) == ReachesLimit(kind) /\ Len(RecentEvents) >= MaxEvents

\* Whether a report is sent: no wrapper answers it.
Passes(kind) == ~tokenIsInvalid /\ ~Paused /\ ~Held(kind)

Record(kind) ==
    IF ~ReachesLimit(kind) THEN events
    ELSE IF Held(kind) THEN RecentEvents
    ELSE Append(RecentEvents, now)

\* api.report: sent and answered later, or answered by a wrapper at once.
report(name, kind, facts) ==
    /\ \A r \in inflight : r.name # name
    /\ events' = Record(kind)
    /\ IF Passes(kind)
       THEN /\ inflight' = inflight \cup
                  {[name |-> name, kind |-> kind, facts |-> facts, at |-> now]}
            /\ attackEvents' = IF kind = "attack" THEN Append(attackEvents, now) ELSE attackEvents
            /\ UNCHANGED lost
       ELSE /\ lost' = lost \cup facts
            /\ UNCHANGED <<inflight, attackEvents>>
    /\ UNCHANGED <<tokenIsInvalid, rateLimitedAt, delivered, refused>>

\* Takes the statistics s, resets them, and only then reports.  The kind tells
\* who called it; the event is the same.
sendHeartbeat(name, kind, s) ==
    /\ report(name, kind, s)
    /\ statistics' = {}

\* A reset once the report has been answered.
ResetOnAnswer(r) == IF r.kind \in {"heartbeat", "flush"} THEN {} ELSE statistics
\* An answer leaves the statistics alone.
AfterAnswer(r) == statistics

\* A promise that is never removed.
KeptPending(r) == pending
PendingAfter(r) == pending \ {r.name}

\* The pause runs from the moment the report was sent.
PausedSinceSent(r, answer) == IF answer = "rate_limited" THEN r.at ELSE rateLimitedAt
PausedSince(r, answer) == IF answer = "rate_limited" THEN now ELSE rateLimitedAt

-----------------------------------------------------------------------------
(* What the agent does.                                                    *)

StartupEvent == [name |-> Startup, kind |-> "started", facts |-> {}, at |-> now]

\* A serverless agent delays its startup event.
Init ==
    /\ serverless \in BOOLEAN
    /\ now = 0
    /\ statistics = {}
    /\ inflight = IF serverless THEN {} ELSE {StartupEvent}
    /\ tokenIsInvalid = FALSE /\ rateLimitedAt = Never /\ events = << >>
    /\ pending = {}
    /\ heartbeats = [on |-> FALSE, count |-> 0, last |-> 0]
    /\ delivered = {} /\ lost = {}
    /\ refused = [token |-> FALSE, at |-> Never]
    /\ attackEvents = << >>

Inspect(f) ==
    /\ f \notin Observed
    /\ statistics' = statistics \cup {f}
    /\ UNCHANGED <<now, inflight, wrappers, pending, heartbeats, history>>

\* onDetectedAttack and onDetectedAttackWave: counted, and reported in the
\* background.
DetectAttack(a) ==
    /\ a \notin Observed
    /\ statistics' = statistics \cup {a}
    /\ report(a, "attack", {})
    /\ pending' = IF Passes("attack") THEN pending \cup {a} ELSE pending
    /\ UNCHANGED <<now, heartbeats>>

getHeartbeatInterval ==
    CASE heartbeats.count = 0 -> FirstHeartbeat
      [] heartbeats.count = 1 -> SecondHeartbeat
      [] OTHER -> NextHeartbeat

\* sentHeartbeatCounter; beyond two it makes no difference.
UpToTwo(n) == IF n < 2 THEN n + 1 ELSE n

\* The timer of startHeartbeats; it looks every 30 seconds.  The counter goes up
\* when the report is settled.
Heartbeat(b) ==
    /\ heartbeats.on
    /\ now - heartbeats.last > getHeartbeatInterval
    /\ sendHeartbeat(b, "heartbeat", statistics)
    /\ heartbeats' = [heartbeats EXCEPT !.last = now,
                                        !.count = IF Passes("heartbeat") THEN @ ELSE UpToTwo(@)]
    /\ UNCHANGED <<now, pending>>

flushStats(name, s) == sendHeartbeat(name, "flush", s)

Shutdown(b) ==
    /\ flushStats(b, statistics)
    /\ UNCHANGED <<now, pending, heartbeats>>

\* The answer to a report, or what becomes of it instead, and everything that
\* awaits it: the wrappers and pendingPromises.
Answer(r, answer) ==
    /\ inflight' = inflight \ {r}
    /\ tokenIsInvalid' = (tokenIsInvalid \/ answer = "invalid_token")
    /\ rateLimitedAt' = PausedSince(r, answer)
    /\ pending' = PendingAfter(r)
    /\ statistics' = AfterAnswer(r)
    /\ delivered' = IF answer = "success" THEN delivered \cup r.facts ELSE delivered
    /\ lost' = IF answer = "success" THEN lost ELSE lost \cup r.facts
    /\ refused' = [token |-> refused.token \/ answer = "invalid_token",
                   at |-> IF answer = "rate_limited" THEN now ELSE refused.at]
    /\ UNCHANGED <<now, events, attackEvents>>

\* The timers start once the startup event was answered, and a heartbeat of the
\* timer counts however it ended.
AnswerAgent(r, answer) ==
    /\ Answer(r, answer)
    /\ heartbeats' =
          [heartbeats EXCEPT
              !.on = @ \/ (r.kind = "started" /\ answer # "throws"),
              !.count = IF r.kind = "heartbeat" THEN UpToTwo(@) ELSE @]

\* Every report is settled within its timeout.
Tick ==
    /\ now < MaxTime
    /\ \A r \in inflight : now - r.at < Timeout
    /\ now' = now + 1
    /\ UNCHANGED <<statistics, inflight, wrappers, pending, heartbeats, history>>

Observe ==
    \/ \E f \in Calls : Inspect(f)
    \/ \E a \in Attacks : DetectAttack(a)

\* A long-running agent, started.
AgentNext ==
    \/ Observe
    \/ \E b \in Beats : Heartbeat(b) \/ Shutdown(b)
    \/ \E r \in inflight, answer \in Answers : AnswerAgent(r, answer)
    \/ Tick

-----------------------------------------------------------------------------
(* What is checked.                                                        *)

Fate ==
    LET sent == Sent
    IN  [f \in Facts |->
            CASE f \in statistics -> "held"
              [] f \in sent \ statistics -> "sent"
              [] f \in delivered \ (sent \cup statistics) -> "delivered"
              [] f \in lost \ (delivered \cup sent \cup statistics) -> "lost"
              [] OTHER -> "unseen"]

\* What an outsider has seen answered forbids to send.
Refused == refused.token \/ (refused.at # Never /\ now - refused.at < Pause)

\* After a 429 arrived, nothing is sent until the pause is over, also not what
\* was reported by others meanwhile; each further 429 starts the pause anew.
\* After an invalid token was answered, nothing is sent at all.
SilentWhileRefused == [][inflight' \ inflight # {} => ~Refused]_vars

AttackEventsInInterval ==
    {i \in DOMAIN attackEvents : now - attackEvents[i] < EventInterval}

\* An attack is reported unless the API refuses reports, or MaxEvents attack
\* events were sent in the interval that ends now: a report that was refused
\* does not use up the limit, and no more than MaxEvents are ever sent.
AttacksReportedUpToLimit ==
    [][\A a \in Attacks : a \notin Observed /\ a \in Observed' =>
          ((\E r \in inflight' : r.name = a)
              <=> ~Refused /\ Cardinality(AttackEventsInInterval) < MaxEvents)]_vars


Promise == INSTANCE Ledger WITH fate <- Fate

\* Nothing that was observed is reported twice, and nothing is lost but with the
\* heartbeat that carried it: what is observed while a report is under way
\* stays for the next one, whatever becomes of that report.
ImplementsLedger == Promise!Spec

TypeOK ==
    /\ now \in 0 .. MaxTime
    /\ statistics \subseteq Facts
    /\ \A r \in inflight : r.at \in 0 .. now
    /\ \A r, q \in inflight : r.name = q.name => r = q
    /\ tokenIsInvalid \in BOOLEAN
    /\ rateLimitedAt \in 0 .. now \cup {Never}
    /\ pending = {r.name : r \in {q \in inflight : q.kind = "attack"}}

=============================================================================
