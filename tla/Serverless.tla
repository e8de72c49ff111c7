----------------------------- MODULE Serverless -----------------------------
(***************************************************************************)
(* Reporting in the process it runs in.  A long-running process is driven  *)
(* by the timers of Agent.ts.  A serverless process is driven by the       *)
(* wrappers of library/sources/Lambda.ts and FunctionsFramework.ts, whose  *)
(* finally block waits for attack events and flushes the statistics before *)
(* the platform may freeze the process: a Lambda handles one invocation at *)
(* a time, a Cloud Function several.  While none is active nothing runs    *)
(* but the clock.  An invocation by a trigger no context can be made for   *)
(* has no finally block and is left out.                                   *)
(***************************************************************************)
EXTENDS Reporting

CONSTANTS
    Invocations,    \* invocations of the wrapped handler
    FlushEvery,     \* getFlushEveryMS
    Concurrency     \* invocations at a time

ASSUME InvocationsAssumption ==
    /\ Invocations \subseteq Facts \ (Calls \cup Attacks)
    /\ Invocations \cap (Beats \cup {Startup}) = {}
    /\ FlushEvery \in Nat

VARIABLES
    phase,              \* where each invocation is
    awaits,             \* names of the reports each invocation is waiting for
    startupEventSent, lastFlushStatsAt,
    returned,           \* history: the attacks reported before the handler returned
    gaveUp,             \* history: invocations whose wait for attack events timed out
    flushTakenAt        \* history: when the last flush that ended well took its facts

invocationHistory == <<returned, gaveUp, flushTakenAt>>
invocationVars == <<phase, awaits, startupEventSent, lastFlushStatsAt, invocationHistory>>
allVars == <<vars, invocationVars>>

Phases == {"idle", "starting", "running", "waiting", "flushing", "ended", "failed"}

In(p) == {i \in Invocations : phase[i] = p}
Active == In("starting") \cup In("running") \cup In("waiting") \cup In("flushing")

SInit ==
    /\ Init
    /\ phase = [i \in Invocations |-> "idle"]
    /\ awaits = [i \in Invocations |-> {}]
    /\ startupEventSent = FALSE
    /\ lastFlushStatsAt = Never
    /\ returned = [i \in Invocations |-> {}]
    /\ gaveUp = {}
    /\ flushTakenAt = Never

Goes(i, p, reportsAwaited) ==
    /\ phase' = [phase EXCEPT ![i] = p]
    /\ awaits' = [awaits EXCEPT ![i] = reportsAwaited]

-----------------------------------------------------------------------------
(* The wrapper.                                                            *)

\* The first invocation sends the startup event and waits for its answer; the
\* flag is set before, so no other one does.
BeginFirst(i) ==
    /\ ~startupEventSent
    /\ startupEventSent' = TRUE
    /\ report(Startup, "started", {})
    /\ Goes(i, "starting", {Startup})
    /\ UNCHANGED <<now, statistics, pending, heartbeats, lastFlushStatsAt, invocationHistory>>

BeginLater(i) ==
    /\ startupEventSent
    /\ Goes(i, "running", {})
    /\ UNCHANGED <<vars, startupEventSent, lastFlushStatsAt, invocationHistory>>

Begin(i) ==
    /\ phase[i] = "idle"
    /\ Cardinality(Active) < Concurrency
    /\ BeginFirst(i) \/ BeginLater(i)

FlushDue == lastFlushStatsAt # Never => lastFlushStatsAt + FlushEvery < now

\* The end of the finally block: flush the statistics s if it is due.  A flush
\* that is refused on the spot is done.
FlushIfDue(i, s) ==
    \/ /\ ~FlushDue
       /\ Goes(i, "ended", {})
       /\ statistics' = s
       /\ UNCHANGED <<inflight, wrappers, history, lastFlushStatsAt, flushTakenAt>>
    \/ /\ FlushDue
       /\ flushStats(i, s)
       /\ IF Passes("flush")
          THEN Goes(i, "flushing", {i}) /\ UNCHANGED <<lastFlushStatsAt, flushTakenAt>>
          ELSE Goes(i, "ended", {}) /\ lastFlushStatsAt' = now /\ flushTakenAt' = now

\* The handler returns or throws.  The request is counted, unless it is bypassed,
\* and then waitUntilSent waits for the attack events pending now, if any.  An
\* attack wave that is found here is reported before: it is one of Observe.
Return(i, bypassed) ==
    /\ phase[i] = "running"
    /\ returned' = [returned EXCEPT ![i] = {a \in Attacks : \E r \in inflight : r.name = a}]
    /\ LET s == IF bypassed THEN statistics ELSE statistics \cup {i}
       IN  \/ /\ pending = {}
              /\ FlushIfDue(i, s)
           \/ /\ pending # {}
              /\ Goes(i, "waiting", pending)
              /\ statistics' = s
              /\ UNCHANGED <<inflight, wrappers, lastFlushStatsAt, history, flushTakenAt>>
    /\ UNCHANGED <<now, pending, heartbeats, startupEventSent, gaveUp>>

\* One of the promises has settled.
SomeSettled(i) == \E a \in awaits[i] : a \notin pending
AllSettled(i) == \A a \in awaits[i] : a \notin pending

\* waitUntilSent resolves: with the promises, or with its timeout.
WaitOver(i, timedOut) ==
    /\ phase[i] = "waiting"
    /\ timedOut <=> ~AllSettled(i)
    /\ gaveUp' = IF timedOut THEN gaveUp \cup {i} ELSE gaveUp
    /\ FlushIfDue(i, statistics)
    /\ UNCHANGED <<now, pending, heartbeats, startupEventSent, returned>>

\* The moment of the flush is taken before it is awaited.
FlushesWhenTried(answer) == TRUE
\* Only a flush that does not throw counts.
Flushes(answer) == answer # "throws"

\* An answer, and the invocation that awaits it.  A startup event that fails is
\* logged; a flush that fails replaces what the handler returned, and the next
\* invocation tries again.
AnswerInvocation(r, answer) ==
    /\ Active # {}
    /\ Answer(r, answer)
    /\ phase' = [i \in Invocations |->
          CASE phase[i] = "starting" /\ r.name \in awaits[i] -> "running"
            [] phase[i] = "flushing" /\ r.name \in awaits[i] -> IF answer = "throws" THEN "failed" ELSE "ended"
            [] OTHER -> phase[i]]
    /\ lastFlushStatsAt' = IF r.kind = "flush" /\ Flushes(answer) THEN now ELSE lastFlushStatsAt
    /\ flushTakenAt' = IF r.kind = "flush" /\ answer # "throws" THEN r.at ELSE flushTakenAt
    /\ UNCHANGED <<heartbeats, awaits, startupEventSent, returned, gaveUp>>

\* The clock of a frozen instance goes on; nothing else does.
TickFrozen ==
    /\ Active = {}
    /\ now < MaxTime
    /\ now' = now + 1
    /\ UNCHANGED <<statistics, inflight, wrappers, pending, heartbeats, history>>

\* An invocation, or the clock, of a serverless process.
InvocationNext ==
    \/ \E i \in Invocations : Begin(i)
    \/ \E i \in Invocations, bypassed \in BOOLEAN : Return(i, bypassed)
    \/ \E i \in Invocations, timedOut \in BOOLEAN : WaitOver(i, timedOut)
    \/ \E r \in inflight, answer \in Answers : AnswerInvocation(r, answer)
    \/ In("running") # {} /\ Observe /\ UNCHANGED invocationVars
    \/ Active # {} /\ Tick /\ UNCHANGED invocationVars
    \/ TickFrozen /\ UNCHANGED invocationVars

Next ==
    /\ UNCHANGED serverless
    /\ \/ ~serverless /\ AgentNext /\ UNCHANGED invocationVars
       \/ serverless /\ InvocationNext

Spec == SInit /\ [][Next]_allVars

-----------------------------------------------------------------------------
(* What is checked.                                                        *)

\* The types; a flush is never dated later than the clock (Lambda.ts takes the
\* time again after the flush was answered).
InvocationsTypeOK ==
    /\ TypeOK
    /\ phase \in [Invocations -> Phases]
    /\ lastFlushStatsAt \in 0 .. now \cup {Never}

\* docs/lambda.md:94: unless the wait timed out, the attack events sent before
\* the handler returned have been answered when the process may be frozen.
AttacksAwaited ==
    \A i \in (In("flushing") \cup In("ended") \cup In("failed")) \ gaveUp :
        \A r \in inflight : r.name \notin returned[i]

\* docs/lambda.md:92: when an invocation ends, what is still held has been
\* observed since a flush that is not older than the interval and the time that
\* flush took; only a flush that failed leaves it to the next invocation.
EndsFlushed ==
    [][\A i \in Invocations :
          phase[i] # "ended" /\ phase'[i] = "ended" =>
              flushTakenAt' # Never /\ now - flushTakenAt' <= FlushEvery + Timeout]_allVars
=============================================================================
