----------------------------- MODULE ConfigSync -----------------------------
(***************************************************************************)
(* How an agent that is not serverless follows the configuration of its    *)
(* app in the Aikido cloud: library/agent/Agent.ts (onStart, heartbeats,   *)
(* updateServiceConfig, updateBlockedLists, startPollingForConfigChanges)  *)
(* and library/agent/realtime (pollForChanges, listenForConfigUpdates).    *)
(*                                                                         *)
(* A configuration is known by its version, the order of configUpdatedAt;  *)
(* it stands for the block flag, the endpoints, users, domains and         *)
(* features of one response, which updateServiceConfig applies together.   *)
(* The IP and user agent lists are fetched on their own and have the       *)
(* version they were read at.                                              *)
(*                                                                         *)
(* Node.js runs one callback at a time, so a step is one callback; between *)
(* a request and its response anything else may run.  A request slot holds *)
(* Idle, Asked, or the version the cloud has answered with.                *)
(***************************************************************************)
EXTENDS Integers, Sequences, SequencesExt

CONSTANTS
    MaxVersion,     \* bound of the versions published
    MaxFailures,    \* bound of the requests that fail
    MaxFetches      \* bound of the list fetches in flight

ASSUME ConfigSyncAssumption ==
    MaxVersion \in Nat \ {0} /\ MaxFailures \in Nat /\ MaxFetches \in Nat

VARIABLES
    published,      \* cloud: the latest version, as the realtime service knows it
    served,         \* cloud: the version the API answers with, which may lag
    phase,          \* of the agent's start
    config,         \* the version the service config holds, 0: none yet
    lastUpdatedAt,  \* of the service config
    lists,          \* the version of the blocked lists in force, 0: none yet
    startup,        \* slot of the "started" report
    heartbeat,      \* slot of the heartbeat, never Asked
    pollStage,      \* "idle", "version" or "config": what check() awaits
    poll,           \* slot of getConfig in check(), never Asked
    pollSeen,       \* currentLastUpdatedAt of pollForChanges
    stream,         \* "open", "closed", or "off" for good: the SSE connection
    events,         \* versions announced on the stream and not yet read
    throttled,      \* less than 9 s since the last fetch started by an event
    sse,            \* slot of getConfig after an event
    sseSeen,        \* currentLastUpdatedAt of listenForConfigUpdates
    listFetches,    \* getLists in flight, oldest first: 0 or the version answered
    tokenIsInvalid, \* a report was answered with a 401: none is sent any more
    failures,       \* requests that failed so far
    listsLost       \* history: a list fetch failed, or was overtaken by a later one

cloud    == <<published, served>>
applied  == <<config, lastUpdatedAt>>
starting == <<phase, startup>>
polling  == <<pollStage, poll, pollSeen>>
pushing  == <<stream, events, throttled, sse, sseSeen>>
fetching == <<lists, listFetches, listsLost>>

reports  == <<tokenIsInvalid, failures>>

vars == <<cloud, applied, starting, heartbeat, polling, pushing, fetching, reports>>

Idle  == -1
Asked == 0
Version == 1 .. MaxVersion
Slot == {Idle, Asked} \cup Version

Answered(slot) == slot \in Version

-----------------------------------------------------------------------------
(* The cloud.                                                              *)

\* The app's configuration is changed.  Connected agents are told.
Publish ==
    /\ published < MaxVersion
    /\ published' = published + 1
    /\ events' = IF stream = "open" THEN Append(events, published + 1) ELSE events
    /\ UNCHANGED <<served, applied, starting, heartbeat, polling, fetching, reports,
                   stream, throttled, sse, sseSeen>>

\* The API learns of the latest version.
Replicate ==
    /\ served < published
    /\ served' = published
    /\ UNCHANGED <<published, applied, starting, heartbeat, polling, pushing,
                   fetching, reports>>

\* The API answers a request with what it has now; the response travels.
AnswerStartup ==
    /\ startup = Asked
    /\ startup' = served
    /\ UNCHANGED <<cloud, applied, phase, heartbeat, polling, pushing,
                   fetching, reports>>

AnswerSse ==
    /\ sse = Asked
    /\ sse' = served
    /\ UNCHANGED <<cloud, applied, starting, heartbeat, polling, stream, events,
                   throttled, sseSeen, fetching, reports>>

AnswerLists(i) ==
    /\ listFetches[i] = Asked
    /\ listFetches' = [listFetches EXCEPT ![i] = served]
    /\ UNCHANGED <<cloud, applied, starting, heartbeat, polling, pushing, lists,
                   listsLost, reports>>

Fails ==
    /\ failures < MaxFailures
    /\ failures' = failures + 1

\* A report that fails may have been answered with a 401, which marks the token
\* for good; another answer, or none, leaves it as it is.
ReportFails == Fails /\ tokenIsInvalid' \in {tokenIsInvalid, TRUE}

-----------------------------------------------------------------------------
(* Agent.ts: applying a response and fetching the lists.                   *)

\* updateServiceConfig: what is applied is not compared with what is there.
\* Were it applied only when newer, an agent whose start failed would keep
\* its own start time as lastUpdatedAt and refuse what the cloud has.
UpdateIfNewer(v) ==
    /\ config' = IF v > lastUpdatedAt THEN v ELSE config
    /\ lastUpdatedAt' = IF v > lastUpdatedAt THEN v ELSE lastUpdatedAt

\* Stamping the config with the time of its arrival.
UpdateStampedNow(v) ==
    /\ config' = v
    /\ lastUpdatedAt' = published

updateServiceConfig(v) ==
    /\ config' = v
    /\ lastUpdatedAt' = v

\* updateBlockedLists up to its await.
updateBlockedLists == listFetches' = Append(listFetches, Asked)

NoListsOnUpdate(v) ==
    /\ updateServiceConfig(v)
    /\ UNCHANGED listFetches

\* The callback both channels are given.
onConfigUpdate(v) ==
    /\ updateServiceConfig(v)
    /\ updateBlockedLists

MayFetch == Len(listFetches) < MaxFetches

-----------------------------------------------------------------------------
(* Starting.  A "started" report that is refused, rate limited or times    *)
(* out resolves without success and the start goes on; any other network   *)
(* error rejects it.                                                       *)

Start ==
    /\ phase = "created"
    /\ phase' = "reporting"
    /\ startup' = Asked
    /\ UNCHANGED <<cloud, applied, heartbeat, polling, pushing, fetching, reports>>

StartReported ==
    /\ Answered(startup)
    /\ updateServiceConfig(startup)
    /\ updateBlockedLists
    /\ startup' = Idle
    /\ phase' = "fetching"
    /\ UNCHANGED <<cloud, heartbeat, polling, pushing, lists, listsLost, reports>>

StartRefused ==
    /\ startup # Idle
    /\ ReportFails
    /\ updateBlockedLists
    /\ startup' = Idle
    /\ phase' = "fetching"
    /\ UNCHANGED <<cloud, applied, heartbeat, polling, pushing, lists, listsLost>>

StartFailed ==
    /\ startup # Idle
    /\ Fails
    /\ startup' = Idle
    /\ phase' = "failed"
    /\ UNCHANGED <<cloud, applied, heartbeat, polling, pushing, fetching, tokenIsInvalid>>

\* onStart().then: the first list fetch has ended, in either way; heartbeats
\* begin and both channels start from lastUpdatedAt.  The stream is used when
\* realtime updates are enabled for the app or by a feature flag.
Running ==
    /\ phase' = "running"
    /\ pollSeen' = lastUpdatedAt
    /\ sseSeen' = lastUpdatedAt
    /\ stream' \in {"closed", "off"}
    /\ UNCHANGED <<startup, pollStage, poll, events, throttled, sse>>

GoesOn ==
    IF phase = "fetching" THEN Running ELSE UNCHANGED <<starting, polling, pushing>>

\* updateBlockedLists after its await.
ListsArrive(i) ==
    /\ Answered(listFetches[i])
    /\ lists' = listFetches[i]
    /\ listFetches' = RemoveAt(listFetches, i)
    /\ listsLost' = (listsLost \/ listFetches[i] < lists)
    /\ GoesOn
    /\ UNCHANGED <<cloud, applied, heartbeat, reports>>

ListsFail(i) ==
    /\ Fails
    /\ listFetches' = RemoveAt(listFetches, i)
    /\ listsLost' = TRUE
    /\ GoesOn
    /\ UNCHANGED <<cloud, applied, heartbeat, lists, tokenIsInvalid>>

-----------------------------------------------------------------------------
(* Heartbeats.  A response is applied whenever it arrives.  Nothing else    *)
(* depends on a heartbeat being under way, so it is taken to be sent at    *)
(* the moment the cloud answers it; only the response travels.  Once the   *)
(* token is known to be invalid, each report is answered by                *)
(* ReportingAPIThatValidatesToken itself with an error, and none is sent.  *)

HeartbeatSent ==
    /\ phase = "running"
    /\ heartbeat = Idle
    /\ ~tokenIsInvalid
    /\ heartbeat' = served
    /\ UNCHANGED <<cloud, applied, starting, polling, pushing, fetching, reports>>

HeartbeatArrives ==
    /\ Answered(heartbeat)
    /\ updateServiceConfig(heartbeat)
    /\ heartbeat' = Idle
    /\ UNCHANGED <<cloud, starting, polling, pushing, fetching, reports>>

HeartbeatFails ==
    /\ heartbeat # Idle
    /\ ReportFails
    /\ heartbeat' = Idle
    /\ UNCHANGED <<cloud, applied, starting, polling, pushing, fetching>>

\* Of the other reports, attacks above all, all that matters here is that the
\* cloud may answer one with a 401.
EventRefused ==
    /\ phase # "created"
    /\ ~tokenIsInvalid
    /\ Fails
    /\ tokenIsInvalid' = TRUE
    /\ UNCHANGED <<cloud, applied, starting, heartbeat, polling, pushing, fetching>>

-----------------------------------------------------------------------------
(* pollForChanges: every minute check() asks the realtime service for the  *)
(* latest version and, if it is news to this channel, the API for the      *)
(* config.  Both requests time out after 3 s, so one check ends before the *)
(* next one begins.  As with heartbeats, getConfig is taken to be sent at  *)
(* the moment it is answered.                                              *)

PollBegins ==
    /\ phase = "running"
    /\ pollStage = "idle"
    /\ pollStage' = "version"
    /\ UNCHANGED <<cloud, applied, starting, heartbeat, poll, pollSeen, pushing,
                   fetching, reports>>

\* Comparing with the service config, which heartbeats update too.
NewerThanConfig(v) == v > lastUpdatedAt

NewsToPoll(v) == v > pollSeen

PollLearnsVersion ==
    /\ pollStage = "version"
    /\ IF NewsToPoll(published)
       THEN pollStage' = "config" /\ poll' = served
       ELSE pollStage' = "idle" /\ UNCHANGED poll
    /\ UNCHANGED <<cloud, applied, starting, heartbeat, pollSeen, pushing, fetching, reports>>

PollArrives ==
    /\ Answered(poll)
    /\ MayFetch
    /\ pollSeen' = poll
    /\ onConfigUpdate(poll)
    /\ poll' = Idle
    /\ pollStage' = "idle"
    /\ UNCHANGED <<cloud, starting, heartbeat, pushing, lists, listsLost, reports>>

PollFails ==
    /\ pollStage # "idle"
    /\ Fails
    /\ poll' = Idle
    /\ pollStage' = "idle"
    /\ UNCHANGED <<cloud, applied, starting, heartbeat, pollSeen, pushing, fetching,
                   tokenIsInvalid>>

-----------------------------------------------------------------------------
(* listenForConfigUpdates: an event that announces a version this channel  *)
(* has not seen makes it fetch the config, unless it comes within 9 s of   *)
(* the last fetch.  getConfig times out after 3 s.                         *)

StreamOpens ==
    /\ stream = "closed"
    /\ stream' = "open"
    /\ UNCHANGED <<cloud, applied, starting, heartbeat, polling, events, throttled, sse,
                   sseSeen, fetching, reports>>

\* A 401 or 403 ends the loop for good.
StreamRejected ==
    /\ stream = "closed"
    /\ stream' = "off"
    /\ UNCHANGED <<cloud, applied, starting, heartbeat, polling, events, throttled, sse,
                   sseSeen, fetching, reports>>

\* The connection breaks, and what it had not delivered is gone.
StreamEnds ==
    /\ stream = "open"
    /\ stream' = "closed"
    /\ events' = << >>
    /\ UNCHANGED <<cloud, applied, starting, heartbeat, polling, throttled, sse, sseSeen,
                   fetching, reports>>

EventFetches ==
    /\ events # << >>
    /\ Head(events) > sseSeen
    /\ ~throttled
    /\ events' = Tail(events)
    /\ throttled' = TRUE
    /\ sse' = Asked
    /\ UNCHANGED <<cloud, applied, starting, heartbeat, polling, stream, sseSeen,
                   fetching, reports>>

EventIgnored ==
    /\ events # << >>
    /\ Head(events) <= sseSeen \/ throttled
    /\ events' = Tail(events)
    /\ UNCHANGED <<cloud, applied, starting, heartbeat, polling, stream, throttled, sse,
                   sseSeen, fetching, reports>>

\* Nine seconds after the fetch began, it has ended.
ThrottleEnds ==
    /\ throttled
    /\ sse = Idle
    /\ throttled' = FALSE
    /\ UNCHANGED <<cloud, applied, starting, heartbeat, polling, stream, events, sse,
                   sseSeen, fetching, reports>>

\* The two channels keep their own currentLastUpdatedAt.
SharedSeen(v) == pollSeen' = v /\ sseSeen' = v
SeenByStream(v) == sseSeen' = v /\ UNCHANGED pollSeen

SseArrives ==
    /\ Answered(sse)
    /\ MayFetch
    /\ SeenByStream(sse)
    /\ onConfigUpdate(sse)
    /\ sse' = Idle
    /\ UNCHANGED <<cloud, starting, heartbeat, pollStage, poll, stream, events, throttled,
                   lists, listsLost, reports>>

SseFails ==
    /\ sse # Idle
    /\ Fails
    /\ sse' = Idle
    /\ UNCHANGED <<cloud, applied, starting, heartbeat, polling, stream, events, throttled,
                   sseSeen, fetching, tokenIsInvalid>>

-----------------------------------------------------------------------------
\* An agent is created when version 1 is current; its service config is empty
\* and stamped with the time of its creation (Agent.ts:60, Date.now()).
Init ==
    /\ published = 1 /\ served = 1
    /\ phase = "created" /\ startup = Idle
    /\ config = 0 /\ lastUpdatedAt = 1
    /\ heartbeat = Idle
    /\ pollStage = "idle" /\ poll = Idle /\ pollSeen = 0
    /\ stream = "off" /\ events = << >> /\ throttled = FALSE
    /\ sse = Idle /\ sseSeen = 0
    /\ lists = 0 /\ listFetches = << >> /\ listsLost = FALSE
    /\ tokenIsInvalid = FALSE /\ failures = 0

Cloud == Publish \/ Replicate

Answers ==
    \/ AnswerStartup \/ AnswerSse
    \/ \E i \in DOMAIN listFetches : AnswerLists(i)

Starts == Start \/ StartReported \/ StartRefused \/ StartFailed

Lists == \E i \in DOMAIN listFetches : ListsArrive(i) \/ ListsFail(i)

Heartbeats == HeartbeatSent \/ HeartbeatArrives \/ HeartbeatFails \/ EventRefused

Polls == PollBegins \/ PollLearnsVersion \/ PollArrives \/ PollFails

Pushes ==
    \/ StreamOpens \/ StreamRejected \/ StreamEnds
    \/ EventFetches \/ EventIgnored \/ ThrottleEnds \/ SseArrives \/ SseFails

Next == Cloud \/ Answers \/ Starts \/ Lists \/ Heartbeats \/ Polls \/ Pushes

\* Each channel goes on, one step after the other: timers fire again and again,
\* and a request is answered, fails or times out.  Failing is not fair, so that
\* requests succeed once MaxFailures of them failed.  A heartbeat is enabled, and
\* so must come, only as long as no report was answered with a 401.  Nothing is
\* assumed of the stream.
Fairness ==
    /\ WF_vars(Replicate)
    /\ WF_vars(Start \/ AnswerStartup \/ StartReported)
    /\ WF_vars(HeartbeatSent \/ HeartbeatArrives)
    /\ WF_vars(PollBegins \/ PollLearnsVersion \/ PollArrives)
    /\ WF_vars(AnswerSse \/ SseArrives)
    /\ WF_vars(\E i \in DOMAIN listFetches : AnswerLists(i))
    /\ WF_vars(\E i \in DOMAIN listFetches : ListsArrive(i))

Spec == Init /\ [][Next]_vars

FairSpec == Spec /\ Fairness

-----------------------------------------------------------------------------
(* What is checked.                                                        *)

VersionsOK ==
    /\ published \in Version /\ served \in 1 .. published
    /\ config \in 0 .. served /\ lastUpdatedAt \in 1 .. served
    /\ lists \in 0 .. served /\ listFetches \in Seq(0 .. served)
    /\ startup \in {Idle} \cup 0 .. served /\ heartbeat \in {Idle} \cup 0 .. served
    /\ poll \in {Idle} \cup 0 .. served /\ pollSeen \in 0 .. served
    /\ sse \in {Idle} \cup 0 .. served /\ sseSeen \in 0 .. served
    /\ events \in Seq(Version)
    /\ failures \in 0 .. MaxFailures

StagesOK ==
    /\ phase \in {"created", "reporting", "fetching", "running", "failed"}
    /\ pollStage \in {"idle", "version", "config"}
    /\ stream \in {"off", "open", "closed"}
    /\ throttled \in BOOLEAN /\ listsLost \in BOOLEAN /\ tokenIsInvalid \in BOOLEAN

\* The variables have their types, and no part of the agent is ahead of the
\* cloud: what it applied, and what its channels have seen, was served.
TypeOK == VersionsOK /\ StagesOK

\* The lists are only fetched after a channel saw a new config, never by a
\* heartbeat.  Unless a list fetch failed or was overtaken, they are as recent
\* as all that the channels have seen, or a fetch that will make them so is in
\* flight (Agent.ts:466-471).
ListsFollowConfig ==
    phase = "running" /\ ~listsLost =>
        \A seen \in {pollSeen, sseSeen} :
            \/ lists >= seen
            \/ \E i \in DOMAIN listFetches :
                   listFetches[i] = Asked \/ listFetches[i] >= seen

\* What a channel has seen never goes back, whatever the order in which the
\* responses of the channels arrive (pollForChanges.ts:51,
\* listenForConfigUpdates.ts:77).
SeenNeverGoesBack == [][pollSeen' >= pollSeen /\ sseSeen' >= sseSeen]_vars

\* Once the app's configuration is left alone, polling comes to see its latest
\* version, and the agent ends up with it and keeps it, whatever stale response
\* overwrote a newer config on the way.  What puts it right is the next
\* heartbeat, which always brings a config, while a channel fetches none that it
\* has seen.  So only polling is left to an agent one of whose reports was
\* answered with a 401 (ReportingAPIThatValidatesToken.ts:14): what was overtaken,
\* or what a refused start did not get, then stays away until the next change.
\* An agent whose "started" report was rejected gets nothing (Agent.ts:585-592).
ConfigConverges ==
    <>[](\/ phase = "failed"
         \/ pollSeen = published /\ (tokenIsInvalid \/ config = published))

\* The lists end up current too, if no list fetch failed or was overtaken:
\* nothing else repeats one (Agent.ts:430-459).
ListsConverge ==
    <>[](phase = "failed" \/ listsLost \/ lists = published)

=============================================================================
