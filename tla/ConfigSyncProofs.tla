-------------------------- MODULE ConfigSyncProofs --------------------------
(***************************************************************************)
(* Proofs about ConfigSync for any number of versions, failures and list   *)
(* fetches in flight: the types, that what a channel has seen never goes   *)
(* back, and that the lists follow what the channels have seen.            *)
(*                                                                         *)
(* A step is taken apart into what it does to the phase and the channels   *)
(* (Order) and what it does to the lists (Following).                      *)
(***************************************************************************)
EXTENDS ConfigSync, TLAPS, SequenceTheorems

\* Removing one element of a sequence leaves all the others in it.
LEMMA RemoveAtFacts ==
    ASSUME NEW S, NEW s \in Seq(S), NEW i \in DOMAIN s
    PROVE  /\ RemoveAt(s, i) \in Seq(S)
           /\ \A j \in DOMAIN s : j # i =>
                 \E m \in DOMAIN RemoveAt(s, i) : RemoveAt(s, i)[m] = s[j]
<1> DEFINE front == SubSeq(s, 1, i - 1)
           back  == SubSeq(s, i + 1, Len(s))
<1>1. i \in 1 .. Len(s) /\ Len(s) \in Nat
  OBVIOUS
<1>2. /\ front \in Seq(S) /\ Len(front) = i - 1
      /\ \A m \in 1 .. i - 1 : front[m] = s[m]
  <2>1. \A m \in 1 .. i - 1 : s[m] \in S
    BY <1>1, ElementOfSeq
  <2> QED
    BY <1>1, <2>1, SubSeqProperties
<1>3. /\ back \in Seq(S) /\ Len(back) = Len(s) - i
      /\ \A m \in 1 .. Len(s) - i : back[m] = s[i + m]
  <2>1. \A m \in i + 1 .. Len(s) : s[m] \in S
    BY <1>1, ElementOfSeq
  <2> QED
    BY <1>1, <2>1, SubSeqProperties
<1> HIDE DEF front, back
<1>4. /\ front \o back \in Seq(S) /\ Len(front \o back) = Len(s) - 1
      /\ \A m \in 1 .. Len(s) - 1 :
            (front \o back)[m] = IF m <= i - 1 THEN front[m] ELSE back[m - (i - 1)]
  <2>1. /\ front \o back \in Seq(S)
        /\ Len(front \o back) = Len(front) + Len(back)
        /\ \A m \in 1 .. Len(front) + Len(back) :
              (front \o back)[m] =
                  IF m <= Len(front) THEN front[m] ELSE back[m - Len(front)]
    <3>1. front \in Seq(S) /\ back \in Seq(S)
      BY <1>2, <1>3
    <3> QED
      BY <3>1, ConcatProperties
  <2>2. Len(front) = i - 1 /\ Len(front) + Len(back) = Len(s) - 1
    BY <1>1, <1>2, <1>3
  <2> QED
    BY <2>1, <2>2
<1>5. DOMAIN (front \o back) = 1 .. Len(s) - 1
  BY <1>4
<1>6. ASSUME NEW j \in DOMAIN s, j # i
      PROVE  \E m \in DOMAIN (front \o back) : (front \o back)[m] = s[j]
  <2>1. CASE j < i
    <3>1. j \in 1 .. Len(s) - 1 /\ j \in 1 .. i - 1 /\ j <= i - 1
      BY <1>1, <2>1
    <3>2. (front \o back)[j] = front[j] /\ front[j] = s[j]
      BY <1>2, <1>4, <3>1
    <3> QED
      BY <1>5, <3>1, <3>2
  <2>2. CASE j > i
    <3>1. j - 1 \in 1 .. Len(s) - 1 /\ (front \o back)[j - 1] = back[j - i]
      <4>1. j - 1 \in 1 .. Len(s) - 1 /\ ~(j - 1 <= i - 1) /\ (j - 1) - (i - 1) = j - i
        BY <1>1, <2>2
      <4> QED
        BY <1>4, <4>1
    <3>2. back[j - i] = s[j]
      BY <1>1, <1>3, <2>2
    <3> QED
      BY <1>5, <3>1, <3>2
  <2> QED
    BY <1>1, <1>6, <2>1, <2>2
<1> QED
  BY <1>4, <1>6 DEF RemoveAt, front, back

-----------------------------------------------------------------------------
(* Types.                                                                  *)

LEMMA InitVersionsOK == Init => VersionsOK
BY ConfigSyncAssumption
   DEF Init, VersionsOK, Version, Idle, Asked

LEMMA AnsweredListsTyped ==
    ASSUME VersionsOK, NEW i \in DOMAIN listFetches, AnswerLists(i)
    PROVE  listFetches' \in Seq(0 .. served)
<1>1. listFetches \in Seq(0 .. served) /\ served \in 0 .. served
  BY ConfigSyncAssumption DEF VersionsOK, Version
<1>2. [listFetches EXCEPT ![i] = served] \in Seq(0 .. served)
  BY <1>1, ExceptSeq
<1> QED
  BY <1>2 DEF AnswerLists

LEMMA NextVersionsOK == VersionsOK /\ [Next]_vars => VersionsOK'
<1> SUFFICES ASSUME VersionsOK, [Next]_vars
             PROVE  VersionsOK'
  OBVIOUS
<1> USE ConfigSyncAssumption DEF VersionsOK, Version, Idle, Asked, cloud, applied, starting,
        polling, pushing, fetching, reports
<1>1. CASE Publish
  <2>1. CASE stream = "open"
    BY <1>1, <2>1 DEF Publish
  <2>2. CASE stream # "open"
    BY <1>1, <2>2 DEF Publish
  <2> QED
    BY <2>1, <2>2
<1>2. CASE Replicate
  BY <1>2 DEF Replicate
<1>3. CASE Answers
  <2>1. CASE AnswerStartup
    BY <2>1 DEF AnswerStartup
  <2>2. CASE AnswerSse
    BY <2>2 DEF AnswerSse
  <2>3. ASSUME NEW i \in DOMAIN listFetches, AnswerLists(i)
        PROVE  VersionsOK'
    <3>1. listFetches' \in Seq(0 .. served)
      BY <2>3, AnsweredListsTyped
    <3>2. UNCHANGED <<published, served, config, lastUpdatedAt, lists, startup, heartbeat,
                      poll, pollSeen, sse, sseSeen, events, failures>>
      BY <2>3 DEF AnswerLists
    <3> QED
      BY <3>1, <3>2
  <2> QED
    BY <1>3, <2>1, <2>2, <2>3 DEF Answers
<1>4. CASE Starts
  <2>1. CASE Start
    BY <2>1 DEF Start
  <2>2. CASE StartReported
    BY <2>2 DEF StartReported, Answered, updateServiceConfig, updateBlockedLists
  <2>3. CASE StartRefused
    BY <2>3 DEF StartRefused, ReportFails, Fails, updateBlockedLists
  <2>4. CASE StartFailed
    BY <2>4 DEF StartFailed, Fails
  <2> QED
    BY <1>4, <2>1, <2>2, <2>3, <2>4 DEF Starts
<1>5. CASE Lists
  <2>1. PICK i \in DOMAIN listFetches : ListsArrive(i) \/ ListsFail(i)
    BY <1>5 DEF Lists
  <2>2. RemoveAt(listFetches, i) \in Seq(0 .. served)
    BY RemoveAtFacts
  <2>3. ASSUME GoesOn
        PROVE  /\ startup' = startup /\ poll' = poll /\ sse' = sse /\ events' = events
               /\ pollSeen' \in 0 .. served /\ sseSeen' \in 0 .. served
    <3>1. CASE phase = "fetching"
      BY <2>3, <3>1 DEF GoesOn, Running
    <3>2. CASE phase # "fetching"
      BY <2>3, <3>2 DEF GoesOn
    <3> QED
      BY <3>1, <3>2
  <2>4. CASE ListsArrive(i)
    BY <2>2, <2>3, <2>4, SMTT(30) DEF ListsArrive, Answered
  <2>5. CASE ListsFail(i)
    BY <2>2, <2>3, <2>5, SMTT(30) DEF ListsFail, Fails
  <2> QED
    BY <2>1, <2>4, <2>5
<1>6. CASE Heartbeats
  <2>1. CASE HeartbeatSent
    BY <2>1 DEF HeartbeatSent
  <2>2. CASE HeartbeatArrives
    BY <2>2 DEF HeartbeatArrives, Answered, updateServiceConfig
  <2>3. CASE HeartbeatFails
    BY <2>3 DEF HeartbeatFails, ReportFails, Fails
  <2>4. CASE EventRefused
    BY <2>4 DEF EventRefused, Fails
  <2> QED
    BY <1>6, <2>1, <2>2, <2>3, <2>4 DEF Heartbeats
<1>7. CASE Polls
  <2>1. CASE PollBegins
    BY <2>1 DEF PollBegins
  <2>2. CASE PollLearnsVersion
    BY <2>2 DEF PollLearnsVersion
  <2>3. CASE PollArrives
    BY <2>3 DEF PollArrives, Answered, onConfigUpdate, updateServiceConfig, updateBlockedLists
  <2>4. CASE PollFails
    BY <2>4 DEF PollFails, Fails
  <2> QED
    BY <1>7, <2>1, <2>2, <2>3, <2>4 DEF Polls
<1>8. CASE Pushes
  <2>1. CASE StreamOpens \/ StreamRejected \/ StreamEnds
    <3>1. CASE StreamOpens
      BY <3>1 DEF StreamOpens
    <3>2. CASE StreamRejected
      BY <3>2 DEF StreamRejected
    <3>3. CASE StreamEnds
      BY <3>3 DEF StreamEnds
    <3> QED
      BY <2>1, <3>1, <3>2, <3>3
  <2>2. CASE EventFetches \/ EventIgnored
    <3>1. Tail(events) \in Seq(Version)
      <4>1. events # << >>
        BY <2>2 DEF EventFetches, EventIgnored
      <4> QED
        BY <4>1, HeadTailProperties
    <3>2. CASE EventFetches
      BY <3>1, <3>2 DEF EventFetches
    <3>3. CASE EventIgnored
      BY <3>1, <3>3 DEF EventIgnored
    <3> QED
      BY <2>2, <3>2, <3>3
  <2>3. CASE ThrottleEnds
    BY <2>3 DEF ThrottleEnds
  <2>4. CASE SseArrives
    BY <2>4 DEF SseArrives, Answered, SeenByStream, onConfigUpdate, updateServiceConfig,
                updateBlockedLists
  <2>5. CASE SseFails
    BY <2>5 DEF SseFails, Fails
  <2> QED
    BY <1>8, <2>1, <2>2, <2>3, <2>4, <2>5 DEF Pushes
<1>9. CASE UNCHANGED vars
  BY <1>9 DEF vars
<1> QED
  BY <1>1, <1>2, <1>3, <1>4, <1>5, <1>6, <1>7, <1>8, <1>9 DEF Next, Cloud

LEMMA NextStagesOK == StagesOK /\ [Next]_vars => StagesOK'
<1> SUFFICES ASSUME StagesOK, [Next]_vars
             PROVE  StagesOK'
  OBVIOUS
<1> USE DEF StagesOK, ReportFails, cloud, applied, starting, polling, pushing, fetching,
        reports
<1>1. CASE Cloud \/ Answers
  BY <1>1 DEF Cloud, Publish, Replicate, Answers, AnswerStartup, AnswerSse, AnswerLists
<1>2. CASE Starts
  BY <1>2 DEF Starts, Start, StartReported, StartRefused, StartFailed
<1>3. CASE Lists
  <2>1. PICK i \in DOMAIN listFetches : ListsArrive(i) \/ ListsFail(i)
    BY <1>3 DEF Lists
  <2>2. GoesOn => /\ phase' = phase \/ phase' = "running"
                  /\ stream' = stream \/ stream' \in {"closed", "off"}
                  /\ pollStage' = pollStage /\ throttled' = throttled
    BY DEF GoesOn, Running
  <2>3. GoesOn /\ listsLost' \in BOOLEAN /\ tokenIsInvalid' = tokenIsInvalid
    BY <2>1 DEF ListsArrive, ListsFail
  <2> QED
    BY <2>2, <2>3
<1>4. CASE Heartbeats
  BY <1>4 DEF Heartbeats, HeartbeatSent, HeartbeatArrives, HeartbeatFails, EventRefused
<1>5. CASE Polls
  BY <1>5 DEF Polls, PollBegins, PollLearnsVersion, PollArrives, PollFails
<1>6. CASE Pushes
  <2>1. CASE StreamOpens \/ StreamRejected \/ StreamEnds
    BY <2>1 DEF StreamOpens, StreamRejected, StreamEnds
  <2>2. CASE EventFetches \/ EventIgnored \/ ThrottleEnds
    BY <2>2 DEF EventFetches, EventIgnored, ThrottleEnds
  <2>3. CASE SseArrives \/ SseFails
    BY <2>3 DEF SseArrives, SseFails
  <2> QED
    BY <1>6, <2>1, <2>2, <2>3 DEF Pushes
<1>7. CASE UNCHANGED vars
  BY <1>7 DEF vars
<1> QED
  BY <1>1, <1>2, <1>3, <1>4, <1>5, <1>6, <1>7 DEF Next

LEMMA InitTypeOK == Init => TypeOK
<1>1. Init => StagesOK
  BY DEF Init, StagesOK
<1> QED
  BY <1>1, InitVersionsOK DEF TypeOK

LEMMA NextTypeOK == TypeOK /\ [Next]_vars => TypeOK'
BY NextVersionsOK, NextStagesOK DEF TypeOK

\* The agent is never ahead of what the cloud has served, in any of the
\* places it keeps a version in (Agent.ts:307-323, pollForChanges.ts:44-57,
\* listenForConfigUpdates.ts:60-80).
THEOREM TypeCorrect == Spec => []TypeOK
<1>1. Init => TypeOK
  BY InitTypeOK
<1>2. TypeOK /\ [Next]_vars => TypeOK'
  BY NextTypeOK
<1> QED
  BY <1>1, <1>2, PTL DEF Spec

-----------------------------------------------------------------------------
(* What the channels have seen.                                            *)

\* The channels rest until the agent runs, and a response under way in one of
\* them was answered after all that the channel has seen.
Ordered ==
    /\ startup # Idle => phase = "reporting"
    /\ phase # "running" =>
          /\ heartbeat = Idle /\ poll = Idle /\ pollStage = "idle" /\ sse = Idle
          /\ stream = "off" /\ events = << >>
          /\ pollSeen = 0 /\ sseSeen = 0
    /\ Answered(poll) => poll >= pollSeen
    /\ Answered(sse) => sse >= sseSeen

LEMMA InitOrdered == Init => Ordered
BY DEF Init, Ordered, Answered, Version, Idle, Asked

LEMMA NextOrdered == VersionsOK /\ Ordered /\ [Next]_vars => Ordered'
<1> SUFFICES ASSUME VersionsOK, Ordered, [Next]_vars
             PROVE  Ordered'
  OBVIOUS
<1> USE ConfigSyncAssumption DEF VersionsOK, Ordered, Version, Idle, Asked, Answered,
        cloud, applied, starting, polling, pushing, fetching, reports
<1>1. CASE Publish
  BY <1>1 DEF Publish
<1>2. CASE Replicate
  BY <1>2 DEF Replicate
<1>3. CASE Answers
  <2>1. CASE AnswerStartup
    BY <2>1 DEF AnswerStartup
  <2>2. CASE AnswerSse
    BY <2>2 DEF AnswerSse
  <2>3. ASSUME NEW i \in DOMAIN listFetches, AnswerLists(i)
        PROVE  Ordered'
    BY <2>3 DEF AnswerLists
  <2> QED
    BY <1>3, <2>1, <2>2, <2>3 DEF Answers
<1>4. CASE Starts
  <2>1. CASE Start
    BY <2>1 DEF Start
  <2>2. CASE StartReported
    BY <2>2 DEF StartReported
  <2>3. CASE StartRefused
    BY <2>3 DEF StartRefused
  <2>4. CASE StartFailed
    BY <2>4 DEF StartFailed
  <2> QED
    BY <1>4, <2>1, <2>2, <2>3, <2>4 DEF Starts
<1>5. CASE Lists
  <2>1. GoesOn /\ heartbeat' = heartbeat
    BY <1>5 DEF Lists, ListsArrive, ListsFail
  <2> QED
    BY <2>1 DEF GoesOn, Running
<1>6. CASE Heartbeats
  BY <1>6 DEF Heartbeats, HeartbeatSent, HeartbeatArrives, HeartbeatFails, EventRefused
<1>7. CASE Polls
  <2>1. CASE PollBegins
    BY <2>1 DEF PollBegins
  <2>2. CASE PollLearnsVersion
    BY <2>2 DEF PollLearnsVersion
  <2>3. CASE PollArrives
    BY <2>3 DEF PollArrives
  <2>4. CASE PollFails
    BY <2>4 DEF PollFails
  <2> QED
    BY <1>7, <2>1, <2>2, <2>3, <2>4 DEF Polls
<1>8. CASE Pushes
  <2>1. CASE StreamOpens \/ StreamRejected \/ StreamEnds
    BY <2>1 DEF StreamOpens, StreamRejected, StreamEnds
  <2>2. CASE EventFetches
    BY <2>2 DEF EventFetches
  <2>3. CASE EventIgnored
    BY <2>3 DEF EventIgnored
  <2>4. CASE ThrottleEnds
    BY <2>4 DEF ThrottleEnds
  <2>5. CASE SseArrives
    BY <2>5 DEF SseArrives, SeenByStream
  <2>6. CASE SseFails
    BY <2>6 DEF SseFails
  <2> QED
    BY <1>8, <2>1, <2>2, <2>3, <2>4, <2>5, <2>6 DEF Pushes
<1>9. CASE UNCHANGED vars
  BY <1>9 DEF vars
<1> QED
  BY <1>1, <1>2, <1>3, <1>4, <1>5, <1>6, <1>7, <1>8, <1>9 DEF Next, Cloud

THEOREM ChannelsInOrder == Spec => [](TypeOK /\ Ordered)
<1>1. Init => TypeOK /\ Ordered
  BY InitTypeOK, InitOrdered
<1>2. TypeOK /\ Ordered /\ [Next]_vars => TypeOK' /\ Ordered'
  BY NextTypeOK, NextOrdered DEF TypeOK
<1> QED
  BY <1>1, <1>2, PTL DEF Spec

\* A step takes neither channel back to an older version than it has seen.
LEMMA NextSeen ==
    VersionsOK /\ Ordered /\ [Next]_vars => pollSeen' >= pollSeen /\ sseSeen' >= sseSeen
<1> SUFFICES ASSUME VersionsOK, Ordered, [Next]_vars
             PROVE  pollSeen' >= pollSeen /\ sseSeen' >= sseSeen
  OBVIOUS
<1> USE DEF VersionsOK, Version, polling, pushing
<1>0. pollSeen \in Nat /\ sseSeen \in Nat /\ lastUpdatedAt \in Nat
  BY ConfigSyncAssumption
<1>1. CASE Lists
  <2>1. GoesOn
    BY <1>1 DEF Lists, ListsArrive, ListsFail
  <2> QED
    BY <1>0, <2>1 DEF GoesOn, Running, Ordered
<1>2. CASE PollArrives
  BY <1>0, <1>2 DEF PollArrives, Ordered, Answered
<1>3. CASE SseArrives
  BY <1>0, <1>3 DEF SseArrives, SeenByStream, Ordered, Answered
<1>4. CASE Cloud \/ Answers \/ Starts \/ Heartbeats
  <2>1. UNCHANGED <<pollSeen, sseSeen>>
    BY <1>4 DEF Cloud, Publish, Replicate, Answers, AnswerStartup, AnswerSse, AnswerLists,
                Starts, Start, StartReported, StartRefused, StartFailed,
                Heartbeats, HeartbeatSent, HeartbeatArrives, HeartbeatFails, EventRefused
  <2> QED
    BY <1>0, <2>1
<1>5. CASE PollBegins \/ PollLearnsVersion \/ PollFails
  BY <1>0, <1>5 DEF PollBegins, PollLearnsVersion, PollFails
<1>6. CASE StreamOpens \/ StreamRejected \/ StreamEnds \/ EventFetches \/ EventIgnored
           \/ ThrottleEnds \/ SseFails
  BY <1>0, <1>6 DEF StreamOpens, StreamRejected, StreamEnds, EventFetches, EventIgnored,
                    ThrottleEnds, SseFails
<1>7. CASE UNCHANGED vars
  BY <1>0, <1>7 DEF vars
<1> QED
  BY <1>1, <1>2, <1>3, <1>4, <1>5, <1>6, <1>7 DEF Next, Polls, Pushes

\* What a channel has seen never goes back, in whatever order the responses of
\* the channels arrive (pollForChanges.ts:51, listenForConfigUpdates.ts:77).
THEOREM SeenOnlyGrows == Spec => SeenNeverGoesBack
<1>1. TypeOK /\ Ordered /\ [Next]_vars => [pollSeen' >= pollSeen /\ sseSeen' >= sseSeen]_vars
  BY NextSeen DEF TypeOK
<1> QED
  BY <1>1, ChannelsInOrder, PTL DEF Spec, SeenNeverGoesBack

-----------------------------------------------------------------------------
(* The lists follow.                                                       *)

\* The lists are as recent as v, or a fetch is in flight that will make them so.
Covered(v) ==
    \/ lists >= v
    \/ \E i \in DOMAIN listFetches : listFetches[i] = Asked \/ listFetches[i] >= v

\* While the first lists are fetched, it is the config of the start they follow:
\* the channels are given its version as the one they have seen.
Following ==
    ~listsLost =>
        /\ phase = "fetching" => Covered(lastUpdatedAt)
        /\ phase = "running" => Covered(pollSeen) /\ Covered(sseSeen)

\* A fetch that was just asked for covers everything.
LEMMA FetchCovers ==
    ASSUME VersionsOK, updateBlockedLists
    PROVE  \E i \in DOMAIN listFetches' : listFetches'[i] = Asked
<1>1. listFetches \in Seq(Nat) /\ Len(listFetches) \in Nat
  BY ConfigSyncAssumption DEF VersionsOK, Version
<1>2. /\ Len(listFetches) + 1 \in DOMAIN listFetches'
      /\ listFetches'[Len(listFetches) + 1] = Asked
  BY <1>1 DEF updateBlockedLists, Asked
<1> QED
  BY <1>2

\* As long as no fetch gets lost, no step uncovers a version that was served.
LEMMA StaysCovered ==
    ASSUME VersionsOK, [Next]_vars, ~listsLost', NEW v \in 0 .. served, Covered(v)
    PROVE  Covered(v)'
<1> USE DEF VersionsOK, Version, Asked
<1>1. CASE UNCHANGED <<lists, listFetches>>
  BY <1>1 DEF Covered
<1>2. CASE updateBlockedLists
  BY <1>2, FetchCovers DEF Covered
<1>3. ASSUME NEW i \in DOMAIN listFetches, AnswerLists(i)
      PROVE  Covered(v)'
  <2>1. DOMAIN listFetches' = DOMAIN listFetches /\ lists' = lists
    BY <1>3 DEF AnswerLists, fetching
  <2>2. \A j \in DOMAIN listFetches :
            listFetches'[j] = IF j = i THEN served ELSE listFetches[j]
    BY <1>3 DEF AnswerLists
  <2>3. served >= v
    BY ConfigSyncAssumption
  <2> QED
    BY <2>1, <2>2, <2>3 DEF Covered
<1>4. ASSUME NEW i \in DOMAIN listFetches, ListsArrive(i)
      PROVE  Covered(v)'
  <2>1. /\ listFetches[i] \in 1 .. MaxVersion /\ lists' = listFetches[i]
        /\ listFetches' = RemoveAt(listFetches, i)
    BY <1>4 DEF ListsArrive, Answered
  <2>2. listFetches[i] >= lists
    <3>1. ~(listFetches[i] < lists)
      BY <1>4 DEF ListsArrive
    <3> QED
      BY <2>1, <3>1, ConfigSyncAssumption
  <2>3. CASE lists >= v
    BY <2>1, <2>2, <2>3, ConfigSyncAssumption DEF Covered
  <2>4. CASE ~(lists >= v)
    <3>1. PICK j \in DOMAIN listFetches : listFetches[j] = Asked \/ listFetches[j] >= v
      BY <2>4 DEF Covered
    <3>2. CASE j = i
      BY <2>1, <3>1, <3>2, ConfigSyncAssumption DEF Covered
    <3>3. CASE j # i
      <4>1. \E m \in DOMAIN RemoveAt(listFetches, i) :
                RemoveAt(listFetches, i)[m] = listFetches[j]
        BY <3>3, RemoveAtFacts
      <4> QED
        BY <2>1, <3>1, <4>1 DEF Covered
    <3> QED
      BY <3>2, <3>3
  <2> QED
    BY <2>3, <2>4
<1>5. ASSUME NEW i \in DOMAIN listFetches, ListsFail(i)
      PROVE  FALSE
  BY <1>5 DEF ListsFail
<1>6. CASE Cloud \/ AnswerStartup \/ AnswerSse \/ Start \/ StartFailed \/ Heartbeats
  BY <1>1, <1>6 DEF Cloud, Publish, Replicate, AnswerStartup, AnswerSse, Start, StartFailed,
          Heartbeats, HeartbeatSent, HeartbeatArrives, HeartbeatFails, EventRefused, fetching
<1>7. CASE PollBegins \/ PollLearnsVersion \/ PollFails \/ StreamOpens \/ StreamRejected
           \/ StreamEnds \/ EventFetches \/ EventIgnored \/ ThrottleEnds \/ SseFails
  BY <1>1, <1>7 DEF PollBegins, PollLearnsVersion, PollFails, StreamOpens, StreamRejected,
          StreamEnds, EventFetches, EventIgnored, ThrottleEnds, SseFails, fetching
<1>8. CASE StartReported \/ StartRefused \/ PollArrives \/ SseArrives
  BY <1>2, <1>8 DEF StartReported, StartRefused, PollArrives, SseArrives, onConfigUpdate
<1>9. CASE UNCHANGED vars
  BY <1>1, <1>9 DEF vars, fetching
<1> QED
  BY <1>3, <1>4, <1>5, <1>6, <1>7, <1>8, <1>9
     DEF Next, Answers, Starts, Lists, Polls, Pushes

\* What has been lost stays lost.
LEMMA LossIsRemembered == [Next]_vars /\ ~listsLost' => ~listsLost
<1>1. CASE Cloud \/ Answers \/ Starts \/ Heartbeats
  BY <1>1 DEF Cloud, Publish, Replicate, Answers, AnswerStartup, AnswerSse, AnswerLists,
              Starts, Start, StartReported, StartRefused, StartFailed,
              Heartbeats, HeartbeatSent, HeartbeatArrives, HeartbeatFails, EventRefused, fetching
<1>2. CASE Lists
  BY <1>2 DEF Lists, ListsArrive, ListsFail
<1>3. CASE Polls
  BY <1>3 DEF Polls, PollBegins, PollLearnsVersion, PollArrives, PollFails, fetching
<1>4. CASE Pushes
  BY <1>4 DEF Pushes, StreamOpens, StreamRejected, StreamEnds, EventFetches, EventIgnored,
              ThrottleEnds, SseArrives, SseFails, fetching
<1>5. CASE UNCHANGED vars
  BY <1>5 DEF vars, fetching
<1> QED
  BY <1>1, <1>2, <1>3, <1>4, <1>5 DEF Next

\* A step that changes a version the lists have to follow has just asked for
\* them, or ends the start and hands lastUpdatedAt over to the channels.
LEMMA WhatIsFollowed ==
    ASSUME VersionsOK, Ordered, [Next]_vars
    PROVE  \/ updateBlockedLists
           \/ /\ phase = "fetching" /\ phase' = "running" /\ lastUpdatedAt' = lastUpdatedAt
              /\ pollSeen' = lastUpdatedAt /\ sseSeen' = lastUpdatedAt
           \/ /\ phase' = phase
              /\ phase = "fetching" => lastUpdatedAt' = lastUpdatedAt
              /\ UNCHANGED <<pollSeen, sseSeen>>
           \/ phase' \notin {"fetching", "running"}
<1> USE DEF cloud, applied, starting, polling, pushing, fetching, reports
<1>1. CASE Cloud \/ Answers
  BY <1>1 DEF Cloud, Publish, Replicate, Answers, AnswerStartup, AnswerSse, AnswerLists
<1>2. CASE Starts
  BY <1>2 DEF Starts, Start, StartReported, StartRefused, StartFailed
<1>3. CASE Lists
  <2>1. GoesOn /\ lastUpdatedAt' = lastUpdatedAt
    BY <1>3 DEF Lists, ListsArrive, ListsFail
  <2> QED
    BY <2>1 DEF GoesOn, Running
<1>4. CASE HeartbeatSent \/ HeartbeatFails \/ EventRefused
  BY <1>4 DEF HeartbeatSent, HeartbeatFails, EventRefused
<1>5. CASE HeartbeatArrives
  <2>1. heartbeat # Idle
    BY <1>5, ConfigSyncAssumption DEF HeartbeatArrives, Answered, Version, Idle
  <2>2. phase = "running"
    BY <2>1 DEF Ordered
  <2> QED
    BY <1>5, <2>2 DEF HeartbeatArrives
<1>6. CASE Polls
  BY <1>6 DEF Polls, PollBegins, PollLearnsVersion, PollArrives, PollFails, onConfigUpdate
<1>7. CASE Pushes
  <2>1. CASE SseArrives
    BY <2>1 DEF SseArrives, onConfigUpdate
  <2>2. CASE StreamOpens \/ StreamRejected \/ StreamEnds \/ EventFetches \/ EventIgnored
             \/ ThrottleEnds \/ SseFails
    BY <2>2 DEF StreamOpens, StreamRejected, StreamEnds, EventFetches, EventIgnored,
                ThrottleEnds, SseFails
  <2> QED
    BY <1>7, <2>1, <2>2 DEF Pushes
<1>8. CASE UNCHANGED vars
  BY <1>8 DEF vars
<1> QED
  BY <1>1, <1>2, <1>3, <1>4, <1>5, <1>6, <1>7, <1>8 DEF Next, Heartbeats

LEMMA NextFollowing == TypeOK /\ Ordered /\ Following /\ [Next]_vars => Following'
<1> SUFFICES ASSUME TypeOK, Ordered, Following, [Next]_vars, ~listsLost'
             PROVE  /\ phase' = "fetching" => Covered(lastUpdatedAt)'
                    /\ phase' = "running" => Covered(pollSeen)' /\ Covered(sseSeen)'
  BY DEF Following
<1>1. VersionsOK /\ VersionsOK' /\ ~listsLost
  BY NextVersionsOK, LossIsRemembered DEF TypeOK
<1>2. /\ lastUpdatedAt' \in Nat /\ pollSeen' \in Nat /\ sseSeen' \in Nat
      /\ lastUpdatedAt \in 0 .. served /\ pollSeen \in 0 .. served /\ sseSeen \in 0 .. served
  BY <1>1, ConfigSyncAssumption DEF VersionsOK, Version
<1>3. ASSUME NEW v \in 0 .. served, Covered(v), NEW w, w = v
      PROVE  \/ lists' >= w
             \/ \E i \in DOMAIN listFetches' :
                    listFetches'[i] = Asked \/ listFetches'[i] >= w
  BY <1>1, <1>3, StaysCovered DEF Covered
<1>4. CASE updateBlockedLists
  BY <1>1, <1>4, FetchCovers DEF Covered
<1>5. CASE /\ phase = "fetching" /\ phase' = "running"
           /\ pollSeen' = lastUpdatedAt /\ sseSeen' = lastUpdatedAt
  <2>1. Covered(lastUpdatedAt)
    BY <1>1, <1>5 DEF Following
  <2> QED
    BY <1>2, <1>3, <1>5, <2>1 DEF Covered
<1>6. CASE /\ phase' = phase
           /\ phase = "fetching" => lastUpdatedAt' = lastUpdatedAt
           /\ UNCHANGED <<pollSeen, sseSeen>>
  <2>1. CASE phase = "fetching"
    <3>1. Covered(lastUpdatedAt)
      BY <1>1, <2>1 DEF Following
    <3> QED
      BY <1>2, <1>3, <1>6, <2>1, <3>1 DEF Covered
  <2>2. CASE phase = "running"
    <3>1. Covered(pollSeen) /\ Covered(sseSeen)
      BY <1>1, <2>2 DEF Following
    <3> QED
      BY <1>2, <1>3, <1>6, <2>2, <3>1 DEF Covered
  <2> QED
    BY <1>6, <2>1, <2>2
<1> QED
  BY <1>1, <1>4, <1>5, <1>6, WhatIsFollowed

\* Unless a list fetch failed or was overtaken by a later one, the lists are as
\* recent as all that the channels have seen, or a fetch that will make them so
\* is in flight (Agent.ts:448-454, 466-471), for any number of fetches.
THEOREM ListsFollow == Spec => []ListsFollowConfig
<1>1. Init => Following
  BY DEF Init, Following
<1>2. TypeOK /\ Ordered /\ Following => ListsFollowConfig
  BY DEF Following, Covered, ListsFollowConfig
<1>3. TypeOK /\ Ordered /\ Following /\ [Next]_vars => Following'
  BY NextFollowing
<1> QED
  BY <1>1, <1>2, <1>3, ChannelsInOrder, PTL DEF Spec

=============================================================================
