-------------------------- MODULE RequestGateProofs --------------------------
(***************************************************************************)
(* Proofs about RequestGate, for any number of listeners, any nesting and  *)
(* any configurations.  A step changes contexts only by making new ones of *)
(* old ones that stay sound (GoesOn); the invariant ties them to the       *)
(* handlers that hold them and to what was sent and counted.               *)
(***************************************************************************)
EXTENDS RequestGate, TLAPS, FiniteSetTheorems

Context ==
    [blockedDueToIPOrBot : BOOLEAN, consumedRateLimit : BOOLEAN, rateLimitedEndpoint : BOOLEAN,
     bypassRequest : BOOLEAN, taken : Nat]

\* What holds of every context: the limit is taken once, and the flag tells so.
Sound ==
    {c \in Context : /\ c.taken <= 1
                     /\ c.taken # 0 => c.consumedRateLimit}

\* What was found out about a context stays known.
Keeps(d, c) ==
    /\ c.blockedDueToIPOrBot => d.blockedDueToIPOrBot
    /\ c.rateLimitedEndpoint => d.rateLimitedEndpoint

-----------------------------------------------------------------------------
(* What the steps make of one context.                                     *)

\* A context starts sound.
LEMMA NewContextSound ==
    /\ NewContext \in Sound
    /\ NewContext.taken = 0
  BY DEF NewContext, Sound, Context

\* The flag of a blocked request keeps it sound.
LEMMA BlockSound ==
    ASSUME NEW c \in Sound
    PROVE  LET d == [c EXCEPT !.blockedDueToIPOrBot = TRUE]
           IN  d \in Sound /\ d.blockedDueToIPOrBot /\ d.taken = c.taken /\ Keeps(d, c)
  BY DEF Sound, Context, Keeps

\* The rate limiter takes the limit only where the flag is not set, and sets it. A
\* refusal is noted in the context.
LEMMA RateLimitSound ==
    ASSUME NEW c \in Sound, NEW user \in BOOLEAN, NEW allowed \in BOOLEAN
    PROVE  LET d == shouldRateLimitRequest(c, user, allowed)
           IN  /\ d.then \in Sound /\ Keeps(d.then, c)
               /\ d.type = "ratelimited" => d.then.rateLimitedEndpoint
<1> DEFINE consumed == [c EXCEPT !.consumedRateLimit = TRUE]
           charged == [consumed EXCEPT !.taken = @ + 1]
           limited == [charged EXCEPT !.rateLimitedEndpoint = TRUE]
<1>1. /\ consumed \in Sound /\ Keeps(consumed, c)
      /\ consumed.taken = c.taken /\ consumed.consumedRateLimit
  BY DEF Sound, Context, Keeps
<1>2. ASSUME ~c.consumedRateLimit
      PROVE  /\ charged \in Sound /\ Keeps(charged, c)
             /\ limited \in Sound /\ Keeps(limited, c) /\ limited.rateLimitedEndpoint
  <2>1. c.taken = 0
    BY <1>2 DEF Sound
  <2>2. consumed.taken = 0 /\ consumed.taken + 1 = 1
    BY <1>1, <2>1
  <2> HIDE DEF consumed
  <2>3. charged \in Sound /\ Keeps(charged, c)
    BY <1>1, <2>2 DEF Sound, Context, Keeps
  <2> HIDE DEF charged
  <2> QED
    BY <2>3 DEF Sound, Context, Keeps
<1>3. shouldRateLimitRequest(c, user, allowed) =
          IF ~Takes(c, user) THEN Decision("pass", consumed)
          ELSE IF allowed THEN Decision("pass", charged) ELSE Decision("ratelimited", limited)
  BY DEF shouldRateLimitRequest
<1>4. Takes(c, user) => ~c.consumedRateLimit
  BY DEF Takes
<1> HIDE DEF consumed, charged, limited
<1>5. CASE ~Takes(c, user)
  BY <1>1, <1>3, <1>5 DEF Decision
<1>6. CASE Takes(c, user)
  BY <1>2, <1>3, <1>4, <1>6 DEF Decision
<1> QED
  BY <1>5, <1>6

\* The middleware keeps a context sound, and leaves it alone when the address is
\* bypassed.
LEMMA DecisionSound ==
    ASSUME NEW c \in Sound, NEW user \in BOOLEAN, NEW allowed \in BOOLEAN
    PROVE  LET d == shouldBlockRequest(c, user, allowed)
           IN  /\ d.then \in Sound /\ Keeps(d.then, c)
               /\ d.type = "ratelimited" => d.then.rateLimitedEndpoint
               /\ config.ip = "bypassed" => d.type = "pass" /\ d.then = c
<1>1. config.ip = "bypassed" => isBypassed(c)
  BY DEF isBypassed
<1>2. CASE isBypassed(c)
  BY <1>2 DEF shouldBlockRequest, Decision, Keeps
<1>3. CASE ~isBypassed(c) /\ user /\ config.user = "blocked"
  BY <1>1, <1>3 DEF shouldBlockRequest, Decision, Keeps
<1>4. CASE ~isBypassed(c) /\ ~(user /\ config.user = "blocked")
  <2>1. shouldBlockRequest(c, user, allowed) = shouldRateLimitRequest(c, user, allowed)
    BY <1>4 DEF shouldBlockRequest
  <2> QED
    BY <1>1, <1>4, <2>1, RateLimitSound
<1> QED
  BY <1>2, <1>3, <1>4

-----------------------------------------------------------------------------
(* The invariant.                                                          *)

Stats == [requests : Nat, rateLimited : Nat, waveChecks : Nat, matches : Nat, aborted : Nat]

Types ==
    /\ contexts \in Seq(Sound)
    /\ context \in [Listeners -> Nat]
    /\ phase \in [Listeners -> {"idle", "running", "left"}]
    /\ handlers \in Seq(Nat)
    /\ checkedBlocks \in BOOLEAN
    /\ config \in Configs
    /\ stats \in Stats

\* Whoever runs has a context, and so have the handlers.
HaveContexts ==
    /\ \A l \in Listeners : context[l] <= Len(contexts)
    /\ \A l \in Listeners : phase[l] = "running" => context[l] # 0 /\ l \in appRan
    /\ \A h \in DOMAIN handlers : handlers[h] \in DOMAIN contexts

\* Each context was made for one listener.
WithContext == {l \in Listeners : context[l] # 0}
OneEach == Len(contexts) = Cardinality(WithContext)

\* The lists are asked before the first listener runs, and then no more.
CheckedFirst ==
    /\ handlers # << >> \/ appRan # {} => checkedBlocks \/ headersSent
    /\ stats.matches <= 1
    /\ ~checkedBlocks => stats.matches = 0

\* The first handler, which is the only one that counts a request, holds the
\* context of the listener that was blocked.
BlockIsFlagged ==
    response.by = "lists" =>
        handlers # << >> /\ contexts[handlers[1]].blockedDueToIPOrBot

NotYetCounted ==
    ~finished => stats.requests = 0 /\ stats.rateLimited = 0 /\ stats.waveChecks = 0

Bypassed ==
    ~protected =>
        /\ config.ip = "bypassed"
        /\ \A i \in DOMAIN contexts : contexts[i].taken = 0
        /\ response.by \in {"none", "app"} \/ (mode = "body" /\ response.by = "reader")
        /\ stats.requests = 0 /\ stats.rateLimited = 0
        /\ stats.waveChecks = 0 /\ stats.matches = 0

Inv ==
    /\ Types
    /\ HaveContexts
    /\ OneEach
    /\ CheckedFirst
    /\ BlockIsFlagged
    /\ NotYetCounted
    /\ Bypassed
    /\ CountedOnce
    /\ RequestBlockedNotChecked

-----------------------------------------------------------------------------
(* What the steps make of the contexts.                                    *)

\* The contexts of new go on from those of old.
GoesOn(new, old) ==
    /\ new \in Seq(Sound)
    /\ Len(new) >= Len(old)
    /\ \A i \in DOMAIN old : Keeps(new[i], old[i])

Untaken(all) == \A i \in DOMAIN all : all[i].taken = 0

\* One sound context put in the place of another that it goes on from.
LEMMA ChangeOne ==
    ASSUME NEW all \in Seq(Sound), NEW i \in 1 .. Len(all), NEW d \in Sound,
           Keeps(d, all[i])
    PROVE  LET new == [all EXCEPT ![i] = d]
           IN  /\ GoesOn(new, all)
               /\ Len(new) = Len(all)
               /\ new[i] = d
               /\ Untaken(all) /\ d.taken = 0 => Untaken(new)
<1> DEFINE new == [all EXCEPT ![i] = d]
<1>1. /\ new \in Seq(Sound) /\ Len(new) = Len(all) /\ DOMAIN new = DOMAIN all
      /\ \A j \in DOMAIN all : new[j] = IF j = i THEN d ELSE all[j]
      /\ i \in DOMAIN all /\ Len(all) \in Nat
  OBVIOUS
<1> HIDE DEF new
<1>2. GoesOn(new, all)
  BY <1>1 DEF GoesOn, Keeps
<1>3. Untaken(all) /\ d.taken = 0 => Untaken(new)
  BY <1>1 DEF Untaken
<1> QED
  BY <1>1, <1>2, <1>3 DEF new

\* What Append makes of the handlers.
LEMMA AppendFacts ==
    ASSUME NEW s \in Seq(Nat), NEW e \in Nat
    PROVE  LET new == Append(s, e)
           IN  /\ new \in Seq(Nat) /\ new # << >>
               /\ Len(new) = Len(s) + 1
               /\ DOMAIN s = 1 .. Len(s) /\ DOMAIN new = 1 .. Len(s) + 1
               /\ \A h \in DOMAIN s : new[h] = s[h]
               /\ new[Len(s) + 1] = e
               /\ Len(s) \in Nat
               /\ s # << >> => 1 \in DOMAIN s
  OBVIOUS

\* GoesOn is transitive.
LEMMA GoesOnTwice ==
    ASSUME NEW a \in Seq(Sound), NEW b, NEW c, GoesOn(b, a), GoesOn(c, b)
    PROVE  GoesOn(c, a)
<1>1. \A i \in DOMAIN a : i \in DOMAIN b
  BY DEF GoesOn
<1> QED
  BY <1>1 DEF GoesOn, Keeps

\* The context a listener runs in is a new one or its own.
LEMMA RunFacts ==
    ASSUME Types, HaveContexts, NEW l \in Listeners
    PROVE  LET run == runWithContext(l)
           IN  /\ GoesOn(run.all, contexts)
               /\ run.at \in 1 .. Len(run.all)
               /\ Len(run.all) = Len(contexts) + (IF context[l] = 0 THEN 1 ELSE 0)
               /\ run.at = IF context[l] = 0 THEN Len(contexts) + 1 ELSE context[l]
               /\ Untaken(contexts) => Untaken(run.all)
<1>1. contexts \in Seq(Sound) /\ context[l] \in 0 .. Len(contexts)
  BY DEF Types, HaveContexts
<1>2. CASE context[l] = 0
  <2>1. runWithContext(l) = [all |-> Append(contexts, NewContext), at |-> Len(contexts) + 1]
    BY <1>2 DEF runWithContext
  <2> DEFINE all == Append(contexts, NewContext)
  <2>2. /\ all \in Seq(Sound) /\ Len(all) = Len(contexts) + 1
        /\ \A i \in 1 .. Len(contexts) : all[i] = contexts[i]
        /\ all[Len(contexts) + 1] = NewContext
        /\ DOMAIN contexts = 1 .. Len(contexts) /\ DOMAIN all = 1 .. Len(contexts) + 1
        /\ Len(contexts) \in Nat
    BY <1>1, NewContextSound
  <2> HIDE DEF all
  <2>3. GoesOn(all, contexts)
    BY <2>2 DEF GoesOn, Keeps
  <2>4. Untaken(contexts) => Untaken(all)
    <3> SUFFICES ASSUME Untaken(contexts), NEW i \in 1 .. Len(contexts) + 1
                 PROVE  all[i].taken = 0
      BY <2>2 DEF Untaken
    <3>1. CASE i = Len(contexts) + 1
      BY <2>2, <3>1, NewContextSound
    <3>2. CASE i # Len(contexts) + 1
      BY <2>2, <3>2 DEF Untaken
    <3> QED
      BY <3>1, <3>2
  <2> QED
    BY <1>2, <2>1, <2>2, <2>3, <2>4 DEF all
<1>3. CASE context[l] # 0
  <2>1. runWithContext(l) = [all |-> contexts, at |-> context[l]]
    BY <1>3 DEF runWithContext
  <2>2. context[l] \in 1 .. Len(contexts) /\ Len(contexts) \in Nat
    BY <1>1, <1>3
  <2>3. GoesOn(contexts, contexts)
    BY <1>1 DEF GoesOn, Keeps
  <2> QED
    BY <1>3, <2>1, <2>2, <2>3
<1> QED
  BY <1>2, <1>3

-----------------------------------------------------------------------------
(* What a decision and a call do.                                          *)

\* Only listener l moves; it runs if anything.
Moves(l) ==
    /\ phase' \in [Listeners -> {"idle", "running", "left"}]
    /\ \A k \in Listeners \ {l} : phase'[k] = phase[k]
    /\ phase'[l] # "idle"
    /\ phase'[l] = "running" => l \in appRan'
    /\ appRan \subseteq appRan'

RefusedByGate == ~headersSent /\ config.ip # "bypassed" /\ response'.by = "gate"

\* Whoever refuses a request because of the limit has noted so in its context.
LimitIsNoted(l, at) ==
    response' # response /\ response'.by = "gate" /\ response'.status = 429 =>
        response'.listener = l /\ contexts'[at].rateLimitedEndpoint

\* Goes moves one listener.
LEMMA GoesMoves ==
    ASSUME Types, NEW l \in Listeners, NEW p \in {"running", "left"}, Goes(l, p),
           appRan \subseteq appRan', p = "running" => l \in appRan'
    PROVE  Moves(l)
  BY DEF Types, Goes, Moves

\* A decision of the gate: the listener runs, or the request is refused.
LEMMA DecidedFacts ==
    ASSUME Types, NEW l \in Listeners, NEW all \in Seq(Sound), NEW i \in 1 .. Len(all),
           NEW d, d.then \in Sound, Keeps(d.then, all[i]),
           d.type = "ratelimited" => d.then.rateLimitedEndpoint,
           config.ip = "bypassed" => d.type = "pass" /\ d.then = all[i],
           NEW stays, "pass" \in stays,
           Decided(l, i, d, all, stays)
    PROVE  /\ GoesOn(contexts', all)
           /\ Len(contexts') = Len(all)
           /\ config.ip = "bypassed" /\ Untaken(all) => Untaken(contexts')
           /\ Moves(l)
           /\ response' = response \/ RefusedByGate
           /\ LimitIsNoted(l, i)
<1>1. contexts' = [all EXCEPT ![i] = d.then]
  BY DEF Decided
<1>2. GoesOn(contexts', all) /\ Len(contexts') = Len(all) /\ contexts'[i] = d.then
  BY <1>1, ChangeOne
<1>3. ASSUME config.ip = "bypassed", Untaken(all)
      PROVE  Untaken(contexts')
  <2>1. d.then = all[i] /\ all[i].taken = 0
    BY <1>3 DEF Untaken
  <2> QED
    BY <1>1, <1>3, <2>1, ChangeOne
<1>4. CASE d.type \in stays
  <2>1. UNCHANGED response /\ Goes(l, "running") /\ appRan' = appRan \cup {l}
    BY <1>4 DEF Decided
  <2>2. Moves(l)
    BY <2>1, GoesMoves
  <2> QED
    BY <1>2, <1>3, <2>1, <2>2 DEF LimitIsNoted
<1>5. CASE d.type \notin stays
  <2>1. /\ response' = IF headersSent THEN response ELSE Refusal(l, d.type)
        /\ Goes(l, "left")
        /\ UNCHANGED appRan
    BY <1>5 DEF Decided
  <2>2. Moves(l)
    BY <2>1, GoesMoves
  <2>3. config.ip # "bypassed"
    BY <1>5
  <2>4. response' = response \/ RefusedByGate
    BY <2>1, <2>3 DEF RefusedByGate, Refusal
  <2>5. LimitIsNoted(l, i)
    BY <1>2, <2>1 DEF LimitIsNoted, Refusal
  <2> QED
    BY <1>2, <1>3, <2>2, <2>4, <2>5
<1> QED
  BY <1>4, <1>5

BlockedByLists(at) ==
    /\ ChecksBlocks
    /\ config.ip # "bypassed"
    /\ response'.by = "lists"
    /\ contexts'[at].blockedDueToIPOrBot

\* A call of listener l in the context at.
CallOutcome(l, at) ==
    /\ GoesOn(contexts', contexts)
    /\ at \in 1 .. Len(contexts')
    /\ Len(contexts') = Len(contexts) + (IF context[l] = 0 THEN 1 ELSE 0)
    /\ at = IF context[l] = 0 THEN Len(contexts) + 1 ELSE context[l]
    /\ context' = [context EXCEPT ![l] = at]
    /\ handlers' = Append(handlers, at)
    /\ checkedBlocks' = (checkedBlocks \/ ~headersSent)
    /\ stats' = IF ChecksBlocks /\ config.ip # "bypassed" /\ stats # stats'
                THEN [stats EXCEPT !.matches = @ + 1] ELSE stats
    /\ Moves(l)
    /\ response' = response \/ RefusedByGate \/ BlockedByLists(at)
    /\ LimitIsNoted(l, at)
    /\ config.ip = "bypassed" /\ Untaken(contexts) => Untaken(contexts')

\* Whatever the lists and the limiter say, a call has such an outcome.
LEMMA CallFacts ==
    ASSUME Types, HaveContexts, NEW l \in Listeners, Call(l)
    PROVE  \E at : CallOutcome(l, at)
<1> DEFINE run == runWithContext(l)
           at == run.at
           c == run.all[run.at]
<1>1. PICK user \in BOOLEAN, allowed \in BOOLEAN :
          /\ context' = [context EXCEPT ![l] = at]
          /\ handlers' = Append(handlers, at)
          /\ checkedBlocks' = (checkedBlocks \/ ~headersSent)
          /\ stats' = IF Matches(c) THEN [stats EXCEPT !.matches = @ + 1] ELSE stats
          /\ IF Blocks(c)
             THEN /\ contexts' = [run.all EXCEPT ![at].blockedDueToIPOrBot = TRUE]
                  /\ response' = [by |-> "lists", status |-> 403, listener |-> l]
                  /\ Goes(l, "left")
                  /\ UNCHANGED appRan
             ELSE IF mode = "body"
             THEN Decided(l, at, shouldBlockRequest(c, user, allowed), run.all, {"pass", "blocked"})
             ELSE Decided(l, at, Decision("pass", c), run.all, {"pass"})
  BY DEF Call
<1>2. /\ GoesOn(run.all, contexts)
      /\ at \in 1 .. Len(run.all)
      /\ Len(run.all) = Len(contexts) + (IF context[l] = 0 THEN 1 ELSE 0)
      /\ at = IF context[l] = 0 THEN Len(contexts) + 1 ELSE context[l]
      /\ Untaken(contexts) => Untaken(run.all)
  BY RunFacts
<1>3. run.all \in Seq(Sound) /\ c \in Sound /\ contexts \in Seq(Sound)
  BY <1>2 DEF GoesOn, Types
<1> HIDE DEF run
<1>4. stats' = IF ChecksBlocks /\ config.ip # "bypassed" /\ stats # stats'
               THEN [stats EXCEPT !.matches = @ + 1] ELSE stats
  BY <1>1 DEF Matches, isBypassed
<1>5. SUFFICES /\ GoesOn(contexts', run.all) /\ Len(contexts') = Len(run.all)
               /\ Moves(l)
               /\ response' = response \/ RefusedByGate \/ BlockedByLists(at)
               /\ LimitIsNoted(l, at)
               /\ config.ip = "bypassed" /\ Untaken(run.all) => Untaken(contexts')
  <2>1. ASSUME GoesOn(contexts', run.all), Len(contexts') = Len(run.all)
        PROVE  GoesOn(contexts', contexts) /\ at \in 1 .. Len(contexts')
    BY <1>2, <1>3, <2>1, GoesOnTwice
  <2> QED
    BY <1>1, <1>2, <1>4, <2>1 DEF CallOutcome
<1>6. CASE Blocks(c)
  <2> DEFINE d == [c EXCEPT !.blockedDueToIPOrBot = TRUE]
  <2>1. /\ contexts' = [run.all EXCEPT ![at] = d]
        /\ response' = [by |-> "lists", status |-> 403, listener |-> l]
        /\ Goes(l, "left") /\ UNCHANGED appRan
    BY <1>1, <1>6
  <2>2. d \in Sound /\ d.blockedDueToIPOrBot /\ d.taken = c.taken /\ Keeps(d, run.all[at])
    BY <1>3, BlockSound
  <2>3. ChecksBlocks /\ config.ip # "bypassed"
    BY <1>6 DEF Blocks, isBypassed
  <2> HIDE DEF d, at, c
  <2>4. /\ GoesOn(contexts', run.all) /\ Len(contexts') = Len(run.all)
        /\ contexts'[at] = d
    <3> DEFINE all == run.all
    <3>1. /\ all \in Seq(Sound) /\ at \in 1 .. Len(all)
          /\ d \in Sound /\ Keeps(d, all[at])
          /\ contexts' = [all EXCEPT ![at] = d]
      BY <1>2, <1>3, <2>1, <2>2
    <3> HIDE DEF all
    <3>2. GoesOn(contexts', all) /\ Len(contexts') = Len(all) /\ contexts'[at] = d
      BY <3>1, ChangeOne
    <3> QED
      BY <3>2 DEF all
  <2>5. BlockedByLists(at)
    BY <2>1, <2>2, <2>3, <2>4 DEF BlockedByLists
  <2>6. Moves(l)
    BY <2>1, GoesMoves
  <2>7. LimitIsNoted(l, at)
    BY <2>1 DEF LimitIsNoted
  <2> QED
    BY <2>3, <2>4, <2>5, <2>6, <2>7
<1>7. CASE ~Blocks(c) /\ mode = "body"
  <2> DEFINE d == shouldBlockRequest(c, user, allowed)
  <2>1. Decided(l, at, d, run.all, {"pass", "blocked"})
    BY <1>1, <1>7
  <2>2. /\ d.then \in Sound /\ Keeps(d.then, c)
        /\ d.type = "ratelimited" => d.then.rateLimitedEndpoint
        /\ config.ip = "bypassed" => d.type = "pass" /\ d.then = c
    BY <1>3, DecisionSound
  <2> HIDE DEF d
  <2> QED
    BY <1>2, <1>3, <2>1, <2>2, DecidedFacts
<1>8. CASE ~Blocks(c) /\ mode # "body"
  <2> DEFINE d == Decision("pass", c)
  <2>1. Decided(l, at, d, run.all, {"pass"})
    BY <1>1, <1>8
  <2>2. d.then = c /\ d.type = "pass" /\ Keeps(d.then, c)
    BY DEF Decision, Keeps
  <2> HIDE DEF d
  <2> QED
    BY <1>2, <1>3, <2>1, <2>2, DecidedFacts
<1> QED
  BY <1>6, <1>7, <1>8

-----------------------------------------------------------------------------
(* Every step keeps the invariant.                                         *)

\* The cardinalities are those of finite sets.
LEMMA WithContextIsFinite ==
    IsFiniteSet(Listeners) /\ IsFiniteSet(WithContext)
<1>1. IsFiniteSet(Listeners)
  BY ListenersAssumption DEF ListenersAssumption
<1>2. WithContext \subseteq Listeners
  BY DEF WithContext
<1> QED
  BY <1>1, <1>2, FS_Subset

\* A request starts in the invariant.
LEMMA InitInv == Init => Inv
<1> SUFFICES ASSUME Init
             PROVE  Inv
  OBVIOUS
<1>1. /\ contexts = << >> /\ handlers = << >> /\ appRan = {} /\ response.by = "none"
      /\ checkedBlocks = FALSE
      /\ stats.requests = 0 /\ stats.rateLimited = 0 /\ stats.waveChecks = 0 /\ stats.matches = 0
      /\ protected = (config.ip # "bypassed")
  BY DEF Init, NotSent
<1>2. Types /\ HaveContexts
  <2>1. PICK n \in Listeners : phase = [l \in Listeners |-> IF l <= n THEN "idle" ELSE "left"]
    BY DEF Init
  <2>2. /\ phase \in [Listeners -> {"idle", "running", "left"}]
        /\ \A l \in Listeners : phase[l] # "running"
    BY <2>1
  <2>3. context \in [Listeners -> Nat] /\ \A l \in Listeners : context[l] = 0
    BY DEF Init
  <2>4. stats \in Stats
    BY DEF Init, Stats
  <2>5. contexts \in Seq(Sound) /\ Len(contexts) = 0
    BY <1>1
  <2>6. handlers \in Seq(Nat) /\ DOMAIN handlers = {}
    BY <1>1
  <2>7. Types
    BY <1>1, <2>2, <2>3, <2>4, <2>5, <2>6 DEF Types, Init
  <2>8. HaveContexts
    BY <2>2, <2>3, <2>5, <2>6 DEF HaveContexts
  <2> QED
    BY <2>7, <2>8
<1>3. OneEach
  <2>1. WithContext = {}
    BY DEF Init, WithContext
  <2>2. Len(contexts) = 0
    BY <1>1
  <2>3. Cardinality(WithContext) = 0
    BY <2>1, FS_EmptySet
  <2> QED
    BY <2>2, <2>3 DEF OneEach
<1>4. CheckedFirst /\ BlockIsFlagged /\ NotYetCounted
  BY DEF Init, CheckedFirst, BlockIsFlagged, NotYetCounted, NotSent
<1>5. Bypassed
  <2>1. DOMAIN contexts = {}
    BY <1>1
  <2>2. ~protected => config.ip = "bypassed"
    BY <1>1
  <2> QED
    BY <1>1, <2>1, <2>2 DEF Bypassed
<1>6. CountedOnce /\ RequestBlockedNotChecked
  BY DEF Init, CountedOnce, RequestBlockedNotChecked, BlockedNotChecked
<1> QED
  BY <1>2, <1>3, <1>4, <1>5, <1>6 DEF Inv

\* Before the response is finished nothing was counted.
LEMMA NothingCounted ==
    ASSUME ~finished', NotYetCounted', CheckedFirst'
    PROVE  (CountedOnce /\ RequestBlockedNotChecked)'
  BY DEF NotYetCounted, CheckedFirst, CountedOnce, RequestBlockedNotChecked, BlockedNotChecked

\* A call keeps the invariant.
LEMMA CallInv ==
    ASSUME Inv, ~finished, NEW l \in Listeners, Call(l),
           UNCHANGED <<mode, config, finished, protected>>
    PROVE  Inv'
<1>1. Types /\ HaveContexts /\ OneEach
  BY DEF Inv
<1>2. PICK at : CallOutcome(l, at)
  BY <1>1, CallFacts
<1>3. /\ contexts \in Seq(Sound) /\ contexts' \in Seq(Sound)
      /\ Len(contexts) \in Nat /\ Len(contexts') \in Nat /\ Len(contexts) <= Len(contexts')
      /\ DOMAIN contexts = 1 .. Len(contexts) /\ DOMAIN contexts' = 1 .. Len(contexts')
      /\ at \in 1 .. Len(contexts')
  BY <1>1, <1>2 DEF Types, CallOutcome, GoesOn
<1>4. /\ handlers \in Seq(Nat) /\ handlers' = Append(handlers, at)
      /\ handlers' \in Seq(Nat) /\ handlers' # << >>
      /\ Len(handlers') = Len(handlers) + 1
      /\ DOMAIN handlers = 1 .. Len(handlers) /\ DOMAIN handlers' = 1 .. Len(handlers) + 1
      /\ \A h \in DOMAIN handlers : handlers'[h] = handlers[h]
      /\ handlers'[Len(handlers) + 1] = at
      /\ Len(handlers) \in Nat
      /\ handlers # << >> => 1 \in DOMAIN handlers
  <2>1. handlers \in Seq(Nat) /\ at \in Nat /\ handlers' = Append(handlers, at)
    BY <1>1, <1>2, <1>3 DEF Types, CallOutcome
  <2> QED
    BY <2>1, AppendFacts
<1>5. /\ stats' \in Stats
      /\ stats'.requests = stats.requests /\ stats'.rateLimited = stats.rateLimited
      /\ stats'.waveChecks = stats.waveChecks
      /\ \/ stats'.matches = stats.matches
         \/ ChecksBlocks /\ config.ip # "bypassed" /\ stats'.matches = stats.matches + 1
  <2>1. stats \in Stats
    BY <1>1 DEF Types
  <2>2. CASE stats' = stats
    BY <2>1, <2>2 DEF Stats
  <2>3. CASE stats' # stats
    <3>1. /\ ChecksBlocks /\ config.ip # "bypassed"
          /\ stats' = [stats EXCEPT !.matches = @ + 1]
      BY <1>2, <2>3 DEF CallOutcome
    <3> QED
      BY <2>1, <3>1 DEF Stats
  <2> QED
    BY <2>2, <2>3
<1>6. ChecksBlocks => ~headersSent /\ ~checkedBlocks
  BY DEF ChecksBlocks
<1>7. Types'
  BY <1>1, <1>2, <1>3, <1>4, <1>5 DEF Types, CallOutcome, Moves
<1>8. HaveContexts'
  <2>1. ASSUME NEW k \in Listeners
        PROVE  /\ context'[k] <= Len(contexts')
               /\ phase'[k] = "running" => context'[k] # 0 /\ k \in appRan'
    BY <1>1, <1>2, <1>3 DEF Types, HaveContexts, CallOutcome, Moves
  <2>2. ASSUME NEW h \in DOMAIN handlers'
        PROVE  handlers'[h] \in DOMAIN contexts'
    <3>1. CASE h \in DOMAIN handlers
      <4>1. handlers[h] \in DOMAIN contexts
        BY <1>1, <3>1 DEF HaveContexts
      <4> QED
        BY <1>3, <1>4, <3>1, <4>1
    <3>2. CASE h = Len(handlers) + 1
      BY <1>3, <1>4, <3>2
    <3> QED
      BY <1>4, <3>1, <3>2
  <2> QED
    BY <2>1, <2>2 DEF HaveContexts
<1>9. OneEach'
  <2>1. /\ at # 0 /\ context \in [Listeners -> Nat]
        /\ context' = [context EXCEPT ![l] = at]
        /\ Len(contexts') = Len(contexts) + (IF context[l] = 0 THEN 1 ELSE 0)
    BY <1>1, <1>2, <1>3 DEF Types, CallOutcome
  <2>2. CASE context[l] = 0
    <3>1. WithContext' = WithContext \cup {l} /\ l \notin WithContext
      BY <2>1, <2>2 DEF WithContext
    <3>2. Cardinality(WithContext') = Cardinality(WithContext) + 1
      BY <3>1, WithContextIsFinite, FS_AddElement
    <3> QED
      BY <1>1, <2>1, <2>2, <3>2 DEF OneEach
  <2>3. CASE context[l] # 0
    <3>1. WithContext' = WithContext
      BY <2>1, <2>3 DEF WithContext
    <3>2. Len(contexts') = Len(contexts)
      BY <1>3, <2>1, <2>3
    <3> QED
      BY <1>1, <3>1, <3>2 DEF OneEach
  <2> QED
    BY <2>2, <2>3
<1>10. CheckedFirst'
  <2>1. checkedBlocks' \/ headersSent'
    <3>1. CASE headersSent
      <4>1. response' = response
        BY <1>2, <1>6, <3>1 DEF CallOutcome, RefusedByGate, BlockedByLists
      <4> QED
        BY <3>1, <4>1 DEF headersSent
    <3>2. CASE ~headersSent
      BY <1>2, <3>2 DEF CallOutcome
    <3> QED
      BY <3>1, <3>2
  <2>2. stats'.matches <= 1 /\ (~checkedBlocks' => stats'.matches = 0)
    <3>1. stats.matches <= 1 /\ (~checkedBlocks => stats.matches = 0) /\ stats.matches \in Nat
      BY <1>1 DEF Inv, CheckedFirst, Types, Stats
    <3>2. CASE stats'.matches = stats.matches
      <4>1. checkedBlocks => checkedBlocks'
        BY <1>2 DEF CallOutcome
      <4> QED
        BY <3>1, <3>2, <4>1
    <3>3. CASE ChecksBlocks /\ stats'.matches = stats.matches + 1
      <4>1. checkedBlocks'
        BY <1>2, <1>6, <3>3 DEF CallOutcome
      <4>2. stats.matches = 0
        BY <1>6, <3>1, <3>3
      <4> QED
        BY <3>3, <4>1, <4>2
    <3> QED
      BY <1>5, <3>2, <3>3
  <2> QED
    BY <2>1, <2>2 DEF CheckedFirst
<1>11. BlockIsFlagged'
  <2> SUFFICES ASSUME response'.by = "lists"
               PROVE  contexts'[handlers'[1]].blockedDueToIPOrBot
    BY <1>4 DEF BlockIsFlagged
  <2>1. CASE response' = response
    <3>1. handlers # << >> /\ contexts[handlers[1]].blockedDueToIPOrBot
      BY <2>1 DEF Inv, BlockIsFlagged
    <3>2. 1 \in DOMAIN handlers /\ handlers'[1] = handlers[1]
      BY <1>4, <3>1
    <3>3. handlers[1] \in DOMAIN contexts
      BY <1>1, <3>2 DEF HaveContexts
    <3> QED
      BY <1>2, <3>1, <3>2, <3>3 DEF CallOutcome, GoesOn, Keeps
  <2>2. CASE BlockedByLists(at)
    <3>1. handlers = << >>
      BY <1>6, <2>2 DEF Inv, CheckedFirst, BlockedByLists
    <3>2. handlers'[1] = at
      BY <1>4, <3>1
    <3> QED
      BY <2>2, <3>2 DEF BlockedByLists
  <2> QED
    BY <1>2, <2>1, <2>2 DEF CallOutcome, RefusedByGate
<1>12. NotYetCounted'
  BY <1>5 DEF Inv, NotYetCounted
<1>13. Bypassed'
  <2> SUFFICES ASSUME ~protected
               PROVE  Bypassed'
    BY DEF Bypassed
  <2>1. /\ config.ip = "bypassed" /\ Untaken(contexts)
        /\ response.by \in {"none", "app"} \/ (mode = "body" /\ response.by = "reader")
        /\ stats.requests = 0 /\ stats.rateLimited = 0
        /\ stats.waveChecks = 0 /\ stats.matches = 0
    BY DEF Inv, Bypassed, Untaken
  <2>2. response' = response
    BY <1>2, <2>1 DEF CallOutcome, RefusedByGate, BlockedByLists
  <2>3. Untaken(contexts')
    BY <1>2, <2>1 DEF CallOutcome
  <2> QED
    BY <1>5, <2>1, <2>2, <2>3 DEF Bypassed, Untaken
<1> QED
  BY <1>7, <1>8, <1>10, <1>11, <1>12, <1>13, <1>9, NothingCounted DEF Inv

\* What the application does to the context of its listener. Only the
\* middleware moves the listener, and may refuse the request.
Acts(l) ==
    /\ phase[l] = "running"
    /\ GoesOn(contexts', contexts)
    /\ Len(contexts') = Len(contexts)
    /\ Moves(l)
    /\ response' = response \/ RefusedByGate
    /\ LimitIsNoted(l, context[l])
    /\ config.ip = "bypassed" /\ Untaken(contexts) => Untaken(contexts')
    /\ UNCHANGED <<mode, config, finished, protected, context, handlers, checkedBlocks, stats>>

\* It keeps the invariant.
LEMMA ApplicationInv ==
    ASSUME Inv, ~finished, NEW l \in Listeners, Acts(l)
    PROVE  Inv'
<1> USE DEF Acts
<1>1. Types /\ HaveContexts
  BY DEF Inv
<1>2. /\ contexts \in Seq(Sound) /\ contexts' \in Seq(Sound)
      /\ DOMAIN contexts = DOMAIN contexts'
  BY <1>1 DEF Types, GoesOn
<1>3. Types'
  BY <1>1, <1>2 DEF Types, Moves
<1>4. HaveContexts'
  <2>1. ASSUME NEW k \in Listeners
        PROVE  /\ context'[k] <= Len(contexts')
               /\ phase'[k] = "running" => context'[k] # 0 /\ k \in appRan'
    BY <1>1 DEF HaveContexts, Moves
  <2>2. ASSUME NEW h \in DOMAIN handlers'
        PROVE  handlers'[h] \in DOMAIN contexts'
    BY <1>1, <1>2 DEF HaveContexts
  <2> QED
    BY <2>1, <2>2 DEF HaveContexts
<1>5. CheckedFirst'
  <2>1. checkedBlocks \/ headersSent
    BY <1>1 DEF Inv, CheckedFirst, HaveContexts
  <2>2. headersSent => headersSent'
    BY DEF headersSent, RefusedByGate, NotSent
  <2> QED
    BY <2>1, <2>2 DEF Inv, CheckedFirst
<1>6. BlockIsFlagged'
  <2> SUFFICES ASSUME response'.by = "lists"
               PROVE  handlers # << >> /\ contexts'[handlers[1]].blockedDueToIPOrBot
    BY DEF BlockIsFlagged
  <2>1. response' = response
    BY DEF RefusedByGate
  <2>2. handlers # << >> /\ contexts[handlers[1]].blockedDueToIPOrBot
    BY <2>1 DEF Inv, BlockIsFlagged
  <2>3. 1 \in DOMAIN handlers
    BY <1>1, <2>2, AppendFacts DEF Types
  <2>4. handlers[1] \in DOMAIN contexts
    BY <1>1, <2>3 DEF HaveContexts
  <2> QED
    BY <2>2, <2>4 DEF GoesOn, Keeps
<1>7. NotYetCounted' /\ OneEach'
  BY DEF Inv, NotYetCounted, OneEach, WithContext
<1>8. Bypassed'
  <2> SUFFICES ASSUME ~protected
               PROVE  Bypassed'
    BY DEF Bypassed
  <2>1. /\ config.ip = "bypassed" /\ Untaken(contexts)
        /\ response.by \in {"none", "app"} \/ (mode = "body" /\ response.by = "reader")
        /\ stats.requests = 0 /\ stats.rateLimited = 0
        /\ stats.waveChecks = 0 /\ stats.matches = 0
    BY DEF Inv, Bypassed, Untaken
  <2>2. response' = response /\ Untaken(contexts')
    BY <2>1 DEF RefusedByGate
  <2> QED
    BY <2>1, <2>2 DEF Bypassed, Untaken
<1> QED
  BY <1>3, <1>4, <1>5, <1>6, <1>7, <1>8, NothingCounted DEF Inv

\* A listener that runs has a context, a sound one.
LEMMA OwnContext ==
    ASSUME Types, HaveContexts, NEW l \in Listeners, phase[l] = "running"
    PROVE  context[l] \in 1 .. Len(contexts) /\ contexts[context[l]] \in Sound
  BY DEF Types, HaveContexts

\* The middleware acts, wherever it is installed.
LEMMA MiddlewareActs ==
    ASSUME Types, HaveContexts, NEW l \in Listeners, Middleware(l)
    PROVE  Acts(l)
<1> DEFINE c == contexts[context[l]]
<1>1. phase[l] = "running"
  BY DEF Middleware
<1>2. context[l] \in 1 .. Len(contexts) /\ c \in Sound /\ contexts \in Seq(Sound)
  BY <1>1, OwnContext DEF Types
<1>3. PICK user \in BOOLEAN, allowed \in BOOLEAN :
          Decided(l, context[l], shouldBlockRequest(c, user, allowed), contexts, {"pass"})
  BY DEF Middleware
<1>4. UNCHANGED <<mode, config, finished, protected, context, handlers, checkedBlocks, stats>>
  BY DEF Middleware
<1> DEFINE d == shouldBlockRequest(c, user, allowed)
<1>5. /\ d.then \in Sound /\ Keeps(d.then, c)
      /\ d.type = "ratelimited" => d.then.rateLimitedEndpoint
      /\ config.ip = "bypassed" => d.type = "pass" /\ d.then = c
  BY <1>2, DecisionSound
<1> HIDE DEF d
<1>6. /\ GoesOn(contexts', contexts) /\ Len(contexts') = Len(contexts)
      /\ config.ip = "bypassed" /\ Untaken(contexts) => Untaken(contexts')
      /\ Moves(l)
      /\ response' = response \/ RefusedByGate
      /\ LimitIsNoted(l, context[l])
  BY <1>2, <1>3, <1>5, DecidedFacts DEF d
<1> QED
  BY <1>1, <1>4, <1>6 DEF Acts

\* So does turning the protection off.
LEMMA BypassActs ==
    ASSUME Types, HaveContexts, NEW l \in Listeners, bypassRequest(l)
    PROVE  Acts(l)
<1> DEFINE c == contexts[context[l]]
           d == [c EXCEPT !.bypassRequest = TRUE]
<1>1. phase[l] = "running"
  BY DEF bypassRequest
<1>2. context[l] \in 1 .. Len(contexts) /\ c \in Sound /\ contexts \in Seq(Sound)
  BY <1>1, OwnContext DEF Types
<1>3. /\ contexts' = [contexts EXCEPT ![context[l]] = d]
      /\ UNCHANGED <<phase, response, appRan>>
      /\ UNCHANGED <<mode, config, finished, protected, context, handlers, checkedBlocks, stats>>
  BY DEF bypassRequest
<1>4. d \in Sound /\ d.taken = c.taken /\ Keeps(d, c)
  BY <1>2 DEF Sound, Context, Keeps
<1>5. Untaken(contexts) => d.taken = 0
  BY <1>2, <1>4 DEF Untaken
<1> HIDE DEF d
<1>6. /\ GoesOn(contexts', contexts) /\ Len(contexts') = Len(contexts)
      /\ Untaken(contexts) => Untaken(contexts')
  BY <1>2, <1>3, <1>4, <1>5, ChangeOne
<1>7. Moves(l)
  BY <1>1, <1>3 DEF Moves, Types, HaveContexts
<1>8. LimitIsNoted(l, context[l])
  BY <1>3 DEF LimitIsNoted
<1> QED
  BY <1>1, <1>3, <1>6, <1>7, <1>8 DEF Acts

\* An answer of the application or of the reader of the body, if any; what the
\* reader counts is no part of what the invariant counts.
AnswersOnly ==
    /\ phase' \in [Listeners -> {"idle", "running", "left"}]
    /\ \A k \in Listeners :
          /\ phase'[k] = "running" => phase[k] = "running"
          /\ phase'[k] = "idle" => phase[k] = "idle"
    /\ \/ response' = response
       \/ /\ ~headersSent
          /\ response'.by = "app" \/ (mode = "body" /\ response'.by = "reader")
    /\ stats' \in Stats
    /\ stats'.requests = stats.requests /\ stats'.rateLimited = stats.rateLimited
    /\ stats'.waveChecks = stats.waveChecks /\ stats'.matches = stats.matches
    /\ UNCHANGED <<mode, config, finished, protected, contexts, context, handlers,
                   checkedBlocks, appRan>>

\* A step that leaves the counts alone.
LEMMA SameStats ==
    ASSUME Types, stats' = stats
    PROVE  /\ stats' \in Stats
           /\ stats'.requests = stats.requests /\ stats'.rateLimited = stats.rateLimited
           /\ stats'.waveChecks = stats.waveChecks /\ stats'.matches = stats.matches
  BY DEF Types

\* What the reader and the application answer, and a nested call that begins to
\* read the body.
LEMMA AnswersAre ==
    ASSUME Types, NEW l \in Listeners,
           \/ RefuseTooLarge(l) \/ FailToRead(l) \/ Leave(l)
           \/ NestFailsToRead(l) /\ mode = "body"
           \/ Nest(l) /\ mode = "body"
    PROVE  AnswersOnly
<1>1. phase \in [Listeners -> {"idle", "running", "left"}] /\ stats \in Stats
  BY DEF Types
<1>2. CASE RefuseTooLarge(l)
  <2>1. /\ stats' \in Stats
        /\ stats'.requests = stats.requests /\ stats'.rateLimited = stats.rateLimited
        /\ stats'.waveChecks = stats.waveChecks /\ stats'.matches = stats.matches
    BY <1>1, <1>2 DEF RefuseTooLarge, Stats
  <2> QED
    BY <1>1, <1>2, <2>1 DEF AnswersOnly, RefuseTooLarge, Unread, ReaderUnchanged, Goes
<1>3. CASE FailToRead(l)
  BY <1>1, <1>3, SameStats DEF AnswersOnly, FailToRead, Unread, ReaderUnchanged, Goes
<1>4. CASE Leave(l)
  BY <1>1, <1>4, SameStats DEF AnswersOnly, Leave, Goes
<1>5. CASE NestFailsToRead(l) /\ mode = "body"
  BY <1>1, <1>5, SameStats DEF AnswersOnly, NestFailsToRead, Unread, ReaderUnchanged
<1>6. CASE Nest(l) /\ mode = "body"
  BY <1>1, <1>6, SameStats DEF AnswersOnly, Nest, gate
<1> QED
  BY <1>2, <1>3, <1>4, <1>5, <1>6

\* It keeps the invariant.
LEMMA AnswerInv ==
    ASSUME Inv, ~finished, AnswersOnly
    PROVE  Inv'
<1> USE DEF AnswersOnly
<1>1. Types /\ HaveContexts
  BY DEF Inv
<1>2. Types'
  BY <1>1 DEF Types
<1>3. HaveContexts'
  BY <1>1 DEF HaveContexts
<1>4. headersSent => headersSent'
  BY DEF headersSent, NotSent
<1>5. ~headersSent /\ response'.by \in {"app", "reader"} => headersSent'
  BY DEF headersSent, NotSent
<1>6. CheckedFirst'
  BY <1>4, <1>5 DEF Inv, CheckedFirst
<1>7. BlockIsFlagged' /\ NotYetCounted' /\ Bypassed' /\ OneEach'
  BY DEF Inv, BlockIsFlagged, NotYetCounted, Bypassed, OneEach, WithContext
<1> QED
  BY <1>2, <1>3, <1>6, <1>7, NothingCounted DEF Inv

\* A new configuration keeps the invariant.
LEMMA UpdateConfigInv ==
    ASSUME Inv, ~finished, UpdateConfig
    PROVE  Inv'
<1>1. /\ UNCHANGED <<mode, phase, contexts, context, handlers, checkedBlocks, response, stats,
                     finished, appRan>>
      /\ ~protected' => ~protected /\ config'.ip = "bypassed"
      /\ config' \in Configs
  BY DEF UpdateConfig, gate
<1>2. Types' /\ HaveContexts' /\ CheckedFirst'
  BY <1>1 DEF Inv, Types, HaveContexts, CheckedFirst, headersSent
<1>3. BlockIsFlagged' /\ NotYetCounted' /\ OneEach'
  BY <1>1 DEF Inv, BlockIsFlagged, NotYetCounted, OneEach, WithContext
<1>4. Bypassed'
  BY <1>1 DEF Inv, Bypassed
<1> QED
  BY <1>1, <1>2, <1>3, <1>4, NothingCounted DEF Inv

\* A set of which only 1 is a member.
LEMMA OneAtMost ==
    ASSUME NEW S, S \subseteq {1}
    PROVE  Cardinality(S) <= 1
<1>1. S = {} \/ S = {1}
  OBVIOUS
<1>2. Cardinality({}) = 0 /\ Cardinality({1}) = 1
  BY FS_EmptySet, FS_Singleton
<1>3. CASE S = {}
  <2>1. Cardinality(S) = 0
    BY <1>2, <1>3
  <2> QED
    BY <2>1
<1>4. CASE S = {1}
  <2>1. Cardinality(S) = 1
    BY <1>2, <1>4
  <2> QED
    BY <2>1
<1> QED
  BY <1>1, <1>3, <1>4

\* The handlers that count are finitely many.
LEMMA CountIsFinite ==
    ASSUME Types
    PROVE  \A S \in SUBSET Count : Cardinality(S) \in Nat
<1>1. Len(handlers) \in Nat /\ Count \subseteq 1 .. Len(handlers)
  BY DEF Count, Types
<1>2. IsFiniteSet(1 .. Len(handlers))
  BY <1>1, FS_Interval
<1>3. TAKE S \in SUBSET Count
<1>4. IsFiniteSet(S)
  <2>1. S \subseteq 1 .. Len(handlers)
    BY <1>1
  <2> QED
    BY <1>2, <2>1, FS_Subset
<1> QED
  BY <1>4, FS_CardinalityType

\* The statistics after adding to what was 0.
LEMMA AddedToNone ==
    ASSUME NEW s \in Stats, s.requests = 0, s.rateLimited = 0, s.waveChecks = 0,
           NEW r \in Nat, NEW m \in Nat, NEW w \in Nat
    PROVE  LET new == [s EXCEPT !.requests = @ + r, !.rateLimited = @ + m, !.waveChecks = @ + w]
           IN  /\ new.requests = r /\ new.rateLimited = m /\ new.waveChecks = w
               /\ new.matches = s.matches
               /\ new \in Stats
<1>1. s.requests + r = r /\ s.rateLimited + m = m /\ s.waveChecks + w = w
  OBVIOUS
<1> DEFINE one == [s EXCEPT !.requests = r]
           two == [one EXCEPT !.rateLimited = m]
           three == [two EXCEPT !.waveChecks = w]
<1>2. /\ one \in Stats /\ one.matches = s.matches
      /\ one.requests = r /\ one.rateLimited = 0 /\ one.waveChecks = 0
  BY DEF Stats
<1> HIDE DEF one
<1>3. /\ two \in Stats /\ two.matches = s.matches
      /\ two.requests = r /\ two.rateLimited = m /\ two.waveChecks = 0
  BY <1>2 DEF Stats
<1> HIDE DEF two
<1>4. /\ three \in Stats /\ three.matches = s.matches
      /\ three.requests = r /\ three.rateLimited = m /\ three.waveChecks = w
  BY <1>3 DEF Stats
<1>5. [s EXCEPT !.requests = @ + r, !.rateLimited = @ + m, !.waveChecks = @ + w] = three
  BY <1>1 DEF one, two
<1> QED
  BY <1>4, <1>5

\* How many of the handlers count something.
LEMMA FinishFacts ==
    ASSUME Inv, ~finished, Finish
    PROVE  \E requests, limited, checks \in SUBSET Count :
               /\ stats'.requests = Cardinality(requests)
               /\ stats'.rateLimited = Cardinality(limited)
               /\ stats'.waveChecks = Cardinality(checks)
               /\ stats'.matches = stats.matches
               /\ stats' \in Stats
               /\ config.ip = "bypassed" => requests = {} /\ limited = {} /\ checks = {}
               /\ \A h \in checks : ChecksWave(contexts[handlers[h]])
<1> DEFINE counting == {h \in Count : ~isBypassed(contexts[handlers[h]])}
           requests == {h \in counting : Discovered \/ contexts[handlers[h]].rateLimitedEndpoint}
           limited == {h \in counting : contexts[handlers[h]].rateLimitedEndpoint}
           checks == {h \in counting : ChecksWave(contexts[handlers[h]])}
<1>1. stats' = [stats EXCEPT !.requests = @ + Cardinality(requests),
                             !.rateLimited = @ + Cardinality(limited),
                             !.waveChecks = @ + Cardinality(checks)]
  BY DEF Finish
<1>2. /\ requests \in SUBSET Count /\ limited \in SUBSET Count /\ checks \in SUBSET Count
      /\ config.ip = "bypassed" => requests = {} /\ limited = {} /\ checks = {}
      /\ \A h \in checks : ChecksWave(contexts[handlers[h]])
  BY DEF isBypassed
<1>3. \A S \in SUBSET Count : Cardinality(S) \in Nat
  BY CountIsFinite DEF Inv
<1> HIDE DEF requests, limited, checks
<1>4. /\ stats \in Stats
      /\ stats.requests = 0 /\ stats.rateLimited = 0 /\ stats.waveChecks = 0
  BY DEF Inv, Types, NotYetCounted
<1>5. /\ Cardinality(requests) \in Nat /\ Cardinality(limited) \in Nat
      /\ Cardinality(checks) \in Nat
  BY <1>2, <1>3
<1> DEFINE r == Cardinality(requests)  m == Cardinality(limited)  w == Cardinality(checks)
<1>6. /\ r \in Nat /\ m \in Nat /\ w \in Nat
      /\ stats' = [stats EXCEPT !.requests = @ + r, !.rateLimited = @ + m, !.waveChecks = @ + w]
  BY <1>1, <1>5
<1> HIDE DEF r, m, w
<1>7. /\ stats'.requests = r /\ stats'.rateLimited = m /\ stats'.waveChecks = w
      /\ stats'.matches = stats.matches
      /\ stats' \in Stats
  <2> DEFINE new ==
          [stats EXCEPT !.requests = @ + r, !.rateLimited = @ + m, !.waveChecks = @ + w]
  <2>1. /\ new.requests = r /\ new.rateLimited = m /\ new.waveChecks = w
        /\ new.matches = stats.matches
        /\ new \in Stats
    BY <1>4, <1>6, AddedToNone
  <2>2. stats' = new
    BY <1>6
  <2> HIDE DEF new
  <2> QED
    BY <2>1, <2>2
<1> QED
  BY <1>2, <1>7 DEF r, m, w

\* The finished response is counted as the invariant says.
LEMMA FinishInv ==
    ASSUME Inv, ~finished, Finish
    PROVE  Inv'
<1>1. PICK requests \in SUBSET Count, limited \in SUBSET Count, checks \in SUBSET Count :
          /\ stats'.requests = Cardinality(requests)
          /\ stats'.rateLimited = Cardinality(limited)
          /\ stats'.waveChecks = Cardinality(checks)
          /\ stats'.matches = stats.matches
          /\ stats' \in Stats
          /\ config.ip = "bypassed" => requests = {} /\ limited = {} /\ checks = {}
          /\ \A h \in checks : ChecksWave(contexts[handlers[h]])
  BY FinishFacts
<1>2. /\ UNCHANGED <<mode, config, phase, contexts, context, handlers, checkedBlocks, response,
                     appRan, protected>>
      /\ finished'
  BY DEF Finish
<1>3. Types /\ HaveContexts /\ CheckedFirst /\ BlockIsFlagged /\ Bypassed
  BY DEF Inv
<1>4. stats.matches \in Nat /\ stats.matches <= 1
  BY <1>3 DEF Types, CheckedFirst, Stats
<1>5. Types' /\ HaveContexts' /\ CheckedFirst' /\ BlockIsFlagged'
  <2>1. Types'
    BY <1>1, <1>2, <1>3 DEF Types
  <2>2. HaveContexts' /\ CheckedFirst' /\ BlockIsFlagged'
    BY <1>1, <1>2, <1>3 DEF HaveContexts, CheckedFirst, BlockIsFlagged, headersSent
  <2> QED
    BY <2>1, <2>2
<1>6. NotYetCounted' /\ OneEach'
  BY <1>2 DEF NotYetCounted, Inv, OneEach, WithContext
<1>7. Bypassed'
  <2>1. Cardinality({}) = 0
    BY FS_EmptySet
  <2> QED
    BY <1>1, <1>2, <1>3, <2>1 DEF Bypassed
<1>8. CountedOnce'
  <2>1. ASSUME mode # "stream"
        PROVE  /\ Cardinality(requests) <= 1 /\ Cardinality(limited) <= 1
               /\ Cardinality(checks) <= 1
    <3>1. Count \subseteq {1}
      BY <2>1 DEF Count
    <3> QED
      BY <3>1, OneAtMost
  <2> QED
    BY <1>1, <1>2, <1>4, <2>1 DEF CountedOnce
<1>9. RequestBlockedNotChecked'
  <2> SUFFICES ASSUME mode # "stream", response.by = "lists"
               PROVE  stats'.waveChecks = 0
    BY <1>2 DEF RequestBlockedNotChecked, BlockedNotChecked
  <2>1. contexts[handlers[1]].blockedDueToIPOrBot
    BY <1>3 DEF BlockIsFlagged
  <2>2. Count \subseteq {1}
    BY DEF Count
  <2>3. checks = {}
    BY <1>1, <2>1, <2>2 DEF ChecksWave
  <2> QED
    BY <1>1, <2>3, FS_EmptySet
<1> QED
  BY <1>5, <1>6, <1>7, <1>8, <1>9 DEF Inv

\* Only a body is read again.
Reading ==
    /\ reading \in [Listeners -> Nat]
    /\ mode # "body" => \A l \in Listeners : reading[l] = 0

\* So it is at the start, and after every step.
LEMMA ReadingInit == Init => Reading
  BY DEF Init, Reading

LEMMA ReadingNext == Reading /\ [Next]_vars => Reading'
<1> SUFFICES ASSUME Reading, [Next]_vars
             PROVE  Reading'
  OBVIOUS
<1>1. ASSUME NEW l \in Listeners, Nest(l)
      PROVE  Reading'
  <2>1. CASE mode = "body"
    BY <1>1, <2>1 DEF Reading, Nest
  <2>2. CASE mode # "body"
    <3>1. UNCHANGED <<mode, reading>>
      BY <1>1, <2>2 DEF Nest
    <3> QED
      BY <3>1 DEF Reading
  <2> QED
    BY <2>1, <2>2
<1>2. ASSUME NEW l \in Listeners, NestRead(l) \/ NestFailsToRead(l)
      PROVE  Reading'
  <2>1. /\ reading[l] > 0 /\ reading' = [reading EXCEPT ![l] = @ - 1]
        /\ mode' = mode
    BY <1>2 DEF NestRead, NestFailsToRead, ReaderUnchanged
  <2> QED
    BY <2>1 DEF Reading
<1>3. ASSUME NEW l \in Listeners,
             \/ Enter(l) \/ RefuseTooLarge(l) \/ FailToRead(l)
             \/ Middleware(l) \/ Leave(l) \/ bypassRequest(l)
      PROVE  Reading'
  <2>1. UNCHANGED <<mode, reading>>
    BY <1>3 DEF Enter, RefuseTooLarge, FailToRead, ReaderUnchanged, Middleware, Leave,
       bypassRequest
  <2> QED
    BY <2>1 DEF Reading
<1>4. CASE UpdateConfig \/ Finish \/ UNCHANGED vars
  BY <1>4 DEF UpdateConfig, Finish, vars, Reading
<1> QED
  BY <1>1, <1>2, <1>3, <1>4 DEF Next

\* A call inside of another begins at once, or with the reading.
LEMMA NestCalls ==
    ASSUME NEW l \in Listeners, Nest(l)
    PROVE  mode = "body" \/ Call(l)
  BY DEF Nest

\* Every step keeps the invariant.
LEMMA NextInv == Inv /\ Reading /\ [Next]_vars => Inv'
<1> SUFFICES ASSUME Inv, Reading, [Next]_vars
             PROVE  Inv'
  OBVIOUS
<1> Types
  BY DEF Inv
<1>1. ASSUME ~finished, NEW l \in Listeners, Enter(l) \/ NestRead(l)
      PROVE  Inv'
  BY <1>1, CallInv DEF Enter, NestRead
<1>2. ASSUME ~finished, NEW l \in Listeners, RefuseTooLarge(l) \/ FailToRead(l) \/ Leave(l)
      PROVE  Inv'
  BY <1>2, AnswersAre, AnswerInv
<1>3. ASSUME ~finished, NEW l \in Listeners, Nest(l)
      PROVE  Inv'
  <2>1. CASE mode = "body"
    BY <1>3, <2>1, AnswersAre, AnswerInv
  <2>2. CASE mode # "body"
    <3>1. Call(l) /\ UNCHANGED <<mode, config, finished, protected>>
      BY <1>3, <2>2 DEF Nest
    <3> QED
      BY <1>3, <3>1, CallInv
  <2> QED
    BY <2>1, <2>2
<1>4. ASSUME ~finished, NEW l \in Listeners, Middleware(l) \/ bypassRequest(l)
      PROVE  Inv'
  BY <1>4, MiddlewareActs, BypassActs, ApplicationInv DEF Inv
<1>5. ASSUME ~finished, NEW l \in Listeners, NestFailsToRead(l)
      PROVE  Inv'
  <2>1. mode = "body"
    BY <1>5 DEF NestFailsToRead, Reading
  <2> QED
    BY <1>5, <2>1, AnswersAre, AnswerInv
<1>6. CASE UNCHANGED vars
  BY <1>6 DEF vars, gate, Inv, Types, HaveContexts, OneEach, WithContext, CheckedFirst,
     BlockIsFlagged, headersSent, NotYetCounted, Bypassed, CountedOnce, RequestBlockedNotChecked,
     BlockedNotChecked
<1> QED
  BY <1>1, <1>2, <1>3, <1>4, <1>5, <1>6, UpdateConfigInv, FinishInv DEF Next

-----------------------------------------------------------------------------
(* The theorems.                                                           *)

\* The invariant holds what is checked.
LEMMA InvImplies ==
    Inv => TypeOK /\ LimitTakenOnce /\ BypassedLeftAlone
<1> SUFFICES ASSUME Inv
             PROVE  TypeOK /\ LimitTakenOnce /\ BypassedLeftAlone
  OBVIOUS
<1>1. \A i \in DOMAIN contexts : contexts[i] \in Sound
  BY DEF Inv, Types
<1>2. LimitTakenOnce
  BY <1>1 DEF Sound, LimitTakenOnce
<1>4. BypassedLeftAlone
  BY DEF Inv, Bypassed, BypassedLeftAlone
<1>5. TypeOK
  <2>1. Len(contexts) <= Cardinality(Listeners)
    <3>1. Cardinality(WithContext) <= Cardinality(Listeners)
      BY WithContextIsFinite, FS_Subset DEF WithContext
    <3> QED
      BY <3>1 DEF Inv, OneEach
  <2>2. \A l \in Listeners : context[l] \in 0 .. Len(contexts)
    BY DEF Inv, Types, HaveContexts
  <2> QED
    BY <2>1, <2>2 DEF Inv, Types, HaveContexts, TypeOK
<1> QED
  BY <1>2, <1>4, <1>5

\* It holds always.
LEMMA InvAlways == Spec => [](Inv /\ Reading)
<1>1. Init => Inv /\ Reading
  BY InitInv, ReadingInit
<1>2. Inv /\ Reading /\ [Next]_vars => (Inv /\ Reading)'
  BY NextInv, ReadingNext
<1> QED
  BY <1>1, <1>2, PTL DEF Spec

\* The types, and that every listener and handler has a context, of which there
\* are no more than listeners.
THEOREM TypeCorrect == Spec => []TypeOK
<1>1. Inv => TypeOK
  BY InvImplies
<1> QED
  BY <1>1, InvAlways, PTL

\* createRequestListener.ts, onFinishRequestHandler and blockIPsAndBots: however
\* many listeners handle a request, it is counted and matched once.
THEOREM RequestIsCountedOnce == Spec => []CountedOnce
<1>1. Inv => CountedOnce
  BY DEF Inv
<1> QED
  BY <1>1, InvAlways, PTL

\* shouldRateLimitRequest.ts: a listener takes the limit once, however often
\* the middleware is installed.
THEOREM LimitIsTakenOnce == Spec => []LimitTakenOnce
<1>1. Inv => LimitTakenOnce
  BY InvImplies
<1> QED
  BY <1>1, InvAlways, PTL

\* A request that is bypassed all its life takes nothing of a limit, is refused
\* neither by the limiter nor by the lists, and is not counted, matched or
\* checked for a wave. What remains is the reader of the body, which refuses a
\* body that is too large, and counts that, as it does for any other request.
THEOREM BypassedIsLeftAlone == Spec => []BypassedLeftAlone
<1>1. Inv => BypassedLeftAlone
  BY InvImplies
<1> QED
  BY <1>1, InvAlways, PTL

\* createRequestListener.ts:92: a request the lists block does not count for an
\* attack wave.
THEOREM BlockedIsNotChecked == Spec => []RequestBlockedNotChecked
<1>1. Inv => RequestBlockedNotChecked
  BY DEF Inv
<1> QED
  BY <1>1, InvAlways, PTL

-----------------------------------------------------------------------------
(* The lists block before any application code runs, or not at all.        *)

\* Only a call has the lists block, and only as the first that asks them.
LEMMA BlockingStep ==
    ASSUME Inv, Next, response' # response, response'.by = "lists"
    PROVE  appRan = {}
<1>1. ASSUME NEW l \in Listeners, Call(l)
      PROVE  appRan = {}
  <2>1. PICK at : CallOutcome(l, at)
    BY <1>1, CallFacts DEF Inv
  <2>2. BlockedByLists(at)
    BY <2>1 DEF CallOutcome, RefusedByGate
  <2> QED
    BY <2>2 DEF BlockedByLists, ChecksBlocks, Inv, CheckedFirst
<1>2. ASSUME NEW l \in Listeners, Middleware(l)
      PROVE  FALSE
  BY <1>2 DEF Middleware, Decided, Refusal
<1>3. ASSUME NEW l \in Listeners,
             RefuseTooLarge(l) \/ FailToRead(l) \/ NestFailsToRead(l) \/ Leave(l)
      PROVE  FALSE
  BY <1>3 DEF RefuseTooLarge, FailToRead, NestFailsToRead, Unread, Leave
<1>4. ASSUME NEW l \in Listeners, bypassRequest(l)
      PROVE  FALSE
  BY <1>4 DEF bypassRequest
<1>6. ASSUME NEW l \in Listeners, Nest(l), ~Call(l)
      PROVE  FALSE
  BY <1>6 DEF Nest, gate
<1>5. ~UpdateConfig /\ ~Finish
  BY DEF UpdateConfig, Finish, gate
<1> QED
  BY <1>1, <1>2, <1>3, <1>4, <1>5, <1>6 DEF Next, Enter, NestRead

\* blockIPsAndBots.ts: a new configuration does not cut off a request that the
\* application has seen.
THEOREM BlockedIsNotHandled == Spec => BlockedBeforeHandled
<1>1. Inv /\ [Next]_vars =>
          [response # response' /\ response'.by = "lists" => appRan = {}]_vars
  BY BlockingStep DEF vars, gate
<1> QED
  BY <1>1, InvAlways, PTL DEF Spec, BlockedBeforeHandled

-----------------------------------------------------------------------------
(* A refusal because of the limit is counted.                              *)

\* The server calls a listener once.
IdleIsNew == \A l \in Listeners : phase[l] = "idle" => context[l] = 0

\* The handlers hold the contexts of the listeners, all of them.
Held ==
    /\ \A h \in DOMAIN handlers : \E l \in Listeners : handlers[h] = context[l]
    /\ \A l \in Listeners : context[l] # 0 => \E h \in DOMAIN handlers : handlers[h] = context[l]

\* Of a stream all handlers count, and each for a listener of its own.
ApartInStream ==
    mode = "stream" => \A g, h \in DOMAIN handlers : handlers[g] = handlers[h] => g = h

\* The listener that refused the request has a context that tells of the limit.
RefusalIsNoted ==
    response.by = "gate" /\ response.status = 429 =>
        /\ response.listener \in Listeners
        /\ context[response.listener] # 0
        /\ contexts[context[response.listener]].rateLimitedEndpoint

LimitInv == IdleIsNew /\ Held /\ ApartInStream /\ RefusalIsNoted

\* What was noted stays noted: contexts go on, and a listener keeps its own.
LEMMA RefusalStaysNoted ==
    ASSUME Types, HaveContexts, RefusalIsNoted, GoesOn(contexts', contexts),
           response' = response,
           \A l \in Listeners : context[l] # 0 => context'[l] = context[l]
    PROVE  RefusalIsNoted'
<1> DEFINE l == response.listener
<1> SUFFICES ASSUME response.by = "gate", response.status = 429
             PROVE  /\ l \in Listeners /\ context'[l] # 0
                    /\ contexts'[context'[l]].rateLimitedEndpoint
  BY DEF RefusalIsNoted
<1>1. l \in Listeners /\ context[l] # 0 /\ contexts[context[l]].rateLimitedEndpoint
  BY DEF RefusalIsNoted
<1>2. context'[l] = context[l] /\ context[l] \in DOMAIN contexts
  BY <1>1 DEF Types, HaveContexts
<1> QED
  BY <1>1, <1>2 DEF GoesOn, Keeps

\* A step that calls no listener leaves the handlers what they hold.
LEMMA NoCallKeepsLimit ==
    ASSUME LimitInv, UNCHANGED <<mode, context, handlers>>, RefusalIsNoted',
           \A l \in Listeners : phase'[l] = "idle" => phase[l] = "idle"
    PROVE  LimitInv'
  BY DEF LimitInv, IdleIsNew, Held, ApartInStream

\* A call adds the handler of its listener, which for a stream is its first one.
LEMMA CallKeepsLimit ==
    ASSUME Types, HaveContexts, LimitInv, NEW l \in Listeners, Call(l), mode' = mode,
           mode = "stream" => context[l] = 0
    PROVE  LimitInv'
<1>1. PICK at : CallOutcome(l, at)
  BY CallFacts
<1>2. /\ contexts \in Seq(Sound) /\ contexts' \in Seq(Sound)
      /\ Len(contexts) \in Nat /\ Len(contexts') \in Nat
      /\ DOMAIN contexts = 1 .. Len(contexts) /\ at \in 1 .. Len(contexts')
      /\ GoesOn(contexts', contexts)
  BY <1>1 DEF Types, CallOutcome, GoesOn
<1>3. /\ context \in [Listeners -> Nat] /\ context' = [context EXCEPT ![l] = at]
      /\ at \in Nat /\ at # 0
      /\ at = IF context[l] = 0 THEN Len(contexts) + 1 ELSE context[l]
  BY <1>1, <1>2 DEF Types, CallOutcome
<1>4. /\ DOMAIN handlers = 1 .. Len(handlers) /\ DOMAIN handlers' = 1 .. Len(handlers) + 1
      /\ \A h \in DOMAIN handlers : handlers'[h] = handlers[h]
      /\ handlers'[Len(handlers) + 1] = at
      /\ Len(handlers) \in Nat
  <2>1. handlers \in Seq(Nat) /\ handlers' = Append(handlers, at)
    BY <1>1 DEF Types, CallOutcome
  <2> QED
    BY <1>3, <2>1, AppendFacts
<1>5. \A k \in Listeners : context[k] # 0 => context'[k] = context[k]
  BY <1>3
<1>6. IdleIsNew'
  <2> SUFFICES ASSUME NEW k \in Listeners, phase'[k] = "idle"
               PROVE  context'[k] = 0
    BY DEF IdleIsNew
  <2>1. k # l /\ phase'[k] = phase[k]
    BY <1>1 DEF CallOutcome, Moves
  <2> QED
    BY <1>3, <2>1 DEF LimitInv, IdleIsNew
<1>7. Held'
  <2>1. ASSUME NEW h \in DOMAIN handlers'
        PROVE  \E k \in Listeners : handlers'[h] = context'[k]
    <3>1. CASE h \in DOMAIN handlers
      <4>1. PICK k \in Listeners : handlers[h] = context[k]
        BY <3>1 DEF LimitInv, Held
      <4>2. context[k] # 0
        BY <1>2, <3>1, <4>1 DEF HaveContexts
      <4> QED
        BY <1>4, <1>5, <3>1, <4>1, <4>2
    <3>2. CASE h = Len(handlers) + 1
      BY <1>3, <1>4, <3>2
    <3> QED
      BY <1>4, <3>1, <3>2
  <2>2. ASSUME NEW k \in Listeners, context'[k] # 0
        PROVE  \E h \in DOMAIN handlers' : handlers'[h] = context'[k]
    <3>1. CASE k = l
      BY <1>3, <1>4, <3>1
    <3>2. CASE k # l
      <4>1. context'[k] = context[k]
        BY <1>3, <3>2
      <4>2. PICK h \in DOMAIN handlers : handlers[h] = context[k]
        BY <2>2, <4>1 DEF LimitInv, Held
      <4> QED
        BY <1>4, <4>1, <4>2
    <3> QED
      BY <3>1, <3>2
  <2> QED
    BY <2>1, <2>2 DEF Held
<1>8. ApartInStream'
  <2> SUFFICES ASSUME mode = "stream"
               PROVE  \A g, h \in DOMAIN handlers' : handlers'[g] = handlers'[h] => g = h
    BY DEF ApartInStream
  <2>1. at = Len(contexts) + 1
    BY <1>3
  <2>2. \A h \in DOMAIN handlers : handlers[h] # at
    BY <1>2, <2>1 DEF HaveContexts
  <2>3. \A g, h \in DOMAIN handlers : handlers[g] = handlers[h] => g = h
    BY DEF LimitInv, ApartInStream
  <2> QED
    BY <1>4, <2>2, <2>3
<1>9. RefusalIsNoted'
  <2>1. CASE response' = response
    BY <1>2, <1>5, <2>1, RefusalStaysNoted DEF LimitInv
  <2>2. CASE response' # response
    BY <1>1, <1>3, <2>2 DEF CallOutcome, LimitIsNoted, RefusalIsNoted
  <2> QED
    BY <2>1, <2>2
<1> QED
  BY <1>6, <1>7, <1>8, <1>9 DEF LimitInv

\* What the application does to its context leaves the handlers alone.
LEMMA ApplicationKeepsLimit ==
    ASSUME Types, HaveContexts, LimitInv, NEW l \in Listeners, Acts(l)
    PROVE  LimitInv'
<1>1. context[l] # 0
  BY DEF Acts, HaveContexts
<1>2. UNCHANGED <<mode, context, handlers>> /\ GoesOn(contexts', contexts)
  BY DEF Acts
<1>3. \A k \in Listeners : phase'[k] = "idle" => phase[k] = "idle"
  BY DEF Acts, Moves
<1>4. RefusalIsNoted'
  <2>1. CASE response' = response
    BY <1>2, <2>1, RefusalStaysNoted DEF LimitInv
  <2>2. CASE response' # response
    BY <1>1, <1>2, <2>2 DEF Acts, LimitIsNoted, RefusalIsNoted
  <2> QED
    BY <2>1, <2>2
<1> QED
  BY <1>2, <1>3, <1>4, NoCallKeepsLimit

\* An answer that is not the gate's refuses nothing.
LEMMA AnswerKeepsLimit ==
    ASSUME LimitInv, AnswersOnly
    PROVE  LimitInv'
<1>1. \A k \in Listeners : phase'[k] = "idle" => phase[k] = "idle"
  BY DEF AnswersOnly
<1>2. UNCHANGED <<mode, contexts, context, handlers>>
  BY DEF AnswersOnly
<1>3. RefusalIsNoted'
  BY <1>2 DEF AnswersOnly, LimitInv, RefusalIsNoted
<1> QED
  BY <1>1, <1>2, <1>3, NoCallKeepsLimit

\* Every step keeps what a refusal is counted by.
LEMMA LimitNext == Inv /\ Reading /\ LimitInv /\ [Next]_vars => LimitInv'
<1> SUFFICES ASSUME Inv, Reading, LimitInv, [Next]_vars
             PROVE  LimitInv'
  OBVIOUS
<1>1. Types /\ HaveContexts
  BY DEF Inv
<1>2. ASSUME NEW l \in Listeners, Enter(l)
      PROVE  LimitInv'
  <2>1. context[l] = 0 /\ mode' = mode /\ Call(l)
    BY <1>2 DEF Enter, LimitInv, IdleIsNew
  <2> QED
    BY <1>1, <2>1, CallKeepsLimit
<1>3. ASSUME NEW l \in Listeners, Nest(l) \/ NestRead(l), Call(l)
      PROVE  LimitInv'
  <2>1. mode # "stream" /\ mode' = mode
    BY <1>3 DEF Nest, NestRead, Reading
  <2> QED
    BY <1>1, <1>3, <2>1, CallKeepsLimit
<1>4. ASSUME NEW l \in Listeners,
             \/ RefuseTooLarge(l) \/ FailToRead(l) \/ NestFailsToRead(l) \/ Leave(l)
             \/ Nest(l) /\ mode = "body"
      PROVE  LimitInv'
  <2>1. NestFailsToRead(l) => mode = "body"
    BY DEF NestFailsToRead, Reading
  <2> QED
    BY <1>1, <1>4, <2>1, AnswersAre, AnswerKeepsLimit
<1>5. ASSUME NEW l \in Listeners, Middleware(l) \/ bypassRequest(l)
      PROVE  LimitInv'
  <2>1. Acts(l)
    BY <1>1, <1>5, MiddlewareActs, BypassActs
  <2> QED
    BY <1>1, <2>1, ApplicationKeepsLimit
<1>6. CASE UpdateConfig \/ Finish \/ UNCHANGED vars
  <2>1. UNCHANGED <<mode, phase, contexts, context, handlers, response>>
    BY <1>6 DEF UpdateConfig, Finish, vars, gate
  <2>2. RefusalIsNoted'
    BY <2>1 DEF LimitInv, RefusalIsNoted
  <2> QED
    BY <2>1, <2>2, NoCallKeepsLimit
<1>7. \A l \in Listeners : NestRead(l) => Call(l)
  BY DEF NestRead
<1> QED
  BY <1>2, <1>3, <1>4, <1>5, <1>6, <1>7, NestCalls DEF Next

\* It holds at the start, where nothing was sent.
LEMMA LimitInit == Init => LimitInv
<1> SUFFICES ASSUME Init
             PROVE  LimitInv
  OBVIOUS
<1>1. handlers = << >> /\ response.by = "none" /\ \A l \in Listeners : context[l] = 0
  BY DEF Init, NotSent
<1>2. DOMAIN handlers = {}
  BY <1>1
<1> QED
  BY <1>1, <1>2 DEF LimitInv, IdleIsNew, Held, ApartInStream, RefusalIsNoted

\* Where only one listener has a context, one handler counts, and it holds that.
LEMMA OneCounts ==
    ASSUME Types, HaveContexts, LimitInv, NEW l \in Listeners, context[l] # 0,
           \A k \in Listeners \ {l} : context[k] = 0
    PROVE  \E h : Count = {h} /\ handlers[h] = context[l]
<1>1. \A h \in DOMAIN handlers : handlers[h] = context[l]
  <2> SUFFICES ASSUME NEW h \in DOMAIN handlers
               PROVE  handlers[h] = context[l]
    OBVIOUS
  <2>1. PICK k \in Listeners : handlers[h] = context[k]
    BY DEF LimitInv, Held
  <2>2. handlers[h] # 0
    BY DEF HaveContexts, Types
  <2> QED
    BY <2>1, <2>2
<1>2. PICK g \in DOMAIN handlers : handlers[g] = context[l]
  BY DEF LimitInv, Held
<1>3. CASE mode = "stream"
  <2>1. DOMAIN handlers = {g}
    BY <1>1, <1>3 DEF LimitInv, ApartInStream
  <2> QED
    BY <1>2, <1>3, <2>1 DEF Count
<1>4. CASE mode # "stream"
  <2>1. DOMAIN handlers = 1 .. Len(handlers) /\ Len(handlers) \in Nat
    BY DEF Types
  <2>2. 1 \in DOMAIN handlers
    BY <1>2, <2>1
  <2>3. Count = {1}
    BY <1>4, <2>2 DEF Count
  <2> QED
    BY <1>1, <2>2, <2>3
<1> QED
  BY <1>3, <1>4

\* What the finish handlers count of a refusal.
LEMMA RefusalIsCounted ==
    ASSUME Inv, LimitInv, ~finished, Finish,
           response.by = "gate", response.status = 429,
           \A k \in Listeners \ {response.listener} : context[k] = 0,
           ~isBypassed(contexts[context[response.listener]])
    PROVE  stats'.rateLimited = 1 /\ stats'.requests = 1
<1> DEFINE l == response.listener
           counting == {h \in Count : ~isBypassed(contexts[handlers[h]])}
           requests == {h \in counting : Discovered \/ contexts[handlers[h]].rateLimitedEndpoint}
           limited == {h \in counting : contexts[handlers[h]].rateLimitedEndpoint}
           checks == {h \in counting : ChecksWave(contexts[handlers[h]])}
<1>1. l \in Listeners /\ context[l] # 0 /\ contexts[context[l]].rateLimitedEndpoint
  BY DEF LimitInv, RefusalIsNoted
<1>2. PICK h : Count = {h} /\ handlers[h] = context[l]
  BY <1>1, OneCounts DEF Inv
<1>3. counting = {h} /\ requests = {h} /\ limited = {h}
  BY <1>1, <1>2
<1>4. stats' = [stats EXCEPT !.requests = @ + Cardinality(requests),
                             !.rateLimited = @ + Cardinality(limited),
                             !.waveChecks = @ + Cardinality(checks)]
  BY DEF Finish
<1>5. Cardinality({h}) = 1
  BY FS_Singleton
<1>6. Cardinality(checks) \in Nat
  BY CountIsFinite DEF Inv
<1> DEFINE w == Cardinality(checks)
<1> HIDE DEF w, counting, requests, limited
<1> DEFINE r == 1  m == 1
<1>7. stats' = [stats EXCEPT !.requests = @ + r, !.rateLimited = @ + m, !.waveChecks = @ + w]
  BY <1>3, <1>4, <1>5 DEF w
<1>8. /\ stats \in Stats
      /\ stats.requests = 0 /\ stats.rateLimited = 0 /\ stats.waveChecks = 0
  BY DEF Inv, Types, NotYetCounted
<1>9. w \in Nat /\ r \in Nat /\ m \in Nat
  BY <1>6 DEF w
<1> DEFINE new == [stats EXCEPT !.requests = @ + r, !.rateLimited = @ + m, !.waveChecks = @ + w]
<1> HIDE DEF r, m
<1>10. /\ new.requests = r /\ new.rateLimited = m /\ new.waveChecks = w
       /\ new.matches = stats.matches
       /\ new \in Stats
  BY <1>8, <1>9, AddedToNone
<1> HIDE DEF new
<1> QED
  BY <1>7, <1>10 DEF new, r, m

\* createRequestListener.ts, onFinishRequestHandler: on a server with one
\* listener a request that is refused because of the limit is counted as such,
\* in whichever nested listener that happened.
THEOREM LimitedAreCounted == Spec => LimitedIsCounted
<1> DEFINE Counted ==
        (/\ finished # finished'
         /\ response.by = "gate" /\ response.status = 429
         /\ \A k \in Listeners \ {response.listener} : context[k] = 0
         /\ ~isBypassed(contexts[context[response.listener]]))
            => stats'.rateLimited = 1 /\ stats'.requests = 1
<1>1. Init => Inv /\ Reading /\ LimitInv
  BY InitInv, ReadingInit, LimitInit
<1>2. Inv /\ Reading /\ LimitInv /\ [Next]_vars => (Inv /\ Reading /\ LimitInv)'
  BY NextInv, ReadingNext, LimitNext
<1>3. Inv /\ LimitInv /\ [Next]_vars => [Counted]_vars
  <2> SUFFICES ASSUME Inv, LimitInv, Next
               PROVE  finished # finished' => ~finished /\ Finish
    BY RefusalIsCounted
  <2> QED
    BY DEF Next, Enter, RefuseTooLarge, FailToRead, ReaderUnchanged, Nest, NestRead,
       NestFailsToRead, Middleware, Leave, bypassRequest, UpdateConfig
<1> QED
  BY <1>1, <1>2, <1>3, PTL DEF Spec, LimitedIsCounted
=============================================================================
