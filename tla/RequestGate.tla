----------------------------- MODULE RequestGate -----------------------------
(***************************************************************************)
(* One request on its way through the listeners of an HTTP server that the *)
(* agent has wrapped (createRequestListener.ts, createStreamListener.ts),  *)
(* the block lists (blockIPsAndBots.ts), the rate limiting middleware      *)
(* (shouldBlockRequest.ts, shouldRateLimitRequest.ts) and the handlers     *)
(* that count it when the response is finished.                            *)
(*                                                                         *)
(* A server may have several listeners, which get a context object each; a *)
(* listener may call another wrapped listener (a framework's), which       *)
(* shares its context (Context.ts, runWithContext).  The application       *)
(* decides what it does with the request and when; the configuration may   *)
(* change under way.  Requests meet only in the rate limiter and the       *)
(* attack wave detector, which have models of their own; the limiter may   *)
(* answer anything here.  The request has a route, a method and an address *)
(* and is not of a kind that shouldDiscoverRoute leaves out.  What a       *)
(* context tells of the user input is in UserInput.                        *)
(***************************************************************************)
EXTENDS Naturals, Sequences, FiniteSets

CONSTANTS
    Listeners,      \* 1 .. n: a server has so many listeners or less, called in this order
    MaxNested,      \* bound of the wrapped listeners called inside of each
    Configs,        \* configurations: [ip, user, limited]
    MaxUpdates      \* bound of the changes of the configuration

ASSUME ListenersAssumption ==
    IsFiniteSet(Listeners) /\ Listeners = 1 .. Cardinality(Listeners)

\* ip: what the lists say of the address, "local" for localhost in production;
\* user: what they say of the user; limited: an endpoint limits the rate.
ASSUME ConfigsAssumption ==
    Configs \subseteq [ip : {"allowed", "blocked", "bypassed", "local"},
                       user : {"allowed", "blocked", "excluded"}, limited : BOOLEAN]

VARIABLES
    mode,           \* "plain", "body" (Next.js, micro: the body is read first) or "stream" (HTTP/2)
    config, updates,
    phase,          \* where each listener is
    nested,         \* number of listeners called inside of each
    reading,        \* how many of these have not yet read the body
    contexts,       \* context objects in the order they were made
    context,        \* the index of the context each listener runs in, 0 for none
    handlers,       \* finish handlers: the indices of the contexts they hold
    checkedBlocks,
    response,       \* [by, status, listener]: what was sent, by whom and in which listener
    finished,
    stats,          \* [requests, rateLimited, waveChecks, matches, aborted]
    appRan,         \* history: the listeners whose application code ran
    protected       \* history: a configuration of the request's life did not bypass it

gate == <<contexts, context, handlers, checkedBlocks, response, stats>>
vars == <<mode, config, updates, phase, nested, reading, gate, finished, appRan, protected>>

NotSent == [by |-> "none", status |-> 0, listener |-> 0]

headersSent == response # NotSent

\* taken: history, how often the limit was taken.
NewContext ==
    [blockedDueToIPOrBot |-> FALSE, consumedRateLimit |-> FALSE, rateLimitedEndpoint |-> FALSE,
     bypassRequest |-> FALSE, taken |-> 0]

\* The lists are not asked.
BypassedByApp(c) == c.bypassRequest
isBypassed(c) == c.bypassRequest \/ config.ip = "bypassed"

Init ==
    /\ mode \in {"plain", "body", "stream"}
    /\ config \in Configs
    /\ updates = 0
    /\ \E n \in Listeners : phase = [l \in Listeners |-> IF l <= n THEN "idle" ELSE "left"]
    /\ nested = [l \in Listeners |-> 0]
    /\ reading = [l \in Listeners |-> 0]
    /\ contexts = << >>
    /\ context = [l \in Listeners |-> 0]
    /\ handlers = << >>
    /\ checkedBlocks = FALSE
    /\ response = NotSent
    /\ finished = FALSE
    /\ stats = [requests |-> 0, rateLimited |-> 0, waveChecks |-> 0, matches |-> 0,
                aborted |-> 0]
    /\ appRan = {}
    /\ protected = (config.ip # "bypassed")

\* Listeners are called in one go, unless they read the body first.
Between ==
    \/ mode = "body"
    \/ \A l \in Listeners : phase[l] # "idle"
    \/ \A l \in Listeners : context[l] = 0

-----------------------------------------------------------------------------
(* The context, and the two decisions of the gate.                         *)

\* A context of its own for each call.
RunInNew(l) == [all |-> Append(contexts, NewContext), at |-> Len(contexts) + 1]
\* The contexts, and the index of the one to run in. All that is told apart of
\* a context stays when a listener is called inside of another.
runWithContext(l) ==
    IF context[l] = 0 THEN [all |-> Append(contexts, NewContext), at |-> Len(contexts) + 1]
    ELSE [all |-> contexts, at |-> context[l]]

\* Without the flag.
CheckAlways == ~headersSent
ChecksBlocks == ~headersSent /\ ~checkedBlocks

\* blockIPsAndBots: all lists, of addresses and of user agents, in one.
Blocks(c) == ChecksBlocks /\ ~isBypassed(c) /\ config.ip = "blocked"
Matches(c) == ChecksBlocks /\ ~isBypassed(c)

\* Whether the rate limiter is asked, without the flag and with it.
TakesAgain(c, user) ==
    config.limited /\ config.ip # "local" /\ ~(user /\ config.user = "excluded")
Takes(c, user) == ~c.consumedRateLimit /\ TakesAgain(c, user)

\* A decision and the context after it.
Decision(type, c) == [type |-> type, then |-> c]

\* Whether the application has named a user, and whether the limiter allows the
\* group, the user or else the address.
shouldRateLimitRequest(c, user, allowed) ==
    LET consumed == [c EXCEPT !.consumedRateLimit = TRUE]
        charged == [consumed EXCEPT !.taken = @ + 1]
    IN  IF ~Takes(c, user) THEN Decision("pass", consumed)
        ELSE IF allowed THEN Decision("pass", charged)
        ELSE Decision("ratelimited", [charged EXCEPT !.rateLimitedEndpoint = TRUE])

shouldBlockRequest(c, user, allowed) ==
    IF isBypassed(c) THEN Decision("pass", c)
    ELSE IF user /\ config.user = "blocked" THEN Decision("blocked", c)
    ELSE shouldRateLimitRequest(c, user, allowed)

Refusal(l, type) ==
    [by |-> "gate", status |-> IF type = "ratelimited" THEN 429 ELSE 403, listener |-> l]

-----------------------------------------------------------------------------
(* A listener is called, by the server or inside of another one.           *)

Goes(l, p) == phase' = [phase EXCEPT ![l] = p]

\* The decision d of the rate limiter for listener l in context i.  Headers that
\* are already sent make the refusal throw.
Decided(l, i, d, all, stays) ==
    /\ contexts' = [all EXCEPT ![i] = d.then]
    /\ IF d.type \in stays
       THEN UNCHANGED response /\ Goes(l, "running") /\ appRan' = appRan \cup {l}
       ELSE /\ response' = IF headersSent THEN response ELSE Refusal(l, d.type)
            /\ Goes(l, "left")
            /\ UNCHANGED appRan

\* callListenerWithContext, and the wrapper of an HTTP/2 stream: the context and
\* the finish handler, the block lists, the early rate limit when the body was
\* read, and then the application.
Call(l) ==
    \E run \in {runWithContext(l)}, user, allowed \in BOOLEAN :
        LET c == run.all[run.at]
        IN  /\ context' = [context EXCEPT ![l] = run.at]
            /\ handlers' = Append(handlers, run.at)
            /\ checkedBlocks' = (checkedBlocks \/ ~headersSent)
            /\ stats' = IF Matches(c) THEN [stats EXCEPT !.matches = @ + 1] ELSE stats
            /\ IF Blocks(c)
               THEN /\ contexts' = [run.all EXCEPT ![run.at].blockedDueToIPOrBot = TRUE]
                    /\ response' = [by |-> "lists", status |-> 403, listener |-> l]
                    /\ Goes(l, "left")
                    /\ UNCHANGED appRan
               ELSE IF mode = "body"
               THEN Decided(l, run.at, shouldBlockRequest(c, user, allowed), run.all,
                            {"pass", "blocked"})
               ELSE Decided(l, run.at, Decision("pass", c), run.all, {"pass"})

\* The server calls its listeners in order.  A body is read in its own time.
Enter(l) ==
    /\ phase[l] = "idle"
    /\ mode = "body" \/ \A k \in Listeners : k < l => phase[k] # "idle"
    /\ Call(l)
    /\ UNCHANGED <<mode, config, updates, nested, reading, finished, protected>>

\* The answer of readBodyStream.
Unread(l, status) ==
    response' = IF headersSent THEN response
                ELSE [by |-> "reader", status |-> status, listener |-> l]

ReaderUnchanged ==
    UNCHANGED <<mode, config, updates, nested, contexts, context, handlers, checkedBlocks,
                finished, appRan, protected>>

\* A body that is too large is answered, and counted, before anything else is
\* looked at.
RefuseTooLarge(l) ==
    /\ mode = "body"
    /\ phase[l] = "idle"
    /\ Goes(l, "left")
    /\ Unread(l, 413)
    /\ stats' = [stats EXCEPT !.aborted = @ + 1]
    /\ UNCHANGED reading
    /\ ReaderUnchanged

\* One that cannot be read is answered, and not counted.
FailToRead(l) ==
    /\ mode = "body"
    /\ phase[l] = "idle"
    /\ Goes(l, "left")
    /\ Unread(l, 500)
    /\ UNCHANGED <<reading, stats>>
    /\ ReaderUnchanged

\* A stream listener is not called by another one.
Nest(l) ==
    /\ mode # "stream"
    /\ phase[l] = "running"
    /\ nested[l] < MaxNested
    /\ nested' = [nested EXCEPT ![l] = @ + 1]
    /\ IF mode = "body"
       THEN /\ reading' = [reading EXCEPT ![l] = @ + 1]
            /\ UNCHANGED <<phase, gate, appRan>>
       ELSE Call(l) /\ UNCHANGED reading
    /\ UNCHANGED <<mode, config, updates, finished, protected>>

\* The nested listener reads the body again, which was replaced by a copy of
\* what the limit let through; meanwhile the outer one goes on or leaves.
NestRead(l) ==
    /\ reading[l] > 0
    /\ reading' = [reading EXCEPT ![l] = @ - 1]
    /\ Call(l)
    /\ UNCHANGED <<mode, config, updates, nested, finished, protected>>

\* Or fails to, if someone else took the copy.
NestFailsToRead(l) ==
    /\ reading[l] > 0
    /\ reading' = [reading EXCEPT ![l] = @ - 1]
    /\ Unread(l, 500)
    /\ UNCHANGED <<phase, stats>>
    /\ ReaderUnchanged

-----------------------------------------------------------------------------
(* The application.                                                        *)

\* The rate limiting middleware, as often as it is installed.
Middleware(l) ==
    /\ phase[l] = "running"
    /\ \E user, allowed \in BOOLEAN :
          Decided(l, context[l], shouldBlockRequest(contexts[context[l]], user, allowed),
                  contexts, {"pass"})
    /\ UNCHANGED <<mode, config, updates, nested, reading, context, handlers, checkedBlocks,
                   stats, finished, protected>>

\* It turns the protection of this request off.
bypassRequest(l) ==
    /\ phase[l] = "running"
    /\ contexts' = [contexts EXCEPT ![context[l]].bypassRequest = TRUE]
    /\ UNCHANGED <<mode, config, updates, phase, nested, reading, context, handlers,
                   checkedBlocks, response, stats, finished, appRan, protected>>

\* It answers, or leaves the answer to others.
Leave(l) ==
    /\ phase[l] = "running"
    /\ Goes(l, "left")
    /\ \/ UNCHANGED response
       \/ /\ ~headersSent
          /\ \E status \in {200, 404} :
                response' = [by |-> "app", status |-> status, listener |-> l]
    /\ UNCHANGED <<mode, config, updates, nested, reading, contexts, context, handlers,
                   checkedBlocks, stats, finished, appRan, protected>>

UpdateConfig ==
    /\ Between
    /\ updates < MaxUpdates
    /\ updates' = updates + 1
    /\ config' \in Configs
    /\ protected' = (protected \/ config'.ip # "bypassed")
    /\ UNCHANGED <<mode, phase, nested, reading, gate, finished, appRan>>

-----------------------------------------------------------------------------
(* The response is finished.                                               *)

\* Without the flag countedRequest.
AllCount == DOMAIN handlers
\* The handlers that do anything: of a request the first one, because of the
\* flag; of a stream all.
Count == IF mode = "stream" THEN DOMAIN handlers ELSE DOMAIN handlers \cap {1}

Discovered == response.status \in 200 .. 399

ChecksWave(c) == mode = "stream" \/ ~c.blockedDueToIPOrBot

\* onFinishRequestHandler and discoverRouteFromStream for each context.
Finish ==
    /\ Between
    /\ headersSent
    /\ finished' = TRUE
    /\ LET counting == {h \in Count : ~isBypassed(contexts[handlers[h]])}
           With(Test(_)) == Cardinality({h \in counting : Test(contexts[handlers[h]])})
       IN  stats' = [stats EXCEPT
                !.requests = @ + With(LAMBDA c : Discovered \/ c.rateLimitedEndpoint),
                !.rateLimited = @ + With(LAMBDA c : c.rateLimitedEndpoint),
                !.waveChecks = @ + With(ChecksWave)]
    /\ UNCHANGED <<mode, config, updates, phase, nested, reading, contexts, context, handlers,
                   checkedBlocks, response, appRan, protected>>

\* Nothing is counted once the response is finished.
Next ==
    /\ ~finished
    /\ \/ \E l \in Listeners :
             \/ Enter(l) \/ RefuseTooLarge(l) \/ FailToRead(l)
             \/ Nest(l) \/ NestRead(l) \/ NestFailsToRead(l)
             \/ Middleware(l) \/ Leave(l) \/ bypassRequest(l)
       \/ UpdateConfig
       \/ Finish

Spec == Init /\ [][Next]_vars

-----------------------------------------------------------------------------
(* What is checked.                                                        *)

TypeOK ==
    /\ config \in Configs
    /\ phase \in [Listeners -> {"idle", "running", "left"}]
    /\ \A l \in Listeners : context[l] \in 0 .. Len(contexts)
    /\ \A l \in Listeners : phase[l] = "running" => context[l] # 0 /\ l \in appRan
    /\ \A h \in DOMAIN handlers : handlers[h] \in DOMAIN contexts
    /\ Len(contexts) <= Cardinality(Listeners)

\* However many listeners handle a request, and however often they call others,
\* it is counted, checked for attack waves and matched with the lists once.
CountedOnce ==
    /\ stats.matches <= 1
    /\ mode # "stream" => stats.requests <= 1 /\ stats.rateLimited <= 1 /\ stats.waveChecks <= 1

\* However often the middleware is installed, also in nested listeners, a
\* listener takes the limit once.
LimitTakenOnce ==
    \A i \in DOMAIN contexts : contexts[i].taken <= 1

\* A request whose address is bypassed all its life takes nothing of a limit, is
\* not refused by the limiter or the lists, and is not counted, matched or
\* checked for a wave. Only where the body is read first is it read like any
\* other, and one that is too large is refused and counted as aborted.
BypassedLeftAlone ==
    ~protected =>
        /\ \A i \in DOMAIN contexts : contexts[i].taken = 0
        /\ response.by \in {"none", "app"} \/ (mode = "body" /\ response.by = "reader")
        /\ stats.requests = 0 /\ stats.rateLimited = 0
        /\ stats.waveChecks = 0 /\ stats.matches = 0

\* createRequestListener.ts:92: a request the lists block does not count for an
\* attack wave, although other listeners handle it too.
BlockedNotChecked == response.by = "lists" => stats.waveChecks = 0
RequestBlockedNotChecked == mode # "stream" => BlockedNotChecked
\* createStreamListener.ts:50 says the same of a stream.
StreamBlockedNotChecked == mode = "stream" => BlockedNotChecked

\* The lists block a request before any application code sees it, or not at all:
\* one that is under way is not cut off by a new configuration.
BlockedBeforeHandled ==
    [][response # response' /\ response'.by = "lists" => appRan = {}]_vars

\* On a server with one listener the request that was refused because of the
\* limit is counted as such, in whichever nested listener that happened.
LimitedIsCounted ==
    [][(/\ finished # finished'
        /\ response.by = "gate" /\ response.status = 429
        /\ \A k \in Listeners \ {response.listener} : context[k] = 0
        /\ ~isBypassed(contexts[context[response.listener]]))
            => stats'.rateLimited = 1 /\ stats'.requests = 1]_vars
=============================================================================
