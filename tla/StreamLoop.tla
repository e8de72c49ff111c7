----------------------------- MODULE StreamLoop -----------------------------
(* How the realtime stream is kept open: the loop of connectToSSE.ts, its   *)
(* back-off and the read timeout. What the stream carries is ConfigSync's.  *)
(* Time passes in units; a timer that is due fires before time goes on,     *)
(* which a busy event loop delays. tries, quiet and acts are history        *)
(* variables.                                                               *)
EXTENDS Integers

CONSTANTS
    InitialReconnect,  \* INITIAL_RECONNECT_MS
    MaxReconnect,      \* MAX_RECONNECT_MS
    StableConnection,  \* STABLE_CONNECTION_MS
    ReadTimeout,       \* READ_TIMEOUT_MS
    MaxTries,          \* bound of the connections in a row that are told apart
    MaxActs            \* bound of the socket's activity that a silence has

Least(a, b) == IF a < b THEN a ELSE b

\* What the first wait becomes when it is doubled n times, up to the limit.
Doubled[n \in 0 .. MaxTries] ==
    IF n = 0 THEN InitialReconnect ELSE Least(2 * Doubled[n - 1], MaxReconnect)

ASSUME StreamLoopAssumption ==
    /\ {InitialReconnect, MaxReconnect, StableConnection, ReadTimeout} \subseteq Nat \ {0}
    /\ MaxTries \in Nat \ {0} /\ MaxActs \in Nat
    /\ InitialReconnect <= MaxReconnect
    /\ Doubled[MaxTries - 1] = MaxReconnect

VARIABLES
    stream,       \* "connecting", "open", "waiting" to connect again, or "stopped"
    reconnectMs,
    sinceStart,   \* time since the connection was begun, up to StableConnection
    idle,         \* what the timer of the socket has counted
    delay,        \* what is left of the wait
    tries,        \* history: connections that ended since, and with, the last stable one
    quiet,        \* history: time since the stream last told something, or was
                  \* asked for; it stops one after what is allowed
    acts          \* history: how often the socket was active in that time

loopVars == <<stream, reconnectMs, sinceStart, idle, delay, tries, quiet, acts>>

LongestWait(reconnect) == reconnect + reconnect \div 2

\* The longest that a connection may be silent whose socket was active n times.
Silence(n) == n * ReadTimeout + ReadTimeout

\* And the longest that the stream may then be quiet: a connection that just
\* fails to be stable, and the longest wait; or a connection that is silent
\* until the timeout and so long that the wait starts anew.
LongestQuiet(n) ==
    LET unstable == Least(StableConnection, Silence(n)) + LongestWait(MaxReconnect)
        silent == Silence(n) + LongestWait(InitialReconnect)
    IN  IF unstable > silent THEN unstable ELSE silent

LoopInit ==
    /\ stream = "connecting"
    /\ reconnectMs = InitialReconnect
    /\ sinceStart = 0 /\ idle = 0 /\ delay = 0
    /\ tries = 0 /\ quiet = 0 /\ acts = 0
----------------------------------------------------------------------------
Connected == stream \in {"connecting", "open"}

IsStableOnceOpen == stream = "open"
IsStable == sinceStart >= StableConnection

\* The rest of the loop after connect() resolved with anything but a 401 or 403.
Reconnects ==
    /\ LET reconnect == IF IsStable THEN InitialReconnect ELSE reconnectMs
       IN  /\ delay' \in reconnect .. LongestWait(reconnect)
           /\ reconnectMs' = Least(2 * reconnect, MaxReconnect)
    /\ tries' = IF sinceStart >= StableConnection THEN 1 ELSE Least(tries + 1, MaxTries)
    /\ stream' = "waiting"
    /\ sinceStart' = 0 /\ idle' = 0
    /\ UNCHANGED <<quiet, acts>>

\* A response other than 200, the end of the stream or an error of it, or an
\* error of the request.
ConnectionEnds == Connected /\ Reconnects

SocketIsIdleOnceOpen == stream = "open" /\ idle >= ReadTimeout
SocketIsIdle == Connected /\ idle >= ReadTimeout

TimesOut == SocketIsIdle /\ Reconnects

Rejected ==
    /\ stream = "connecting"
    /\ stream' = "stopped"
    /\ UNCHANGED <<reconnectMs, sinceStart, idle, delay, tries, quiet, acts>>

\* The socket's timer counts from the last activity of any kind, most of which
\* says nothing: the connection is made, the handshake goes on, the request is
\* written, a part of the header comes in.
SocketActs ==
    /\ Connected
    /\ acts < MaxActs
    /\ idle' = 0
    /\ acts' = acts + 1
    /\ UNCHANGED <<stream, reconnectMs, sinceStart, delay, tries, quiet>>

\* The response, or a chunk of it.
Hears ==
    /\ Connected
    /\ stream' = "open"
    /\ idle' = 0
    /\ quiet' = 0 /\ acts' = 0
    /\ UNCHANGED <<reconnectMs, sinceStart, delay, tries>>

Connects ==
    /\ stream = "waiting" /\ delay = 0
    /\ stream' = "connecting"
    /\ sinceStart' = 0 /\ idle' = 0
    /\ quiet' = 0 /\ acts' = 0
    /\ UNCHANGED <<reconnectMs, delay, tries>>

TimerIsDue == SocketIsIdle \/ (stream = "waiting" /\ delay = 0)

TimePasses ==
    /\ ~TimerIsDue
    /\ stream # "stopped"
    /\ sinceStart' = IF Connected THEN Least(sinceStart + 1, StableConnection) ELSE sinceStart
    /\ idle' = IF Connected THEN Least(idle + 1, ReadTimeout) ELSE idle
    /\ delay' = IF Connected THEN delay ELSE delay - 1
    /\ quiet' = Least(quiet + 1, LongestQuiet(acts) + 1)
    /\ UNCHANGED <<stream, reconnectMs, tries, acts>>

LoopNext ==
    ConnectionEnds \/ TimesOut \/ Rejected \/ SocketActs \/ Hears \/ Connects \/ TimePasses

LoopSpec == LoopInit /\ [][LoopNext]_loopVars
----------------------------------------------------------------------------
\* A cloud that keeps turning the agent away is asked less and less: each wait
\* is that of the last connection that was stable, doubled with every one that
\* ended since, up to the limit, and at most half as long again.
BacksOff ==
    [][stream # "waiting" /\ stream' = "waiting" =>
          LET wait == Doubled[tries' - 1]
          IN  delay' \in wait .. LongestWait(wait)]_loopVars

\* Unless the cloud rejected the agent, the stream is not quiet for longer than
\* LongestQuiet: also a connection that hangs, or that breaks without notice,
\* is given up and made again. What holds the timeout back is activity of the
\* socket that says nothing, once for each time.
NeverQuietForLong == stream # "stopped" => quiet <= LongestQuiet(acts)
=============================================================================
