----------------------------- MODULE Collections -----------------------------
(* What the agent collects between two heartbeats, each collection within a *)
(* limit of its own and with its own way to stay below it: Hostnames,       *)
(* Users, Routes, Packages and the timings of InspectionStatistics; and the *)
(* hourly limit on the lines AttackLogger prints. A Map is the sequence of  *)
(* its entries in the order in which they were added. The values that the   *)
(* code fixes in Agent's fields are constants here.                         *)
EXTENDS Integers, Sequences, FiniteSets, SequencesExt

CONSTANTS
    Hosts, Ports,         \* Ports holds 0, the port of a URL that has none
    MaxHostnames,         \* 200: ports, over all hosts
    UserIds, UserNames,
    MaxUsers,             \* 1000
    RouteKeys,            \* method and path, or a GraphQL field of these
    MaxRoutes,            \* 200
    MaxGraphQLSchemas,    \* 10
    PackageNames, Versions,
    MaxPackages,          \* 5000: names
    MaxPerfSamples,       \* 5000
    MaxCompressedStats,   \* 20
    MaxLogs,              \* 1000
    Hour,
    MaxTime,              \* bound: the clock
    MaxCalls              \* bound: calls made

ASSUME LimitsAssumption ==
    \A limit \in {MaxHostnames, MaxUsers, MaxRoutes, MaxGraphQLSchemas, MaxPackages,
                  MaxPerfSamples, MaxCompressedStats, MaxLogs, Hour} : limit \in Nat \ {0}

VARIABLES
    hostnames,    \* Hostnames.map
    users,        \* Users.users
    routes,       \* Routes.routes
    graphQLSchemas, \* Routes.graphQLSchemas: the routes a schema is kept for
    packages,     \* Packages.packages
    durations,    \* of one operation: the calls timed and not yet compressed
    compressed,   \* compressedTimings: the calls each block was made of
    logCount, lastResetTime,
    now,
    calls,        \* calls made so far
    reported,     \* history: the calls whose timings some report told of
    printed       \* history: when lines were printed

routing == <<routes, graphQLSchemas>>
collected == <<hostnames, users, routing, packages, durations, compressed>>
logger == <<logCount, lastResetTime>>
vars == <<collected, logger, now, calls, reported, printed>>

Keys(map) == {entry.key : entry \in ToSet(map)}
At(map, key) == SelectInSeq(map, LAMBDA entry : entry.key = key)
Holds(map, key) == At(map, key) # 0
Bumped(map, key) == [map EXCEPT ![At(map, key)].hits = @ + 1]

\* Every action below but the clock's is one call made by the program.
Call == calls < MaxCalls /\ calls' = calls + 1
----------------------------------------------------------------------------
(* Hostnames: every port of every host has its own count. The limit is on   *)
(* ports, and is looked at after one was added.                             *)

Endpoints(map) == UNION {{host.key} \X Keys(host.ports) : host \in ToSet(map)}
\* The sum of the Maps' sizes: each of their keys is there once.
PortsIn(map) == Cardinality(Endpoints(map))

Hit(map, host, port) ==
    IF ~Holds(map, host)
    THEN Append(map, [key |-> host, ports |-> <<[key |-> port, hits |-> 1]>>])
    ELSE [map EXCEPT ![At(map, host)].ports =
             IF Holds(@, port) THEN Bumped(@, port)
             ELSE Append(@, [key |-> port, hits |-> 1])]

WithoutFirstHost(map) == Tail(map)

WithoutFirstPort(map) ==
    IF Len(Head(map).ports) > 1 THEN [map EXCEPT ![1].ports = Tail(@)] ELSE Tail(map)

KeptHostnames(map) == IF PortsIn(map) > MaxHostnames THEN WithoutFirstPort(map) ELSE map

AddHostname(host, port) ==
    /\ Call
    /\ UNCHANGED <<users, routing, packages, durations, compressed, logger, now,
                   reported, printed>>
    /\ hostnames' =
           IF port <= 0 THEN hostnames ELSE KeptHostnames(Hit(hostnames, host, port))
----------------------------------------------------------------------------
(* Users and packages: a user that is not known pushes out the first, a     *)
(* package has no such right, and neither has a new version of an old one.  *)

UserRecord(id, name, first, last) ==
    [key |-> id, name |-> name, firstSeenAt |-> first, lastSeenAt |-> last]

AddUser(id, name) ==
    /\ Call
    /\ UNCHANGED <<hostnames, routing, packages, durations, compressed, logger, now,
                   reported, printed>>
    /\ users' =
           IF Holds(users, id)
           THEN [users EXCEPT ![At(users, id)] = UserRecord(id, name, @.firstSeenAt, now)]
           ELSE Append(IF Len(users) >= MaxUsers THEN Tail(users) ELSE users,
                       UserRecord(id, name, now, now))

PackageNamesIn(set) == {package.name : package \in set}

addPackage(name, version) ==
    /\ Call
    /\ packages' =
           IF Cardinality(PackageNamesIn(packages)) >= MaxPackages THEN packages
           ELSE packages \cup {[name |-> name, version |-> version]}
    /\ UNCHANGED <<hostnames, users, routing, durations, compressed, logger, now,
                   reported, printed>>
----------------------------------------------------------------------------
(* Routes, and GraphQL fields with keys of their own. The one with the      *)
(* fewest hits makes room, the first added of several.                      *)

FirstRoute == 1

LeastUsedRoute ==
    CHOOSE i \in 1 .. Len(routes) :
        \A j \in 1 .. Len(routes) :
            routes[i].hits < routes[j].hits \/ (routes[i].hits = routes[j].hits /\ i <= j)

RoutesWithRoomTooLate ==
    IF Len(routes) > MaxRoutes THEN RemoveAt(routes, LeastUsedRoute) ELSE routes

RoutesWithRoom ==
    IF Len(routes) >= MaxRoutes THEN RemoveAt(routes, LeastUsedRoute) ELSE routes

NewRoute(key, hits, limited) == [key |-> key, hits |-> hits, rateLimitedCount |-> limited]

RoutesUnchanged ==
    UNCHANGED <<hostnames, users, graphQLSchemas, packages, durations, compressed,
                logger, now, reported, printed>>

\* addRoute, addGraphQLField
AddRoute(key) ==
    /\ Call
    /\ RoutesUnchanged
    /\ routes' =
           IF Holds(routes, key) THEN Bumped(routes, key)
           ELSE Append(RoutesWithRoom, NewRoute(key, 1, 0))

countRouteRateLimited(key) ==
    /\ Call
    /\ RoutesUnchanged
    /\ routes' =
           IF Holds(routes, key)
           THEN [routes EXCEPT ![At(routes, key)].rateLimitedCount = @ + 1]
           ELSE Append(RoutesWithRoom, NewRoute(key, 0, 1))

\* A schema is kept for good, also when its route makes room.
setGraphQLSchema(key) ==
    /\ Call
    /\ graphQLSchemas' =
           IF Cardinality(graphQLSchemas) < MaxGraphQLSchemas THEN graphQLSchemas \cup {key}
           ELSE graphQLSchemas
    /\ UNCHANGED <<hostnames, users, routes, packages, durations, compressed, logger,
                   now, reported, printed>>
----------------------------------------------------------------------------
(* The timings of an operation: blocks of so many calls.                    *)

\* compressPerfSamples, and what it leaves of the blocks.
CompressedTimings ==
    IF durations = {} THEN compressed
    ELSE LET all == Append(compressed, durations)
         IN  IF Len(all) > MaxCompressedStats THEN Tail(all) ELSE all

\* A call that has a context; others are counted and not timed.
onInspectedCall ==
    /\ Call
    /\ IF Cardinality(durations) >= MaxPerfSamples
       THEN durations' = {calls} /\ compressed' = CompressedTimings
       ELSE durations' = durations \cup {calls} /\ UNCHANGED compressed
    /\ UNCHANGED <<hostnames, users, routing, packages, logger, now, reported, printed>>

TakeReportKeepsTimings(blocks) ==
    /\ Call
    /\ reported' = reported \cup UNION ToSet(blocks)
    /\ hostnames' = << >> /\ users' = << >> /\ routes' = << >> /\ packages' = {}
    /\ durations' = {} /\ UNCHANGED compressed
    /\ UNCHANGED <<graphQLSchemas, logger, now, printed>>

\* A heartbeat reports everything and clears it, the timings that were not
\* compressed with the rest. Only flushStats compresses these first.
TakeReport(blocks) ==
    /\ Call
    /\ reported' = reported \cup UNION ToSet(blocks)
    /\ hostnames' = << >> /\ users' = << >> /\ routes' = << >>
    /\ packages' = {} /\ durations' = {} /\ compressed' = << >>
    /\ UNCHANGED <<graphQLSchemas, logger, now, printed>>

sendHeartbeat == TakeReport(compressed)
flushStats == TakeReport(CompressedTimings)
----------------------------------------------------------------------------
(* AttackLogger.                                                            *)

HourIsOver == now >= lastResetTime + Hour

LogKeepsResetTime ==
    /\ Call
    /\ LET count == IF HourIsOver THEN 0 ELSE logCount
       IN  IF count >= MaxLogs
           THEN logCount' = count /\ UNCHANGED printed
           ELSE logCount' = count + 1 /\ printed' = Append(printed, now)
    /\ UNCHANGED <<lastResetTime, collected, now, reported>>

log ==
    /\ Call
    /\ lastResetTime' = IF HourIsOver THEN now ELSE lastResetTime
    /\ LET count == IF HourIsOver THEN 0 ELSE logCount
       IN  IF count >= MaxLogs
           THEN logCount' = count /\ UNCHANGED printed
           ELSE logCount' = count + 1 /\ printed' = Append(printed, now)
    /\ UNCHANGED <<collected, now, reported>>

Tick ==
    /\ now < MaxTime
    /\ now' = now + 1
    /\ UNCHANGED <<collected, logger, calls, reported, printed>>
----------------------------------------------------------------------------
Init ==
    /\ hostnames = << >> /\ users = << >> /\ routes = << >> /\ packages = {}
    /\ graphQLSchemas = {} /\ durations = {} /\ compressed = << >>
    /\ logCount = 0 /\ lastResetTime = 0 /\ now = 0
    /\ calls = 0 /\ reported = {} /\ printed = << >>

AgentCalls ==
    \/ \E host \in Hosts, port \in Ports : AddHostname(host, port)
    \/ \E id \in UserIds, name \in UserNames : AddUser(id, name)
    \/ \E key \in RouteKeys : AddRoute(key) \/ countRouteRateLimited(key) \/ setGraphQLSchema(key)
    \/ \E name \in PackageNames, version \in Versions : addPackage(name, version)
    \/ onInspectedCall
    \/ sendHeartbeat
    \/ flushStats
    \/ log

Next == AgentCalls \/ Tick

Spec == Init /\ [][Next]_vars
----------------------------------------------------------------------------
NoKeyTwice(map) == Cardinality(Keys(map)) = Len(map)

\* Logging does not flood: within any hour at most twice the limit is
\* printed (the hour that is counted starts with a line, not with the one
\* looked at), and within the counted hour at most the limit.
LinesIn(from, to) == Cardinality({i \in 1 .. Len(printed) : printed[i] \in from .. to})

LogsBounded ==
    /\ LinesIn(now - Hour + 1, now) <= 2 * MaxLogs
    /\ LinesIn(lastResetTime, now) <= MaxLogs

\* Whatever is added and counted, no collection grows past its limit, every
\* entry has one place in its Map, no host is left without a port, no block of
\* timings is larger than the samples kept, and the log does not flood.
WithinLimits ==
    /\ LogsBounded
    /\ PortsIn(hostnames) <= MaxHostnames
    /\ Len(users) <= MaxUsers
    /\ Len(routes) <= MaxRoutes
    /\ Cardinality(graphQLSchemas) <= MaxGraphQLSchemas
    /\ Cardinality(PackageNamesIn(packages)) <= MaxPackages
    /\ NoKeyTwice(hostnames) /\ NoKeyTwice(users) /\ NoKeyTwice(routes)
    /\ \A host \in ToSet(hostnames) : host.ports # << >> /\ NoKeyTwice(host.ports)
    /\ Len(compressed) <= MaxCompressedStats
    /\ \A block \in ToSet(compressed) \cup {durations} :
           Cardinality(block) <= MaxPerfSamples

PushesOutOneAtMost(before, after, limit) ==
    \/ before \subseteq after
    \/ /\ Cardinality(after) = limit
       /\ \E entry \in before : before \ {entry} \subseteq after

KeepsItsCounts(route) ==
    \E later \in ToSet(routes') :
        /\ later.key = route.key
        /\ later.hits >= route.hits
        /\ later.rateLimitedCount >= route.rateLimitedCount

TheAddedIsThere ==
    /\ \A host \in Hosts, port \in Ports :
           AddHostname(host, port) => port <= 0 \/ <<host, port>> \in Endpoints(hostnames')
    /\ \A id \in UserIds, name \in UserNames : AddUser(id, name) => id \in Keys(users')
    /\ \A key \in RouteKeys :
           AddRoute(key) \/ countRouteRateLimited(key) => key \in Keys(routes')

\* What makes room is neither what was just added, which is there after every
\* call, nor more than needed: a call that pushes something out pushes out one
\* entry (a port of a host, a user) and leaves the collection full. A route
\* that is pushed out had no more hits than any that stays, and what a route
\* counted is not lost otherwise until it is reported.
EvictsOneAtTheLimit ==
    [][/\ TheAddedIsThere
       /\ hostnames' # << >> =>
              PushesOutOneAtMost(Endpoints(hostnames), Endpoints(hostnames'), MaxHostnames)
       /\ users' # << >> =>
              PushesOutOneAtMost(Keys(users), Keys(users'), MaxUsers)
       /\ routes' # << >> =>
              \A route \in ToSet(routes) :
                  \/ KeepsItsCounts(route)
                  \/ /\ Len(routes) = MaxRoutes
                     /\ \A other \in ToSet(routes) : route.hits <= other.hits]_vars

\* The timing of a call is told of at most once: it is waiting, or in one
\* block, or in a report that was taken.
TimingsReportedOnce ==
    LET places == <<durations, reported>> \o compressed
    IN  \A i, j \in 1 .. Len(places) : i # j => places[i] \cap places[j] = {}

=============================================================================
