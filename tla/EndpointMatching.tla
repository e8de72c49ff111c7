-------------------------- MODULE EndpointMatching --------------------------
(* Which of the configured endpoints concern a request, and what they       *)
(* decide about it: src/library/helpers/matchEndpoints.ts and its callers.  *)
(* A route carries what a comparison with a path would find out: how many   *)
(* "*" it has, and the paths it covers if it has any. A context has the     *)
(* path of its url, or NoPath when there is none that can be parsed.        *)
EXTENDS Integers, Sequences, SequencesExt

CONSTANTS
    Methods,
    Routes,
    Fields,     \* of GraphQL
    Ips,
    Localhost,  \* an address that is always let in
    MaxStars    \* bound of the "*" in a route

AnyMethod == "*"
Unknown == "unknown"    \* a method, url or address that a context lacks
NoEndpoint == [method |-> Unknown]
NoRoute == [name |-> Unknown]
NoField == "none"

ASSUME EndpointsAssumption ==
    /\ MaxStars \in Nat
    /\ Unknown \notin Methods \cup Ips
    /\ NoRoute \notin Routes
    /\ \A route \in Routes :
           /\ route.stars \in 0 .. MaxStars
           /\ route.stars = 0 => route.covers = {}
           /\ Unknown \notin route.covers

\* What is configured of limits: those that are in force have a window.
RateLimiting ==
    {limit \in [enabled : BOOLEAN, maxRequests : Nat, windowSizeInMS : Nat] :
        limit.enabled => limit.windowSizeInMS > 0}
Endpoint ==
    [method : Methods \cup {AnyMethod}, route : Routes, rateLimiting : RateLimiting,
     allowedIPAddresses : SUBSET Ips, graphql : Fields \cup {NoField},
     forceProtectionOff : BOOLEAN]

\* The endpoints of a list that are among those, in the order of the list.
Matching(those, endpoints) ==
    LET kept[n \in 0 .. Len(endpoints)] ==
            IF n = 0 THEN << >>
            ELSE IF endpoints[n] \in those THEN Append(kept[n - 1], endpoints[n])
            ELSE kept[n - 1]
    IN  kept[Len(endpoints)]

First(endpoints) == IF endpoints = << >> THEN NoEndpoint ELSE endpoints[1]
----------------------------------------------------------------------------
(* matchEndpoints. Both sorts leave the order of equals alone.              *)

OfMethods(methods, endpoints) == {e \in ToSet(endpoints) : e.method \in methods}
OfRoute(route, endpoints) == {e \in ToSet(endpoints) : e.route = route}
OfStars(numbers, endpoints) == {e \in ToSet(endpoints) : e.route.stars \in numbers}
OfPath(path, endpoints) == {e \in ToSet(endpoints) : path \in e.route.covers}
OfField(field, endpoints) == {e \in ToSet(endpoints) : e.graphql = field}

Unsorted(possible) == possible
OwnMethodFirst(possible) ==
    LET any == OfMethods({AnyMethod}, possible)
    IN  Matching(ToSet(possible) \ any, possible) \o Matching(any, possible)

MostStarsFirst(wildcards) ==
    LET sorted[n \in 0 .. MaxStars] ==
            IF n = 0 THEN << >>
            ELSE Matching(OfStars({n}, wildcards), wildcards) \o sorted[n - 1]
    IN  sorted[MaxStars]

matchEndpoints(context, endpoints) ==
    LET ofMethod == OfMethods({AnyMethod, context.method}, endpoints)
        possible == OwnMethodFirst(Matching(ofMethod, endpoints))
        exact == Matching(OfRoute(context.route, possible), possible)
        wildcards == MostStarsFirst(Matching(OfStars(1 .. MaxStars, possible), possible))
    IN  IF context.method = Unknown THEN << >>
        ELSE SubSeq(exact, 1, IF exact = << >> THEN 0 ELSE 1)
                 \o Matching(OfPath(context.path, wildcards), wildcards)

\* The configuration keeps the fields of GraphQL apart from the other endpoints.
getEndpoints(context, configs) ==
    matchEndpoints(context, Matching(OfField(NoField, configs), configs))

getGraphQLField(context, field, configs) ==
    First(matchEndpoints(context, Matching(OfField(field, configs), configs)))
----------------------------------------------------------------------------
(* The callers of getEndpoints.                                             *)

\* maxRequests / windowSizeInMS of a is below that of b.
Stricter(a, b) ==
    a.rateLimiting.maxRequests * b.rateLimiting.windowSizeInMS
        < b.rateLimiting.maxRequests * a.rateLimiting.windowSizeInMS

Strictest(endpoints) ==
    {e \in ToSet(endpoints) : \A other \in ToSet(endpoints) : ~Stricter(other, e)}

getRateLimitedEndpoint(context, configs) ==
    LET found == getEndpoints(context, configs)
        matches == Matching({e \in ToSet(found) : e.rateLimiting.enabled}, found)
        exact == First(Matching(OfRoute(context.route, matches), matches))
    IN  IF exact # NoEndpoint THEN exact ELSE First(Matching(Strictest(matches), matches))

\* An empty list of addresses is as none: setEndpoints makes no matcher of it.
ipAllowedToAccessRoute(context, configs) ==
    LET found == getEndpoints(context, configs)
        matches == Matching({e \in ToSet(found) : e.allowedIPAddresses # {}}, found)
        exact == First(Matching(OfRoute(context.route, matches), matches))
    IN  \/ context.remoteAddress = Localhost
        \/ matches = << >>
        \/ /\ context.remoteAddress # Unknown
           /\ \/ exact # NoEndpoint /\ context.remoteAddress \in exact.allowedIPAddresses
              \/ \A e \in ToSet(matches) : context.remoteAddress \in e.allowedIPAddresses

\* inspectArgs does not call the interceptor of a sink.
protectionOff(context, configs) ==
    \E e \in ToSet(getEndpoints(context, configs)) : e.forceProtectionOff
----------------------------------------------------------------------------
(* What they promise to a request, which has a route without "*" or none,   *)
(* whatever the order of the configuration.                                 *)

RequestContext ==
    [method : Methods \cup {Unknown},
     route : {route \in Routes : route.stars = 0} \cup {NoRoute},
     path : {Unknown} \cup UNION {route.covers : route \in Routes},
     remoteAddress : Ips \cup {Unknown}]

\* The configuration lists no method and route twice: of GraphQL, once a field.
ListedOnce(configs) ==
    LET Name(e) == <<e.method, e.route, e.graphql>>
    IN  \A i, j \in DOMAIN configs : Name(configs[i]) = Name(configs[j]) => i = j

Concerns(e, context) == context.method # Unknown /\ e.method \in {AnyMethod, context.method}

\* The endpoint of exactly this route: that of the method, if there is one,
\* stands in for that of all methods.
Exact(context, endpoints) ==
    LET here == {e \in endpoints : Concerns(e, context) /\ e.route = context.route}
        own == {e \in here : e.method = context.method}
    IN  IF own # {} THEN own ELSE here

Covering(context, endpoints) ==
    {e \in endpoints : Concerns(e, context) /\ context.path \in e.route.covers}

\* The limit of the exact endpoint counts, also where a wildcard is stricter
\* or comes first; without one, the strictest of the wildcards'.
LimitIsTheRelevantOne(context, configs) ==
    LET endpoints == OfField(NoField, configs)
        exact == {e \in Exact(context, endpoints) : e.rateLimiting.enabled}
        covering == {e \in Covering(context, endpoints) : e.rateLimiting.enabled}
        found == getRateLimitedEndpoint(context, configs)
    IN  IF exact # {} THEN found \in exact
        ELSE IF covering # {}
        THEN found \in covering /\ \A e \in covering : ~Stricter(e, found)
        ELSE found = NoEndpoint

\* An address gets in through the list of the exact endpoint alone, or when
\* no list that concerns the request leaves it out.
AccessIsAsListed(context, configs) ==
    LET endpoints == OfField(NoField, configs)
        exact == Exact(context, endpoints)
        Lets(e) == context.remoteAddress \in e.allowedIPAddresses
        Refuses(e) == e.allowedIPAddresses # {} /\ ~Lets(e)
    IN  ipAllowedToAccessRoute(context, configs) <=>
            \/ context.remoteAddress = Localhost
            \/ \E e \in exact : Lets(e)
            \/ \A e \in exact \cup Covering(context, endpoints) : ~Refuses(e)

\* Protection is off iff one of the endpoints that concern the request says so.
ProtectionIsAsListed(context, configs) ==
    LET endpoints == OfField(NoField, configs)
    IN  protectionOff(context, configs) <=>
            \E e \in Exact(context, endpoints) \cup Covering(context, endpoints) :
                e.forceProtectionOff

\* A field of GraphQL is matched as the most specific endpoint configured for
\* it: the exact one, or of those with the most "*" one of the own method.
FieldIsTheMostSpecific(context, field, configs) ==
    LET endpoints == OfField(field, configs)
        exact == Exact(context, endpoints)
        covering == Covering(context, endpoints)
        found == getGraphQLField(context, field, configs)
    IN  IF exact # {} THEN found \in exact
        ELSE IF covering # {}
        THEN /\ found \in covering
             /\ \A e \in covering :
                    /\ e.route.stars <= found.route.stars
                    /\ e.route.stars = found.route.stars /\ e.method # AnyMethod
                           => found.method # AnyMethod
        ELSE found = NoEndpoint
=============================================================================
