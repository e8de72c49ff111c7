--------------------------- MODULE MCCollections ---------------------------
(* One run for what stands on its own. Its start chooses what it looks at:  *)
(* one of the collections, on which only its own calls are made, the input  *)
(* in a context, or one input of the look-ups, on which nothing moves.      *)
EXTENDS Collections, StreamLoop, LookUps, IPMatcher, DataSchema, UserInput

CONSTANTS
    MaxRedirects, MaxBodies, MaxEndpoints,
    MaxTimeOfUsers     \* bound: the clock, where users are looked at

\* A network of any kind with any that needs no masking; and, where the
\* addresses end: any three networks, any number of single addresses.
Upper == {net \in BaseNetworks : ~IsShort(net) /\ net.addr[1] >= 2^(Bits - 1)}
Lists ==
    {{m, n} : m \in Networks, n \in BaseNetworks}
    \cup {{l, m, n} : l, m, n \in Upper}
    \cup SUBSET (Upper \cap Addresses)

SmallRedirectLists == UNION {[1 .. n -> Redirect] : n \in 0 .. MaxRedirects}

\* Bodies are objects that are not empty. One field holds a primitive value,
\* an object with or without a field, or an array; the other makes the first
\* one's absence possible.
Values ==
    {[type |-> type] : type \in Primitive}
    \cup {AnObject(fields) : fields \in {NoProperties, [x |-> [type |-> "string"]]}}
    \cup {AnArray(None), AnArray([type |-> "string"])}
Bodies ==
    {AnObject([a |-> value]) : value \in Values}
    \cup {AnObject([a |-> value, b |-> [type |-> "string"]]) : value \in Values}
    \cup {AnObject([b |-> [type |-> "string"]])}

\* /posts/:id, /posts/* and /*/*; and configurations that tell limits, or lists,
\* or fields and protection apart.
SmallRoutes ==
    {[name |-> "post", stars |-> 0, covers |-> {}],
     [name |-> "posts", stars |-> 1, covers |-> {"/posts/3"}],
     [name |-> "two levels", stars |-> 2, covers |-> {"/posts/3"}]}
Unlimited == [enabled |-> FALSE, maxRequests |-> 1, windowSizeInMS |-> 3]
SomeLimits == {Unlimited} \cup [enabled : {TRUE}, maxRequests : {1, 2}, windowSizeInMS : {2}]
EndpointConfigs ==
    LET Config(limits, lists, fields, off) ==
            [method : {AnyMethod, "GET"}, route : SmallRoutes, rateLimiting : limits,
             allowedIPAddresses : lists, graphql : fields, forceProtectionOff : off]
    IN  {Config(SomeLimits, {{}}, {NoField}, {FALSE}),
         Config({Unlimited}, {{}, {"ip1"}, {"ip2"}}, {NoField}, {FALSE}),
         Config({Unlimited}, {{}}, {NoField}, {TRUE})
             \cup Config({Unlimited}, {{}}, {"f"}, {FALSE})}
SmallConfigLists ==
    {list \in UNION {[1 .. n -> configs] : n \in 0 .. MaxEndpoints, configs \in EndpointConfigs} :
        ListedOnce(list)}
Requests ==
    {context \in RequestContext : context.method = Unknown => context.remoteAddress = Unknown}

MCInit ==
    /\ Init
    /\ LoopInit
    /\ \/ focus \in [on : {"hostnames", "users", "routes", "schemas", "packages", "timings",
                             "logger", "stream", "input"}]
       \/ focus \in [on : {"networks"}, list : Lists]
       \/ LookUpInit
       \/ focus \in [on : {"bodies"}, list : UNION {[1 .. n -> Bodies] : n \in 1 .. MaxBodies}]
    /\ InputInit
    /\ focus.on # "input" => store = [key \in ContextFields |-> {}]

Only(part, state) == state' # state => focus.on = part

MCNext ==
    /\ focus.on \notin {"networks", "redirects", "endpoints", "bodies"}
    /\ \/ focus.on = "stream" /\ LoopNext /\ UNCHANGED <<vars, inputVars>>
       \/ focus.on = "input" /\ InputNext /\ UNCHANGED <<vars, loopVars>>
       \/ focus.on \notin {"stream", "input"} /\ Next /\ UNCHANGED <<loopVars, inputVars>>
    /\ Only("hostnames", hostnames)
    /\ Only("users", users)
    /\ Only("routes", routes)
    /\ Only("schemas", graphQLSchemas)
    /\ Only("packages", packages)
    /\ Only("timings", <<durations, compressed, reported>>)
    /\ Only("logger", <<logger, printed>>)
    /\ now' # now => focus.on = "logger" \/ (focus.on = "users" /\ now < MaxTimeOfUsers)
    /\ UNCHANGED focus

MCSpec == MCInit /\ [][MCNext]_<<vars, loopVars, inputVars, focus>>

\* The other look-ups on their inputs: see IPMatcher and DataSchema.
AddressesFound ==
    focus.on = "networks" =>
        FindsExactlyTheListed(focus.list) /\ MappedLookUpsAgree(focus.list)
SamplesDescribed == focus.on = "bodies" => SchemaDescribesItsSamples(focus.list)
=============================================================================
