------------------------------ MODULE UserInput ------------------------------
(* The user input of one request's context and the two sets of strings that *)
(* sinks keep of it (Context.ts, extractStringsFromUserInputCached.ts,      *)
(* extractPathStringsFromUserInputCached.ts). Sources parse input while the *)
(* request is handled, wrapped listeners inside of each other replace it,   *)
(* and sinks ask for its strings in between. A field of the context is here *)
(* the set of strings in it; a program that writes to the values of a       *)
(* context behind the agent's back is left out.                             *)
EXTENDS FiniteSets

CONSTANTS
    ContextFields,   \* the fields of a context that are told apart
    InputStrings,    \* strings a field may hold
    PathStrings      \* those of them that contain a path separator

SOURCES ==
    {"query", "body", "headers", "cookies", "routeParams", "graphql", "xml", "subdomains",
     "markUnsafe", "url", "rawBody"}

ASSUME UserInputAssumption == "markUnsafe" \in ContextFields /\ PathStrings \subseteq InputStrings

VARIABLES
    store,                \* the context of ContextStorage, but for the next two
    cache,
    cachePathTraversal

inputVars == <<store, cache, cachePathTraversal>>

NotCached == [cached |-> FALSE, strings |-> {}]
Cached(strings) == [cached |-> TRUE, strings |-> strings]

Contexts == [ContextFields -> SUBSET InputStrings]

isSourceKey(key) == key \in SOURCES
\* All that the sources hold.
UserStrings(context) == UNION {context[key] : key \in ContextFields \cap SOURCES}
UserPathStrings(context) == UserStrings(context) \cap PathStrings

InputInit ==
    /\ store \in Contexts
    /\ cache = NotCached /\ cachePathTraversal = NotCached
----------------------------------------------------------------------------
\* The cache of the path strings is left alone.
ForgetsStringsOnly == cache' = NotCached /\ UNCHANGED cachePathTraversal
ForgetsStrings == cache' = NotCached /\ cachePathTraversal' = NotCached

updateContext(key, value) ==
    /\ store' = [store EXCEPT ![key] = value]
    /\ IF isSourceKey(key) THEN ForgetsStrings ELSE UNCHANGED <<cache, cachePathTraversal>>

\* Inside of another call: the input is replaced, and of what is none the flags
\* stay.
runWithContext(context) ==
    /\ store' = [key \in ContextFields |->
                     IF isSourceKey(key) THEN context[key] ELSE store[key]]
    /\ ForgetsStrings

\* What is marked already is not marked again.
markUnsafe(payload) ==
    /\ payload \notin store["markUnsafe"]
    /\ updateContext("markUnsafe", store["markUnsafe"] \cup {payload})

extractStringsFromUserInputCached ==
    /\ ~cache.cached
    /\ cache' = Cached(UserStrings(store))
    /\ UNCHANGED <<store, cachePathTraversal>>

extractPathStringsFromUserInputCached ==
    /\ ~cachePathTraversal.cached
    /\ cachePathTraversal' = Cached(UserPathStrings(store))
    /\ UNCHANGED <<store, cache>>

InputNext ==
    \/ \E key \in ContextFields, value \in SUBSET InputStrings : updateContext(key, value)
    \/ \E context \in Contexts : runWithContext(context)
    \/ \E payload \in InputStrings : markUnsafe(payload)
    \/ extractStringsFromUserInputCached
    \/ extractPathStringsFromUserInputCached

InputSpec == InputInit /\ [][InputNext]_inputVars
----------------------------------------------------------------------------
\* Whenever a sink asks, what was kept for it is what it would find in the
\* context now: no input that came in, was parsed, marked or replaced since is
\* missing, and none that is gone is left.
CacheFresh ==
    /\ cache \in {NotCached, Cached(UserStrings(store))}
    /\ cachePathTraversal \in {NotCached, Cached(UserPathStrings(store))}
=============================================================================
