----------------------------- MODULE Redirects -----------------------------
(* The origin of a chain of redirects that a request made:                  *)
(* src/library/vulnerabilities/ssrf/getRedirectOrigin.ts                    *)
EXTENDS Integers, Sequences, SequencesExt

CONSTANTS
    Urls,
    MaxRecursionDepth   \* 100 in the code

NoOrigin == "none"
Redirect == [source : Urls, destination : Urls]

ASSUME RedirectsAssumption == MaxRecursionDepth \in Nat /\ NoOrigin \notin Urls

\* The first redirect that leads to a URL, 0 if none does; and its source.
To(redirects, url) == SelectInSeq(redirects, LAMBDA r : r.destination = url)

Back(redirects, url) ==
    IF To(redirects, url) = 0 THEN url ELSE redirects[To(redirects, url)].source

\* The URL that each call of findOrigin is given, by the depth of the call.
Visited(redirects, url) ==
    LET visited[depth \in 0 .. MaxRecursionDepth + 1] ==
            IF depth = 0 THEN url ELSE Back(redirects, visited[depth - 1])
    IN  visited

\* It calls itself until one of these holds, and the last call answers.
findOrigin(redirects, url) ==
    LET visited == Visited(redirects, url)
    IN  visited[Min({depth \in 0 .. MaxRecursionDepth + 1 :
                        \/ \E before \in 0 .. depth - 1 : visited[before] = visited[depth]
                        \/ depth > MaxRecursionDepth
                        \/ To(redirects, visited[depth]) = 0})]

OneStepBack(redirects, url) ==
    IF Back(redirects, url) = url THEN NoOrigin ELSE Back(redirects, url)

getRedirectOrigin(redirects, url) ==
    IF findOrigin(redirects, url) = url THEN NoOrigin ELSE findOrigin(redirects, url)
----------------------------------------------------------------------------
\* The URLs from which n redirects lead to the given one.
StepsBefore(redirects, url) ==
    LET back[n \in 0 .. Len(redirects) + MaxRecursionDepth + 2] ==
            IF n = 0 THEN {url}
            ELSE {r.source : r \in {s \in ToSet(redirects) : s.destination \in back[n - 1]}}
    IN  back

\* The answer is a URL that leads to the one asked about by recorded
\* redirects. Where no chain to it runs in a circle or is longer than the
\* search goes, nothing redirects to the answer, and there is one as soon as
\* anything redirects to the URL.
OriginStartsTheChain(redirects, url) ==
    LET origin == getRedirectOrigin(redirects, url)
        before == StepsBefore(redirects, url)
        length == Len(redirects)
    IN  /\ origin # NoOrigin => \E n \in 1 .. length : origin \in before[n]
        /\ before[length + 1] = {} /\ before[MaxRecursionDepth + 2] = {} =>
               /\ origin = NoOrigin <=> before[1] = {}
               /\ \A r \in ToSet(redirects) : r.destination # origin
=============================================================================
