------------------------------ MODULE LookUps ------------------------------
(* The look-ups that keep no state: a run looks at one input, on which      *)
(* nothing moves.                                                           *)
EXTENDS Redirects, EndpointMatching

CONSTANTS
    RedirectLists,    \* the redirects that a request may have made
    ConfigLists,      \* the endpoints that may be configured
    RequestContexts   \* the requests they are asked about

ASSUME LookUpsAssumption ==
    /\ \A list \in RedirectLists : list \in Seq(Redirect)
    /\ \A list \in ConfigLists : list \in Seq(Endpoint) /\ ListedOnce(list)
    /\ \A context \in RequestContexts : context \in RequestContext

VARIABLE focus

LookUpInit ==
    \/ focus \in [on : {"redirects"}, list : RedirectLists, url : Urls]
    \/ focus \in [on : {"endpoints"}, list : ConfigLists]

LookUpSpec == LookUpInit /\ [][FALSE]_focus

\* Whatever redirects a request made, the answer to where one of their URLs
\* came from is the start of its chain: see Redirects.
OriginsFound == focus.on = "redirects" => OriginStartsTheChain(focus.list, focus.url)

\* Whatever is configured, in any order, limits, access, protection and
\* GraphQL fields are decided as the configuration says: see EndpointMatching.
EndpointsDecide ==
    focus.on = "endpoints" =>
        \A context \in RequestContexts :
            /\ LimitIsTheRelevantOne(context, focus.list)
            /\ AccessIsAsListed(context, focus.list)
            /\ ProtectionIsAsListed(context, focus.list)
            /\ \A field \in Fields : FieldIsTheMostSpecific(context, field, focus.list)
=============================================================================
