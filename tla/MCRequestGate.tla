---------------------------- MODULE MCRequestGate ----------------------------
EXTENDS RequestGate

\* Each list that matters, once with the others that do not.
SomeConfigs ==
    {[ip |-> ip, user |-> user, limited |-> ip # "blocked"] :
        ip \in {"allowed", "blocked", "bypassed", "local"}, user \in {"allowed"}}
    \cup {[ip |-> "allowed", user |-> user, limited |-> TRUE] : user \in {"blocked", "excluded"}}
    \cup {[ip |-> "allowed", user |-> "allowed", limited |-> FALSE]}
=============================================================================
