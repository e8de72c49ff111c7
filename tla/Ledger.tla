------------------------------- MODULE Ledger -------------------------------
(***************************************************************************)
(* What reporting promises for each fact the agent observes (a request, an *)
(* inspected call, an attack, ...), whatever the statistics, the reports   *)
(* and the network look like.  A fact is held until a heartbeat takes it,  *)
(* and a heartbeat takes everything that is held.  From then on the fate   *)
(* of the fact is the fate of that heartbeat: it is delivered, or it is    *)
(* lost, once and for all.                                                 *)
(***************************************************************************)
CONSTANTS Facts

VARIABLES fate

Fates == {"unseen", "held", "sent", "delivered", "lost"}

Init == fate = [f \in Facts |-> "unseen"]

With(before, d) == {f \in Facts : before[f] = d}

\* Every fact of S meets the fate d, and no other fact does.
Meets(before, S, d) == [f \in Facts |-> IF f \in S THEN d ELSE before[f]]

Observed(before, after) ==
    \E f \in With(before, "unseen") : after = Meets(before, {f}, "held")

\* A heartbeat takes all that is held, on a serverless platform together with
\* the invocation f that ends.  What is refused on the spot is lost.
Taken(before, after) ==
    \E d \in {"sent", "lost"} :
        \/ after = Meets(before, With(before, "held"), d)
        \/ \E f \in With(before, "unseen") :
              after = Meets(before, With(before, "held") \cup {f}, d)

Settled(before, after) ==
    \E S \in SUBSET With(before, "sent"), d \in {"delivered", "lost"} :
        after = Meets(before, S, d)

Moves(before, after) ==
    \/ Observed(before, after)
    \/ Taken(before, after)
    \/ Settled(before, after)

\* Bound, so that a refinement mapping is evaluated once.
Next == \E before \in {fate}, after \in {fate'} : Moves(before, after)

Spec == Init /\ [][Next]_fate

=============================================================================
