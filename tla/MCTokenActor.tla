---------------------------- MODULE MCTokenActor ----------------------------
(* Instances of TokenActor and BasicTokenActor for TLC. *)
EXTENDS BasicTokenActor

MCIDs == {IDAddress(a) : a \in ActorID}

MCMixed == {IDAddress(1), KeyAddress(2)}

\* Approvals go to the last actor, by the first and by itself.
MCOperators == {KeyAddress(2)}

MCCreatable == {NumActors}
=============================================================================
