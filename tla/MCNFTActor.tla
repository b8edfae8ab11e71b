----------------------------- MODULE MCNFTActor -----------------------------
(* Instances of NFTActor for TLC. *)
EXTENDS NFTActor

\* One token, both, one named twice.
MCBatches == {<<0>>, <<0, 1>>, <<1, 1>>}

\* The last actor can be created by a send to its key address.
MCCreatable == {NumActors}

MCMixed == {IDAddress(1), KeyAddress(2)}

\* Approvals go to the last actor, by the first and by itself.
MCOperators == {KeyAddress(2)}
=============================================================================
