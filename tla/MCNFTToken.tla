----------------------------- MODULE MCNFTToken -----------------------------
(* Instances of NFTToken for TLC. *)
EXTENDS NFTToken

\* No token, one, two, the same one twice.
MCBatches == {<<>>, <<0>>, <<0, 1>>, <<1, 1>>}

\* Actor 2 is also known by a key address, to which a plain send creates it.
MCAddresses == {IDAddress(a) : a \in ActorID} \cup {KeyAddress(2)}

MCCreatable == {2}

MCWithoutTwo == {{1}}
=============================================================================
