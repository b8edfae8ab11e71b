-------------------------- MODULE MCNFTEnumeration --------------------------
(* Instances of NFTEnumeration for TLC. *)
EXTENDS NFTEnumeration

\* Four tokens minted to actor 1, of which 1 is burnt and 3 goes to actor 2;
\* actors 2 and 3 are operators of token 0 and of actor 1's account.
MCStart ==
    LET minted   == MintTokens(NewNFTState, 1, 4).st
        burnt    == BurnTokens(minted, 1, <<1>>, OwnedBy(1)).st
        moved    == TransferTokens(burnt, <<3>>, 2, OwnedBy(1)).st
        approved == ApproveForTokens(moved, 2, <<0>>, OwnedBy(1)).st
        both     == ApproveForTokens(approved, 3, <<0>>, OwnedBy(1)).st
    IN  ApproveForOwner(ApproveForOwner(both, 1, 2).st, 1, 3).st

\* The listings begin on that, or on no tokens at all.
MCStarts == {MCStart, NewNFTState}

MCSubjects ==
    {[kind |-> "ListTokens", of |-> 0]}
    \cup [kind : {"ListOwnedTokens", "ListOperatorTokens"}, of : {1, 2}]
    \cup {[kind |-> "ListTokenOperators", of |-> t] : t \in {0, 1}}
    \cup {[kind |-> "ListAccountOperators", of |-> a] : a \in {1, 2}}

MCBatches == {<<0>>, <<2>>, <<3, 3>>}
=============================================================================
