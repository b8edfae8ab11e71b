------------------------------ MODULE NFTToken ------------------------------
(***************************************************************************)
(* The NFT library as a machine: any sequence of NFT method calls on one   *)
(* handle, with batches that are empty, name a token twice or name one     *)
(* that does not exist, and accounts that come into being on the way.  The *)
(* library trusts its caller for the identity of the operator, and last    *)
(* remembers who that was and whether the call succeeded.                  *)
(***************************************************************************)
EXTENDS NFTLibrary

CONSTANTS
    Populations,    \* the sets of actors that may exist at the start
    Addresses,      \* the addresses passed to a method
    Batches,        \* the lists of token IDs passed to a method
    Counts,         \* how many tokens one call mints
    MaxMinted       \* bound on the tokens ever minted

ASSUME BoundsAssumption ==
    /\ Populations \subseteq SUBSET ActorID
    /\ Addresses \subseteq Address
    /\ Batches \subseteq Seq(TokenID)
    /\ Counts \subseteq Nat
    /\ MaxMinted \in Nat

VARIABLES
    nft,            \* NFTState
    accts,          \* the actors that exist
    last,           \* the last call: its operator and its result
    burnt           \* ghost: the tokens ever burnt

vars == <<nft, accts, last, burnt>>

TypeOK ==
    /\ IsNFTState(nft)
    /\ accts \subseteq ActorID
    /\ last \in [operator : ActorID, ok : BOOLEAN]
    /\ burnt \subseteq TokenID

world == [nft |-> nft, accts |-> accts]

Init ==
    /\ nft = NewNFTState
    /\ accts \in Populations
    /\ last = [operator |-> 1, ok |-> TRUE]
    /\ burnt = {}

\* The operator made a call whose outcome is r.
Call(operator, r) ==
    /\ r.world.nft.next <= MaxMinted
    /\ nft' = r.world.nft
    /\ accts' = r.world.accts
    /\ last' = [operator |-> operator.actor, ok |-> r.ok]
    /\ burnt' = burnt \cup (DOMAIN nft.tokens \ DOMAIN nft'.tokens)

CallMint(operator, owner, count) ==
    Call(operator, Mint(world, operator, owner, count))

CallBurn(owner, ids) ==
    Call(owner, Burn(world, owner, ids))

CallBurnFrom(owner, operator, ids) ==
    Call(operator, BurnFrom(world, owner, operator, ids))

CallApprove(caller, operator, ids) ==
    Call(caller, Approve(world, caller, operator, ids))

CallRevoke(caller, operator, ids) ==
    Call(caller, Revoke(world, caller, operator, ids))

CallApproveForOwner(owner, operator) ==
    Call(owner, NFTApproveForOwner(world, owner, operator))

CallRevokeForAll(owner, operator) ==
    Call(owner, NFTRevokeForAll(world, owner, operator))

CallTransfer(owner, recipient, ids) ==
    Call(owner, Transfer(world, owner, recipient, ids))

CallTransferFrom(owner, operator, recipient, ids) ==
    Call(operator, TransferFrom(world, owner, operator, recipient, ids))

Next ==
    \E x \in Addresses :
        \/ \E ids \in Batches : CallBurn(x, ids)
        \/ \E y \in Addresses :
              \/ CallApproveForOwner(x, y)
              \/ CallRevokeForAll(x, y)
              \/ \E count \in Counts : CallMint(x, y, count)
              \/ \E ids \in Batches :
                    \/ CallBurnFrom(x, y, ids)
                    \/ CallApprove(x, y, ids)
                    \/ CallRevoke(x, y, ids)
                    \/ CallTransfer(x, y, ids)
                    \/ \E z \in Addresses : CallTransferFrom(x, y, z, ids)

Spec == Init /\ [][Next]_vars

-----------------------------------------------------------------------------
(* Safety *)

\* The supply and the owners' balances are counts of the token array, though
\* each is kept on its own by mint, burn and transfer, over batches, tokens
\* named twice and transfers to oneself: they match for every actor, and
\* check_invariants, which sees the actors with an entry only, has nothing to
\* report but entries that say nothing.
BalancesCountTokens ==
    /\ CountsMatch(nft)
    /\ \A e \in CheckInvariants(nft) : e.error = "ExplicitEmptyOwner"

\* "A burnt TokenID can never be minted again" (NFT::burn).
BurntStaysBurnt == burnt \cap DOMAIN nft.tokens = {}

\* A call that returns an error leaves the collection as it found it, also
\* when the first tokens of its batch had already been handled
\* (NFT::transaction; "the entire transaction should fail atomically").
FailedCallChangesNothing == [][~last'.ok => nft' = nft]_vars

\* An owner's entry that comes to say nothing, by its last token going or by
\* its last operator being revoked, does not stay (check_invariants:
\* "semantically empty entries").
NoEntryLeftEmpty ==
    [][\A a \in DOMAIN nft.owners \cap DOMAIN nft'.owners :
          nft.owners[a] # NoData => nft'.owners[a] # NoData]_vars

\* Who the docs let approve an operator of a token.
MayApprove(caller, t) ==
    \/ caller = OwnerOf(nft, t)
    \/ caller \in OwnerEntry(nft.owners, OwnerOf(nft, t)).operators

\* Approvals are the owner's: a token that changes hands arrives with no
\* operators, only the owner or an operator of the owner's account adds one
\* (NFT::approve's "may be an account-level operator or owner of the NFT"; an
\* operator of the token alone may not), and an account's operators change at
\* the call of its holder and survive its last token.
ApprovalsAreTheOwners ==
    [][/\ \A t \in DOMAIN nft.tokens \cap DOMAIN nft'.tokens :
             IF OwnerOf(nft', t) # OwnerOf(nft, t)
             THEN nft'.tokens[t].operators = {}
             ELSE ~MayApprove(last'.operator, t)
                  => nft'.tokens[t].operators \subseteq nft.tokens[t].operators
       /\ \A a \in ActorID :
             last'.operator # a
             => OwnerEntry(nft'.owners, a).operators
                  = OwnerEntry(nft.owners, a).operators]_vars
=============================================================================
