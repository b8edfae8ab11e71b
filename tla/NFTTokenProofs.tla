--------------------------- MODULE NFTTokenProofs ---------------------------
(***************************************************************************)
(* The NFT library as a machine, for any number of actors, any addresses   *)
(* and lists of tokens and whatever the bounds: its type, the counts that  *)
(* check_invariants compares, that a burnt token stays burnt, that a       *)
(* failed call changes nothing, whose approvals count and which entries    *)
(* of owners remain.                                                       *)
(*                                                                         *)
(* The invariants of the runs are not inductive: the balance of one owner  *)
(* may only be lowered by a burn because it counts that owner's tokens,    *)
(* and a burnt number stays out of use because it is below the next one.   *)
(***************************************************************************)
EXTENDS NFTToken, NFTLibraryProofs

LastOK == last \in [operator : ActorID, ok : BOOLEAN]

\* Every burnt token had a number that has been given out, and is gone.
BurntOK ==
    /\ burnt \subseteq 0..(nft.next - 1)
    /\ burnt \cap DOMAIN nft.tokens = {}

\* The inductive invariant.
IInv == WorldOK(world) /\ LastOK /\ BurntOK

\* Every step is a call with a sound outcome.
SoundStep ==
    \E operator \in Address : \E r, permitted :
        Sound(world, r, permitted) /\ Call(operator, r)

LEMMA NextIsSound ==
    ASSUME WorldOK(world), Next
    PROVE  SoundStep
<1> USE BoundsAssumption
<1>1. PICK x \in Addresses :
        \/ \E ids \in Batches : CallBurn(x, ids)
        \/ \E y \in Addresses :
              \/ CallApproveForOwner(x, y)
              \/ CallRevokeForAll(x, y)
              \/ \E count \in Counts : CallMint(x, y, count)
              \/ \E ids \in Batches :
                    \/ CallBurnFrom(x, y, ids)
                    \/ CallApprove(x, y, ids)
                    \/ CallRevoke(x, y, ids)
                    \/ CallTransfer(x, y, ids)
                    \/ \E z \in Addresses : CallTransferFrom(x, y, z, ids)
  BY DEF Next
<1>2. x \in Address
  OBVIOUS
<1>3. ASSUME NEW operator \in Address, NEW r, NEW permitted,
             Sound(world, r, permitted), Call(operator, r)
      PROVE  SoundStep
  BY <1>3 DEF SoundStep
<1>4. ASSUME NEW ids \in Batches, CallBurn(x, ids)
      PROVE  SoundStep
  BY <1>2, <1>3, <1>4, BurnSound DEF CallBurn
<1>5. ASSUME NEW y \in Addresses, CallApproveForOwner(x, y)
      PROVE  SoundStep
  BY <1>2, <1>3, <1>5, NFTApproveForOwnerSound DEF CallApproveForOwner
<1>6. ASSUME NEW y \in Addresses, CallRevokeForAll(x, y)
      PROVE  SoundStep
  BY <1>2, <1>3, <1>6, NFTRevokeForAllSound DEF CallRevokeForAll
<1>7. ASSUME NEW y \in Addresses, NEW count \in Counts, CallMint(x, y, count)
      PROVE  SoundStep
  BY <1>2, <1>3, <1>7, MintSound DEF CallMint
<1>8. ASSUME NEW y \in Addresses, NEW ids \in Batches, CallBurnFrom(x, y, ids)
      PROVE  SoundStep
  BY <1>2, <1>3, <1>8, BurnFromSound DEF CallBurnFrom
<1>9. ASSUME NEW y \in Addresses, NEW ids \in Batches, CallApprove(x, y, ids)
      PROVE  SoundStep
  BY <1>2, <1>3, <1>9, ApproveSound DEF CallApprove
<1>10. ASSUME NEW y \in Addresses, NEW ids \in Batches, CallRevoke(x, y, ids)
       PROVE  SoundStep
  BY <1>2, <1>3, <1>10, RevokeSound DEF CallRevoke
<1>11. ASSUME NEW y \in Addresses, NEW ids \in Batches, CallTransfer(x, y, ids)
       PROVE  SoundStep
  BY <1>2, <1>3, <1>11, TransferSound DEF CallTransfer
<1>12. ASSUME NEW y \in Addresses, NEW z \in Addresses, NEW ids \in Batches,
              CallTransferFrom(x, y, z, ids)
       PROVE  SoundStep
  BY <1>2, <1>3, <1>12, TransferFromSound DEF CallTransferFrom
<1>13. QED
  BY <1>1, <1>4, <1>5, <1>6, <1>7, <1>8, <1>9, <1>10, <1>11, <1>12

-----------------------------------------------------------------------------

LEMMA InitIInv == Init => IInv
<1> SUFFICES ASSUME Init PROVE IInv
  OBVIOUS
<1>1. StateOK(nft) /\ nft.next = 0
  BY NewStateOK DEF Init, NewNFTState
<1>2. accts \subseteq ActorID
  BY BoundsAssumption DEF Init
<1>3. LastOK
  BY ActorsAssumption DEF Init, LastOK, ActorID
<1>4. BurntOK
  BY DEF Init, BurntOK
<1>5. QED
  BY <1>1, <1>2, <1>3, <1>4 DEF IInv, WorldOK, world

LEMMA NextIInv == IInv /\ [Next]_vars => IInv'
<1> SUFFICES ASSUME IInv, [Next]_vars PROVE IInv'
  OBVIOUS
<1>1. CASE UNCHANGED vars
  <2>1. nft' = nft /\ accts' = accts /\ last' = last /\ burnt' = burnt
    BY <1>1 DEF vars
  <2>2. world' = world
    BY <2>1 DEF world
  <2>3. LastOK' /\ BurntOK'
    BY <2>1 DEF IInv, LastOK, BurntOK
  <2>4. WorldOK(world')
    BY <2>2 DEF IInv
  <2>5. QED
    BY <2>3, <2>4 DEF IInv, WorldOK, StateOK, IsNFTState, CountsMatch
<1>2. CASE Next
  <2>1. PICK operator \in Address :
          \E r, permitted : Sound(world, r, permitted) /\ Call(operator, r)
    BY <1>2, NextIsSound DEF IInv, SoundStep
  <2>2. PICK r, permitted : Sound(world, r, permitted) /\ Call(operator, r)
    BY <2>1
  <2>3. /\ nft' = r.world.nft /\ accts' = r.world.accts
        /\ last' = [operator |-> operator.actor, ok |-> r.ok]
        /\ burnt' = burnt \cup (DOMAIN nft.tokens \ DOMAIN nft'.tokens)
    BY <2>2 DEF Call
  <2>4. r.ok \in BOOLEAN /\ WorldOK(r.world)
    BY <2>2 DEF Sound
  <2>5. r.world = [nft |-> r.world.nft, accts |-> r.world.accts]
    BY <2>4 DEF WorldOK
  <2>6. world' = r.world
    BY <2>3, <2>5 DEF world
  <2>7. Fresh(nft, nft')
    <3>1. StateOK(nft) /\ world.nft = nft
      BY DEF IInv, WorldOK, world
    <3>2. nft.next \in Nat
      BY <3>1, StateFields
    <3>3. QED
      BY <2>2, <2>3, <3>1, <3>2 DEF Sound, Follows, Fresh
  <2>8. LastOK'
    BY <2>1, <2>3, <2>4 DEF LastOK, Address
  <2>9. BurntOK'
    <3>1. /\ nft.next \in Nat /\ nft'.next \in Nat /\ nft'.next >= nft.next
          /\ DOMAIN nft.tokens \subseteq 0..(nft.next - 1)
          /\ \A t \in DOMAIN nft'.tokens : t \in DOMAIN nft.tokens \/ t >= nft.next
      BY <2>3, <2>4, <2>7, StateFields DEF IInv, WorldOK, world, StateOK, Fresh
    <3>2. burnt \subseteq 0..(nft.next - 1) /\ burnt \cap DOMAIN nft.tokens = {}
      BY DEF IInv, BurntOK
    <3>3. ASSUME NEW t \in burnt'
          PROVE  t \in 0..(nft'.next - 1) /\ t \notin DOMAIN nft'.tokens
      <4>1. t \in 0..(nft.next - 1)
        BY <2>3, <3>1, <3>2
      <4>2. t \in Nat /\ t < nft.next
        BY <3>1, <4>1
      <4>3. t \in 0..(nft'.next - 1)
        BY <3>1, <4>2
      <4>4. t \in DOMAIN nft'.tokens => t \in DOMAIN nft.tokens
        BY <3>1, <4>2
      <4>5. t \notin DOMAIN nft'.tokens
        BY <2>3, <3>2, <4>4
      <4>6. QED
        BY <4>3, <4>5
    <3>4. QED
      BY <3>3 DEF BurntOK
  <2>10. WorldOK(world')
    BY <2>4, <2>6
  <2>11. QED
    BY <2>8, <2>9, <2>10 DEF IInv, WorldOK, StateOK, IsNFTState, CountsMatch
<1>3. QED
  BY <1>1, <1>2

\* IInv holds in every state of the machine.
THEOREM Invariance == Spec => []IInv
  BY InitIInv, NextIInv, PTL DEF Spec

\* The state always has the types of NFTState: balances, the supply and the
\* next number are never negative.
THEOREM TypeCorrect == Spec => []TypeOK
<1>1. IInv => TypeOK
  <2> SUFFICES ASSUME IInv PROVE TypeOK
    OBVIOUS
  <2>1. StateOK(nft) /\ accts \subseteq ActorID
    BY DEF IInv, WorldOK, world
  <2>2. nft.next \in Nat
    BY <2>1, StateFields
  <2>3. burnt \subseteq TokenID
    BY <2>2 DEF IInv, BurntOK, TokenID
  <2>4. QED
    BY <2>1, <2>3 DEF IInv, LastOK, TypeOK, StateOK
<1>2. QED
  BY <1>1, Invariance, PTL

\* Whatever is called, in batches of any length, the supply and each balance
\* count the tokens of the array (check_invariants: TotalSupplyMismatch,
\* TokenBalanceMismatch).
THEOREM CountsCorrect == Spec => []BalancesCountTokens
<1>1. IInv => BalancesCountTokens
  BY OnlyEmptyOwners DEF IInv, WorldOK, world, StateOK, BalancesCountTokens
<1>2. QED
  BY <1>1, Invariance, PTL

\* A token number is never given out a second time (NFT::burn: "A burnt
\* TokenID can never be minted again").
THEOREM BurntCorrect == Spec => []BurntStaysBurnt
<1>1. IInv => BurntStaysBurnt
  BY DEF IInv, BurntOK, BurntStaysBurnt
<1>2. QED
  BY <1>1, Invariance, PTL

\* A call that returns an error leaves the collection as it found it, however
\* far into its batch it got.
THEOREM FailureIsAtomic == Spec => FailedCallChangesNothing
<1>1. IInv /\ [Next]_vars => [~last'.ok => nft' = nft]_vars
  <2> SUFFICES ASSUME IInv, Next, ~last'.ok
               PROVE  nft' = nft
    OBVIOUS
  <2>1. PICK operator \in Address :
          \E r, permitted : Sound(world, r, permitted) /\ Call(operator, r)
    BY NextIsSound DEF IInv, SoundStep
  <2>2. PICK r, permitted : Sound(world, r, permitted) /\ Call(operator, r)
    BY <2>1
  <2>3. ~r.ok /\ nft' = r.world.nft
    BY <2>2 DEF Call
  <2>4. QED
    BY <2>2, <2>3 DEF Sound, world
<1>2. QED
  BY <1>1, Invariance, PTL DEF Spec, FailedCallChangesNothing

-----------------------------------------------------------------------------
(* Approvals and empty entries *)

\* Every call keeps them as its operator may.
LEMMA NextKeeps ==
    ASSUME WorldOK(world), Next
    PROVE  Kept(nft, nft', last'.operator)
<1> USE BoundsAssumption
<1>1. PICK x \in Addresses :
        \/ \E ids \in Batches : CallBurn(x, ids)
        \/ \E y \in Addresses :
              \/ CallApproveForOwner(x, y)
              \/ CallRevokeForAll(x, y)
              \/ \E count \in Counts : CallMint(x, y, count)
              \/ \E ids \in Batches :
                    \/ CallBurnFrom(x, y, ids)
                    \/ CallApprove(x, y, ids)
                    \/ CallRevoke(x, y, ids)
                    \/ CallTransfer(x, y, ids)
                    \/ \E z \in Addresses : CallTransferFrom(x, y, z, ids)
  BY DEF Next
<1>2. x \in Address /\ world.nft = nft
  BY DEF world
<1>3. ASSUME NEW operator, NEW r, Kept(nft, r.world.nft, operator.actor),
             Call(operator, r)
      PROVE  Kept(nft, nft', last'.operator)
  BY <1>3 DEF Call
<1>4. 0 \in Nat /\ <<>> \in Seq(TokenID)
  OBVIOUS
<1>5. ASSUME NEW ids \in Batches, CallBurn(x, ids)
      PROVE  Kept(nft, nft', last'.operator)
  <2>1. Kept(nft, Burn(world, x, ids).world.nft, x.actor)
    BY <1>2, <1>4, MethodsKeep
  <2>2. QED
    BY <1>3, <1>5, <2>1 DEF CallBurn
<1>6. ASSUME NEW y \in Addresses, CallApproveForOwner(x, y) \/ CallRevokeForAll(x, y)
      PROVE  Kept(nft, nft', last'.operator)
  <2>1. /\ Kept(nft, NFTApproveForOwner(world, x, y).world.nft, x.actor)
        /\ Kept(nft, NFTRevokeForAll(world, x, y).world.nft, x.actor)
    BY <1>2, <1>4, MethodsKeep
  <2>2. QED
    BY <1>3, <1>6, <2>1 DEF CallApproveForOwner, CallRevokeForAll
<1>7. ASSUME NEW y \in Addresses, NEW count \in Counts, CallMint(x, y, count)
      PROVE  Kept(nft, nft', last'.operator)
  <2>1. Kept(nft, Mint(world, x, y, count).world.nft, x.actor)
    BY <1>2, <1>4, MethodsKeep
  <2>2. QED
    BY <1>3, <1>7, <2>1 DEF CallMint
<1>8. ASSUME NEW y \in Addresses, NEW ids \in Batches,
             \/ CallBurnFrom(x, y, ids)
             \/ CallApprove(x, y, ids)
             \/ CallRevoke(x, y, ids)
             \/ CallTransfer(x, y, ids)
      PROVE  Kept(nft, nft', last'.operator)
  <2>1. /\ Kept(nft, BurnFrom(world, x, y, ids).world.nft, y.actor)
        /\ Kept(nft, Approve(world, x, y, ids).world.nft, x.actor)
        /\ Kept(nft, Revoke(world, x, y, ids).world.nft, x.actor)
        /\ Kept(nft, Transfer(world, x, y, ids).world.nft, x.actor)
    BY <1>2, <1>4, MethodsKeep
  <2>2. QED
    BY <1>3, <1>8, <2>1 DEF CallBurnFrom, CallApprove, CallRevoke, CallTransfer
<1>9. ASSUME NEW y \in Addresses, NEW z \in Addresses, NEW ids \in Batches,
             CallTransferFrom(x, y, z, ids)
      PROVE  Kept(nft, nft', last'.operator)
  <2>1. Kept(nft, TransferFrom(world, x, y, z, ids).world.nft, y.actor)
    BY <1>2, <1>4, MethodsKeep
  <2>2. QED
    BY <1>3, <1>9, <2>1 DEF CallTransferFrom
<1>10. QED
  BY <1>1, <1>5, <1>6, <1>7, <1>8, <1>9

\* Whatever is burnt, transferred and revoked in whatever order, an entry that
\* comes to say nothing is dropped (check_invariants).
THEOREM EntriesCorrect == Spec => NoEntryLeftEmpty
<1>1. IInv /\ [Next]_vars
      => [\A a \in DOMAIN nft.owners \cap DOMAIN nft'.owners :
             nft.owners[a] # NoData => nft'.owners[a] # NoData]_vars
  BY NextKeeps DEF IInv, Kept, NoneEmptied
<1>2. QED
  BY <1>1, Invariance, PTL DEF Spec, NoEntryLeftEmpty

\* Nobody but the owner or an operator of its account approves an operator of
\* a token, no approval of a token outlives its transfer, also within a batch
\* that names the token twice, and an account's approvals change at its
\* holder's call alone (approve_for_tokens, make_transfer, revoke_for_all).
THEOREM ApprovalsCorrect == Spec => ApprovalsAreTheOwners
<1> DEFINE A == /\ \A t \in DOMAIN nft.tokens \cap DOMAIN nft'.tokens :
                      IF OwnerOf(nft', t) # OwnerOf(nft, t)
                      THEN nft'.tokens[t].operators = {}
                      ELSE ~MayApprove(last'.operator, t)
                           => nft'.tokens[t].operators \subseteq nft.tokens[t].operators
                /\ \A a \in ActorID :
                      last'.operator # a
                      => OwnerEntry(nft'.owners, a).operators
                           = OwnerEntry(nft.owners, a).operators
<1>1. IInv /\ [Next]_vars => [A]_vars
  BY NextKeeps DEF IInv, Kept, ApprovalsKept, MayApprove
<1>2. QED
  BY <1>1, Invariance, PTL DEF Spec, ApprovalsAreTheOwners
=============================================================================
