----------------------------- MODULE NFTLibrary -----------------------------
(***************************************************************************)
(* The methods of frc53_nft::NFT as operators from a world [nft, accts],   *)
(* the state a handle wraps and the actors that exist, to [ok, world].     *)
(* Each method that changes the collection is one transaction on a copy of *)
(* the state; an account created before an error stays.                    *)
(*                                                                         *)
(* The receiver hook, and who is told what, is the actor's part (NFTActor). *)
(***************************************************************************)
EXTENDS NFTState

\* Mutant of Transaction: the tokens handled before the error stay.
TransactionNotDropped(w, r) ==
    [ok |-> r.ok, world |-> [w EXCEPT !.nft = r.st]]

Transaction(w, r) ==
    [ok |-> r.ok, world |-> IF r.ok THEN [w EXCEPT !.nft = r.st] ELSE w]

Mint(w, operator, owner, count) ==
    LET init == Init1(w, owner)
    IN  IF ~Resolves(w.accts, operator) THEN Failed(w)
        ELSE IF ~init.ok THEN init
        ELSE Transaction(init.world, MintTokens(w.nft, owner.actor, count))

Burn(w, owner, ids) ==
    IF Resolves(w.accts, owner)
    THEN Transaction(w, BurnTokens(w.nft, owner.actor, ids, OwnedBy(owner.actor)))
    ELSE Failed(w)

\* The account-level approval is looked up first, which needs an entry.
BurnFrom(w, owner, operator, ids) ==
    LET init == Init1(w, owner)
    IN  IF ~Resolves(w.accts, operator) THEN Failed(w)
        ELSE IF ~init.ok THEN init
        ELSE IF owner.actor \notin DOMAIN w.nft.owners THEN Failed(init.world)
        ELSE Transaction(init.world,
               BurnTokens(w.nft, owner.actor, ids,
                          Delegated(w.nft, owner.actor, operator.actor)))

Approve(w, caller, operator, ids) ==
    LET init == Init1(w, operator)
    IN  IF ~Resolves(w.accts, caller) THEN Failed(w)
        ELSE IF ~init.ok THEN init
        ELSE Transaction(init.world,
               ApproveForTokens(w.nft, operator.actor, ids, OwnedBy(caller.actor)))

\* An operator that does not exist has nothing to revoke.
Revoke(w, caller, operator, ids) ==
    IF ~Resolves(w.accts, caller) THEN Failed(w)
    ELSE IF ~Resolves(w.accts, operator) THEN [ok |-> TRUE, world |-> w]
    ELSE Transaction(w,
           RevokeForTokens(w.nft, operator.actor, ids, OwnedBy(caller.actor)))

\* Named after the methods; ApproveForOwner and RevokeForAll are NFTState's.
NFTApproveForOwner(w, owner, operator) ==
    LET init == Init1(w, operator)
    IN  IF ~Resolves(w.accts, owner) THEN Failed(w)
        ELSE IF ~init.ok THEN init
        ELSE Transaction(init.world,
                         ApproveForOwner(w.nft, owner.actor, operator.actor))

NFTRevokeForAll(w, owner, operator) ==
    IF ~Resolves(w.accts, owner) THEN Failed(w)
    ELSE IF ~Resolves(w.accts, operator) THEN [ok |-> TRUE, world |-> w]
    ELSE Transaction(w, RevokeForAll(w.nft, owner.actor, operator.actor))

Transfer(w, owner, recipient, ids) ==
    LET init == Init2(w, owner, recipient)
    IN  IF ~init.ok THEN init
        ELSE Transaction(init.world,
               TransferTokens(w.nft, ids, recipient.actor, OwnedBy(owner.actor)))

TransferFrom(w, owner, operator, recipient, ids) ==
    LET init == Init1(w, recipient)
    IN  IF ~Resolves(w.accts, owner) \/ ~Resolves(w.accts, operator) THEN Failed(w)
        ELSE IF ~init.ok THEN init
        ELSE IF owner.actor \notin DOMAIN w.nft.owners THEN Failed(init.world)
        ELSE Transaction(init.world,
               TransferTokens(w.nft, ids, recipient.actor,
                              Delegated(w.nft, owner.actor, operator.actor)))

-----------------------------------------------------------------------------

BalanceOf(w, owner) ==
    IF Resolves(w.accts, owner) THEN GetBalance(w.nft, owner.actor) ELSE 0
=============================================================================
