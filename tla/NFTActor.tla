------------------------------ MODULE NFTActor ------------------------------
(***************************************************************************)
(* The basic_nft_actor: the NFT library's methods behind a dispatcher.     *)
(* Mint, Transfer and TransferFrom flush the new state, set it as the root *)
(* and call the recipient, from whose hook anybody may call the actor      *)
(* again; stack holds the methods suspended so.  A method that aborts      *)
(* loses every effect since it was entered.  Anybody may mint.             *)
(*                                                                         *)
(* The library takes owner, operator, recipient; the actor's TransferFrom  *)
(* passes its caller as the owner and the address named from as the        *)
(* operator.  The model does what the code does.                           *)
(***************************************************************************)
EXTENDS NFTLibrary

CONSTANTS
    Founders,       \* the actors that exist when the collection is created
    Addresses,      \* the addresses callers pass for owners and recipients
    Operators,      \* the addresses callers pass for operators
    Batches,        \* the lists of token IDs callers pass
    Counts,         \* how many tokens one call mints
    MaxMinted,      \* bound on the tokens ever minted
    MaxDepth        \* bound on the methods suspended in a hook

ASSUME ActorAssumption ==
    /\ Founders \subseteq ActorID
    /\ Founders # {}
    /\ Addresses \subseteq Address
    /\ Operators \subseteq Address
    /\ Batches \subseteq Seq(TokenID)
    /\ Counts \subseteq Nat
    /\ MaxMinted \in Nat
    /\ MaxDepth \in Nat

VARIABLES
    root,           \* the actor's state root: NFTState
    accts,          \* the actors that exist
    stack,          \* methods suspended in a hook, the innermost last
    reply           \* what the last call got

vars == <<root, accts, stack, reply>>

world == [nft |-> root, accts |-> accts]

Snapshot == [root |-> root, accts |-> accts]

Top == stack[Len(stack)]

Pop == SubSeq(stack, 1, Len(stack) - 1)

\* constructor
Init ==
    /\ root = NewNFTState
    /\ accts = Founders
    /\ stack = <<>>
    /\ reply \in [status : {"none"}, caller : Founders]

-----------------------------------------------------------------------------
(* How a call ends. *)

\* The unwrap of an error panics, so the actor aborts.
Refuse(caller) ==
    /\ reply' = [status |-> "aborted", caller |-> caller]
    /\ UNCHANGED <<root, accts, stack>>

\* flush and set_root with the state of r.
SetRoot(r) ==
    /\ r.world.nft.next <= MaxMinted
    /\ root' = r.world.nft
    /\ accts' = r.world.accts

Answer(caller, r) ==
    IF r.ok
    THEN /\ SetRoot(r)
         /\ reply' = [status |-> "ok", caller |-> caller]
         /\ UNCHANGED stack
    ELSE Refuse(caller)

AwaitHook(call, r) ==
    IF r.ok
    THEN /\ Len(stack) < MaxDepth
         /\ SetRoot(r)
         /\ stack' = Append(stack, [call |-> call, handle |-> root', undo |-> Snapshot])
         /\ reply' = [status |-> "pending", caller |-> call.caller]
    ELSE Refuse(call.caller)

-----------------------------------------------------------------------------
(* The methods.  A call with a hook is remembered by the owner the library *)
(* is given and by the address the caller names as the source.             *)

MintTo(caller, to, count) ==
    AwaitHook([method |-> "Mint", caller |-> caller, owner |-> to.actor,
               from |-> to, to |-> to,
               ids |-> [i \in 1..count |-> root.next + i - 1]],
              Mint(world, IDAddress(caller), to, count))

TransferTo(caller, to, ids) ==
    LET self == IDAddress(caller)
    IN  AwaitHook([method |-> "Transfer", caller |-> caller, owner |-> caller,
                   from |-> self, to |-> to, ids |-> ids],
                  Transfer(world, self, to, ids))

\* Mutant of TransferOnBehalf: the address named is taken for the owner and for
\* the operator.
TransferOnBehalfOfAny(caller, from, to, ids) ==
    AwaitHook([method |-> "TransferFrom", caller |-> caller, owner |-> from.actor,
               from |-> from, to |-> to, ids |-> ids],
              TransferFrom(world, from, from, to, ids))

TransferOnBehalf(caller, from, to, ids) ==
    AwaitHook([method |-> "TransferFrom", caller |-> caller, owner |-> caller,
               from |-> from, to |-> to, ids |-> ids],
              TransferFrom(world, IDAddress(caller), from, to, ids))

BurnOwn(caller, ids) ==
    Answer(caller, Burn(world, IDAddress(caller), ids))

BurnOnBehalf(caller, from, ids) ==
    Answer(caller, BurnFrom(world, from, IDAddress(caller), ids))

ApproveTokens(caller, operator, ids) ==
    Answer(caller, Approve(world, IDAddress(caller), operator, ids))

RevokeTokens(caller, operator, ids) ==
    Answer(caller, Revoke(world, IDAddress(caller), operator, ids))

ApproveForAll(caller, operator) ==
    Answer(caller, NFTApproveForOwner(world, IDAddress(caller), operator))

RevokeOperator(caller, operator) ==
    Answer(caller, NFTRevokeForAll(world, IDAddress(caller), operator))

-----------------------------------------------------------------------------
(* The hook comes back. *)

MintReturn(call, st) ==
    [balance |-> GetBalance(st, call.to.actor), supply |-> st.supply,
     ids |-> call.ids]

TransferReturn(call, st) ==
    [from |-> GetBalance(st, call.owner), to |-> GetBalance(st, call.to.actor),
     ids |-> call.ids]

ReturnValue(call, st) ==
    IF call.method = "Mint" THEN MintReturn(call, st) ELSE TransferReturn(call, st)

\* Mutant of ReloadIfChanged: the handle from before the hook is kept.
ReloadNever(handle) == handle

ReloadIfChanged(handle) == IF root # handle THEN root ELSE handle

\* Mutant of HookReturns: the handle is flushed after the hook, too.
HookReturnsFlush ==
    /\ stack # <<>>
    /\ root' = Top.handle
    /\ reply' = [status |-> "ok", caller |-> Top.call.caller]
    /\ stack' = Pop
    /\ UNCHANGED accts

HookReturns ==
    /\ stack # <<>>
    /\ reply' = [status |-> "returned",
                 caller |-> Top.call.caller,
                 call   |-> Top.call,
                 value  |-> ReturnValue(Top.call, ReloadIfChanged(Top.handle))]
    /\ stack' = Pop
    /\ UNCHANGED <<root, accts>>

HookAborts ==
    /\ stack # <<>>
    /\ root' = Top.undo.root
    /\ accts' = Top.undo.accts
    /\ stack' = Pop
    /\ reply' = [status |-> "aborted", caller |-> Top.call.caller]

-----------------------------------------------------------------------------

CallFrom(caller) ==
    \/ \E ids \in Batches : BurnOwn(caller, ids)
    \/ \E x \in Addresses :
          \/ \E count \in Counts : MintTo(caller, x, count)
          \/ \E ids \in Batches :
                \/ TransferTo(caller, x, ids)
                \/ BurnOnBehalf(caller, x, ids)
                \/ \E y \in Addresses : TransferOnBehalf(caller, x, y, ids)
    \/ \E x \in Operators :
          \/ ApproveForAll(caller, x)
          \/ RevokeOperator(caller, x)
          \/ \E ids \in Batches :
                ApproveTokens(caller, x, ids) \/ RevokeTokens(caller, x, ids)

Next ==
    \/ \E caller \in accts : CallFrom(caller)
    \/ HookReturns
    \/ HookAborts

Spec == Init /\ [][Next]_vars

-----------------------------------------------------------------------------
(* Type correctness *)

IsSnapshot(s) ==
    /\ s = [root |-> s.root, accts |-> s.accts]
    /\ IsNFTState(s.root)
    /\ s.accts \subseteq ActorID

CallRecord == [method : {"Mint", "Transfer", "TransferFrom"}, caller : ActorID,
               owner : ActorID, from : Address, to : Address, ids : Seq(TokenID)]

IsFrame(f) ==
    /\ f = [call |-> f.call, handle |-> f.handle, undo |-> f.undo]
    /\ f.call \in CallRecord
    /\ IsNFTState(f.handle)
    /\ IsSnapshot(f.undo)

TypeOK ==
    /\ IsSnapshot(Snapshot)
    /\ stack \in Seq({stack[i] : i \in DOMAIN stack})
    /\ Len(stack) <= MaxDepth
    /\ \A i \in DOMAIN stack : IsFrame(stack[i])
    /\ reply.status \in {"none", "ok", "pending", "returned", "aborted"}
    /\ reply.caller \in ActorID

-----------------------------------------------------------------------------
(* Safety *)

\* The state any call will load has a supply and balances that count its
\* tokens, with methods suspended at any depth and after any rollback, and
\* check_invariants reports nothing but entries that say nothing.
BalancesCountTokens ==
    /\ CountsMatch(root)
    /\ \A e \in CheckInvariants(root) : e.error = "ExplicitEmptyOwner"

\* What mint, transfer and transfer_from return is the collection as the hook
\* left it, in which the recipient may have moved or burnt what it was sent.
ReplyIsCurrent ==
    reply.status = "returned" => reply.value = ReturnValue(reply.call, root)

\* Outside a rollback a token leaves its owner only at the call of that owner
\* or of an operator of the token or of the owner's account; code run from a
\* recipient's hook has no more authority than anybody.
MoveIsAuthorised ==
    [][reply'.status # "aborted" =>
          \A t \in DOMAIN root.tokens :
              t \notin DOMAIN root'.tokens \/ OwnerOf(root', t) # OwnerOf(root, t)
              => \/ reply'.caller = OwnerOf(root, t)
                 \/ reply'.caller \in root.tokens[t].operators
                 \/ IsAccountOperator(root, OwnerOf(root, t), reply'.caller)]_vars

Owners(st) == [t \in DOMAIN st.tokens |-> OwnerOf(st, t)]

\* The actor is a collection with nested transactions.
Promise == INSTANCE Collection WITH
    Account <- ActorID,
    owner   <- Owners(root),
    issued  <- root.next,
    saved   <- [i \in DOMAIN stack |->
                  [owner  |-> Owners(stack[i].undo.root),
                   issued |-> stack[i].undo.root.next]]

ImplementsCollection == Promise!Spec
=============================================================================
