----------------------------- MODULE TokenActor -----------------------------
(***************************************************************************)
(* The FRC-46 token actor (frc46_factory_token): the library's methods     *)
(* behind a dispatcher, with the actor's state root and its minter, and    *)
(* the receiver hook that mint, transfer and transfer_from call after they *)
(* have flushed the new state and set it as the root.                      *)
(*                                                                         *)
(* While a hook runs, the token's method is suspended and anybody the      *)
(* recipient talks to may call the token again.  stack holds the suspended *)
(* methods.  A method that aborts loses every effect since it was entered, *)
(* its own and those of the calls made from its hook: a frame carries what *)
(* the FVM restores.                                                       *)
(*                                                                         *)
(* The basic_token_actor, which has the same order of steps, is module     *)
(* BasicTokenActor.                                                        *)
(***************************************************************************)
EXTENDS FRC46Library, Sequences

CONSTANTS
    Minter,         \* the minter the constructor is given
    Founders,       \* the actors that exist when the token is created
    Addresses,      \* the addresses callers pass for owners and recipients
    Operators,      \* the addresses callers pass for the operators they approve
    Amounts,        \* the amounts callers pass
    MaxSupply,      \* bound on the total supply
    MaxAllowance,   \* bound on a single allowance
    MaxDepth        \* bound on the methods suspended in a hook

ASSUME ActorAssumption ==
    /\ Founders \subseteq ActorID
    /\ Minter \in Founders
    /\ Addresses \subseteq Address
    /\ Operators \subseteq Address
    /\ Amounts \subseteq Int
    /\ MaxSupply \in Nat
    /\ MaxAllowance \in Nat
    /\ MaxDepth \in Nat

VARIABLES
    root,           \* the actor's state root: token state and minter
    accts,          \* the actors that exist
    stack,          \* methods suspended in a hook, the innermost last
    reply,          \* what the last call got
    issued          \* ghost: minted minus burned, by calls not rolled back

vars == <<root, accts, stack, reply, issued>>

NoMinter == 0

Option == ActorID \cup {NoMinter}

world == [token |-> root.token, accts |-> accts]

Snapshot == [root |-> root, accts |-> accts, issued |-> issued]

Top == stack[Len(stack)]

Pop == SubSeq(stack, 1, Len(stack) - 1)

Init ==
    /\ root = [token |-> NewState, minter |-> Minter]
    /\ accts = Founders
    /\ stack = <<>>
    /\ reply = [status |-> "none", caller |-> Minter]
    /\ issued = 0

WithinBounds(st) ==
    /\ st.supply <= MaxSupply
    /\ \A a, b \in ActorID : GetAllowance(st, a, b) <= MaxAllowance

-----------------------------------------------------------------------------
(* How a call ends. *)

\* The method returned an error, so the actor aborts.
Refuse(caller) ==
    /\ reply' = [status |-> "aborted", caller |-> caller]
    /\ UNCHANGED <<root, accts, stack, issued>>

\* save and set_root with the token state of r.
SetRoot(r) ==
    /\ WithinBounds(r.world.token)
    /\ root' = [root EXCEPT !.token = r.world.token]
    /\ accts' = r.world.accts

\* A method without a hook: flush_state once it has succeeded.
Answer(caller, r, burned) ==
    IF r.ok
    THEN /\ SetRoot(r)
         /\ issued' = issued - burned
         /\ reply' = [status |-> "ok", caller |-> caller]
         /\ UNCHANGED stack
    ELSE Refuse(caller)

\* A method with a hook: flush, set the root, and call the recipient.
AwaitHook(call, r, minted) ==
    IF r.ok
    THEN /\ Len(stack) < MaxDepth
         /\ SetRoot(r)
         /\ issued' = issued + minted
         /\ stack' = Append(stack, [call |-> call, handle |-> root', undo |-> Snapshot])
         /\ reply' = [status |-> "pending", caller |-> call.caller]
    ELSE Refuse(call.caller)

-----------------------------------------------------------------------------
(* The methods. *)

\* Mutant of MintTo: anyone may mint, at any time.
MintToByAnyone(caller, to, amount) ==
    AwaitHook([method |-> "Mint", caller |-> caller, from |-> to, to |-> to],
              Mint(world, IDAddress(caller), to, amount), amount)

MintTo(caller, to, amount) ==
    LET self == IDAddress(caller)
    IN  IF root.minter = NoMinter \/ caller # root.minter
        THEN Refuse(caller)
        ELSE AwaitHook([method |-> "Mint", caller |-> caller, from |-> to, to |-> to],
                       Mint(world, self, to, amount), amount)

\* Mutant of DisableMint: the caller is not compared with the minter.
DisableMintByAnyone(caller) ==
    /\ root' = [root EXCEPT !.minter = NoMinter]
    /\ reply' = [status |-> "ok", caller |-> caller]
    /\ UNCHANGED <<accts, stack, issued>>

DisableMint(caller) ==
    IF root.minter = NoMinter \/ caller # root.minter
    THEN Refuse(caller)
    ELSE /\ root' = [root EXCEPT !.minter = NoMinter]
         /\ reply' = [status |-> "ok", caller |-> caller]
         /\ UNCHANGED <<accts, stack, issued>>

TransferTo(caller, to, amount) ==
    LET self == IDAddress(caller)
    IN  AwaitHook([method |-> "Transfer", caller |-> caller, from |-> self, to |-> to],
                  Transfer(world, self, to, amount), 0)

TransferOnBehalf(caller, from, to, amount) ==
    AwaitHook([method |-> "TransferFrom", caller |-> caller, from |-> from, to |-> to],
              TransferFrom(world, IDAddress(caller), from, to, amount), 0)

BurnOwn(caller, amount) ==
    Answer(caller, Burn(world, IDAddress(caller), amount), amount)

\* BurnFrom has no entry in the dispatcher: USR_UNHANDLED_MESSAGE.
BurnOnBehalf(caller) ==
    /\ reply' = [status |-> "unhandled", caller |-> caller]
    /\ UNCHANGED <<root, accts, stack, issued>>

Increase(caller, operator, delta) ==
    Answer(caller, IncreaseAllowance(world, IDAddress(caller), operator, delta), 0)

Decrease(caller, operator, delta) ==
    Answer(caller, DecreaseAllowance(world, IDAddress(caller), operator, delta), 0)

Revoke(caller, operator) ==
    Answer(caller, TokenRevokeAllowance(world, IDAddress(caller), operator), 0)

-----------------------------------------------------------------------------
(* The hook comes back. *)

\* What the method returns, read through a handle on token state.
MintReturn(call, w) ==
    [balance |-> BalanceOf(w, call.to), supply |-> w.token.supply]

TransferReturn(call, w) ==
    [from |-> BalanceOf(w, call.from), to |-> BalanceOf(w, call.to)]

TransferFromReturn(call, w) ==
    [from |-> BalanceOf(w, call.from), to |-> BalanceOf(w, call.to),
     allowance |-> Allowance(w, call.from, IDAddress(call.caller))]

ReturnValue(call, w) ==
    CASE call.method = "Mint"         -> MintReturn(call, w)
      [] call.method = "Transfer"     -> TransferReturn(call, w)
      [] call.method = "TransferFrom" -> TransferFromReturn(call, w)

\* Mutant of Reload: the handle from before the hook is kept.
ReloadNever(handle) == handle

\* reload: read the state again if the hook left another root.
Reload(handle) == IF root # handle THEN root ELSE handle

\* Mutant of HookReturns: the state is flushed after the hook, too.
HookReturnsFlush ==
    /\ stack # <<>>
    /\ root' = Top.handle
    /\ reply' = [status |-> "ok", caller |-> Top.call.caller]
    /\ stack' = Pop
    /\ UNCHANGED <<accts, issued>>

HookReturns ==
    /\ stack # <<>>
    /\ reply' = [status |-> "returned",
                 caller |-> Top.call.caller,
                 call   |-> Top.call,
                 value  |-> ReturnValue(Top.call,
                                [token |-> Reload(Top.handle).token, accts |-> accts])]
    /\ stack' = Pop
    /\ UNCHANGED <<root, accts, issued>>

\* The recipient aborted: the error reaches invoke, which aborts, and the
\* FVM restores what the method and its hook changed.
HookAborts ==
    /\ stack # <<>>
    /\ root' = Top.undo.root
    /\ accts' = Top.undo.accts
    /\ issued' = Top.undo.issued
    /\ stack' = Pop
    /\ reply' = [status |-> "aborted", caller |-> Top.call.caller]

-----------------------------------------------------------------------------

CallFrom(caller) ==
    \/ DisableMint(caller)
    \/ BurnOnBehalf(caller)
    \/ \E amount \in Amounts : BurnOwn(caller, amount)
    \/ \E operator \in Operators :
          \/ Revoke(caller, operator)
          \/ \E amount \in Amounts :
                Increase(caller, operator, amount) \/ Decrease(caller, operator, amount)
    \/ \E x \in Addresses, amount \in Amounts :
          \/ MintTo(caller, x, amount)
          \/ TransferTo(caller, x, amount)
          \/ \E y \in Addresses : TransferOnBehalf(caller, x, y, amount)

Next ==
    \/ \E caller \in accts : CallFrom(caller)
    \/ HookReturns
    \/ HookAborts

Spec == Init /\ [][Next]_vars

-----------------------------------------------------------------------------
(* Type correctness *)

IsRoot(r) ==
    /\ r = [token |-> r.token, minter |-> r.minter]
    /\ IsTokenState(r.token)
    /\ r.minter \in Option

IsSnapshot(s) ==
    /\ s = [root |-> s.root, accts |-> s.accts, issued |-> s.issued]
    /\ IsRoot(s.root)
    /\ s.accts \subseteq ActorID
    /\ s.issued \in Int

CallRecord == [method : {"Mint", "Transfer", "TransferFrom"},
               caller : ActorID, from : Address, to : Address]

IsFrame(f) ==
    /\ f = [call |-> f.call, handle |-> f.handle, undo |-> f.undo]
    /\ f.call \in CallRecord
    /\ IsRoot(f.handle)
    /\ IsSnapshot(f.undo)

TypeOK ==
    /\ IsSnapshot(Snapshot)
    /\ stack \in Seq({stack[i] : i \in DOMAIN stack})
    /\ Len(stack) <= MaxDepth
    /\ \A i \in DOMAIN stack : IsFrame(stack[i])
    /\ reply.status \in {"none", "ok", "pending", "returned", "aborted", "unhandled"}
    /\ reply.caller \in ActorID

-----------------------------------------------------------------------------
(* Safety *)

\* The state any call will load is one whose supply is the sum of its
\* balances, with methods suspended at any depth and after any rollback.
SupplyIsSumOfBalances == SupplyMatches(root.token)

\* total_supply "equals sum of all successful mint calls minus the sum of
\* all successful burn calls": a mint or a burn made inside a hook is neither
\* forgotten when the outer method resumes nor kept when it is rolled back.
SupplyIsNetIssuance == root.token.supply = issued

\* What mint, transfer and transfer_from return is the state as the hook left
\* it, not the state the method computed before calling the hook.
ReplyIsCurrent ==
    reply.status = "returned" => reply.value = ReturnValue(reply.call, world)

RolledBack == reply.status = "aborted"

Spent(a) == GetBalance(root.token, a) - GetBalance(root'.token, a)

AllowanceUsed(a, b) ==
    GetAllowance(root.token, a, b) - GetAllowance(root'.token, a, b)

\* Outside a rollback tokens leave an account only at the call of its owner,
\* or of an operator whose allowance shrinks by what was taken, and only the
\* owner's call raises an allowance: code run from a recipient's hook, deep in
\* a call of the owner's, has no authority but its own, and an allowance spent
\* there is not there again when the suspended methods resume.
DebitIsAuthorised ==
    [][LET operator == reply'.caller
       IN  \A a \in ActorID :
              operator # a /\ ~RolledBack'
              => /\ Spent(a) > 0 => AllowanceUsed(a, operator) = Spent(a)
                 /\ \A b \in ActorID : AllowanceUsed(a, b) >= 0]_vars

\* Only the minter adds to the supply, and once minting is disabled it stays
\* so ("Permanently disable minting") unless the method within which it was
\* disabled is itself rolled back.
MinterAuthority ==
    [][/\ root'.token.supply > root.token.supply
             => RolledBack' \/ reply'.caller = root.minter
       /\ root'.minter # root.minter
             => \/ root'.minter = NoMinter /\ reply'.caller = root.minter
                \/ RolledBack' /\ Len(stack') < Len(stack)]_vars

\* The actor is a ledger with nested transactions.
Promise == INSTANCE Ledger WITH
    Account <- ActorID,
    balance <- BalanceOfEach(root.token),
    open    <- root.minter # NoMinter,
    saved   <- [i \in DOMAIN stack |->
                  [balance |-> BalanceOfEach(stack[i].undo.root.token),
                   open    |-> stack[i].undo.root.minter # NoMinter]]

ImplementsLedger == Promise!Spec

\* frc46_invoke: "Given a method number and parameter block id, invokes the
\* appropriate method on the FRC46Token interface."  It has no BurnFrom.
InterfaceIsDispatched == reply.status # "unhandled"
=============================================================================
