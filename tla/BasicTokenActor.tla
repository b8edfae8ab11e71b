-------------------------- MODULE BasicTokenActor --------------------------
(***************************************************************************)
(* The basic_token_actor: TokenActor's methods, in the same order of       *)
(* library call, flush, hook and reload, with a granularity of 1 and a     *)
(* mint that is open to anybody and cannot be disabled.  The state root is *)
(* the token state alone; root.minter is Anyone, which is no actor.        *)
(*                                                                         *)
(* EitherSpec is a token that is a factory token or a basic one, as its    *)
(* constructor decided.                                                    *)
(***************************************************************************)
EXTENDS TokenActor

Anyone == -1

Basic == root.minter = Anyone

\* constructor: no parameters and no minter.  granularity is the literal 1.
BasicInit ==
    /\ Granularity = 1
    /\ root = [token |-> NewState, minter |-> Anyone]
    /\ accts = Founders
    /\ stack = <<>>
    /\ reply = [status |-> "none", caller |-> Minter]
    /\ issued = 0

BasicMint(caller, to, amount) ==
    AwaitHook([method |-> "Mint", caller |-> caller, from |-> to, to |-> to],
              Mint(world, IDAddress(caller), to, amount), amount)

BasicTransfer(caller, to, amount) == TransferTo(caller, to, amount)

BasicTransferFrom(caller, from, to, amount) ==
    TransferOnBehalf(caller, from, to, amount)

BasicBurn(caller, amount) == BurnOwn(caller, amount)

BasicIncrease(caller, operator, delta) == Increase(caller, operator, delta)

BasicDecrease(caller, operator, delta) == Decrease(caller, operator, delta)

BasicRevoke(caller, operator) == Revoke(caller, operator)

\* The dispatcher has no arm for BurnFrom, nor for DisableMint.
BasicUnknown(caller) == BurnOnBehalf(caller)

BasicReturns == HookReturns

BasicAborts == HookAborts

BasicCallFrom(caller) ==
    \/ BasicUnknown(caller)
    \/ \E amount \in Amounts : BasicBurn(caller, amount)
    \/ \E operator \in Operators :
          \/ BasicRevoke(caller, operator)
          \/ \E amount \in Amounts :
                \/ BasicIncrease(caller, operator, amount)
                \/ BasicDecrease(caller, operator, amount)
    \/ \E x \in Addresses, amount \in Amounts :
          \/ BasicMint(caller, x, amount)
          \/ BasicTransfer(caller, x, amount)
          \/ \E y \in Addresses : BasicTransferFrom(caller, x, y, amount)

BasicNext ==
    \/ \E caller \in accts : BasicCallFrom(caller)
    \/ BasicReturns
    \/ BasicAborts

EitherNext ==
    \/ ~Basic /\ Next
    \/ Basic /\ BasicNext

EitherSpec == (Init \/ BasicInit) /\ [][EitherNext]_vars
=============================================================================
