---------------------------- MODULE FRC46Library ----------------------------
(***************************************************************************)
(* The methods of frc46_token::token::Token as operators.  A world is      *)
(* [token, accts]: the token state a handle wraps and the accounts bound   *)
(* so far.  A method returns [ok, world].  An error discards what the      *)
(* transaction did to the token state, but an account created before the   *)
(* error stays: undoing that is left to the actor that aborts.             *)
(*                                                                         *)
(* The receiver hook that mint, transfer and transfer_from hand back is    *)
(* called by the actor and belongs to module TokenActor.                   *)
(***************************************************************************)
EXTENDS FRC46State

CONSTANT Granularity

\* "Must be at least 1" (FRC46Token::granularity).
ASSUME GranularityAssumption == Granularity \in Nat \ {0}

\* Mutant of Transaction: the steps before the error stay.
TransactionNotDropped(w, r) ==
    [ok |-> r.ok, world |-> [w EXCEPT !.token = r.st]]

\* Token::transaction: keep the state the closure built only if it succeeded.
Transaction(w, r) ==
    [ok |-> r.ok, world |-> IF r.ok THEN [w EXCEPT !.token = r.st] ELSE w]

ValidAmount(amount) == amount >= 0 /\ amount % Granularity = 0

ValidAllowance(amount) == amount >= 0

-----------------------------------------------------------------------------

Mint(w, operator, owner, amount) ==
    LET init   == Init2(w, operator, owner)
        credit == ChangeBalanceBy(w.token, owner.actor, amount)
        issue  == ChangeSupplyBy(credit.st, amount)
    IN  IF ~ValidAmount(amount) THEN Failed(w)
        ELSE IF ~init.ok THEN init
        ELSE Transaction(init.world, AndThen(credit, issue))

\* Mutant of Burn: the supply is left alone.
BurnKeepSupply(w, owner, amount) ==
    LET init == Init1(w, owner)
    IN  IF ~ValidAmount(amount) THEN Failed(w)
        ELSE IF ~init.ok THEN init
        ELSE Transaction(init.world,
                         ChangeBalanceBy(w.token, owner.actor, -amount))

Burn(w, owner, amount) ==
    LET init   == Init1(w, owner)
        debit  == ChangeBalanceBy(w.token, owner.actor, -amount)
        retire == ChangeSupplyBy(debit.st, -amount)
    IN  IF ~ValidAmount(amount) THEN Failed(w)
        ELSE IF ~init.ok THEN init
        ELSE Transaction(init.world, AndThen(debit, retire))

\* An operator acts on another's account only if both addresses resolve and
\* are not the same actor.
OperatorAccepted(w, operator, owner) ==
    /\ ~SameAddress(w.accts, operator, owner)
    /\ Resolves(w.accts, operator)
    /\ Resolves(w.accts, owner)

BurnFrom(w, operator, owner, amount) ==
    LET use    == AttemptUseAllowance(w.token, operator.actor, owner.actor, amount)
        debit  == ChangeBalanceBy(use.st, owner.actor, -amount)
        retire == ChangeSupplyBy(debit.st, -amount)
    IN  IF ~ValidAmount(amount) \/ ~OperatorAccepted(w, operator, owner)
        THEN Failed(w)
        ELSE Transaction(w, AndThen(use, AndThen(debit, retire)))

Transfer(w, from, to, amount) ==
    LET init == Init2(w, from, to)
    IN  IF ~ValidAmount(amount) THEN Failed(w)
        ELSE IF ~init.ok THEN init
        ELSE Transaction(init.world,
                         MakeTransfer(w.token, from.actor, to.actor, amount))

\* Mutant of TransferFrom: being allowed anything is enough, and costs nothing.
TransferFromKeepAllowance(w, operator, from, to, amount) ==
    LET init == Init1(w, to)
        use  == AttemptUseAllowance(w.token, operator.actor, from.actor, amount)
        move == MakeTransfer(w.token, from.actor, to.actor, amount)
    IN  IF ~ValidAmount(amount) \/ ~OperatorAccepted(w, operator, from)
        THEN Failed(w)
        ELSE IF ~init.ok THEN init
        ELSE Transaction(init.world, AndThen(use, move))

TransferFrom(w, operator, from, to, amount) ==
    LET init == Init1(w, to)
        use  == AttemptUseAllowance(w.token, operator.actor, from.actor, amount)
        move == MakeTransfer(use.st, from.actor, to.actor, amount)
    IN  IF ~ValidAmount(amount) \/ ~OperatorAccepted(w, operator, from)
        THEN Failed(w)
        ELSE IF ~init.ok THEN init
        ELSE Transaction(init.world, AndThen(use, move))

-----------------------------------------------------------------------------

\* The allowance methods change the handle's state without a transaction.
InPlace(w, r) == [ok |-> r.ok, world |-> [w EXCEPT !.token = r.st]]

\* Mutant of IncreaseAllowance: owner and operator swapped.
IncreaseAllowanceSwapped(w, owner, operator, delta) ==
    LET init == Init2(w, owner, operator)
    IN  IF ~ValidAllowance(delta) THEN Failed(w)
        ELSE IF ~init.ok THEN init
        ELSE InPlace(init.world, ChangeAllowanceBy(w.token, operator.actor,
                                                   owner.actor, delta))

IncreaseAllowance(w, owner, operator, delta) ==
    LET init == Init2(w, owner, operator)
    IN  IF ~ValidAllowance(delta) THEN Failed(w)
        ELSE IF ~init.ok THEN init
        ELSE InPlace(init.world, ChangeAllowanceBy(w.token, owner.actor,
                                                   operator.actor, delta))

DecreaseAllowance(w, owner, operator, delta) ==
    LET init == Init2(w, owner, operator)
    IN  IF ~ValidAllowance(delta) THEN Failed(w)
        ELSE IF ~init.ok THEN init
        ELSE InPlace(init.world, ChangeAllowanceBy(w.token, owner.actor,
                                                   operator.actor, -delta))

\* Named after the method; RevokeAllowance is TokenState's.
TokenRevokeAllowance(w, owner, operator) ==
    IF Resolves(w.accts, owner) /\ Resolves(w.accts, operator)
    THEN InPlace(w, RevokeAllowance(w.token, owner.actor, operator.actor))
    ELSE [ok |-> TRUE, world |-> w]

TokenSetAllowance(w, owner, operator, amount) ==
    LET init == Init2(w, owner, operator)
    IN  IF ~ValidAllowance(amount) THEN Failed(w)
        ELSE IF amount = 0 THEN TokenRevokeAllowance(w, owner, operator)
        ELSE IF ~init.ok THEN init
        ELSE InPlace(init.world, SetAllowance(w.token, owner.actor,
                                              operator.actor, amount))

TokenSetBalance(w, owner, amount) ==
    LET init == Init1(w, owner)
        old  == GetBalance(w.token, owner.actor)
        set  == SetBalance(w.token, owner.actor, amount)
        sum  == Ok([set.st EXCEPT !.supply = @ + (amount - old)])
    IN  IF ~ValidAmount(amount) THEN Failed(w)
        ELSE IF ~init.ok THEN init
        ELSE Transaction(init.world, AndThen(set, sum))

-----------------------------------------------------------------------------

BalanceOf(w, owner) ==
    IF Resolves(w.accts, owner) THEN GetBalance(w.token, owner.actor) ELSE 0

Allowance(w, owner, operator) ==
    IF Resolves(w.accts, owner) /\ Resolves(w.accts, operator)
    THEN GetAllowance(w.token, owner.actor, operator.actor)
    ELSE 0
=============================================================================
