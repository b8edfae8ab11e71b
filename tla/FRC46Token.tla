----------------------------- MODULE FRC46Token -----------------------------
(***************************************************************************)
(* The token library as a machine: any sequence of Token method calls on   *)
(* one handle, with ID and key addresses, amounts that are negative or not *)
(* a multiple of the granularity, and accounts that come into being on the *)
(* way.  The library trusts its caller for the identity of the operator,   *)
(* and last remembers who that was and whether the call succeeded.         *)
(***************************************************************************)
EXTENDS FRC46Library

CONSTANTS
    Populations,    \* the sets of actors that may exist at the start
    Addresses,      \* the addresses passed to a method
    Amounts,        \* the amounts passed to a method
    MaxSupply,      \* bound on the total supply
    MaxAllowance    \* bound on a single allowance

ASSUME BoundsAssumption ==
    /\ Populations \subseteq SUBSET ActorID
    /\ Addresses \subseteq Address
    /\ Amounts \subseteq Int
    /\ MaxSupply \in Nat
    /\ MaxAllowance \in Nat

VARIABLES
    token,          \* TokenState
    accts,          \* the actors that exist
    last            \* the last call: its operator, its result, and whether it
                    \* was set_balance, which asks for nobody's authority

vars == <<token, accts, last>>

TypeOK ==
    /\ IsTokenState(token)
    /\ accts \subseteq ActorID
    /\ last \in [operator : ActorID, ok : BOOLEAN, override : BOOLEAN]

world == [token |-> token, accts |-> accts]

WithinBounds(st) ==
    /\ st.supply <= MaxSupply
    /\ \A a, b \in ActorID : GetAllowance(st, a, b) <= MaxAllowance

Init ==
    /\ token = NewState
    /\ accts \in Populations
    /\ last = [operator |-> 1, ok |-> TRUE, override |-> FALSE]

\* The operator made a call whose outcome is r.
Outcome(operator, r, override) ==
    /\ WithinBounds(r.world.token)
    /\ token' = r.world.token
    /\ accts' = r.world.accts
    /\ last' = [operator |-> operator.actor, ok |-> r.ok, override |-> override]

Call(operator, r) == Outcome(operator, r, FALSE)

CallMint(operator, owner, amount) ==
    Call(operator, Mint(world, operator, owner, amount))

CallBurn(owner, amount) ==
    Call(owner, Burn(world, owner, amount))

CallBurnFrom(operator, owner, amount) ==
    Call(operator, BurnFrom(world, operator, owner, amount))

CallTransfer(from, to, amount) ==
    Call(from, Transfer(world, from, to, amount))

CallTransferFrom(operator, from, to, amount) ==
    Call(operator, TransferFrom(world, operator, from, to, amount))

CallIncreaseAllowance(owner, operator, delta) ==
    Call(owner, IncreaseAllowance(world, owner, operator, delta))

CallDecreaseAllowance(owner, operator, delta) ==
    Call(owner, DecreaseAllowance(world, owner, operator, delta))

CallRevokeAllowance(owner, operator) ==
    Call(owner, TokenRevokeAllowance(world, owner, operator))

CallSetAllowance(owner, operator, amount) ==
    Call(owner, TokenSetAllowance(world, owner, operator, amount))

CallSetBalance(owner, amount) ==
    Outcome(owner, TokenSetBalance(world, owner, amount), TRUE)

Next ==
    \E x \in Addresses :
        \/ \E amount \in Amounts : CallBurn(x, amount) \/ CallSetBalance(x, amount)
        \/ \E y \in Addresses :
              \/ CallRevokeAllowance(x, y)
              \/ \E amount \in Amounts :
                    \/ CallMint(x, y, amount)
                    \/ CallBurnFrom(x, y, amount)
                    \/ CallTransfer(x, y, amount)
                    \/ \E z \in Addresses : CallTransferFrom(x, y, z, amount)
                    \/ CallIncreaseAllowance(x, y, amount)
                    \/ CallDecreaseAllowance(x, y, amount)
                    \/ CallSetAllowance(x, y, amount)

Spec == Init /\ [][Next]_vars

-----------------------------------------------------------------------------
(* Safety *)

\* The total supply is the sum of all balances: no sequence of mints, burns,
\* transfers (to oneself included) and balance overrides creates or loses a
\* token (check_invariants: BalanceSupplyMismatch).
SupplyIsSumOfBalances == SupplyMatches(token)

\* check_invariants has nothing to report but allowances to oneself, whatever
\* order entries were added, drained and revoked in: no zero balance, no zero
\* allowance, no empty allowance map is left behind, nothing is negative, and
\* every balance is a multiple of the granularity though allowances need not
\* be.
StateIsCanonical ==
    \A e \in CheckInvariants(token, Granularity) : e.error = "ExplicitSelfAllowance"

\* A call that returns an error leaves the token state as it found it, also
\* when an earlier step of the call had already succeeded: an allowance is
\* not consumed by a transfer the balance cannot cover (Token::transaction).
FailedCallChangesNothing == [][~last'.ok => token' = token]_vars

Spent(a) == GetBalance(token, a) - GetBalance(token', a)

AllowanceUsed(a, b) == GetAllowance(token, a, b) - GetAllowance(token', a, b)

\* Tokens leave an account only through its owner, through an operator whose
\* allowance shrinks by exactly what was taken, or through set_balance; and a
\* spender's allowance shrinks by exactly what left the account, unless the
\* transfer went back to the owner.
DebitIsAuthorised ==
    [][\A a \in ActorID :
          LET operator == last'.operator
          IN  Spent(a) > 0 /\ operator # a /\ ~last'.override
              => AllowanceUsed(a, operator) = Spent(a)]_vars

\* Only the owner's own calls raise what others may take from the account,
\* and nobody but the owner or the spender itself lowers it.
AllowanceIsTheOwners ==
    [][\A a, b \in ActorID :
          /\ AllowanceUsed(a, b) < 0 => last'.operator = a
          /\ AllowanceUsed(a, b) > 0 => last'.operator \in {a, b}]_vars

\* check_invariants: "Checks that no allowances are stored where
\* operator == owner."  The allowance methods do not.
NoAllowanceToSelf ==
    \A e \in CheckInvariants(token, Granularity) : e.error # "ExplicitSelfAllowance"
=============================================================================
