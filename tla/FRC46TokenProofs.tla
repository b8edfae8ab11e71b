-------------------------- MODULE FRC46TokenProofs --------------------------
(***************************************************************************)
(* The token library as a machine, for any number of actors, any addresses *)
(* and amounts, any granularity and whatever the bounds: its type, the     *)
(* agreement of supply and balances, the atomicity of failed calls, whose  *)
(* authority debits and allowances need, and the canonical form of state.  *)
(*                                                                         *)
(* Then the token among the actors that receive it, for any actors, any    *)
(* operator data and calls nested to any depth: what a hook may rely on,   *)
(* what an abort undoes and what the transfer actor promises.              *)
(***************************************************************************)
EXTENDS FRC46Token, TokenReceivers, FRC46LibraryProofs, SequenceTheorems

LastOK == last \in [operator : ActorID, ok : BOOLEAN, override : BOOLEAN]

\* The inductive invariant.  WorldOK adds NoExplicitZeros to the types and to
\* SupplyMatches: the lemmas about TokenState keep the three together.
IInv == WorldOK(world) /\ LastOK

LEMMA IInvMeaning ==
    IInv <=> TypeOK /\ SupplyIsSumOfBalances /\ NoExplicitZeros(token)
  BY DEF IInv, WorldOK, world, StateOK, LastOK, TypeOK, SupplyIsSumOfBalances

\* Every step is a call with a proper outcome, whatever it did to the supply.
ProperStep ==
    \E operator \in Address, override \in BOOLEAN : \E r, d :
        Proper(world, r, d) /\ Outcome(operator, r, override)

LEMMA NextIsProper ==
    ASSUME WorldOK(world), Next
    PROVE  ProperStep
<1> USE BoundsAssumption
<1>1. PICK x \in Addresses :
        \/ \E amount \in Amounts : CallBurn(x, amount) \/ CallSetBalance(x, amount)
        \/ \E y \in Addresses :
              \/ CallRevokeAllowance(x, y)
              \/ \E amount \in Amounts :
                    \/ CallMint(x, y, amount)
                    \/ CallBurnFrom(x, y, amount)
                    \/ CallTransfer(x, y, amount)
                    \/ \E z \in Addresses : CallTransferFrom(x, y, z, amount)
                    \/ CallIncreaseAllowance(x, y, amount)
                    \/ CallDecreaseAllowance(x, y, amount)
                    \/ CallSetAllowance(x, y, amount)
  BY DEF Next
<1>2. x \in Address
  OBVIOUS
<1>3. ASSUME NEW r, NEW d, Proper(world, r, d), Call(x, r)
      PROVE  ProperStep
  BY <1>2, <1>3 DEF ProperStep, Call
<1>4. ASSUME NEW amount \in Amounts, CallBurn(x, amount)
      PROVE  ProperStep
  BY <1>2, <1>3, <1>4, BurnProper DEF CallBurn
<1>5. ASSUME NEW amount \in Amounts, CallSetBalance(x, amount)
      PROVE  ProperStep
  BY <1>2, <1>5, TokenSetBalanceProper DEF CallSetBalance, ProperStep
<1>6. ASSUME NEW y \in Addresses, CallRevokeAllowance(x, y)
      PROVE  ProperStep
  BY <1>2, <1>3, <1>6, TokenRevokeAllowanceProper DEF CallRevokeAllowance
<1>7. ASSUME NEW y \in Addresses, NEW amount \in Amounts, CallMint(x, y, amount)
      PROVE  ProperStep
  BY <1>2, <1>3, <1>7, MintProper DEF CallMint
<1>8. ASSUME NEW y \in Addresses, NEW amount \in Amounts, CallBurnFrom(x, y, amount)
      PROVE  ProperStep
  BY <1>2, <1>3, <1>8, BurnFromProper DEF CallBurnFrom
<1>9. ASSUME NEW y \in Addresses, NEW amount \in Amounts, CallTransfer(x, y, amount)
      PROVE  ProperStep
  BY <1>2, <1>3, <1>9, TransferProper DEF CallTransfer
<1>10. ASSUME NEW y \in Addresses, NEW z \in Addresses, NEW amount \in Amounts,
              CallTransferFrom(x, y, z, amount)
       PROVE  ProperStep
  BY <1>2, <1>3, <1>10, TransferFromProper DEF CallTransferFrom
<1>11. ASSUME NEW y \in Addresses, NEW amount \in Amounts,
              CallIncreaseAllowance(x, y, amount)
       PROVE  ProperStep
  BY <1>2, <1>3, <1>11, IncreaseAllowanceProper DEF CallIncreaseAllowance
<1>12. ASSUME NEW y \in Addresses, NEW amount \in Amounts,
              CallDecreaseAllowance(x, y, amount)
       PROVE  ProperStep
  BY <1>2, <1>3, <1>12, DecreaseAllowanceProper DEF CallDecreaseAllowance
<1>13. ASSUME NEW y \in Addresses, NEW amount \in Amounts,
              CallSetAllowance(x, y, amount)
       PROVE  ProperStep
  BY <1>2, <1>3, <1>13, TokenSetAllowanceProper DEF CallSetAllowance
<1>14. QED
  BY <1>1, <1>4, <1>5, <1>6, <1>7, <1>8, <1>9, <1>10, <1>11, <1>12, <1>13

-----------------------------------------------------------------------------

LEMMA InitIInv == Init => IInv
<1> SUFFICES ASSUME Init PROVE IInv
  OBVIOUS
<1>1. StateOK(token) /\ SupplyMatches(token)
  BY NewStateOK DEF Init
<1>2. accts \subseteq ActorID
  BY BoundsAssumption DEF Init
<1>3. LastOK
  BY ActorsAssumption DEF Init, LastOK, ActorID
<1>4. QED
  BY <1>1, <1>2, <1>3 DEF IInv, WorldOK, world

LEMMA NextIInv == IInv /\ [Next]_vars => IInv'
<1> SUFFICES ASSUME IInv, [Next]_vars PROVE IInv'
  OBVIOUS
<1>1. CASE UNCHANGED vars
  BY <1>1 DEF IInv, vars, WorldOK, world, StateOK, SupplyMatches, LastOK
<1>2. CASE Next
  <2>1. PICK operator \in Address, override \in BOOLEAN :
          \E r, d : Proper(world, r, d) /\ Outcome(operator, r, override)
    BY <1>2, NextIsProper DEF IInv, ProperStep
  <2>2. PICK r, d : Proper(world, r, d) /\ Outcome(operator, r, override)
    BY <2>1
  <2>3. world' = [token |-> r.world.token, accts |-> r.world.accts]
    BY <2>2 DEF Outcome, world
  <2>4. WorldOK(world')
    <3>1. r.world = world'
      BY <2>2, <2>3 DEF Proper, WorldOK
    <3>2. QED
      BY <2>2, <3>1 DEF Proper
  <2>5. LastOK'
    BY <2>1, <2>2 DEF Outcome, Proper, LastOK, Address
  <2>6. QED
    BY <2>4, <2>5 DEF IInv, WorldOK, StateOK, SupplyMatches
<1>3. QED
  BY <1>1, <1>2

\* IInv holds in every state of the machine.
THEOREM Invariance == Spec => []IInv
  BY InitIInv, NextIInv, PTL DEF Spec

\* The state always has the types of TokenState, a supply and balances that
\* are never negative included.
THEOREM TypeCorrect == Spec => []TypeOK
<1>1. IInv => TypeOK
  BY IInvMeaning
<1>2. QED
  BY <1>1, Invariance, PTL

\* No sequence of library calls makes the supply differ from the sum of the
\* balances (check_invariants: BalanceSupplyMismatch).
THEOREM SupplyCorrect == Spec => []SupplyIsSumOfBalances
<1>1. IInv => SupplyIsSumOfBalances
  BY IInvMeaning
<1>2. QED
  BY <1>1, Invariance, PTL

\* A call that returns an error leaves the token state as it found it: the
\* whole of a transaction is dropped, not only its last step.
THEOREM FailureIsAtomic == Spec => FailedCallChangesNothing
<1>1. IInv /\ [Next]_vars => [~last'.ok => token' = token]_vars
  <2> SUFFICES ASSUME IInv, Next, ~last'.ok
               PROVE  token' = token
    OBVIOUS
  <2>1. PICK operator \in Address, override \in BOOLEAN :
          \E r, d : Proper(world, r, d) /\ Outcome(operator, r, override)
    BY NextIsProper DEF IInv, ProperStep
  <2>2. PICK r, d : Proper(world, r, d) /\ Outcome(operator, r, override)
    BY <2>1
  <2>3. ~r.ok /\ token' = r.world.token
    BY <2>2 DEF Outcome
  <2>4. QED
    BY <2>2, <2>3 DEF Proper, world
<1>2. QED
  BY <1>1, Invariance, PTL DEF Spec, FailedCallChangesNothing

-----------------------------------------------------------------------------
(* Authority *)

\* Every step is authorised by the actor last names, set_balance apart.
LEMMA NextIsAuthorised ==
    ASSUME WorldOK(world), Next
    PROVE  /\ ~last'.override => DebitsCovered(token, token', last'.operator)
           /\ AllowancesKept(token, token', last'.operator)
<1> USE BoundsAssumption
<1>1. ASSUME NEW x \in Address, NEW r, Call(x, r),
             Authorised(token, r.world.token, x.actor)
      PROVE  /\ DebitsCovered(token, token', last'.operator)
             /\ AllowancesKept(token, token', last'.operator)
  <2>1. token' = r.world.token /\ last'.operator = x.actor
    BY <1>1 DEF Call, Outcome
  <2>2. QED
    BY <1>1, <2>1 DEF Authorised
<1>2. world.token = token
  BY DEF world
<1>3. PICK x \in Addresses :
        \/ \E amount \in Amounts : CallBurn(x, amount) \/ CallSetBalance(x, amount)
        \/ \E y \in Addresses :
              \/ CallRevokeAllowance(x, y)
              \/ \E amount \in Amounts :
                    \/ CallMint(x, y, amount)
                    \/ CallBurnFrom(x, y, amount)
                    \/ CallTransfer(x, y, amount)
                    \/ \E z \in Addresses : CallTransferFrom(x, y, z, amount)
                    \/ CallIncreaseAllowance(x, y, amount)
                    \/ CallDecreaseAllowance(x, y, amount)
                    \/ CallSetAllowance(x, y, amount)
  BY DEF Next
<1>4. x \in Address
  OBVIOUS
<1>5. ASSUME NEW amount \in Amounts, CallBurn(x, amount)
      PROVE  /\ DebitsCovered(token, token', last'.operator)
             /\ AllowancesKept(token, token', last'.operator)
  BY <1>1, <1>2, <1>4, <1>5, BurnAuthorised DEF CallBurn
<1>6. ASSUME NEW amount \in Amounts, CallSetBalance(x, amount)
      PROVE  last'.override /\ AllowancesKept(token, token', last'.operator)
  <2>1. /\ token' = TokenSetBalance(world, x, amount).world.token
        /\ last'.operator = x.actor /\ last'.override
    BY <1>6 DEF CallSetBalance, Outcome
  <2>2. AllowancesKept(token, TokenSetBalance(world, x, amount).world.token, x.actor)
    BY <1>2, <1>4, TokenSetBalanceKeepsAllowances
  <2>3. QED
    BY <2>1, <2>2
<1>7. ASSUME NEW y \in Addresses, CallRevokeAllowance(x, y)
      PROVE  /\ DebitsCovered(token, token', last'.operator)
             /\ AllowancesKept(token, token', last'.operator)
  BY <1>1, <1>2, <1>4, <1>7, TokenRevokeAllowanceAuthorised DEF CallRevokeAllowance
<1>8. ASSUME NEW y \in Addresses, NEW amount \in Amounts,
             \/ CallMint(x, y, amount)
             \/ CallBurnFrom(x, y, amount)
             \/ CallTransfer(x, y, amount)
             \/ CallIncreaseAllowance(x, y, amount)
             \/ CallDecreaseAllowance(x, y, amount)
             \/ CallSetAllowance(x, y, amount)
      PROVE  /\ DebitsCovered(token, token', last'.operator)
             /\ AllowancesKept(token, token', last'.operator)
  <2>1. CASE CallMint(x, y, amount)
    BY <1>1, <1>2, <1>4, <2>1, MintAuthorised DEF CallMint
  <2>2. CASE CallBurnFrom(x, y, amount)
    BY <1>1, <1>2, <1>4, <2>2, BurnFromAuthorised DEF CallBurnFrom
  <2>3. CASE CallTransfer(x, y, amount)
    BY <1>1, <1>2, <1>4, <2>3, TransferAuthorised DEF CallTransfer
  <2>4. CASE CallIncreaseAllowance(x, y, amount)
    BY <1>1, <1>2, <1>4, <2>4, IncreaseAllowanceAuthorised DEF CallIncreaseAllowance
  <2>5. CASE CallDecreaseAllowance(x, y, amount)
    BY <1>1, <1>2, <1>4, <2>5, DecreaseAllowanceAuthorised DEF CallDecreaseAllowance
  <2>6. CASE CallSetAllowance(x, y, amount)
    BY <1>1, <1>2, <1>4, <2>6, TokenSetAllowanceAuthorised DEF CallSetAllowance
  <2>7. QED
    BY <1>8, <2>1, <2>2, <2>3, <2>4, <2>5, <2>6
<1>9. ASSUME NEW y \in Addresses, NEW z \in Addresses, NEW amount \in Amounts,
             CallTransferFrom(x, y, z, amount)
      PROVE  /\ DebitsCovered(token, token', last'.operator)
             /\ AllowancesKept(token, token', last'.operator)
  BY <1>1, <1>2, <1>4, <1>9, TransferFromAuthorised DEF CallTransferFrom
<1>10. QED
  BY <1>3, <1>5, <1>6, <1>7, <1>8, <1>9

\* Tokens leave an account only at its owner's call, or against an allowance
\* of the caller that shrinks by exactly what was taken, or by set_balance:
\* for any number of owners, spenders and recipients.
THEOREM DebitCorrect == Spec => DebitIsAuthorised
<1> DEFINE D == \A a \in ActorID :
                   LET operator == last'.operator
                   IN  Spent(a) > 0 /\ operator # a /\ ~last'.override
                       => AllowanceUsed(a, operator) = Spent(a)
<1>1. IInv /\ [Next]_vars => [D]_vars
  BY NextIsAuthorised DEF IInv, DebitsCovered, Spent, AllowanceUsed
<1>2. QED
  BY <1>1, Invariance, PTL DEF Spec, DebitIsAuthorised

\* An allowance is raised only by its owner, and lowered only by the owner or
\* the one who may spend it, whatever addresses they are named by.
THEOREM AllowanceCorrect == Spec => AllowanceIsTheOwners
<1> DEFINE D == \A a, b \in ActorID :
                   /\ AllowanceUsed(a, b) < 0 => last'.operator = a
                   /\ AllowanceUsed(a, b) > 0 => last'.operator \in {a, b}
<1>1. IInv /\ [Next]_vars => [D]_vars
  BY NextIsAuthorised DEF IInv, AllowancesKept, AllowanceUsed
<1>2. QED
  BY <1>1, Invariance, PTL DEF Spec, AllowanceIsTheOwners
-----------------------------------------------------------------------------
(* Granularity *)

\* Multiples of a number are closed under sum and sign.  The provers multiply
\* but do not divide, so each multiple is named by its quotient.
LEMMA QuotientOfMultiple ==
    ASSUME NEW g \in Nat \ {0}, NEW a \in Int, a % g = 0
    PROVE  \E q \in Int : a = g * q
  BY SMTT(30)

LEMMA MultipleHasNoRemainder ==
    ASSUME NEW g \in Nat \ {0}, NEW k \in Int
    PROVE  (g * k) % g = 0
  BY SMTT(30)

LEMMA MultiplesDistribute ==
    ASSUME NEW g \in Nat \ {0}, NEW p \in Int, NEW q \in Int
    PROVE  g * p + g * q = g * (p + q) /\ -(g * p) = g * (-p)
  BY SMTT(30)

LEMMA MultiplesClosed ==
    ASSUME NEW g \in Nat \ {0}, NEW a \in Int, NEW b \in Int, a % g = 0, b % g = 0
    PROVE  (a + b) % g = 0 /\ (-a) % g = 0
<1>1. PICK p \in Int : a = g * p
  BY QuotientOfMultiple
<1>2. PICK q \in Int : b = g * q
  BY QuotientOfMultiple
<1>3. a + b = g * (p + q) /\ -a = g * (-p)
  BY <1>1, <1>2, MultiplesDistribute
<1>4. p + q \in Int /\ -p \in Int
  OBVIOUS
<1>5. (g * (p + q)) % g = 0 /\ (g * (-p)) % g = 0
  BY <1>4, MultipleHasNoRemainder
<1>6. QED
  BY <1>3, <1>5

LEMMA NegativeIsWhole ==
    ASSUME NEW amount \in Int, amount % Granularity = 0
    PROVE  -amount \in Int /\ (-amount) % Granularity = 0
<1>1. Granularity \in Nat \ {0}
  BY GranularityAssumption
<1>2. (-amount) % Granularity = 0
  BY <1>1, MultiplesClosed, Zenon
<1>3. -amount \in Int
  OBVIOUS
<1>4. QED
  BY <1>2, <1>3

Whole(st) == \A a \in ActorID : GetBalance(st, a) % Granularity = 0

\* Reading every balance is as good as looking at every stored one.
LEMMA WholeMeansStored ==
    ASSUME NEW st, IsTokenState(st), Whole(st)
    PROVE  BalancesWhole(st, Granularity)
  BY DEF IsTokenState, IsHamt, Whole, BalancesWhole, GetBalance, HamtGet

LEMMA WholeNewState == Whole(NewState)
<1>1. \A a : GetBalance(NewState, a) = 0
  BY DEF NewState, GetBalance, HamtGet, EmptyHamt
<1>2. 0 % Granularity = 0
  <2>1. Granularity * 0 = 0 /\ (Granularity * 0) % Granularity = 0
    BY GranularityAssumption, MultipleHasNoRemainder
  <2>2. QED
    BY <2>1
<1>3. QED
  BY <1>1, <1>2 DEF Whole

\* A whole change of one balance.
LEMMA WholeChange ==
    ASSUME NEW st, StateOK(st), Whole(st), NEW a \in ActorID, NEW delta \in Int,
           delta % Granularity = 0
    PROVE  Whole(ChangeBalanceBy(st, a, delta).st) /\ StateOK(ChangeBalanceBy(st, a, delta).st)
<1> DEFINE r == ChangeBalanceBy(st, a, delta)
<1>1. /\ r.ok \in BOOLEAN
      /\ StateOK(r.st)
      /\ \A x \in ActorID : x # a => GetBalance(r.st, x) = GetBalance(st, x)
      /\ r.ok => GetBalance(r.st, a) = GetBalance(st, a) + delta
  BY ChangeBalanceByPointwise
<1>2. ~r.ok => r.st = st
  BY ChangeBalanceByProperties
<1> HIDE DEF r
<1>3. GetBalance(st, a) \in Int /\ GetBalance(st, a) % Granularity = 0
  BY GetBalanceNat DEF StateOK, Whole
<1>4. (GetBalance(st, a) + delta) % Granularity = 0
  BY <1>3, GranularityAssumption, MultiplesClosed
<1>5. Whole(r.st)
  BY <1>1, <1>2, <1>4 DEF Whole
<1>6. QED
  BY <1>1, <1>5 DEF r

\* A whole change of a balance, then of the supply.
LEMMA WholeIssue ==
    ASSUME NEW st, StateOK(st), Whole(st), NEW a \in ActorID, NEW delta \in Int,
           delta % Granularity = 0
    PROVE  LET change == ChangeBalanceBy(st, a, delta)
           IN  Whole(AndThen(change, ChangeSupplyBy(change.st, delta)).st)
<1> DEFINE change == ChangeBalanceBy(st, a, delta)
           supply == ChangeSupplyBy(change.st, delta)
<1>1. Whole(change.st) /\ StateOK(change.st)
  BY WholeChange
<1> HIDE DEF change
<1>2. Whole(supply.st)
  BY <1>1, ChangeSupplyByPointwise DEF Whole
<1> HIDE DEF supply
<1>3. Whole(AndThen(change, supply).st)
  BY <1>1, <1>2 DEF AndThen
<1>4. QED
  BY <1>3 DEF change, supply

LEMMA WholeTransfer ==
    ASSUME NEW st, StateOK(st), Whole(st), NEW from \in ActorID, NEW to \in ActorID,
           NEW amount \in Int, amount % Granularity = 0
    PROVE  Whole(MakeTransfer(st, from, to, amount).st)
<1> DEFINE debit  == ChangeBalanceBy(st, from, -amount)
           credit == ChangeBalanceBy(debit.st, to, amount)
<1>1. \/ MakeTransfer(st, from, to, amount) \in {Ok(st), Err(st)}
      \/ MakeTransfer(st, from, to, amount) = AndThen(debit, credit)
  BY DEF MakeTransfer
<1>2. -amount \in Int /\ (-amount) % Granularity = 0
  BY NegativeIsWhole
<1>3. Whole(debit.st) /\ StateOK(debit.st)
  BY <1>2, WholeChange
<1> HIDE DEF debit
<1>4. Whole(credit.st)
  BY <1>3, WholeChange
<1> HIDE DEF credit
<1>5. QED
  BY <1>1, <1>3, <1>4 DEF AndThen, Ok, Err

LEMMA WholeUse ==
    ASSUME NEW st, StateOK(st), Whole(st), NEW owner \in ActorID,
           NEW operator \in ActorID, NEW amount \in Int
    PROVE  LET use == AttemptUseAllowance(st, operator, owner, amount)
           IN  Whole(use.st) /\ StateOK(use.st)
  BY AttemptUseAllowanceProperties DEF AllowanceOnly, Whole, GetBalance

\* A transaction on whole balances, whether it is published or not.
LEMMA WholeEnds ==
    ASSUME NEW w, WorldOK(w), Whole(w.token),
           NEW init, WorldOK(init.world), init.world.token = w.token,
           NEW r, Whole(r.st), NEW result, Ends(w, init, r, result)
    PROVE  Whole(result.world.token)
<1> DEFINE v == [init.world EXCEPT !.token = r.st]
<1>1. v.token = r.st
  BY DEF WorldOK
<1> HIDE DEF v
<1>2. CASE result = Failed(w) \/ (~init.ok /\ result = init)
  BY <1>2 DEF Failed
<1>3. CASE result = Transaction(init.world, r)
  <2>1. result = [ok |-> r.ok, world |-> IF r.ok THEN v ELSE init.world]
    BY <1>3 DEF Transaction, v
  <2>2. QED
    BY <1>1, <2>1
<1>4. QED
  BY <1>2, <1>3 DEF Ends

-----------------------------------------------------------------------------

LEMMA MintWhole ==
    ASSUME WorldOK(world), Whole(token), NEW operator \in Address,
           NEW owner \in Address, NEW amount \in Int
    PROVE  Whole(Mint(world, operator, owner, amount).world.token)
<1> DEFINE init   == Init2(world, operator, owner)
           credit == ChangeBalanceBy(world.token, owner.actor, amount)
           r      == AndThen(credit, ChangeSupplyBy(credit.st, amount))
<1>1. WorldOK(init.world) /\ init.world.token = world.token
  BY Init2Properties
<1>2. owner.actor \in ActorID /\ StateOK(world.token) /\ world.token = token
  BY DEF Address, WorldOK, world
<1>3. CASE ~ValidAmount(amount)
  BY <1>2, <1>3 DEF Mint, Failed
<1>4. CASE ValidAmount(amount)
  <2>1. Whole(r.st)
    BY <1>2, <1>4, WholeIssue DEF ValidAmount
  <2>2. Ends(world, init, r, Mint(world, operator, owner, amount))
    BY <1>4 DEF Mint, Ends
  <2> HIDE DEF init, r
  <2>3. QED
    BY <1>1, <1>2, <2>1, <2>2, WholeEnds
<1>5. QED
  BY <1>3, <1>4

LEMMA BurnWhole ==
    ASSUME WorldOK(world), Whole(token), NEW owner \in Address, NEW amount \in Int
    PROVE  Whole(Burn(world, owner, amount).world.token)
<1> DEFINE init  == Init1(world, owner)
           debit == ChangeBalanceBy(world.token, owner.actor, -amount)
           r     == AndThen(debit, ChangeSupplyBy(debit.st, -amount))
<1>1. WorldOK(init.world) /\ init.world.token = world.token
  BY Init1Properties
<1>2. owner.actor \in ActorID /\ StateOK(world.token) /\ world.token = token
  BY DEF Address, WorldOK, world
<1>3. CASE ~ValidAmount(amount)
  BY <1>2, <1>3 DEF Burn, Failed
<1>4. CASE ValidAmount(amount)
  <2>1. -amount \in Int /\ (-amount) % Granularity = 0
    BY <1>4, NegativeIsWhole DEF ValidAmount
  <2>2. Whole(r.st)
    BY <1>2, <2>1, WholeIssue
  <2>3. Ends(world, init, r, Burn(world, owner, amount))
    BY <1>4 DEF Burn, Ends
  <2> HIDE DEF init, r
  <2>4. QED
    BY <1>1, <1>2, <2>2, <2>3, WholeEnds
<1>5. QED
  BY <1>3, <1>4

LEMMA BurnFromWhole ==
    ASSUME WorldOK(world), Whole(token), NEW operator \in Address,
           NEW owner \in Address, NEW amount \in Int
    PROVE  Whole(BurnFrom(world, operator, owner, amount).world.token)
<1> DEFINE init  == [ok |-> TRUE, world |-> world]
           use   == AttemptUseAllowance(world.token, operator.actor, owner.actor, amount)
           debit == ChangeBalanceBy(use.st, owner.actor, -amount)
           burn  == AndThen(debit, ChangeSupplyBy(debit.st, -amount))
           r     == AndThen(use, burn)
<1>1. /\ operator.actor \in ActorID /\ owner.actor \in ActorID
      /\ StateOK(world.token) /\ world.token = token
  BY DEF Address, WorldOK, world
<1>2. CASE ~ValidAmount(amount)
  BY <1>1, <1>2 DEF BurnFrom, Failed
<1>3. CASE ValidAmount(amount)
  <2>1. -amount \in Int /\ (-amount) % Granularity = 0
    BY <1>3, NegativeIsWhole DEF ValidAmount
  <2>2. Whole(use.st) /\ StateOK(use.st)
    BY <1>1, WholeUse
  <2>3. Ends(world, init, r, BurnFrom(world, operator, owner, amount))
    BY <1>3 DEF BurnFrom, Ends
  <2> HIDE DEF use
  <2>4. Whole(burn.st)
    BY <1>1, <2>1, <2>2, WholeIssue
  <2> HIDE DEF burn
  <2>5. Whole(r.st)
    BY <2>2, <2>4 DEF AndThen
  <2>6. WorldOK(init.world) /\ init.world.token = world.token
    OBVIOUS
  <2> HIDE DEF init, r
  <2>7. QED
    BY <1>1, <2>3, <2>5, <2>6, WholeEnds
<1>4. QED
  BY <1>2, <1>3

LEMMA TransferWhole ==
    ASSUME WorldOK(world), Whole(token), NEW from \in Address, NEW to \in Address,
           NEW amount \in Int
    PROVE  Whole(Transfer(world, from, to, amount).world.token)
<1> DEFINE init == Init2(world, from, to)
           r    == MakeTransfer(world.token, from.actor, to.actor, amount)
<1>1. WorldOK(init.world) /\ init.world.token = world.token
  BY Init2Properties
<1>2. /\ from.actor \in ActorID /\ to.actor \in ActorID
      /\ StateOK(world.token) /\ world.token = token
  BY DEF Address, WorldOK, world
<1>3. CASE ~ValidAmount(amount)
  BY <1>2, <1>3 DEF Transfer, Failed
<1>4. CASE ValidAmount(amount)
  <2>1. Whole(r.st)
    BY <1>2, <1>4, WholeTransfer DEF ValidAmount
  <2>2. Ends(world, init, r, Transfer(world, from, to, amount))
    BY <1>4 DEF Transfer, Ends
  <2> HIDE DEF init, r
  <2>3. QED
    BY <1>1, <1>2, <2>1, <2>2, WholeEnds
<1>5. QED
  BY <1>3, <1>4

LEMMA TransferFromWhole ==
    ASSUME WorldOK(world), Whole(token), NEW operator \in Address,
           NEW from \in Address, NEW to \in Address, NEW amount \in Int
    PROVE  Whole(TransferFrom(world, operator, from, to, amount).world.token)
<1> DEFINE init == Init1(world, to)
           use  == AttemptUseAllowance(world.token, operator.actor, from.actor, amount)
           move == MakeTransfer(use.st, from.actor, to.actor, amount)
           r    == AndThen(use, move)
<1>1. WorldOK(init.world) /\ init.world.token = world.token
  BY Init1Properties
<1>2. /\ operator.actor \in ActorID /\ from.actor \in ActorID /\ to.actor \in ActorID
      /\ StateOK(world.token) /\ world.token = token
  BY DEF Address, WorldOK, world
<1>3. CASE ~ValidAmount(amount)
  BY <1>2, <1>3 DEF TransferFrom, Failed
<1>4. CASE ValidAmount(amount)
  <2>1. Whole(use.st) /\ StateOK(use.st)
    BY <1>2, WholeUse
  <2>2. Ends(world, init, r, TransferFrom(world, operator, from, to, amount))
    BY <1>4 DEF TransferFrom, Ends
  <2> HIDE DEF init, use
  <2>3. Whole(move.st)
    BY <1>2, <1>4, <2>1, WholeTransfer DEF ValidAmount
  <2> HIDE DEF move
  <2>4. Whole(r.st)
    BY <2>1, <2>3 DEF AndThen
  <2> HIDE DEF r
  <2>5. QED
    BY <1>1, <1>2, <2>2, <2>4, WholeEnds
<1>5. QED
  BY <1>3, <1>4

LEMMA SetBalanceWhole ==
    ASSUME WorldOK(world), Whole(token), NEW owner \in Address, NEW amount \in Int
    PROVE  Whole(TokenSetBalance(world, owner, amount).world.token)
<1> DEFINE init == Init1(world, owner)
           old  == GetBalance(world.token, owner.actor)
           set  == SetBalance(world.token, owner.actor, amount)
           s    == [set.st EXCEPT !.supply = @ + (amount - old)]
           r    == AndThen(set, Ok(s))
<1>1. WorldOK(init.world) /\ init.world.token = world.token
  BY Init1Properties
<1>2. owner.actor \in ActorID /\ StateOK(world.token) /\ world.token = token
  BY DEF Address, WorldOK, world
<1>3. CASE ~ValidAmount(amount)
  BY <1>2, <1>3 DEF TokenSetBalance, Failed
<1>4. CASE ValidAmount(amount)
  <2> DEFINE m == StoreAmount(world.token.balances, owner.actor, amount)
             t == [world.token EXCEPT !.balances = m]
  <2>1. \A x : HamtGet(m, x, 0)
                 = IF x = owner.actor THEN amount ELSE HamtGet(world.token.balances, x, 0)
    BY <1>2, <1>4, StoreAmountProperties
       DEF ValidAmount, StateOK, IsTokenState, NoExplicitZeros
  <2>2. set = Ok(t)
    BY <1>4 DEF SetBalance, ValidAmount
  <2>3. Ends(world, init, r, TokenSetBalance(world, owner, amount))
    BY <1>4 DEF TokenSetBalance, Ends
  <2> HIDE DEF m, old
  <2>4. t = [supply |-> t.supply, balances |-> m, allowances |-> t.allowances]
    BY <1>2 DEF StateOK, IsTokenState
  <2> HIDE DEF t, set
  <2>5. set.ok /\ set.st = t
    BY <2>2 DEF Ok
  <2>6. s.balances = m
    BY <2>4, <2>5
  <2> HIDE DEF s
  <2>7. r.st = s
    BY <2>5 DEF AndThen, Ok
  <2>8. \A x : GetBalance(s, x)
                 = IF x = owner.actor THEN amount ELSE GetBalance(world.token, x)
    BY <2>1, <2>6 DEF GetBalance
  <2>9. Whole(r.st)
    BY <1>2, <1>4, <2>7, <2>8 DEF Whole, ValidAmount
  <2> HIDE DEF init, r
  <2>10. QED
    BY <1>1, <1>2, <2>3, <2>9, WholeEnds
<1>5. QED
  BY <1>3, <1>4

\* The allowance methods leave all balances alone.
LEMMA WholeInPlace ==
    ASSUME NEW w, WorldOK(w), Whole(w.token),
           NEW v, WorldOK(v), NEW r, AllowanceOnly(w.token, r)
    PROVE  Whole(InPlace(v, r).world.token)
<1>1. InPlace(v, r).world.token = r.st
  BY InPlaceEffect
<1>2. r.st.balances = w.token.balances
  BY DEF AllowanceOnly
<1>3. QED
  BY <1>1, <1>2 DEF Whole, GetBalance

LEMMA RevokeAllowanceWhole ==
    ASSUME WorldOK(world), Whole(token), NEW owner \in Address, NEW operator \in Address
    PROVE  Whole(TokenRevokeAllowance(world, owner, operator).world.token)
<1> DEFINE r == RevokeAllowance(world.token, owner.actor, operator.actor)
<1>1. /\ owner.actor \in ActorID /\ operator.actor \in ActorID
      /\ StateOK(world.token) /\ world.token = token
  BY DEF Address, WorldOK, world
<1>2. AllowanceOnly(world.token, r)
  BY <1>1, RevokeAllowanceProperties
<1>3. Whole(InPlace(world, r).world.token)
  BY <1>1, <1>2, WholeInPlace
<1>4. QED
  BY <1>1, <1>3 DEF TokenRevokeAllowance

LEMMA AllowancesWhole ==
    ASSUME WorldOK(world), Whole(token), NEW owner \in Address, NEW operator \in Address,
           NEW amount \in Int, NEW result,
           \/ result = IncreaseAllowance(world, owner, operator, amount)
           \/ result = DecreaseAllowance(world, owner, operator, amount)
           \/ result = TokenSetAllowance(world, owner, operator, amount)
    PROVE  Whole(result.world.token)
<1> DEFINE init == Init2(world, owner, operator)
           up   == ChangeAllowanceBy(world.token, owner.actor, operator.actor, amount)
           down == ChangeAllowanceBy(world.token, owner.actor, operator.actor, -amount)
           set  == SetAllowance(world.token, owner.actor, operator.actor, amount)
<1>1. WorldOK(init.world) /\ init.world.token = world.token
  BY Init2Properties
<1>2. /\ owner.actor \in ActorID /\ operator.actor \in ActorID
      /\ StateOK(world.token) /\ world.token = token /\ -amount \in Int
  BY DEF Address, WorldOK, world
<1>3. /\ AllowanceOnly(world.token, up)
      /\ AllowanceOnly(world.token, down)
      /\ AllowanceOnly(world.token, set)
  BY <1>2, ChangeAllowanceByProperties, SetAllowanceProperties
<1>4. \/ result = Failed(world)
      \/ result = init
      \/ result = TokenRevokeAllowance(world, owner, operator)
      \/ \E r \in {up, down, set} : result = InPlace(init.world, r)
  BY DEF IncreaseAllowance, DecreaseAllowance, TokenSetAllowance
<1> HIDE DEF init, up, down, set
<1>5. \A r \in {up, down, set} : Whole(InPlace(init.world, r).world.token)
  BY <1>1, <1>2, <1>3, WholeInPlace
<1>6. QED
  BY <1>1, <1>2, <1>4, <1>5, RevokeAllowanceWhole DEF Failed

LEMMA NextWhole ==
    ASSUME WorldOK(world), Whole(token), Next
    PROVE  Whole(token')
<1> USE BoundsAssumption
<1>1. PICK x \in Addresses :
        \/ \E amount \in Amounts : CallBurn(x, amount) \/ CallSetBalance(x, amount)
        \/ \E y \in Addresses :
              \/ CallRevokeAllowance(x, y)
              \/ \E amount \in Amounts :
                    \/ CallMint(x, y, amount)
                    \/ CallBurnFrom(x, y, amount)
                    \/ CallTransfer(x, y, amount)
                    \/ \E z \in Addresses : CallTransferFrom(x, y, z, amount)
                    \/ CallIncreaseAllowance(x, y, amount)
                    \/ CallDecreaseAllowance(x, y, amount)
                    \/ CallSetAllowance(x, y, amount)
  BY DEF Next
<1>2. x \in Address
  OBVIOUS
<1>3. ASSUME NEW amount \in Amounts, CallBurn(x, amount)
      PROVE  Whole(token')
  <2>1. token' = Burn(world, x, amount).world.token
    BY <1>3 DEF CallBurn, Call, Outcome
  <2>2. Whole(Burn(world, x, amount).world.token)
    BY <1>2, BurnWhole
  <2>3. QED
    BY <2>1, <2>2
<1>4. ASSUME NEW amount \in Amounts, CallSetBalance(x, amount)
      PROVE  Whole(token')
  <2>1. token' = TokenSetBalance(world, x, amount).world.token
    BY <1>4 DEF CallSetBalance, Outcome
  <2>2. Whole(TokenSetBalance(world, x, amount).world.token)
    BY <1>2, SetBalanceWhole
  <2>3. QED
    BY <2>1, <2>2
<1>5. ASSUME NEW y \in Addresses, CallRevokeAllowance(x, y)
      PROVE  Whole(token')
  <2>1. token' = TokenRevokeAllowance(world, x, y).world.token
    BY <1>5 DEF CallRevokeAllowance, Call, Outcome
  <2>2. Whole(TokenRevokeAllowance(world, x, y).world.token)
    BY <1>2, RevokeAllowanceWhole
  <2>3. QED
    BY <2>1, <2>2
<1>6. ASSUME NEW y \in Addresses, NEW amount \in Amounts,
             CallMint(x, y, amount) \/ CallBurnFrom(x, y, amount) \/ CallTransfer(x, y, amount)
      PROVE  Whole(token')
  <2>1. \/ token' = Mint(world, x, y, amount).world.token
        \/ token' = BurnFrom(world, x, y, amount).world.token
        \/ token' = Transfer(world, x, y, amount).world.token
    BY <1>6 DEF CallMint, CallBurnFrom, CallTransfer, Call, Outcome
  <2>2. /\ Whole(Mint(world, x, y, amount).world.token)
        /\ Whole(BurnFrom(world, x, y, amount).world.token)
        /\ Whole(Transfer(world, x, y, amount).world.token)
    BY <1>2, MintWhole, BurnFromWhole, TransferWhole
  <2>3. QED
    BY <2>1, <2>2
<1>7. ASSUME NEW y \in Addresses, NEW z \in Addresses, NEW amount \in Amounts,
             CallTransferFrom(x, y, z, amount)
      PROVE  Whole(token')
  <2>1. token' = TransferFrom(world, x, y, z, amount).world.token
    BY <1>7 DEF CallTransferFrom, Call, Outcome
  <2>2. Whole(TransferFrom(world, x, y, z, amount).world.token)
    BY <1>2, TransferFromWhole
  <2>3. QED
    BY <2>1, <2>2
<1>8. ASSUME NEW y \in Addresses, NEW amount \in Amounts,
             \/ CallIncreaseAllowance(x, y, amount)
             \/ CallDecreaseAllowance(x, y, amount)
             \/ CallSetAllowance(x, y, amount)
      PROVE  Whole(token')
  <2>1. \E result :
           /\ \/ result = IncreaseAllowance(world, x, y, amount)
              \/ result = DecreaseAllowance(world, x, y, amount)
              \/ result = TokenSetAllowance(world, x, y, amount)
           /\ token' = result.world.token
    BY <1>8 DEF CallIncreaseAllowance, CallDecreaseAllowance, CallSetAllowance,
                Call, Outcome
  <2>2. QED
    BY <1>2, <2>1, AllowancesWhole
<1>9. QED
  BY <1>1, <1>3, <1>4, <1>5, <1>6, <1>7, <1>8

\* What check_invariants looks for, part by part, is not there.
LEMMA OnlySelfAllowances ==
    ASSUME NEW st, NEW granularity, IsTokenState(st), SupplyMatches(st),
           NoExplicitZeros(st), BalancesWhole(st, granularity),
           NEW e \in CheckInvariants(st, granularity)
    PROVE  e.error = "ExplicitSelfAllowance"
<1>1. ASSUME NEW a \in DOMAIN st.balances
      PROVE  st.balances[a] \in Nat /\ st.balances[a] # 0 /\ st.balances[a] % granularity = 0
  BY DEF IsTokenState, IsHamt, NoExplicitZeros, BalancesWhole
<1>2. e \notin CheckBalances(st, granularity)
  <2>1. Reports("BalanceNegative", {a \in DOMAIN st.balances : st.balances[a] < 0}) = {}
    BY <1>1 DEF Reports
  <2>2. Reports("ExplicitZeroBalance", {a \in DOMAIN st.balances : st.balances[a] = 0}) = {}
    BY <1>1 DEF Reports
  <2>3. Reports("InvalidGranularity",
                {a \in DOMAIN st.balances : st.balances[a] % granularity # 0}) = {}
    BY <1>1 DEF Reports
  <2>4. Reports("BalanceSupplyMismatch",
                IF SupplyMatches(st) THEN {} ELSE {Everybody}) = {}
    BY DEF Reports
  <2>5. QED
    BY <2>1, <2>2, <2>3, <2>4 DEF CheckBalances
<1>3. ASSUME NEW a \in DOMAIN st.allowances
      PROVE  /\ DOMAIN st.allowances[a] # {}
             /\ \A b \in DOMAIN st.allowances[a] :
                   st.allowances[a][b] \in Nat /\ st.allowances[a][b] # 0
  BY DEF IsTokenState, IsHamt, NoExplicitZeros
<1>4. e \in CheckAllowances(st) => e.error = "ExplicitSelfAllowance"
  <2> DEFINE A == st.allowances
  <2>1. Reports("ExplicitEmptyAllowance", {a \in DOMAIN A : DOMAIN A[a] = {}}) = {}
    BY <1>3 DEF Reports
  <2>2. Reports("NegativeAllowance",
                {a \in DOMAIN A : \E b \in DOMAIN A[a] : A[a][b] < 0}) = {}
    BY <1>3 DEF Reports
  <2>3. Reports("ExplicitZeroAllowance",
                {a \in DOMAIN A : \E b \in DOMAIN A[a] : A[a][b] = 0}) = {}
    BY <1>3 DEF Reports
  <2>4. e \in Reports("ExplicitSelfAllowance", {a \in DOMAIN A : a \in DOMAIN A[a]})
           => e.error = "ExplicitSelfAllowance"
    BY DEF Reports
  <2>5. QED
    BY <2>1, <2>2, <2>3, <2>4 DEF CheckAllowances
<1>5. Reports("SupplyNegative", IF st.supply < 0 THEN {Everybody} ELSE {}) = {}
  BY DEF Reports, IsTokenState
<1>6. QED
  BY <1>2, <1>4, <1>5 DEF CheckInvariants

\* Whatever is minted, burned, moved, overridden and revoked in whatever order,
\* check_invariants finds nothing negative, no zero and no empty map left behind
\* and no account with a fraction of the granularity.
THEOREM CanonicalCorrect == Spec => []StateIsCanonical
<1>1. Init => Whole(token)
  BY WholeNewState DEF Init
<1>2. IInv /\ Whole(token) /\ [Next]_vars => Whole(token)'
  <2> SUFFICES ASSUME IInv, Whole(token), [Next]_vars
               PROVE  Whole(token')
    BY DEF Whole
  <2>1. CASE UNCHANGED vars
    BY <2>1 DEF vars, Whole
  <2>2. CASE Next
    BY <2>2, NextWhole DEF IInv
  <2>3. QED
    BY <2>1, <2>2
<1>3. IInv /\ Whole(token) => StateIsCanonical
  BY IInvMeaning, WholeMeansStored, OnlySelfAllowances
  DEF TypeOK, StateIsCanonical, SupplyIsSumOfBalances
<1>4. QED
  BY <1>1, <1>2, <1>3, Invariance, PTL DEF Spec

-----------------------------------------------------------------------------
(* The token and its receivers: what the calls under way are. *)

GoodState(s) ==
    /\ s = [root |-> s.root, operatorAddress |-> s.operatorAddress, accepted |-> s.accepted]
    /\ StateOK(s.root) /\ SupplyMatches(s.root)
    /\ s.operatorAddress \in [Acting("transfer") -> ActorID \cup {Nobody}]
    /\ s.accepted \in [Acting("transfer") -> SUBSET ActorID]
    /\ \A a \in Acting("transfer") : s.accepted[a] \subseteq {s.operatorAddress[a]} \ {Nobody}

TokenCall(c) ==
    /\ c.entry = "token"
    /\ c = [actor |-> Nobody, entry |-> "token", undo |-> c.undo]
    /\ GoodState(c.undo)

HookCall(c) ==
    /\ c.entry = "Receive"
    /\ c = [actor |-> c.actor, entry |-> "Receive", from |-> c.from,
            amount |-> c.amount, action |-> c.action, doomed |-> c.doomed,
            undo |-> c.undo]
    /\ c.actor \in ActorID /\ c.from \in ActorID /\ c.amount \in Int
    /\ c.action \in Actions /\ c.doomed \in BOOLEAN
    /\ GoodState(c.undo)

ActionCall(c) ==
    /\ c.entry = "Action"
    /\ c = [actor |-> c.actor, entry |-> "Action", action |-> c.action,
            doomed |-> c.doomed, undo |-> c.undo]
    /\ c.actor \in Acting("test") /\ c.action \in Actions /\ c.doomed \in BOOLEAN
    /\ GoodState(c.undo)

ForwardCall(c) ==
    /\ c.entry = "Forward"
    /\ c = [actor |-> c.actor, entry |-> "Forward", from |-> c.from,
            target |-> c.target, undo |-> c.undo]
    /\ c.actor \in Acting("transfer") /\ c.from \in Acting("account")
    /\ c.target \in ActorID
    /\ GoodState(c.undo)

\* A call that calls the token.
Sender(c) ==
    \/ HookCall(c) /\ c.actor \in Acting("test")
    \/ ActionCall(c)
    \/ ForwardCall(c)

\* The receiver has in st what its hook was told it got.
Holds(c, st) == c.entry = "Receive" => GetBalance(st, c.actor) >= c.amount

\* d can be the call c made.
Calls(c, d) ==
    \/ TokenCall(c) /\ HookCall(d)
    \/ Sender(c) /\ TokenCall(d) /\ Holds(c, d.undo.root)

CallOK(c) == TokenCall(c) \/ HookCall(c) \/ ActionCall(c) \/ ForwardCall(c)

\* A sequence, whatever is in it.
IsSeq(s) == s \in Seq({s[i] : i \in DOMAIN s})

StackOK(s) ==
    /\ IsSeq(s)
    /\ \A i \in DOMAIN s : CallOK(s[i])
    /\ s # <<>> => ~HookCall(s[1])
    /\ \A i \in 1..(Len(s) - 1) : Calls(s[i], s[i + 1])

\* The entry tells what a call is.
LEMMA Entries ==
    ASSUME NEW c
    PROVE  /\ TokenCall(c) => c.entry = "token" /\ c.actor = Nobody
           /\ HookCall(c) => c.entry = "Receive"
           /\ ActionCall(c) => c.entry = "Action"
           /\ ForwardCall(c) => c.entry = "Forward"
  BY DEF TokenCall, HookCall, ActionCall, ForwardCall

LEMMA Roles ==
    /\ Nobody \notin ActorID
    /\ \A role : Acting(role) \subseteq ActorID
    /\ \A a \in ActorID :
          /\ a \in Acting("test") => /\ a \notin Acting("transfer")
                                     /\ a \notin Acting("account")
                                     /\ a \notin Acting("receiving")
          /\ a \in Acting("transfer") => /\ a \notin Acting("account")
                                         /\ a \notin Acting("receiving")
  BY ActorsAssumption DEF Acting, Nobody, ActorID

LEMMA GoodUndo ==
    ASSUME NEW c, CallOK(c)
    PROVE  GoodState(c.undo)
  BY DEF CallOK, TokenCall, HookCall, ActionCall, ForwardCall

\* A sequence is a sequence of its own elements.
LEMMA SeqOfOwn ==
    ASSUME NEW S, NEW s \in Seq(S)
    PROVE  IsSeq(s)
<1> DEFINE T == {s[i] : i \in DOMAIN s}
<1>1. Len(s) \in Nat /\ DOMAIN s = 1..Len(s) /\ s = [i \in 1..Len(s) |-> s[i]]
  OBVIOUS
<1>2. s \in [1..Len(s) -> T]
  BY <1>1
<1>3. QED
  BY <1>1, <1>2, SeqDef DEF IsSeq

LEMMA StackSize ==
    ASSUME NEW s, StackOK(s)
    PROVE  /\ Len(s) \in Nat /\ DOMAIN s = 1..Len(s)
           /\ s # <<>> => /\ Len(s) >= 1 /\ 1 \in DOMAIN s /\ Len(s) \in DOMAIN s
                          /\ CallOK(s[1]) /\ CallOK(s[Len(s)])
<1> DEFINE S == {s[i] : i \in DOMAIN s}
<1>1. s \in Seq(S)
  BY DEF StackOK, IsSeq
<1> HIDE DEF S
<1>2. Len(s) \in Nat /\ DOMAIN s = 1..Len(s)
  BY <1>1
<1>3. s # <<>> => Len(s) >= 1
  BY <1>1, <1>2, EmptySeq
<1>4. QED
  BY <1>2, <1>3 DEF StackOK

LEMMA EmptyStack == StackOK(<<>>) /\ Len(<<>>) = 0
<1>1. <<>> \in Seq({}) /\ DOMAIN <<>> = {} /\ Len(<<>>) = 0
  OBVIOUS
<1>2. IsSeq(<<>>)
  BY <1>1, SeqOfOwn
<1>3. QED
  BY <1>1, <1>2 DEF StackOK

\* A call ends: the one that made it is on top again.
LEMMA PopStack ==
    ASSUME NEW s, StackOK(s), s # <<>>,
           NEW t, t = SubSeq(s, 1, Len(s) - 1)
    PROVE  /\ StackOK(t)
           /\ Len(t) = Len(s) - 1
           /\ \A i \in 1..(Len(s) - 1) : t[i] = s[i]
           /\ t # <<>> => Len(s) > 1 /\ t[1] = s[1] /\ t[Len(t)] = s[Len(s) - 1]
                          /\ Calls(t[Len(t)], s[Len(s)])
<1> DEFINE S == {s[i] : i \in DOMAIN s}
           n == Len(s)
<1>1. s \in Seq(S) /\ n \in Nat /\ n >= 1 /\ DOMAIN s = 1..n
  BY StackSize DEF StackOK, IsSeq
<1>2. \A i \in 1..(n - 1) : s[i] \in S
  BY <1>1
<1> HIDE DEF S
<1>3. 1 \in Int /\ n - 1 \in Int
  BY <1>1
<1>4. t = SubSeq(s, 1, n - 1)
  OBVIOUS
<1> HIDE DEF n
<1>5. /\ t \in Seq(S)
      /\ Len(t) = IF 1 <= n - 1 THEN n - 1 - 1 + 1 ELSE 0
      /\ \A i \in 1..(n - 1 - 1 + 1) : t[i] = s[1 + i - 1]
  BY <1>2, <1>3, <1>4, SubSeqProperties
<1>6. /\ t \in Seq(S) /\ Len(t) = n - 1
      /\ \A i \in 1..(n - 1) : t[i] = s[i]
  BY <1>1, <1>5
<1>7. DOMAIN t = 1..(n - 1)
  BY <1>6, LenProperties
<1>8. IsSeq(t)
  BY <1>6, SeqOfOwn
<1>9. \A i \in DOMAIN t : CallOK(t[i])
  BY <1>1, <1>6, <1>7 DEF StackOK
<1>10. t # <<>> => n > 1 /\ 1 \in 1..(n - 1) /\ n - 1 \in 1..(n - 1)
  BY <1>1, <1>6, EmptySeq
<1>11. t # <<>> => t[1] = s[1] /\ t[Len(t)] = s[n - 1]
  BY <1>6, <1>10
<1>12. t # <<>> => ~HookCall(t[1])
  BY <1>11 DEF StackOK
<1>13. \A i \in 1..(n - 1) : Calls(s[i], s[i + 1])
  BY DEF StackOK, n
<1>14. \A i \in 1..(n - 1 - 1) : Calls(t[i], t[i + 1])
  <2> SUFFICES ASSUME NEW i \in 1..(n - 1 - 1) PROVE Calls(t[i], t[i + 1])
    OBVIOUS
  <2>1. i \in 1..(n - 1) /\ i + 1 \in 1..(n - 1)
    BY <1>1
  <2>2. QED
    BY <1>6, <1>13, <2>1
<1>15. StackOK(t)
  BY <1>6, <1>8, <1>9, <1>12, <1>14 DEF StackOK
<1>16. t # <<>> => Calls(t[Len(t)], s[n])
  <2> SUFFICES ASSUME t # <<>> PROVE Calls(t[Len(t)], s[n])
    OBVIOUS
  <2>1. Calls(s[n - 1], s[n - 1 + 1])
    BY <1>10, <1>13
  <2>2. n - 1 + 1 = n
    BY <1>1
  <2>3. QED
    BY <1>11, <2>1, <2>2
<1>17. QED
  BY <1>6, <1>10, <1>11, <1>15, <1>16 DEF n

LEMMA PushElements ==
    ASSUME NEW S, NEW s \in Seq(S), NEW p \in Seq(S), Len(p) = 2, NEW u,
           u \in Seq(S), Len(u) = Len(s) + 2,
           \A i \in 1..(Len(s) + 2) :
              u[i] = IF i <= Len(s) THEN s[i] ELSE p[i - Len(s)]
    PROVE  /\ IsSeq(u) /\ DOMAIN u = 1..(Len(s) + 2)
           /\ \A i \in 1..Len(s) : u[i] = s[i]
           /\ u[Len(s) + 1] = p[1] /\ u[Len(s) + 2] = p[2]
<1> DEFINE n == Len(s)
<1>1. n \in Nat
  OBVIOUS
<1>2. DOMAIN u = 1..(n + 2)
  BY LenProperties
<1>3. \A i \in 1..n : i \in 1..(n + 2) /\ i <= n
  BY <1>1
<1>4. /\ n + 1 \in 1..(n + 2) /\ ~(n + 1 <= n) /\ n + 1 - n = 1
      /\ n + 2 \in 1..(n + 2) /\ ~(n + 2 <= n) /\ n + 2 - n = 2
  BY <1>1
<1>5. IsSeq(u)
  BY SeqOfOwn
<1> HIDE DEF n
<1>6. \A i \in 1..(n + 2) : u[i] = IF i <= n THEN s[i] ELSE p[i - n]
  BY DEF n
<1>7. u[n + 1] = p[n + 1 - n] /\ u[n + 2] = p[n + 2 - n]
  <2>1. \A i \in 1..(n + 2) : ~(i <= n) => u[i] = p[i - n]
    BY <1>6
  <2>2. QED
    BY <1>1, <1>4, <2>1
<1>8. u[n + 1] = p[1] /\ u[n + 2] = p[2]
  BY <1>4, <1>7, Zenon
<1>9. QED
  BY <1>2, <1>3, <1>5, <1>6, <1>8 DEF n

LEMMA PushCalls ==
    ASSUME NEW s, StackOK(s), NEW t, NEW h, TokenCall(t), HookCall(h),
           s # <<>> => Calls(s[Len(s)], t),
           NEW u, IsSeq(u), DOMAIN u = 1..(Len(s) + 2), Len(u) = Len(s) + 2,
           \A i \in 1..Len(s) : u[i] = s[i],
           u[Len(s) + 1] = t, u[Len(s) + 2] = h
    PROVE  StackOK(u)
<1> DEFINE n == Len(s)
<1>1. n \in Nat /\ DOMAIN s = 1..n
  BY StackSize
<1> HIDE DEF n
<1>2. \A i \in 1..(n + 2) : i \in 1..n \/ i = n + 1 \/ i = n + 2
  BY <1>1
<1>3. \A i \in DOMAIN u : CallOK(u[i])
  BY <1>1, <1>2 DEF StackOK, CallOK, n
<1>4. ~HookCall(u[1])
  <2>1. CASE s = <<>>
    <3>1. n = 0
      BY <2>1 DEF n
    <3>2. u[1] = t
      BY <3>1 DEF n
    <3>3. QED
      BY <3>2, Entries
  <2>2. CASE s # <<>>
    <3>1. 1 \in 1..n
      BY <1>1, <2>2, StackSize DEF n
    <3>2. QED
      BY <2>2, <3>1 DEF StackOK, n
  <2>3. QED
    BY <2>1, <2>2
<1>5. \A i \in 1..(n + 2 - 1) : Calls(u[i], u[i + 1])
  <2> SUFFICES ASSUME NEW i \in 1..(n + 2 - 1) PROVE Calls(u[i], u[i + 1])
    OBVIOUS
  <2>1. CASE i \in 1..(n - 1)
    <3>1. i \in 1..n /\ i + 1 \in 1..n
      BY <1>1, <2>1
    <3>2. Calls(s[i], s[i + 1])
      BY <2>1 DEF StackOK, n
    <3>3. QED
      BY <3>1, <3>2 DEF n
  <2>2. CASE i = n
    <3>1. n \in 1..n
      BY <1>1, <2>2
    <3>2. s # <<>>
      BY <3>1 DEF n
    <3>3. Calls(s[n], t)
      BY <3>2 DEF n
    <3>4. QED
      BY <2>2, <3>1, <3>3 DEF n
  <2>3. CASE i = n + 1
    <3>1. i + 1 = n + 2
      BY <1>1, <2>3
    <3>2. QED
      BY <2>3, <3>1 DEF Calls, n
  <2>4. QED
    BY <1>1, <2>1, <2>2, <2>3
<1>6. Len(u) = n + 2
  BY DEF n
<1>7. QED
  BY <1>1, <1>3, <1>4, <1>5, <1>6 DEF StackOK

\* The token is called and calls a hook.
LEMMA PushStack ==
    ASSUME NEW s, StackOK(s), NEW t, NEW h, TokenCall(t), HookCall(h),
           s # <<>> => Calls(s[Len(s)], t)
    PROVE  LET u == s \o <<t, h>>
           IN  /\ StackOK(u)
               /\ Len(u) = Len(s) + 2
               /\ \A i \in 1..Len(s) : u[i] = s[i]
               /\ u[Len(s) + 1] = t /\ u[Len(s) + 2] = h
<1> DEFINE S == {s[i] : i \in DOMAIN s}
           T == S \cup {t, h}
           p == <<t, h>>
           u == s \o p
<1>1. s \in Seq(S) /\ Len(s) \in Nat /\ DOMAIN s = 1..Len(s)
  BY StackSize DEF StackOK, IsSeq
<1>2. s \in Seq(T)
  <2>1. s \in [1..Len(s) -> S]
    BY <1>1
  <2>2. s \in [1..Len(s) -> T]
    BY <2>1
  <2>3. QED
    BY <1>1, <2>2, SeqDef
<1>3. p \in Seq(T) /\ Len(p) = 2 /\ p[1] = t /\ p[2] = h
  OBVIOUS
<1>4. u = s \o p
  OBVIOUS
<1> HIDE DEF S, T, p, u
<1>5. /\ u \in Seq(T) /\ Len(u) = Len(s) + 2
      /\ \A i \in 1..(Len(s) + 2) :
            u[i] = IF i <= Len(s) THEN s[i] ELSE p[i - Len(s)]
  <2>1. /\ s \o p \in Seq(T) /\ Len(s \o p) = Len(s) + Len(p)
        /\ \A i \in 1..(Len(s) + Len(p)) :
              (s \o p)[i] = IF i <= Len(s) THEN s[i] ELSE p[i - Len(s)]
    BY <1>2, <1>3, ConcatProperties, Zenon
  <2>2. QED
    BY <1>3, <1>4, <2>1, Zenon
<1>6. /\ IsSeq(u) /\ DOMAIN u = 1..(Len(s) + 2)
      /\ \A i \in 1..Len(s) : u[i] = s[i]
      /\ u[Len(s) + 1] = p[1] /\ u[Len(s) + 2] = p[2]
  BY <1>1, <1>2, <1>3, <1>5, PushElements
<1>7. StackOK(u)
  BY <1>3, <1>5, <1>6, PushCalls, Zenon
<1>8. QED
  BY <1>3, <1>5, <1>6, <1>7 DEF u, p

\* A stack of one call.
LEMMA OneCall ==
    ASSUME NEW c, ActionCall(c) \/ ForwardCall(c)
    PROVE  StackOK(<<c>>) /\ Len(<<c>>) = 1 /\ <<c>>[1] = c
<1>1. /\ <<c>> \in Seq({c}) /\ Len(<<c>>) = 1 /\ <<c>>[1] = c
      /\ DOMAIN <<c>> = {1}
  OBVIOUS
<1>2. IsSeq(<<c>>)
  BY <1>1, SeqOfOwn
<1>3. ~HookCall(c)
  BY Entries
<1>4. \A i \in 1..(1 - 1) : Calls(<<c>>[i], <<c>>[i + 1])
  OBVIOUS
<1>5. CallOK(c)
  BY DEF CallOK
<1>6. QED
  BY <1>1, <1>2, <1>3, <1>4, <1>5 DEF StackOK

\* What a call can turn into without an end.
SameCall(c, d) ==
    \/ /\ HookCall(c) /\ HookCall(d)
       /\ d.actor = c.actor /\ d.from = c.from
       /\ d.amount = c.amount /\ d.undo = c.undo
    \/ ActionCall(c) /\ ActionCall(d) /\ d.undo = c.undo

LEMMA ReplaceTop ==
    ASSUME NEW s, StackOK(s), s # <<>>, NEW d, SameCall(s[Len(s)], d)
    PROVE  LET u == [s EXCEPT ![Len(s)] = d]
           IN  /\ StackOK(u)
               /\ Len(u) = Len(s)
               /\ \A i \in 1..(Len(s) - 1) : u[i] = s[i]
               /\ u[Len(s)] = d
<1> DEFINE S == {s[i] : i \in DOMAIN s}
           T == S \cup {d}
           n == Len(s)
           u == [s EXCEPT ![n] = d]
<1>1. s \in Seq(S) /\ n \in Nat /\ n >= 1 /\ DOMAIN s = 1..n
  BY StackSize DEF StackOK, IsSeq
<1>2. s \in Seq(T) /\ n \in 1..n /\ d \in T
  <2>1. s \in [1..n -> T]
    BY <1>1
  <2>2. QED
    BY <1>1, <2>1, SeqDef
<1> HIDE DEF S, T
<1>3. /\ u \in Seq(T) /\ Len(u) = n
      /\ \A j \in 1..n : u[j] = IF j = n THEN d ELSE s[j]
  BY <1>2, ExceptSeq
<1> HIDE DEF n
<1>4. /\ DOMAIN u = 1..n
      /\ \A i \in 1..(n - 1) : u[i] = s[i]
      /\ u[n] = d
  <2>1. DOMAIN u = 1..n
    BY <1>3, LenProperties
  <2>2. \A i \in 1..(n - 1) : i \in 1..n /\ i # n
    BY <1>1
  <2>3. QED
    BY <1>2, <1>3, <2>1, <2>2
<1>5. IsSeq(u)
  BY <1>3, SeqOfOwn
<1>6. CallOK(d)
  BY DEF SameCall, CallOK
<1>7. \A i \in 1..n : i \in 1..(n - 1) \/ i = n
  BY <1>1
<1>8. \A i \in DOMAIN u : CallOK(u[i])
  BY <1>1, <1>4, <1>6, <1>7 DEF StackOK
<1>9. ~HookCall(u[1])
  <2>1. 1 \in 1..(n - 1) \/ n = 1
    BY <1>1
  <2>2. ~HookCall(s[1])
    BY DEF StackOK
  <2>3. n = 1 => ~HookCall(d)
    BY <2>2, Entries DEF SameCall, n
  <2>4. QED
    BY <1>4, <2>1, <2>2, <2>3
<1>10. \A i \in 1..(n - 1) : Calls(u[i], u[i + 1])
  <2> SUFFICES ASSUME NEW i \in 1..(n - 1) PROVE Calls(u[i], u[i + 1])
    OBVIOUS
  <2>1. Calls(s[i], s[i + 1])
    BY DEF StackOK, n
  <2>2. u[i] = s[i]
    BY <1>4
  <2>3. CASE i + 1 \in 1..(n - 1)
    BY <1>4, <2>1, <2>2, <2>3
  <2>4. CASE i + 1 = n
    <3>1. SameCall(s[n], d) /\ Calls(s[i], s[n])
      BY <2>1, <2>4 DEF n
    <3>2. Calls(s[i], d)
      BY <3>1, Entries DEF SameCall, Calls
    <3>3. QED
      BY <1>4, <2>2, <2>4, <3>2
  <2>5. QED
    BY <1>1, <2>3, <2>4
<1>11. StackOK(u)
  BY <1>3, <1>5, <1>8, <1>9, <1>10 DEF StackOK
<1>12. QED
  BY <1>3, <1>4, <1>11 DEF n

-----------------------------------------------------------------------------
(* The inductive invariant of the receivers. *)

\* The actor that forwards has sent everything and is bound to its caller.
Settled(s) ==
    /\ s.operatorAddress[message.actor] = message.caller
    /\ GetBalance(s.root, message.actor) = 0

\* Tokens come back to it, which it is about to refuse.
Arrives ==
    /\ Top.actor = message.actor
    /\ operatorAddress[message.actor] = message.caller
    /\ answer = "none"

Emptied ==
    message.method = "Forward" =>
        /\ message.actor \in Acting("transfer")
        /\ message.caller \in Acting("account")
        /\ calls # <<>> => /\ ForwardCall(calls[1])
                           /\ calls[1].actor = message.actor
                           /\ calls[1].from = message.caller
        /\ \A i \in 3..Len(calls) : TokenCall(calls[i]) => Settled(calls[i].undo)
        /\ \A i \in 1..Len(calls) :
              HookCall(calls[i]) => calls[i].from \notin Acting("account")
        /\ answer = "ok" => Settled(state)
        /\ calls # <<>> /\ HookCall(Top) => Settled(state) \/ Arrives

TopOK ==
    calls # <<>> =>
        /\ answer = "none" => ~TokenCall(Top)
        /\ answer # "none" => TokenCall(Top) \/ Sender(Top)
        /\ answer # "ok" => Holds(Top, root)

ReceiversIInv ==
    /\ GoodState(state)
    /\ StackOK(calls)
    /\ answer \in {"none", "ok", "abort"}
    /\ TopOK
    /\ Emptied

-----------------------------------------------------------------------------
(* What a step can be. *)

Kept == message' = message

StateKept == root' = root /\ operatorAddress' = operatorAddress /\ accepted' = accepted

\* The call on top ends well.
Returns ==
    /\ calls # <<>>
    /\ calls' = Below
    /\ answer' = "ok"
    /\ GoodState(state')
    /\ message.method = "Forward" => Settled(state')
    /\ Kept

Aborts == calls # <<>> /\ Abort /\ Kept

\* A test actor goes on with another action.
Replaces ==
    /\ calls # <<>> /\ answer # "ok"
    /\ Top.actor \in Acting("test")
    /\ \E d : SameCall(Top, d) /\ calls' = [calls EXCEPT ![Len(calls)] = d]
    /\ answer' = "none"
    /\ StateKept /\ Kept

\* The token calls the hook of h from the state it was called in.
HookIsCalled(stack, t, h) ==
    /\ TokenCall(t) /\ t.undo = state
    /\ HookCall(h) /\ Holds(h, root')
    /\ calls' = stack \o <<t, h>>
    /\ answer' = "none"
    /\ GoodState(state')

Sends ==
    /\ calls # <<>> /\ answer = "none"
    /\ Sender(Top)
    /\ \E t, h :
          /\ HookIsCalled(calls, t, h)
          /\ h.from \notin Acting("account")
          /\ message.method = "Forward" =>
                /\ Len(calls) > 1 => Settled(state)
                /\ \/ Settled(state')
                   \/ /\ h.actor = message.actor
                      /\ operatorAddress'[message.actor] = message.caller
    /\ Kept

\* The token refuses.
Refuses ==
    /\ calls # <<>> /\ answer = "none"
    /\ Sender(Top)
    /\ calls' = calls
    /\ answer' = "abort"
    /\ StateKept /\ Kept

\* A message from an account begins.
Begins ==
    /\ calls = <<>>
    /\ \/ /\ calls' = <<>> /\ answer' = "abort"
          /\ StateKept
          /\ message'.method # "Forward"
       \/ /\ \E t, h : HookIsCalled(<<>>, t, h)
          /\ message'.method # "Forward"
       \/ /\ answer' = "none"
          /\ StateKept
          /\ \E c : /\ calls' = <<c>> /\ c.undo = state
                    /\ \/ ActionCall(c) /\ message'.method # "Forward"
                       \/ /\ ForwardCall(c)
                          /\ message'.actor = c.actor
                          /\ message'.caller = c.from

AnyStep == Returns \/ Aborts \/ Replaces \/ Sends \/ Refuses \/ Begins

LEMMA UndoneState ==
    ASSUME NEW c, CallOK(c), root' = c.undo.root, operatorAddress' = c.undo.operatorAddress,
           accepted' = c.undo.accepted
    PROVE  state' = c.undo
<1>1. GoodState(c.undo)
  BY GoodUndo
<1>2. QED
  BY <1>1 DEF GoodState, state

\* A call that calls the token and runs is not the one that forwards.
LEMMA SenderIsTest ==
    ASSUME NEW c, Sender(c), HookCall(c)
    PROVE  c.actor \in Acting("test") /\ c.actor \notin Acting("transfer")
  BY Entries, Roles DEF Sender, HookCall

LEMMA ReturnsIInv == ReceiversIInv /\ Returns => ReceiversIInv'
<1> SUFFICES ASSUME ReceiversIInv, Returns PROVE ReceiversIInv'
  OBVIOUS
<1> DEFINE n == Len(calls)
<1>1. calls # <<>> /\ StackOK(calls) /\ calls' = SubSeq(calls, 1, n - 1)
  BY DEF ReceiversIInv, Returns, Below
<1>2. /\ n \in Nat /\ n >= 1 /\ CallOK(calls[n])
      /\ StackOK(calls')
      /\ Len(calls') = n - 1
      /\ \A i \in 1..(n - 1) : calls'[i] = calls[i]
      /\ calls' # <<>> => /\ n > 1
                          /\ calls'[1] = calls[1]
                          /\ Calls(calls'[Len(calls')], calls[n])
  BY <1>1, StackSize, PopStack
<1>3. /\ answer' = "ok" /\ GoodState(state') /\ message' = message
      /\ message.method = "Forward" => Settled(state')
  BY DEF Returns, Kept
<1>4. TopOK'
  BY <1>2, <1>3 DEF TopOK, Calls, Top
<1>5. Emptied'
  <2> SUFFICES ASSUME message.method = "Forward" PROVE Emptied'
    BY <1>3 DEF Emptied
  <2>1. \A i \in 3..(n - 1) : i \in 3..n /\ i \in 1..(n - 1)
    BY <1>2
  <2>2. \A i \in 1..(n - 1) : i \in 1..n
    BY <1>2
  <2>3. Emptied
    BY DEF ReceiversIInv
  <2>4. Settled(state)'
    BY <1>3 DEF Settled
  <2> HIDE DEF n
  <2>5. \A i \in 3..(n - 1) : TokenCall(calls'[i]) => Settled(calls[i].undo)
    BY <1>2, <2>1, <2>3 DEF Emptied, n
  <2>6. \A i \in 1..(n - 1) : HookCall(calls'[i]) => calls'[i].from \notin Acting("account")
    BY <1>2, <2>2, <2>3 DEF Emptied, n
  <2>7. QED
    BY <1>1, <1>2, <1>3, <2>1, <2>3, <2>4, <2>5, <2>6 DEF Emptied, Settled
<1>6. QED
  BY <1>2, <1>3, <1>4, <1>5 DEF ReceiversIInv

LEMMA AbortsIInv == ReceiversIInv /\ Aborts => ReceiversIInv'
<1> SUFFICES ASSUME ReceiversIInv, Aborts PROVE ReceiversIInv'
  OBVIOUS
<1> DEFINE n == Len(calls)
<1>1. calls # <<>> /\ StackOK(calls) /\ calls' = SubSeq(calls, 1, n - 1)
  BY DEF ReceiversIInv, Aborts, Abort, Below
<1>2. /\ n \in Nat /\ n >= 1 /\ CallOK(calls[n])
      /\ StackOK(calls')
      /\ Len(calls') = n - 1
      /\ \A i \in 1..(n - 1) : calls'[i] = calls[i]
      /\ calls' # <<>> => /\ n > 1
                          /\ calls'[1] = calls[1]
                          /\ calls'[n - 1] = calls[n - 1]
                          /\ Calls(calls[n - 1], calls[n])
  BY <1>1, StackSize, PopStack
<1>3. /\ answer' = "abort" /\ message' = message
      /\ root' = calls[n].undo.root
      /\ operatorAddress' = calls[n].undo.operatorAddress
      /\ accepted' = calls[n].undo.accepted
  BY DEF Aborts, Abort, Kept, Top
<1>4. state' = calls[n].undo /\ GoodState(state')
  BY <1>2, <1>3, UndoneState, GoodUndo
<1>5. TopOK'
  BY <1>2, <1>3, Entries DEF TopOK, Calls, Top, Holds
<1>6. Emptied'
  <2> SUFFICES ASSUME message.method = "Forward" PROVE Emptied'
    BY <1>3 DEF Emptied
  <2>1. \A i \in 3..(n - 1) : i \in 3..n /\ i \in 1..(n - 1)
    BY <1>2
  <2>2. \A i \in 1..(n - 1) : i \in 1..n
    BY <1>2
  <2>3. Emptied
    BY DEF ReceiversIInv
  <2>4. ASSUME calls' # <<>>, HookCall(Top') PROVE Settled(state)'
    <3>1. HookCall(calls[n - 1])
      BY <1>2, <2>4 DEF Top
    <3>2. TokenCall(calls[n])
      BY <1>2, <2>4, <3>1, Entries DEF Calls
    <3>3. ForwardCall(calls[1])
      BY <1>1, <2>3 DEF Emptied
    <3>4. n - 1 # 1
      BY <3>1, <3>3, Entries
    <3>5. n \in 3..n
      BY <1>2, <2>4, <3>4
    <3>6. Settled(calls[n].undo)
      BY <2>3, <3>2, <3>5 DEF Emptied
    <3>7. QED
      BY <1>3, <1>4, <3>6 DEF Settled
  <2> HIDE DEF n
  <2>5. \A i \in 3..(n - 1) : TokenCall(calls'[i]) => Settled(calls[i].undo)
    BY <1>2, <2>1, <2>3 DEF Emptied, n
  <2>6. \A i \in 1..(n - 1) : HookCall(calls'[i]) => calls'[i].from \notin Acting("account")
    BY <1>2, <2>2, <2>3 DEF Emptied, n
  <2>7. QED
    BY <1>1, <1>2, <1>3, <2>1, <2>3, <2>4, <2>5, <2>6 DEF Emptied, Settled
<1>7. QED
  BY <1>2, <1>3, <1>4, <1>5, <1>6 DEF ReceiversIInv

LEMMA ReplacesIInv == ReceiversIInv /\ Replaces => ReceiversIInv'
<1> SUFFICES ASSUME ReceiversIInv, Replaces PROVE ReceiversIInv'
  OBVIOUS
<1> DEFINE n == Len(calls)
<1>1. /\ calls # <<>> /\ StackOK(calls) /\ answer # "ok"
      /\ Top = calls[n] /\ Top.actor \in Acting("test")
  BY DEF ReceiversIInv, Replaces, Top
<1>2. PICK d : SameCall(calls[n], d) /\ calls' = [calls EXCEPT ![n] = d]
  BY <1>1 DEF Replaces
<1>3. /\ n \in Nat /\ n >= 1
      /\ StackOK(calls')
      /\ Len(calls') = n
      /\ \A i \in 1..(n - 1) : calls'[i] = calls[i]
      /\ calls'[n] = d
  <2>1. n \in Nat /\ n >= 1
    BY <1>1, StackSize
  <2> DEFINE u == [calls EXCEPT ![Len(calls)] = d]
  <2>2. /\ StackOK(u)
        /\ Len(u) = Len(calls)
        /\ \A i \in 1..(Len(calls) - 1) : u[i] = calls[i]
        /\ u[Len(calls)] = d
    <3>1. SameCall(calls[Len(calls)], d)
      BY <1>2
    <3>2. QED
      BY <1>1, <3>1, ReplaceTop, Zenon
  <2>3. calls' = u
    BY <1>2
  <2> HIDE DEF u
  <2>4. QED
    BY <2>1, <2>2, <2>3
<1>4. /\ answer' = "none" /\ message' = message
      /\ root' = root /\ operatorAddress' = operatorAddress /\ accepted' = accepted
      /\ state' = state
  BY DEF Replaces, Kept, StateKept, state
<1>5. calls' # <<>>
  BY <1>3, EmptyStack
<1>6. TopOK'
  <2>1. ~TokenCall(d)
    BY <1>2, Entries DEF SameCall
  <2>2. Holds(calls[n], root)
    BY <1>1 DEF ReceiversIInv, TopOK
  <2>3. Holds(d, root)
    BY <1>2, <2>2, Entries DEF SameCall, Holds
  <2>4. QED
    BY <1>3, <1>4, <2>1, <2>3 DEF TopOK, Top
<1>7. \A i \in 1..n : /\ calls'[i].undo = calls[i].undo
                      /\ TokenCall(calls'[i]) => TokenCall(calls[i])
                      /\ ForwardCall(calls[i]) => calls'[i] = calls[i]
                      /\ HookCall(calls'[i]) => /\ HookCall(calls[i])
                                                /\ calls'[i].from = calls[i].from
  <2> SUFFICES ASSUME NEW i \in 1..n
               PROVE  /\ calls'[i].undo = calls[i].undo
                      /\ TokenCall(calls'[i]) => TokenCall(calls[i])
                      /\ ForwardCall(calls[i]) => calls'[i] = calls[i]
                      /\ HookCall(calls'[i]) => /\ HookCall(calls[i])
                                                /\ calls'[i].from = calls[i].from
    OBVIOUS
  <2>1. CASE i \in 1..(n - 1)
    BY <1>3, <2>1
  <2>2. CASE i = n
    BY <1>2, <1>3, <2>2, Entries DEF SameCall
  <2>3. QED
    BY <1>3, <2>1, <2>2
<1>8. 1 \in 1..n
  BY <1>3
<1>9. Emptied'
  <2> SUFFICES ASSUME message.method = "Forward" PROVE Emptied'
    BY <1>4 DEF Emptied
  <2>1. Emptied
    BY DEF ReceiversIInv
  <2>2. \A i \in 3..n : i \in 1..n
    BY <1>3
  <2>3. calls'[1] = calls[1]
    BY <1>1, <1>7, <1>8, <2>1 DEF Emptied
  <2>4. ASSUME HookCall(Top') PROVE Settled(state)'
    <3>1. HookCall(calls[n])
      BY <1>3, <1>7, <2>4 DEF Top
    <3>2. Top.actor # message.actor
      BY <1>1, <2>1, <3>1, Roles DEF Emptied, HookCall
    <3>3. Settled(state)
      BY <1>1, <2>1, <3>1, <3>2 DEF Emptied, Arrives
    <3>4. QED
      BY <1>4, <3>3 DEF Settled
  <2> HIDE DEF n
  <2>5. \A i \in 3..n : TokenCall(calls'[i]) => Settled(calls'[i].undo)
    BY <1>7, <2>1, <2>2 DEF Emptied, Settled, n
  <2>6. \A i \in 1..n : HookCall(calls'[i]) => calls'[i].from \notin Acting("account")
    BY <1>7, <2>1 DEF Emptied, n
  <2>7. QED
    BY <1>1, <1>3, <1>4, <2>1, <2>3, <2>4, <2>5, <2>6 DEF Emptied, Settled
<1>10. QED
  BY <1>3, <1>4, <1>6, <1>9 DEF ReceiversIInv

LEMMA RefusesIInv == ReceiversIInv /\ Refuses => ReceiversIInv'
<1> SUFFICES ASSUME ReceiversIInv, Refuses PROVE ReceiversIInv'
  OBVIOUS
<1>1. /\ calls # <<>> /\ answer = "none" /\ Sender(Top) /\ calls' = calls
      /\ answer' = "abort" /\ message' = message
      /\ root' = root /\ operatorAddress' = operatorAddress /\ accepted' = accepted
      /\ state' = state /\ Top' = Top
  BY DEF Refuses, Kept, StateKept, state, Top
<1>2. TopOK'
  BY <1>1 DEF ReceiversIInv, TopOK
<1>3. Emptied'
  <2> SUFFICES ASSUME message.method = "Forward" PROVE Emptied'
    BY <1>1 DEF Emptied
  <2>1. Emptied
    BY DEF ReceiversIInv
  <2>2. HookCall(Top) => Settled(state)
    BY <1>1, <2>1, SenderIsTest DEF Emptied, Arrives
  <2>3. QED
    BY <1>1, <2>1, <2>2 DEF Emptied, Settled
<1>4. QED
  BY <1>1, <1>2, <1>3 DEF ReceiversIInv

\* The hook is on top, above the call of the token.
LEMMA HookOnTop ==
    ASSUME NEW s, StackOK(s), NEW t, NEW h, HookIsCalled(s, t, h),
           s # <<>> => Calls(s[Len(s)], t)
    PROVE  /\ StackOK(calls') /\ Len(s) \in Nat
           /\ Len(calls') = Len(s) + 2
           /\ \A i \in 1..Len(s) : calls'[i] = s[i]
           /\ calls'[Len(s) + 1] = t /\ calls'[Len(s) + 2] = h
           /\ calls' # <<>> /\ Top' = h
           /\ TopOK'
<1> DEFINE u == s \o <<t, h>>
<1>1. TokenCall(t) /\ HookCall(h) /\ Holds(h, root') /\ answer' = "none"
  BY DEF HookIsCalled
<1>2. calls' = u
  BY DEF HookIsCalled
<1>3. Len(s) \in Nat
  BY StackSize
<1>4. /\ StackOK(u) /\ Len(u) = Len(s) + 2
      /\ \A i \in 1..Len(s) : u[i] = s[i]
      /\ u[Len(s) + 1] = t /\ u[Len(s) + 2] = h
  BY <1>1, PushStack
<1> HIDE DEF u
<1>5. u # <<>>
  BY <1>3, <1>4, EmptyStack
<1>6. Top' = h
  BY <1>2, <1>4 DEF Top
<1>7. TopOK'
  BY <1>1, <1>6, Entries DEF TopOK
<1>8. QED
  BY <1>2, <1>3, <1>4, <1>5, <1>6, <1>7

LEMMA SendsIInv == ReceiversIInv /\ Sends => ReceiversIInv'
<1> SUFFICES ASSUME ReceiversIInv, Sends PROVE ReceiversIInv'
  OBVIOUS
<1> DEFINE n == Len(calls)
<1>1. /\ calls # <<>> /\ StackOK(calls) /\ answer = "none" /\ Sender(calls[n])
      /\ Top = calls[n]
  BY DEF ReceiversIInv, Sends, Top
<1>2. PICK t, h :
         /\ HookIsCalled(calls, t, h)
         /\ h.from \notin Acting("account")
         /\ message.method = "Forward" =>
               /\ n > 1 => Settled(state)
               /\ \/ Settled(state')
                  \/ /\ h.actor = message.actor
                     /\ operatorAddress'[message.actor] = message.caller
  BY DEF Sends
<1>3. /\ TokenCall(t) /\ t.undo = state /\ HookCall(h)
      /\ answer' = "none" /\ GoodState(state')
      /\ message' = message
  BY <1>2 DEF HookIsCalled, Sends, Kept
<1>4. Calls(calls[n], t)
  BY <1>1, <1>3 DEF Calls, ReceiversIInv, TopOK, state
<1>5. n >= 1
  BY <1>1, StackSize
<1>6. /\ StackOK(calls') /\ n \in Nat
      /\ Len(calls') = n + 2
      /\ \A i \in 1..n : calls'[i] = calls[i]
      /\ calls'[n + 1] = t /\ calls'[n + 2] = h
      /\ calls' # <<>> /\ Top' = h
      /\ TopOK'
  BY <1>1, <1>2, <1>4, HookOnTop
<1> HIDE DEF n
<1>7. 1 \in 1..n
  BY <1>5, <1>6
<1>8. Emptied'
  <2> SUFFICES ASSUME message.method = "Forward" PROVE Emptied'
    BY <1>3 DEF Emptied
  <2>1. Emptied
    BY DEF ReceiversIInv
  <2>2. \A i \in 3..(n + 2) :
           \/ i \in 1..n /\ i \in 3..n
           \/ i = n + 1 /\ n > 1
           \/ i = n + 2
    BY <1>6
  <2>3. \A i \in 1..(n + 2) : i \in 1..n \/ i = n + 1 \/ i = n + 2
    BY <1>6
  <2>4. ~TokenCall(h) /\ ~HookCall(t)
    BY <1>3, Entries
  <2>5. n > 1 => Settled(t.undo)
    BY <1>2, <1>3
  <2>6. \A i \in 3..(n + 2) : TokenCall(calls'[i]) => Settled(calls'[i].undo)
    <3> SUFFICES ASSUME NEW i \in 3..(n + 2), TokenCall(calls'[i])
                 PROVE  Settled(calls'[i].undo)
      OBVIOUS
    <3>1. CASE i \in 1..n /\ i \in 3..n
      BY <1>6, <2>1, <3>1 DEF Emptied, n
    <3>2. CASE i = n + 1 /\ n > 1
      BY <1>6, <2>5, <3>2
    <3>3. CASE i = n + 2
      BY <1>6, <2>4, <3>3
    <3>4. QED
      BY <2>2, <3>1, <3>2, <3>3
  <2>7. \A i \in 1..(n + 2) :
           HookCall(calls'[i]) => calls'[i].from \notin Acting("account")
    BY <1>2, <1>6, <2>1, <2>3, <2>4 DEF Emptied, n
  <2>8. calls'[1] = calls[1]
    BY <1>6, <1>7
  <2>9. Settled(state)' \/ Arrives'
    BY <1>2, <1>3, <1>6 DEF Settled, Arrives
  <2>10. QED
    BY <1>1, <1>3, <1>6, <2>1, <2>6, <2>7, <2>8, <2>9 DEF Emptied, Settled
<1>9. QED
  BY <1>3, <1>6, <1>8 DEF ReceiversIInv

LEMMA BeginsIInv == ReceiversIInv /\ Begins => ReceiversIInv'
<1> SUFFICES ASSUME ReceiversIInv, Begins PROVE ReceiversIInv'
  OBVIOUS
<1>1. GoodState(state) /\ calls = <<>>
  BY DEF ReceiversIInv, Begins
<1>2. StateKept => state' = state
  BY DEF StateKept, state
<1>3. CASE /\ calls' = <<>> /\ answer' = "abort"
           /\ StateKept
           /\ message'.method # "Forward"
  BY <1>1, <1>2, <1>3, EmptyStack DEF ReceiversIInv, TopOK, Emptied
<1>4. CASE /\ \E t, h : HookIsCalled(<<>>, t, h)
           /\ message'.method # "Forward"
  <2>1. PICK t, h : HookIsCalled(<<>>, t, h)
    BY <1>4
  <2>2. StackOK(calls') /\ TopOK'
    BY <2>1, EmptyStack, HookOnTop
  <2>3. answer' = "none" /\ GoodState(state')
    BY <2>1 DEF HookIsCalled
  <2>4. QED
    BY <1>4, <2>2, <2>3 DEF ReceiversIInv, Emptied
<1>5. CASE /\ answer' = "none"
           /\ StateKept
           /\ \E c : /\ calls' = <<c>> /\ c.undo = state
                     /\ \/ ActionCall(c) /\ message'.method # "Forward"
                        \/ /\ ForwardCall(c)
                           /\ message'.actor = c.actor
                           /\ message'.caller = c.from
  <2>1. PICK c : /\ calls' = <<c>> /\ c.undo = state
                 /\ \/ ActionCall(c) /\ message'.method # "Forward"
                    \/ /\ ForwardCall(c)
                       /\ message'.actor = c.actor
                       /\ message'.caller = c.from
    BY <1>5
  <2>2. StackOK(calls') /\ Len(calls') = 1 /\ calls'[1] = c
    BY <2>1, OneCall
  <2>3. calls' # <<>> /\ Top' = c
    BY <2>2, EmptyStack DEF Top
  <2>4. TopOK'
    BY <1>5, <2>1, <2>3, Entries DEF TopOK, Holds
  <2>5. ASSUME ForwardCall(c), message'.actor = c.actor, message'.caller = c.from
        PROVE  Emptied'
    <3>1. c.actor \in Acting("transfer") /\ c.from \in Acting("account") /\ ~HookCall(c)
      BY <2>5, Entries DEF ForwardCall
    <3>2. \A i \in 3..1 : FALSE
      OBVIOUS
    <3>3. \A i \in 1..1 : i = 1
      OBVIOUS
    <3>4. QED
      BY <1>5, <2>2, <2>3, <2>5, <3>1, <3>2, <3>3 DEF Emptied
  <2>6. Emptied'
    BY <2>1, <2>5 DEF Emptied
  <2>7. QED
    BY <1>1, <1>2, <1>5, <2>2, <2>4, <2>6 DEF ReceiversIInv
<1>6. QED
  BY <1>3, <1>4, <1>5 DEF Begins

-----------------------------------------------------------------------------
(* Every step of the specification is one of these. *)

LEMMA StartIInv == ReceiversInit => ReceiversIInv
<1> SUFFICES ASSUME ReceiversInit PROVE ReceiversIInv
  OBVIOUS
<1>1. StateOK(root) /\ SupplyMatches(root)
  BY NewStateOK DEF ReceiversInit
<1>2. /\ operatorAddress = [a \in Acting("transfer") |-> Nobody]
      /\ accepted = [a \in Acting("transfer") |-> {}]
  BY DEF ReceiversInit
<1>3. GoodState(state)
  BY <1>1, <1>2 DEF GoodState, state
<1>4. calls = <<>> /\ answer = "none" /\ message.method # "Forward"
  BY DEF ReceiversInit
<1>5. QED
  BY <1>3, <1>4, EmptyStack DEF ReceiversIInv, TopOK, Emptied

LEMMA TokenWorld ==
    ASSUME GoodState(state)
    PROVE  WorldOK(Actors) /\ Actors.token = root
  BY DEF GoodState, state, WorldOK, Actors

LEMMA AnyIDAddress ==
    ASSUME NEW a \in ActorID
    PROVE  IDAddress(a) \in Address /\ IDAddress(a).actor = a
  BY DEF IDAddress, Address

LEMMA SendsTokens ==
    ASSUME GoodState(state), operatorAddress' = operatorAddress, accepted' = accepted,
           NEW stack, NEW r, r.ok \in BOOLEAN, WorldOK(r.world),
           NEW op \in ActorID, NEW to \in ActorID, NEW amount \in Int,
           NEW data \in Actions,
           r.ok => GetBalance(r.world.token, to) >= amount,
           SendTokens(stack, r, Hook(op, to, amount, data))
    PROVE  \/ /\ r.ok /\ root' = r.world.token
              /\ \E t, h : HookIsCalled(stack, t, h) /\ h.from = op /\ h.actor = to
           \/ /\ ~r.ok /\ root' = root
              /\ calls' = stack /\ answer' = "abort"
<1>1. CASE r.ok
  <2> DEFINE t == [actor |-> Nobody, entry |-> "token", undo |-> state]
             h == [Hook(op, to, amount, data) EXCEPT !.undo.root = root']
  <2>1. /\ root' = r.world.token /\ calls' = stack \o <<t, h>> /\ answer' = "none"
    BY <1>1 DEF SendTokens
  <2>2. GoodState(state')
    BY <2>1 DEF GoodState, state, WorldOK
  <2>3. h = [actor |-> to, entry |-> "Receive", from |-> op, amount |-> amount,
             action |-> data, doomed |-> FALSE, undo |-> state']
    <3>1. state' = [state EXCEPT !.root = root']
      BY DEF state
    <3>2. h = [Hook(op, to, amount, data) EXCEPT !.undo = [state EXCEPT !.root = root']]
      BY DEF Hook
    <3> HIDE DEF h
    <3>3. h = [Hook(op, to, amount, data) EXCEPT !.undo = state']
      BY <3>1, <3>2, Zenon
    <3>4. QED
      BY <3>3 DEF Hook
  <2>4. TokenCall(t) /\ t.undo = state
    BY DEF TokenCall
  <2> HIDE DEF t, h
  <2>5. HookCall(h) /\ h.from = op /\ h.actor = to /\ h.amount = amount
    BY <2>2, <2>3 DEF HookCall
  <2>6. Holds(h, root')
    BY <1>1, <2>1, <2>5 DEF Holds
  <2>7. HookIsCalled(stack, t, h)
    BY <2>1, <2>2, <2>4, <2>5, <2>6 DEF HookIsCalled
  <2>8. QED
    BY <1>1, <2>1, <2>5, <2>7
<1>2. CASE ~r.ok
  BY <1>2 DEF SendTokens
<1>3. QED
  BY <1>1, <1>2

\* What is on top, by its entry; what was called first is called by nobody.
LEMMA TopKinds ==
    ASSUME ReceiversIInv, calls # <<>>
    PROVE  /\ CallOK(Top) /\ GoodState(Top.undo)
           /\ Top.entry = "token" => TokenCall(Top)
           /\ Top.entry = "Receive" => HookCall(Top)
           /\ Top.entry = "Action" => ActionCall(Top)
           /\ Top.entry = "Forward" => ForwardCall(Top)
           /\ HookCall(Top) \/ TokenCall(Top) \/ (Len(calls) = 1 /\ Top = calls[1])
           /\ Len(calls) \in Nat /\ Len(calls) >= 1
<1> DEFINE n == Len(calls)
<1>1. StackOK(calls)
  BY DEF ReceiversIInv
<1>2. n \in Nat /\ n >= 1 /\ CallOK(Top)
  BY <1>1, StackSize DEF Top
<1>3. ASSUME n > 1 PROVE HookCall(Top) \/ TokenCall(Top)
  <2> HIDE DEF n
  <2>1. n - 1 \in 1..(n - 1) /\ n - 1 + 1 = n
    BY <1>2, <1>3
  <2>2. Calls(calls[n - 1], calls[n - 1 + 1])
    BY <1>1, <2>1 DEF StackOK, n
  <2>3. QED
    BY <2>1, <2>2 DEF Calls, Top, n
<1> HIDE DEF n
<1>4. HookCall(Top) \/ TokenCall(Top) \/ n = 1
  BY <1>2, <1>3
<1>5. n = 1 => Top = calls[1]
  BY DEF Top, n
<1>6. /\ Top.entry = "token" => TokenCall(Top)
      /\ Top.entry = "Receive" => HookCall(Top)
      /\ Top.entry = "Action" => ActionCall(Top)
      /\ Top.entry = "Forward" => ForwardCall(Top)
  BY <1>2, Entries DEF CallOK
<1>7. GoodState(Top.undo)
  BY <1>2, GoodUndo
<1>8. QED
  BY <1>2, <1>4, <1>5, <1>6, <1>7 DEF n

\* While an actor forwards, a test actor only ever runs in its hook, and
\* finds that everything has been sent.
LEMMA TestWhileForwarding ==
    ASSUME ReceiversIInv, calls # <<>>, Top.actor \in Acting("test"),
           HookCall(Top) \/ ActionCall(Top), message.method = "Forward"
    PROVE  /\ Settled(state)
           /\ message.actor \in Acting("transfer") /\ message.actor # Top.actor
<1>1. Emptied
  BY DEF ReceiversIInv
<1>2. message.actor \in Acting("transfer") /\ ForwardCall(calls[1])
  BY <1>1 DEF Emptied
<1>3. message.actor # Top.actor
  BY <1>2, Roles
<1>4. ~ActionCall(Top)
  <2> SUFFICES ASSUME ActionCall(Top) PROVE FALSE
    OBVIOUS
  <2>1. ~HookCall(Top) /\ ~TokenCall(Top)
    BY Entries
  <2>2. Top = calls[1]
    BY <2>1, TopKinds
  <2>3. QED
    BY <1>2, <2>2, Entries
<1>5. QED
  BY <1>1, <1>2, <1>3, <1>4 DEF Emptied, Arrives

\* A call that sends tokens it holds.
LEMMA TransferIsSent ==
    ASSUME ReceiversIInv, calls # <<>>, answer = "none", Sender(Top),
           operatorAddress' = operatorAddress, accepted' = accepted, Kept,
           Top.actor \notin Acting("account"),
           NEW to \in ActorID, NEW amount \in Int, NEW data \in Actions,
           SendTransfer(calls, Top.actor, to, amount, data),
           message.method = "Forward" =>
               \/ Settled(state) /\ Top.actor # message.actor
               \/ /\ Len(calls) = 1
                  /\ Top.actor = message.actor
                  /\ operatorAddress[message.actor] = message.caller
                  /\ amount = GetBalance(root, message.actor)
    PROVE  Sends \/ Refuses
<1> DEFINE from == Top.actor
           r == Transfer(Actors, IDAddress(from), IDAddress(to), amount)
<1>1. GoodState(state) /\ from \in ActorID
  BY Roles DEF ReceiversIInv, Sender, HookCall, ActionCall, ForwardCall
<1>2. WorldOK(Actors) /\ Actors.token = root
  BY <1>1, TokenWorld
<1>3. /\ IDAddress(from) \in Address /\ IDAddress(from).actor = from
      /\ IDAddress(to) \in Address /\ IDAddress(to).actor = to
  BY <1>1, AnyIDAddress
<1>4. r.ok \in BOOLEAN /\ WorldOK(r.world)
  BY <1>2, <1>3, TransferProper DEF Proper
<1>5. r.ok => Funded(root, r.world.token, from, to, amount)
  BY <1>2, <1>3, TransferFunds
<1>6. SendTokens(calls, r, Hook(from, to, amount, data))
  BY DEF SendTransfer
<1> HIDE DEF r, from
<1>7. \/ /\ r.ok /\ root' = r.world.token
         /\ \E t, h : HookIsCalled(calls, t, h) /\ h.from = from /\ h.actor = to
      \/ /\ ~r.ok /\ root' = root
         /\ calls' = calls /\ answer' = "abort"
  BY <1>1, <1>4, <1>5, <1>6, SendsTokens DEF Funded
<1>8. CASE /\ r.ok /\ root' = r.world.token
           /\ \E t, h : HookIsCalled(calls, t, h) /\ h.from = from /\ h.actor = to
  <2>1. PICK t, h : HookIsCalled(calls, t, h) /\ h.from = from /\ h.actor = to
    BY <1>8
  <2>2. Funded(root, root', from, to, amount)
    BY <1>5, <1>8
  <2>3. ASSUME message.method = "Forward"
        PROVE  /\ Len(calls) > 1 => Settled(state)
               /\ \/ Settled(state')
                  \/ to = message.actor /\ operatorAddress'[message.actor] = message.caller
    <3>1. message.actor \in ActorID
      BY <2>3, Roles DEF ReceiversIInv, Emptied
    <3>2. CASE Settled(state) /\ from # message.actor
      BY <2>2, <3>1, <3>2 DEF Settled, Funded, state
    <3>3. CASE /\ Len(calls) = 1
               /\ from = message.actor
               /\ operatorAddress[message.actor] = message.caller
               /\ amount = GetBalance(root, message.actor)
      <4>1. GetBalance(root, message.actor) \in Nat
        BY <1>1, GetBalanceNat DEF GoodState, StateOK, state
      <4>2. from # to => GetBalance(root', message.actor) = 0
        BY <2>2, <3>3, <4>1 DEF Funded
      <4>3. QED
        BY <3>3, <4>2 DEF Settled, state
    <3>4. QED
      BY <2>3, <3>2, <3>3 DEF from
  <2>4. h.from \notin Acting("account")
    BY <2>1 DEF from
  <2>5. QED
    BY <2>1, <2>3, <2>4 DEF Sends
<1>9. CASE ~r.ok /\ root' = root /\ calls' = calls /\ answer' = "abort"
  BY <1>9 DEF Refuses, StateKept
<1>10. QED
  BY <1>7, <1>8, <1>9

LEMMA TokenStep == ReceiversIInv /\ TokenResumes => Returns \/ Aborts
<1> SUFFICES ASSUME ReceiversIInv, TokenResumes PROVE Returns \/ Aborts
  OBVIOUS
<1>1. calls # <<>> /\ Kept
  BY DEF TokenResumes, Resumed, Kept
<1>2. CASE answer = "ok" /\ Return /\ UNCHANGED <<root, operatorAddress, accepted>>
  <2>1. state' = state
    BY <1>2 DEF state
  <2>2. message.method = "Forward" => Settled(state)
    BY <1>2 DEF ReceiversIInv, Emptied
  <2>3. QED
    BY <1>1, <1>2, <2>1, <2>2 DEF Returns, Return, ReceiversIInv, Settled
<1>3. CASE answer = "abort" /\ Abort
  BY <1>1, <1>3 DEF Aborts
<1>4. QED
  BY <1>2, <1>3 DEF TokenResumes

LEMMA ForwardResumesStep == ReceiversIInv /\ ForwardResumes => Returns \/ Aborts
<1> SUFFICES ASSUME ReceiversIInv, ForwardResumes PROVE Returns \/ Aborts
  OBVIOUS
<1>1. calls # <<>> /\ Kept
  BY DEF ForwardResumes, Resumed, Kept
<1>2. CASE answer = "ok" /\ Return /\ UNCHANGED <<root, operatorAddress, accepted>>
  <2>1. state' = state
    BY <1>2 DEF state
  <2>2. message.method = "Forward" => Settled(state)
    BY <1>2 DEF ReceiversIInv, Emptied
  <2>3. QED
    BY <1>1, <1>2, <2>1, <2>2 DEF Returns, Return, ReceiversIInv, Settled
<1>3. CASE answer = "abort" /\ Abort
  BY <1>1, <1>3 DEF Aborts
<1>4. QED
  BY <1>2, <1>3 DEF ForwardResumes

LEMMA AccountStep == ReceiversIInv /\ AccountReceive => Returns
<1> SUFFICES ASSUME ReceiversIInv, AccountReceive PROVE Returns
  OBVIOUS
<1>1. PICK role \in Account : Running(Acting(role), "Receive")
  BY DEF AccountReceive
<1>2. /\ calls # <<>> /\ Top.actor \in Acting(role) /\ Top.entry = "Receive"
      /\ Kept /\ Return /\ state' = state
  BY <1>1 DEF AccountReceive, Running, Kept, state
<1>3. HookCall(Top)
  BY <1>2, TopKinds
<1>4. Top.actor \notin Acting("transfer")
  BY <1>2, Roles DEF Account
<1>5. message.method = "Forward" => Settled(state)
  BY <1>2, <1>3, <1>4 DEF ReceiversIInv, Emptied, Arrives
<1>6. QED
  BY <1>2, <1>5 DEF Returns, Return, ReceiversIInv, Settled

LEMMA TransferActorStep == ReceiversIInv /\ TransferActorReceive => Returns \/ Aborts
<1> SUFFICES ASSUME ReceiversIInv, TransferActorReceive PROVE Returns \/ Aborts
  OBVIOUS
<1>1. /\ calls # <<>> /\ Top.actor \in Acting("transfer") /\ Top.entry = "Receive"
      /\ Kept
  BY DEF TransferActorReceive, Running, Kept
<1>2. HookCall(Top)
  BY <1>1, TopKinds
<1>3. Top.from \in ActorID /\ Nobody \notin ActorID
  BY <1>2, Roles DEF HookCall
<1>4. GoodState(state)
  BY DEF ReceiversIInv
<1>5. CASE operatorAddress[Top.actor] \in {Nobody, Top.from}
  <2>1. /\ Return /\ root' = root
        /\ operatorAddress' = [operatorAddress EXCEPT ![Top.actor] = Top.from]
        /\ accepted' = [accepted EXCEPT ![Top.actor] = @ \cup {Top.from}]
    BY <1>5 DEF TransferActorReceive
  <2>2. /\ StateOK(root) /\ SupplyMatches(root)
        /\ operatorAddress \in [Acting("transfer") -> ActorID \cup {Nobody}]
        /\ accepted \in [Acting("transfer") -> SUBSET ActorID]
        /\ \A a \in Acting("transfer") : accepted[a] \subseteq {operatorAddress[a]} \ {Nobody}
    BY <1>4 DEF GoodState, state
  <2>3. accepted[Top.actor] \subseteq {Top.from}
    BY <1>1, <1>5, <2>2
  <2>4. /\ operatorAddress' \in [Acting("transfer") -> ActorID \cup {Nobody}]
        /\ accepted' \in [Acting("transfer") -> SUBSET ActorID]
    BY <1>1, <1>3, <2>1, <2>2
  <2>5. \A a \in Acting("transfer") : accepted'[a] \subseteq {operatorAddress'[a]} \ {Nobody}
    <3> SUFFICES ASSUME NEW a \in Acting("transfer")
                 PROVE  accepted'[a] \subseteq {operatorAddress'[a]} \ {Nobody}
      OBVIOUS
    <3>1. CASE a = Top.actor
      BY <1>3, <2>1, <2>2, <2>3, <3>1
    <3>2. CASE a # Top.actor
      BY <2>1, <2>2, <3>2
    <3>3. QED
      BY <3>1, <3>2
  <2>6. GoodState(state')
    BY <2>1, <2>2, <2>4, <2>5 DEF GoodState, state
  <2>7. ASSUME message.method = "Forward" PROVE Settled(state')
    <3>1. /\ message.caller \in Acting("account")
          /\ Top.from \notin Acting("account")
          /\ Settled(state) \/ Arrives
      <4>1. Len(calls) \in 1..Len(calls)
        BY <1>1, TopKinds
      <4>2. QED
        BY <1>1, <1>2, <2>7, <4>1 DEF ReceiversIInv, Emptied, Top
    <3>2. operatorAddress[message.actor] = message.caller
      BY <3>1 DEF Settled, Arrives, state
    <3>3. message.caller \in ActorID
      BY <3>1, Roles
    <3>4. Top.actor # message.actor
      BY <1>3, <1>5, <3>1, <3>2, <3>3
    <3>5. Settled(state)
      BY <3>1, <3>4 DEF Arrives
    <3>6. message.actor \in Acting("transfer")
      BY <2>7 DEF ReceiversIInv, Emptied
    <3>7. QED
      BY <2>1, <2>2, <3>4, <3>5, <3>6 DEF Settled, state
  <2>8. QED
    BY <1>1, <2>1, <2>6, <2>7 DEF Returns, Return
<1>6. CASE operatorAddress[Top.actor] \notin {Nobody, Top.from}
  BY <1>1, <1>6 DEF TransferActorReceive, Aborts
<1>7. QED
  BY <1>5, <1>6

LEMMA ForwardStep ==
    ReceiversIInv /\ TransferActorForward => Sends \/ Refuses \/ Aborts
<1> SUFFICES ASSUME ReceiversIInv, TransferActorForward
             PROVE  Sends \/ Refuses \/ Aborts
  OBVIOUS
<1>1. /\ calls # <<>> /\ Top.actor \in Acting("transfer") /\ Top.entry = "Forward"
      /\ answer = "none" /\ Kept
  BY DEF TransferActorForward, Running, Kept
<1>2. ForwardCall(Top)
  BY <1>1, TopKinds
<1>3. CASE operatorAddress[Top.actor] # Nobody /\ operatorAddress[Top.actor] = Top.from
  <2>1. /\ SendTransfer(calls, Top.actor, Top.target,
                        GetBalance(root, Top.actor), <<"Nothing">>)
        /\ operatorAddress' = operatorAddress /\ accepted' = accepted
    BY <1>3 DEF TransferActorForward
  <2>2. Top.actor \notin Acting("account") /\ Top.target \in ActorID /\ Sender(Top)
    BY <1>1, <1>2, Roles DEF ForwardCall, Sender
  <2>3. GetBalance(root, Top.actor) \in Int /\ <<"Nothing">> \in Actions
    BY GetBalanceNat, ReceiversAssumption DEF ReceiversIInv, GoodState, StateOK, state
  <2>4. ASSUME message.method = "Forward"
        PROVE  /\ Len(calls) = 1
               /\ Top.actor = message.actor
               /\ operatorAddress[message.actor] = message.caller
               /\ GetBalance(root, Top.actor) = GetBalance(root, message.actor)
    <3>1. ~HookCall(Top) /\ ~TokenCall(Top)
      BY <1>2, Entries
    <3>2. Len(calls) = 1 /\ Top = calls[1]
      BY <1>1, <3>1, TopKinds
    <3>3. QED
      BY <1>1, <1>3, <2>4, <3>2 DEF ReceiversIInv, Emptied
  <2>5. QED
    BY <1>1, <2>1, <2>2, <2>3, <2>4, TransferIsSent
<1>4. CASE ~(operatorAddress[Top.actor] # Nobody /\ operatorAddress[Top.actor] = Top.from)
  BY <1>1, <1>4 DEF TransferActorForward, Aborts
<1>5. QED
  BY <1>3, <1>4

\* A test actor that runs or goes on: what is on top, and what it may use.
LEMMA TestCall ==
    ASSUME ReceiversIInv, calls # <<>>,
           \/ Running(Acting("test"), "Receive")
           \/ Running(Acting("test"), "Action")
           \/ \E entry \in {"Receive", "Action"} : Resumed(entry)
    PROVE  /\ HookCall(Top) \/ ActionCall(Top)
           /\ Top.actor \in Acting("test") /\ Top.actor \in ActorID
           /\ Top.actor \notin Acting("account") /\ Top.actor \notin Acting("transfer")
           /\ Top.action \in Actions /\ Top.doomed \in BOOLEAN
           /\ Sender(Top)
           /\ InHand \in Int
<1>1. HookCall(Top) \/ ActionCall(Top)
  BY TopKinds DEF Running, Resumed
<1>2. Top.actor \in Acting("test")
  <2>1. CASE Running(Acting("test"), "Receive") \/ Running(Acting("test"), "Action")
    BY <2>1 DEF Running
  <2>2. CASE \E entry \in {"Receive", "Action"} : Resumed(entry)
    <3>1. TokenCall(Top) \/ Sender(Top)
      BY <2>2 DEF ReceiversIInv, TopOK, Resumed
    <3>2. QED
      BY <1>1, <3>1, Entries DEF Sender, ActionCall
  <2>3. QED
    BY <2>1, <2>2
<1>3. GetBalance(root, Top.actor) \in Int
  BY GetBalanceNat DEF ReceiversIInv, GoodState, StateOK, state
<1>4. Top.entry = "Receive" => Top.amount \in Int
  BY <1>1, Entries DEF HookCall
<1>5. InHand \in Int
  BY <1>3, <1>4 DEF InHand
<1>6. Top.action \in Actions /\ Top.doomed \in BOOLEAN
  BY <1>1 DEF HookCall, ActionCall
<1>7. QED
  BY <1>1, <1>2, <1>5, <1>6, Roles DEF Sender

\* It ends with the token in a state that moves nobody else's tokens.
LEMMA FinishStep ==
    ASSUME ReceiversIInv, calls # <<>>, Kept,
           HookCall(Top) \/ ActionCall(Top), Top.actor \in Acting("test"),
           Top.doomed \in BOOLEAN,
           NEW tok, StateOK(tok), SupplyMatches(tok),
           \A x \in ActorID : x # Top.actor => GetBalance(tok, x) = GetBalance(root, x),
           Finish(tok)
    PROVE  Returns \/ Aborts
<1>1. CASE Top.doomed
  BY <1>1 DEF Finish, Aborts
<1>2. CASE ~Top.doomed
  <2>1. Return /\ root' = tok /\ operatorAddress' = operatorAddress /\ accepted' = accepted
    BY <1>2 DEF Finish
  <2>2. GoodState(state')
    BY <2>1 DEF ReceiversIInv, GoodState, state
  <2>3. ASSUME message.method = "Forward" PROVE Settled(state')
    <3>1. Settled(state) /\ message.actor \in ActorID /\ message.actor # Top.actor
      BY <2>3, TestWhileForwarding, Roles
    <3>2. QED
      BY <2>1, <3>1 DEF Settled, state
  <2>4. QED
    BY <2>1, <2>2, <2>3 DEF Returns, Return
<1>3. QED
  BY <1>1, <1>2

LEMMA AcceptStep == ReceiversIInv /\ TestAccept => Returns \/ Aborts
<1> SUFFICES ASSUME ReceiversIInv, TestAccept PROVE Returns \/ Aborts
  OBVIOUS
<1>1. calls # <<>> /\ Kept
  BY DEF TestAccept, Doing, Running, Kept
<1>2. /\ HookCall(Top) \/ ActionCall(Top)
      /\ Top.actor \in Acting("test") /\ Top.doomed \in BOOLEAN
  BY <1>1, TestCall DEF TestAccept, Doing
<1>3. StateOK(root) /\ SupplyMatches(root)
  BY DEF ReceiversIInv, GoodState, state
<1>4. CASE Finish(root)
  BY <1>1, <1>2, <1>3, <1>4, FinishStep
<1>5. CASE Abort
  BY <1>1, <1>5 DEF Aborts
<1>6. QED
  BY <1>4, <1>5 DEF TestAccept

LEMMA RejectStep == TestReject => Aborts
  BY DEF TestReject, Doing, Running, Aborts, Kept

LEMMA BurnStep == ReceiversIInv /\ TestBurn => Returns \/ Aborts
<1> SUFFICES ASSUME ReceiversIInv, TestBurn PROVE Returns \/ Aborts
  OBVIOUS
<1> DEFINE r == Burn(Actors, IDAddress(Top.actor), InHand)
<1>1. calls # <<>> /\ Kept
  BY DEF TestBurn, Doing, Running, Kept
<1>2. /\ HookCall(Top) \/ ActionCall(Top)
      /\ Top.actor \in Acting("test") /\ Top.doomed \in BOOLEAN
      /\ Top.actor \in ActorID /\ InHand \in Int
  BY <1>1, TestCall DEF TestBurn, Doing
<1>3. WorldOK(Actors) /\ Actors.token = root
  BY TokenWorld DEF ReceiversIInv
<1>4. IDAddress(Top.actor) \in Address /\ IDAddress(Top.actor).actor = Top.actor
  BY <1>2, AnyIDAddress
<1>5. WorldOK(r.world)
  BY <1>2, <1>3, <1>4, BurnProper DEF Proper
<1>6. r.ok => Debited(root, r.world.token, Top.actor)
  BY <1>2, <1>3, <1>4, BurnDebits
<1>7. IF r.ok THEN Finish(r.world.token) ELSE Abort
  BY DEF TestBurn
<1> HIDE DEF r
<1>8. CASE r.ok
  <2>1. StateOK(r.world.token) /\ SupplyMatches(r.world.token)
    BY <1>5 DEF WorldOK
  <2>2. \A x \in ActorID :
           x # Top.actor => GetBalance(r.world.token, x) = GetBalance(root, x)
    BY <1>6, <1>8 DEF Debited
  <2>3. QED
    BY <1>1, <1>2, <1>7, <1>8, <2>1, <2>2, FinishStep
<1>9. CASE ~r.ok
  BY <1>1, <1>7, <1>9 DEF Aborts
<1>10. QED
  BY <1>8, <1>9

\* A call with another action is still the same call, and so is a doomed one.
LEMMA NewAction ==
    ASSUME NEW c, HookCall(c) \/ ActionCall(c), NEW data \in Actions
    PROVE  SameCall(c, [c EXCEPT !.action = data])
<1> DEFINE d == [c EXCEPT !.action = data]
<1>1. CASE HookCall(c)
  <2>1. d = [actor |-> c.actor, entry |-> "Receive", from |-> c.from,
             amount |-> c.amount, action |-> data, doomed |-> c.doomed,
             undo |-> c.undo]
    BY <1>1 DEF HookCall
  <2> HIDE DEF d
  <2>2. HookCall(d)
    BY <1>1, <2>1 DEF HookCall
  <2>3. SameCall(c, d)
    BY <1>1, <2>1, <2>2 DEF SameCall
  <2>4. QED
    BY <2>3 DEF d
<1>2. CASE ActionCall(c)
  <2>1. d = [actor |-> c.actor, entry |-> "Action", action |-> data,
             doomed |-> c.doomed, undo |-> c.undo]
    BY <1>2 DEF ActionCall
  <2> HIDE DEF d
  <2>2. ActionCall(d)
    BY <1>2, <2>1 DEF ActionCall
  <2>3. SameCall(c, d)
    BY <1>2, <2>1, <2>2 DEF SameCall
  <2>4. QED
    BY <2>3 DEF d
<1>3. QED
  BY <1>1, <1>2

LEMMA DoomedCall ==
    ASSUME NEW c, HookCall(c) \/ ActionCall(c)
    PROVE  SameCall(c, [c EXCEPT !.doomed = TRUE])
<1> DEFINE d == [c EXCEPT !.doomed = TRUE]
<1>1. CASE HookCall(c)
  <2>0. c = [actor |-> c.actor, entry |-> "Receive", from |-> c.from,
             amount |-> c.amount, action |-> c.action, doomed |-> c.doomed,
             undo |-> c.undo]
    BY <1>1 DEF HookCall
  <2>1. d = [actor |-> c.actor, entry |-> "Receive", from |-> c.from,
             amount |-> c.amount, action |-> c.action, doomed |-> TRUE,
             undo |-> c.undo]
    <3>1. ASSUME NEW x
          PROVE  [c EXCEPT !.doomed = x]
                  = [actor |-> c.actor, entry |-> "Receive", from |-> c.from,
                     amount |-> c.amount, action |-> c.action, doomed |-> x,
                     undo |-> c.undo]
      BY <2>0
    <3>2. QED
      BY <3>1, Zenon
  <2> HIDE DEF d
  <2>2. HookCall(d)
    BY <1>1, <2>1 DEF HookCall
  <2>3. SameCall(c, d)
    BY <1>1, <2>1, <2>2 DEF SameCall
  <2>4. QED
    BY <2>3 DEF d
<1>2. CASE ActionCall(c)
  <2>0. c = [actor |-> c.actor, entry |-> "Action", action |-> c.action,
             doomed |-> c.doomed, undo |-> c.undo]
    BY <1>2 DEF ActionCall
  <2>1. d = [actor |-> c.actor, entry |-> "Action", action |-> c.action,
             doomed |-> TRUE, undo |-> c.undo]
    <3>1. ASSUME NEW x
          PROVE  [c EXCEPT !.doomed = x]
                  = [actor |-> c.actor, entry |-> "Action", action |-> c.action,
                     doomed |-> x, undo |-> c.undo]
      BY <2>0
    <3>2. QED
      BY <3>1, Zenon
  <2> HIDE DEF d
  <2>2. ActionCall(d)
    BY <1>2, <2>1 DEF ActionCall
  <2>3. SameCall(c, d)
    BY <1>2, <2>1, <2>2 DEF SameCall
  <2>4. QED
    BY <2>3 DEF d
<1>3. QED
  BY <1>1, <1>2

LEMMA DoomedAction ==
    ASSUME NEW c, HookCall(c) \/ ActionCall(c), NEW data \in Actions
    PROVE  SameCall(c, [c EXCEPT !.doomed = TRUE, !.action = data])
<1> DEFINE d == [c EXCEPT !.doomed = TRUE]
           e == [d EXCEPT !.action = data]
<1>1. e = [c EXCEPT !.doomed = TRUE, !.action = data]
  OBVIOUS
<1>2. SameCall(c, d)
  BY DoomedCall
<1>3. HookCall(d) \/ ActionCall(d)
  BY <1>2 DEF SameCall
<1> HIDE DEF d
<1>4. SameCall(d, e)
  BY <1>3, NewAction
<1> HIDE DEF e
<1>5. SameCall(c, e)
  BY <1>2, <1>4, Entries DEF SameCall
<1>6. QED
  BY <1>1, <1>5

LEMMA ActionThenAbortStep == ReceiversIInv /\ TestActionThenAbort => Replaces
<1> SUFFICES ASSUME ReceiversIInv, TestActionThenAbort PROVE Replaces
  OBVIOUS
<1>1. /\ calls # <<>> /\ Kept /\ StateKept /\ answer = "none" /\ answer' = answer
      /\ Top.action[1] = "ActionThenAbort"
  BY DEF TestActionThenAbort, Doing, Running, Kept, StateKept
<1>2. /\ HookCall(Top) \/ ActionCall(Top)
      /\ Top.actor \in Acting("test") /\ Top.action \in Actions
  BY <1>1, TestCall DEF TestActionThenAbort, Doing
<1>3. Top.action[2] \in Actions
  BY <1>1, <1>2, ActionsAssumption
<1> DEFINE d == [Top EXCEPT !.doomed = TRUE, !.action = Top.action[2]]
<1>4. SameCall(Top, d)
  BY <1>2, <1>3, DoomedAction
<1>5. calls' = [calls EXCEPT ![Len(calls)] = d]
  BY DEF TestActionThenAbort, Top
<1> HIDE DEF d
<1>6. QED
  BY <1>1, <1>2, <1>4, <1>5 DEF Replaces

LEMMA TransferStep == ReceiversIInv /\ TestTransfer => Sends \/ Refuses
<1> SUFFICES ASSUME ReceiversIInv, TestTransfer PROVE Sends \/ Refuses
  OBVIOUS
<1>1. /\ calls # <<>> /\ Kept /\ answer = "none"
      /\ operatorAddress' = operatorAddress /\ accepted' = accepted
      /\ Top.action[1] \in {"Transfer", "TransferWithFallback"}
      /\ SendTransfer(calls, Top.actor, Top.action[2], InHand, Top.action[3])
  BY DEF TestTransfer, Doing, Running, Kept
<1>2. /\ HookCall(Top) \/ ActionCall(Top)
      /\ Top.actor \in Acting("test") /\ Top.action \in Actions
      /\ Top.actor \notin Acting("account")
      /\ Sender(Top) /\ InHand \in Int
  BY <1>1, TestCall DEF TestTransfer, Doing
<1>3. Top.action[2] \in ActorID /\ Top.action[3] \in Actions
  BY <1>1, <1>2, ActionsAssumption
<1>4. message.method = "Forward" => Settled(state) /\ Top.actor # message.actor
  BY <1>1, <1>2, TestWhileForwarding
<1>5. QED
  BY <1>1, <1>2, <1>3, <1>4, TransferIsSent

LEMMA ResumesStep == ReceiversIInv /\ TestResumes => Replaces \/ Returns \/ Aborts
<1> SUFFICES ASSUME ReceiversIInv, TestResumes PROVE Replaces \/ Returns \/ Aborts
  OBVIOUS
<1>1. calls # <<>> /\ Kept
  BY DEF TestResumes, Resumed, Kept
<1>2. /\ HookCall(Top) \/ ActionCall(Top)
      /\ Top.actor \in Acting("test") /\ Top.action \in Actions
      /\ Top.doomed \in BOOLEAN
  BY <1>1, TestCall DEF TestResumes
<1>3. CASE Top.action[1] = "TransferWithFallback" /\ answer = "abort"
  <2> DEFINE d == [Top EXCEPT !.action = Top.action[4]]
  <2>1. Top.action[4] \in Actions
    BY <1>2, <1>3, ActionsAssumption
  <2>2. SameCall(Top, d)
    BY <1>2, <2>1, NewAction
  <2>3. /\ calls' = [calls EXCEPT ![Len(calls)] = d]
        /\ answer' = "none" /\ StateKept
    BY <1>3 DEF TestResumes, Top, StateKept
  <2> HIDE DEF d
  <2>4. QED
    BY <1>1, <1>2, <1>3, <2>2, <2>3 DEF Replaces
<1>4. CASE ~(Top.action[1] = "TransferWithFallback" /\ answer = "abort")
  <2>1. Finish(root)
    BY <1>4 DEF TestResumes
  <2>2. StateOK(root) /\ SupplyMatches(root)
    BY DEF ReceiversIInv, GoodState, state
  <2>3. QED
    BY <1>1, <1>2, <2>1, <2>2, FinishStep
<1>5. QED
  BY <1>3, <1>4

\* A message to the token: the first hook is called, or nothing happens.
LEMMA TokenMessage ==
    ASSUME ReceiversIInv, calls = <<>>,
           operatorAddress' = operatorAddress, accepted' = accepted,
           message'.method # "Forward",
           NEW r, r.ok \in BOOLEAN, WorldOK(r.world),
           NEW caller \in ActorID, NEW to \in ActorID, NEW amount \in Int,
           NEW data \in Actions,
           r.ok => GetBalance(r.world.token, to) >= amount,
           SendTokens(<<>>, r, Hook(caller, to, amount, data))
    PROVE  Begins
<1>1. GoodState(state)
  BY DEF ReceiversIInv
<1>2. \/ \E t, h : HookIsCalled(<<>>, t, h)
      \/ root' = root /\ calls' = <<>> /\ answer' = "abort"
  BY <1>1, SendsTokens
<1>3. QED
  BY <1>2 DEF Begins, StateKept

LEMMA MintMessageStep ==
    ASSUME ReceiversIInv, NEW caller \in Acting("account"), NEW to \in ActorID,
           NEW amount \in Payments, NEW data \in Scripts,
           MintMessage(caller, to, amount, data)
    PROVE  Begins
<1> DEFINE r == Mint(Actors, IDAddress(caller), IDAddress(to), amount)
<1>1. caller \in ActorID /\ amount \in Int /\ data \in Actions
  BY Roles, ReceiversAssumption
<1>2. WorldOK(Actors)
  BY TokenWorld DEF ReceiversIInv
<1>3. /\ IDAddress(caller) \in Address
      /\ IDAddress(to) \in Address /\ IDAddress(to).actor = to
  BY <1>1, AnyIDAddress
<1>4. r.ok \in BOOLEAN /\ WorldOK(r.world)
  BY <1>1, <1>2, <1>3, MintProper DEF Proper
<1>5. r.ok => GetBalance(r.world.token, to) >= amount
  BY <1>1, <1>2, <1>3, MintCredits
<1>6. SendTokens(<<>>, r, Hook(caller, to, amount, data))
  BY DEF MintMessage
<1> HIDE DEF r
<1>7. /\ calls = <<>> /\ message'.method # "Forward"
      /\ operatorAddress' = operatorAddress /\ accepted' = accepted
  BY DEF MintMessage, Begin
<1>8. QED
  BY <1>1, <1>4, <1>5, <1>6, <1>7, TokenMessage

LEMMA TransferMessageStep ==
    ASSUME ReceiversIInv, NEW caller \in Acting("account"), NEW to \in ActorID,
           NEW amount \in Payments, NEW data \in Scripts,
           TransferMessage(caller, to, amount, data)
    PROVE  Begins
<1> DEFINE r == Transfer(Actors, IDAddress(caller), IDAddress(to), amount)
<1>1. caller \in ActorID /\ amount \in Int /\ data \in Actions
  BY Roles, ReceiversAssumption
<1>2. WorldOK(Actors)
  BY TokenWorld DEF ReceiversIInv
<1>3. /\ IDAddress(caller) \in Address
      /\ IDAddress(to) \in Address /\ IDAddress(to).actor = to
  BY <1>1, AnyIDAddress
<1>4. r.ok \in BOOLEAN /\ WorldOK(r.world)
  BY <1>1, <1>2, <1>3, TransferProper DEF Proper
<1>5. r.ok => GetBalance(r.world.token, to) >= amount
  BY <1>1, <1>2, <1>3, TransferFunds DEF Funded
<1>6. SendTokens(<<>>, r, Hook(caller, to, amount, data))
  BY DEF TransferMessage, SendTransfer
<1> HIDE DEF r
<1>7. /\ calls = <<>> /\ message'.method # "Forward"
      /\ operatorAddress' = operatorAddress /\ accepted' = accepted
  BY DEF TransferMessage, Begin
<1>8. QED
  BY <1>1, <1>4, <1>5, <1>6, <1>7, TokenMessage

LEMMA ActionMessageStep ==
    ASSUME ReceiversIInv, NEW caller \in Acting("account"),
           NEW actor \in Acting("test"), NEW data \in Scripts,
           ActionMessage(caller, actor, data)
    PROVE  Begins
<1> DEFINE c == [actor |-> actor, entry |-> "Action", action |-> data,
                 doomed |-> FALSE, undo |-> state]
<1>1. ActionCall(c) /\ c.undo = state /\ c.entry = "Action"
  BY ReceiversAssumption DEF ActionCall, ReceiversIInv
<1>2. CallMessage(caller, c)
  BY DEF ActionMessage
<1> HIDE DEF c
<1>3. QED
  BY <1>1, <1>2 DEF CallMessage, Begin, Begins, StateKept

LEMMA ForwardMessageStep ==
    ASSUME ReceiversIInv, NEW caller \in Acting("account"),
           NEW actor \in Acting("transfer"), NEW target \in ActorID,
           ForwardMessage(caller, actor, target)
    PROVE  Begins
<1> DEFINE c == [actor |-> actor, entry |-> "Forward", from |-> caller,
                 target |-> target, undo |-> state]
<1>1. ForwardCall(c) /\ c.undo = state /\ c.from = caller /\ c.actor = actor
  BY DEF ForwardCall, ReceiversIInv
<1>2. CallMessage(caller, c)
  BY DEF ForwardMessage
<1> HIDE DEF c
<1>3. QED
  BY <1>1, <1>2 DEF CallMessage, Begin, Begins, StateKept

LEMMA EveryStep == ReceiversIInv /\ ReceiversNext => AnyStep
<1> SUFFICES ASSUME ReceiversIInv, ReceiversNext PROVE AnyStep
  OBVIOUS
<1>1. CASE Message
  <2>1. PICK caller \in Acting("account") :
           \/ \E to \in ActorID, amount \in Payments, data \in Scripts :
                 \/ MintMessage(caller, to, amount, data)
                 \/ TransferMessage(caller, to, amount, data)
           \/ \E a \in Acting("test"), data \in Scripts : ActionMessage(caller, a, data)
           \/ \E a \in Acting("transfer"), target \in ActorID :
                 ForwardMessage(caller, a, target)
    BY <1>1 DEF Message
  <2>2. Begins
    BY <2>1, MintMessageStep, TransferMessageStep, ActionMessageStep,
       ForwardMessageStep
  <2>3. QED
    BY <2>2 DEF AnyStep
<1>2. CASE Execute
  BY <1>2, TokenStep, AccountStep, TransferActorStep, ForwardStep,
     ForwardResumesStep, AcceptStep, RejectStep, BurnStep, ActionThenAbortStep,
     TransferStep, ResumesStep DEF Execute, AnyStep
<1>3. QED
  BY <1>1, <1>2 DEF ReceiversNext

\* Every reachable state satisfies the inductive invariant.
THEOREM ReceiversInvariant == ReceiversSpec => []ReceiversIInv
<1>1. ReceiversInit => ReceiversIInv
  BY StartIInv
<1>2. ReceiversIInv /\ [ReceiversNext]_receiversVars => ReceiversIInv'
  <2> SUFFICES ASSUME ReceiversIInv, [ReceiversNext]_receiversVars
               PROVE  ReceiversIInv'
    OBVIOUS
  <2>1. CASE ReceiversNext
    <3>1. AnyStep
      BY <2>1, EveryStep
    <3>2. QED
      BY <3>1, ReturnsIInv, AbortsIInv, ReplacesIInv, SendsIInv, RefusesIInv,
         BeginsIInv DEF AnyStep
  <2>2. CASE UNCHANGED receiversVars
    BY <2>2 DEF receiversVars, ReceiversIInv, state, TopOK, Top, Emptied,
                Settled, Arrives
  <2>3. QED
    BY <2>1, <2>2
<1>3. QED
  BY <1>1, <1>2, PTL DEF ReceiversSpec

\* Whatever the receivers do in their hooks, the token's state and theirs keep
\* their types, and the supply is the sum of the balances between any two steps.
THEOREM ReceiversTypeCorrect == ReceiversSpec => []ReceiversOK
<1>1. ReceiversIInv => ReceiversOK
  BY DEF ReceiversIInv, GoodState, StateOK, state, ReceiversOK
<1>2. QED
  BY <1>1, ReceiversInvariant, PTL

\* While its hook runs a receiver can use what it was told it got, a fallback
\* after a rejected transfer included, however deep the calls are nested.
THEOREM HookFunded == ReceiversSpec => []HookIsFunded
<1>1. ReceiversIInv => HookIsFunded
  BY DEF ReceiversIInv, TopOK, Holds, HookIsFunded
<1>2. QED
  BY <1>1, ReceiversInvariant, PTL

\* A transfer actor never keeps tokens of two operators, also when the receipt
\* that bound it to the first one is undone by a caller that aborts.
THEOREM OneOperator == ReceiversSpec => []OneOperatorOnly
<1>1. ReceiversIInv => OneOperatorOnly
  BY DEF ReceiversIInv, GoodState, state, OneOperatorOnly
<1>2. QED
  BY <1>1, ReceiversInvariant, PTL

\* A Forward that succeeds was its first operator's and left nothing behind,
\* whatever the recipients it set off did with the tokens.
THEOREM ForwardCorrect == ReceiversSpec => []ForwardEmpties
<1>1. ReceiversIInv => ForwardEmpties
  BY DEF ReceiversIInv, Emptied, Settled, state, Ended, ForwardEmpties
<1>2. QED
  BY <1>1, ReceiversInvariant, PTL
=============================================================================
