----------------------------- MODULE FRC46State -----------------------------
(***************************************************************************)
(* TokenState of frc46_token: the total supply, the HAMT of balances and   *)
(* the HAMT of HAMTs of allowances, and the operations that change them.   *)
(*                                                                         *)
(* The methods mutate their receiver in place, and it is the caller that   *)
(* must discard a half-made change.                                        *)
(***************************************************************************)
EXTENDS ActorRuntime, Ipld

\* Amounts are stored only when they are not zero, and an owner's allowance
\* map only when it is not empty.
StoreAmount(m, k, v) == IF v = 0 THEN HamtDelete(m, k) ELSE HamtSet(m, k, v)

StoreMap(m, k, v) ==
    IF DOMAIN v = {} THEN HamtDelete(m, k) ELSE HamtSet(m, k, v)

-----------------------------------------------------------------------------
(* TokenState *)

IsTokenState(st) ==
    /\ st = [supply     |-> st.supply,
             balances   |-> st.balances,
             allowances |-> st.allowances]
    /\ st.supply \in Nat
    /\ IsHamt(st.balances, ActorID, Nat)
    /\ DOMAIN st.allowances \subseteq ActorID
    /\ \A a \in DOMAIN st.allowances : IsHamt(st.allowances[a], ActorID, Nat)

NewState == [supply |-> 0, balances |-> EmptyHamt, allowances |-> EmptyHamt]

GetBalance(st, owner) == HamtGet(st.balances, owner, 0)

GetAllowance(st, owner, operator) ==
    HamtGet(HamtGet(st.allowances, owner, EmptyHamt), operator, 0)

\* Mutant of ChangeBalanceBy: no check for a negative balance.
ChangeBalanceByUnchecked(st, owner, delta) ==
    Ok([st EXCEPT !.balances =
            StoreAmount(@, owner, GetBalance(st, owner) + delta)])

ChangeBalanceBy(st, owner, delta) ==
    LET new == GetBalance(st, owner) + delta
    IN  IF delta = 0 THEN Ok(st)
        ELSE IF new < 0 THEN Err(st)
        ELSE Ok([st EXCEPT !.balances = StoreAmount(@, owner, new)])

SetBalance(st, owner, amount) ==
    IF amount < 0
    THEN Err(st)
    ELSE Ok([st EXCEPT !.balances = StoreAmount(@, owner, amount)])

\* Mutant of MakeTransfer: both balances read before either is written.
MakeTransferReadFirst(st, from, to, amount) ==
    LET debit == ChangeBalanceBy(st, from, -amount)
    IN  AndThen(debit, SetBalance(debit.st, to, GetBalance(st, to) + amount))

MakeTransfer(st, from, to, amount) ==
    LET debit  == ChangeBalanceBy(st, from, -amount)
        credit == ChangeBalanceBy(debit.st, to, amount)
    IN  IF from = to
        THEN IF GetBalance(st, from) < amount THEN Err(st) ELSE Ok(st)
        ELSE AndThen(debit, credit)

ChangeSupplyBy(st, delta) ==
    IF st.supply + delta < 0
    THEN Err(st)
    ELSE Ok([st EXCEPT !.supply = @ + delta])

\* The allowance of one pair becomes amount, entry and map dropped if empty.
StoreAllowance(st, owner, operator, amount) ==
    LET ownerMap == HamtGet(st.allowances, owner, EmptyHamt)
    IN  [st EXCEPT !.allowances =
            StoreMap(@, owner, StoreAmount(ownerMap, operator, amount))]

\* Mutant of ChangeAllowanceBy: a decrease is not stopped at zero.
ChangeAllowanceByUnclamped(st, owner, operator, delta) ==
    Ok(StoreAllowance(st, owner, operator,
                      GetAllowance(st, owner, operator) + delta))

ChangeAllowanceBy(st, owner, operator, delta) ==
    LET sum == GetAllowance(st, owner, operator) + delta
        new == IF sum < 0 THEN 0 ELSE sum
    IN  IF \/ delta = 0
           \/ delta < 0 /\ owner \notin DOMAIN st.allowances
        THEN Ok(st)
        ELSE Ok(StoreAllowance(st, owner, operator, new))

\* Mutant of RevokeAllowance: the emptied map is stored.
RevokeAllowanceKeepMap(st, owner, operator) ==
    IF owner \in DOMAIN st.allowances
    THEN Ok([st EXCEPT !.allowances[owner] = StoreAmount(@, operator, 0)])
    ELSE Ok(st)

RevokeAllowance(st, owner, operator) ==
    IF owner \in DOMAIN st.allowances
    THEN Ok(StoreAllowance(st, owner, operator, 0))
    ELSE Ok(st)

SetAllowance(st, owner, operator, amount) ==
    IF amount < 0 THEN Err(st)
    ELSE IF amount = 0 THEN RevokeAllowance(st, owner, operator)
    ELSE Ok(StoreAllowance(st, owner, operator, amount))

\* Mutant of AttemptUseAllowance: any allowance is enough.
AttemptUseAllowanceAny(st, operator, owner, amount) ==
    IF GetAllowance(st, owner, operator) = 0
    THEN Err(st)
    ELSE ChangeAllowanceBy(st, owner, operator, -amount)

AttemptUseAllowance(st, operator, owner, amount) ==
    LET current == GetAllowance(st, owner, operator)
    IN  IF (current = 0 /\ operator # owner) \/ current < amount
        THEN Err(st)
        ELSE IF amount = 0
        THEN Ok(st)
        ELSE ChangeAllowanceBy(st, owner, operator, -amount)

-----------------------------------------------------------------------------
(* check_invariants, and the parts of what it demands. *)

\* The sum of f[1], ..., f[NumActors].
SumOf(f) ==
    LET upTo[i \in 0..NumActors] == IF i = 0 THEN 0 ELSE upTo[i - 1] + f[i]
    IN  upTo[NumActors]

BalanceOfEach(st) == [a \in ActorID |-> GetBalance(st, a)]

TotalBalance(st) == SumOf(BalanceOfEach(st))

SupplyMatches(st) == st.supply = TotalBalance(st)

NoExplicitZeros(st) ==
    /\ \A a \in DOMAIN st.balances : st.balances[a] # 0
    /\ \A a \in DOMAIN st.allowances :
          /\ DOMAIN st.allowances[a] # {}
          /\ \A b \in DOMAIN st.allowances[a] : st.allowances[a][b] # 0

BalancesWhole(st, granularity) ==
    \A a \in DOMAIN st.balances : st.balances[a] % granularity = 0

\* A StateInvariantError is known by its variant and the account whose entry
\* it complains about; one about the whole state is at Everybody.
Everybody == 0

Reports(error, accounts) == {[error |-> error, at |-> a] : a \in accounts}

CheckBalances(st, granularity) ==
    LET B == st.balances
    IN  UNION {Reports("BalanceNegative", {a \in DOMAIN B : B[a] < 0}),
               Reports("ExplicitZeroBalance", {a \in DOMAIN B : B[a] = 0}),
               Reports("InvalidGranularity",
                       {a \in DOMAIN B : B[a] % granularity # 0}),
               Reports("BalanceSupplyMismatch",
                       IF SupplyMatches(st) THEN {} ELSE {Everybody})}

CheckAllowances(st) ==
    LET A == st.allowances
        negative(a) == \E b \in DOMAIN A[a] : A[a][b] < 0
        zero(a)     == \E b \in DOMAIN A[a] : A[a][b] = 0
    IN  UNION {Reports("ExplicitEmptyAllowance", {a \in DOMAIN A : DOMAIN A[a] = {}}),
               Reports("ExplicitSelfAllowance", {a \in DOMAIN A : a \in DOMAIN A[a]}),
               Reports("NegativeAllowance", {a \in DOMAIN A : negative(a)}),
               Reports("ExplicitZeroAllowance", {a \in DOMAIN A : zero(a)})}

CheckInvariants(st, granularity) ==
    UNION {Reports("SupplyNegative", IF st.supply < 0 THEN {Everybody} ELSE {}),
           CheckBalances(st, granularity),
           CheckAllowances(st)}
=============================================================================
