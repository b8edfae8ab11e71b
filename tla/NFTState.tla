------------------------------ MODULE NFTState ------------------------------
(***************************************************************************)
(* NFTState of frc53_nft: the AMT of tokens, the HAMT of owners, the next  *)
(* token ID and the supply, and the operations that change them.           *)
(*                                                                         *)
(* Metadata is left out: mint stores it, transfer copies it, burn drops    *)
(* it, and nothing else reads it.  A predicate that the library passes     *)
(* down, to be checked against each token, is the set of the token data it *)
(* accepts.                                                                *)
(***************************************************************************)
EXTENDS ActorRuntime, Ipld, FiniteSets, Sequences

TokenID == Nat

TokenData == [owner : ActorID, operators : SUBSET ActorID]

OwnerData == [balance : Nat, operators : SUBSET ActorID]

IsNFTState(st) ==
    /\ st = [tokens |-> st.tokens, owners |-> st.owners,
             next   |-> st.next,   supply |-> st.supply]
    /\ st.next \in Nat
    /\ st.supply \in Nat
    /\ IsHamt(st.tokens, TokenID, TokenData)
    /\ IsHamt(st.owners, ActorID, OwnerData)

NewNFTState ==
    [tokens |-> EmptyHamt, owners |-> EmptyHamt, next |-> 0, supply |-> 0]

NoData == [balance |-> 0, operators |-> {}]

OwnerEntry(owners, a) == HamtGet(owners, a, NoData)

GetBalance(st, a) == OwnerEntry(st.owners, a).balance

OwnerOf(st, t) == st.tokens[t].owner

\* Mutant of StoreOwner: nothing is dropped.
StoreOwnerAlways(owners, a, data) == HamtSet(owners, a, data)

\* An owner's entry is dropped when it says nothing any more.
StoreOwner(owners, a, data) ==
    IF data = NoData THEN HamtDelete(owners, a) ELSE HamtSet(owners, a, data)

AddToBalance(owners, a, n) ==
    StoreOwner(owners, a, [OwnerEntry(owners, a) EXCEPT !.balance = @ + n])

-----------------------------------------------------------------------------
(* The predicates. *)

\* assert_owns_token
OwnedBy(a) == {data \in TokenData : data.owner = a}

\* is_account_operator; an owner without an entry is an error.
IsAccountOperator(st, owner, operator) ==
    operator \in OwnerEntry(st.owners, owner).operators

\* What an operator may take from an owner: everything if it is approved for
\* the account, else the tokens it is approved for.
Delegated(st, owner, operator) ==
    {data \in OwnedBy(owner) : \/ IsAccountOperator(st, owner, operator)
                               \/ operator \in data.operators}

\* Every token named exists and passes the predicate.
AllPass(st, ids, permitted) ==
    \A i \in DOMAIN ids : /\ ids[i] \in DOMAIN st.tokens
                          /\ st.tokens[ids[i]] \in permitted

Named(ids) == {ids[i] : i \in DOMAIN ids}

-----------------------------------------------------------------------------
(* The operations. *)

\* Tokens first, first + 1, ... become the owner's, whose entry is set even if
\* count is 0.
MintFrom(st, first, owner, count) ==
    LET new  == first .. (first + count - 1)
        data == [owner |-> owner, operators |-> {}]
        entry == [OwnerEntry(st.owners, owner) EXCEPT !.balance = @ + count]
        tokens == [t \in DOMAIN st.tokens \cup new |->
                      IF t \in new THEN data ELSE st.tokens[t]]
    IN  Ok([tokens |-> tokens,
            owners |-> HamtSet(st.owners, owner, entry),
            next   |-> st.next + count,
            supply |-> st.supply + count])

\* Mutant of MintTokens: numbers are given out by the supply.
MintTokensBySupply(st, owner, count) == MintFrom(st, st.supply, owner, count)

MintTokens(st, owner, count) == MintFrom(st, st.next, owner, count)

\* The loops of approve and revoke work on a copy of the array that a failure
\* drops; the predicate they are given looks at the owner, which they leave
\* alone, so a token named twice is the same as once.
SetOperators(st, ids, add, remove) ==
    LET data(t) == [st.tokens[t] EXCEPT !.operators = (@ \cup add) \ remove]
    IN  [st EXCEPT !.tokens =
            [t \in DOMAIN @ |-> IF t \in Named(ids) THEN data(t) ELSE @[t]]]

ApproveForTokens(st, operator, ids, permitted) ==
    IF AllPass(st, ids, permitted)
    THEN Ok(SetOperators(st, ids, {operator}, {}))
    ELSE Err(st)

RevokeForTokens(st, operator, ids, permitted) ==
    IF AllPass(st, ids, permitted)
    THEN Ok(SetOperators(st, ids, {}, {operator}))
    ELSE Err(st)

\* An owner without an entry gets one that lacks the operator.
ApproveForOwner(st, owner, operator) ==
    LET data == IF owner \in DOMAIN st.owners
                THEN [st.owners[owner] EXCEPT !.operators = @ \cup {operator}]
                ELSE NoData
    IN  Ok([st EXCEPT !.owners = HamtSet(@, owner, data)])

\* Mutant of RevokeForAll: the owner's tokens are not looked at.
RevokeForAllDropEntry(st, owner, operator) ==
    IF OwnerEntry(st.owners, owner).operators \subseteq {operator}
    THEN Ok([st EXCEPT !.owners = HamtDelete(@, owner)])
    ELSE Ok([st EXCEPT !.owners[owner].operators = @ \ {operator}])

RevokeForAll(st, owner, operator) ==
    LET data == [st.owners[owner] EXCEPT !.operators = @ \ {operator}]
    IN  IF owner \in DOMAIN st.owners
        THEN Ok([st EXCEPT !.owners = StoreOwner(@, owner, data)])
        ELSE Ok(st)

Burnt(st, owner, ids) ==
    [tokens |-> [t \in DOMAIN st.tokens \ Named(ids) |-> st.tokens[t]],
     owners |-> AddToBalance(st.owners, owner, -Len(ids)),
     next   |-> st.next,
     supply |-> st.supply - Len(ids)]

\* Mutant of BurnTokens: a token named twice counts twice.
BurnTokensTwice(st, owner, ids, permitted) ==
    IF ~AllPass(st, ids, permitted) \/ owner \notin DOMAIN st.owners
    THEN Err(st)
    ELSE Ok(Burnt(st, owner, ids))

\* Each token is deleted from the array as it is checked, so one named twice
\* is not found the second time.
BurnTokens(st, owner, ids, permitted) ==
    LET twice == \E i, j \in DOMAIN ids : i # j /\ ids[i] = ids[j]
    IN  IF twice \/ ~AllPass(st, ids, permitted) \/ owner \notin DOMAIN st.owners
        THEN Err(st)
        ELSE Ok(Burnt(st, owner, ids))

Transferable(st, t, permitted) ==
    /\ t \in DOMAIN st.tokens
    /\ st.tokens[t] \in permitted
    /\ OwnerOf(st, t) \in DOMAIN st.owners

\* Mutant of MakeTransfer: the token keeps its operators.
MakeTransferKeepOperators(st, t, receiver, permitted) ==
    LET debited == AddToBalance(st.owners, OwnerOf(st, t), -1)
    IN  IF ~Transferable(st, t, permitted)
        THEN Err(st)
        ELSE Ok([st EXCEPT !.tokens[t].owner = receiver,
                           !.owners = AddToBalance(debited, receiver, 1)])

\* Mutant of MakeTransfer: both owners' entries read before either is written.
MakeTransferReadFirst(st, t, receiver, permitted) ==
    LET debited == AddToBalance(st.owners, OwnerOf(st, t), -1)
        credit  == [OwnerEntry(st.owners, receiver) EXCEPT !.balance = @ + 1]
    IN  IF ~Transferable(st, t, permitted)
        THEN Err(st)
        ELSE Ok([st EXCEPT !.tokens[t] = [owner |-> receiver, operators |-> {}],
                           !.owners = HamtSet(debited, receiver, credit)])

MakeTransfer(st, t, receiver, permitted) ==
    LET data    == [owner |-> receiver, operators |-> {}]
        debited == AddToBalance(st.owners, OwnerOf(st, t), -1)
    IN  IF ~Transferable(st, t, permitted)
        THEN Err(st)
        ELSE Ok([tokens |-> [st.tokens EXCEPT ![t] = data],
                 owners |-> AddToBalance(debited, receiver, 1),
                 next   |-> st.next,
                 supply |-> st.supply])

\* One token after the other, each checked against what the ones before left:
\* a token named twice has lost its operators the second time.
TransferTokens(st, ids, receiver, permitted) ==
    LET upTo[i \in 0..Len(ids)] ==
          IF i = 0
          THEN Ok(st)
          ELSE AndThen(upTo[i - 1],
                       MakeTransfer(upTo[i - 1].st, ids[i], receiver, permitted))
    IN  upTo[Len(ids)]

-----------------------------------------------------------------------------
(* check_invariants, and what its counts mean. *)

TokensOwnedBy(st, a) == {t \in DOMAIN st.tokens : OwnerOf(st, t) = a}

\* The supply is the number of tokens, and every actor's balance, whether it
\* has an entry or not, is the number of tokens that name it as their owner.
CountsMatch(st) ==
    /\ st.supply = Cardinality(DOMAIN st.tokens)
    /\ \A a \in ActorID : GetBalance(st, a) = Cardinality(TokensOwnedBy(st, a))

\* A StateInvariantError is known by its variant and the owner whose entry it
\* complains about; one about the whole state is at Everybody.
Everybody == 0

Reports(error, owners) == {[error |-> error, at |-> a] : a \in owners}

\* Balances are compared entry by entry: a token whose owner has no entry is
\* not noticed.  Nothing is said of the operators.
CheckInvariants(st) ==
    UNION {Reports("TotalSupplyMismatch",
                   IF st.supply = Cardinality(DOMAIN st.tokens) THEN {} ELSE {Everybody}),
           Reports("TokenBalanceMismatch",
                   {a \in DOMAIN st.owners :
                        st.owners[a].balance # Cardinality(TokensOwnedBy(st, a))}),
           Reports("ExplicitEmptyOwner",
                   {a \in DOMAIN st.owners : st.owners[a] = NoData})}
=============================================================================
