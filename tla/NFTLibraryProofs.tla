--------------------------- MODULE NFTLibraryProofs ---------------------------
(***************************************************************************)
(* What the operations of NFTState and the methods of the NFT library      *)
(* keep, for any number of actors and tokens and batches of any length:    *)
(* the counts that check_invariants compares, the numbers already used,    *)
(* who may take a token and who may approve, and the entries of owners.    *)
(***************************************************************************)
EXTENDS NFTLibrary, FiniteSetTheorems, WellFoundedInduction, TLAPS

\* A typed state whose counts are right and whose tokens have used numbers.
StateOK(st) ==
    /\ IsNFTState(st)
    /\ DOMAIN st.tokens \subseteq 0..(st.next - 1)
    /\ CountsMatch(st)

\* Between two states no number of the past is given out again.
Fresh(st, new) ==
    /\ new.next >= st.next
    /\ \A t \in DOMAIN new.tokens : t \in DOMAIN st.tokens \/ t >= st.next

\* The tokens that went, or changed hands, were permitted ones.
Taken(st, new, permitted) ==
    \A t \in DOMAIN st.tokens :
        t \notin DOMAIN new.tokens \/ OwnerOf(new, t) # OwnerOf(st, t)
        => st.tokens[t] \in permitted

\* new may follow st.
Follows(st, new, permitted) ==
    StateOK(new) /\ Fresh(st, new) /\ Taken(st, new, permitted)

\* A good outcome of an operation on st.
Proper(st, r, permitted) ==
    r.ok \in BOOLEAN /\ (r.ok => Follows(st, r.st, permitted))

WorldOK(w) ==
    /\ w = [nft |-> w.nft, accts |-> w.accts]
    /\ StateOK(w.nft)
    /\ w.accts \subseteq ActorID

\* A good outcome of a method called in w.
Sound(w, r, permitted) ==
    /\ r.ok \in BOOLEAN
    /\ WorldOK(r.world)
    /\ r.ok => Follows(w.nft, r.world.nft, permitted)
    /\ ~r.ok => r.world.nft = w.nft

-----------------------------------------------------------------------------
(* Owners' entries. *)

LEMMA OwnerEntryType ==
    ASSUME NEW owners, IsHamt(owners, ActorID, OwnerData), NEW a
    PROVE  OwnerEntry(owners, a) \in OwnerData
  BY DEF IsHamt, OwnerEntry, HamtGet, NoData, OwnerData

\* Storing an entry changes what one owner's lookup gives, dropped or not.
LEMMA StoreOwnerProperties ==
    ASSUME NEW owners, IsHamt(owners, ActorID, OwnerData), NEW a \in ActorID,
           NEW data \in OwnerData
    PROVE  LET s == StoreOwner(owners, a, data)
           IN  /\ IsHamt(s, ActorID, OwnerData)
               /\ \A b : OwnerEntry(s, b) = IF b = a THEN data ELSE OwnerEntry(owners, b)
<1>1. CASE data = NoData
  <2>1. StoreOwner(owners, a, data) = [x \in DOMAIN owners \ {a} |-> owners[x]]
    BY <1>1 DEF StoreOwner, HamtDelete
  <2>2. QED
    BY <1>1, <2>1 DEF IsHamt, OwnerEntry, HamtGet
<1>2. CASE data # NoData
  <2>1. StoreOwner(owners, a, data)
          = [x \in DOMAIN owners \cup {a} |-> IF x = a THEN data ELSE owners[x]]
    BY <1>2 DEF StoreOwner, HamtSet
  <2>2. QED
    BY <1>2, <2>1 DEF IsHamt, OwnerEntry, HamtGet
<1>3. QED
  BY <1>1, <1>2

LEMMA SetOwnerProperties ==
    ASSUME NEW owners, IsHamt(owners, ActorID, OwnerData), NEW a \in ActorID,
           NEW data \in OwnerData
    PROVE  LET s == HamtSet(owners, a, data)
           IN  /\ IsHamt(s, ActorID, OwnerData)
               /\ \A b : OwnerEntry(s, b) = IF b = a THEN data ELSE OwnerEntry(owners, b)
<1>1. HamtSet(owners, a, data)
        = [x \in DOMAIN owners \cup {a} |-> IF x = a THEN data ELSE owners[x]]
  BY DEF HamtSet
<1>2. QED
  BY <1>1 DEF IsHamt, OwnerEntry, HamtGet

LEMMA AddToBalanceProperties ==
    ASSUME NEW owners, IsHamt(owners, ActorID, OwnerData), NEW a \in ActorID,
           NEW n \in Int, OwnerEntry(owners, a).balance + n >= 0
    PROVE  LET s == AddToBalance(owners, a, n)
           IN  /\ IsHamt(s, ActorID, OwnerData)
               /\ \A b : OwnerEntry(s, b).balance
                           = IF b = a THEN OwnerEntry(owners, a).balance + n
                             ELSE OwnerEntry(owners, b).balance
<1> DEFINE old  == OwnerEntry(owners, a)
           data == [old EXCEPT !.balance = @ + n]
<1>1. old \in OwnerData /\ \A b : OwnerEntry(owners, b).balance \in Nat
  BY OwnerEntryType DEF OwnerData
<1>2. data \in OwnerData /\ data.balance = old.balance + n
  BY <1>1 DEF OwnerData
<1>3. AddToBalance(owners, a, n) = StoreOwner(owners, a, data)
  BY DEF AddToBalance
<1> HIDE DEF data
<1>4. /\ IsHamt(StoreOwner(owners, a, data), ActorID, OwnerData)
      /\ \A b : OwnerEntry(StoreOwner(owners, a, data), b)
                  = IF b = a THEN data ELSE OwnerEntry(owners, b)
  BY <1>2, StoreOwnerProperties
<1>5. QED
  BY <1>1, <1>2, <1>3, <1>4

\* No entry comes to say nothing, and operators stay as they are.
Tidy(owners, new) ==
    /\ \A a \in DOMAIN new :
          new[a] = NoData => a \in DOMAIN owners /\ owners[a] = NoData
    /\ \A a : OwnerEntry(new, a).operators = OwnerEntry(owners, a).operators

LEMMA TidyTransitive ==
    ASSUME NEW o, NEW p, NEW q, Tidy(o, p), Tidy(p, q)
    PROVE  Tidy(o, q)
  BY DEF Tidy

\* StoreOwner drops an entry rather than let it say nothing.
LEMMA StoreOwnerDrops ==
    ASSUME NEW owners, NEW a, NEW data, NEW b \in DOMAIN StoreOwner(owners, a, data),
           StoreOwner(owners, a, data)[b] = NoData
    PROVE  b \in DOMAIN owners /\ owners[b] = NoData
<1>1. CASE data = NoData
  BY <1>1 DEF StoreOwner, HamtDelete
<1>2. CASE data # NoData
  BY <1>2 DEF StoreOwner, HamtSet
<1>3. QED
  BY <1>1, <1>2

LEMMA AddToBalanceTidy ==
    ASSUME NEW owners, IsHamt(owners, ActorID, OwnerData), NEW a \in ActorID,
           NEW n \in Int, OwnerEntry(owners, a).balance + n >= 0
    PROVE  Tidy(owners, AddToBalance(owners, a, n))
<1> DEFINE old  == OwnerEntry(owners, a)
           data == [old EXCEPT !.balance = @ + n]
<1>1. old \in OwnerData
  BY OwnerEntryType
<1>2. data \in OwnerData /\ data.operators = old.operators
  BY <1>1 DEF OwnerData
<1>3. AddToBalance(owners, a, n) = StoreOwner(owners, a, data)
  BY DEF AddToBalance
<1> HIDE DEF data
<1>4. \A b : OwnerEntry(StoreOwner(owners, a, data), b)
               = IF b = a THEN data ELSE OwnerEntry(owners, b)
  BY <1>2, StoreOwnerProperties
<1>5. QED
  BY <1>2, <1>3, <1>4, StoreOwnerDrops DEF Tidy

-----------------------------------------------------------------------------
(* Tokens and counts. *)

LEMMA StateFields ==
    ASSUME NEW st, StateOK(st)
    PROVE  /\ st = [tokens |-> st.tokens, owners |-> st.owners,
                    next   |-> st.next,   supply |-> st.supply]
           /\ st.next \in Nat /\ st.supply \in Nat
           /\ DOMAIN st.tokens \subseteq Nat
           /\ st.tokens \in [DOMAIN st.tokens -> TokenData]
           /\ IsHamt(st.owners, ActorID, OwnerData)
           /\ \A t \in DOMAIN st.tokens : st.tokens[t] \in TokenData
           /\ \A a : GetBalance(st, a) \in Nat
<1>1. IsHamt(st.owners, ActorID, OwnerData)
  BY DEF StateOK, IsNFTState
<1>2. \A a : GetBalance(st, a) \in Nat
  BY <1>1, OwnerEntryType DEF GetBalance, OwnerData
<1>3. QED
  BY <1>1, <1>2 DEF StateOK, IsNFTState, IsHamt, TokenID

LEMMA TokensFinite ==
    ASSUME NEW st, StateOK(st)
    PROVE  /\ IsFiniteSet(DOMAIN st.tokens)
           /\ \A a : /\ TokensOwnedBy(st, a) \subseteq DOMAIN st.tokens
                     /\ IsFiniteSet(TokensOwnedBy(st, a))
                     /\ Cardinality(TokensOwnedBy(st, a)) \in Nat
<1>1. st.next \in Nat
  BY StateFields
<1>2. IsFiniteSet(0..(st.next - 1))
  BY <1>1, FS_Interval
<1>3. IsFiniteSet(DOMAIN st.tokens)
  BY <1>2, FS_Subset DEF StateOK
<1>4. ASSUME NEW a
      PROVE  /\ TokensOwnedBy(st, a) \subseteq DOMAIN st.tokens
             /\ IsFiniteSet(TokensOwnedBy(st, a))
             /\ Cardinality(TokensOwnedBy(st, a)) \in Nat
  <2>1. TokensOwnedBy(st, a) \subseteq DOMAIN st.tokens
    BY DEF TokensOwnedBy
  <2>2. IsFiniteSet(TokensOwnedBy(st, a))
    BY <1>3, <2>1, FS_Subset
  <2>3. QED
    BY <2>1, <2>2, FS_CardinalityType
<1>5. QED
  BY <1>3, <1>4

\* A state that differs in operators only.
LEMMA SameOwnersFollow ==
    ASSUME NEW st, StateOK(st), NEW new, IsNFTState(new), NEW permitted,
           DOMAIN new.tokens = DOMAIN st.tokens,
           \A t \in DOMAIN st.tokens : OwnerOf(new, t) = OwnerOf(st, t),
           \A a \in ActorID : GetBalance(new, a) = GetBalance(st, a),
           new.next = st.next, new.supply = st.supply
    PROVE  Follows(st, new, permitted)
<1>1. \A a : TokensOwnedBy(new, a) = TokensOwnedBy(st, a)
  BY DEF TokensOwnedBy
<1>2. CountsMatch(new)
  BY <1>1 DEF StateOK, CountsMatch
<1>3. StateOK(new)
  BY <1>2 DEF StateOK
<1>4. st.next \in Nat
  BY StateFields
<1>5. Fresh(st, new) /\ Taken(st, new, permitted)
  BY <1>4 DEF Fresh, Taken
<1>6. QED
  BY <1>3, <1>5 DEF Follows

\* When every count matches, check_invariants reports empty entries at most.
LEMMA OnlyEmptyOwners ==
    ASSUME NEW st, IsNFTState(st), CountsMatch(st), NEW e \in CheckInvariants(st)
    PROVE  e.error = "ExplicitEmptyOwner"
<1>1. Reports("TotalSupplyMismatch",
              IF st.supply = Cardinality(DOMAIN st.tokens) THEN {} ELSE {Everybody}) = {}
  BY DEF CountsMatch, Reports
<1>2. ASSUME NEW a \in DOMAIN st.owners
      PROVE  st.owners[a].balance = Cardinality(TokensOwnedBy(st, a))
  BY <1>2 DEF CountsMatch, IsNFTState, IsHamt, GetBalance, OwnerEntry, HamtGet
<1>3. Reports("TokenBalanceMismatch",
              {a \in DOMAIN st.owners :
                   st.owners[a].balance # Cardinality(TokensOwnedBy(st, a))}) = {}
  BY <1>2 DEF Reports
<1>4. e \in Reports("ExplicitEmptyOwner", {a \in DOMAIN st.owners : st.owners[a] = NoData})
  BY <1>1, <1>3 DEF CheckInvariants
<1>5. QED
  BY <1>4 DEF Reports

LEMMA NewStateOK == StateOK(NewNFTState)
<1> DEFINE st == NewNFTState
<1>1. st.tokens = EmptyHamt /\ st.owners = EmptyHamt /\ st.next = 0 /\ st.supply = 0
  BY DEF NewNFTState
<1>2. DOMAIN EmptyHamt = {}
  BY DEF EmptyHamt
<1>3. IsNFTState(st)
  BY <1>1, <1>2 DEF NewNFTState, IsNFTState, IsHamt
<1>4. \A a : GetBalance(st, a) = 0
  BY <1>1, <1>2 DEF GetBalance, OwnerEntry, HamtGet, NoData
<1>5. \A a : TokensOwnedBy(st, a) = {}
  BY <1>1, <1>2 DEF TokensOwnedBy
<1>6. CountsMatch(st)
  BY <1>1, <1>2, <1>4, <1>5, FS_EmptySet DEF CountsMatch
<1>7. QED
  BY <1>1, <1>2, <1>3, <1>6 DEF StateOK

-----------------------------------------------------------------------------
(* Minting. *)

LEMMA MintFollows ==
    ASSUME NEW st, StateOK(st), NEW owner \in ActorID, NEW count \in Nat,
           NEW permitted
    PROVE  LET r == MintTokens(st, owner, count)
           IN  r.ok /\ Follows(st, r.st, permitted)
<1> DEFINE fresh  == st.next .. (st.next + count - 1)
           data   == [owner |-> owner, operators |-> {}]
           tokens == [t \in DOMAIN st.tokens \cup fresh |->
                         IF t \in fresh THEN data ELSE st.tokens[t]]
           entry  == [OwnerEntry(st.owners, owner) EXCEPT !.balance = @ + count]
           owners == HamtSet(st.owners, owner, entry)
           new    == [tokens |-> tokens, owners |-> owners,
                      next |-> st.next + count, supply |-> st.supply + count]
<1>1. /\ st = [tokens |-> st.tokens, owners |-> st.owners,
               next |-> st.next, supply |-> st.supply]
      /\ st.next \in Nat /\ st.supply \in Nat
      /\ IsHamt(st.owners, ActorID, OwnerData)
      /\ \A t \in DOMAIN st.tokens : st.tokens[t] \in TokenData
      /\ DOMAIN st.tokens \subseteq 0..(st.next - 1)
  BY StateFields DEF StateOK
<1>2. MintTokens(st, owner, count) = Ok(new)
  BY DEF MintTokens, MintFrom
<1>3. /\ IsFiniteSet(fresh) /\ Cardinality(fresh) = count
      /\ DOMAIN st.tokens \cap fresh = {}
      /\ fresh \subseteq st.next..(st.next + count - 1)
  <2>1. st.next \in Int /\ st.next + count - 1 \in Int
    BY <1>1
  <2>2. /\ IsFiniteSet(fresh)
        /\ Cardinality(fresh) = IF st.next > st.next + count - 1
                               THEN 0 ELSE (st.next + count - 1) - st.next + 1
    BY <2>1, FS_Interval
  <2>3. Cardinality(fresh) = count
    BY <1>1, <2>2
  <2>4. DOMAIN st.tokens \cap fresh = {}
    BY <1>1
  <2>5. QED
    BY <2>2, <2>3, <2>4
<1>4. \A t \in fresh : t \in Nat /\ t >= st.next /\ t <= st.next + count - 1
  BY <1>1
<1> HIDE DEF fresh
<1>5. data \in TokenData /\ data.owner = owner
  BY DEF TokenData
<1> HIDE DEF data
<1>6. /\ DOMAIN tokens = DOMAIN st.tokens \cup fresh
      /\ \A t \in fresh : tokens[t] = data
      /\ \A t \in DOMAIN st.tokens : tokens[t] = st.tokens[t]
      /\ IsHamt(tokens, TokenID, TokenData)
  BY <1>1, <1>3, <1>4, <1>5 DEF IsHamt, TokenID
<1> HIDE DEF tokens
<1>7. OwnerEntry(st.owners, owner) \in OwnerData
  BY <1>1, OwnerEntryType
<1>8. entry \in OwnerData /\ entry.balance = GetBalance(st, owner) + count
  BY <1>7 DEF OwnerData, GetBalance
<1> HIDE DEF entry
<1>9. /\ IsHamt(owners, ActorID, OwnerData)
      /\ \A b : OwnerEntry(owners, b) = IF b = owner THEN entry
                                        ELSE OwnerEntry(st.owners, b)
  BY <1>1, <1>8, SetOwnerProperties
<1> HIDE DEF owners
<1>10. /\ new.tokens = tokens /\ new.owners = owners
       /\ new.next = st.next + count /\ new.supply = st.supply + count
       /\ new = [tokens |-> new.tokens, owners |-> new.owners,
                 next |-> new.next, supply |-> new.supply]
  OBVIOUS
<1> HIDE DEF new
<1>11. IsNFTState(new)
  BY <1>1, <1>6, <1>9, <1>10 DEF IsNFTState
<1>12. DOMAIN new.tokens \subseteq 0..(new.next - 1)
  BY <1>1, <1>4, <1>6, <1>10
<1>13. CountsMatch(new)
  <2>1. new.supply = Cardinality(DOMAIN new.tokens)
    <3>1. /\ Cardinality(DOMAIN st.tokens \cup fresh)
               = Cardinality(DOMAIN st.tokens) + Cardinality(fresh)
                   - Cardinality(DOMAIN st.tokens \cap fresh)
          /\ Cardinality(DOMAIN st.tokens \cap fresh) = 0
      BY <1>3, TokensFinite, FS_Union, FS_EmptySet
    <3>2. st.supply = Cardinality(DOMAIN st.tokens)
      BY DEF StateOK, CountsMatch
    <3>3. QED
      BY <1>1, <1>3, <1>6, <1>10, <3>1, <3>2
  <2>2. ASSUME NEW a \in ActorID
        PROVE  GetBalance(new, a) = Cardinality(TokensOwnedBy(new, a))
    <3>1. GetBalance(st, a) = Cardinality(TokensOwnedBy(st, a))
      BY DEF StateOK, CountsMatch
    <3>2. CASE a # owner
      <4>1. TokensOwnedBy(new, a) = TokensOwnedBy(st, a)
        BY <1>3, <1>5, <1>6, <1>10, <3>2 DEF TokensOwnedBy, OwnerOf
      <4>2. GetBalance(new, a) = GetBalance(st, a)
        BY <1>9, <1>10, <3>2 DEF GetBalance
      <4>3. QED
        BY <3>1, <4>1, <4>2
    <3>3. CASE a = owner
      <4> DEFINE mine == TokensOwnedBy(st, a)
      <4>1. TokensOwnedBy(new, a) = mine \cup fresh
        BY <1>3, <1>5, <1>6, <1>10, <3>3 DEF TokensOwnedBy, OwnerOf
      <4>2. IsFiniteSet(mine) /\ mine \cap fresh = {} /\ Cardinality(mine) \in Nat
        BY <1>3, TokensFinite
      <4> HIDE DEF mine
      <4>3. /\ Cardinality(mine \cup fresh)
                 = Cardinality(mine) + Cardinality(fresh) - Cardinality(mine \cap fresh)
            /\ Cardinality(mine \cap fresh) = 0
        BY <1>3, <4>2, FS_Union, FS_EmptySet
      <4>4. GetBalance(new, a) = GetBalance(st, a) + count
        BY <1>8, <1>9, <1>10, <3>3 DEF GetBalance
      <4>5. QED
        BY <1>3, <3>1, <4>1, <4>2, <4>3, <4>4 DEF mine
    <3>4. QED
      BY <3>2, <3>3
  <2>3. QED
    BY <2>1, <2>2 DEF CountsMatch
<1>14. Fresh(st, new) /\ Taken(st, new, permitted)
  BY <1>1, <1>4, <1>6, <1>10 DEF Fresh, Taken, OwnerOf
<1>15. QED
  BY <1>2, <1>11, <1>12, <1>13, <1>14 DEF Ok, Follows, StateOK

-----------------------------------------------------------------------------
(* Operators. *)

LEMMA SetOperatorsFollows ==
    ASSUME NEW st, StateOK(st), NEW ids, NEW add \in SUBSET ActorID, NEW remove,
           NEW permitted
    PROVE  Follows(st, SetOperators(st, ids, add, remove), permitted)
<1> DEFINE data(t) == [st.tokens[t] EXCEPT !.operators = (@ \cup add) \ remove]
           tokens == [t \in DOMAIN st.tokens |->
                         IF t \in Named(ids) THEN data(t) ELSE st.tokens[t]]
           new == SetOperators(st, ids, add, remove)
<1>1. /\ st = [tokens |-> st.tokens, owners |-> st.owners,
               next |-> st.next, supply |-> st.supply]
      /\ st.next \in Nat /\ st.supply \in Nat
      /\ IsHamt(st.owners, ActorID, OwnerData)
      /\ DOMAIN st.tokens \subseteq Nat
      /\ \A t \in DOMAIN st.tokens : st.tokens[t] \in TokenData
  BY StateFields
<1>2. \A t \in DOMAIN st.tokens : /\ data(t) \in TokenData
                                  /\ data(t).owner = OwnerOf(st, t)
  BY <1>1 DEF TokenData, OwnerOf
<1>3. new = [tokens |-> tokens, owners |-> st.owners,
             next |-> st.next, supply |-> st.supply]
  BY <1>1 DEF SetOperators
<1> HIDE DEF data, new
<1>4. /\ DOMAIN tokens = DOMAIN st.tokens
      /\ IsHamt(tokens, TokenID, TokenData)
      /\ \A t \in DOMAIN st.tokens : tokens[t].owner = OwnerOf(st, t)
  BY <1>1, <1>2 DEF IsHamt, TokenID, OwnerOf
<1> HIDE DEF tokens
<1>5. /\ new.tokens = tokens /\ new.owners = st.owners
      /\ new.next = st.next /\ new.supply = st.supply
  BY <1>3
<1>6. IsNFTState(new)
  BY <1>1, <1>3, <1>4, <1>5 DEF IsNFTState
<1>7. \A t \in DOMAIN st.tokens : OwnerOf(new, t) = OwnerOf(st, t)
  BY <1>4, <1>5 DEF OwnerOf
<1>8. \A a \in ActorID : GetBalance(new, a) = GetBalance(st, a)
  BY <1>5 DEF GetBalance
<1>9. QED
  BY <1>4, <1>5, <1>6, <1>7, <1>8, SameOwnersFollow DEF new

LEMMA ApproveProper ==
    ASSUME NEW st, StateOK(st), NEW operator \in ActorID, NEW ids, NEW accept,
           NEW permitted
    PROVE  Proper(st, ApproveForTokens(st, operator, ids, accept), permitted)
<1>1. Follows(st, SetOperators(st, ids, {operator}, {}), permitted)
  BY SetOperatorsFollows
<1>2. QED
  BY <1>1 DEF ApproveForTokens, Ok, Err, Proper

LEMMA RevokeProper ==
    ASSUME NEW st, StateOK(st), NEW operator \in ActorID, NEW ids, NEW accept,
           NEW permitted
    PROVE  Proper(st, RevokeForTokens(st, operator, ids, accept), permitted)
<1>1. Follows(st, SetOperators(st, ids, {}, {operator}), permitted)
  BY SetOperatorsFollows
<1>2. QED
  BY <1>1 DEF RevokeForTokens, Ok, Err, Proper

\* A state with other owners' entries that say the same balances.
LEMMA SameBalancesFollow ==
    ASSUME NEW st, StateOK(st), NEW owners, IsHamt(owners, ActorID, OwnerData),
           \A a \in ActorID : OwnerEntry(owners, a).balance = GetBalance(st, a),
           NEW permitted
    PROVE  Follows(st, [st EXCEPT !.owners = owners], permitted)
<1> DEFINE new == [tokens |-> st.tokens, owners |-> owners,
                   next |-> st.next, supply |-> st.supply]
<1>1. /\ st = [tokens |-> st.tokens, owners |-> st.owners,
               next |-> st.next, supply |-> st.supply]
      /\ IsNFTState(st)
  BY DEF StateOK, IsNFTState
<1>2. [st EXCEPT !.owners = owners] = new
  BY <1>1
<1>3. IsNFTState(new)
  BY <1>1 DEF IsNFTState
<1>4. \A a \in ActorID : GetBalance(new, a) = GetBalance(st, a)
  BY DEF GetBalance
<1>5. \A t : OwnerOf(new, t) = OwnerOf(st, t)
  BY DEF OwnerOf
<1>6. new.tokens = st.tokens /\ new.next = st.next /\ new.supply = st.supply
  OBVIOUS
<1> HIDE DEF new
<1>7. QED
  BY <1>2, <1>3, <1>4, <1>5, <1>6, SameOwnersFollow

LEMMA ApproveForOwnerProper ==
    ASSUME NEW st, StateOK(st), NEW owner \in ActorID, NEW operator \in ActorID,
           NEW permitted
    PROVE  Proper(st, ApproveForOwner(st, owner, operator), permitted)
<1> DEFINE data == IF owner \in DOMAIN st.owners
                   THEN [st.owners[owner] EXCEPT !.operators = @ \cup {operator}]
                   ELSE NoData
           owners == HamtSet(st.owners, owner, data)
<1>1. IsHamt(st.owners, ActorID, OwnerData)
  BY StateFields
<1>2. data \in OwnerData /\ data.balance = GetBalance(st, owner)
  BY <1>1 DEF IsHamt, OwnerData, NoData, GetBalance, OwnerEntry, HamtGet
<1> HIDE DEF data
<1>3. /\ IsHamt(owners, ActorID, OwnerData)
      /\ \A b : OwnerEntry(owners, b) = IF b = owner THEN data
                                        ELSE OwnerEntry(st.owners, b)
  BY <1>1, <1>2, SetOwnerProperties
<1>4. Follows(st, [st EXCEPT !.owners = owners], permitted)
  BY <1>2, <1>3, SameBalancesFollow DEF GetBalance
<1>5. ApproveForOwner(st, owner, operator) = Ok([st EXCEPT !.owners = owners])
  BY DEF ApproveForOwner, data, StateOK, IsNFTState
<1>6. QED
  BY <1>4, <1>5 DEF Ok, Proper

LEMMA RevokeForAllProper ==
    ASSUME NEW st, StateOK(st), NEW owner \in ActorID, NEW operator \in ActorID,
           NEW permitted
    PROVE  Proper(st, RevokeForAll(st, owner, operator), permitted)
<1> DEFINE data == [st.owners[owner] EXCEPT !.operators = @ \ {operator}]
           owners == StoreOwner(st.owners, owner, data)
<1>1. IsHamt(st.owners, ActorID, OwnerData)
  BY StateFields
<1>2. CASE owner \in DOMAIN st.owners
  <2>1. data \in OwnerData /\ data.balance = GetBalance(st, owner)
    BY <1>1, <1>2 DEF IsHamt, OwnerData, GetBalance, OwnerEntry, HamtGet
  <2> HIDE DEF data
  <2>2. /\ IsHamt(owners, ActorID, OwnerData)
        /\ \A b : OwnerEntry(owners, b) = IF b = owner THEN data
                                          ELSE OwnerEntry(st.owners, b)
    BY <1>1, <2>1, StoreOwnerProperties
  <2>3. Follows(st, [st EXCEPT !.owners = owners], permitted)
    BY <2>1, <2>2, SameBalancesFollow DEF GetBalance
  <2>4. RevokeForAll(st, owner, operator) = Ok([st EXCEPT !.owners = owners])
    BY <1>2 DEF RevokeForAll, data, StateOK, IsNFTState
  <2>5. QED
    BY <2>3, <2>4 DEF Ok, Proper
<1>3. CASE owner \notin DOMAIN st.owners
  <2>1. Follows(st, st, permitted)
    BY SameOwnersFollow DEF StateOK
  <2>2. QED
    BY <1>3, <2>1 DEF RevokeForAll, Ok, Proper
<1>4. QED
  BY <1>2, <1>3

-----------------------------------------------------------------------------
(* Burning. *)

\* A list that names no token twice names as many as it is long.
LEMMA NamedCount ==
    ASSUME NEW ids \in Seq(TokenID), \A i, j \in DOMAIN ids : ids[i] = ids[j] => i = j
    PROVE  IsFiniteSet(Named(ids)) /\ Cardinality(Named(ids)) = Len(ids)
<1> DEFINE n == Len(ids)
<1>1. n \in Nat /\ DOMAIN ids = 1..n /\ ids = [i \in 1..n |-> ids[i]]
  OBVIOUS
<1>2. ids \in [1..n -> Named(ids)]
  BY <1>1 DEF Named
<1>3. ids \in Injection(1..n, Named(ids))
  BY <1>1, <1>2 DEF Injection, IsInjective
<1>4. ids \in Surjection(1..n, Named(ids))
  BY <1>1, <1>2 DEF Surjection, Named
<1>5. ExistsBijection(1..n, Named(ids))
  BY <1>3, <1>4 DEF ExistsBijection, Bijection
<1>6. IsFiniteSet(1..n) /\ Cardinality(1..n) = n
  <2>1. 1 \in Int /\ n \in Int
    BY <1>1
  <2>2. IsFiniteSet(1..n) /\ Cardinality(1..n) = IF 1 > n THEN 0 ELSE n - 1 + 1
    BY <2>1, FS_Interval
  <2>3. QED
    BY <1>1, <2>2
<1>7. QED
  BY <1>5, <1>6, FS_Bijection

LEMMA BurnProper ==
    ASSUME NEW st, StateOK(st), NEW owner \in ActorID, NEW ids \in Seq(TokenID),
           NEW permitted, permitted \subseteq OwnedBy(owner)
    PROVE  Proper(st, BurnTokens(st, owner, ids, permitted), permitted)
<1> DEFINE gone   == Named(ids)
           n      == Len(ids)
           mine   == TokensOwnedBy(st, owner)
           tokens == [t \in DOMAIN st.tokens \ gone |-> st.tokens[t]]
           owners == AddToBalance(st.owners, owner, -n)
           new    == Burnt(st, owner, ids)
<1> SUFFICES ASSUME ~(\E i, j \in DOMAIN ids : i # j /\ ids[i] = ids[j]),
                    AllPass(st, ids, permitted)
             PROVE  Follows(st, new, permitted)
  BY DEF BurnTokens, Ok, Err, Proper
<1>1. /\ st.next \in Nat /\ st.supply \in Nat
      /\ IsHamt(st.owners, ActorID, OwnerData)
      /\ DOMAIN st.tokens \subseteq Nat
      /\ DOMAIN st.tokens \subseteq 0..(st.next - 1)
      /\ \A t \in DOMAIN st.tokens : st.tokens[t] \in TokenData
  BY StateFields DEF StateOK
<1>2. IsFiniteSet(gone) /\ Cardinality(gone) = n
  BY NamedCount
<1>3. n \in Nat
  OBVIOUS
<1>4. gone \subseteq mine /\ \A t \in gone : t \in DOMAIN st.tokens /\ st.tokens[t] \in permitted
  BY DEF Named, AllPass, TokensOwnedBy, OwnerOf, OwnedBy
<1>5. new = [tokens |-> tokens, owners |-> owners,
             next |-> st.next, supply |-> st.supply - n]
  BY DEF Burnt
<1> HIDE DEF gone, n, new
<1>6. /\ DOMAIN tokens = DOMAIN st.tokens \ gone
      /\ \A t \in DOMAIN st.tokens \ gone : tokens[t] = st.tokens[t]
      /\ IsHamt(tokens, TokenID, TokenData)
  BY <1>1 DEF IsHamt, TokenID
<1> HIDE DEF tokens
<1>7. /\ IsFiniteSet(DOMAIN st.tokens) /\ IsFiniteSet(mine)
      /\ Cardinality(DOMAIN st.tokens) = st.supply
      /\ Cardinality(mine) = GetBalance(st, owner)
      /\ mine \subseteq DOMAIN st.tokens
  BY TokensFinite DEF StateOK, CountsMatch
<1>8. /\ Cardinality(DOMAIN st.tokens \ gone) = st.supply - n
      /\ Cardinality(mine \ gone) = GetBalance(st, owner) - n
      /\ Cardinality(DOMAIN st.tokens \ gone) \in Nat
      /\ Cardinality(mine \ gone) \in Nat
  <2>1. DOMAIN st.tokens \cap gone = gone /\ mine \cap gone = gone
    BY <1>4, <1>7
  <2>2. /\ IsFiniteSet(DOMAIN st.tokens \ gone)
        /\ Cardinality(DOMAIN st.tokens \ gone)
             = Cardinality(DOMAIN st.tokens) - Cardinality(DOMAIN st.tokens \cap gone)
    BY <1>7, FS_Difference
  <2> HIDE DEF mine
  <2>3. /\ IsFiniteSet(mine \ gone)
        /\ Cardinality(mine \ gone) = Cardinality(mine) - Cardinality(mine \cap gone)
    BY <1>7, FS_Difference
  <2>4. QED
    BY <1>2, <1>7, <2>1, <2>2, <2>3, FS_CardinalityType
<1>9. /\ IsHamt(owners, ActorID, OwnerData)
      /\ \A b : OwnerEntry(owners, b).balance
                  = IF b = owner THEN OwnerEntry(st.owners, owner).balance + (-n)
                    ELSE OwnerEntry(st.owners, b).balance
  <2>1. -n \in Int /\ OwnerEntry(st.owners, owner).balance + (-n) >= 0
    <3>1. GetBalance(st, owner) \in Nat
      BY StateFields
    <3>2. QED
      BY <1>3, <1>8, <3>1 DEF GetBalance
  <2>2. QED
    BY <1>1, <2>1, AddToBalanceProperties
<1> HIDE DEF owners
<1>10. /\ new.tokens = tokens /\ new.owners = owners
       /\ new.next = st.next /\ new.supply = st.supply - n
       /\ new = [tokens |-> new.tokens, owners |-> new.owners,
                 next |-> new.next, supply |-> new.supply]
  BY <1>5
<1>11. IsNFTState(new)
  BY <1>1, <1>6, <1>8, <1>9, <1>10 DEF IsNFTState
<1>12. CountsMatch(new)
  <2>1. new.supply = Cardinality(DOMAIN new.tokens)
    BY <1>6, <1>8, <1>10
  <2>2. ASSUME NEW a \in ActorID
        PROVE  GetBalance(new, a) = Cardinality(TokensOwnedBy(new, a))
    <3>1. TokensOwnedBy(new, a) = TokensOwnedBy(st, a) \ gone
      BY <1>6, <1>10 DEF TokensOwnedBy, OwnerOf
    <3>2. CASE a = owner
      <4>1. GetBalance(new, a) = GetBalance(st, a) - n
        BY <1>3, <1>9, <1>10, <3>2, StateFields DEF GetBalance
      <4>2. QED
        BY <1>8, <3>1, <3>2, <4>1
    <3>3. CASE a # owner
      <4>1. TokensOwnedBy(st, a) \ gone = TokensOwnedBy(st, a)
        BY <1>4, <3>3 DEF TokensOwnedBy
      <4>2. GetBalance(new, a) = GetBalance(st, a)
        BY <1>9, <1>10, <3>3, StateFields DEF GetBalance
      <4>3. QED
        BY <3>1, <4>1, <4>2 DEF StateOK, CountsMatch
    <3>4. QED
      BY <3>2, <3>3
  <2>3. QED
    BY <2>1, <2>2 DEF CountsMatch
<1>13. DOMAIN new.tokens \subseteq 0..(new.next - 1)
  BY <1>1, <1>6, <1>10
<1>14. Fresh(st, new) /\ Taken(st, new, permitted)
  BY <1>1, <1>4, <1>6, <1>10 DEF Fresh, Taken, OwnerOf
<1>15. QED
  BY <1>11, <1>12, <1>13, <1>14 DEF Follows, StateOK

-----------------------------------------------------------------------------
(* Transfers. *)

\* The same tokens, of which only permitted ones differ, now the receiver's
\* and nobody else's to move.
Moved(st, new, receiver, permitted) ==
    /\ StateOK(new)
    /\ new.next = st.next
    /\ DOMAIN new.tokens = DOMAIN st.tokens
    /\ \A t \in DOMAIN st.tokens :
          new.tokens[t] # st.tokens[t]
          => /\ st.tokens[t] \in permitted
             /\ OwnerOf(new, t) = receiver
             /\ new.tokens[t].operators = {}
    /\ Tidy(st.owners, new.owners)

LEMMA MovedFollows ==
    ASSUME NEW st, StateOK(st), NEW new, NEW receiver, NEW permitted,
           Moved(st, new, receiver, permitted)
    PROVE  Follows(st, new, permitted)
<1>1. st.next \in Nat
  BY StateFields
<1>2. QED
  BY <1>1 DEF Moved, Follows, Fresh, Taken, OwnerOf

LEMMA MakeTransferMoves ==
    ASSUME NEW st, StateOK(st), NEW t, NEW receiver \in ActorID, NEW permitted
    PROVE  LET r == MakeTransfer(st, t, receiver, permitted)
           IN  r.ok \in BOOLEAN /\ (r.ok => Moved(st, r.st, receiver, permitted))
<1> DEFINE r       == MakeTransfer(st, t, receiver, permitted)
           sender  == OwnerOf(st, t)
           data    == [owner |-> receiver, operators |-> {}]
           tokens  == [st.tokens EXCEPT ![t] = data]
           debited == AddToBalance(st.owners, sender, -1)
           owners  == AddToBalance(debited, receiver, 1)
           new     == [tokens |-> tokens, owners |-> owners,
                       next |-> st.next, supply |-> st.supply]
<1> SUFFICES ASSUME Transferable(st, t, permitted)
             PROVE  r.ok /\ Moved(st, r.st, receiver, permitted)
  BY DEF MakeTransfer, Err
<1>1. /\ st.next \in Nat /\ st.supply \in Nat
      /\ IsHamt(st.owners, ActorID, OwnerData)
      /\ DOMAIN st.tokens \subseteq Nat
      /\ \A x \in DOMAIN st.tokens : st.tokens[x] \in TokenData
      /\ \A a : GetBalance(st, a) \in Nat
  BY StateFields
<1>2. r = Ok(new)
  BY DEF MakeTransfer
<1>3. t \in DOMAIN st.tokens /\ st.tokens[t] \in permitted
  BY DEF Transferable
<1>4. sender \in ActorID /\ st.tokens[t].owner = sender
  BY <1>1, <1>3 DEF TokenData, OwnerOf
<1> HIDE DEF r, sender
<1>5. data \in TokenData /\ data.owner = receiver /\ data.operators = {}
  BY DEF TokenData
<1> HIDE DEF data
<1>6. /\ DOMAIN tokens = DOMAIN st.tokens
      /\ tokens[t] = data
      /\ \A x \in DOMAIN st.tokens : x # t => tokens[x] = st.tokens[x]
      /\ IsHamt(tokens, TokenID, TokenData)
  BY <1>1, <1>3, <1>5 DEF IsHamt, TokenID
<1> HIDE DEF tokens
<1>7. \A a \in ActorID : /\ IsFiniteSet(TokensOwnedBy(st, a))
                         /\ Cardinality(TokensOwnedBy(st, a)) = GetBalance(st, a)
  BY TokensFinite DEF StateOK, CountsMatch
<1>8. GetBalance(st, sender) >= 1
  <2>1. t \in TokensOwnedBy(st, sender)
    BY <1>3, <1>4 DEF TokensOwnedBy, OwnerOf
  <2>2. Cardinality(TokensOwnedBy(st, sender)) # 0
    BY <1>4, <1>7, <2>1, FS_EmptySet
  <2>3. QED
    BY <1>1, <1>4, <1>7, <2>2
<1>9. /\ IsHamt(debited, ActorID, OwnerData)
      /\ \A b : OwnerEntry(debited, b).balance
                  = IF b = sender THEN GetBalance(st, sender) + (-1)
                    ELSE GetBalance(st, b)
      /\ Tidy(st.owners, debited)
  <2>1. -1 \in Int /\ OwnerEntry(st.owners, sender).balance + (-1) >= 0
    <3>1. GetBalance(st, sender) \in Nat
      BY <1>1
    <3>2. QED
      BY <1>8, <3>1 DEF GetBalance
  <2>2. QED
    BY <1>1, <1>4, <2>1, AddToBalanceProperties, AddToBalanceTidy DEF GetBalance
<1> HIDE DEF debited
<1>10. OwnerEntry(debited, receiver).balance \in Nat
  BY <1>9, OwnerEntryType DEF OwnerData
<1>11. /\ IsHamt(owners, ActorID, OwnerData)
       /\ \A b : OwnerEntry(owners, b).balance
                   = IF b = receiver THEN OwnerEntry(debited, receiver).balance + 1
                     ELSE OwnerEntry(debited, b).balance
       /\ Tidy(st.owners, owners)
  <2>1. 1 \in Int /\ OwnerEntry(debited, receiver).balance + 1 >= 0
    BY <1>10
  <2>2. Tidy(debited, owners)
    BY <1>9, <2>1, AddToBalanceTidy
  <2>3. Tidy(st.owners, owners)
    BY <1>9, <2>2, TidyTransitive
  <2> HIDE DEF Tidy
  <2>4. QED
    BY <1>9, <2>1, <2>3, AddToBalanceProperties
<1> HIDE DEF owners
<1>12. /\ new.tokens = tokens /\ new.owners = owners
       /\ new.next = st.next /\ new.supply = st.supply
       /\ new = [tokens |-> new.tokens, owners |-> new.owners,
                 next |-> new.next, supply |-> new.supply]
  OBVIOUS
<1> HIDE DEF new
<1>13. IsNFTState(new)
  BY <1>1, <1>6, <1>11, <1>12 DEF IsNFTState
<1>14. \A b : GetBalance(new, b)
                = IF b = receiver THEN OwnerEntry(debited, receiver).balance + 1
                  ELSE OwnerEntry(debited, b).balance
  BY <1>11, <1>12 DEF GetBalance
<1>15. ASSUME NEW a \in ActorID
       PROVE  GetBalance(new, a) = Cardinality(TokensOwnedBy(new, a))
  <2>1. TokensOwnedBy(new, a) = {x \in DOMAIN st.tokens : tokens[x].owner = a}
    BY <1>6, <1>12 DEF TokensOwnedBy, OwnerOf
  <2>2. TokensOwnedBy(st, a) = {x \in DOMAIN st.tokens : st.tokens[x].owner = a}
    BY DEF TokensOwnedBy, OwnerOf
  <2>3. CASE sender = receiver
    <3>1. TokensOwnedBy(new, a) = TokensOwnedBy(st, a)
      BY <1>3, <1>4, <1>5, <1>6, <2>1, <2>2, <2>3
    <3>2. GetBalance(new, a) = GetBalance(st, a)
      BY <1>1, <1>9, <1>14, <2>3
    <3>3. QED
      BY <1>7, <3>1, <3>2
  <2>4. CASE sender # receiver /\ a = sender
    <3>1. TokensOwnedBy(new, a) = TokensOwnedBy(st, a) \ {t}
      BY <1>5, <1>6, <2>1, <2>2, <2>4
    <3>2. t \in TokensOwnedBy(st, a)
      BY <1>3, <1>4, <2>2, <2>4
    <3>3. Cardinality(TokensOwnedBy(st, a) \ {t}) = GetBalance(st, a) - 1
      BY <1>7, <3>2, FS_RemoveElement
    <3>4. GetBalance(new, a) = GetBalance(st, a) - 1
      BY <1>1, <1>9, <1>14, <2>4
    <3>5. QED
      BY <3>1, <3>3, <3>4
  <2>5. CASE sender # receiver /\ a = receiver
    <3>1. TokensOwnedBy(new, a) = TokensOwnedBy(st, a) \cup {t}
      BY <1>3, <1>5, <1>6, <2>1, <2>2, <2>5
    <3>2. t \notin TokensOwnedBy(st, a)
      BY <1>4, <2>2, <2>5
    <3>3. Cardinality(TokensOwnedBy(st, a) \cup {t}) = GetBalance(st, a) + 1
      BY <1>7, <3>2, FS_AddElement
    <3>4. GetBalance(new, a) = GetBalance(st, a) + 1
      BY <1>1, <1>9, <1>14, <2>5
    <3>5. QED
      BY <3>1, <3>3, <3>4
  <2>6. CASE a # sender /\ a # receiver
    <3>1. TokensOwnedBy(new, a) = TokensOwnedBy(st, a)
      BY <1>3, <1>4, <1>5, <1>6, <2>1, <2>2, <2>6
    <3>2. GetBalance(new, a) = GetBalance(st, a)
      BY <1>9, <1>14, <2>6
    <3>3. QED
      BY <1>7, <3>1, <3>2
  <2>7. QED
    BY <2>3, <2>4, <2>5, <2>6
<1>16. CountsMatch(new)
  BY <1>6, <1>12, <1>15 DEF CountsMatch, StateOK
<1>17. StateOK(new)
  BY <1>6, <1>12, <1>13, <1>16 DEF StateOK
<1>18. Moved(st, new, receiver, permitted)
  BY <1>3, <1>5, <1>6, <1>11, <1>12, <1>17 DEF Moved, OwnerOf
<1>19. QED
  BY <1>2, <1>18 DEF Ok

-----------------------------------------------------------------------------
(* A batch of transfers.  The induction is by least counterexample. *)

LEMMA LeastNumber ==
    ASSUME NEW T, T \subseteq Nat, T # {}
    PROVE  \E x \in T : \A y \in T : ~(y < x)
<1>1. IsWellFoundedOn(OpToRel(<, Nat), Nat)
  BY NatLessThanWellFounded
<1>2. \E x \in T : \A y \in T : ~(<<y, x>> \in OpToRel(<, Nat))
  BY <1>1, WFMin
<1>3. QED
  BY <1>2 DEF OpToRel

\* What comes of the batch after i of its tokens.
BatchStep(u, i, ids, receiver, permitted) ==
    AndThen(u[i - 1], MakeTransfer(u[i - 1].st, ids[i], receiver, permitted))

IsBatch(u, n, st, ids, receiver, permitted) ==
    u = [i \in 0..n |-> IF i = 0 THEN Ok(st)
                        ELSE BatchStep(u, i, ids, receiver, permitted)]

LEMMA BatchExtends ==
    ASSUME NEW n \in Nat, NEW st, NEW ids, NEW receiver, NEW permitted,
           NEW u, IsBatch(u, n, st, ids, receiver, permitted)
    PROVE  \E v : IsBatch(v, n + 1, st, ids, receiver, permitted)
<1> DEFINE last == AndThen(u[n], MakeTransfer(u[n].st, ids[n + 1], receiver, permitted))
           v == [i \in 0..(n + 1) |-> IF i = n + 1 THEN last ELSE u[i]]
           w == [i \in 0..(n + 1) |-> IF i = 0 THEN Ok(st)
                                      ELSE BatchStep(v, i, ids, receiver, permitted)]
<1>1. \A i \in 0..n : u[i] = IF i = 0 THEN Ok(st)
                             ELSE BatchStep(u, i, ids, receiver, permitted)
  BY DEF IsBatch
<1>2. /\ v[n + 1] = last
      /\ \A i \in 0..n : v[i] = u[i]
      /\ DOMAIN v = 0..(n + 1)
  OBVIOUS
<1> HIDE DEF last, v
<1>3. ASSUME NEW i \in 0..(n + 1)
      PROVE  v[i] = w[i]
  <2>1. CASE i = 0
    BY <1>1, <1>2, <2>1
  <2>2. CASE i = n + 1
    <3>1. v[i - 1] = u[n] /\ v[i] = last /\ i # 0
      BY <1>2, <2>2
    <3>2. w[i] = BatchStep(v, i, ids, receiver, permitted)
      BY <3>1
    <3>3. QED
      BY <2>2, <3>1, <3>2 DEF BatchStep, last
  <2>3. CASE i \in 1..n
    <3>1. v[i - 1] = u[i - 1] /\ v[i] = u[i] /\ i # 0 /\ i \in 0..n
      BY <1>2, <2>3
    <3>2. v[i] = BatchStep(u, i, ids, receiver, permitted)
      BY <1>1, <3>1
    <3>3. w[i] = BatchStep(v, i, ids, receiver, permitted)
      BY <3>1
    <3>4. QED
      BY <3>1, <3>2, <3>3 DEF BatchStep
  <2>4. QED
    BY <2>1, <2>2, <2>3
<1>4. v = w
  <2>1. v = [i \in 0..(n + 1) |-> v[i]]
    BY DEF v
  <2> HIDE DEF w
  <2>2. w = [i \in 0..(n + 1) |-> w[i]]
    BY DEF w
  <2>3. QED
    BY <1>3, <2>1, <2>2
<1>5. QED
  BY <1>4 DEF IsBatch

LEMMA BatchExists ==
    ASSUME NEW n \in Nat, NEW st, NEW ids, NEW receiver, NEW permitted
    PROVE  \E u : IsBatch(u, n, st, ids, receiver, permitted)
<1> DEFINE Bad == {m \in 0..n : ~ \E u : IsBatch(u, m, st, ids, receiver, permitted)}
<1> SUFFICES ASSUME ~ \E u : IsBatch(u, n, st, ids, receiver, permitted)
             PROVE  FALSE
  OBVIOUS
<1>1. n \in Bad /\ Bad \subseteq Nat
  OBVIOUS
<1>2. PICK m \in Bad : \A k \in Bad : ~(k < m)
  BY <1>1, LeastNumber
<1>3. m \in 0..n /\ ~ \E u : IsBatch(u, m, st, ids, receiver, permitted)
  BY <1>2
<1>4. m # 0
  <2> DEFINE u == [i \in 0..0 |-> Ok(st)]
  <2>1. u = [i \in 0..0 |-> IF i = 0 THEN Ok(st)
                            ELSE BatchStep(u, i, ids, receiver, permitted)]
    OBVIOUS
  <2> HIDE DEF u
  <2>2. IsBatch(u, 0, st, ids, receiver, permitted)
    BY <2>1 DEF IsBatch
  <2>3. QED
    BY <1>3, <2>2
<1>5. m - 1 \in 0..n /\ m - 1 < m /\ m - 1 \in Nat /\ (m - 1) + 1 = m
  BY <1>3, <1>4
<1>6. PICK u : IsBatch(u, m - 1, st, ids, receiver, permitted)
  BY <1>2, <1>5
<1>7. \E v : IsBatch(v, (m - 1) + 1, st, ids, receiver, permitted)
  BY <1>5, <1>6, BatchExtends
<1>8. QED
  BY <1>3, <1>5, <1>7

\* However long the batch and whatever it names twice, the tokens it moves are
\* permitted ones, and the counts stay right.
LEMMA TransferTokensMoves ==
    ASSUME NEW st, StateOK(st), NEW ids \in Seq(TokenID), NEW receiver \in ActorID,
           NEW permitted
    PROVE  LET r == TransferTokens(st, ids, receiver, permitted)
           IN  r.ok \in BOOLEAN /\ (r.ok => Moved(st, r.st, receiver, permitted))
<1> DEFINE n == Len(ids)
           U == CHOOSE u : IsBatch(u, n, st, ids, receiver, permitted)
           Good(i) == /\ U[i].ok \in BOOLEAN
                      /\ U[i].ok => Moved(st, U[i].st, receiver, permitted)
           Bad == {i \in 0..n : ~Good(i)}
<1>1. n \in Nat
  OBVIOUS
<1>2. TransferTokens(st, ids, receiver, permitted) = U[n]
  BY DEF TransferTokens, IsBatch, BatchStep
<1>3. IsBatch(U, n, st, ids, receiver, permitted)
  BY <1>1, BatchExists
<1> HIDE DEF U
<1>4. \A i \in 0..n : U[i] = IF i = 0 THEN Ok(st)
                             ELSE BatchStep(U, i, ids, receiver, permitted)
  BY <1>3 DEF IsBatch
<1>5. Good(0)
  <2>1. 0 \in 0..n /\ U[0] = Ok(st)
    BY <1>1, <1>4
  <2>2. Moved(st, st, receiver, permitted)
    BY DEF Moved, Tidy
  <2>3. QED
    BY <2>1, <2>2 DEF Ok
<1>6. ASSUME NEW i \in 1..n, Good(i - 1)
      PROVE  Good(i)
  <2> DEFINE cur == U[i - 1].st
             r   == MakeTransfer(cur, ids[i], receiver, permitted)
  <2>1. U[i] = IF U[i - 1].ok THEN r ELSE U[i - 1]
    <3>1. i \in 0..n /\ i # 0
      BY <1>1
    <3>2. QED
      BY <1>4, <3>1 DEF BatchStep, AndThen
  <2>2. CASE ~U[i - 1].ok
    BY <1>6, <2>1, <2>2
  <2>3. CASE U[i - 1].ok
    <3>1. Moved(st, cur, receiver, permitted)
      BY <1>6, <2>3
    <3>2. r.ok \in BOOLEAN /\ (r.ok => Moved(cur, r.st, receiver, permitted))
      BY <3>1, MakeTransferMoves DEF Moved
    <3> HIDE DEF cur, r
    <3>3. r.ok => Moved(st, r.st, receiver, permitted)
      BY <3>1, <3>2, TidyTransitive DEF Moved, OwnerOf
    <3>4. QED
      BY <2>1, <2>3, <3>2, <3>3
  <2>4. QED
    BY <1>6, <2>2, <2>3
<1> HIDE DEF Good
<1>7. Bad = {}
  <2> SUFFICES ASSUME Bad # {}
               PROVE  FALSE
    OBVIOUS
  <2>1. Bad \subseteq Nat
    OBVIOUS
  <2>2. PICK m \in Bad : \A k \in Bad : ~(k < m)
    BY <2>1, LeastNumber
  <2>3. m \in 0..n /\ ~Good(m) /\ m # 0
    BY <1>5, <2>2
  <2>4. m \in 1..n /\ m - 1 \in 0..n /\ m - 1 < m
    BY <1>1, <2>3
  <2>5. Good(m - 1)
    BY <2>2, <2>4
  <2>6. QED
    BY <1>6, <2>3, <2>4, <2>5
<1>8. Good(n)
  BY <1>1, <1>7
<1>9. QED
  BY <1>2, <1>8 DEF Good

-----------------------------------------------------------------------------
(* The methods. *)

\* Accounts come into being before the collection is looked at.
LEMMA Init1Sound ==
    ASSUME NEW w, WorldOK(w), NEW x \in Address
    PROVE  LET init == Init1(w, x)
           IN  /\ init.ok \in BOOLEAN
               /\ WorldOK(init.world)
               /\ init.world.nft = w.nft
<1>1. w = [nft |-> w.nft, accts |-> w.accts] /\ w.accts \subseteq ActorID
  BY DEF WorldOK
<1>2. x.actor \in ActorID
  BY DEF Address
<1>3. AfterInit(w.accts, x) \subseteq ActorID
  BY <1>1, <1>2 DEF AfterInit
<1>4. [w EXCEPT !.accts = AfterInit(@, x)]
        = [nft |-> w.nft, accts |-> AfterInit(w.accts, x)]
  BY <1>1
<1>5. CanInit(w.accts, x) \in BOOLEAN
  BY DEF CanInit, Resolves
<1>6. QED
  BY <1>3, <1>4, <1>5 DEF Init1, WorldOK

LEMMA Init2Sound ==
    ASSUME NEW w, WorldOK(w), NEW x \in Address, NEW y \in Address
    PROVE  LET init == Init2(w, x, y)
           IN  /\ init.ok \in BOOLEAN
               /\ WorldOK(init.world)
               /\ init.world.nft = w.nft
<1>1. WorldOK(Init1(w, x).world) /\ Init1(w, x).world.nft = w.nft
  BY Init1Sound
<1>2. QED
  BY <1>1, Init1Sound DEF Init2

\* v is w with the accounts created on the way.
LEMMA FailedSound ==
    ASSUME NEW w, NEW v, WorldOK(v), v.nft = w.nft, NEW permitted
    PROVE  Sound(w, Failed(v), permitted)
  BY DEF Sound, Failed

\* The outcome of resolve_or_init, passed on if it is an error.
LEMMA InitFailedSound ==
    ASSUME NEW w, NEW init, init.ok \in BOOLEAN, ~init.ok, WorldOK(init.world),
           init.world.nft = w.nft, NEW permitted
    PROVE  Sound(w, init, permitted)
  BY DEF Sound

LEMMA NothingSound ==
    ASSUME NEW w, WorldOK(w), NEW permitted
    PROVE  Sound(w, [ok |-> TRUE, world |-> w], permitted)
<1>1. Follows(w.nft, w.nft, permitted)
  BY SameOwnersFollow DEF WorldOK, StateOK
<1>2. QED
  BY <1>1 DEF Sound

LEMMA TransactionSound ==
    ASSUME NEW w, NEW v, WorldOK(v), v.nft = w.nft, NEW r, NEW permitted,
           Proper(w.nft, r, permitted)
    PROVE  Sound(w, Transaction(v, r), permitted)
<1>1. CASE r.ok
  <2>1. v = [nft |-> v.nft, accts |-> v.accts] /\ v.accts \subseteq ActorID
    BY DEF WorldOK
  <2>2. Follows(w.nft, r.st, permitted)
    BY <1>1 DEF Proper
  <2>3. [v EXCEPT !.nft = r.st] = [nft |-> r.st, accts |-> v.accts]
    BY <2>1
  <2>4. WorldOK([nft |-> r.st, accts |-> v.accts])
    BY <2>1, <2>2 DEF WorldOK, Follows
  <2>5. QED
    BY <1>1, <2>2, <2>3, <2>4 DEF Transaction, Sound, Proper
<1>2. CASE ~r.ok
  BY <1>2 DEF Transaction, Sound, Proper
<1>3. QED
  BY <1>1, <1>2

LEMMA DelegatedOwned ==
    ASSUME NEW st, NEW owner, NEW operator
    PROVE  Delegated(st, owner, operator) \subseteq OwnedBy(owner)
  BY DEF Delegated

LEMMA MintSound ==
    ASSUME NEW w, WorldOK(w), NEW operator \in Address, NEW owner \in Address,
           NEW count \in Nat
    PROVE  Sound(w, Mint(w, operator, owner, count), {})
<1> DEFINE init == Init1(w, owner)
<1>1. init.ok \in BOOLEAN /\ WorldOK(init.world) /\ init.world.nft = w.nft
  BY Init1Sound
<1>2. StateOK(w.nft) /\ owner.actor \in ActorID
  BY DEF WorldOK, Address
<1>3. Proper(w.nft, MintTokens(w.nft, owner.actor, count), {})
  <2>1. MintTokens(w.nft, owner.actor, count).ok = TRUE
    BY DEF MintTokens, MintFrom, Ok
  <2>2. QED
    BY <1>2, <2>1, MintFollows DEF Proper
<1> HIDE DEF init
<1>4. Sound(w, Transaction(init.world, MintTokens(w.nft, owner.actor, count)), {})
  BY <1>1, <1>3, TransactionSound
<1>5. Sound(w, Failed(w), {}) /\ (~init.ok => Sound(w, init, {}))
  BY <1>1, FailedSound, InitFailedSound
<1>6. QED
  BY <1>1, <1>4, <1>5 DEF Mint, init

LEMMA BurnSound ==
    ASSUME NEW w, WorldOK(w), NEW owner \in Address, NEW ids \in Seq(TokenID)
    PROVE  Sound(w, Burn(w, owner, ids), OwnedBy(owner.actor))
<1>1. StateOK(w.nft) /\ owner.actor \in ActorID
  BY DEF WorldOK, Address
<1>2. Proper(w.nft, BurnTokens(w.nft, owner.actor, ids, OwnedBy(owner.actor)),
             OwnedBy(owner.actor))
  BY <1>1, BurnProper
<1>3. QED
  BY <1>2, TransactionSound, FailedSound DEF Burn

LEMMA BurnFromSound ==
    ASSUME NEW w, WorldOK(w), NEW owner \in Address, NEW operator \in Address,
           NEW ids \in Seq(TokenID)
    PROVE  Sound(w, BurnFrom(w, owner, operator, ids),
                 Delegated(w.nft, owner.actor, operator.actor))
<1> DEFINE init == Init1(w, owner)
           permitted == Delegated(w.nft, owner.actor, operator.actor)
           r == BurnTokens(w.nft, owner.actor, ids, permitted)
<1>1. init.ok \in BOOLEAN /\ WorldOK(init.world) /\ init.world.nft = w.nft
  BY Init1Sound
<1>2. StateOK(w.nft) /\ owner.actor \in ActorID
  BY DEF WorldOK, Address
<1>3. Proper(w.nft, r, permitted)
  BY <1>2, DelegatedOwned, BurnProper
<1> HIDE DEF init, r, permitted
<1>4. /\ Sound(w, Failed(w), permitted)
      /\ Sound(w, Failed(init.world), permitted)
      /\ Sound(w, Transaction(init.world, r), permitted)
      /\ ~init.ok => Sound(w, init, permitted)
  BY <1>1, <1>3, FailedSound, TransactionSound, InitFailedSound
<1>5. QED
  BY <1>1, <1>4 DEF BurnFrom, init, r, permitted

LEMMA ApproveSound ==
    ASSUME NEW w, WorldOK(w), NEW caller \in Address, NEW operator \in Address,
           NEW ids
    PROVE  Sound(w, Approve(w, caller, operator, ids), {})
<1> DEFINE init == Init1(w, operator)
           r == ApproveForTokens(w.nft, operator.actor, ids, OwnedBy(caller.actor))
<1>1. init.ok \in BOOLEAN /\ WorldOK(init.world) /\ init.world.nft = w.nft
  BY Init1Sound
<1>2. StateOK(w.nft) /\ operator.actor \in ActorID
  BY DEF WorldOK, Address
<1>3. Proper(w.nft, r, {})
  BY <1>2, ApproveProper
<1> HIDE DEF init, r
<1>4. /\ Sound(w, Failed(w), {})
      /\ Sound(w, Transaction(init.world, r), {})
      /\ ~init.ok => Sound(w, init, {})
  BY <1>1, <1>3, FailedSound, TransactionSound, InitFailedSound
<1>5. QED
  BY <1>1, <1>4 DEF Approve, init, r

LEMMA RevokeSound ==
    ASSUME NEW w, WorldOK(w), NEW caller \in Address, NEW operator \in Address,
           NEW ids
    PROVE  Sound(w, Revoke(w, caller, operator, ids), {})
<1>1. StateOK(w.nft) /\ operator.actor \in ActorID
  BY DEF WorldOK, Address
<1>2. Proper(w.nft, RevokeForTokens(w.nft, operator.actor, ids, OwnedBy(caller.actor)), {})
  BY <1>1, RevokeProper
<1>3. QED
  BY <1>2, FailedSound, NothingSound, TransactionSound DEF Revoke

LEMMA NFTApproveForOwnerSound ==
    ASSUME NEW w, WorldOK(w), NEW owner \in Address, NEW operator \in Address
    PROVE  Sound(w, NFTApproveForOwner(w, owner, operator), {})
<1> DEFINE init == Init1(w, operator)
           r == ApproveForOwner(w.nft, owner.actor, operator.actor)
<1>1. init.ok \in BOOLEAN /\ WorldOK(init.world) /\ init.world.nft = w.nft
  BY Init1Sound
<1>2. StateOK(w.nft) /\ owner.actor \in ActorID /\ operator.actor \in ActorID
  BY DEF WorldOK, Address
<1>3. Proper(w.nft, r, {})
  BY <1>2, ApproveForOwnerProper
<1> HIDE DEF init, r
<1>4. /\ Sound(w, Failed(w), {})
      /\ Sound(w, Transaction(init.world, r), {})
      /\ ~init.ok => Sound(w, init, {})
  BY <1>1, <1>3, FailedSound, TransactionSound, InitFailedSound
<1>5. QED
  BY <1>1, <1>4 DEF NFTApproveForOwner, init, r

LEMMA NFTRevokeForAllSound ==
    ASSUME NEW w, WorldOK(w), NEW owner \in Address, NEW operator \in Address
    PROVE  Sound(w, NFTRevokeForAll(w, owner, operator), {})
<1>1. StateOK(w.nft) /\ owner.actor \in ActorID /\ operator.actor \in ActorID
  BY DEF WorldOK, Address
<1>2. Proper(w.nft, RevokeForAll(w.nft, owner.actor, operator.actor), {})
  BY <1>1, RevokeForAllProper
<1>3. QED
  BY <1>2, FailedSound, NothingSound, TransactionSound DEF NFTRevokeForAll

LEMMA TransferSound ==
    ASSUME NEW w, WorldOK(w), NEW owner \in Address, NEW recipient \in Address,
           NEW ids \in Seq(TokenID)
    PROVE  Sound(w, Transfer(w, owner, recipient, ids), OwnedBy(owner.actor))
<1> DEFINE init == Init2(w, owner, recipient)
           permitted == OwnedBy(owner.actor)
           r == TransferTokens(w.nft, ids, recipient.actor, permitted)
<1>1. init.ok \in BOOLEAN /\ WorldOK(init.world) /\ init.world.nft = w.nft
  BY Init2Sound
<1>2. StateOK(w.nft) /\ recipient.actor \in ActorID
  BY DEF WorldOK, Address
<1>3. Proper(w.nft, r, permitted)
  BY <1>2, TransferTokensMoves, MovedFollows DEF Proper
<1> HIDE DEF init, r, permitted
<1>4. /\ Sound(w, Transaction(init.world, r), permitted)
      /\ ~init.ok => Sound(w, init, permitted)
  BY <1>1, <1>3, TransactionSound, InitFailedSound
<1>5. QED
  BY <1>1, <1>4 DEF Transfer, init, r, permitted

LEMMA TransferFromSound ==
    ASSUME NEW w, WorldOK(w), NEW owner \in Address, NEW operator \in Address,
           NEW recipient \in Address, NEW ids \in Seq(TokenID)
    PROVE  Sound(w, TransferFrom(w, owner, operator, recipient, ids),
                 Delegated(w.nft, owner.actor, operator.actor))
<1> DEFINE init == Init1(w, recipient)
           permitted == Delegated(w.nft, owner.actor, operator.actor)
           r == TransferTokens(w.nft, ids, recipient.actor, permitted)
<1>1. init.ok \in BOOLEAN /\ WorldOK(init.world) /\ init.world.nft = w.nft
  BY Init1Sound
<1>2. StateOK(w.nft) /\ recipient.actor \in ActorID
  BY DEF WorldOK, Address
<1>3. Proper(w.nft, r, permitted)
  BY <1>2, TransferTokensMoves, MovedFollows DEF Proper
<1> HIDE DEF init, r, permitted
<1>4. /\ Sound(w, Failed(w), permitted)
      /\ Sound(w, Failed(init.world), permitted)
      /\ Sound(w, Transaction(init.world, r), permitted)
      /\ ~init.ok => Sound(w, init, permitted)
  BY <1>1, <1>3, FailedSound, TransactionSound, InitFailedSound
<1>5. QED
  BY <1>1, <1>4 DEF TransferFrom, init, r, permitted

-----------------------------------------------------------------------------
(* What becomes of the tokens and their owners. *)

\* The numbers from the next one on are a's now.
Issued(st, new, a) ==
    /\ new.next >= st.next
    /\ DOMAIN new.tokens = DOMAIN st.tokens \cup st.next..(new.next - 1)
    /\ \A t \in DOMAIN new.tokens :
          OwnerOf(new, t) = IF t \in DOMAIN st.tokens THEN OwnerOf(st, t) ELSE a

\* Some of a's tokens are b's now.
Passed(st, new, a, b) ==
    /\ new.next = st.next
    /\ DOMAIN new.tokens = DOMAIN st.tokens
    /\ \A t \in DOMAIN st.tokens :
          \/ OwnerOf(new, t) = OwnerOf(st, t)
          \/ OwnerOf(st, t) = a /\ OwnerOf(new, t) = b

\* Some of a's tokens are no more.
Retired(st, new, a) ==
    /\ new.next = st.next
    /\ DOMAIN new.tokens \subseteq DOMAIN st.tokens
    /\ \A t \in DOMAIN new.tokens : OwnerOf(new, t) = OwnerOf(st, t)
    /\ \A t \in DOMAIN st.tokens \ DOMAIN new.tokens : OwnerOf(st, t) = a

LEMMA TransactionState ==
    ASSUME NEW v, WorldOK(v), NEW r, Transaction(v, r).ok
    PROVE  r.ok /\ Transaction(v, r).world.nft = r.st
<1>1. v = [nft |-> v.nft, accts |-> v.accts]
  BY DEF WorldOK
<1>2. [v EXCEPT !.nft = r.st].nft = r.st
  BY <1>1
<1>3. QED
  BY <1>2 DEF Transaction

LEMMA MintIssues ==
    ASSUME NEW w, WorldOK(w), NEW operator \in Address, NEW owner \in Address,
           NEW count \in Nat, Mint(w, operator, owner, count).ok
    PROVE  Issued(w.nft, Mint(w, operator, owner, count).world.nft, owner.actor)
<1> DEFINE st    == w.nft
           v     == Init1(w, owner).world
           fresh == st.next .. (st.next + count - 1)
           new   == MintTokens(st, owner.actor, count).st
<1>1. /\ Mint(w, operator, owner, count) = Transaction(v, MintTokens(st, owner.actor, count))
      /\ WorldOK(v)
  BY Init1Sound DEF Mint, Failed
<1>2. Mint(w, operator, owner, count).world.nft = new
  BY <1>1, TransactionState
<1>3. st.next \in Nat /\ DOMAIN st.tokens \subseteq 0..(st.next - 1)
  BY StateFields DEF WorldOK, StateOK
<1>4. /\ new.next = st.next + count
      /\ new.tokens = [t \in DOMAIN st.tokens \cup fresh |->
                         IF t \in fresh
                         THEN [owner |-> owner.actor, operators |-> {}]
                         ELSE st.tokens[t]]
  BY DEF MintTokens, MintFrom, Ok
<1> HIDE DEF new
<1>5. DOMAIN st.tokens \cap fresh = {} /\ fresh = st.next..(new.next - 1)
  BY <1>3, <1>4
<1> HIDE DEF fresh
<1>6. \A t \in DOMAIN new.tokens :
        OwnerOf(new, t) = IF t \in DOMAIN st.tokens THEN OwnerOf(st, t) ELSE owner.actor
  BY <1>4, <1>5 DEF OwnerOf
<1>7. QED
  BY <1>2, <1>3, <1>4, <1>5, <1>6 DEF Issued

LEMMA MovedPasses ==
    ASSUME NEW st, NEW new, NEW a, NEW b, NEW permitted, StateOK(st),
           permitted \subseteq OwnedBy(a), Moved(st, new, b, permitted)
    PROVE  Passed(st, new, a, b)
  BY DEF Passed, Moved, OwnedBy, OwnerOf

LEMMA TransferPasses ==
    ASSUME NEW w, WorldOK(w), NEW owner \in Address, NEW recipient \in Address,
           NEW ids \in Seq(TokenID), Transfer(w, owner, recipient, ids).ok
    PROVE  Passed(w.nft, Transfer(w, owner, recipient, ids).world.nft,
                  owner.actor, recipient.actor)
<1> DEFINE v == Init2(w, owner, recipient).world
           r == TransferTokens(w.nft, ids, recipient.actor, OwnedBy(owner.actor))
<1>1. Transfer(w, owner, recipient, ids) = Transaction(v, r) /\ WorldOK(v)
  BY Init2Sound DEF Transfer
<1>2. StateOK(w.nft) /\ recipient.actor \in ActorID
  BY DEF WorldOK, Address
<1>3. r.ok => Moved(w.nft, r.st, recipient.actor, OwnedBy(owner.actor))
  BY <1>2, TransferTokensMoves
<1> HIDE DEF v, r
<1>4. r.ok /\ Transfer(w, owner, recipient, ids).world.nft = r.st
  BY <1>1, TransactionState
<1>5. QED
  BY <1>2, <1>3, <1>4, MovedPasses

LEMMA TransferFromPasses ==
    ASSUME NEW w, WorldOK(w), NEW owner \in Address, NEW operator \in Address,
           NEW recipient \in Address, NEW ids \in Seq(TokenID),
           TransferFrom(w, owner, operator, recipient, ids).ok
    PROVE  Passed(w.nft, TransferFrom(w, owner, operator, recipient, ids).world.nft,
                  owner.actor, recipient.actor)
<1> DEFINE v == Init1(w, recipient).world
           permitted == Delegated(w.nft, owner.actor, operator.actor)
           r == TransferTokens(w.nft, ids, recipient.actor, permitted)
<1>1. /\ TransferFrom(w, owner, operator, recipient, ids) = Transaction(v, r)
      /\ WorldOK(v)
  BY Init1Sound DEF TransferFrom, Failed
<1>2. StateOK(w.nft) /\ recipient.actor \in ActorID
  BY DEF WorldOK, Address
<1>3. r.ok => Moved(w.nft, r.st, recipient.actor, permitted)
  BY <1>2, TransferTokensMoves
<1>4. permitted \subseteq OwnedBy(owner.actor)
  BY DelegatedOwned
<1> HIDE DEF v, r, permitted
<1>5. r.ok /\ TransferFrom(w, owner, operator, recipient, ids).world.nft = r.st
  BY <1>1, TransactionState
<1>6. QED
  BY <1>2, <1>3, <1>4, <1>5, MovedPasses

LEMMA BurnTokensRetires ==
    ASSUME NEW st, NEW owner, NEW ids, NEW permitted,
           permitted \subseteq OwnedBy(owner),
           BurnTokens(st, owner, ids, permitted).ok
    PROVE  Retired(st, BurnTokens(st, owner, ids, permitted).st, owner)
<1>1. AllPass(st, ids, permitted)
  BY DEF BurnTokens, Err
<1>2. BurnTokens(st, owner, ids, permitted).st = Burnt(st, owner, ids)
  BY DEF BurnTokens, Ok, Err
<1>3. /\ Burnt(st, owner, ids).next = st.next
      /\ Burnt(st, owner, ids).tokens = [t \in DOMAIN st.tokens \ Named(ids) |-> st.tokens[t]]
  BY DEF Burnt
<1>4. \A t \in DOMAIN st.tokens \cap Named(ids) : OwnerOf(st, t) = owner
  BY <1>1 DEF AllPass, Named, OwnedBy, OwnerOf
<1>5. QED
  BY <1>2, <1>3, <1>4 DEF Retired, OwnerOf

LEMMA BurnRetires ==
    ASSUME NEW w, WorldOK(w), NEW owner \in Address, NEW ids, Burn(w, owner, ids).ok
    PROVE  Retired(w.nft, Burn(w, owner, ids).world.nft, owner.actor)
<1> DEFINE r == BurnTokens(w.nft, owner.actor, ids, OwnedBy(owner.actor))
<1>1. Burn(w, owner, ids) = Transaction(w, r)
  BY DEF Burn, Failed
<1>2. r.ok => Retired(w.nft, r.st, owner.actor)
  BY BurnTokensRetires
<1> HIDE DEF r
<1>3. QED
  BY <1>1, <1>2, TransactionState

LEMMA BurnFromRetires ==
    ASSUME NEW w, WorldOK(w), NEW owner \in Address, NEW operator \in Address,
           NEW ids, BurnFrom(w, owner, operator, ids).ok
    PROVE  Retired(w.nft, BurnFrom(w, owner, operator, ids).world.nft, owner.actor)
<1> DEFINE v == Init1(w, owner).world
           permitted == Delegated(w.nft, owner.actor, operator.actor)
           r == BurnTokens(w.nft, owner.actor, ids, permitted)
<1>1. BurnFrom(w, owner, operator, ids) = Transaction(v, r) /\ WorldOK(v)
  BY Init1Sound DEF BurnFrom, Failed
<1>2. r.ok => Retired(w.nft, r.st, owner.actor)
  BY DelegatedOwned, BurnTokensRetires
<1> HIDE DEF v, r
<1>3. QED
  BY <1>1, <1>2, TransactionState

\* The same tokens with the same owners, which is how approvals leave them.
SameOwners(st, new) ==
    /\ new.next = st.next
    /\ DOMAIN new.tokens = DOMAIN st.tokens
    /\ \A t \in DOMAIN st.tokens : OwnerOf(new, t) = OwnerOf(st, t)

LEMMA SetOperatorsKeepsOwners ==
    ASSUME NEW st, StateOK(st), NEW ids, NEW add, NEW remove
    PROVE  SameOwners(st, SetOperators(st, ids, add, remove))
<1> DEFINE data(t) == [st.tokens[t] EXCEPT !.operators = (@ \cup add) \ remove]
           tokens == [t \in DOMAIN st.tokens |->
                         IF t \in Named(ids) THEN data(t) ELSE st.tokens[t]]
           new == SetOperators(st, ids, add, remove)
<1>1. /\ st = [tokens |-> st.tokens, owners |-> st.owners,
               next |-> st.next, supply |-> st.supply]
      /\ \A t \in DOMAIN st.tokens : st.tokens[t] \in TokenData
  BY StateFields
<1>2. \A t \in DOMAIN st.tokens : data(t).owner = OwnerOf(st, t)
  BY <1>1 DEF TokenData, OwnerOf
<1>3. new = [st EXCEPT !.tokens = tokens]
  BY DEF SetOperators
<1> HIDE DEF data, new, tokens
<1>4. new.tokens = tokens /\ new.next = st.next
  BY <1>1, <1>3
<1>5. DOMAIN tokens = DOMAIN st.tokens
  BY DEF tokens
<1>6. \A t \in DOMAIN st.tokens : tokens[t].owner = OwnerOf(st, t)
  BY <1>2 DEF tokens, OwnerOf
<1>7. \A t \in DOMAIN st.tokens : OwnerOf(new, t) = OwnerOf(st, t)
  BY <1>4, <1>6 DEF OwnerOf
<1>8. QED
  BY <1>4, <1>5, <1>7 DEF SameOwners, new

LEMMA SetOwnersKeepsOwners ==
    ASSUME NEW st, StateOK(st), NEW owners
    PROVE  SameOwners(st, st) /\ SameOwners(st, [st EXCEPT !.owners = owners])
<1>1. st = [tokens |-> st.tokens, owners |-> st.owners,
            next |-> st.next, supply |-> st.supply]
  BY StateFields
<1>2. [st EXCEPT !.owners = owners]
        = [tokens |-> st.tokens, owners |-> owners,
           next |-> st.next, supply |-> st.supply]
  BY <1>1
<1>3. QED
  BY <1>2 DEF SameOwners, OwnerOf

LEMMA ApprovalsKeepOwners ==
    ASSUME NEW w, WorldOK(w), NEW x \in Address, NEW y \in Address, NEW ids,
           NEW r, r.ok,
           \/ r = Approve(w, x, y, ids)
           \/ r = Revoke(w, x, y, ids)
           \/ r = NFTApproveForOwner(w, x, y)
           \/ r = NFTRevokeForAll(w, x, y)
    PROVE  SameOwners(w.nft, r.world.nft)
<1> DEFINE v == Init1(w, y).world
<1>1. WorldOK(v) /\ StateOK(w.nft)
  BY Init1Sound DEF WorldOK
<1>2. ASSUME NEW u, WorldOK(u), NEW s, r = Transaction(u, s)
      PROVE  s.ok /\ r.world.nft = s.st
  BY <1>2, TransactionState
<1>3. SameOwners(w.nft, w.nft)
  BY <1>1, SetOwnersKeepsOwners
<1>4. CASE r = Approve(w, x, y, ids)
  <2> DEFINE s == ApproveForTokens(w.nft, y.actor, ids, OwnedBy(x.actor))
  <2>1. r = Transaction(v, s)
    BY <1>4 DEF Approve, Failed
  <2>2. s.ok => s.st = SetOperators(w.nft, ids, {y.actor}, {})
    BY DEF ApproveForTokens, Ok, Err
  <2> HIDE DEF s, v
  <2>3. QED
    BY <1>1, <1>2, <2>1, <2>2, SetOperatorsKeepsOwners
<1>5. CASE r = Revoke(w, x, y, ids)
  <2> DEFINE s == RevokeForTokens(w.nft, y.actor, ids, OwnedBy(x.actor))
  <2>1. r = Transaction(w, s) \/ r.world = w
    BY <1>5 DEF Revoke, Failed
  <2>2. s.ok => s.st = SetOperators(w.nft, ids, {}, {y.actor})
    BY DEF RevokeForTokens, Ok, Err
  <2> HIDE DEF s
  <2>3. QED
    BY <1>1, <1>2, <1>3, <2>1, <2>2, SetOperatorsKeepsOwners
<1>6. CASE r = NFTApproveForOwner(w, x, y)
  <2> DEFINE s == ApproveForOwner(w.nft, x.actor, y.actor)
  <2>1. r = Transaction(v, s)
    BY <1>6 DEF NFTApproveForOwner, Failed
  <2>2. SameOwners(w.nft, s.st)
    BY <1>1, SetOwnersKeepsOwners DEF ApproveForOwner, Ok, StateOK, IsNFTState
  <2> HIDE DEF s, v
  <2>3. QED
    BY <1>1, <1>2, <2>1, <2>2
<1>7. CASE r = NFTRevokeForAll(w, x, y)
  <2> DEFINE s == RevokeForAll(w.nft, x.actor, y.actor)
  <2>1. r = Transaction(w, s) \/ r.world = w
    BY <1>7 DEF NFTRevokeForAll, Failed
  <2>2. SameOwners(w.nft, s.st)
    BY <1>1, <1>3, SetOwnersKeepsOwners DEF RevokeForAll, Ok, StateOK, IsNFTState
  <2> HIDE DEF s
  <2>3. QED
    BY <1>1, <1>2, <1>3, <2>1, <2>2
<1>8. QED
  BY <1>4, <1>5, <1>6, <1>7

-----------------------------------------------------------------------------
(* Approvals and empty entries. *)

\* No owner's entry comes to say nothing.
NoneEmptied(st, new) ==
    \A a \in DOMAIN st.owners \cap DOMAIN new.owners :
        st.owners[a] # NoData => new.owners[a] # NoData

\* Approvals change as the caller may change them.
ApprovalsKept(st, new, caller) ==
    /\ \A t \in DOMAIN st.tokens \cap DOMAIN new.tokens :
          IF OwnerOf(new, t) # OwnerOf(st, t)
          THEN new.tokens[t].operators = {}
          ELSE caller # OwnerOf(st, t)
               => new.tokens[t].operators \subseteq st.tokens[t].operators
    /\ \A a \in ActorID :
          caller # a => OwnerEntry(new.owners, a).operators
                          = OwnerEntry(st.owners, a).operators

Kept(st, new, caller) == NoneEmptied(st, new) /\ ApprovalsKept(st, new, caller)

LEMMA UnchangedKept ==
    ASSUME NEW st, NEW caller
    PROVE  Kept(st, st, caller)
  BY DEF Kept, NoneEmptied, ApprovalsKept

LEMMA MovedKept ==
    ASSUME NEW st, NEW new, NEW receiver, NEW permitted,
           Moved(st, new, receiver, permitted), NEW caller
    PROVE  Kept(st, new, caller)
  BY DEF Moved, Tidy, Kept, NoneEmptied, ApprovalsKept, OwnerOf

LEMMA MintKept ==
    ASSUME NEW st, StateOK(st), NEW owner \in ActorID, NEW count \in Nat, NEW caller
    PROVE  Kept(st, MintTokens(st, owner, count).st, caller)
<1> DEFINE old   == OwnerEntry(st.owners, owner)
           entry == [old EXCEPT !.balance = @ + count]
           fresh == st.next .. (st.next + count - 1)
           new   == MintTokens(st, owner, count).st
<1>1. /\ st.next \in Nat
      /\ IsHamt(st.owners, ActorID, OwnerData)
      /\ DOMAIN st.tokens \subseteq 0..(st.next - 1)
  BY StateFields DEF StateOK
<1>2. DOMAIN st.tokens \cap fresh = {}
  BY <1>1
<1>3. /\ new.owners = HamtSet(st.owners, owner, entry)
      /\ new.tokens = [t \in DOMAIN st.tokens \cup fresh |->
                         IF t \in fresh
                         THEN [owner |-> owner, operators |-> {}]
                         ELSE st.tokens[t]]
  BY DEF MintTokens, MintFrom, Ok
<1> HIDE DEF fresh, new
<1>4. \A t \in DOMAIN st.tokens : new.tokens[t] = st.tokens[t]
  BY <1>2, <1>3
<1>5. old \in OwnerData
  BY <1>1, OwnerEntryType
<1>6. entry \in OwnerData /\ entry.operators = old.operators
  BY <1>5 DEF OwnerData
<1>7. entry = NoData => old = NoData
  <2>1. old.balance \in Nat /\ old = [balance |-> old.balance, operators |-> old.operators]
    BY <1>5 DEF OwnerData
  <2>2. entry.balance = old.balance + count
    BY <2>1
  <2> HIDE DEF entry, old
  <2>3. QED
    BY <1>6, <2>1, <2>2 DEF NoData
<1> HIDE DEF entry
<1>8. \A a : OwnerEntry(new.owners, a).operators = OwnerEntry(st.owners, a).operators
  BY <1>1, <1>3, <1>6, SetOwnerProperties
<1>9. NoneEmptied(st, new)
  <2>1. \A a \in DOMAIN st.owners : new.owners[a] = IF a = owner THEN entry ELSE st.owners[a]
    BY <1>3 DEF HamtSet
  <2>2. owner \in DOMAIN st.owners => old = st.owners[owner]
    BY DEF OwnerEntry, HamtGet
  <2> HIDE DEF old
  <2>3. QED
    BY <1>7, <2>1, <2>2 DEF NoneEmptied
<1>10. QED
  BY <1>4, <1>8, <1>9 DEF Kept, ApprovalsKept, OwnerOf, new

LEMMA BurnKept ==
    ASSUME NEW st, StateOK(st), NEW owner \in ActorID, NEW ids \in Seq(TokenID),
           NEW permitted, permitted \subseteq OwnedBy(owner),
           BurnTokens(st, owner, ids, permitted).ok, NEW caller
    PROVE  Kept(st, BurnTokens(st, owner, ids, permitted).st, caller)
<1> DEFINE new    == BurnTokens(st, owner, ids, permitted).st
           owners == AddToBalance(st.owners, owner, -Len(ids))
<1>1. new = Burnt(st, owner, ids)
  BY DEF BurnTokens, Ok, Err
<1>2. /\ new.tokens = [t \in DOMAIN st.tokens \ Named(ids) |-> st.tokens[t]]
      /\ new.owners = owners
  BY <1>1 DEF Burnt
<1>3. OwnerEntry(st.owners, owner).balance + (-Len(ids)) >= 0
  <2>1. GetBalance(st, owner) \in Nat /\ GetBalance(st, owner) = Cardinality(TokensOwnedBy(st, owner))
    BY StateFields DEF StateOK, CountsMatch
  <2>2. IsFiniteSet(Named(ids)) /\ Cardinality(Named(ids)) = Len(ids)
    <3>1. \A i, j \in DOMAIN ids : ids[i] = ids[j] => i = j
      BY DEF BurnTokens, Err
    <3>2. QED
      BY <3>1, NamedCount
  <2>3. Named(ids) \subseteq TokensOwnedBy(st, owner)
    <3>1. AllPass(st, ids, permitted)
      BY DEF BurnTokens, Err
    <3>2. QED
      BY <3>1 DEF AllPass, Named, OwnedBy, TokensOwnedBy, OwnerOf
  <2>4. Len(ids) <= GetBalance(st, owner)
    BY <2>1, <2>2, <2>3, TokensFinite, FS_Subset
  <2>5. QED
    BY <2>1, <2>4 DEF GetBalance
<1>4. Tidy(st.owners, owners)
  BY <1>3, StateFields, AddToBalanceTidy
<1> HIDE DEF owners, new
<1>5. QED
  BY <1>2, <1>4 DEF Tidy, Kept, NoneEmptied, ApprovalsKept, OwnerOf, new

\* The tokens named are the caller's, or nothing happens.
LEMMA SetOperatorsKept ==
    ASSUME NEW st, StateOK(st), NEW caller, NEW ids, NEW add, NEW remove,
           AllPass(st, ids, OwnedBy(caller))
    PROVE  Kept(st, SetOperators(st, ids, add, remove), caller)
<1> DEFINE data(t) == [st.tokens[t] EXCEPT !.operators = (@ \cup add) \ remove]
           tokens == [t \in DOMAIN st.tokens |->
                         IF t \in Named(ids) THEN data(t) ELSE st.tokens[t]]
           new == SetOperators(st, ids, add, remove)
<1>1. st = [tokens |-> st.tokens, owners |-> st.owners,
            next |-> st.next, supply |-> st.supply]
  BY StateFields
<1>2. new = [st EXCEPT !.tokens = tokens]
  BY DEF SetOperators
<1> HIDE DEF data, new
<1>3. \A t \in DOMAIN st.tokens :
         t \notin Named(ids) => tokens[t] = st.tokens[t]
  OBVIOUS
<1> HIDE DEF tokens
<1>4. new.tokens = tokens /\ new.owners = st.owners
  BY <1>1, <1>2
<1>5. \A t \in DOMAIN st.tokens : OwnerOf(new, t) = OwnerOf(st, t)
  BY SetOperatorsKeepsOwners DEF SameOwners, new
<1>6. \A t \in Named(ids) : OwnerOf(st, t) = caller
  BY DEF AllPass, Named, OwnedBy, OwnerOf
<1>7. QED
  BY <1>3, <1>4, <1>5, <1>6 DEF Kept, NoneEmptied, ApprovalsKept, new

LEMMA ApproveForOwnerKept ==
    ASSUME NEW st, StateOK(st), NEW owner \in ActorID, NEW operator \in ActorID
    PROVE  Kept(st, ApproveForOwner(st, owner, operator).st, owner)
<1> DEFINE data == IF owner \in DOMAIN st.owners
                   THEN [st.owners[owner] EXCEPT !.operators = @ \cup {operator}]
                   ELSE NoData
           new  == ApproveForOwner(st, owner, operator).st
<1>1. IsHamt(st.owners, ActorID, OwnerData)
  BY StateFields
<1>2. new.tokens = st.tokens /\ new.owners = HamtSet(st.owners, owner, data)
  <2>1. st = [tokens |-> st.tokens, owners |-> st.owners,
              next |-> st.next, supply |-> st.supply]
    BY StateFields
  <2>2. new = [st EXCEPT !.owners = HamtSet(st.owners, owner, data)]
    BY <2>1 DEF ApproveForOwner, Ok
  <2>3. QED
    BY <2>1, <2>2
<1>3. owner \in DOMAIN st.owners => data # NoData
  BY <1>1 DEF IsHamt, OwnerData, NoData
<1> HIDE DEF data, new
<1>4. \A a \in DOMAIN st.owners : new.owners[a] = IF a = owner THEN data ELSE st.owners[a]
  BY <1>2 DEF HamtSet
<1>5. \A a : a # owner => OwnerEntry(new.owners, a) = OwnerEntry(st.owners, a)
  BY <1>2 DEF HamtSet, OwnerEntry, HamtGet
<1>6. QED
  BY <1>2, <1>3, <1>4, <1>5 DEF Kept, NoneEmptied, ApprovalsKept, OwnerOf, new

LEMMA RevokeForAllKept ==
    ASSUME NEW st, StateOK(st), NEW owner \in ActorID, NEW operator \in ActorID
    PROVE  Kept(st, RevokeForAll(st, owner, operator).st, owner)
<1> DEFINE data == [st.owners[owner] EXCEPT !.operators = @ \ {operator}]
           new  == RevokeForAll(st, owner, operator).st
<1>1. CASE owner \notin DOMAIN st.owners
  BY <1>1, UnchangedKept DEF RevokeForAll, Ok
<1>2. CASE owner \in DOMAIN st.owners
  <2>1. new.tokens = st.tokens /\ new.owners = StoreOwner(st.owners, owner, data)
    <3>1. st = [tokens |-> st.tokens, owners |-> st.owners,
                next |-> st.next, supply |-> st.supply]
      BY StateFields
    <3>2. new = [st EXCEPT !.owners = StoreOwner(st.owners, owner, data)]
      BY <1>2, <3>1 DEF RevokeForAll, Ok
    <3>3. QED
      BY <3>1, <3>2
  <2> HIDE DEF new, data
  <2>2. \A a \in DOMAIN new.owners :
           new.owners[a] = NoData => a \in DOMAIN st.owners /\ st.owners[a] = NoData
    BY <2>1, StoreOwnerDrops
  <2>3. \A a : a # owner => OwnerEntry(new.owners, a) = OwnerEntry(st.owners, a)
    <3>1. CASE data = NoData
      BY <2>1, <3>1 DEF StoreOwner, HamtDelete, OwnerEntry, HamtGet
    <3>2. CASE data # NoData
      BY <2>1, <3>2 DEF StoreOwner, HamtSet, OwnerEntry, HamtGet
    <3>3. QED
      BY <3>1, <3>2
  <2>4. QED
    BY <2>1, <2>2, <2>3 DEF Kept, NoneEmptied, ApprovalsKept, OwnerOf, new
<1>3. QED
  BY <1>1, <1>2

\* A transaction keeps what its operation keeps.
LEMMA TransactionKept ==
    ASSUME NEW w, NEW v, WorldOK(v), v.nft = w.nft, NEW r, NEW caller,
           r.ok => Kept(w.nft, r.st, caller)
    PROVE  Kept(w.nft, Transaction(v, r).world.nft, caller)
<1>1. CASE r.ok
  <2>1. Transaction(v, r).ok
    BY <1>1 DEF Transaction
  <2>2. QED
    BY <1>1, <2>1, TransactionState
<1>2. CASE ~r.ok
  BY <1>2, UnchangedKept DEF Transaction
<1>3. QED
  BY <1>1, <1>2

\* What is left when a method does not get as far as its transaction.
LEMMA EarlyKept ==
    ASSUME NEW w, NEW result, result.world.nft = w.nft, NEW caller
    PROVE  Kept(w.nft, result.world.nft, caller)
  BY UnchangedKept

LEMMA MethodsKeep ==
    ASSUME NEW w, WorldOK(w), NEW x \in Address, NEW y \in Address, NEW z \in Address,
           NEW ids \in Seq(TokenID), NEW count \in Nat
    PROVE  /\ Kept(w.nft, Mint(w, x, y, count).world.nft, x.actor)
           /\ Kept(w.nft, Burn(w, x, ids).world.nft, x.actor)
           /\ Kept(w.nft, BurnFrom(w, x, y, ids).world.nft, y.actor)
           /\ Kept(w.nft, Approve(w, x, y, ids).world.nft, x.actor)
           /\ Kept(w.nft, Revoke(w, x, y, ids).world.nft, x.actor)
           /\ Kept(w.nft, NFTApproveForOwner(w, x, y).world.nft, x.actor)
           /\ Kept(w.nft, NFTRevokeForAll(w, x, y).world.nft, x.actor)
           /\ Kept(w.nft, Transfer(w, x, y, ids).world.nft, x.actor)
           /\ Kept(w.nft, TransferFrom(w, x, y, z, ids).world.nft, y.actor)
<1> DEFINE st == w.nft
           vx == Init1(w, x)
           vy == Init1(w, y)
           vz == Init1(w, z)
           v2 == Init2(w, x, y)
           D  == Delegated(st, x.actor, y.actor)
<1>1. /\ x.actor \in ActorID /\ y.actor \in ActorID /\ z.actor \in ActorID
      /\ StateOK(st) /\ D \subseteq OwnedBy(x.actor)
  BY DelegatedOwned DEF Address, WorldOK
<1>2. \A v \in {vx, vy, vz, v2} : WorldOK(v.world) /\ v.world.nft = st
  <2>1. /\ WorldOK(vx.world) /\ vx.world.nft = st
        /\ WorldOK(vy.world) /\ vy.world.nft = st
        /\ WorldOK(vz.world) /\ vz.world.nft = st
    BY Init1Sound
  <2>2. WorldOK(v2.world) /\ v2.world.nft = st
    BY Init2Sound
  <2> HIDE DEF vx, vy, vz, v2, st
  <2>3. QED
    BY <2>1, <2>2
<1>3. Failed(w).world = w /\ \A v : Failed(v.world).world = v.world
  BY DEF Failed
<1> HIDE DEF vx, vy, vz, v2, D
<1>4. ASSUME NEW caller, NEW result,
             \/ result.world = w
             \/ \E v \in {vx, vy, vz, v2} : result.world = v.world
      PROVE  Kept(st, result.world.nft, caller)
  BY <1>2, <1>4, UnchangedKept
<1>5. ASSUME NEW caller, NEW r, r.ok => Kept(st, r.st, caller)
      PROVE  /\ Kept(st, Transaction(w, r).world.nft, caller)
             /\ \A v \in {vx, vy, vz, v2} :
                   Kept(st, Transaction(v.world, r).world.nft, caller)
  BY <1>2, <1>5, TransactionKept
<1>6. Kept(st, Mint(w, x, y, count).world.nft, x.actor)
  <2> DEFINE r == MintTokens(st, y.actor, count)
  <2>1. Kept(st, r.st, x.actor)
    BY <1>1, MintKept
  <2>2. \/ Mint(w, x, y, count) = Failed(w)
        \/ Mint(w, x, y, count) = vy
        \/ Mint(w, x, y, count) = Transaction(vy.world, r)
    BY DEF Mint, vy
  <2> HIDE DEF r, st
  <2>3. QED
    BY <1>3, <1>4, <1>5, <2>1, <2>2
<1>7. ASSUME NEW permitted, permitted \subseteq OwnedBy(x.actor), NEW caller,
             BurnTokens(st, x.actor, ids, permitted).ok
      PROVE  Kept(st, BurnTokens(st, x.actor, ids, permitted).st, caller)
  BY <1>1, <1>7, BurnKept
<1>8. Kept(st, Burn(w, x, ids).world.nft, x.actor)
  <2> DEFINE r == BurnTokens(st, x.actor, ids, OwnedBy(x.actor))
  <2>1. r.ok => Kept(st, r.st, x.actor)
    BY <1>7
  <2>2. Burn(w, x, ids) = Failed(w) \/ Burn(w, x, ids) = Transaction(w, r)
    BY DEF Burn
  <2> HIDE DEF r, st
  <2>3. QED
    BY <1>3, <1>4, <1>5, <2>1, <2>2
<1>9. Kept(st, BurnFrom(w, x, y, ids).world.nft, y.actor)
  <2> DEFINE r == BurnTokens(st, x.actor, ids, D)
  <2>1. r.ok => Kept(st, r.st, y.actor)
    BY <1>1, <1>7
  <2>2. \/ BurnFrom(w, x, y, ids) = Failed(w)
        \/ BurnFrom(w, x, y, ids) = vx
        \/ BurnFrom(w, x, y, ids) = Failed(vx.world)
        \/ BurnFrom(w, x, y, ids) = Transaction(vx.world, r)
    BY DEF BurnFrom, vx, D
  <2> HIDE DEF r, st
  <2>3. QED
    BY <1>3, <1>4, <1>5, <2>1, <2>2
<1>10. Kept(st, Approve(w, x, y, ids).world.nft, x.actor)
  <2> DEFINE r == ApproveForTokens(st, y.actor, ids, OwnedBy(x.actor))
  <2>1. r.ok => Kept(st, r.st, x.actor)
    BY <1>1, SetOperatorsKept DEF ApproveForTokens, Ok, Err
  <2>2. \/ Approve(w, x, y, ids) = Failed(w)
        \/ Approve(w, x, y, ids) = vy
        \/ Approve(w, x, y, ids) = Transaction(vy.world, r)
    BY DEF Approve, vy
  <2> HIDE DEF r, st
  <2>3. QED
    BY <1>3, <1>4, <1>5, <2>1, <2>2
<1>11. Kept(st, Revoke(w, x, y, ids).world.nft, x.actor)
  <2> DEFINE r == RevokeForTokens(st, y.actor, ids, OwnedBy(x.actor))
  <2>1. r.ok => Kept(st, r.st, x.actor)
    BY <1>1, SetOperatorsKept DEF RevokeForTokens, Ok, Err
  <2>2. \/ Revoke(w, x, y, ids) = Failed(w)
        \/ Revoke(w, x, y, ids) = [ok |-> TRUE, world |-> w]
        \/ Revoke(w, x, y, ids) = Transaction(w, r)
    BY DEF Revoke
  <2> HIDE DEF r, st
  <2>3. QED
    BY <1>3, <1>4, <1>5, <2>1, <2>2
<1>12. Kept(st, NFTApproveForOwner(w, x, y).world.nft, x.actor)
  <2> DEFINE r == ApproveForOwner(st, x.actor, y.actor)
  <2>1. Kept(st, r.st, x.actor)
    BY <1>1, ApproveForOwnerKept
  <2>2. \/ NFTApproveForOwner(w, x, y) = Failed(w)
        \/ NFTApproveForOwner(w, x, y) = vy
        \/ NFTApproveForOwner(w, x, y) = Transaction(vy.world, r)
    BY DEF NFTApproveForOwner, vy
  <2> HIDE DEF r, st
  <2>3. QED
    BY <1>3, <1>4, <1>5, <2>1, <2>2
<1>13. Kept(st, NFTRevokeForAll(w, x, y).world.nft, x.actor)
  <2> DEFINE r == RevokeForAll(st, x.actor, y.actor)
  <2>1. Kept(st, r.st, x.actor)
    BY <1>1, RevokeForAllKept
  <2>2. \/ NFTRevokeForAll(w, x, y) = Failed(w)
        \/ NFTRevokeForAll(w, x, y) = [ok |-> TRUE, world |-> w]
        \/ NFTRevokeForAll(w, x, y) = Transaction(w, r)
    BY DEF NFTRevokeForAll
  <2> HIDE DEF r, st
  <2>3. QED
    BY <1>3, <1>4, <1>5, <2>1, <2>2
<1>14. Kept(st, Transfer(w, x, y, ids).world.nft, x.actor)
  <2> DEFINE r == TransferTokens(st, ids, y.actor, OwnedBy(x.actor))
  <2>1. r.ok => Kept(st, r.st, x.actor)
    BY <1>1, TransferTokensMoves, MovedKept
  <2>2. Transfer(w, x, y, ids) = v2 \/ Transfer(w, x, y, ids) = Transaction(v2.world, r)
    BY DEF Transfer, v2
  <2> HIDE DEF r, st
  <2>3. QED
    BY <1>4, <1>5, <2>1, <2>2
<1>15. Kept(st, TransferFrom(w, x, y, z, ids).world.nft, y.actor)
  <2> DEFINE r == TransferTokens(st, ids, z.actor, D)
  <2>1. r.ok => Kept(st, r.st, y.actor)
    BY <1>1, TransferTokensMoves, MovedKept
  <2>2. \/ TransferFrom(w, x, y, z, ids) = Failed(w)
        \/ TransferFrom(w, x, y, z, ids) = vz
        \/ TransferFrom(w, x, y, z, ids) = Failed(vz.world)
        \/ TransferFrom(w, x, y, z, ids) = Transaction(vz.world, r)
    BY DEF TransferFrom, vz, D
  <2> HIDE DEF r, st
  <2>3. QED
    BY <1>3, <1>4, <1>5, <2>1, <2>2
<1>16. QED
  BY <1>6, <1>8, <1>9, <1>10, <1>11, <1>12, <1>13, <1>14, <1>15
=============================================================================
