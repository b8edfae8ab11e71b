------------------------- MODULE FRC46LibraryProofs -------------------------
(***************************************************************************)
(* What every method of the token library keeps, whatever the addresses    *)
(* and the amounts: a well-formed token state whose supply is the sum of   *)
(* its balances, changed by nothing if the method fails and by the amount  *)
(* minted or burned if it succeeds; and who may take what, that is what    *)
(* each method does to every single balance and allowance, measured        *)
(* against the actor that called it.                                       *)
(*                                                                         *)
(* First what the operations of TokenState keep, for any number of actors: *)
(* the type of the state, the canonical form of its maps, and the distance *)
(* between the supply and the sum of the balances. SumOf, the total that   *)
(* is compared with the supply, is what its recursion says, and it moves   *)
(* with a single balance: the induction is by least counterexample.        *)
(***************************************************************************)
EXTENDS FRC46Library, TLAPS, WellFoundedInduction

\* p[i] is the sum of f[1], ..., f[i] for every i up to n.
IsPrefixSum(p, f, n) ==
    /\ p \in [0..n -> Int]
    /\ p[0] = 0
    /\ \A i \in 1..n : p[i] = p[i - 1] + f[i]

\* A non-empty set of natural numbers has a least element.
LEMMA LeastNumber ==
    ASSUME NEW T, T \subseteq Nat, T # {}
    PROVE  \E x \in T : \A y \in T : ~(y < x)
<1>1. IsWellFoundedOn(OpToRel(<, Nat), Nat)
  BY NatLessThanWellFounded
<1>2. \E x \in T : \A y \in T : ~(<<y, x>> \in OpToRel(<, Nat))
  BY <1>1, WFMin
<1>3. QED
  BY <1>2 DEF OpToRel

\* One more term extends a prefix sum.
LEMMA PrefixSumStep ==
    ASSUME NEW n \in Nat, NEW f, NEW p, f[n + 1] \in Int, IsPrefixSum(p, f, n)
    PROVE  \E q : IsPrefixSum(q, f, n + 1)
<1> DEFINE q == [i \in 0..(n + 1) |-> IF i = n + 1 THEN p[n] + f[n + 1] ELSE p[i]]
<1>1. p[n] + f[n + 1] \in Int
  BY DEF IsPrefixSum
<1>2. \A i \in 0..(n + 1) : i # n + 1 => i \in 0..n
  OBVIOUS
<1>3. q \in [0..(n + 1) -> Int]
  BY <1>1, <1>2 DEF IsPrefixSum
<1>4. q[0] = 0
  BY DEF IsPrefixSum
<1>5. ASSUME NEW i \in 1..(n + 1)
      PROVE  q[i] = q[i - 1] + f[i]
  <2>1. CASE i = n + 1
    <3>1. q[i - 1] = p[n]
      BY <2>1
    <3>2. QED
      BY <2>1, <3>1
  <2>2. CASE i # n + 1
    <3>1. i \in 1..n /\ i - 1 \in 0..n
      BY <2>2
    <3>2. q[i] = p[i] /\ q[i - 1] = p[i - 1]
      BY <3>1, <2>2
    <3>3. QED
      BY <3>1, <3>2 DEF IsPrefixSum
  <2>3. QED
    BY <2>1, <2>2
<1>6. QED
  BY <1>3, <1>4, <1>5 DEF IsPrefixSum

LEMMA PrefixSumExists ==
    ASSUME NEW n \in Nat, NEW f \in [1..n -> Int]
    PROVE  \E p : IsPrefixSum(p, f, n)
<1> DEFINE Bad == {m \in 0..n : ~ \E p : IsPrefixSum(p, f, m)}
<1> SUFFICES ASSUME ~ \E p : IsPrefixSum(p, f, n)
             PROVE  FALSE
  OBVIOUS
<1>1. n \in Bad
  OBVIOUS
<1>2. Bad \subseteq Nat
  OBVIOUS
<1>3. PICK m \in Bad : \A k \in Bad : ~(k < m)
  BY <1>1, <1>2, LeastNumber
<1>4. m \in 0..n /\ ~ \E p : IsPrefixSum(p, f, m)
  BY <1>3
<1>5. m # 0
  <2>1. IsPrefixSum([i \in 0..0 |-> 0], f, 0)
    BY DEF IsPrefixSum
  <2>2. QED
    BY <1>4, <2>1
<1>6. m - 1 \in 0..n /\ m - 1 < m
  BY <1>4, <1>5
<1>7. m - 1 \notin Bad
  BY <1>3, <1>6
<1>8. PICK p : IsPrefixSum(p, f, m - 1)
  BY <1>6, <1>7
<1>9. m - 1 \in Nat /\ f[(m - 1) + 1] \in Int
  BY <1>4, <1>5, <1>6
<1>10. \E q : IsPrefixSum(q, f, (m - 1) + 1)
  BY <1>8, <1>9, PrefixSumStep
<1>11. (m - 1) + 1 = m
  BY <1>4
<1>12. QED
  BY <1>4, <1>10, <1>11

\* The terms determine every prefix sum.
LEMMA PrefixSumUnique ==
    ASSUME NEW n \in Nat, NEW f \in [1..n -> Int],
           NEW p, IsPrefixSum(p, f, n),
           NEW q, IsPrefixSum(q, f, n)
    PROVE  \A i \in 0..n : q[i] = p[i]
<1> DEFINE Bad == {i \in 0..n : q[i] # p[i]}
<1> SUFFICES ASSUME Bad # {}
             PROVE  FALSE
  OBVIOUS
<1>1. Bad \subseteq Nat
  OBVIOUS
<1>2. PICK m \in Bad : \A k \in Bad : ~(k < m)
  BY <1>1, LeastNumber
<1>3. m \in 0..n /\ q[m] # p[m]
  BY <1>2
<1>4. m # 0
  BY <1>3 DEF IsPrefixSum
<1>5. m \in 1..n /\ m - 1 \in 0..n /\ m - 1 < m
  BY <1>3, <1>4
<1>6. q[m - 1] = p[m - 1]
  BY <1>2, <1>5
<1>7. q[m] = p[m]
  BY <1>5, <1>6 DEF IsPrefixSum
<1>8. QED
  BY <1>3, <1>7

\* SumOf is the last prefix sum.
LEMMA SumOfIsPrefixSum ==
    ASSUME NEW f \in [1..NumActors -> Int],
           NEW p, IsPrefixSum(p, f, NumActors)
    PROVE  SumOf(f) = p[NumActors]
<1> DEFINE Rec(u) == u = [i \in 0..NumActors |-> IF i = 0 THEN 0 ELSE u[i - 1] + f[i]]
           U == CHOOSE u : Rec(u)
<1>1. NumActors \in Nat /\ NumActors # 0
  BY ActorsAssumption
<1>2. SumOf(f) = U[NumActors]
  BY DEF SumOf
<1>3. Rec(p)
  <2>1. \A i \in 0..NumActors : p[i] = IF i = 0 THEN 0 ELSE p[i - 1] + f[i]
    <3>1. TAKE i \in 0..NumActors
    <3>2. i = 0 \/ i \in 1..NumActors
      BY <1>1
    <3>3. QED
      BY <3>2 DEF IsPrefixSum
  <2>2. p = [i \in 0..NumActors |-> p[i]]
    BY DEF IsPrefixSum
  <2>3. QED
    BY <2>1, <2>2
<1>4. Rec(U)
  BY <1>3
<1>5. \A i \in 0..NumActors : U[i] = IF i = 0 THEN 0 ELSE U[i - 1] + f[i]
  BY <1>4
<1> HIDE DEF U, Rec
<1> DEFINE Bad == {i \in 0..NumActors : U[i] # p[i]}
<1>6. Bad = {}
  <2> SUFFICES ASSUME Bad # {}
               PROVE  FALSE
    OBVIOUS
  <2>1. Bad \subseteq Nat
    OBVIOUS
  <2>2. PICK m \in Bad : \A k \in Bad : ~(k < m)
    BY <2>1, LeastNumber
  <2>3. m \in 0..NumActors /\ U[m] # p[m]
    BY <2>2
  <2>4. m # 0
    BY <1>1, <1>5, <2>3 DEF IsPrefixSum
  <2>5. m \in 1..NumActors /\ m - 1 \in 0..NumActors /\ m - 1 < m
    BY <1>1, <2>3, <2>4
  <2>6. U[m - 1] = p[m - 1]
    BY <2>2, <2>5
  <2>7. U[m] = U[m - 1] + f[m] /\ p[m] = p[m - 1] + f[m]
    BY <1>5, <2>3, <2>4, <2>5 DEF IsPrefixSum
  <2>8. QED
    BY <2>3, <2>6, <2>7
<1>7. NumActors \in 0..NumActors
  BY <1>1
<1>8. QED
  BY <1>2, <1>6, <1>7

\* A sum of integers is an integer.
LEMMA SumOfInt ==
    ASSUME NEW f \in [1..NumActors -> Int]
    PROVE  SumOf(f) \in Int
<1>1. NumActors \in Nat /\ NumActors \in 0..NumActors
  BY ActorsAssumption
<1>2. PICK p : IsPrefixSum(p, f, NumActors)
  BY <1>1, PrefixSumExists
<1>3. SumOf(f) = p[NumActors]
  BY <1>2, SumOfIsPrefixSum
<1>4. QED
  BY <1>1, <1>2, <1>3 DEF IsPrefixSum

\* A sum of natural numbers is one.
LEMMA SumOfNat ==
    ASSUME NEW f \in [1..NumActors -> Nat]
    PROVE  SumOf(f) \in Nat
<1>1. NumActors \in Nat /\ NumActors \in 0..NumActors /\ f \in [1..NumActors -> Int]
  BY ActorsAssumption
<1>2. PICK p : IsPrefixSum(p, f, NumActors)
  BY <1>1, PrefixSumExists
<1>3. SumOf(f) = p[NumActors]
  BY <1>1, <1>2, SumOfIsPrefixSum
<1> DEFINE Bad == {i \in 0..NumActors : p[i] \notin Nat}
<1>4. Bad = {}
  <2> SUFFICES ASSUME Bad # {}
               PROVE  FALSE
    OBVIOUS
  <2>1. Bad \subseteq Nat
    OBVIOUS
  <2>2. PICK m \in Bad : \A k \in Bad : ~(k < m)
    BY <2>1, LeastNumber
  <2>3. m \in 0..NumActors /\ p[m] \notin Nat
    BY <2>2
  <2>4. m # 0
    BY <1>2, <2>3 DEF IsPrefixSum
  <2>5. m \in 1..NumActors /\ m - 1 \in 0..NumActors /\ m - 1 < m
    BY <1>1, <2>3, <2>4
  <2>6. p[m - 1] \in Nat
    BY <2>2, <2>5
  <2>7. p[m] = p[m - 1] + f[m]
    BY <1>2, <2>5 DEF IsPrefixSum
  <2>8. QED
    BY <2>3, <2>5, <2>6, <2>7
<1>5. QED
  BY <1>1, <1>3, <1>4

\* Changing one term by d changes the sum by d.
LEMMA SumOfUpdate ==
    ASSUME NEW f \in [1..NumActors -> Int],
           NEW g \in [1..NumActors -> Int],
           NEW k \in 1..NumActors, NEW d \in Int,
           g[k] = f[k] + d,
           \A i \in 1..NumActors : i # k => g[i] = f[i]
    PROVE  SumOf(g) = SumOf(f) + d
<1>1. NumActors \in Nat /\ NumActors \in 0..NumActors /\ k <= NumActors
  BY ActorsAssumption
<1>2. PICK p : IsPrefixSum(p, f, NumActors)
  BY <1>1, PrefixSumExists
<1> DEFINE q == [i \in 0..NumActors |-> IF i < k THEN p[i] ELSE p[i] + d]
<1>3. p \in [0..NumActors -> Int]
  BY <1>2 DEF IsPrefixSum
<1>4. q \in [0..NumActors -> Int]
  BY <1>1, <1>3
<1>5. q[0] = 0
  BY <1>1, <1>2 DEF IsPrefixSum
<1>6. ASSUME NEW i \in 1..NumActors
      PROVE  q[i] = q[i - 1] + g[i]
  <2>1. i \in 0..NumActors /\ i - 1 \in 0..NumActors /\ i \in Int /\ k \in Int
    BY <1>1
  <2>2. p[i] = p[i - 1] + f[i]
    BY <1>2 DEF IsPrefixSum
  <2>3. p[i] \in Int /\ p[i - 1] \in Int /\ f[i] \in Int /\ g[i] \in Int
    BY <1>3, <2>1
  <2>4. CASE i < k
    <3>1. q[i] = p[i] /\ q[i - 1] = p[i - 1] /\ g[i] = f[i]
      BY <2>1, <2>4
    <3>2. QED
      BY <2>2, <3>1
  <2>5. CASE i = k
    <3>1. q[i] = p[i] + d /\ q[i - 1] = p[i - 1] /\ g[i] = f[i] + d
      BY <2>1, <2>5
    <3>2. QED
      BY <2>2, <2>3, <3>1
  <2>6. CASE i > k
    <3>1. q[i] = p[i] + d /\ q[i - 1] = p[i - 1] + d /\ g[i] = f[i]
      BY <2>1, <2>6
    <3>2. QED
      BY <2>2, <2>3, <3>1
  <2>7. QED
    BY <2>1, <2>4, <2>5, <2>6
<1>7. IsPrefixSum(q, g, NumActors)
  BY <1>4, <1>5, <1>6 DEF IsPrefixSum
<1>8. SumOf(g) = q[NumActors] /\ SumOf(f) = p[NumActors]
  BY <1>2, <1>7, SumOfIsPrefixSum
<1>9. q[NumActors] = p[NumActors] + d
  BY <1>1
<1>10. QED
  BY <1>8, <1>9

\* A sum of zeros is zero.
LEMMA SumOfZeros ==
    SumOf([a \in 1..NumActors |-> 0]) = 0
<1> DEFINE f == [a \in 1..NumActors |-> 0]
           p == [i \in 0..NumActors |-> 0]
<1>1. NumActors \in Nat /\ NumActors \in 0..NumActors
  BY ActorsAssumption
<1>2. f \in [1..NumActors -> Int] /\ p \in [0..NumActors -> Int]
  OBVIOUS
<1>3. \A i \in 1..NumActors : p[i] = p[i - 1] + f[i]
  BY <1>1
<1>4. IsPrefixSum(p, f, NumActors)
  BY <1>1, <1>2, <1>3 DEF IsPrefixSum
<1>5. SumOf(f) = p[NumActors]
  BY <1>2, <1>4, SumOfIsPrefixSum
<1>6. QED
  BY <1>1, <1>5

-----------------------------------------------------------------------------
(* States. *)

\* A typed state in canonical form.
StateOK(st) == IsTokenState(st) /\ NoExplicitZeros(st)

-----------------------------------------------------------------------------
(* Maps. *)

\* Storing an amount changes what one key reads and keeps the map canonical.
LEMMA StoreAmountProperties ==
    ASSUME NEW K, NEW m, IsHamt(m, K, Nat), NEW k \in K, NEW v \in Nat,
           \A x \in DOMAIN m : m[x] # 0
    PROVE  LET s == StoreAmount(m, k, v)
           IN  /\ IsHamt(s, K, Nat)
               /\ \A x \in DOMAIN s : s[x] # 0
               /\ \A x : HamtGet(s, x, 0) = IF x = k THEN v ELSE HamtGet(m, x, 0)
<1>1. CASE v = 0
  <2>1. StoreAmount(m, k, v) = [x \in DOMAIN m \ {k} |-> m[x]]
    BY <1>1 DEF StoreAmount, HamtDelete
  <2>2. QED
    BY <1>1, <2>1 DEF IsHamt, HamtGet
<1>2. CASE v # 0
  <2>1. StoreAmount(m, k, v)
          = [x \in DOMAIN m \cup {k} |-> IF x = k THEN v ELSE m[x]]
    BY <1>2 DEF StoreAmount, HamtSet
  <2>2. QED
    BY <1>2, <2>1 DEF IsHamt, HamtGet
<1>3. QED
  BY <1>1, <1>2

\* The balance of an actor is a natural number, stored or not.
LEMMA GetBalanceNat ==
    ASSUME NEW st, IsTokenState(st), NEW a
    PROVE  GetBalance(st, a) \in Nat
  BY DEF IsTokenState, IsHamt, GetBalance, HamtGet

\* So is an allowance.
LEMMA GetAllowanceNat ==
    ASSUME NEW st, IsTokenState(st), NEW a, NEW b
    PROVE  GetAllowance(st, a, b) \in Nat
<1>1. CASE a \in DOMAIN st.allowances
  BY <1>1 DEF IsTokenState, IsHamt, GetAllowance, HamtGet
<1>2. CASE a \notin DOMAIN st.allowances
  BY <1>2 DEF GetAllowance, HamtGet, EmptyHamt
<1>3. QED
  BY <1>1, <1>2

LEMMA TotalBalanceNat ==
    ASSUME NEW st, IsTokenState(st)
    PROVE  TotalBalance(st) \in Nat
<1>1. BalanceOfEach(st) \in [1..NumActors -> Nat]
  BY GetBalanceNat DEF BalanceOfEach, ActorID
<1>2. QED
  BY <1>1, SumOfNat DEF TotalBalance

-----------------------------------------------------------------------------
(* Balances and supply. *)

\* Writing one balance moves the total by the difference.
LEMMA StoreBalance ==
    ASSUME NEW st, StateOK(st), NEW a \in ActorID, NEW v \in Nat
    PROVE  LET s == [st EXCEPT !.balances = StoreAmount(@, a, v)]
           IN  /\ StateOK(s)
               /\ s.supply = st.supply
               /\ s.allowances = st.allowances
               /\ TotalBalance(s) = TotalBalance(st) + (v - GetBalance(st, a))
<1> DEFINE bal == StoreAmount(st.balances, a, v)
           s == [st EXCEPT !.balances = bal]
<1>1. /\ IsHamt(bal, ActorID, Nat)
      /\ \A x \in DOMAIN bal : bal[x] # 0
      /\ \A x : HamtGet(bal, x, 0) = IF x = a THEN v ELSE HamtGet(st.balances, x, 0)
  BY StoreAmountProperties DEF StateOK, IsTokenState, NoExplicitZeros
<1> HIDE DEF bal
<1>2. st = [supply |-> st.supply, balances |-> st.balances, allowances |-> st.allowances]
  BY DEF StateOK, IsTokenState
<1>3. s = [supply |-> st.supply, balances |-> bal, allowances |-> st.allowances]
  BY <1>2
<1> HIDE DEF s
<1>4. s.supply = st.supply /\ s.balances = bal /\ s.allowances = st.allowances
  BY <1>3
<1>5. IsTokenState(s)
  BY <1>1, <1>3, <1>4 DEF StateOK, IsTokenState
<1>6. NoExplicitZeros(s)
  BY <1>1, <1>4 DEF StateOK, NoExplicitZeros
<1>7. \A x : GetBalance(s, x) = IF x = a THEN v ELSE GetBalance(st, x)
  BY <1>1, <1>4 DEF GetBalance
<1> DEFINE d == v - GetBalance(st, a)
<1>8. GetBalance(st, a) \in Nat /\ d \in Int /\ GetBalance(st, a) + d = v
  BY GetBalanceNat DEF StateOK
<1>9. /\ BalanceOfEach(st) \in [1..NumActors -> Int]
      /\ BalanceOfEach(s) \in [1..NumActors -> Int]
  BY <1>5, GetBalanceNat DEF BalanceOfEach, ActorID, StateOK
<1>10. /\ BalanceOfEach(s)[a] = BalanceOfEach(st)[a] + d
       /\ \A i \in 1..NumActors : i # a => BalanceOfEach(s)[i] = BalanceOfEach(st)[i]
  BY <1>7, <1>8 DEF BalanceOfEach, ActorID
<1>11. a \in 1..NumActors
  BY DEF ActorID
<1> HIDE DEF d
<1>12. TotalBalance(s) = TotalBalance(st) + d
  BY <1>8, <1>9, <1>10, <1>11, SumOfUpdate DEF TotalBalance
<1>13. QED
  BY <1>4, <1>5, <1>6, <1>12 DEF StateOK, s, d, bal

\* change_balance_by moves the total by delta, or fails and changes nothing.
LEMMA ChangeBalanceByProperties ==
    ASSUME NEW st, StateOK(st), NEW a \in ActorID, NEW delta \in Int
    PROVE  LET r == ChangeBalanceBy(st, a, delta)
           IN  /\ r.ok \in BOOLEAN
               /\ ~r.ok => r.st = st
               /\ StateOK(r.st)
               /\ r.st.supply = st.supply
               /\ r.st.allowances = st.allowances
               /\ r.ok => TotalBalance(r.st) = TotalBalance(st) + delta
<1> DEFINE new == GetBalance(st, a) + delta
<1>1. GetBalance(st, a) \in Nat /\ TotalBalance(st) \in Int
  BY GetBalanceNat, TotalBalanceNat DEF StateOK
<1>2. CASE delta = 0
  BY <1>1, <1>2 DEF ChangeBalanceBy, Ok
<1>3. CASE delta # 0 /\ new < 0
  BY <1>3 DEF ChangeBalanceBy, Err
<1>4. CASE delta # 0 /\ ~(new < 0)
  <2>1. new \in Nat /\ new - GetBalance(st, a) = delta
    BY <1>1, <1>4
  <2> DEFINE s == [st EXCEPT !.balances = StoreAmount(@, a, new)]
  <2>2. ChangeBalanceBy(st, a, delta) = Ok(s)
    BY <1>4 DEF ChangeBalanceBy
  <2>3. /\ StateOK(s)
        /\ s.supply = st.supply
        /\ s.allowances = st.allowances
        /\ TotalBalance(s) = TotalBalance(st) + (new - GetBalance(st, a))
    BY <2>1, StoreBalance
  <2> HIDE DEF s, new
  <2>4. QED
    BY <2>1, <2>2, <2>3 DEF Ok
<1>5. QED
  BY <1>2, <1>3, <1>4

\* set_balance sets one balance, or fails and changes nothing.
LEMMA SetBalanceProperties ==
    ASSUME NEW st, StateOK(st), NEW a \in ActorID, NEW amount \in Int
    PROVE  LET r == SetBalance(st, a, amount)
           IN  /\ r.ok \in BOOLEAN
               /\ r.ok <=> amount >= 0
               /\ ~r.ok => r.st = st
               /\ StateOK(r.st)
               /\ r.st.supply = st.supply
               /\ r.ok => TotalBalance(r.st)
                            = TotalBalance(st) + (amount - GetBalance(st, a))
<1>1. CASE amount < 0
  BY <1>1 DEF SetBalance, Err
<1>2. CASE ~(amount < 0)
  <2> DEFINE s == [st EXCEPT !.balances = StoreAmount(@, a, amount)]
  <2>1. SetBalance(st, a, amount) = Ok(s)
    BY <1>2 DEF SetBalance
  <2>2. amount \in Nat
    BY <1>2
  <2>3. /\ StateOK(s)
        /\ s.supply = st.supply
        /\ TotalBalance(s) = TotalBalance(st) + (amount - GetBalance(st, a))
    BY <2>2, StoreBalance
  <2> HIDE DEF s
  <2>4. QED
    BY <2>1, <2>2, <2>3 DEF Ok
<1>3. QED
  BY <1>1, <1>2

\* make_transfer keeps the total, the supply and the allowances.
LEMMA MakeTransferProperties ==
    ASSUME NEW st, StateOK(st), NEW from \in ActorID, NEW to \in ActorID,
           NEW amount \in Int
    PROVE  LET r == MakeTransfer(st, from, to, amount)
           IN  /\ r.ok \in BOOLEAN
               /\ StateOK(r.st)
               /\ r.st.supply = st.supply
               /\ r.st.allowances = st.allowances
               /\ r.ok => TotalBalance(r.st) = TotalBalance(st)
<1> DEFINE debit  == ChangeBalanceBy(st, from, -amount)
           credit == ChangeBalanceBy(debit.st, to, amount)
<1>1. TotalBalance(st) \in Int /\ -amount \in Int
  BY TotalBalanceNat DEF StateOK
<1>2. CASE from = to
  BY <1>2 DEF MakeTransfer, Ok, Err
<1>3. CASE from # to
  <2>1. MakeTransfer(st, from, to, amount) = IF debit.ok THEN credit ELSE debit
    BY <1>3 DEF MakeTransfer, AndThen
  <2>2. /\ debit.ok \in BOOLEAN
        /\ StateOK(debit.st)
        /\ debit.st.supply = st.supply
        /\ debit.st.allowances = st.allowances
        /\ debit.ok => TotalBalance(debit.st) = TotalBalance(st) + (-amount)
    BY <1>1, ChangeBalanceByProperties
  <2> HIDE DEF debit
  <2>3. /\ credit.ok \in BOOLEAN
        /\ StateOK(credit.st)
        /\ credit.st.supply = debit.st.supply
        /\ credit.st.allowances = debit.st.allowances
        /\ credit.ok => TotalBalance(credit.st) = TotalBalance(debit.st) + amount
    BY <2>2, ChangeBalanceByProperties
  <2> HIDE DEF credit
  <2>4. QED
    BY <1>1, <2>1, <2>2, <2>3
<1>4. QED
  BY <1>2, <1>3

\* change_supply_by moves the supply by delta, or fails and changes nothing.
LEMMA ChangeSupplyByProperties ==
    ASSUME NEW st, StateOK(st), NEW delta \in Int
    PROVE  LET r == ChangeSupplyBy(st, delta)
           IN  /\ r.ok \in BOOLEAN
               /\ ~r.ok => r.st = st
               /\ StateOK(r.st)
               /\ r.ok => r.st.supply = st.supply + delta
               /\ TotalBalance(r.st) = TotalBalance(st)
<1>1. CASE st.supply + delta < 0
  BY <1>1 DEF ChangeSupplyBy, Err
<1>2. CASE ~(st.supply + delta < 0)
  <2> DEFINE s == [st EXCEPT !.supply = @ + delta]
  <2>1. ChangeSupplyBy(st, delta) = Ok(s)
    BY <1>2 DEF ChangeSupplyBy
  <2>2. /\ st = [supply |-> st.supply, balances |-> st.balances,
                 allowances |-> st.allowances]
        /\ st.supply \in Nat
    BY DEF StateOK, IsTokenState
  <2>3. s = [supply |-> st.supply + delta, balances |-> st.balances,
             allowances |-> st.allowances]
    BY <2>2
  <2>4. st.supply + delta \in Nat
    BY <1>2, <2>2
  <2> HIDE DEF s
  <2>5. StateOK(s)
    BY <2>3, <2>4 DEF StateOK, IsTokenState, NoExplicitZeros
  <2>6. TotalBalance(s) = TotalBalance(st)
    BY <2>3 DEF TotalBalance, BalanceOfEach, GetBalance
  <2>7. QED
    BY <2>1, <2>3, <2>5, <2>6 DEF Ok
<1>3. QED
  BY <1>1, <1>2

-----------------------------------------------------------------------------
(* Allowances. *)

\* Writing one allowance, or dropping it and an emptied map, keeps the form
\* and leaves balances and supply alone.
LEMMA StoreAllowanceProperties ==
    ASSUME NEW st, StateOK(st), NEW owner \in ActorID, NEW operator \in ActorID,
           NEW v \in Nat
    PROVE  LET s == StoreAllowance(st, owner, operator, v)
           IN  /\ StateOK(s)
               /\ s.supply = st.supply
               /\ s.balances = st.balances
               /\ TotalBalance(s) = TotalBalance(st)
<1> DEFINE old == HamtGet(st.allowances, owner, EmptyHamt)
           map == StoreAmount(old, operator, v)
           all == StoreMap(st.allowances, owner, map)
           s   == StoreAllowance(st, owner, operator, v)
<1>1. IsHamt(old, ActorID, Nat) /\ \A x \in DOMAIN old : old[x] # 0
  <2>1. CASE owner \in DOMAIN st.allowances
    BY <2>1 DEF HamtGet, StateOK, IsTokenState, NoExplicitZeros
  <2>2. CASE owner \notin DOMAIN st.allowances
    BY <2>2 DEF HamtGet, EmptyHamt, IsHamt
  <2>3. QED
    BY <2>1, <2>2
<1> HIDE DEF old
<1>2. IsHamt(map, ActorID, Nat) /\ \A x \in DOMAIN map : map[x] # 0
  BY <1>1, StoreAmountProperties
<1> HIDE DEF map
<1>3. st = [supply |-> st.supply, balances |-> st.balances, allowances |-> st.allowances]
  BY DEF StateOK, IsTokenState
<1>4. s = [supply |-> st.supply, balances |-> st.balances, allowances |-> all]
  BY <1>3 DEF StoreAllowance, map, old
<1>5. /\ DOMAIN all \subseteq ActorID
      /\ \A a \in DOMAIN all : /\ IsHamt(all[a], ActorID, Nat)
                               /\ DOMAIN all[a] # {}
                               /\ \A b \in DOMAIN all[a] : all[a][b] # 0
  <2>1. /\ DOMAIN st.allowances \subseteq ActorID
        /\ \A a \in DOMAIN st.allowances :
              /\ IsHamt(st.allowances[a], ActorID, Nat)
              /\ DOMAIN st.allowances[a] # {}
              /\ \A b \in DOMAIN st.allowances[a] : st.allowances[a][b] # 0
    BY DEF StateOK, IsTokenState, NoExplicitZeros
  <2>2. CASE DOMAIN map = {}
    BY <2>1, <2>2 DEF StoreMap, HamtDelete
  <2>3. CASE DOMAIN map # {}
    <3>1. all = [x \in DOMAIN st.allowances \cup {owner} |->
                   IF x = owner THEN map ELSE st.allowances[x]]
      BY <2>3 DEF StoreMap, HamtSet
    <3>2. QED
      BY <1>2, <2>1, <2>3, <3>1
  <2>4. QED
    BY <2>2, <2>3
<1> HIDE DEF all, s
<1>6. StateOK(s)
  BY <1>4, <1>5 DEF StateOK, IsTokenState, NoExplicitZeros
<1>7. TotalBalance(s) = TotalBalance(st)
  BY <1>4 DEF TotalBalance, BalanceOfEach, GetBalance
<1>8. QED
  BY <1>4, <1>6, <1>7 DEF s

\* The outcome of an operation on allowances: a good state with the balances
\* and the supply of st.
AllowanceOnly(st, r) ==
    /\ r.ok \in BOOLEAN
    /\ ~r.ok => r.st = st
    /\ StateOK(r.st)
    /\ r.st.supply = st.supply
    /\ r.st.balances = st.balances
    /\ TotalBalance(r.st) = TotalBalance(st)

LEMMA StoreAllowanceOk ==
    ASSUME NEW st, StateOK(st), NEW owner \in ActorID, NEW operator \in ActorID,
           NEW v \in Nat
    PROVE  AllowanceOnly(st, Ok(StoreAllowance(st, owner, operator, v)))
  BY StoreAllowanceProperties DEF AllowanceOnly, Ok

LEMMA UnchangedOk ==
    ASSUME NEW st, StateOK(st)
    PROVE  AllowanceOnly(st, Ok(st)) /\ AllowanceOnly(st, Err(st))
  BY DEF AllowanceOnly, Ok, Err

LEMMA ChangeAllowanceByProperties ==
    ASSUME NEW st, StateOK(st), NEW owner \in ActorID, NEW operator \in ActorID,
           NEW delta \in Int
    PROVE  AllowanceOnly(st, ChangeAllowanceBy(st, owner, operator, delta))
<1> DEFINE sum == GetAllowance(st, owner, operator) + delta
           new == IF sum < 0 THEN 0 ELSE sum
<1>1. new \in Nat
  BY GetAllowanceNat DEF StateOK
<1>2. \/ ChangeAllowanceBy(st, owner, operator, delta) = Ok(st)
      \/ ChangeAllowanceBy(st, owner, operator, delta)
            = Ok(StoreAllowance(st, owner, operator, new))
  BY DEF ChangeAllowanceBy
<1> HIDE DEF new
<1>3. QED
  BY <1>1, <1>2, UnchangedOk, StoreAllowanceOk

LEMMA RevokeAllowanceProperties ==
    ASSUME NEW st, StateOK(st), NEW owner \in ActorID, NEW operator \in ActorID
    PROVE  AllowanceOnly(st, RevokeAllowance(st, owner, operator))
  BY UnchangedOk, StoreAllowanceOk DEF RevokeAllowance

LEMMA SetAllowanceProperties ==
    ASSUME NEW st, StateOK(st), NEW owner \in ActorID, NEW operator \in ActorID,
           NEW amount \in Int
    PROVE  AllowanceOnly(st, SetAllowance(st, owner, operator, amount))
<1>1. CASE amount < 0
  BY <1>1, UnchangedOk DEF SetAllowance
<1>2. CASE amount = 0
  BY <1>2, RevokeAllowanceProperties DEF SetAllowance
<1>3. CASE amount > 0
  <2>1. amount \in Nat
    BY <1>3
  <2>2. SetAllowance(st, owner, operator, amount)
          = Ok(StoreAllowance(st, owner, operator, amount))
    BY <1>3 DEF SetAllowance
  <2>3. QED
    BY <2>1, <2>2, StoreAllowanceOk
<1>4. QED
  BY <1>1, <1>2, <1>3

LEMMA AttemptUseAllowanceProperties ==
    ASSUME NEW st, StateOK(st), NEW owner \in ActorID, NEW operator \in ActorID,
           NEW amount \in Int
    PROVE  AllowanceOnly(st, AttemptUseAllowance(st, operator, owner, amount))
<1>1. -amount \in Int
  OBVIOUS
<1>2. QED
  BY <1>1, UnchangedOk, ChangeAllowanceByProperties DEF AttemptUseAllowance

\* The state a constructor creates.
LEMMA NewStateOK ==
    StateOK(NewState) /\ SupplyMatches(NewState)
<1>1. StateOK(NewState)
  BY DEF StateOK, IsTokenState, NoExplicitZeros, NewState, EmptyHamt, IsHamt
<1>2. BalanceOfEach(NewState) = [a \in 1..NumActors |-> 0]
  BY DEF BalanceOfEach, GetBalance, HamtGet, NewState, EmptyHamt, ActorID
<1>3. TotalBalance(NewState) = 0
  BY <1>2, SumOfZeros DEF TotalBalance
<1>4. QED
  BY <1>1, <1>3 DEF SupplyMatches, NewState

-----------------------------------------------------------------------------
(* The methods of the library. *)

WorldOK(w) ==
    /\ w = [token |-> w.token, accts |-> w.accts]
    /\ StateOK(w.token)
    /\ SupplyMatches(w.token)
    /\ w.accts \subseteq ActorID

\* r is a proper outcome of a method called on w that changes the supply by d.
Proper(w, r, d) ==
    /\ r.ok \in BOOLEAN
    /\ WorldOK(r.world)
    /\ ~r.ok => r.world.token = w.token
    /\ r.ok => r.world.token.supply = w.token.supply + d

-----------------------------------------------------------------------------
(* The steps methods are made of. *)

LEMMA FailedProper ==
    ASSUME NEW w, WorldOK(w), NEW d
    PROVE  Proper(w, Failed(w), d)
  BY DEF Proper, Failed

\* Resolving an address creates at most an account.
LEMMA Init1Properties ==
    ASSUME NEW w, WorldOK(w), NEW x \in Address
    PROVE  LET r == Init1(w, x)
           IN  /\ r.ok \in BOOLEAN
               /\ WorldOK(r.world)
               /\ r.world.token = w.token
<1> DEFINE after == AfterInit(w.accts, x)
           v == [w EXCEPT !.accts = after]
<1>1. x.actor \in ActorID /\ w.accts \subseteq ActorID
  BY DEF Address, WorldOK
<1>2. after \subseteq ActorID
  BY <1>1 DEF AfterInit
<1> HIDE DEF after
<1>3. v = [token |-> w.token, accts |-> after]
  BY DEF WorldOK
<1>4. Init1(w, x) = [ok |-> CanInit(w.accts, x), world |-> v]
  BY DEF Init1, after
<1> HIDE DEF v
<1>5. WorldOK(v) /\ v.token = w.token
  BY <1>2, <1>3 DEF WorldOK
<1>6. CanInit(w.accts, x) \in BOOLEAN
  BY DEF CanInit, Resolves
<1>7. QED
  BY <1>4, <1>5, <1>6

LEMMA Init2Properties ==
    ASSUME NEW w, WorldOK(w), NEW x \in Address, NEW y \in Address
    PROVE  LET r == Init2(w, x, y)
           IN  /\ r.ok \in BOOLEAN
               /\ WorldOK(r.world)
               /\ r.world.token = w.token
  BY Init1Properties DEF Init2

\* A failed resolution is a proper outcome.
LEMMA InitProper ==
    ASSUME NEW w, NEW r, ~r.ok, r.ok \in BOOLEAN, WorldOK(r.world),
           r.world.token = w.token, NEW d
    PROVE  Proper(w, r, d)
  BY DEF Proper

\* A transaction publishes a good state or none.
LEMMA TransactionProper ==
    ASSUME NEW w, WorldOK(w), NEW r, NEW d, r.ok \in BOOLEAN,
           r.ok => /\ StateOK(r.st)
                   /\ SupplyMatches(r.st)
                   /\ r.st.supply = w.token.supply + d
    PROVE  Proper(w, Transaction(w, r), d)
<1> DEFINE v == [w EXCEPT !.token = r.st]
<1>1. v = [token |-> r.st, accts |-> w.accts]
  BY DEF WorldOK
<1> HIDE DEF v
<1>2. CASE r.ok
  <2>1. Transaction(w, r) = [ok |-> r.ok, world |-> v]
    BY <1>2 DEF Transaction, v
  <2>2. WorldOK(v)
    BY <1>1, <1>2 DEF WorldOK
  <2>3. QED
    BY <1>1, <1>2, <2>1, <2>2 DEF Proper
<1>3. CASE ~r.ok
  <2>1. Transaction(w, r) = [ok |-> r.ok, world |-> w]
    BY <1>3 DEF Transaction
  <2>2. QED
    BY <1>3, <2>1 DEF Proper
<1>4. QED
  BY <1>2, <1>3

\* A change of allowances made in place is proper.
LEMMA InPlaceProper ==
    ASSUME NEW w, WorldOK(w), NEW r, AllowanceOnly(w.token, r)
    PROVE  Proper(w, InPlace(w, r), 0)
<1> DEFINE v == [w EXCEPT !.token = r.st]
<1>1. v = [token |-> r.st, accts |-> w.accts]
  BY DEF WorldOK
<1> HIDE DEF v
<1>2. InPlace(w, r) = [ok |-> r.ok, world |-> v]
  BY DEF InPlace, v
<1>3. WorldOK(v)
  BY <1>1 DEF WorldOK, AllowanceOnly, SupplyMatches
<1>4. w.token.supply \in Nat
  BY DEF WorldOK, StateOK, IsTokenState
<1>5. QED
  BY <1>1, <1>2, <1>3, <1>4 DEF Proper, AllowanceOnly

\* Moving one balance and then the supply by the same amount.
LEMMA BalanceThenSupply ==
    ASSUME NEW st, StateOK(st), SupplyMatches(st), NEW a \in ActorID, NEW d \in Int
    PROVE  LET change == ChangeBalanceBy(st, a, d)
               supply == ChangeSupplyBy(change.st, d)
               r      == AndThen(change, supply)
           IN  /\ r.ok \in BOOLEAN
               /\ r.ok => /\ StateOK(r.st)
                          /\ SupplyMatches(r.st)
                          /\ r.st.supply = st.supply + d
<1> DEFINE change == ChangeBalanceBy(st, a, d)
           supply == ChangeSupplyBy(change.st, d)
<1>1. /\ change.ok \in BOOLEAN
      /\ StateOK(change.st)
      /\ change.st.supply = st.supply
      /\ change.ok => TotalBalance(change.st) = TotalBalance(st) + d
  BY ChangeBalanceByProperties
<1> HIDE DEF change
<1>2. /\ supply.ok \in BOOLEAN
      /\ StateOK(supply.st)
      /\ supply.ok => supply.st.supply = change.st.supply + d
      /\ TotalBalance(supply.st) = TotalBalance(change.st)
  BY <1>1, ChangeSupplyByProperties
<1> HIDE DEF supply
<1>3. AndThen(change, supply) = IF change.ok THEN supply ELSE change
  BY DEF AndThen
<1>4. AndThen(change, supply).ok
        => /\ StateOK(supply.st)
           /\ SupplyMatches(supply.st)
           /\ supply.st.supply = st.supply + d
           /\ AndThen(change, supply) = supply
  BY <1>1, <1>2, <1>3 DEF SupplyMatches
<1>5. AndThen(change, supply).ok \in BOOLEAN
  BY <1>1, <1>2, <1>3
<1>6. QED
  BY <1>4, <1>5 DEF change, supply

-----------------------------------------------------------------------------
(* The methods. *)

LEMMA MintProper ==
    ASSUME NEW w, WorldOK(w), NEW operator \in Address, NEW owner \in Address,
           NEW amount \in Int
    PROVE  Proper(w, Mint(w, operator, owner, amount), amount)
<1> DEFINE init == Init2(w, operator, owner)
           r == AndThen(ChangeBalanceBy(w.token, owner.actor, amount),
                        ChangeSupplyBy(ChangeBalanceBy(w.token, owner.actor, amount).st,
                                       amount))
<1>1. init.ok \in BOOLEAN /\ WorldOK(init.world) /\ init.world.token = w.token
  BY Init2Properties
<1>2. /\ r.ok \in BOOLEAN
      /\ r.ok => /\ StateOK(r.st)
                 /\ SupplyMatches(r.st)
                 /\ r.st.supply = w.token.supply + amount
  <2>1. owner.actor \in ActorID /\ StateOK(w.token) /\ SupplyMatches(w.token)
    BY DEF Address, WorldOK
  <2>2. QED
    BY <2>1, BalanceThenSupply
<1>3. \/ Mint(w, operator, owner, amount) = Failed(w)
      \/ ~init.ok /\ Mint(w, operator, owner, amount) = init
      \/ Mint(w, operator, owner, amount) = Transaction(init.world, r)
  BY <1>1 DEF Mint
<1> HIDE DEF init, r
<1>4. Proper(init.world, Transaction(init.world, r), amount)
  BY <1>1, <1>2, TransactionProper
<1>5. Proper(w, Transaction(init.world, r), amount)
  BY <1>1, <1>4 DEF Proper
<1>6. QED
  BY <1>1, <1>3, <1>5, FailedProper, InitProper

LEMMA BurnProper ==
    ASSUME NEW w, WorldOK(w), NEW owner \in Address, NEW amount \in Int
    PROVE  Proper(w, Burn(w, owner, amount), -amount)
<1> DEFINE init == Init1(w, owner)
           r == AndThen(ChangeBalanceBy(w.token, owner.actor, -amount),
                        ChangeSupplyBy(ChangeBalanceBy(w.token, owner.actor, -amount).st,
                                       -amount))
<1>1. init.ok \in BOOLEAN /\ WorldOK(init.world) /\ init.world.token = w.token
  BY Init1Properties
<1>2. /\ r.ok \in BOOLEAN
      /\ r.ok => /\ StateOK(r.st)
                 /\ SupplyMatches(r.st)
                 /\ r.st.supply = w.token.supply + (-amount)
  <2>1. owner.actor \in ActorID /\ StateOK(w.token) /\ SupplyMatches(w.token)
    BY DEF Address, WorldOK
  <2>2. -amount \in Int
    OBVIOUS
  <2>3. QED
    BY <2>1, <2>2, BalanceThenSupply
<1>3. \/ Burn(w, owner, amount) = Failed(w)
      \/ ~init.ok /\ Burn(w, owner, amount) = init
      \/ Burn(w, owner, amount) = Transaction(init.world, r)
  BY <1>1 DEF Burn
<1> HIDE DEF init, r
<1>4. Proper(init.world, Transaction(init.world, r), -amount)
  BY <1>1, <1>2, TransactionProper
<1>5. Proper(w, Transaction(init.world, r), -amount)
  BY <1>1, <1>4 DEF Proper
<1>6. QED
  BY <1>1, <1>3, <1>5, FailedProper, InitProper

LEMMA BurnFromProper ==
    ASSUME NEW w, WorldOK(w), NEW operator \in Address, NEW owner \in Address,
           NEW amount \in Int
    PROVE  Proper(w, BurnFrom(w, operator, owner, amount), -amount)
<1> DEFINE use == AttemptUseAllowance(w.token, operator.actor, owner.actor, amount)
           burn == AndThen(ChangeBalanceBy(use.st, owner.actor, -amount),
                           ChangeSupplyBy(ChangeBalanceBy(use.st, owner.actor, -amount).st,
                                          -amount))
           r == AndThen(use, burn)
<1>1. /\ operator.actor \in ActorID /\ owner.actor \in ActorID
      /\ StateOK(w.token) /\ SupplyMatches(w.token)
  BY DEF Address, WorldOK
<1>2. AllowanceOnly(w.token, use)
  BY <1>1, AttemptUseAllowanceProperties
<1>3. \/ BurnFrom(w, operator, owner, amount) = Failed(w)
      \/ BurnFrom(w, operator, owner, amount) = Transaction(w, r)
  BY DEF BurnFrom
<1> HIDE DEF use
<1>4. StateOK(use.st) /\ SupplyMatches(use.st) /\ use.st.supply = w.token.supply
  BY <1>1, <1>2 DEF AllowanceOnly, SupplyMatches
<1>5. /\ burn.ok \in BOOLEAN
      /\ burn.ok => /\ StateOK(burn.st)
                    /\ SupplyMatches(burn.st)
                    /\ burn.st.supply = use.st.supply + (-amount)
  <2>1. -amount \in Int
    OBVIOUS
  <2>2. QED
    BY <1>1, <1>4, <2>1, BalanceThenSupply
<1> HIDE DEF burn
<1>6. /\ r.ok \in BOOLEAN
      /\ r.ok => /\ StateOK(r.st)
                 /\ SupplyMatches(r.st)
                 /\ r.st.supply = w.token.supply + (-amount)
  BY <1>2, <1>4, <1>5 DEF AndThen, AllowanceOnly
<1> HIDE DEF r
<1>7. Proper(w, Transaction(w, r), -amount)
  BY <1>6, TransactionProper
<1>8. QED
  BY <1>3, <1>7, FailedProper

LEMMA TransferProper ==
    ASSUME NEW w, WorldOK(w), NEW from \in Address, NEW to \in Address,
           NEW amount \in Int
    PROVE  Proper(w, Transfer(w, from, to, amount), 0)
<1> DEFINE init == Init2(w, from, to)
           r == MakeTransfer(w.token, from.actor, to.actor, amount)
<1>1. init.ok \in BOOLEAN /\ WorldOK(init.world) /\ init.world.token = w.token
  BY Init2Properties
<1>2. /\ from.actor \in ActorID /\ to.actor \in ActorID
      /\ StateOK(w.token) /\ SupplyMatches(w.token) /\ w.token.supply \in Nat
  BY DEF Address, WorldOK, StateOK, IsTokenState
<1>3. /\ r.ok \in BOOLEAN
      /\ r.ok => /\ StateOK(r.st)
                 /\ SupplyMatches(r.st)
                 /\ r.st.supply = w.token.supply + 0
  <2>1. /\ r.ok \in BOOLEAN
        /\ StateOK(r.st)
        /\ r.st.supply = w.token.supply
        /\ r.ok => TotalBalance(r.st) = TotalBalance(w.token)
    BY <1>2, MakeTransferProperties
  <2> HIDE DEF r
  <2>2. QED
    BY <1>2, <2>1 DEF SupplyMatches
<1>4. \/ Transfer(w, from, to, amount) = Failed(w)
      \/ ~init.ok /\ Transfer(w, from, to, amount) = init
      \/ Transfer(w, from, to, amount) = Transaction(init.world, r)
  BY <1>1 DEF Transfer
<1> HIDE DEF init, r
<1>5. Proper(init.world, Transaction(init.world, r), 0)
  BY <1>1, <1>3, TransactionProper
<1>6. Proper(w, Transaction(init.world, r), 0)
  BY <1>1, <1>5 DEF Proper
<1>7. QED
  BY <1>1, <1>4, <1>6, FailedProper, InitProper

LEMMA TransferFromProper ==
    ASSUME NEW w, WorldOK(w), NEW operator \in Address, NEW from \in Address,
           NEW to \in Address, NEW amount \in Int
    PROVE  Proper(w, TransferFrom(w, operator, from, to, amount), 0)
<1> DEFINE init == Init1(w, to)
           use  == AttemptUseAllowance(w.token, operator.actor, from.actor, amount)
           move == MakeTransfer(use.st, from.actor, to.actor, amount)
           r    == AndThen(use, move)
<1>1. init.ok \in BOOLEAN /\ WorldOK(init.world) /\ init.world.token = w.token
  BY Init1Properties
<1>2. /\ operator.actor \in ActorID /\ from.actor \in ActorID /\ to.actor \in ActorID
      /\ StateOK(w.token) /\ SupplyMatches(w.token) /\ w.token.supply \in Nat
  BY DEF Address, WorldOK, StateOK, IsTokenState
<1>3. AllowanceOnly(w.token, use)
  BY <1>2, AttemptUseAllowanceProperties
<1>4. \/ TransferFrom(w, operator, from, to, amount) = Failed(w)
      \/ ~init.ok /\ TransferFrom(w, operator, from, to, amount) = init
      \/ TransferFrom(w, operator, from, to, amount) = Transaction(init.world, r)
  BY <1>1 DEF TransferFrom
<1> HIDE DEF init, use
<1>5. /\ StateOK(use.st) /\ SupplyMatches(use.st)
      /\ use.st.supply = w.token.supply
  BY <1>2, <1>3 DEF AllowanceOnly, SupplyMatches
<1>6. /\ move.ok \in BOOLEAN
      /\ move.ok => /\ StateOK(move.st)
                    /\ SupplyMatches(move.st)
                    /\ move.st.supply = w.token.supply + 0
  <2>1. /\ move.ok \in BOOLEAN
        /\ StateOK(move.st)
        /\ move.st.supply = use.st.supply
        /\ move.ok => TotalBalance(move.st) = TotalBalance(use.st)
    BY <1>2, <1>5, MakeTransferProperties
  <2> HIDE DEF move
  <2>2. QED
    BY <1>2, <1>5, <2>1 DEF SupplyMatches
<1> HIDE DEF move
<1>7. /\ r.ok \in BOOLEAN
      /\ r.ok => /\ StateOK(r.st)
                 /\ SupplyMatches(r.st)
                 /\ r.st.supply = w.token.supply + 0
  BY <1>3, <1>6 DEF AndThen, AllowanceOnly
<1> HIDE DEF r
<1>8. Proper(init.world, Transaction(init.world, r), 0)
  BY <1>1, <1>7, TransactionProper
<1>9. Proper(w, Transaction(init.world, r), 0)
  BY <1>1, <1>8 DEF Proper
<1>10. QED
  BY <1>1, <1>4, <1>9, FailedProper, InitProper

\* Shared by increase_allowance and decrease_allowance.
LEMMA InitThenInPlace ==
    ASSUME NEW w, WorldOK(w), NEW x \in Address, NEW y \in Address,
           NEW r, AllowanceOnly(w.token, r)
    PROVE  /\ ~Init2(w, x, y).ok => Proper(w, Init2(w, x, y), 0)
           /\ Proper(w, InPlace(Init2(w, x, y).world, r), 0)
<1> DEFINE init == Init2(w, x, y)
<1>1. init.ok \in BOOLEAN /\ WorldOK(init.world) /\ init.world.token = w.token
  BY Init2Properties
<1> HIDE DEF init
<1>2. Proper(init.world, InPlace(init.world, r), 0)
  BY <1>1, InPlaceProper
<1>3. Proper(w, InPlace(init.world, r), 0)
  BY <1>1, <1>2 DEF Proper
<1>4. QED
  BY <1>1, <1>3, InitProper DEF init

LEMMA IncreaseAllowanceProper ==
    ASSUME NEW w, WorldOK(w), NEW owner \in Address, NEW operator \in Address,
           NEW delta \in Int
    PROVE  Proper(w, IncreaseAllowance(w, owner, operator, delta), 0)
<1> DEFINE r == ChangeAllowanceBy(w.token, owner.actor, operator.actor, delta)
<1>1. AllowanceOnly(w.token, r)
  BY ChangeAllowanceByProperties DEF WorldOK, Address
<1> HIDE DEF r
<1>2. /\ ~Init2(w, owner, operator).ok => Proper(w, Init2(w, owner, operator), 0)
      /\ Proper(w, InPlace(Init2(w, owner, operator).world, r), 0)
  BY <1>1, InitThenInPlace
<1>3. QED
  BY <1>2, FailedProper DEF IncreaseAllowance, r

LEMMA DecreaseAllowanceProper ==
    ASSUME NEW w, WorldOK(w), NEW owner \in Address, NEW operator \in Address,
           NEW delta \in Int
    PROVE  Proper(w, DecreaseAllowance(w, owner, operator, delta), 0)
<1> DEFINE r == ChangeAllowanceBy(w.token, owner.actor, operator.actor, -delta)
<1>1. AllowanceOnly(w.token, r)
  <2>1. -delta \in Int
    OBVIOUS
  <2>2. QED
    BY <2>1, ChangeAllowanceByProperties DEF WorldOK, Address
<1> HIDE DEF r
<1>2. /\ ~Init2(w, owner, operator).ok => Proper(w, Init2(w, owner, operator), 0)
      /\ Proper(w, InPlace(Init2(w, owner, operator).world, r), 0)
  BY <1>1, InitThenInPlace
<1>3. QED
  BY <1>2, FailedProper DEF DecreaseAllowance, r

LEMMA TokenRevokeAllowanceProper ==
    ASSUME NEW w, WorldOK(w), NEW owner \in Address, NEW operator \in Address
    PROVE  Proper(w, TokenRevokeAllowance(w, owner, operator), 0)
<1> DEFINE r == RevokeAllowance(w.token, owner.actor, operator.actor)
<1>1. AllowanceOnly(w.token, r)
  BY RevokeAllowanceProperties DEF WorldOK, Address
<1> HIDE DEF r
<1>2. Proper(w, InPlace(w, r), 0)
  BY <1>1, InPlaceProper
<1>3. Proper(w, [ok |-> TRUE, world |-> w], 0)
  BY DEF Proper, WorldOK, StateOK, IsTokenState
<1>4. QED
  BY <1>2, <1>3 DEF TokenRevokeAllowance, r

LEMMA TokenSetAllowanceProper ==
    ASSUME NEW w, WorldOK(w), NEW owner \in Address, NEW operator \in Address,
           NEW amount \in Int
    PROVE  Proper(w, TokenSetAllowance(w, owner, operator, amount), 0)
<1> DEFINE r == SetAllowance(w.token, owner.actor, operator.actor, amount)
<1>1. AllowanceOnly(w.token, r)
  BY SetAllowanceProperties DEF WorldOK, Address
<1> HIDE DEF r
<1>2. /\ ~Init2(w, owner, operator).ok => Proper(w, Init2(w, owner, operator), 0)
      /\ Proper(w, InPlace(Init2(w, owner, operator).world, r), 0)
  BY <1>1, InitThenInPlace
<1>3. QED
  BY <1>2, FailedProper, TokenRevokeAllowanceProper DEF TokenSetAllowance, r

\* set_balance changes the supply by what it changes the balance.
LEMMA TokenSetBalanceProper ==
    ASSUME NEW w, WorldOK(w), NEW owner \in Address, NEW amount \in Int
    PROVE  Proper(w, TokenSetBalance(w, owner, amount),
                  amount - GetBalance(w.token, owner.actor))
<1> DEFINE init == Init1(w, owner)
           old  == GetBalance(w.token, owner.actor)
           set  == SetBalance(w.token, owner.actor, amount)
           s    == [set.st EXCEPT !.supply = @ + (amount - old)]
           r    == AndThen(set, Ok(s))
<1>1. init.ok \in BOOLEAN /\ WorldOK(init.world) /\ init.world.token = w.token
  BY Init1Properties
<1>2. /\ owner.actor \in ActorID /\ StateOK(w.token) /\ SupplyMatches(w.token)
      /\ w.token.supply \in Nat
  BY DEF Address, WorldOK, StateOK, IsTokenState
<1>3. /\ set.ok \in BOOLEAN
      /\ StateOK(set.st)
      /\ set.st.supply = w.token.supply
      /\ set.ok => TotalBalance(set.st) = TotalBalance(w.token) + (amount - old)
  BY <1>2, SetBalanceProperties
<1>4. old \in Nat
  BY <1>2, GetBalanceNat DEF StateOK
<1>5. \/ TokenSetBalance(w, owner, amount) = Failed(w)
      \/ ~init.ok /\ TokenSetBalance(w, owner, amount) = init
      \/ TokenSetBalance(w, owner, amount) = Transaction(init.world, r)
  BY <1>1 DEF TokenSetBalance
<1> HIDE DEF init, set, old
<1>6. s = [supply |-> w.token.supply + (amount - old), balances |-> set.st.balances,
           allowances |-> set.st.allowances]
  BY <1>3 DEF StateOK, IsTokenState
<1> HIDE DEF s
<1>7. set.ok => TotalBalance(s) = w.token.supply + (amount - old)
  BY <1>2, <1>3, <1>6 DEF SupplyMatches, TotalBalance, BalanceOfEach, GetBalance
<1>8. set.ok => s.supply = TotalBalance(s) /\ s.supply \in Nat
  <2>1. TotalBalance(set.st) \in Nat
    BY <1>3, TotalBalanceNat DEF StateOK
  <2>2. set.ok => TotalBalance(set.st) = w.token.supply + (amount - old)
    BY <1>2, <1>3 DEF SupplyMatches
  <2>3. QED
    BY <1>6, <1>7, <2>1, <2>2
<1>9. set.ok => StateOK(s)
  BY <1>3, <1>6, <1>8 DEF StateOK, IsTokenState, NoExplicitZeros
<1>10. r = IF set.ok THEN [ok |-> TRUE, st |-> s] ELSE set
  BY DEF AndThen, Ok
<1> HIDE DEF r
<1>11. /\ r.ok \in BOOLEAN
       /\ r.ok => /\ StateOK(r.st)
                  /\ SupplyMatches(r.st)
                  /\ r.st.supply = w.token.supply + (amount - old)
  BY <1>3, <1>6, <1>8, <1>9, <1>10 DEF SupplyMatches
<1>12. Proper(init.world, Transaction(init.world, r), amount - old)
  BY <1>1, <1>11, TransactionProper
<1>13. Proper(w, Transaction(init.world, r), amount - old)
  BY <1>1, <1>12 DEF Proper
<1>14. QED
  BY <1>1, <1>5, <1>13, FailedProper, InitProper DEF old

-----------------------------------------------------------------------------
(* Authority. *)

\* From st to new, an account is debited by its owner or against an allowance
\* that shrinks by what was taken.
DebitsCovered(st, new, operator) ==
    \A a \in ActorID :
        LET spent == GetBalance(st, a) - GetBalance(new, a)
        IN  spent > 0 /\ operator # a
            => GetAllowance(st, a, operator) - GetAllowance(new, a, operator) = spent

\* Allowances are raised by the owner and lowered by the owner or the spender.
AllowancesKept(st, new, operator) ==
    \A a, b \in ActorID :
        LET used == GetAllowance(st, a, b) - GetAllowance(new, a, b)
        IN  /\ used < 0 => operator = a
            /\ used > 0 => operator \in {a, b}

Authorised(st, new, operator) ==
    DebitsCovered(st, new, operator) /\ AllowancesKept(st, new, operator)

\* Nothing but the allowance of one pair differs.
OnlyPair(st, new, owner, operator) ==
    /\ \A a \in ActorID : GetBalance(new, a) = GetBalance(st, a)
    /\ \A a, b \in ActorID :
          ~(a = owner /\ b = operator) => GetAllowance(new, a, b) = GetAllowance(st, a, b)

-----------------------------------------------------------------------------
(* TokenState, one entry at a time. *)

LEMMA ChangeBalanceByPointwise ==
    ASSUME NEW st, StateOK(st), NEW a \in ActorID, NEW delta \in Int
    PROVE  LET r == ChangeBalanceBy(st, a, delta)
           IN  /\ r.ok \in BOOLEAN
               /\ StateOK(r.st)
               /\ \A x, y : GetAllowance(r.st, x, y) = GetAllowance(st, x, y)
               /\ \A x \in ActorID : x # a => GetBalance(r.st, x) = GetBalance(st, x)
               /\ r.ok => GetBalance(r.st, a) = GetBalance(st, a) + delta
<1> DEFINE r   == ChangeBalanceBy(st, a, delta)
           new == GetBalance(st, a) + delta
           s   == [st EXCEPT !.balances = StoreAmount(@, a, new)]
<1>1. r.ok \in BOOLEAN /\ StateOK(r.st) /\ r.st.allowances = st.allowances
  BY ChangeBalanceByProperties
<1>2. \A x, y : GetAllowance(r.st, x, y) = GetAllowance(st, x, y)
  BY <1>1 DEF GetAllowance
<1>3. GetBalance(st, a) \in Nat
  BY GetBalanceNat DEF StateOK
<1>4. CASE delta = 0
  BY <1>1, <1>2, <1>3, <1>4 DEF ChangeBalanceBy, Ok
<1>5. CASE delta # 0 /\ new < 0
  BY <1>1, <1>2, <1>5 DEF ChangeBalanceBy, Err
<1>6. CASE delta # 0 /\ ~(new < 0)
  <2>1. new \in Nat
    BY <1>3, <1>6
  <2>2. r = Ok(s)
    BY <1>6 DEF ChangeBalanceBy
  <2>3. s.balances = StoreAmount(st.balances, a, new)
    BY DEF StateOK, IsTokenState
  <2> HIDE DEF new
  <2>4. \A x : HamtGet(StoreAmount(st.balances, a, new), x, 0)
                 = IF x = a THEN new ELSE HamtGet(st.balances, x, 0)
    BY <2>1, StoreAmountProperties DEF StateOK, IsTokenState, NoExplicitZeros
  <2> HIDE DEF s
  <2>5. \A x : GetBalance(s, x) = IF x = a THEN new ELSE GetBalance(st, x)
    BY <2>3, <2>4 DEF GetBalance
  <2>6. r.ok /\ r.st = s
    BY <2>2 DEF Ok
  <2>7. QED
    BY <1>1, <1>2, <2>5, <2>6 DEF new
<1>7. QED
  BY <1>4, <1>5, <1>6

\* change_supply_by touches neither balances nor allowances.
LEMMA ChangeSupplyByPointwise ==
    ASSUME NEW st, StateOK(st), NEW delta \in Int
    PROVE  LET r == ChangeSupplyBy(st, delta)
           IN  /\ StateOK(r.st)
               /\ \A x, y : GetAllowance(r.st, x, y) = GetAllowance(st, x, y)
               /\ \A x : GetBalance(r.st, x) = GetBalance(st, x)
<1> DEFINE s == [st EXCEPT !.supply = @ + delta]
<1>1. StateOK(ChangeSupplyBy(st, delta).st)
  BY ChangeSupplyByProperties
<1>2. s.balances = st.balances /\ s.allowances = st.allowances
  BY DEF StateOK, IsTokenState
<1>3. ChangeSupplyBy(st, delta) = Err(st) \/ ChangeSupplyBy(st, delta) = Ok(s)
  BY DEF ChangeSupplyBy
<1> HIDE DEF s
<1>4. \/ ChangeSupplyBy(st, delta).st = st
      \/ ChangeSupplyBy(st, delta).st = s
  BY <1>3 DEF Ok, Err
<1>5. QED
  BY <1>1, <1>2, <1>4 DEF GetAllowance, GetBalance

\* make_transfer takes from nobody but the account it names.
LEMMA MakeTransferPointwise ==
    ASSUME NEW st, StateOK(st), NEW from \in ActorID, NEW to \in ActorID,
           NEW amount \in Nat
    PROVE  LET r == MakeTransfer(st, from, to, amount)
           IN  r.ok => /\ \A x, y : GetAllowance(r.st, x, y) = GetAllowance(st, x, y)
                       /\ \A x \in ActorID :
                             x # from => GetBalance(r.st, x) >= GetBalance(st, x)
                       /\ \/ GetBalance(r.st, from) = GetBalance(st, from)
                          \/ GetBalance(r.st, from) = GetBalance(st, from) - amount
<1> DEFINE debit  == ChangeBalanceBy(st, from, -amount)
           credit == ChangeBalanceBy(debit.st, to, amount)
<1>0. \A x : GetBalance(st, x) \in Nat
  BY GetBalanceNat DEF StateOK
<1>1. CASE from = to
  BY <1>0, <1>1 DEF MakeTransfer, Ok, Err
<1>2. CASE from # to
  <2>1. MakeTransfer(st, from, to, amount) = IF debit.ok THEN credit ELSE debit
    BY <1>2 DEF MakeTransfer, AndThen
  <2>2. /\ debit.ok \in BOOLEAN
        /\ StateOK(debit.st)
        /\ \A x, y : GetAllowance(debit.st, x, y) = GetAllowance(st, x, y)
        /\ \A x \in ActorID : x # from => GetBalance(debit.st, x) = GetBalance(st, x)
        /\ debit.ok => GetBalance(debit.st, from) = GetBalance(st, from) + (-amount)
    <3>1. -amount \in Int
      OBVIOUS
    <3>2. QED
      BY <3>1, ChangeBalanceByPointwise
  <2> HIDE DEF debit
  <2>3. /\ \A x, y : GetAllowance(credit.st, x, y) = GetAllowance(debit.st, x, y)
        /\ \A x \in ActorID : x # to => GetBalance(credit.st, x) = GetBalance(debit.st, x)
        /\ credit.ok => GetBalance(credit.st, to) = GetBalance(debit.st, to) + amount
    BY <2>2, ChangeBalanceByPointwise
  <2> HIDE DEF credit
  <2>4. QED
    BY <1>0, <1>2, <2>1, <2>2, <2>3
<1>3. QED
  BY <1>1, <1>2

\* Writing one allowance changes that of the pair and no other.
LEMMA StoreAllowancePointwise ==
    ASSUME NEW st, StateOK(st), NEW owner \in ActorID, NEW operator \in ActorID,
           NEW v \in Nat
    PROVE  LET s == StoreAllowance(st, owner, operator, v)
           IN  /\ OnlyPair(st, s, owner, operator)
               /\ GetAllowance(s, owner, operator) = v
<1> DEFINE old == HamtGet(st.allowances, owner, EmptyHamt)
           map == StoreAmount(old, operator, v)
           all == StoreMap(st.allowances, owner, map)
           s   == StoreAllowance(st, owner, operator, v)
<1>1. IsHamt(old, ActorID, Nat) /\ \A x \in DOMAIN old : old[x] # 0
  <2>1. CASE owner \in DOMAIN st.allowances
    BY <2>1 DEF HamtGet, StateOK, IsTokenState, NoExplicitZeros
  <2>2. CASE owner \notin DOMAIN st.allowances
    BY <2>2 DEF HamtGet, EmptyHamt, IsHamt
  <2>3. QED
    BY <2>1, <2>2
<1>2. st = [supply |-> st.supply, balances |-> st.balances, allowances |-> st.allowances]
  BY DEF StateOK, IsTokenState
<1>3. s = [supply |-> st.supply, balances |-> st.balances, allowances |-> all]
  BY <1>2 DEF StoreAllowance
<1> HIDE DEF old
<1>4. \A x : HamtGet(map, x, 0) = IF x = operator THEN v ELSE HamtGet(old, x, 0)
  BY <1>1, StoreAmountProperties
<1> HIDE DEF map
<1>5. \A b : HamtGet(HamtGet(all, owner, EmptyHamt), b, 0) = HamtGet(map, b, 0)
  <2>1. CASE DOMAIN map = {}
    BY <2>1 DEF StoreMap, HamtDelete, HamtGet, EmptyHamt
  <2>2. CASE DOMAIN map # {}
    BY <2>2 DEF StoreMap, HamtSet, HamtGet
  <2>3. QED
    BY <2>1, <2>2
<1>6. \A a : a # owner
         => HamtGet(all, a, EmptyHamt) = HamtGet(st.allowances, a, EmptyHamt)
  <2>1. CASE DOMAIN map = {}
    BY <2>1 DEF StoreMap, HamtDelete, HamtGet
  <2>2. CASE DOMAIN map # {}
    BY <2>2 DEF StoreMap, HamtSet, HamtGet
  <2>3. QED
    BY <2>1, <2>2
<1> HIDE DEF all, s
<1>7. s.allowances = all /\ s.balances = st.balances
  BY <1>3
<1>8. \A b : GetAllowance(s, owner, b)
               = IF b = operator THEN v ELSE GetAllowance(st, owner, b)
  BY <1>4, <1>5, <1>7 DEF GetAllowance, old
<1>9. \A a, b : a # owner => GetAllowance(s, a, b) = GetAllowance(st, a, b)
  BY <1>6, <1>7 DEF GetAllowance
<1>10. \A a : GetBalance(s, a) = GetBalance(st, a)
  BY <1>7 DEF GetBalance
<1>11. QED
  BY <1>8, <1>9, <1>10 DEF OnlyPair, s

LEMMA ChangeAllowanceByPointwise ==
    ASSUME NEW st, StateOK(st), NEW owner \in ActorID, NEW operator \in ActorID,
           NEW delta \in Int
    PROVE  LET r   == ChangeAllowanceBy(st, owner, operator, delta)
               sum == GetAllowance(st, owner, operator) + delta
           IN  /\ OnlyPair(st, r.st, owner, operator)
               /\ GetAllowance(r.st, owner, operator) = IF sum < 0 THEN 0 ELSE sum
<1> DEFINE sum == GetAllowance(st, owner, operator) + delta
           new == IF sum < 0 THEN 0 ELSE sum
<1>1. GetAllowance(st, owner, operator) \in Nat /\ new \in Nat
  BY GetAllowanceNat DEF StateOK
<1>2. OnlyPair(st, st, owner, operator)
  BY DEF OnlyPair
<1>3. CASE delta = 0
  BY <1>1, <1>2, <1>3 DEF ChangeAllowanceBy, Ok
<1>4. CASE delta < 0 /\ owner \notin DOMAIN st.allowances
  <2>1. GetAllowance(st, owner, operator) = 0
    BY <1>4 DEF GetAllowance, HamtGet, EmptyHamt
  <2>2. QED
    BY <1>2, <1>4, <2>1 DEF ChangeAllowanceBy, Ok
<1>5. CASE ~(delta = 0 \/ (delta < 0 /\ owner \notin DOMAIN st.allowances))
  <2>1. ChangeAllowanceBy(st, owner, operator, delta)
          = Ok(StoreAllowance(st, owner, operator, new))
    BY <1>5 DEF ChangeAllowanceBy
  <2> HIDE DEF new
  <2>2. /\ OnlyPair(st, StoreAllowance(st, owner, operator, new), owner, operator)
        /\ GetAllowance(StoreAllowance(st, owner, operator, new), owner, operator) = new
    BY <1>1, StoreAllowancePointwise
  <2>3. QED
    BY <2>1, <2>2 DEF Ok, new
<1>6. QED
  BY <1>3, <1>4, <1>5

\* revoke_allowance and set_allowance touch the pair they name.
LEMMA RevokeAllowancePointwise ==
    ASSUME NEW st, StateOK(st), NEW owner \in ActorID, NEW operator \in ActorID
    PROVE  OnlyPair(st, RevokeAllowance(st, owner, operator).st, owner, operator)
<1>1. OnlyPair(st, st, owner, operator)
  BY DEF OnlyPair
<1>2. OnlyPair(st, StoreAllowance(st, owner, operator, 0), owner, operator)
  BY StoreAllowancePointwise
<1>3. QED
  BY <1>1, <1>2 DEF RevokeAllowance, Ok

LEMMA SetAllowancePointwise ==
    ASSUME NEW st, StateOK(st), NEW owner \in ActorID, NEW operator \in ActorID,
           NEW amount \in Int
    PROVE  OnlyPair(st, SetAllowance(st, owner, operator, amount).st, owner, operator)
<1>1. CASE amount < 0
  BY <1>1 DEF OnlyPair, SetAllowance, Err
<1>2. CASE amount = 0
  BY <1>2, RevokeAllowancePointwise DEF SetAllowance
<1>3. CASE amount > 0
  <2>1. OnlyPair(st, StoreAllowance(st, owner, operator, amount), owner, operator)
    BY <1>3, StoreAllowancePointwise
  <2>2. SetAllowance(st, owner, operator, amount)
          = Ok(StoreAllowance(st, owner, operator, amount))
    BY <1>3 DEF SetAllowance
  <2>3. QED
    BY <2>1, <2>2 DEF Ok
<1>4. QED
  BY <1>1, <1>2, <1>3

\* attempt_use_allowance charges the pair exactly the amount, or fails.
LEMMA AttemptUseAllowancePointwise ==
    ASSUME NEW st, StateOK(st), NEW owner \in ActorID, NEW operator \in ActorID,
           NEW amount \in Nat
    PROVE  LET r == AttemptUseAllowance(st, operator, owner, amount)
           IN  r.ok => /\ OnlyPair(st, r.st, owner, operator)
                       /\ GetAllowance(r.st, owner, operator)
                            = GetAllowance(st, owner, operator) - amount
<1> DEFINE current == GetAllowance(st, owner, operator)
           r == AttemptUseAllowance(st, operator, owner, amount)
<1>1. current \in Nat
  BY GetAllowanceNat DEF StateOK
<1>2. CASE (current = 0 /\ operator # owner) \/ current < amount
  BY <1>2 DEF AttemptUseAllowance, Err
<1>3. CASE ~((current = 0 /\ operator # owner) \/ current < amount) /\ amount = 0
  BY <1>1, <1>3 DEF AttemptUseAllowance, Ok, OnlyPair
<1>4. CASE ~((current = 0 /\ operator # owner) \/ current < amount) /\ amount # 0
  <2>1. r = ChangeAllowanceBy(st, owner, operator, -amount)
    BY <1>4 DEF AttemptUseAllowance
  <2>2. -amount \in Int /\ current + (-amount) = current - amount
        /\ ~(current - amount < 0)
    BY <1>1, <1>4
  <2>3. /\ OnlyPair(st, r.st, owner, operator)
        /\ GetAllowance(r.st, owner, operator)
             = IF current + (-amount) < 0 THEN 0 ELSE current + (-amount)
    BY <2>1, <2>2, ChangeAllowanceByPointwise
  <2>4. QED
    BY <2>2, <2>3
<1>5. QED
  BY <1>2, <1>3, <1>4

-----------------------------------------------------------------------------
(* What follows for the caller. *)

LEMMA UnchangedAuthorised ==
    ASSUME NEW st, StateOK(st), NEW operator
    PROVE  Authorised(st, st, operator)
  BY GetBalanceNat, GetAllowanceNat
     DEF StateOK, Authorised, DebitsCovered, AllowancesKept

\* Balances that only the caller's own may fall, and no allowance, need no
\* authority.
LEMMA OwnDebitAuthorised ==
    ASSUME NEW st, StateOK(st), NEW new, StateOK(new), NEW operator,
           \A x, y : GetAllowance(new, x, y) = GetAllowance(st, x, y),
           \A x \in ActorID : x # operator => GetBalance(new, x) >= GetBalance(st, x)
    PROVE  Authorised(st, new, operator)
<1>1. \A x, y : /\ GetBalance(st, x) \in Nat /\ GetBalance(new, x) \in Nat
                /\ GetAllowance(st, x, y) \in Nat
  BY GetBalanceNat, GetAllowanceNat DEF StateOK
<1>2. DebitsCovered(st, new, operator)
  BY <1>1 DEF DebitsCovered
<1>3. AllowancesKept(st, new, operator)
  BY <1>1 DEF AllowancesKept
<1>4. QED
  BY <1>2, <1>3 DEF Authorised

\* An owner does with the allowances it gives what it likes.
LEMMA OwnPairAuthorised ==
    ASSUME NEW st, StateOK(st), NEW new, StateOK(new), NEW owner \in ActorID,
           NEW operator \in ActorID, OnlyPair(st, new, owner, operator)
    PROVE  Authorised(st, new, owner)
<1>1. \A x, y : /\ GetBalance(st, x) \in Nat /\ GetBalance(new, x) \in Nat
                /\ GetAllowance(st, x, y) \in Nat /\ GetAllowance(new, x, y) \in Nat
  BY GetBalanceNat, GetAllowanceNat DEF StateOK
<1>2. DebitsCovered(st, new, owner)
  BY <1>1 DEF DebitsCovered, OnlyPair
<1>3. AllowancesKept(st, new, owner)
  BY <1>1 DEF AllowancesKept, OnlyPair
<1>4. QED
  BY <1>2, <1>3 DEF Authorised

\* Using an allowance and then taking the same amount from the owner, whatever
\* is given to others.
LEMMA UseThenDebitAuthorised ==
    ASSUME NEW st, StateOK(st), NEW mid, StateOK(mid), NEW new, StateOK(new),
           NEW owner \in ActorID, NEW operator \in ActorID, NEW amount \in Nat,
           OnlyPair(st, mid, owner, operator),
           GetAllowance(mid, owner, operator)
             = GetAllowance(st, owner, operator) - amount,
           \A x, y : GetAllowance(new, x, y) = GetAllowance(mid, x, y),
           \A x \in ActorID : x # owner => GetBalance(new, x) >= GetBalance(mid, x),
           \/ GetBalance(new, owner) = GetBalance(mid, owner)
           \/ GetBalance(new, owner) = GetBalance(mid, owner) - amount
    PROVE  Authorised(st, new, operator)
<1>1. \A x, y : /\ GetBalance(st, x) \in Nat /\ GetBalance(mid, x) \in Nat
                /\ GetBalance(new, x) \in Nat
                /\ GetAllowance(st, x, y) \in Nat /\ GetAllowance(new, x, y) \in Nat
  BY GetBalanceNat, GetAllowanceNat DEF StateOK
<1>2. \A x \in ActorID : x # owner => GetBalance(new, x) >= GetBalance(st, x)
  BY DEF OnlyPair
<1>3. \/ GetBalance(new, owner) = GetBalance(st, owner)
      \/ GetBalance(new, owner) = GetBalance(st, owner) - amount
  BY DEF OnlyPair
<1>4. GetAllowance(st, owner, operator) - GetAllowance(new, owner, operator) = amount
  BY <1>1
<1>5. DebitsCovered(st, new, operator)
  BY <1>1, <1>2, <1>3, <1>4 DEF DebitsCovered
<1>6. \A a, b \in ActorID : ~(a = owner /\ b = operator)
         => GetAllowance(new, a, b) = GetAllowance(st, a, b)
  BY DEF OnlyPair
<1>7. AllowancesKept(st, new, operator)
  BY <1>1, <1>4, <1>6 DEF AllowancesKept
<1>8. QED
  BY <1>5, <1>7 DEF Authorised

\* How a method ends: refused, short of an address, or with the outcome r of
\* its transaction, after addresses were resolved in init.
Ends(w, init, r, result) ==
    \/ result = Failed(w)
    \/ ~init.ok /\ result = init
    \/ result = Transaction(init.world, r)

LEMMA TransactionAuthorised ==
    ASSUME NEW w, WorldOK(w), NEW init, init.world.token = w.token,
           WorldOK(init.world), NEW r, NEW operator,
           r.ok => Authorised(w.token, r.st, operator),
           NEW result, Ends(w, init, r, result)
    PROVE  Authorised(w.token, result.world.token, operator)
<1>1. Authorised(w.token, w.token, operator)
  BY UnchangedAuthorised DEF WorldOK
<1>2. CASE result = Failed(w)
  BY <1>1, <1>2 DEF Failed
<1>3. CASE ~init.ok /\ result = init
  BY <1>1, <1>3
<1>4. CASE result = Transaction(init.world, r) /\ ~r.ok
  BY <1>1, <1>4 DEF Transaction
<1>5. CASE result = Transaction(init.world, r) /\ r.ok
  <2> DEFINE v == [init.world EXCEPT !.token = r.st]
  <2>1. v.token = r.st
    BY DEF WorldOK
  <2>2. result = [ok |-> r.ok, world |-> v]
    BY <1>5 DEF Transaction
  <2> HIDE DEF v
  <2>3. QED
    BY <1>5, <2>1, <2>2
<1>6. QED
  BY <1>2, <1>3, <1>4, <1>5 DEF Ends

LEMMA InPlaceAuthorised ==
    ASSUME NEW w, WorldOK(w), NEW init, init.world.token = w.token,
           WorldOK(init.world), NEW r, NEW operator,
           Authorised(w.token, r.st, operator), NEW result,
           \/ result = Failed(w)
           \/ ~init.ok /\ result = init
           \/ result = InPlace(init.world, r)
    PROVE  Authorised(w.token, result.world.token, operator)
<1>1. Authorised(w.token, w.token, operator)
  BY UnchangedAuthorised DEF WorldOK
<1>2. CASE result = Failed(w)
  BY <1>1, <1>2 DEF Failed
<1>3. CASE ~init.ok /\ result = init
  BY <1>1, <1>3
<1>4. CASE result = InPlace(init.world, r)
  <2> DEFINE v == [init.world EXCEPT !.token = r.st]
  <2>1. v.token = r.st
    BY DEF WorldOK
  <2>2. result = [ok |-> r.ok, world |-> v]
    BY <1>4 DEF InPlace
  <2> HIDE DEF v
  <2>3. QED
    BY <2>1, <2>2
<1>5. QED
  BY <1>2, <1>3, <1>4

-----------------------------------------------------------------------------
(* The methods. *)

LEMMA MintAuthorised ==
    ASSUME NEW w, WorldOK(w), NEW operator \in Address, NEW owner \in Address,
           NEW amount \in Int
    PROVE  Authorised(w.token, Mint(w, operator, owner, amount).world.token,
                      operator.actor)
<1> DEFINE init   == Init2(w, operator, owner)
           credit == ChangeBalanceBy(w.token, owner.actor, amount)
           issue  == ChangeSupplyBy(credit.st, amount)
           r      == AndThen(credit, issue)
           result == Mint(w, operator, owner, amount)
<1>1. WorldOK(init.world) /\ init.world.token = w.token
  BY Init2Properties
<1>2. owner.actor \in ActorID /\ StateOK(w.token)
  BY DEF Address, WorldOK
<1>3. /\ credit.ok \in BOOLEAN
      /\ StateOK(credit.st)
      /\ \A x, y : GetAllowance(credit.st, x, y) = GetAllowance(w.token, x, y)
      /\ \A x \in ActorID :
            x # owner.actor => GetBalance(credit.st, x) = GetBalance(w.token, x)
      /\ credit.ok => GetBalance(credit.st, owner.actor)
                        = GetBalance(w.token, owner.actor) + amount
  BY <1>2, ChangeBalanceByPointwise
<1>4. CASE ~ValidAmount(amount)
  <2>1. Ends(w, init, r, result)
    BY <1>4 DEF Mint, Ends
  <2>2. result = Failed(w)
    BY <1>4 DEF Mint
  <2>3. QED
    BY <1>2, <2>2, UnchangedAuthorised DEF Failed
<1>5. CASE ValidAmount(amount)
  <2>1. Ends(w, init, r, result)
    BY DEF Mint, Ends
  <2>2. amount >= 0
    BY <1>5 DEF ValidAmount
  <2> HIDE DEF init, credit, result
  <2>3. \A x \in ActorID : GetBalance(w.token, x) \in Nat
    BY <1>2, GetBalanceNat DEF StateOK
  <2>4. credit.ok => \A x \in ActorID : GetBalance(credit.st, x) >= GetBalance(w.token, x)
    BY <1>3, <2>2, <2>3
  <2>5. /\ StateOK(issue.st)
        /\ \A x, y : GetAllowance(issue.st, x, y) = GetAllowance(credit.st, x, y)
        /\ \A x : GetBalance(issue.st, x) = GetBalance(credit.st, x)
    BY <1>3, ChangeSupplyByPointwise
  <2> HIDE DEF issue
  <2>6. r.ok => credit.ok /\ r = issue
    BY DEF AndThen
  <2> HIDE DEF r
  <2>7. r.ok => Authorised(w.token, r.st, operator.actor)
    BY <1>2, <1>3, <2>4, <2>5, <2>6, OwnDebitAuthorised
  <2>8. QED
    BY <1>1, <2>1, <2>7, TransactionAuthorised DEF result
<1>6. QED
  BY <1>4, <1>5

LEMMA BurnAuthorised ==
    ASSUME NEW w, WorldOK(w), NEW owner \in Address, NEW amount \in Int
    PROVE  Authorised(w.token, Burn(w, owner, amount).world.token, owner.actor)
<1> DEFINE init   == Init1(w, owner)
           debit  == ChangeBalanceBy(w.token, owner.actor, -amount)
           retire == ChangeSupplyBy(debit.st, -amount)
           r      == AndThen(debit, retire)
           result == Burn(w, owner, amount)
<1>1. WorldOK(init.world) /\ init.world.token = w.token
  BY Init1Properties
<1>2. owner.actor \in ActorID /\ StateOK(w.token) /\ -amount \in Int
  BY DEF Address, WorldOK
<1>3. /\ StateOK(debit.st)
      /\ \A x, y : GetAllowance(debit.st, x, y) = GetAllowance(w.token, x, y)
      /\ \A x \in ActorID :
            x # owner.actor => GetBalance(debit.st, x) = GetBalance(w.token, x)
  BY <1>2, ChangeBalanceByPointwise
<1>4. Ends(w, init, r, result)
  BY DEF Burn, Ends
<1> HIDE DEF init, debit, result
<1>5. /\ StateOK(retire.st)
      /\ \A x, y : GetAllowance(retire.st, x, y) = GetAllowance(debit.st, x, y)
      /\ \A x : GetBalance(retire.st, x) = GetBalance(debit.st, x)
  BY <1>2, <1>3, ChangeSupplyByPointwise
<1> HIDE DEF retire
<1>6. r.ok => r = retire
  BY DEF AndThen
<1> HIDE DEF r
<1>7. \A x \in ActorID : GetBalance(w.token, x) \in Nat
  BY <1>2, GetBalanceNat DEF StateOK
<1>8. r.ok => Authorised(w.token, r.st, owner.actor)
  BY <1>2, <1>3, <1>5, <1>6, <1>7, OwnDebitAuthorised
<1>9. QED
  BY <1>1, <1>4, <1>8, TransactionAuthorised DEF result

LEMMA BurnFromAuthorised ==
    ASSUME NEW w, WorldOK(w), NEW operator \in Address, NEW owner \in Address,
           NEW amount \in Int
    PROVE  Authorised(w.token, BurnFrom(w, operator, owner, amount).world.token,
                      operator.actor)
<1> DEFINE init   == [ok |-> TRUE, world |-> w]
           use    == AttemptUseAllowance(w.token, operator.actor, owner.actor, amount)
           debit  == ChangeBalanceBy(use.st, owner.actor, -amount)
           retire == ChangeSupplyBy(debit.st, -amount)
           r      == AndThen(use, AndThen(debit, retire))
           result == BurnFrom(w, operator, owner, amount)
<1>1. /\ owner.actor \in ActorID /\ operator.actor \in ActorID
      /\ StateOK(w.token) /\ -amount \in Int
  BY DEF Address, WorldOK
<1>2. CASE ~ValidAmount(amount)
  <2>1. result = Failed(w)
    BY <1>2 DEF BurnFrom
  <2>2. QED
    BY <1>1, <2>1, UnchangedAuthorised DEF Failed
<1>3. CASE ValidAmount(amount)
  <2>1. Ends(w, init, r, result)
    BY DEF BurnFrom, Ends
  <2>2. amount \in Nat
    BY <1>3 DEF ValidAmount
  <2>3. StateOK(use.st)
    BY <1>1, AttemptUseAllowanceProperties DEF AllowanceOnly
  <2>4. use.ok => /\ OnlyPair(w.token, use.st, owner.actor, operator.actor)
                  /\ GetAllowance(use.st, owner.actor, operator.actor)
                       = GetAllowance(w.token, owner.actor, operator.actor) - amount
    BY <1>1, <2>2, AttemptUseAllowancePointwise
  <2> HIDE DEF use, result
  <2>5. /\ StateOK(debit.st)
        /\ \A x, y : GetAllowance(debit.st, x, y) = GetAllowance(use.st, x, y)
        /\ \A x \in ActorID :
              x # owner.actor => GetBalance(debit.st, x) = GetBalance(use.st, x)
        /\ debit.ok => GetBalance(debit.st, owner.actor)
                         = GetBalance(use.st, owner.actor) + (-amount)
    BY <1>1, <2>3, ChangeBalanceByPointwise
  <2> HIDE DEF debit
  <2>6. /\ StateOK(retire.st)
        /\ \A x, y : GetAllowance(retire.st, x, y) = GetAllowance(debit.st, x, y)
        /\ \A x : GetBalance(retire.st, x) = GetBalance(debit.st, x)
    BY <1>1, <2>5, ChangeSupplyByPointwise
  <2> HIDE DEF retire
  <2>7. r.ok => use.ok /\ debit.ok /\ r = retire
    BY DEF AndThen
  <2> HIDE DEF r
  <2>8. \A x \in ActorID : GetBalance(use.st, x) \in Nat
    BY <2>3, GetBalanceNat DEF StateOK
  <2>9. r.ok => /\ GetBalance(r.st, owner.actor) = GetBalance(use.st, owner.actor) - amount
                /\ \A x \in ActorID :
                      x # owner.actor => GetBalance(r.st, x) >= GetBalance(use.st, x)
                /\ \A x, y : GetAllowance(r.st, x, y) = GetAllowance(use.st, x, y)
                /\ StateOK(r.st)
    BY <1>1, <2>2, <2>5, <2>6, <2>7, <2>8
  <2>10. r.ok => Authorised(w.token, r.st, operator.actor)
    BY <1>1, <2>2, <2>3, <2>4, <2>7, <2>9, UseThenDebitAuthorised
  <2>11. WorldOK(init.world) /\ init.world.token = w.token
    OBVIOUS
  <2> HIDE DEF init
  <2>12. QED
    BY <2>1, <2>10, <2>11, TransactionAuthorised DEF result
<1>4. QED
  BY <1>2, <1>3

LEMMA TransferAuthorised ==
    ASSUME NEW w, WorldOK(w), NEW from \in Address, NEW to \in Address,
           NEW amount \in Int
    PROVE  Authorised(w.token, Transfer(w, from, to, amount).world.token, from.actor)
<1> DEFINE init   == Init2(w, from, to)
           r      == MakeTransfer(w.token, from.actor, to.actor, amount)
           result == Transfer(w, from, to, amount)
<1>1. WorldOK(init.world) /\ init.world.token = w.token
  BY Init2Properties
<1>2. from.actor \in ActorID /\ to.actor \in ActorID /\ StateOK(w.token)
  BY DEF Address, WorldOK
<1>3. CASE ~ValidAmount(amount)
  BY <1>2, <1>3, UnchangedAuthorised DEF Transfer, Failed
<1>4. CASE ValidAmount(amount)
  <2>1. Ends(w, init, r, result)
    BY DEF Transfer, Ends
  <2>2. amount \in Nat
    BY <1>4 DEF ValidAmount
  <2>3. /\ StateOK(r.st)
        /\ r.ok => /\ \A x, y : GetAllowance(r.st, x, y) = GetAllowance(w.token, x, y)
                   /\ \A x \in ActorID :
                         x # from.actor => GetBalance(r.st, x) >= GetBalance(w.token, x)
    BY <1>2, <2>2, MakeTransferProperties, MakeTransferPointwise
  <2> HIDE DEF init, r, result
  <2>4. r.ok => Authorised(w.token, r.st, from.actor)
    BY <1>2, <2>3, OwnDebitAuthorised
  <2>5. QED
    BY <1>1, <2>1, <2>4, TransactionAuthorised DEF result
<1>5. QED
  BY <1>3, <1>4

LEMMA TransferFromAuthorised ==
    ASSUME NEW w, WorldOK(w), NEW operator \in Address, NEW from \in Address,
           NEW to \in Address, NEW amount \in Int
    PROVE  Authorised(w.token, TransferFrom(w, operator, from, to, amount).world.token,
                      operator.actor)
<1> DEFINE init   == Init1(w, to)
           use    == AttemptUseAllowance(w.token, operator.actor, from.actor, amount)
           move   == MakeTransfer(use.st, from.actor, to.actor, amount)
           r      == AndThen(use, move)
           result == TransferFrom(w, operator, from, to, amount)
<1>1. WorldOK(init.world) /\ init.world.token = w.token
  BY Init1Properties
<1>2. /\ operator.actor \in ActorID /\ from.actor \in ActorID /\ to.actor \in ActorID
      /\ StateOK(w.token)
  BY DEF Address, WorldOK
<1>3. CASE ~ValidAmount(amount)
  <2>1. result = Failed(w)
    BY <1>3 DEF TransferFrom
  <2>2. QED
    BY <1>2, <2>1, UnchangedAuthorised DEF Failed
<1>4. CASE ValidAmount(amount)
  <2>1. Ends(w, init, r, result)
    BY DEF TransferFrom, Ends
  <2>2. amount \in Nat
    BY <1>4 DEF ValidAmount
  <2>3. /\ StateOK(use.st)
        /\ use.ok => /\ OnlyPair(w.token, use.st, from.actor, operator.actor)
                     /\ GetAllowance(use.st, from.actor, operator.actor)
                          = GetAllowance(w.token, from.actor, operator.actor) - amount
    BY <1>2, <2>2, AttemptUseAllowanceProperties, AttemptUseAllowancePointwise
       DEF AllowanceOnly
  <2> HIDE DEF init, use, result
  <2>4. /\ StateOK(move.st)
        /\ move.ok =>
             /\ \A x, y : GetAllowance(move.st, x, y) = GetAllowance(use.st, x, y)
             /\ \A x \in ActorID :
                   x # from.actor => GetBalance(move.st, x) >= GetBalance(use.st, x)
             /\ \/ GetBalance(move.st, from.actor) = GetBalance(use.st, from.actor)
                \/ GetBalance(move.st, from.actor)
                     = GetBalance(use.st, from.actor) - amount
    <3>1. StateOK(move.st)
      BY <1>2, <2>2, <2>3, MakeTransferProperties
    <3>2. StateOK(use.st) /\ from.actor \in ActorID /\ to.actor \in ActorID
      BY <1>2, <2>3
    <3>3. QED
      BY <2>2, <3>1, <3>2, MakeTransferPointwise
  <2> HIDE DEF move
  <2>5. r.ok => use.ok /\ move.ok /\ r = move
    BY DEF AndThen
  <2> HIDE DEF r
  <2>6. r.ok => Authorised(w.token, r.st, operator.actor)
    BY <1>2, <2>2, <2>3, <2>4, <2>5, UseThenDebitAuthorised
  <2>7. QED
    BY <1>1, <2>1, <2>6, TransactionAuthorised DEF result
<1>5. QED
  BY <1>3, <1>4

LEMMA IncreaseAllowanceAuthorised ==
    ASSUME NEW w, WorldOK(w), NEW owner \in Address, NEW operator \in Address,
           NEW delta \in Int
    PROVE  Authorised(w.token, IncreaseAllowance(w, owner, operator, delta).world.token,
                      owner.actor)
<1> DEFINE init == Init2(w, owner, operator)
           r    == ChangeAllowanceBy(w.token, owner.actor, operator.actor, delta)
<1>1. WorldOK(init.world) /\ init.world.token = w.token
  BY Init2Properties
<1>2. owner.actor \in ActorID /\ operator.actor \in ActorID /\ StateOK(w.token)
  BY DEF Address, WorldOK
<1>3. Authorised(w.token, r.st, owner.actor)
  <2>1. StateOK(r.st) /\ OnlyPair(w.token, r.st, owner.actor, operator.actor)
    BY <1>2, ChangeAllowanceByProperties, ChangeAllowanceByPointwise DEF AllowanceOnly
  <2> HIDE DEF r
  <2>2. QED
    BY <1>2, <2>1, OwnPairAuthorised
<1>4. \/ IncreaseAllowance(w, owner, operator, delta) = Failed(w)
      \/ ~init.ok /\ IncreaseAllowance(w, owner, operator, delta) = init
      \/ IncreaseAllowance(w, owner, operator, delta) = InPlace(init.world, r)
  BY DEF IncreaseAllowance
<1> HIDE DEF init, r
<1>5. QED
  BY <1>1, <1>3, <1>4, InPlaceAuthorised

LEMMA DecreaseAllowanceAuthorised ==
    ASSUME NEW w, WorldOK(w), NEW owner \in Address, NEW operator \in Address,
           NEW delta \in Int
    PROVE  Authorised(w.token, DecreaseAllowance(w, owner, operator, delta).world.token,
                      owner.actor)
<1> DEFINE init == Init2(w, owner, operator)
           r    == ChangeAllowanceBy(w.token, owner.actor, operator.actor, -delta)
<1>1. WorldOK(init.world) /\ init.world.token = w.token
  BY Init2Properties
<1>2. /\ owner.actor \in ActorID /\ operator.actor \in ActorID /\ StateOK(w.token)
      /\ -delta \in Int
  BY DEF Address, WorldOK
<1>3. Authorised(w.token, r.st, owner.actor)
  <2>1. StateOK(r.st) /\ OnlyPair(w.token, r.st, owner.actor, operator.actor)
    BY <1>2, ChangeAllowanceByProperties, ChangeAllowanceByPointwise DEF AllowanceOnly
  <2> HIDE DEF r
  <2>2. QED
    BY <1>2, <2>1, OwnPairAuthorised
<1>4. \/ DecreaseAllowance(w, owner, operator, delta) = Failed(w)
      \/ ~init.ok /\ DecreaseAllowance(w, owner, operator, delta) = init
      \/ DecreaseAllowance(w, owner, operator, delta) = InPlace(init.world, r)
  BY DEF DecreaseAllowance
<1> HIDE DEF init, r
<1>5. QED
  BY <1>1, <1>3, <1>4, InPlaceAuthorised

LEMMA TokenRevokeAllowanceAuthorised ==
    ASSUME NEW w, WorldOK(w), NEW owner \in Address, NEW operator \in Address
    PROVE  Authorised(w.token, TokenRevokeAllowance(w, owner, operator).world.token,
                      owner.actor)
<1> DEFINE init == [ok |-> FALSE, world |-> w]
           r    == RevokeAllowance(w.token, owner.actor, operator.actor)
<1>1. owner.actor \in ActorID /\ operator.actor \in ActorID /\ StateOK(w.token)
  BY DEF Address, WorldOK
<1>2. Authorised(w.token, r.st, owner.actor)
  <2>1. StateOK(r.st) /\ OnlyPair(w.token, r.st, owner.actor, operator.actor)
    BY <1>1, RevokeAllowanceProperties, RevokeAllowancePointwise DEF AllowanceOnly
  <2> HIDE DEF r
  <2>2. QED
    BY <1>1, <2>1, OwnPairAuthorised
<1>3. CASE ~(Resolves(w.accts, owner) /\ Resolves(w.accts, operator))
  <2>1. TokenRevokeAllowance(w, owner, operator) = [ok |-> TRUE, world |-> w]
    BY <1>3 DEF TokenRevokeAllowance
  <2>2. QED
    BY <1>1, <2>1, UnchangedAuthorised
<1>4. CASE Resolves(w.accts, owner) /\ Resolves(w.accts, operator)
  <2>1. TokenRevokeAllowance(w, owner, operator) = InPlace(init.world, r)
    BY <1>4 DEF TokenRevokeAllowance
  <2>2. WorldOK(init.world) /\ init.world.token = w.token
    OBVIOUS
  <2> HIDE DEF init, r
  <2>3. QED
    BY <1>2, <2>1, <2>2, InPlaceAuthorised
<1>5. QED
  BY <1>3, <1>4

LEMMA TokenSetAllowanceAuthorised ==
    ASSUME NEW w, WorldOK(w), NEW owner \in Address, NEW operator \in Address,
           NEW amount \in Int
    PROVE  Authorised(w.token, TokenSetAllowance(w, owner, operator, amount).world.token,
                      owner.actor)
<1> DEFINE init   == Init2(w, owner, operator)
           r      == SetAllowance(w.token, owner.actor, operator.actor, amount)
           result == TokenSetAllowance(w, owner, operator, amount)
<1>1. WorldOK(init.world) /\ init.world.token = w.token
  BY Init2Properties
<1>2. owner.actor \in ActorID /\ operator.actor \in ActorID /\ StateOK(w.token)
  BY DEF Address, WorldOK
<1>3. Authorised(w.token, r.st, owner.actor)
  <2>1. StateOK(r.st) /\ OnlyPair(w.token, r.st, owner.actor, operator.actor)
    BY <1>2, SetAllowanceProperties, SetAllowancePointwise DEF AllowanceOnly
  <2> HIDE DEF r
  <2>2. QED
    BY <1>2, <2>1, OwnPairAuthorised
<1>4. \/ result = Failed(w)
      \/ ~init.ok /\ result = init
      \/ result = InPlace(init.world, r)
      \/ result = TokenRevokeAllowance(w, owner, operator)
  BY DEF TokenSetAllowance
<1>5. CASE result = TokenRevokeAllowance(w, owner, operator)
  BY <1>5, TokenRevokeAllowanceAuthorised
<1> HIDE DEF init, r, result
<1>6. CASE result # TokenRevokeAllowance(w, owner, operator)
  BY <1>1, <1>3, <1>4, <1>6, InPlaceAuthorised DEF result
<1>7. QED
  BY <1>5, <1>6 DEF result

\* set_balance asks for no authority, but leaves the allowances alone.
LEMMA TokenSetBalanceKeepsAllowances ==
    ASSUME NEW w, WorldOK(w), NEW owner \in Address, NEW amount \in Int
    PROVE  AllowancesKept(w.token, TokenSetBalance(w, owner, amount).world.token,
                          owner.actor)
<1> DEFINE init == Init1(w, owner)
           old  == GetBalance(w.token, owner.actor)
           set  == SetBalance(w.token, owner.actor, amount)
           s    == [set.st EXCEPT !.supply = @ + (amount - old)]
           r    == AndThen(set, Ok(s))
           result == TokenSetBalance(w, owner, amount)
           new  == result.world.token
<1>1. WorldOK(init.world) /\ init.world.token = w.token
  BY Init1Properties
<1>2. StateOK(w.token) /\ w.token.supply \in Nat /\ owner.actor \in ActorID
  BY DEF WorldOK, StateOK, IsTokenState, Address
<1>3. \/ result = Failed(w)
      \/ ~init.ok /\ result = init
      \/ result = Transaction(init.world, r)
  BY <1>1 DEF TokenSetBalance
<1>4. set.st.allowances = w.token.allowances /\ StateOK(set.st)
  <2>1. StateOK(set.st)
    BY <1>2, SetBalanceProperties
  <2>2. CASE amount < 0
    BY <2>1, <2>2 DEF SetBalance, Err
  <2>3. CASE ~(amount < 0)
    BY <1>2, <2>1, <2>3 DEF SetBalance, Ok, StateOK, IsTokenState
  <2>4. QED
    BY <2>2, <2>3
<1> HIDE DEF set, init, old
<1>5. s.allowances = w.token.allowances
  BY <1>4 DEF StateOK, IsTokenState
<1> HIDE DEF s
<1>6. r.ok => r.st = s
  BY DEF AndThen, Ok
<1> HIDE DEF r
<1>7. new.allowances = w.token.allowances
  <2>1. CASE result = Failed(w) \/ (~init.ok /\ result = init)
    BY <1>1, <2>1 DEF Failed
  <2>2. CASE result = Transaction(init.world, r) /\ ~r.ok
    BY <1>1, <2>2 DEF Transaction
  <2>3. CASE result = Transaction(init.world, r) /\ r.ok
    <3> DEFINE v == [init.world EXCEPT !.token = r.st]
    <3>1. v.token = r.st
      BY <1>1 DEF WorldOK
    <3>2. result = [ok |-> r.ok, world |-> v]
      BY <2>3 DEF Transaction
    <3> HIDE DEF v, result
    <3>3. QED
      BY <1>5, <1>6, <2>3, <3>1, <3>2
  <2>4. QED
    BY <1>3, <2>1, <2>2, <2>3
<1> HIDE DEF result
<1>8. \A x, y : /\ GetAllowance(new, x, y) = GetAllowance(w.token, x, y)
                /\ GetAllowance(w.token, x, y) \in Nat
  BY <1>2, <1>7, GetAllowanceNat DEF GetAllowance, StateOK
<1>9. QED
  BY <1>8 DEF AllowancesKept, result

-----------------------------------------------------------------------------
(* What each method does to the balances, seen as payments. *)

SameBalances(st, new) == \A x \in ActorID : GetBalance(new, x) = GetBalance(st, x)

Paid(st, new, a, b) ==
    \E n \in 0..GetBalance(st, a) :
        \A x \in ActorID :
            GetBalance(new, x) = GetBalance(st, x) + (IF x = b THEN n ELSE 0)
                                                   - (IF x = a THEN n ELSE 0)

Credited(st, new, a) ==
    /\ GetBalance(new, a) >= GetBalance(st, a)
    /\ \A x \in ActorID : x # a => GetBalance(new, x) = GetBalance(st, x)

Debited(st, new, a) ==
    /\ \E n \in 0..GetBalance(st, a) : GetBalance(new, a) = GetBalance(st, a) - n
    /\ \A x \in ActorID : x # a => GetBalance(new, x) = GetBalance(st, x)

LEMMA MakeTransferPays ==
    ASSUME NEW st, StateOK(st), NEW from \in ActorID, NEW to \in ActorID,
           NEW amount \in Nat, MakeTransfer(st, from, to, amount).ok
    PROVE  Paid(st, MakeTransfer(st, from, to, amount).st, from, to)
<1> DEFINE debit  == ChangeBalanceBy(st, from, -amount)
           credit == ChangeBalanceBy(debit.st, to, amount)
           new    == MakeTransfer(st, from, to, amount).st
<1>1. \A x : GetBalance(st, x) \in Nat
  BY GetBalanceNat DEF StateOK
<1>2. CASE from = to
  <2>1. new = st
    BY <1>2 DEF MakeTransfer, Ok, Err
  <2>2. 0 \in 0..GetBalance(st, from)
    BY <1>1
  <2> HIDE DEF new
  <2>3. \A x \in ActorID :
           GetBalance(new, x) = GetBalance(st, x) + (IF x = to THEN 0 ELSE 0)
                                                  - (IF x = from THEN 0 ELSE 0)
    BY <1>1, <2>1
  <2>4. QED
    BY <2>2, <2>3 DEF Paid, new
<1>3. CASE from # to
  <2>1. MakeTransfer(st, from, to, amount) = IF debit.ok THEN credit ELSE debit
    BY <1>3 DEF MakeTransfer, AndThen
  <2>2. -amount \in Int
    OBVIOUS
  <2>3. /\ debit.ok \in BOOLEAN /\ StateOK(debit.st)
        /\ \A x \in ActorID : x # from => GetBalance(debit.st, x) = GetBalance(st, x)
        /\ debit.ok => GetBalance(debit.st, from) = GetBalance(st, from) + (-amount)
    BY <2>2, ChangeBalanceByPointwise
  <2> HIDE DEF debit
  <2>4. /\ \A x \in ActorID : x # to => GetBalance(credit.st, x) = GetBalance(debit.st, x)
        /\ credit.ok => GetBalance(credit.st, to) = GetBalance(debit.st, to) + amount
    BY <2>3, ChangeBalanceByPointwise
  <2>5. debit.ok /\ credit.ok /\ new = credit.st
    BY <2>1, <2>3
  <2>6. GetBalance(debit.st, from) \in Nat
    BY <2>3, GetBalanceNat DEF StateOK
  <2> HIDE DEF credit, new
  <2>7. amount \in 0..GetBalance(st, from)
    BY <1>1, <2>3, <2>5, <2>6
  <2>8. \A x \in ActorID :
           GetBalance(new, x) = GetBalance(st, x) + (IF x = to THEN amount ELSE 0)
                                                  - (IF x = from THEN amount ELSE 0)
    BY <1>1, <1>3, <2>3, <2>4, <2>5
  <2>9. QED
    BY <2>7, <2>8 DEF Paid, new
<1>4. QED
  BY <1>2, <1>3

\* What a transaction did is what its method did.
LEMMA TransactionEffect ==
    ASSUME NEW w, NEW init, WorldOK(init.world), NEW r, NEW result,
           Ends(w, init, r, result), result.ok
    PROVE  r.ok /\ result.world.token = r.st
<1> DEFINE v == [init.world EXCEPT !.token = r.st]
<1>1. result = Transaction(init.world, r)
  BY DEF Ends, Failed
<1>2. v.token = r.st
  BY DEF WorldOK
<1> HIDE DEF v
<1>3. result = [ok |-> r.ok, world |-> IF r.ok THEN v ELSE init.world]
  BY <1>1 DEF Transaction, v
<1>4. QED
  BY <1>2, <1>3

LEMMA MintCredits ==
    ASSUME NEW w, WorldOK(w), NEW operator \in Address, NEW owner \in Address,
           NEW amount \in Int, Mint(w, operator, owner, amount).ok
    PROVE  /\ Credited(w.token, Mint(w, operator, owner, amount).world.token, owner.actor)
           /\ GetBalance(Mint(w, operator, owner, amount).world.token, owner.actor) >= amount
<1> DEFINE init   == Init2(w, operator, owner)
           credit == ChangeBalanceBy(w.token, owner.actor, amount)
           issue  == ChangeSupplyBy(credit.st, amount)
           r      == AndThen(credit, issue)
           result == Mint(w, operator, owner, amount)
<1>1. WorldOK(init.world)
  BY Init2Properties
<1>2. owner.actor \in ActorID /\ StateOK(w.token)
  BY DEF Address, WorldOK
<1>3. amount >= 0
  BY DEF Mint, Failed, ValidAmount
<1>4. Ends(w, init, r, result)
  BY DEF Mint, Ends
<1>5. /\ StateOK(credit.st)
      /\ \A x \in ActorID :
            x # owner.actor => GetBalance(credit.st, x) = GetBalance(w.token, x)
      /\ credit.ok => GetBalance(credit.st, owner.actor)
                        = GetBalance(w.token, owner.actor) + amount
  BY <1>2, ChangeBalanceByPointwise
<1> HIDE DEF init, credit, result
<1>6. \A x : GetBalance(issue.st, x) = GetBalance(credit.st, x)
  BY <1>5, ChangeSupplyByPointwise
<1> HIDE DEF issue
<1>7. r.ok => credit.ok /\ r = issue
  BY DEF AndThen
<1> HIDE DEF r
<1>8. r.ok /\ result.world.token = r.st
  BY <1>1, <1>4, TransactionEffect DEF result
<1>9. GetBalance(w.token, owner.actor) \in Nat
  BY <1>2, GetBalanceNat DEF StateOK
<1>10. /\ Credited(w.token, r.st, owner.actor)
       /\ GetBalance(r.st, owner.actor) >= amount
  BY <1>2, <1>3, <1>5, <1>6, <1>7, <1>8, <1>9 DEF Credited
<1>11. QED
  BY <1>8, <1>10 DEF result

LEMMA BurnDebits ==
    ASSUME NEW w, WorldOK(w), NEW owner \in Address, NEW amount \in Int,
           Burn(w, owner, amount).ok
    PROVE  Debited(w.token, Burn(w, owner, amount).world.token, owner.actor)
<1> DEFINE init   == Init1(w, owner)
           debit  == ChangeBalanceBy(w.token, owner.actor, -amount)
           retire == ChangeSupplyBy(debit.st, -amount)
           r      == AndThen(debit, retire)
           result == Burn(w, owner, amount)
<1>1. WorldOK(init.world)
  BY Init1Properties
<1>2. owner.actor \in ActorID /\ StateOK(w.token) /\ -amount \in Int
  BY DEF Address, WorldOK
<1>3. amount >= 0
  BY DEF Burn, Failed, ValidAmount
<1>4. Ends(w, init, r, result)
  BY DEF Burn, Ends
<1>5. /\ StateOK(debit.st)
      /\ \A x \in ActorID :
            x # owner.actor => GetBalance(debit.st, x) = GetBalance(w.token, x)
      /\ debit.ok => GetBalance(debit.st, owner.actor)
                        = GetBalance(w.token, owner.actor) + (-amount)
  BY <1>2, ChangeBalanceByPointwise
<1> HIDE DEF init, debit, result
<1>6. \A x : GetBalance(retire.st, x) = GetBalance(debit.st, x)
  BY <1>2, <1>5, ChangeSupplyByPointwise
<1> HIDE DEF retire
<1>7. r.ok => debit.ok /\ r = retire
  BY DEF AndThen
<1> HIDE DEF r
<1>8. r.ok /\ result.world.token = r.st
  BY <1>1, <1>4, TransactionEffect DEF result
<1>9. /\ GetBalance(w.token, owner.actor) \in Nat
      /\ GetBalance(debit.st, owner.actor) \in Nat
  BY <1>2, <1>5, GetBalanceNat DEF StateOK
<1>10. /\ amount \in 0..GetBalance(w.token, owner.actor)
       /\ GetBalance(r.st, owner.actor) = GetBalance(w.token, owner.actor) - amount
  BY <1>2, <1>3, <1>5, <1>6, <1>7, <1>8, <1>9
<1>11. Debited(w.token, r.st, owner.actor)
  BY <1>2, <1>5, <1>6, <1>7, <1>8, <1>10 DEF Debited
<1>12. QED
  BY <1>8, <1>11 DEF result

LEMMA TransferPays ==
    ASSUME NEW w, WorldOK(w), NEW from \in Address, NEW to \in Address,
           NEW amount \in Int, Transfer(w, from, to, amount).ok
    PROVE  Paid(w.token, Transfer(w, from, to, amount).world.token, from.actor, to.actor)
<1> DEFINE init   == Init2(w, from, to)
           r      == MakeTransfer(w.token, from.actor, to.actor, amount)
           result == Transfer(w, from, to, amount)
<1>1. WorldOK(init.world)
  BY Init2Properties
<1>2. from.actor \in ActorID /\ to.actor \in ActorID /\ StateOK(w.token)
  BY DEF Address, WorldOK
<1>3. amount \in Nat
  BY DEF Transfer, Failed, ValidAmount
<1>4. Ends(w, init, r, result)
  BY DEF Transfer, Ends
<1> HIDE DEF init, r, result
<1>5. r.ok /\ result.world.token = r.st
  BY <1>1, <1>4, TransactionEffect DEF result
<1>6. QED
  BY <1>2, <1>3, <1>5, MakeTransferPays DEF r, result

\* A transfer leaves its recipient with what was sent, and its sender, if
\* another, without.
Funded(st, new, a, b, amount) ==
    /\ GetBalance(new, b) >= amount
    /\ a # b => GetBalance(new, a) = GetBalance(st, a) - amount
    /\ \A x \in ActorID : x # a /\ x # b => GetBalance(new, x) = GetBalance(st, x)

LEMMA MakeTransferFunds ==
    ASSUME NEW st, StateOK(st), NEW from \in ActorID, NEW to \in ActorID,
           NEW amount \in Nat, MakeTransfer(st, from, to, amount).ok
    PROVE  Funded(st, MakeTransfer(st, from, to, amount).st, from, to, amount)
<1> DEFINE debit  == ChangeBalanceBy(st, from, -amount)
           credit == ChangeBalanceBy(debit.st, to, amount)
           new    == MakeTransfer(st, from, to, amount).st
<1>1. \A x : GetBalance(st, x) \in Nat
  BY GetBalanceNat DEF StateOK
<1>2. CASE from = to
  <2>1. new = st /\ ~(GetBalance(st, from) < amount)
    BY <1>2 DEF MakeTransfer, Ok, Err
  <2> HIDE DEF new
  <2>2. GetBalance(new, to) >= amount
    BY <1>1, <1>2, <2>1
  <2>3. QED
    BY <1>2, <2>1, <2>2 DEF Funded, new
<1>3. CASE from # to
  <2>1. MakeTransfer(st, from, to, amount) = IF debit.ok THEN credit ELSE debit
    BY <1>3 DEF MakeTransfer, AndThen
  <2>2. -amount \in Int
    OBVIOUS
  <2>3. /\ debit.ok \in BOOLEAN /\ StateOK(debit.st)
        /\ \A x \in ActorID : x # from => GetBalance(debit.st, x) = GetBalance(st, x)
        /\ debit.ok => GetBalance(debit.st, from) = GetBalance(st, from) + (-amount)
    BY <2>2, ChangeBalanceByPointwise
  <2> HIDE DEF debit
  <2>4. /\ \A x \in ActorID : x # to => GetBalance(credit.st, x) = GetBalance(debit.st, x)
        /\ credit.ok => GetBalance(credit.st, to) = GetBalance(debit.st, to) + amount
    BY <2>3, ChangeBalanceByPointwise
  <2>5. debit.ok /\ credit.ok /\ new = credit.st
    BY <2>1, <2>3
  <2> HIDE DEF credit, new
  <2>6. GetBalance(new, to) >= amount
    BY <1>1, <1>3, <2>3, <2>4, <2>5
  <2>7. GetBalance(new, from) = GetBalance(st, from) - amount
    BY <1>1, <1>3, <2>3, <2>4, <2>5
  <2>8. \A x \in ActorID : x # from /\ x # to => GetBalance(new, x) = GetBalance(st, x)
    BY <2>3, <2>4, <2>5
  <2>9. QED
    BY <2>6, <2>7, <2>8 DEF Funded, new
<1>4. QED
  BY <1>2, <1>3

LEMMA TransferFunds ==
    ASSUME NEW w, WorldOK(w), NEW from \in Address, NEW to \in Address,
           NEW amount \in Int, Transfer(w, from, to, amount).ok
    PROVE  Funded(w.token, Transfer(w, from, to, amount).world.token,
                  from.actor, to.actor, amount)
<1> DEFINE init   == Init2(w, from, to)
           r      == MakeTransfer(w.token, from.actor, to.actor, amount)
           result == Transfer(w, from, to, amount)
<1>1. WorldOK(init.world)
  BY Init2Properties
<1>2. from.actor \in ActorID /\ to.actor \in ActorID /\ StateOK(w.token)
  BY DEF Address, WorldOK
<1>3. amount \in Nat
  BY DEF Transfer, Failed, ValidAmount
<1>4. Ends(w, init, r, result)
  BY DEF Transfer, Ends
<1> HIDE DEF init, r, result
<1>5. r.ok /\ result.world.token = r.st
  BY <1>1, <1>4, TransactionEffect DEF result
<1>6. QED
  BY <1>2, <1>3, <1>5, MakeTransferFunds DEF r, result

LEMMA TransferFromPays ==
    ASSUME NEW w, WorldOK(w), NEW operator \in Address, NEW from \in Address,
           NEW to \in Address, NEW amount \in Int,
           TransferFrom(w, operator, from, to, amount).ok
    PROVE  Paid(w.token, TransferFrom(w, operator, from, to, amount).world.token,
                from.actor, to.actor)
<1> DEFINE init   == Init1(w, to)
           use    == AttemptUseAllowance(w.token, operator.actor, from.actor, amount)
           move   == MakeTransfer(use.st, from.actor, to.actor, amount)
           r      == AndThen(use, move)
           result == TransferFrom(w, operator, from, to, amount)
<1>1. WorldOK(init.world)
  BY Init1Properties
<1>2. /\ operator.actor \in ActorID /\ from.actor \in ActorID /\ to.actor \in ActorID
      /\ StateOK(w.token)
  BY DEF Address, WorldOK
<1>3. amount \in Nat
  BY DEF TransferFrom, Failed, ValidAmount
<1>4. Ends(w, init, r, result)
  BY DEF TransferFrom, Ends
<1>5. StateOK(use.st) /\ (use.ok => SameBalances(w.token, use.st))
  <2>1. StateOK(use.st)
    BY <1>2, <1>3, AttemptUseAllowanceProperties DEF AllowanceOnly
  <2>2. use.ok => OnlyPair(w.token, use.st, from.actor, operator.actor)
    BY <1>2, <1>3, AttemptUseAllowancePointwise
  <2> HIDE DEF use
  <2>3. QED
    BY <2>1, <2>2 DEF OnlyPair, SameBalances
<1> HIDE DEF init, use, result
<1>6. move.ok => Paid(use.st, move.st, from.actor, to.actor)
  BY <1>2, <1>3, <1>5, MakeTransferPays
<1> HIDE DEF move
<1>7. r.ok => use.ok /\ move.ok /\ r = move
  BY DEF AndThen
<1> HIDE DEF r
<1>8. r.ok /\ result.world.token = r.st
  BY <1>1, <1>4, TransactionEffect DEF result
<1>9. Paid(w.token, move.st, from.actor, to.actor)
  BY <1>2, <1>5, <1>6, <1>7, <1>8 DEF Paid, SameBalances
<1>10. QED
  BY <1>7, <1>8, <1>9 DEF result

\* The allowance methods pay nobody.
LEMMA InPlaceEffect ==
    ASSUME NEW v, WorldOK(v), NEW r
    PROVE  InPlace(v, r).world.token = r.st
<1> DEFINE u == [v EXCEPT !.token = r.st]
<1>1. u.token = r.st
  BY DEF WorldOK
<1> HIDE DEF u
<1>2. InPlace(v, r) = [ok |-> r.ok, world |-> u]
  BY DEF InPlace, u
<1>3. QED
  BY <1>1, <1>2

LEMMA AllowancesKeepBalances ==
    ASSUME NEW w, WorldOK(w), NEW owner \in Address, NEW operator \in Address,
           NEW delta \in Int, NEW result, result.ok,
           \/ result = IncreaseAllowance(w, owner, operator, delta)
           \/ result = DecreaseAllowance(w, owner, operator, delta)
           \/ result = TokenRevokeAllowance(w, owner, operator)
    PROVE  SameBalances(w.token, result.world.token)
<1> DEFINE init == Init2(w, owner, operator)
<1>1. WorldOK(init.world) /\ init.ok \in BOOLEAN
  BY Init2Properties
<1>2. owner.actor \in ActorID /\ operator.actor \in ActorID /\ StateOK(w.token)
  BY DEF Address, WorldOK
<1> HIDE DEF init
<1>3. CASE result = IncreaseAllowance(w, owner, operator, delta)
  <2> DEFINE r == ChangeAllowanceBy(w.token, owner.actor, operator.actor, delta)
  <2>1. result = InPlace(init.world, r)
    BY <1>3 DEF IncreaseAllowance, Failed, init
  <2>2. SameBalances(w.token, r.st)
    BY <1>2, ChangeAllowanceByPointwise DEF OnlyPair, SameBalances
  <2> HIDE DEF r
  <2>3. QED
    BY <1>1, <2>1, <2>2, InPlaceEffect
<1>4. CASE result = DecreaseAllowance(w, owner, operator, delta)
  <2> DEFINE r == ChangeAllowanceBy(w.token, owner.actor, operator.actor, -delta)
  <2>1. result = InPlace(init.world, r)
    BY <1>4 DEF DecreaseAllowance, Failed, init
  <2>2. -delta \in Int
    OBVIOUS
  <2>3. SameBalances(w.token, r.st)
    BY <1>2, <2>2, ChangeAllowanceByPointwise DEF OnlyPair, SameBalances
  <2> HIDE DEF r
  <2>4. QED
    BY <1>1, <2>1, <2>3, InPlaceEffect
<1>5. CASE result = TokenRevokeAllowance(w, owner, operator)
  <2> DEFINE r == RevokeAllowance(w.token, owner.actor, operator.actor)
  <2>1. result = InPlace(w, r) \/ result = [ok |-> TRUE, world |-> w]
    BY <1>5 DEF TokenRevokeAllowance
  <2>2. SameBalances(w.token, r.st)
    BY <1>2, RevokeAllowancePointwise DEF OnlyPair, SameBalances
  <2> HIDE DEF r
  <2>3. QED
    BY <2>1, <2>2, InPlaceEffect DEF SameBalances
<1>6. QED
  BY <1>3, <1>4, <1>5
=============================================================================
