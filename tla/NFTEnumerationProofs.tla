------------------------- MODULE NFTEnumerationProofs -------------------------
(***************************************************************************)
(* The listings, for any collection and any page sizes, with any writes    *)
(* between the pages: the types, and that a listing that reached its end   *)
(* is what there was when it began.                                        *)
(*                                                                         *)
(* That the result is exact at the end is not inductive.  While the        *)
(* listing runs, its cursor says how much of it has been seen; a cursor    *)
(* that is still accepted names the array the listing began on, since it   *)
(* was refused otherwise; and operators of an account that never changed   *)
(* lie between those that were there always and those that were there      *)
(* ever.                                                                   *)
(***************************************************************************)
EXTENDS NFTEnumeration, NFTLibraryProofs

TokenKinds == {"ListTokens", "ListOwnedTokens", "ListOperatorTokens"}

\* What the first n numbers, or the first n operators, leave of a listing.
Seen(kind, full, n) ==
    IF kind \in TokenKinds THEN {x \in full : x < n} ELSE First(full, n)

\* The token array the cursor stands for; nobody writes before the first page.
Anchor == IF client.cursor = NoCursor THEN nft.tokens ELSE client.cursor.root

\* Nothing that the listing reads without a look at the root has changed.
Trusted == CursorChecked \/ client.always = client.ever

\* No number of the listing is cut short.
Fits == client.subject.kind \in TokenKinds \/ PagesFit

CursorOK(c) ==
    \/ c = NoCursor
    \/ /\ c = [root |-> c.root, index |-> c.index]
       /\ c.index \in 0..(U64 - 1)

ClientOK ==
    /\ client = [status  |-> client.status,  subject |-> client.subject,
                 cursor  |-> client.cursor,  found   |-> client.found,
                 twice   |-> client.twice,   full    |-> client.full,
                 always  |-> client.always,  ever    |-> client.ever]
    /\ client.status \in {"running", "done", "refused"}
    /\ client.subject \in Subjects
    /\ CursorOK(client.cursor)
    /\ client.found \subseteq Nat
    /\ client.full \subseteq Nat
    /\ client.twice \in BOOLEAN

\* What is listed has been there always, or at some time, and so has what
\* there was at the start.
Enclosed ==
    \A S \in {client.full, Listed(nft, client.subject)} :
        client.always \subseteq S /\ S \subseteq client.ever

Anchored ==
    client.status = "running" /\ CursorChecked
    => client.full = Listed([tokens |-> Anchor], client.subject)

SoFar ==
    client.status = "running" /\ Fits /\ Trusted
    => /\ client.found = Seen(client.subject.kind, client.full, Index(client.cursor))
       /\ ~client.twice
       /\ \/ client.subject.kind \in TokenKinds
          \/ client.cursor = NoCursor
          \/ client.cursor.index < Cardinality(client.full)

AtTheEnd ==
    client.status = "done" /\ Fits /\ Trusted
    => client.found = client.full /\ ~client.twice

\* The inductive invariant.
IInv ==
    /\ WorldOK(world)
    /\ nft.next < U64
    /\ writes \in 0..MaxWrites
    /\ ClientOK
    /\ Enclosed
    /\ Anchored
    /\ SoFar
    /\ AtTheEnd

-----------------------------------------------------------------------------
(* The first members of a set of numbers. *)

Below(S, x) == {y \in S : y < x}

\* Counting the members below is monotonic, and less than counting all.
LEMMA RankLess ==
    ASSUME NEW S \in SUBSET Nat, IsFiniteSet(S), NEW x \in S
    PROVE  /\ Cardinality(Below(S, x)) \in Nat
           /\ Cardinality(Below(S, x)) < Cardinality(S)
           /\ \A y \in S : y < x => Cardinality(Below(S, y)) < Cardinality(Below(S, x))
<1>1. \A T \in SUBSET S : IsFiniteSet(T) /\ Cardinality(T) \in Nat
  BY FS_Subset, FS_CardinalityType
<1>2. ASSUME NEW T \in SUBSET S, NEW y \in T
      PROVE  Cardinality(Below(S, y) \cap T) < Cardinality(T)
  <2> DEFINE B == Below(S, y) \cap T
  <2>1. B \subseteq T /\ y \notin B /\ y \in Nat
    BY DEF Below
  <2>2. IsFiniteSet(T) /\ Cardinality(T) \in Nat /\ Cardinality(B) \in Nat
    BY <1>1, <2>1
  <2> HIDE DEF B
  <2>3. Cardinality(B) <= Cardinality(T) /\ Cardinality(B) # Cardinality(T)
    BY <2>1, <2>2, FS_Subset
  <2>4. QED
    BY <2>2, <2>3 DEF B
<1>3. Cardinality(Below(S, x)) < Cardinality(S)
  <2>1. Below(S, x) \cap S = Below(S, x)
    BY DEF Below
  <2>2. QED
    BY <1>2, <2>1
<1>4. ASSUME NEW y \in S, y < x
      PROVE  Cardinality(Below(S, y)) < Cardinality(Below(S, x))
  <2>1. Below(S, x) \in SUBSET S /\ y \in Below(S, x)
    BY <1>4 DEF Below
  <2>2. \A z \in S : z < y => z < x
    <3>1. x \in Nat /\ y \in Nat /\ \A z \in S : z \in Nat
      OBVIOUS
    <3>2. QED
      BY <1>4, <3>1
  <2>3. Below(S, y) \cap Below(S, x) = Below(S, y)
    BY <2>2 DEF Below
  <2>4. QED
    BY <1>2, <2>1, <2>3
<1>5. Below(S, x) \in SUBSET S
  BY DEF Below
<1>6. QED
  BY <1>1, <1>3, <1>4, <1>5

LEMMA FirstIsBelow ==
    ASSUME NEW S, NEW n
    PROVE  First(S, n) = {x \in S : Cardinality(Below(S, x)) < n}
  BY DEF First, Below

LEMMA FirstOfNone ==
    ASSUME NEW S \in SUBSET Nat, IsFiniteSet(S)
    PROVE  First(S, 0) = {}
<1>1. \A x \in S : Cardinality(Below(S, x)) \in Nat
  BY RankLess
<1>2. \A x \in S : ~(Cardinality(Below(S, x)) < 0)
  BY <1>1
<1>3. QED
  BY <1>2, FirstIsBelow

LEMMA FirstOfAll ==
    ASSUME NEW S \in SUBSET Nat, IsFiniteSet(S), NEW n \in Nat, Cardinality(S) <= n
    PROVE  First(S, n) = S
<1>1. Cardinality(S) \in Nat
  BY FS_CardinalityType
<1>2. ASSUME NEW x \in S PROVE Cardinality(Below(S, x)) < n
  <2>1. Cardinality(Below(S, x)) \in Nat /\ Cardinality(Below(S, x)) < Cardinality(S)
    BY RankLess
  <2>2. QED
    BY <1>1, <2>1
<1>3. QED
  BY <1>2, FirstIsBelow

\* The first n of a set that has as many are n.  Counting the members below
\* maps the set one to one into as many numbers, hence onto them.
LEMMA FirstCount ==
    ASSUME NEW S \in SUBSET Nat, IsFiniteSet(S), NEW n \in Nat, n <= Cardinality(S)
    PROVE  Cardinality(First(S, n)) = n
<1> DEFINE c == Cardinality(S)
           r == [x \in S |-> Cardinality(Below(S, x))]
           F == First(S, n)
           f == [x \in F |-> r[x]]
<1>1. c \in Nat /\ IsFiniteSet(0..(c - 1)) /\ Cardinality(0..(c - 1)) = c
  <2>1. c \in Nat
    BY FS_CardinalityType
  <2> HIDE DEF c
  <2>2. QED
    BY <2>1, FS_Interval
<1>2. \A x \in S : r[x] \in 0..(c - 1)
  <2> SUFFICES ASSUME NEW x \in S PROVE r[x] \in 0..(c - 1)
    OBVIOUS
  <2>1. Cardinality(Below(S, x)) \in Nat /\ Cardinality(Below(S, x)) < c
    BY RankLess
  <2>2. QED
    BY <1>1, <2>1
<1>3. \A x, y \in S : r[x] = r[y] => x = y
  <2> SUFFICES ASSUME NEW x \in S, NEW y \in S, x # y PROVE r[x] # r[y]
    OBVIOUS
  <2>1. x < y \/ y < x
    OBVIOUS
  <2>2. \A z \in S : Cardinality(Below(S, z)) \in Nat
    BY RankLess
  <2>3. QED
    BY <2>1, <2>2, RankLess
<1> HIDE DEF c
<1>4. r \in Injection(S, 0..(c - 1))
  BY <1>2, <1>3 DEF Injection, IsInjective
<1>5. r \in Surjection(S, 0..(c - 1))
  <2> HIDE DEF r
  <2>1. QED
    BY <1>1, <1>4, FS_Injection DEF c
<1>6. \A k \in 0..(c - 1) : \E x \in S : r[x] = k
  BY <1>5 DEF Surjection
<1>7. F \subseteq S /\ (\A x \in S : (x \in F) <=> (r[x] < n))
  BY FirstIsBelow
<1>8. f \in Bijection(F, 0..(n - 1))
  <2>1. f \in [F -> 0..(n - 1)]
    <3>1. ASSUME NEW x \in F PROVE r[x] \in 0..(n - 1)
      <4>1. x \in S /\ r[x] < n /\ r[x] \in 0..(c - 1)
        BY <1>2, <1>7
      <4>2. QED
        BY <1>1, <4>1
    <3> HIDE DEF r
    <3>2. QED
      BY <3>1
  <2>2. f \in Injection(F, 0..(n - 1))
    BY <1>3, <1>7, <2>1 DEF Injection, IsInjective
  <2>3. \A k \in 0..(n - 1) : \E x \in F : f[x] = k
    <3> SUFFICES ASSUME NEW k \in 0..(n - 1) PROVE \E x \in F : f[x] = k
      OBVIOUS
    <3>1. k \in 0..(c - 1) /\ k < n
      BY <1>1 DEF c
    <3>2. PICK x \in S : r[x] = k
      BY <1>6, <3>1
    <3>3. x \in F
      BY <1>7, <3>1, <3>2
    <3>4. QED
      BY <3>2, <3>3
  <2>4. f \in Surjection(F, 0..(n - 1))
    BY <2>1, <2>3 DEF Surjection
  <2>5. QED
    BY <2>2, <2>4 DEF Bijection
<1>9. IsFiniteSet(F)
  BY <1>7, FS_Subset
<1>10. ExistsBijection(F, 0..(n - 1))
  BY <1>8 DEF ExistsBijection
<1>11. Cardinality(0..(n - 1)) = Cardinality(F)
  BY <1>9, <1>10, FS_Bijection
<1>12. Cardinality(0..(n - 1)) = n
  BY FS_Interval
<1>13. QED
  BY <1>11, <1>12

\* Taking the first m after skipping the first n is taking n + m.
LEMMA FirstSplit ==
    ASSUME NEW S \in SUBSET Nat, IsFiniteSet(S), NEW n \in Nat, NEW m \in Nat,
           n < Cardinality(S)
    PROVE  First(S, n) \cup First(S \ First(S, n), m) = First(S, n + m)
<1> DEFINE A == First(S, n)
           R == S \ A
<1>1. /\ A \subseteq S /\ IsFiniteSet(A) /\ Cardinality(A) = n
      /\ R \in SUBSET Nat /\ IsFiniteSet(R)
  <2>1. Cardinality(S) \in Nat
    BY FS_CardinalityType
  <2>2. A \subseteq S
    BY DEF First
  <2>3. Cardinality(A) = n
    BY <2>1, FirstCount
  <2>4. R \subseteq S
    OBVIOUS
  <2> HIDE DEF A, R
  <2>5. IsFiniteSet(A) /\ IsFiniteSet(R)
    BY <2>2, <2>4, FS_Subset
  <2>6. QED
    BY <2>2, <2>3, <2>4, <2>5
<1>2. ASSUME NEW x \in S
      PROVE  /\ Cardinality(Below(S, x)) \in Nat
             /\ (x \in A) <=> (Cardinality(Below(S, x)) < n)
             /\ (x \in First(S, n + m)) <=> (Cardinality(Below(S, x)) < n + m)
  <2>1. Cardinality(Below(S, x)) \in Nat
    BY RankLess
  <2>2. QED
    BY <2>1, FirstIsBelow
<1> HIDE DEF A
<1>3. ASSUME NEW x \in R
      PROVE  /\ Cardinality(Below(S, x)) = n + Cardinality(Below(R, x))
             /\ Cardinality(Below(R, x)) \in Nat
  <2>1. A \subseteq Below(S, x)
    <3> SUFFICES ASSUME NEW y \in A PROVE y < x
      BY <1>1 DEF Below
    <3>1. y \in S /\ x \in S /\ x # y
      BY <1>1
    <3>2. Cardinality(Below(S, y)) < n /\ ~(Cardinality(Below(S, x)) < n)
      BY <1>2, <3>1
    <3>3. Cardinality(Below(S, y)) \in Nat /\ Cardinality(Below(S, x)) \in Nat
      BY <1>2, <3>1
    <3>4. x < y => Cardinality(Below(S, x)) < Cardinality(Below(S, y))
      BY <3>1, RankLess
    <3>5. ~(x < y)
      BY <3>2, <3>3, <3>4
    <3>6. x \in Nat /\ y \in Nat
      BY <3>1
    <3>7. QED
      BY <3>1, <3>5, <3>6
  <2>2. Below(S, x) = A \cup Below(R, x) /\ A \cap Below(R, x) = {}
    BY <1>1, <2>1 DEF Below
  <2>3. IsFiniteSet(Below(R, x)) /\ Cardinality(Below(R, x)) \in Nat
    <3>1. Below(R, x) \subseteq R
      BY DEF Below
    <3>2. QED
      BY <1>1, <3>1, FS_Subset, FS_CardinalityType
  <2>4. Cardinality(Below(S, x)) = Cardinality(A) + Cardinality(Below(R, x)) - Cardinality({})
    BY <1>1, <2>2, <2>3, FS_Union
  <2>5. QED
    BY <1>1, <2>3, <2>4, FS_EmptySet
<1>4. ASSUME NEW x \in S
      PROVE  (x \in A \cup First(R, m)) <=> (x \in First(S, n + m))
  <2>1. CASE x \in A
    <3>1. Cardinality(Below(S, x)) < n /\ Cardinality(Below(S, x)) \in Nat
      BY <1>2, <2>1
    <3>2. Cardinality(Below(S, x)) < n + m
      BY <3>1
    <3>3. QED
      BY <1>2, <2>1, <3>2
  <2>2. CASE x \notin A
    <3>1. x \in R
      BY <2>2
    <3>2. (x \in First(R, m)) <=> (Cardinality(Below(R, x)) < m)
      BY <3>1, FirstIsBelow
    <3>3. (Cardinality(Below(S, x)) < n + m) <=> (Cardinality(Below(R, x)) < m)
      BY <1>3, <3>1
    <3>4. QED
      BY <1>2, <2>2, <3>2, <3>3
  <2>3. QED
    BY <2>1, <2>2
<1>5. A \cup First(R, m) \subseteq S /\ First(S, n + m) \subseteq S
  BY <1>1 DEF First
<1>6. QED
  BY <1>4, <1>5 DEF A

\* A non-empty set of numbers has a smallest one.
LEMMA SmallestIsLeast ==
    ASSUME NEW S \in SUBSET Nat, S # {}
    PROVE  Smallest(S) \in S /\ \A x \in S : Smallest(S) <= x
<1>1. PICK x \in S : \A y \in S : ~(y < x)
  BY LeastNumber
<1>2. \A y \in S : x <= y
  BY <1>1
<1>3. QED
  BY <1>2 DEF Smallest

-----------------------------------------------------------------------------
(* One page. *)

\* A page adds to what was seen below n the rest of the listing, or the part
\* of it below the number that its cursor says.
Advances(page, st, kind, all, n) ==
    /\ page.ok
    /\ page.items \subseteq all
    /\ page.items \cap Seen(kind, all, n) = {}
    /\ \/ page.next = NoCursor /\ Seen(kind, all, n) \cup page.items = all
       \/ /\ page.next = [root |-> st.tokens, index |-> page.next.index]
          /\ page.next.index \in Nat
          /\ Seen(kind, all, n) \cup page.items = Seen(kind, all, page.next.index)

\* Between the range and the smallest key left there is no key.
LEMMA RangeEnds ==
    ASSUME NEW rest \in SUBSET Nat, IsFiniteSet(rest), NEW limit \in Nat,
           rest \ First(rest, limit) # {}
    PROVE  LET m == Smallest(rest \ First(rest, limit))
           IN  m \in rest /\ First(rest, limit) = {x \in rest : x < m}
<1> DEFINE left == rest \ First(rest, limit)
           m == Smallest(left)
<1>1. left \in SUBSET Nat /\ left \subseteq rest
  OBVIOUS
<1>2. m \in left /\ \A x \in left : m <= x
  BY <1>1, SmallestIsLeast
<1>3. m \in rest /\ m \notin First(rest, limit)
  BY <1>2
<1>4. \A x \in rest : x \notin First(rest, limit) => m <= x
  BY <1>2
<1> HIDE DEF left, m
<1>5. ASSUME NEW x \in rest
      PROVE  (x \in First(rest, limit)) <=> (x < m)
  <2>1. x \in Nat /\ m \in Nat
    BY <1>3
  <2>2. CASE x \notin First(rest, limit)
    BY <1>4, <2>1, <2>2
  <2>3. CASE x \in First(rest, limit)
    <3>1. x # m
      BY <1>3, <2>3
    <3>2. Cardinality(Below(rest, x)) < limit /\ ~(Cardinality(Below(rest, m)) < limit)
      BY <1>3, <2>3, FirstIsBelow
    <3>3. Cardinality(Below(rest, x)) \in Nat /\ Cardinality(Below(rest, m)) \in Nat
      BY <1>3, RankLess
    <3>4. m < x => Cardinality(Below(rest, m)) < Cardinality(Below(rest, x))
      BY <1>3, RankLess
    <3>5. ~(m < x)
      BY <3>2, <3>3, <3>4
    <3>6. QED
      BY <2>1, <2>3, <3>1, <3>5
  <2>4. QED
    BY <2>2, <2>3
<1>6. First(rest, limit) = {x \in rest : x < m}
  <2>1. First(rest, limit) \subseteq rest
    BY DEF First
  <2>2. QED
    BY <1>5, <2>1
<1>7. QED
  BY <1>3, <1>6 DEF m, left

LEMMA TokensPageAdvances ==
    ASSUME NEW st, DOMAIN st.tokens \in SUBSET Nat, IsFiniteSet(DOMAIN st.tokens),
           NEW kept, kept \subseteq DOMAIN st.tokens, NEW cursor, Index(cursor) \in Nat,
           NEW limit \in Nat, NEW kind \in TokenKinds
    PROVE  LET page == TokensPage(st, kept, cursor, limit)
           IN  /\ Advances(page, st, kind, kept, Index(cursor))
               /\ page.next # NoCursor => page.next.index \in DOMAIN st.tokens
<1> DEFINE n == Index(cursor)
           keys == DOMAIN st.tokens
           rest == {k \in keys : k >= n}
           range == First(rest, limit)
           left == rest \ range
           m == Smallest(left)
           page == TokensPage(st, kept, cursor, limit)
<1>1. rest \in SUBSET Nat /\ rest \subseteq keys /\ IsFiniteSet(rest) /\ range \subseteq rest
  <2>1. rest \subseteq keys /\ range \subseteq rest
    BY DEF First
  <2> HIDE DEF rest
  <2>2. QED
    BY <2>1, FS_Subset
<1>2. page = [ok    |-> TRUE,
              items |-> range \cap kept,
              next  |-> IF left = {} THEN NoCursor ELSE [root |-> st.tokens, index |-> m]]
  BY DEF TokensPage, ForEachRanged
<1>3. \A l : Seen(kind, kept, l) = {x \in kept : x < l}
  BY DEF Seen
<1>4. \A x \in kept : x \in Nat /\ x \in keys /\ (x \in rest <=> ~(x < n))
  OBVIOUS
<1>5. CASE left = {}
  <2>1. range = rest
    BY <1>1, <1>5
  <2>2. page.ok /\ page.items = rest \cap kept /\ page.next = NoCursor
    BY <1>2, <1>5, <2>1
  <2> HIDE DEF rest, page, n, left, range, keys, m
  <2>3. Seen(kind, kept, n) \cup page.items = kept /\ page.items \cap Seen(kind, kept, n) = {}
    BY <1>3, <1>4, <2>2
  <2>4. QED
    BY <2>2, <2>3 DEF Advances, page, n
<1>6. CASE left # {}
  <2>1. m \in rest /\ range = {x \in rest : x < m}
    <3> HIDE DEF rest
    <3>1. QED
      BY <1>1, <1>6, RangeEnds
  <2>2. m \in Nat /\ n \in Nat /\ m >= n /\ m \in keys
    BY <2>1
  <2> HIDE DEF rest, page, n, left, range, keys, m
  <2>3. /\ page.ok /\ page.items = range \cap kept
        /\ page.next = [root |-> st.tokens, index |-> m]
    BY <1>2, <1>6
  <2>4. page.next.index = m
    BY <2>3
  <2>5. \A x \in kept : x \in page.items <=> ~(x < n) /\ x < m
    BY <1>4, <2>1, <2>3
  <2>6. page.items \subseteq kept
    BY <2>3
  <2>7. \A x \in kept : x < n => x < m
    BY <1>4, <2>2
  <2>8. Seen(kind, kept, n) \cup page.items = Seen(kind, kept, m)
    BY <1>3, <2>5, <2>6, <2>7
  <2>9. page.items \cap Seen(kind, kept, n) = {}
    BY <1>3, <2>5
  <2>10. QED
    BY <2>2, <2>3, <2>4, <2>6, <2>8, <2>9 DEF Advances, page, n, keys
<1>7. QED
  BY <1>5, <1>6

\* Numbers below the modulus are kept as they are.
LEMMA SmallModulo ==
    ASSUME NEW a \in Nat, NEW n \in Nat \ {0}
    PROVE  /\ a % n \in 0..(n - 1)
           /\ a < n => a % n = a
  OBVIOUS

LEMMA OperatorsPageAdvances ==
    ASSUME NEW st, NEW S \in SUBSET Nat, IsFiniteSet(S), NEW cursor,
           Index(cursor) \in Nat, NEW limit \in Nat,
           NEW kind, kind \notin TokenKinds,
           Index(cursor) = 0 \/ Index(cursor) < Cardinality(S),
           Index(cursor) < USIZE, limit < USIZE, Index(cursor) + limit < U64
    PROVE  LET page == OperatorsPage(st, S, cursor, limit)
           IN  /\ Advances(page, st, kind, S, Index(cursor))
               /\ page.next # NoCursor => page.next.index < Cardinality(S)
<1> DEFINE n == Index(cursor)
           skipped == First(S, n)
           page == OperatorsPage(st, S, cursor, limit)
<1>1. n % USIZE = n /\ limit % USIZE = limit /\ (n + limit) % U64 = n + limit
  <2>1. USIZE \in Nat \ {0} /\ U64 \in Nat \ {0} /\ n \in Nat /\ n + limit \in Nat
    BY EnumerationAssumption
  <2> HIDE DEF n
  <2>2. n < USIZE /\ n + limit < U64
    BY DEF n
  <2>3. QED
    BY <2>1, <2>2, SmallModulo
<1>2. page = [ok    |-> TRUE,
              items |-> First(S \ skipped, limit),
              next  |-> IF Cardinality(S) > n + limit
                        THEN [root |-> st.tokens, index |-> n + limit]
                        ELSE NoCursor]
  BY <1>1 DEF OperatorsPage
<1>3. skipped \cup First(S \ skipped, limit) = First(S, n + limit)
  <2>1. CASE n = 0
    <3>1. skipped = {} /\ S \ skipped = S
      BY <2>1, FirstOfNone
    <3>2. n + limit = limit
      BY <2>1
    <3>3. QED
      BY <3>1, <3>2
  <2>2. CASE n < Cardinality(S)
    BY <2>2, FirstSplit
  <2>3. QED
    BY <2>1, <2>2
<1>4. /\ First(S \ skipped, limit) \subseteq S
      /\ First(S \ skipped, limit) \cap skipped = {}
  BY DEF First
<1>5. \A l : Seen(kind, S, l) = First(S, l)
  BY DEF Seen
<1>6. n \in Nat /\ n + limit \in Nat /\ Cardinality(S) \in Nat
  BY FS_CardinalityType
<1> DEFINE more == First(S \ skipped, limit)
<1>7. /\ page.ok /\ page.items \subseteq S /\ page.items \cap Seen(kind, S, n) = {}
      /\ Seen(kind, S, n) \cup page.items = Seen(kind, S, n + limit)
  <2>1. Seen(kind, S, n) = skipped /\ Seen(kind, S, n + limit) = First(S, n + limit)
    BY <1>5
  <2>2. page.ok /\ page.items = more
    BY <1>2
  <2> HIDE DEF page, skipped, more, n
  <2>3. more \subseteq S /\ more \cap skipped = {} /\ skipped \cup more = First(S, n + limit)
    BY <1>3, <1>4 DEF more
  <2>4. QED
    BY <2>1, <2>2, <2>3
<1>8. CASE Cardinality(S) > n + limit
  <2>1. page.next = [root |-> st.tokens, index |-> n + limit]
    BY <1>2, <1>8
  <2> HIDE DEF page, n
  <2>2. page.next.index = n + limit
    BY <2>1
  <2>3. page.next.index < Cardinality(S)
    BY <1>6, <1>8, <2>2
  <2>4. QED
    BY <1>6, <1>7, <2>1, <2>2, <2>3 DEF Advances, page, n
<1>9. CASE ~(Cardinality(S) > n + limit)
  <2>1. page.next = NoCursor
    BY <1>2, <1>9
  <2>2. Seen(kind, S, n + limit) = S
    BY <1>5, <1>6, <1>9, FirstOfAll
  <2> HIDE DEF page, n
  <2>3. QED
    BY <1>7, <2>1, <2>2 DEF Advances, page, n
<1>10. QED
  BY <1>8, <1>9

-----------------------------------------------------------------------------
(* What is listed. *)

LEMMA SubjectFields ==
    ASSUME NEW s \in Subjects
    PROVE  s.kind \in Kinds /\ s.of \in Nat
  BY EnumerationAssumption

\* Of actors there are no more than the largest ID.
LEMMA ActorsFinite ==
    ASSUME NEW S \in SUBSET ActorID
    PROVE  IsFiniteSet(S) /\ Cardinality(S) \in Nat /\ Cardinality(S) <= NumActors
<1>1. NumActors \in Nat \ {0} /\ ActorID = 1..NumActors
  BY ActorsAssumption DEF ActorID
<1>2. IsFiniteSet(1..NumActors) /\ Cardinality(1..NumActors) = NumActors
  BY <1>1, FS_Interval
<1>3. QED
  BY <1>1, <1>2, FS_Subset, FS_CardinalityType

LEMMA ListedType ==
    ASSUME NEW st, StateOK(st), NEW s \in Subjects
    PROVE  /\ Listed(st, s) \subseteq Nat
           /\ s.kind \in TokenKinds => Listed(st, s) \subseteq DOMAIN st.tokens
           /\ s.kind \notin TokenKinds => Listed(st, s) \subseteq ActorID
<1>1. /\ DOMAIN st.tokens \subseteq Nat
      /\ \A t \in DOMAIN st.tokens : st.tokens[t].operators \subseteq ActorID
      /\ OwnerEntry(st.owners, s.of).operators \subseteq ActorID
  BY StateFields, OwnerEntryType DEF TokenData, OwnerData
<1>2. ActorID \subseteq Nat
  BY ActorsAssumption DEF ActorID
<1>3. CASE s.kind \in TokenKinds
  <2>1. Listed(st, s) \subseteq DOMAIN st.tokens
    BY <1>3 DEF TokenKinds, Listed, TokensOwnedBy, OperatableTokens
  <2>2. QED
    BY <1>1, <1>3, <2>1
<1>4. CASE s.kind = "ListTokenOperators"
  <2>1. Listed(st, s) \subseteq ActorID
    BY <1>1, <1>4 DEF Listed
  <2>2. QED
    BY <1>2, <1>4, <2>1 DEF TokenKinds
<1>5. CASE s.kind = "ListAccountOperators"
  <2>1. Listed(st, s) \subseteq ActorID
    BY <1>1, <1>5 DEF Listed
  <2>2. QED
    BY <1>2, <1>5, <2>1 DEF TokenKinds
<1>6. QED
  BY <1>3, <1>4, <1>5, SubjectFields DEF Kinds, TokenKinds

\* What is listed under a root is what the token array says.
LEMMA ListedByTokens ==
    ASSUME NEW st, NEW s \in Subjects, s.kind # "ListAccountOperators"
    PROVE  Listed(st, s) = Listed([tokens |-> st.tokens], s)
<1> DEFINE under == [tokens |-> st.tokens]
<1>1. under.tokens = st.tokens
  OBVIOUS
<1> HIDE DEF under
<1>2. s.kind \in TokenKinds \/ s.kind = "ListTokenOperators"
  BY SubjectFields DEF Kinds, TokenKinds
<1>3. CASE s.kind \in TokenKinds
  BY <1>1, <1>3 DEF TokenKinds, Listed, TokensOwnedBy, OwnerOf, OperatableTokens, under
<1>4. CASE s.kind = "ListTokenOperators"
  BY <1>1, <1>4 DEF Listed, under
<1>5. QED
  BY <1>2, <1>3, <1>4

LEMMA CursorFields ==
    ASSUME NEW c, CursorOK(c)
    PROVE  /\ Index(c) \in Nat
           /\ c = NoCursor => Index(c) = 0
           /\ c # NoCursor => Index(c) = c.index
           /\ c = NoCursor \/ c # NoCursor
  BY EnumerationAssumption DEF CursorOK, Index, NoCursor

LEMMA MadeCursor ==
    ASSUME NEW r, NEW i \in Nat
    PROVE  [root |-> r, index |-> i] # NoCursor
<1>1. [root |-> r, index |-> i].index # NoCursor.index
  BY DEF NoCursor
<1>2. QED
  BY <1>1

\* The page that is asked for, of whatever is listed.
PageOf(st, s, cursor, limit) ==
    IF s.kind \in TokenKinds
    THEN TokensPage(st, Listed(st, s), cursor, limit)
    ELSE OperatorsPage(st, Listed(st, s), cursor, limit)

LEMMA PageCases ==
    ASSUME NEW st, NEW s \in Subjects, NEW cursor, NEW limit
    PROVE  LET page == Page(st, s, cursor, limit)
           IN  \/ page = Refused
              \/ /\ page = PageOf(st, s, cursor, limit)
                 /\ s.kind # "ListAccountOperators" => ValidCursor(st, cursor)
<1>1. CASE s.kind \in TokenKinds
  BY <1>1
     DEF TokenKinds, Page, PageOf, Listed, ListTokens, ListOwnedTokens, ListOperatorTokens
<1>2. CASE s.kind = "ListTokenOperators"
  BY <1>2 DEF TokenKinds, Page, PageOf, Listed, ListTokenOperators
<1>3. CASE s.kind = "ListAccountOperators"
  BY <1>3 DEF TokenKinds, Page, PageOf, Listed, ListAccountOperators
<1>4. QED
  BY <1>1, <1>2, <1>3, SubjectFields DEF Kinds, TokenKinds

\* Whatever the page, it is typed.
LEMMA PageType ==
    ASSUME NEW st, StateOK(st), st.next < U64, NEW s \in Subjects,
           NEW cursor, CursorOK(cursor), NEW limit \in Limits
    PROVE  LET page == Page(st, s, cursor, limit)
           IN  /\ page.ok \in BOOLEAN
               /\ page.items \subseteq Nat
               /\ CursorOK(page.next)
               /\ page.next # NoCursor => page.next.root = st.tokens
<1> DEFINE page == Page(st, s, cursor, limit)
           all == Listed(st, s)
<1>1. CASE page = Refused
  BY <1>1 DEF Refused, CursorOK
<1>2. /\ limit \in Nat /\ U64 \in Nat \ {0} /\ st.next \in Nat
      /\ DOMAIN st.tokens \subseteq 0..(st.next - 1)
  BY EnumerationAssumption, StateFields DEF StateOK
<1>3. CASE s.kind \in TokenKinds /\ page = TokensPage(st, all, cursor, limit)
  <2>1. /\ Advances(page, st, s.kind, all, Index(cursor))
        /\ page.next # NoCursor => page.next.index \in DOMAIN st.tokens
    <3>1. /\ DOMAIN st.tokens \in SUBSET Nat /\ IsFiniteSet(DOMAIN st.tokens)
          /\ all \subseteq DOMAIN st.tokens /\ Index(cursor) \in Nat
      BY <1>3, StateFields, TokensFinite, ListedType, CursorFields
    <3> HIDE DEF all
    <3>2. QED
      BY <1>2, <1>3, <3>1, TokensPageAdvances
  <2>2. all \subseteq Nat
    BY ListedType
  <2> HIDE DEF page, all
  <2>3. page.next # NoCursor => page.next.index \in 0..(U64 - 1)
    BY <1>2, <2>1
  <2>4. page.next # NoCursor => page.next.root = st.tokens
    BY <2>1 DEF Advances
  <2>5. QED
    BY <2>1, <2>2, <2>3, <2>4 DEF Advances, CursorOK, page
<1>4. CASE s.kind \notin TokenKinds /\ page = OperatorsPage(st, all, cursor, limit)
  <2> DEFINE end == (Index(cursor) + limit) % U64
  <2>1. all \subseteq Nat
    BY ListedType
  <2>2. Index(cursor) + limit \in Nat
    BY <1>2, CursorFields
  <2>3. end \in 0..(U64 - 1)
    BY <1>2, <2>2, SmallModulo
  <2>4. /\ page.ok /\ page.items \subseteq all
        /\ page.next \in {NoCursor, [root |-> st.tokens, index |-> end]}
    BY <1>4 DEF OperatorsPage, First
  <2> HIDE DEF page, all, end
  <2>5. CursorOK(page.next) /\ (page.next # NoCursor => page.next.root = st.tokens)
    BY <2>3, <2>4 DEF CursorOK
  <2>6. QED
    BY <2>1, <2>4, <2>5 DEF page
<1>5. QED
  BY <1>1, <1>3, <1>4, PageCases DEF PageOf

\* A page that is handed out goes on where the last one ended, if no number
\* of it is cut short.
LEMMA PageAdvances ==
    ASSUME NEW st, StateOK(st), NEW s \in Subjects,
           NEW cursor, CursorOK(cursor), NEW limit \in Limits,
           Page(st, s, cursor, limit).ok,
           \/ s.kind \in TokenKinds
           \/ /\ PagesFit
              /\ cursor = NoCursor \/ cursor.index < Cardinality(Listed(st, s))
    PROVE  LET page == Page(st, s, cursor, limit)
           IN  /\ Advances(page, st, s.kind, Listed(st, s), Index(cursor))
               /\ \/ s.kind \in TokenKinds
                  \/ page.next = NoCursor
                  \/ page.next.index < Cardinality(Listed(st, s))
<1> DEFINE page == Page(st, s, cursor, limit)
           all == Listed(st, s)
<1>1. limit \in Nat /\ Index(cursor) \in Nat
  BY EnumerationAssumption, CursorFields
<1>2. page = PageOf(st, s, cursor, limit)
  BY PageCases DEF Refused
<1>3. CASE s.kind \in TokenKinds
  <2>1. /\ DOMAIN st.tokens \in SUBSET Nat /\ IsFiniteSet(DOMAIN st.tokens)
        /\ all \subseteq DOMAIN st.tokens
    BY <1>3, StateFields, TokensFinite, ListedType
  <2>2. page = TokensPage(st, all, cursor, limit)
    BY <1>2, <1>3 DEF PageOf
  <2> HIDE DEF all, page
  <2>3. Advances(page, st, s.kind, all, Index(cursor))
    BY <1>1, <1>3, <2>1, <2>2, TokensPageAdvances
  <2>4. QED
    BY <1>3, <2>3 DEF all, page
<1>4. CASE s.kind \notin TokenKinds
  <2>1. all \subseteq ActorID
    BY <1>4, ListedType
  <2>2. page = OperatorsPage(st, all, cursor, limit)
    BY <1>2, <1>4 DEF PageOf
  <2>3. PagesFit /\ (cursor = NoCursor \/ cursor.index < Cardinality(all))
    BY <1>4
  <2> HIDE DEF all, page
  <2>4. /\ all \in SUBSET Nat /\ IsFiniteSet(all)
        /\ Cardinality(all) \in Nat /\ Cardinality(all) <= NumActors
    BY <2>1, ActorsFinite, ActorsAssumption DEF ActorID
  <2>5. Index(cursor) = 0 \/ Index(cursor) < Cardinality(all)
    BY <2>3, CursorFields
  <2>6. NumActors \in Nat /\ USIZE \in Nat /\ U64 \in Nat
    BY ActorsAssumption, EnumerationAssumption
  <2>7. Index(cursor) <= NumActors
    BY <1>1, <2>4, <2>5, <2>6
  <2>8. NumActors < USIZE /\ limit < USIZE /\ NumActors + limit < U64
    BY <2>3 DEF PagesFit
  <2>9. /\ Index(cursor) < USIZE /\ limit < USIZE
        /\ Index(cursor) + limit < U64
    BY <1>1, <2>6, <2>7, <2>8
  <2>10. /\ Advances(page, st, s.kind, all, Index(cursor))
         /\ page.next # NoCursor => page.next.index < Cardinality(all)
    BY <1>1, <1>4, <2>2, <2>4, <2>5, <2>9, OperatorsPageAdvances
  <2>11. QED
    BY <2>10 DEF all, page
<1>5. QED
  BY <1>3, <1>4

-----------------------------------------------------------------------------
(* The writes of the others. *)

\* The writes are calls of the library with a sound outcome.
SoundWrite == \E r, permitted : Sound(world, r, permitted) /\ Write(r)

LEMMA WriteIsSound ==
    ASSUME WorldOK(world), NEW a \in ActorID, NEW b \in ActorID,
           WriteBy(IDAddress(a), IDAddress(b))
    PROVE  SoundWrite
<1> DEFINE x == IDAddress(a)
           y == IDAddress(b)
<1>1. x \in Address /\ y \in Address
  BY DEF IDAddress, Address
<1>2. ASSUME NEW r, NEW permitted, Sound(world, r, permitted), Write(r)
      PROVE  SoundWrite
  BY <1>2 DEF SoundWrite
<1> HIDE DEF x, y
<1>3. CASE Write(Mint(world, x, y, 1))
  BY <1>1, <1>2, <1>3, MintSound
<1>4. CASE Write(NFTApproveForOwner(world, x, y))
  BY <1>1, <1>2, <1>4, NFTApproveForOwnerSound
<1>5. CASE Write(NFTRevokeForAll(world, x, y))
  BY <1>1, <1>2, <1>5, NFTRevokeForAllSound
<1>6. ASSUME NEW ids \in Batches,
             \/ Write(Burn(world, x, ids))
             \/ Write(Approve(world, x, y, ids))
             \/ Write(Revoke(world, x, y, ids))
             \/ Write(Transfer(world, x, y, ids))
             \/ Write(BurnFrom(world, x, y, ids))
             \/ \E z \in ActorID : Write(TransferFrom(world, x, y, IDAddress(z), ids))
      PROVE  SoundWrite
  <2>1. ids \in Seq(TokenID)
    BY EnumerationAssumption
  <2>2. CASE Write(Burn(world, x, ids))
    BY <1>1, <1>2, <2>1, <2>2, BurnSound
  <2>3. CASE Write(Approve(world, x, y, ids))
    BY <1>1, <1>2, <2>3, ApproveSound
  <2>4. CASE Write(Revoke(world, x, y, ids))
    BY <1>1, <1>2, <2>4, RevokeSound
  <2>5. CASE Write(Transfer(world, x, y, ids))
    BY <1>1, <1>2, <2>1, <2>5, TransferSound
  <2>6. CASE Write(BurnFrom(world, x, y, ids))
    BY <1>1, <1>2, <2>1, <2>6, BurnFromSound
  <2>7. ASSUME NEW z \in ActorID, Write(TransferFrom(world, x, y, IDAddress(z), ids))
        PROVE  SoundWrite
    <3>1. IDAddress(z) \in Address
      BY DEF IDAddress, Address
    <3>2. QED
      BY <1>1, <1>2, <2>1, <2>7, <3>1, TransferFromSound
  <2>8. QED
    BY <1>6, <2>2, <2>3, <2>4, <2>5, <2>6, <2>7
<1>7. QED
  BY <1>3, <1>4, <1>5, <1>6 DEF WriteBy, x, y

-----------------------------------------------------------------------------
(* The invariant. *)

LEMMA InitIInv == Init => IInv
<1> SUFFICES ASSUME Init PROVE IInv
  OBVIOUS
<1>1. PICK s \in Subjects :
        client = [status |-> "running", subject |-> s, cursor |-> NoCursor,
                  found |-> {}, twice |-> FALSE, full |-> Listed(nft, s),
                  always |-> Listed(nft, s), ever |-> Listed(nft, s)]
  BY DEF Init
<1> DEFINE all == Listed(nft, s)
<1>2. /\ client.status = "running" /\ client.subject = s /\ client.cursor = NoCursor
      /\ client.found = {} /\ client.twice = FALSE
      /\ client.full = all /\ client.always = all /\ client.ever = all
  BY <1>1
<1>3. StateOK(nft) /\ nft.next < U64
  BY EnumerationAssumption DEF Init, StateOK
<1>4. WorldOK(world)
  BY <1>3 DEF world, WorldOK
<1>5. writes \in 0..MaxWrites
  BY EnumerationAssumption DEF Init
<1>6. all \subseteq Nat
  BY <1>3, ListedType
<1> HIDE DEF all
<1>7. ClientOK
  BY <1>1, <1>2, <1>6 DEF ClientOK, CursorOK, all
<1>8. Enclosed
  BY <1>2 DEF Enclosed, all
<1>9. Anchored
  BY <1>2, ListedByTokens DEF Anchored, Anchor, CursorChecked, all
<1>10. SoFar
  <2>1. Seen(s.kind, all, 0) = {}
    <3>1. CASE s.kind \in TokenKinds
      <4>1. \A x \in all : ~(x < 0)
        BY <1>6
      <4>2. QED
        BY <3>1, <4>1 DEF Seen
    <3>2. CASE s.kind \notin TokenKinds
      <4>1. IsFiniteSet(all)
        BY <1>3, <3>2, ListedType, ActorsFinite DEF all
      <4>2. QED
        BY <1>6, <3>2, <4>1, FirstOfNone DEF Seen
    <3>3. QED
      BY <3>1, <3>2
  <2>2. QED
    BY <1>2, <2>1 DEF SoFar, Index
<1>11. AtTheEnd
  BY <1>2 DEF AtTheEnd
<1>12. QED
  BY <1>3, <1>4, <1>5, <1>7, <1>8, <1>9, <1>10, <1>11 DEF IInv

\* A listing that can be trusted, and gets a page, lists what there was at
\* the start.
LEMMA StillFull ==
    ASSUME IInv, client.status = "running", Trusted, NEW limit,
           Page(nft, client.subject, client.cursor, limit).ok
    PROVE  client.full = Listed(nft, client.subject)
<1>1. client.subject \in Subjects
  BY DEF IInv, ClientOK
<1>2. CASE CursorChecked
  <2>1. ValidCursor(nft, client.cursor)
    BY <1>1, <1>2, PageCases DEF CursorChecked, Refused
  <2>2. Anchor = nft.tokens
    BY <2>1 DEF ValidCursor, Anchor
  <2>3. client.full = Listed([tokens |-> nft.tokens], client.subject)
    BY <1>2, <2>2 DEF IInv, Anchored
  <2>4. QED
    BY <1>1, <1>2, <2>3, ListedByTokens DEF CursorChecked
<1>3. CASE client.always = client.ever
  BY <1>3 DEF IInv, Enclosed
<1>4. QED
  BY <1>2, <1>3 DEF Trusted

LEMMA NextPageIInv ==
    ASSUME IInv, NEW limit \in Limits, NextPage(limit)
    PROVE  IInv'
<1> DEFINE s == client.subject
           page == Page(nft, s, client.cursor, limit)
           all == Listed(nft, s)
<1>1. /\ StateOK(nft) /\ nft.next < U64 /\ s \in Subjects /\ CursorOK(client.cursor)
      /\ client.found \subseteq Nat /\ client.twice \in BOOLEAN
      /\ client.full \subseteq Nat
  BY DEF IInv, WorldOK, world, ClientOK
<1>2. /\ page.ok \in BOOLEAN /\ page.items \subseteq Nat /\ CursorOK(page.next)
      /\ page.next # NoCursor => page.next.root = nft.tokens
  BY <1>1, PageType
<1>3. client.status = "running" /\ nft' = nft /\ writes' = writes
  BY DEF NextPage
<1> HIDE DEF page
<1>4. client' = [status  |-> IF ~page.ok THEN "refused"
                             ELSE IF page.next = NoCursor THEN "done" ELSE "running",
                 subject |-> s,
                 cursor  |-> page.next,
                 found   |-> client.found \cup page.items,
                 twice   |-> client.twice \/ page.items \cap client.found # {},
                 full    |-> client.full,
                 always  |-> client.always,
                 ever    |-> client.ever]
  <2>1. client = [status  |-> client.status,  subject |-> client.subject,
                  cursor  |-> client.cursor,  found   |-> client.found,
                  twice   |-> client.twice,   full    |-> client.full,
                  always  |-> client.always,  ever    |-> client.ever]
    BY DEF IInv, ClientOK
  <2>2. client' = [client EXCEPT
                        !.status = IF ~page.ok THEN "refused"
                                   ELSE IF page.next = NoCursor THEN "done"
                                   ELSE "running",
                        !.cursor = page.next,
                        !.found  = @ \cup page.items,
                        !.twice  = @ \/ page.items \cap client.found # {}]
    BY DEF NextPage, page
  <2>3. QED
    BY <2>1, <2>2
<1>5. /\ client'.status = IF ~page.ok THEN "refused"
                          ELSE IF page.next = NoCursor THEN "done" ELSE "running"
      /\ client'.subject = s /\ client'.cursor = page.next
      /\ client'.found = client.found \cup page.items
      /\ client'.twice = (client.twice \/ page.items \cap client.found # {})
      /\ client'.full = client.full
      /\ client'.always = client.always /\ client'.ever = client.ever
  BY <1>4
<1>6. WorldOK(world)' /\ (nft.next < U64)' /\ (writes \in 0..MaxWrites)'
  <2>1. world' = world
    BY <1>3 DEF world
  <2>2. WorldOK(world')
    BY <2>1 DEF IInv
  <2>3. QED
    BY <1>1, <1>3, <2>2 DEF IInv, WorldOK, StateOK, IsNFTState, CountsMatch
<1>7. ClientOK'
  <2>1. client' = [status  |-> client'.status,  subject |-> client'.subject,
                   cursor  |-> client'.cursor,  found   |-> client'.found,
                   twice   |-> client'.twice,   full    |-> client'.full,
                   always  |-> client'.always,  ever    |-> client'.ever]
    BY <1>4
  <2>2. client'.status \in {"running", "done", "refused"}
    BY <1>5
  <2>3. client'.twice \in BOOLEAN
    BY <1>1, <1>5
  <2>4. client'.found \subseteq Nat /\ client'.full \subseteq Nat
    BY <1>1, <1>2, <1>5
  <2>5. QED
    BY <1>1, <1>2, <1>5, <2>1, <2>2, <2>3, <2>4 DEF ClientOK, CursorOK, NoCursor
<1>8. Enclosed'
  BY <1>3, <1>5 DEF IInv, Enclosed
<1>9. page.ok /\ Trusted => client.full = all
  BY <1>3, StillFull DEF page
<1>10. Trusted' = Trusted /\ Fits' = Fits /\ CursorChecked' = CursorChecked
  BY <1>5 DEF Trusted, Fits, CursorChecked, PagesFit
<1>11. Anchored'
  <2> SUFFICES ASSUME client'.status = "running", CursorChecked
               PROVE  client.full = Listed([tokens |-> Anchor'], s)
    BY <1>5, <1>10 DEF Anchored
  <2>1. page.ok /\ page.next # NoCursor
    BY <1>5
  <2>2. Anchor' = nft.tokens
    BY <1>2, <1>3, <1>5, <2>1 DEF Anchor, NoCursor
  <2>3. client.full = all
    BY <1>9, <2>1 DEF Trusted
  <2>4. QED
    BY <1>1, <2>2, <2>3, ListedByTokens DEF CursorChecked
<1>12. ASSUME page.ok, Fits, Trusted
       PROVE  /\ Advances(page, nft, s.kind, client.full, Index(client.cursor))
              /\ client.found = Seen(s.kind, client.full, Index(client.cursor))
              /\ client'.twice = FALSE
              /\ \/ s.kind \in TokenKinds
                 \/ page.next = NoCursor
                 \/ page.next.index < Cardinality(client.full)
  <2>1. client.full = all
    BY <1>9, <1>12
  <2>2. /\ client.found = Seen(s.kind, client.full, Index(client.cursor))
        /\ ~client.twice
        /\ \/ s.kind \in TokenKinds
           \/ client.cursor = NoCursor
           \/ client.cursor.index < Cardinality(client.full)
    BY <1>3, <1>12 DEF IInv, SoFar
  <2>3. /\ Advances(page, nft, s.kind, all, Index(client.cursor))
        /\ \/ s.kind \in TokenKinds
           \/ page.next = NoCursor
           \/ page.next.index < Cardinality(all)
    <3>1. \/ s.kind \in TokenKinds
          \/ /\ PagesFit
             /\ client.cursor = NoCursor \/ client.cursor.index < Cardinality(all)
      BY <1>12, <2>1, <2>2 DEF Fits
    <3> HIDE DEF s
    <3>2. QED
      BY <1>1, <1>12, <3>1, PageAdvances DEF page
  <2>4. page.items \cap client.found = {}
    BY <2>1, <2>2, <2>3 DEF Advances
  <2>5. QED
    BY <1>1, <1>5, <2>1, <2>2, <2>3, <2>4
<1>13. SoFar'
  <2> SUFFICES ASSUME client'.status = "running", Fits, Trusted
               PROVE  /\ client'.found = Seen(s.kind, client.full, Index(page.next))
                      /\ ~client'.twice
                      /\ \/ s.kind \in TokenKinds
                         \/ page.next = NoCursor
                         \/ page.next.index < Cardinality(client.full)
    BY <1>5, <1>10 DEF SoFar, Index, NoCursor
  <2>1. page.ok /\ page.next # NoCursor
    BY <1>5
  <2>2. Index(page.next) = page.next.index
    BY <2>1 DEF Index
  <2>3. QED
    BY <1>5, <1>12, <2>1, <2>2 DEF Advances
<1>14. AtTheEnd'
  <2> SUFFICES ASSUME client'.status = "done", Fits, Trusted
               PROVE  client'.found = client.full /\ ~client'.twice
    BY <1>5, <1>10 DEF AtTheEnd
  <2>1. page.ok /\ page.next = NoCursor
    BY <1>5
  <2>2. \A i : i \in Nat => [root |-> nft.tokens, index |-> i] # NoCursor
    BY MadeCursor
  <2>3. Seen(s.kind, client.full, Index(client.cursor)) \cup page.items = client.full
    BY <1>12, <2>1, <2>2 DEF Advances
  <2>4. QED
    BY <1>5, <1>12, <2>1, <2>3
<1>15. QED
  BY <1>6, <1>7, <1>8, <1>11, <1>13, <1>14 DEF IInv

LEMMA WriteIInv ==
    ASSUME IInv, SoundWrite
    PROVE  IInv'
<1> DEFINE s == client.subject
           now == Listed(nft', s)
<1>1. PICK r, permitted : Sound(world, r, permitted) /\ Write(r)
  BY DEF SoundWrite
<1>2. /\ client.status = "running" /\ client.cursor # NoCursor
      /\ nft' = r.world.nft /\ nft'.next < U64
      /\ writes < MaxWrites /\ writes' = writes + 1
  BY <1>1 DEF Write
<1>3. StateOK(nft')
  BY <1>1, <1>2 DEF Sound, WorldOK
<1>4. client' = [status  |-> "running",
                 subject |-> s,
                 cursor  |-> client.cursor,
                 found   |-> client.found,
                 twice   |-> client.twice,
                 full    |-> client.full,
                 always  |-> client.always \cap now,
                 ever    |-> client.ever \cup now]
  <2>1. client = [status  |-> client.status,  subject |-> client.subject,
                  cursor  |-> client.cursor,  found   |-> client.found,
                  twice   |-> client.twice,   full    |-> client.full,
                  always  |-> client.always,  ever    |-> client.ever]
    BY DEF IInv, ClientOK
  <2>2. client' = [client EXCEPT !.always = @ \cap now, !.ever = @ \cup now]
    BY <1>1 DEF Write
  <2> HIDE DEF now
  <2>3. QED
    BY <1>2, <2>1, <2>2
<1> HIDE DEF now
<1>5. /\ client'.status = "running" /\ client'.subject = s
      /\ client'.cursor = client.cursor /\ client'.found = client.found
      /\ client'.twice = client.twice /\ client'.full = client.full
      /\ client'.always = client.always \cap now /\ client'.ever = client.ever \cup now
  BY <1>4
<1>6. WorldOK(world)'
  BY <1>3 DEF world, WorldOK, StateOK, IsNFTState, CountsMatch
<1>7. (writes \in 0..MaxWrites)'
  BY <1>2, EnumerationAssumption DEF IInv
<1>8. ClientOK'
  <2>1. client' = [status  |-> client'.status,  subject |-> client'.subject,
                   cursor  |-> client'.cursor,  found   |-> client'.found,
                   twice   |-> client'.twice,   full    |-> client'.full,
                   always  |-> client'.always,  ever    |-> client'.ever]
    BY <1>4
  <2>2. QED
    BY <1>5, <2>1 DEF IInv, ClientOK, CursorOK, NoCursor
<1>9. client.always \subseteq client.full /\ client.full \subseteq client.ever
  BY DEF IInv, Enclosed
<1>10. Enclosed'
  <2>1. \A S \in {client.full, now} :
          client.always \cap now \subseteq S /\ S \subseteq client.ever \cup now
    BY <1>9
  <2>2. Listed(nft', client'.subject) = now
    BY <1>5 DEF now
  <2>3. QED
    BY <1>5, <2>1, <2>2 DEF Enclosed
<1>11. Anchor' = Anchor
  BY <1>2, <1>5 DEF Anchor, NoCursor
<1>12. Fits' = Fits /\ CursorChecked' = CursorChecked
  BY <1>5 DEF Fits, CursorChecked, PagesFit
<1>13. Anchored'
  BY <1>2, <1>5, <1>11, <1>12 DEF IInv, Anchored
<1>14. Trusted' => Trusted
  BY <1>5, <1>9, <1>12 DEF Trusted
<1>15. SoFar'
  BY <1>2, <1>5, <1>12, <1>14 DEF IInv, SoFar, Index, NoCursor
<1>16. AtTheEnd'
  BY <1>5 DEF AtTheEnd
<1>17. QED
  BY <1>2, <1>6, <1>7, <1>8, <1>10, <1>13, <1>15, <1>16 DEF IInv

LEMMA NextIInv == IInv /\ [Next]_vars => IInv'
<1> SUFFICES ASSUME IInv, [Next]_vars PROVE IInv'
  OBVIOUS
<1>1. CASE UNCHANGED vars
  BY <1>1
     DEF vars, IInv, world, WorldOK, StateOK, IsNFTState, CountsMatch, ClientOK,
         CursorOK, NoCursor, Enclosed, Anchored, Anchor, SoFar, AtTheEnd, Trusted,
         Fits, CursorChecked, PagesFit, Index
<1>2. ASSUME NEW limit \in Limits, NextPage(limit)
      PROVE  IInv'
  BY <1>2, NextPageIInv
<1>3. ASSUME NEW a \in ActorID, NEW b \in ActorID, WriteBy(IDAddress(a), IDAddress(b))
      PROVE  IInv'
  <2>1. WorldOK(world)
    BY DEF IInv
  <2>2. QED
    BY <1>3, <2>1, WriteIsSound, WriteIInv
<1>4. QED
  BY <1>1, <1>2, <1>3 DEF Next

LEMMA Invariance == Spec => []IInv
<1>1. QED
  BY InitIInv, NextIInv, PTL DEF Spec

-----------------------------------------------------------------------------

\* The collection, the writes and what the client holds stay typed.
THEOREM TypeCorrect == Spec => []TypeOK
<1>1. IInv => TypeOK
  BY DEF IInv, WorldOK, world, StateOK, ClientOK, CursorOK, TypeOK
<1>2. QED
  BY <1>1, Invariance, PTL

\* Listings of tokens are exact (list_tokens, list_owned_tokens and
\* list_operator_tokens), whatever the page sizes.
THEOREM TokenListingCorrect ==
    Spec => [](client.subject.kind \in TokenKinds => ListingIsExact)
<1>1. IInv => (client.subject.kind \in TokenKinds => ListingIsExact)
  BY DEF IInv, AtTheEnd, ListingIsExact, Done, Fits, Trusted
<1>2. QED
  BY <1>1, Invariance, PTL

\* All listings are exact, those of operators too, if their page sizes and
\* the number of operators fit the integers they are computed with.
THEOREM ListingCorrect ==
    ASSUME PagesFit
    PROVE  Spec => []ListingIsExact
<1>1. IInv => ListingIsExact
  BY DEF IInv, AtTheEnd, ListingIsExact, Done, Fits, Trusted
<1>2. QED
  BY <1>1, Invariance, PTL
=============================================================================
