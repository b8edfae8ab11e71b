--------------------------- MODULE NFTEnumeration ---------------------------
(***************************************************************************)
(* Enumeration: a client lists tokens or operators page by page, handing   *)
(* back the cursor of the last page, while others change the collection    *)
(* between its calls.                                                      *)
(*                                                                         *)
(* A cursor holds the root of the token array (a CID, here the array it    *)
(* names) and where to go on: a token ID, or how many operators to skip.   *)
(* The actor runs on wasm32 without overflow checks, so an index plus a    *)
(* limit is taken modulo U64 and a count cut down to usize is taken modulo *)
(* USIZE, 2^64 and 2^32 scaled down.                                       *)
(***************************************************************************)
EXTENDS NFTLibrary

CONSTANTS
    Starts,         \* the collections a listing may begin on
    Subjects,       \* [kind, of]: what is listed, of which actor or token
    Limits,         \* the page sizes a client asks for
    Batches,        \* the lists of token IDs the others pass
    MaxWrites,      \* bound on the changes made by others
    U64, USIZE      \* the number of values of u64 and of usize

Kinds == {"ListTokens", "ListOwnedTokens", "ListOperatorTokens",
          "ListTokenOperators", "ListAccountOperators"}

ASSUME EnumerationAssumption ==
    /\ \A st \in Starts : /\ IsNFTState(st)
                          /\ CountsMatch(st)
                          /\ DOMAIN st.tokens \subseteq 0..(st.next - 1)
                          /\ st.next < U64
    /\ Subjects \subseteq [kind : Kinds, of : Nat]
    /\ Limits \subseteq 1..(U64 - 1)
    /\ Batches \subseteq Seq(TokenID)
    /\ MaxWrites \in Nat
    /\ U64 \in Nat \ {0}
    /\ USIZE \in Nat \ {0}

VARIABLES
    nft,            \* NFTState
    writes,         \* how many changes the others made
    client          \* the listing: its subject, cursor and result so far

vars == <<nft, writes, client>>

world == [nft |-> nft, accts |-> ActorID]

NoCursor == [root |-> EmptyHamt, index |-> -1]

Index(cursor) == IF cursor = NoCursor THEN 0 ELSE cursor.index

-----------------------------------------------------------------------------
(* One page. *)

\* The n smallest members of S.
First(S, n) == {x \in S : Cardinality({y \in S : y < x}) < n}

Smallest(S) == CHOOSE x \in S : \A y \in S : x <= y

\* Mutant of ValidCursor: the roots are not compared.
ValidCursorAny(st, cursor) == TRUE

\* get_token_amt_for_cursor
ValidCursor(st, cursor) == cursor = NoCursor \/ cursor.root = st.tokens

\* Amt::for_each_ranged: the next limit keys from the index on, and the key
\* that comes after them.
ForEachRanged(keys, from, limit) ==
    LET rest  == {k \in keys : k >= from}
        range == First(rest, limit)
    IN  [range |-> range, left |-> rest \ range]

\* A page of the tokens that pass a filter.
TokensPage(st, kept, cursor, limit) ==
    LET scan == ForEachRanged(DOMAIN st.tokens, Index(cursor), limit)
    IN  [ok    |-> TRUE,
         items |-> scan.range \cap kept,
         next  |-> IF scan.left = {}
                   THEN NoCursor
                   ELSE [root |-> st.tokens, index |-> Smallest(scan.left)]]

\* Mutant of OperatorsPage: where the page ends is not compared.
OperatorsPageEver(st, operators, cursor, limit) ==
    LET skipped == First(operators, Index(cursor) % USIZE)
        end     == (Index(cursor) + limit) % U64
    IN  [ok    |-> TRUE,
         items |-> First(operators \ skipped, limit % USIZE),
         next  |-> [root |-> st.tokens, index |-> end]]

\* A page of a set of operators: skip, take, and compare the length.
OperatorsPage(st, operators, cursor, limit) ==
    LET skipped == First(operators, Index(cursor) % USIZE)
        end     == (Index(cursor) + limit) % U64
    IN  [ok    |-> TRUE,
         items |-> First(operators \ skipped, limit % USIZE),
         next  |-> IF Cardinality(operators) > end
                   THEN [root |-> st.tokens, index |-> end]
                   ELSE NoCursor]

Refused == [ok |-> FALSE, items |-> {}, next |-> NoCursor]

ListTokens(st, cursor, limit) ==
    IF ValidCursor(st, cursor)
    THEN TokensPage(st, DOMAIN st.tokens, cursor, limit)
    ELSE Refused

ListOwnedTokens(st, owner, cursor, limit) ==
    IF ValidCursor(st, cursor)
    THEN TokensPage(st, TokensOwnedBy(st, owner), cursor, limit)
    ELSE Refused

OperatableTokens(st, operator) ==
    {t \in DOMAIN st.tokens : operator \in st.tokens[t].operators}

ListOperatorTokens(st, operator, cursor, limit) ==
    IF ValidCursor(st, cursor)
    THEN TokensPage(st, OperatableTokens(st, operator), cursor, limit)
    ELSE Refused

ListTokenOperators(st, t, cursor, limit) ==
    IF ValidCursor(st, cursor) /\ t \in DOMAIN st.tokens
    THEN OperatorsPage(st, st.tokens[t].operators, cursor, limit)
    ELSE Refused

\* No root is compared; the cursor handed out names the token array.
ListAccountOperators(st, owner, cursor, limit) ==
    OperatorsPage(st, OwnerEntry(st.owners, owner).operators, cursor, limit)

Page(st, s, cursor, limit) ==
    CASE s.kind = "ListTokens"           -> ListTokens(st, cursor, limit)
      [] s.kind = "ListOwnedTokens"      -> ListOwnedTokens(st, s.of, cursor, limit)
      [] s.kind = "ListOperatorTokens"   -> ListOperatorTokens(st, s.of, cursor, limit)
      [] s.kind = "ListTokenOperators"   -> ListTokenOperators(st, s.of, cursor, limit)
      [] s.kind = "ListAccountOperators" -> ListAccountOperators(st, s.of, cursor, limit)

\* What a listing in one unbounded page would hold.
Listed(st, s) ==
    CASE s.kind = "ListTokens"           -> DOMAIN st.tokens
      [] s.kind = "ListOwnedTokens"      -> TokensOwnedBy(st, s.of)
      [] s.kind = "ListOperatorTokens"   -> OperatableTokens(st, s.of)
      [] s.kind = "ListTokenOperators"   -> IF s.of \in DOMAIN st.tokens
                                            THEN st.tokens[s.of].operators
                                            ELSE {}
      [] s.kind = "ListAccountOperators" -> OwnerEntry(st.owners, s.of).operators

-----------------------------------------------------------------------------
(* The client and the others. *)

\* full, always and ever are history: what there was to list at the start,
\* all the time and at some time since.  twice: an item came again.
Init ==
    /\ nft \in Starts
    /\ writes = 0
    /\ \E s \in Subjects :
          LET there == Listed(nft, s)
          IN  client = [status |-> "running", subject |-> s, cursor |-> NoCursor,
                        found |-> {}, twice |-> FALSE,
                        full |-> there, always |-> there, ever |-> there]

\* The client asks for the next page and goes on as long as there is a cursor.
NextPage(limit) ==
    LET page == Page(nft, client.subject, client.cursor, limit)
    IN  /\ client.status = "running"
        /\ client' = [client EXCEPT
                        !.status = IF ~page.ok THEN "refused"
                                   ELSE IF page.next = NoCursor THEN "done"
                                   ELSE "running",
                        !.cursor = page.next,
                        !.found  = @ \cup page.items,
                        !.twice  = @ \/ page.items \cap client.found # {}]
        /\ UNCHANGED <<nft, writes>>

\* Another actor's call succeeds between two pages.  Token IDs are of u64.
Write(r) ==
    /\ client.status = "running"
    /\ client.cursor # NoCursor
    /\ writes < MaxWrites
    /\ r.ok
    /\ r.world.nft.next < U64
    /\ nft' = r.world.nft
    /\ writes' = writes + 1
    /\ client' = [client EXCEPT !.always = @ \cap Listed(nft', client.subject),
                                !.ever   = @ \cup Listed(nft', client.subject)]

WriteBy(x, y) ==
    \/ Write(Mint(world, x, y, 1))
    \/ Write(NFTApproveForOwner(world, x, y))
    \/ Write(NFTRevokeForAll(world, x, y))
    \/ \E ids \in Batches :
          \/ Write(Burn(world, x, ids))
          \/ Write(Approve(world, x, y, ids))
          \/ Write(Revoke(world, x, y, ids))
          \/ Write(Transfer(world, x, y, ids))
          \/ Write(BurnFrom(world, x, y, ids))
          \/ \E z \in ActorID :
                Write(TransferFrom(world, x, y, IDAddress(z), ids))

Next ==
    \/ \E limit \in Limits : NextPage(limit)
    \/ \E a, b \in ActorID : WriteBy(IDAddress(a), IDAddress(b))

\* The client is the one that asks again as long as it is given a cursor.
Fairness == WF_vars(\E limit \in Limits : NextPage(limit))

Spec == Init /\ [][Next]_vars /\ Fairness

TypeOK ==
    /\ IsNFTState(nft)
    /\ writes \in 0..MaxWrites
    /\ client.status \in {"running", "done", "refused"}
    /\ client.subject \in Subjects
    /\ client.cursor = NoCursor
         \/ client.cursor.index \in 0..(U64 - 1)
    /\ client.found \subseteq Nat
    /\ client.twice \in BOOLEAN

-----------------------------------------------------------------------------

Done == client.status = "done"

\* The operators of an account are listed without a look at the root.
CursorChecked == client.subject.kind # "ListAccountOperators"

\* The operators there can be, and a page of them, are within usize and u64.
PagesFit ==
    /\ NumActors < USIZE
    /\ \A limit \in Limits : limit < USIZE /\ NumActors + limit < U64

\* A listing that reached its end holds what there was when it began, each
\* item once, whatever page sizes were asked for and whatever happened
\* between the pages: it is refused if the tokens changed, unless they
\* changed back.  The operators of an account, if nobody touched them.
ListingIsExact ==
    Done /\ (CursorChecked \/ client.always = client.ever)
    => /\ client.found = client.full
       /\ ~client.twice

\* A listing comes to an end or is refused, however the pages are sized.
EnumerationEnds == client.status = "running" ~> client.status # "running"
=============================================================================
