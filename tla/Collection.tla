----------------------------- MODULE Collection -----------------------------
(***************************************************************************)
(* What an NFT actor promises: numbered tokens with one owner each, under  *)
(* nested transactions.  New tokens take the numbers no token had before;  *)
(* an issue or a move opens a transaction, which commits or is rolled back *)
(* to the collection it started from; a burn belongs to the transaction it *)
(* happens in.                                                             *)
(***************************************************************************)
EXTENDS Naturals, Sequences

CONSTANT Account

VARIABLES
    owner,          \* who owns each token there is
    issued,         \* how many tokens there ever were: the numbers below it
    saved           \* the collections to return to, the innermost last

vars == <<owner, issued, saved>>

Init ==
    /\ owner = [t \in {} |-> 0]
    /\ issued = 0
    /\ saved = <<>>

Begin == saved' = Append(saved, [owner |-> owner, issued |-> issued])

Innermost == saved[Len(saved)]

Close == saved # <<>> /\ saved' = SubSeq(saved, 1, Len(saved) - 1)

Issue(a) ==
    /\ Begin
    /\ issued' >= issued
    /\ owner' = [t \in DOMAIN owner \cup issued..(issued' - 1) |->
                    IF t \in DOMAIN owner THEN owner[t] ELSE a]

\* One account's tokens go to another's.
Move(a, b) ==
    /\ Begin
    /\ DOMAIN owner' = DOMAIN owner
    /\ \A t \in DOMAIN owner :
          owner'[t] = owner[t] \/ (owner[t] = a /\ owner'[t] = b)
    /\ UNCHANGED issued

Retire(a) ==
    /\ DOMAIN owner' \subseteq DOMAIN owner
    /\ owner' = [t \in DOMAIN owner' |-> owner[t]]
    /\ \A t \in DOMAIN owner \ DOMAIN owner' : owner[t] = a
    /\ UNCHANGED <<issued, saved>>

Commit ==
    /\ Close
    /\ UNCHANGED <<owner, issued>>

RollBack ==
    /\ Close
    /\ owner' = Innermost.owner
    /\ issued' = Innermost.issued

Next ==
    \/ \E a, b \in Account : Move(a, b)
    \/ \E a \in Account : Issue(a) \/ Retire(a)
    \/ Commit
    \/ RollBack

Spec == Init /\ [][Next]_vars
=============================================================================
