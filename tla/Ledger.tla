------------------------------- MODULE Ledger -------------------------------
(***************************************************************************)
(* What a token actor promises: a ledger of balances under nested          *)
(* transactions.  A payment or an issue of new tokens opens a transaction, *)
(* which commits or is rolled back to the ledger it started from, whatever *)
(* happened inside it; a burn and the end of issuing belong to the         *)
(* transaction they happen in.  Nothing else changes a balance.            *)
(***************************************************************************)
EXTENDS Integers, Sequences

CONSTANT Account

VARIABLES
    balance,        \* what each account holds
    open,           \* whether new tokens may be issued
    saved           \* the ledgers to return to, the innermost last

vars == <<balance, open, saved>>

Init ==
    /\ balance = [a \in Account |-> 0]
    /\ open = TRUE
    /\ saved = <<>>

Begin == saved' = Append(saved, [balance |-> balance, open |-> open])

Innermost == saved[Len(saved)]

Close == saved # <<>> /\ saved' = SubSeq(saved, 1, Len(saved) - 1)

Pay(a, b) ==
    /\ Begin
    /\ \E n \in 0..balance[a] :
          balance' = [x \in Account |->
                         balance[x] + (IF x = b THEN n ELSE 0)
                                    - (IF x = a THEN n ELSE 0)]
    /\ UNCHANGED open

Issue(a) ==
    /\ open
    /\ Begin
    /\ balance'[a] >= balance[a]
    /\ balance' = [balance EXCEPT ![a] = balance'[a]]
    /\ UNCHANGED open

Retire(a) ==
    /\ \E n \in 0..balance[a] : balance' = [balance EXCEPT ![a] = @ - n]
    /\ UNCHANGED <<open, saved>>

StopIssuing ==
    /\ open' = FALSE
    /\ UNCHANGED <<balance, saved>>

Commit ==
    /\ Close
    /\ UNCHANGED <<balance, open>>

RollBack ==
    /\ Close
    /\ balance' = Innermost.balance
    /\ open' = Innermost.open

Next ==
    \/ \E a, b \in Account : Pay(a, b)
    \/ \E a \in Account : Issue(a) \/ Retire(a)
    \/ StopIssuing
    \/ Commit
    \/ RollBack

Spec == Init /\ [][Next]_vars
=============================================================================
