-------------------------- MODULE MCTokenReceivers --------------------------
(***************************************************************************)
(* An account, a receiving actor, two test actors and a transfer actor.    *)
(***************************************************************************)
EXTENDS TokenReceivers

MCRole == <<"account", "receiving", "test", "test", "transfer">>

Simple == { <<"Accept">>, <<"Reject">>, <<"Burn">> }

Sends == { <<"Transfer", to, data>> : to \in ActorID \ {4}, data \in Simple }

Falls == { <<"TransferWithFallback", to, <<"Reject">>, data>> :
               to \in {3, 5}, data \in { <<"Burn">>, <<"Transfer", 2, <<"Nothing">> >> } }

\* What the integration tests nest, and a bounce between the test actors.
MCScripts ==
    Simple \cup { <<"Nothing">> } \cup Sends \cup Falls
    \cup { <<"ActionThenAbort", data>> : data \in { <<"Burn">>, <<"Accept">>, <<"Transfer", 5, <<"Nothing">> >> } }
    \cup { <<"Transfer", 4, data>> : data \in Falls \cup { <<"Transfer", 3, <<"Burn">> >> } }
    \cup { <<"TransferWithFallback", 4, <<"ActionThenAbort", <<"Transfer", 5, <<"Nothing">> >> >>, <<"Accept">> >> }

\* The actions inside actions.
Inner(data) ==
    UNION { CASE a[1] = "ActionThenAbort"      -> {a[2]}
              [] a[1] = "Transfer"             -> {a[3]}
              [] a[1] = "TransferWithFallback" -> {a[3], a[4]}
              [] OTHER                         -> {} : a \in data }

MCActions ==
    LET once  == MCScripts \cup Inner(MCScripts)
        twice == once \cup Inner(once)
    IN  twice \cup Inner(twice)
=============================================================================
