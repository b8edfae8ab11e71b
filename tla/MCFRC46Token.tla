---------------------------- MODULE MCFRC46Token ----------------------------
(* Instances of FRC46Token for TLC. *)
EXTENDS FRC46Token

\* Refused for its sign, a no-op, refused for the granularity, legal.
MCAmounts == {-1, 0, 1, 2}

\* Actor 1 can be created by a send to its key address, actor 2 cannot.
MCCreatable == {1}

MCAnyPopulation == SUBSET ActorID
=============================================================================
