------------------------ MODULE MCFailurePropagation ------------------------
(***************************************************************************)
(* Four calls: a token, its recipient, a token that one calls, and again a *)
(* recipient, so that a refusal passes two tokens on its way.              *)
(***************************************************************************)
EXTENDS FailurePropagation
=============================================================================
