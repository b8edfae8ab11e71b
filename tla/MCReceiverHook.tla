--------------------------- MODULE MCReceiverHook ---------------------------
(***************************************************************************)
(* Two hooks, enough for one to be forgotten while the other is called.    *)
(***************************************************************************)
EXTENDS ReceiverHook
=============================================================================
