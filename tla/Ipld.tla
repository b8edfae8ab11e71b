-------------------------------- MODULE Ipld --------------------------------
(***************************************************************************)
(* What the two token libraries share in how they keep state: results of   *)
(* operations that may fail, and the maps of the IPLD libraries.           *)
(*                                                                         *)
(* An operation returns [ok, st]; a failed one returns the state as far as *)
(* it got.  A HAMT, and an AMT, is a function whose domain is the set of   *)
(* keys stored.                                                            *)
(***************************************************************************)

Ok(st) == [ok |-> TRUE, st |-> st]

Err(st) == [ok |-> FALSE, st |-> st]

\* The ? operator: second is the result of the call made on first.st.
AndThen(first, second) == IF first.ok THEN second ELSE first

EmptyHamt == [k \in {} |-> 0]

HamtGet(m, k, default) == IF k \in DOMAIN m THEN m[k] ELSE default

HamtSet(m, k, v) == [x \in DOMAIN m \cup {k} |-> IF x = k THEN v ELSE m[x]]

HamtDelete(m, k) == [x \in DOMAIN m \ {k} |-> m[x]]

IsHamt(m, K, V) == DOMAIN m \subseteq K /\ m \in [DOMAIN m -> V]
=============================================================================
