-------------------------- MODULE MCMethodDispatch --------------------------
(***************************************************************************)
(* The constructor, three other legal names and one name of each kind that *)
(* is refused.  Bytes are at most 127, which keeps a method number within  *)
(* the integers of TLC; the digests have an unusable first chunk, a usable *)
(* second one, a short tail, or nothing to use at all.                     *)
(***************************************************************************)
EXTENDS MethodDispatch

Ctor == <<"upper", "lower", "lower">>

Legal == { <<"upper">>, <<"_", "digit">>, <<"upper", "_">> }

MCNames == {Ctor} \cup Legal
             \cup { <<>>, <<"lower">>, <<"digit", "upper">>, <<"upper", "other">> }

Small == { <<0, 0, 0, 0>>, <<0, 0, 0, 1>>, <<0, 0, 1, 1>>, <<0, 127, 127, 127>> }

Large == { <<1, 0, 0, 0>>, <<127, 127, 127, 127>> }

MCDigests ==
    { d \o <<1, 1, 1>> : d \in {s \o l : s \in Small, l \in {<<1, 0, 0, 0>>}} }
    \cup Large
    \cup { <<0, 0, 0, 1>> \o <<0, 0, 0, 2>> }

MCBodies == { <<Ctor, x, y>> : x, y \in Legal } \cup { <<x, Ctor>> : x \in MCNames }

MCNumbers == {0, 1, 2, 257, FIRST_METHOD_NUMBER}
=============================================================================
