---------------------------- MODULE ActorRuntime ----------------------------
(***************************************************************************)
(* The part of the FVM runtime that the token libraries reach through      *)
(* fvm_actor_utils::util::ActorRuntime: addresses, their resolution to     *)
(* actor IDs and the creation of accounts on first use.                    *)
(*                                                                         *)
(* An actor is known by its ID and by one key address.  The set accts      *)
(* holds the actors that exist; the key address of any other does not      *)
(* resolve.  An ID address always resolves, even one nobody has yet: the   *)
(* system call answers with the ID it is given.                            *)
(***************************************************************************)
EXTENDS Integers

CONSTANTS
    NumActors,      \* actor IDs are 1..NumActors
    Creatable       \* the actors a plain send to the key address creates

ASSUME ActorsAssumption ==
    /\ NumActors \in Nat \ {0}
    /\ Creatable \subseteq 1..NumActors

ActorID == 1..NumActors

Address == [protocol : {"id", "key"}, actor : ActorID]

IDAddress(a) == [protocol |-> "id", actor |-> a]

KeyAddress(a) == [protocol |-> "key", actor |-> a]

\* resolve_id succeeds; the ID it returns is addr.actor.
Resolves(accts, addr) == addr.protocol = "id" \/ addr.actor \in accts

\* resolve_or_init succeeds: the address resolves, or a send creates it.
CanInit(accts, addr) == Resolves(accts, addr) \/ addr.actor \in Creatable

\* The accounts after resolve_or_init, whether it succeeded or not.
AfterInit(accts, addr) ==
    IF ~Resolves(accts, addr) /\ addr.actor \in Creatable
    THEN accts \cup {addr.actor}
    ELSE accts

\* same_address: one protocol compares the addresses as they are, two
\* protocols compare what they resolve to, and an unresolved address is
\* nobody's.
SameAddress(accts, x, y) ==
    IF x.protocol = y.protocol
    THEN x = y
    ELSE /\ Resolves(accts, x)
         /\ Resolves(accts, y)
         /\ x.actor = y.actor

-----------------------------------------------------------------------------
(* A world is a record with the accounts in its field accts; the methods   *)
(* of the token libraries go from a world to [ok, world].                  *)

Failed(w) == [ok |-> FALSE, world |-> w]

\* resolve_or_init of one address, and of two in the order of the code.
Init1(w, x) ==
    [ok |-> CanInit(w.accts, x), world |-> [w EXCEPT !.accts = AfterInit(@, x)]]

Init2(w, x, y) ==
    IF CanInit(w.accts, x) THEN Init1(Init1(w, x).world, y) ELSE Init1(w, x)
=============================================================================
