--------------------------- MODULE MethodDispatch ---------------------------
(***************************************************************************)
(* FRC-42 method numbers (frc42_dispatch): the resolver that computes a    *)
(* number from a name, the dispatcher an actor builds from names with      *)
(* match_method!, and callers that use a name (MethodMessenger) or a       *)
(* number of their own choice.                                             *)
(*                                                                         *)
(* A name is a sequence of kinds of characters.  The hash is any function  *)
(* from names to digests; the macro, when the actor is compiled, and the   *)
(* messenger, when it calls, use the same one.                             *)
(***************************************************************************)
EXTENDS Integers, Sequences, FiniteSetsExt

CONSTANTS
    Names,          \* the names that occur, legal or not
    CONSTRUCTOR_METHOD_NAME,
    Digests,        \* what a name may hash to
    Bodies,         \* the sequences of names an actor may match on
    Numbers         \* the numbers raw messages carry

\* 1 << 24
FIRST_METHOD_NUMBER == 16777216

CONSTRUCTOR_METHOD_NUMBER == 1

DIGEST_CHUNK_LENGTH == 4

Byte == 0..255

ASSUME DispatchAssumption ==
    /\ Digests \subseteq Seq(Byte)
    /\ Bodies \subseteq Seq(Names)
    /\ Numbers \subseteq Nat

Letter == {"upper", "lower", "digit", "_"}

VARIABLES
    hash,           \* the digest of each legal name
    arms,           \* the names the actor matches on; none before it is built
    call            \* the last call: by name or number, and what it ran

dispatchVars == <<hash, arms, call>>

-----------------------------------------------------------------------------
(* The resolver.  0 stands for an error. *)

NoNumber == 0

check_method_name(name) ==
    /\ name # <<>>
    /\ name[1] \in {"upper", "_"}
    /\ \A i \in DOMAIN name : name[i] \in Letter

\* Big-endian.
as_u32(b) == ((b[1] * 256 + b[2]) * 256 + b[3]) * 256 + b[4]

\* The digest in chunks; a tail shorter than four bytes is not used.
Chunks(digest) ==
    [k \in 1..(Len(digest) \div DIGEST_CHUNK_LENGTH) |->
        as_u32(SubSeq(digest, (k - 1) * DIGEST_CHUNK_LENGTH + 1,
                              k * DIGEST_CHUNK_LENGTH))]

FirstAtLeast(chunks, least) ==
    LET usable == {k \in DOMAIN chunks : chunks[k] >= least}
    IN  IF usable = {} THEN NoNumber ELSE chunks[Min(usable)]

\* Mutant of method_number: 0 and 1 are avoided, as its comment has it.
method_number_above_one(name) ==
    IF ~check_method_name(name) THEN NoNumber
    ELSE IF name = CONSTRUCTOR_METHOD_NAME THEN CONSTRUCTOR_METHOD_NUMBER
    ELSE FirstAtLeast(Chunks(hash[name]), 2)

method_number(name) ==
    IF ~check_method_name(name) THEN NoNumber
    ELSE IF name = CONSTRUCTOR_METHOD_NAME THEN CONSTRUCTOR_METHOD_NUMBER
    ELSE FirstAtLeast(Chunks(hash[name]), FIRST_METHOD_NUMBER)

-----------------------------------------------------------------------------

NoCall == [by |-> "none", ran |-> 0]

DispatchInit ==
    /\ hash \in [{n \in Names : check_method_name(n)} -> Digests]
    /\ arms = <<>>
    /\ call = NoCall

\* match_method!: every name must have a number, or the actor does not
\* compile.  Two names with one number are no error.
Build(body) ==
    /\ arms = <<>>
    /\ \A i \in DOMAIN body : method_number(body[i]) # NoNumber
    /\ arms' = body
    /\ UNCHANGED <<hash, call>>

\* The first arm that matches, or 0 for the arm _ , which aborts.
Dispatch(number) ==
    LET matching == {i \in DOMAIN arms : method_number(arms[i]) = number}
    IN  IF matching = {} THEN 0 ELSE Min(matching)

\* MethodMessenger::call_method.
CallMethod(name) ==
    LET number == method_number(name)
    IN  /\ arms # <<>>
        /\ call' = IF number = NoNumber
                   THEN [by |-> "error", name |-> name, ran |-> 0]
                   ELSE [by |-> "name", name |-> name, number |-> number,
                         ran |-> Dispatch(number)]
        /\ UNCHANGED <<hash, arms>>

\* A message with a number, wherever it comes from.
CallNumber(number) ==
    /\ arms # <<>>
    /\ call' = [by |-> "number", number |-> number, ran |-> Dispatch(number)]
    /\ UNCHANGED <<hash, arms>>

DispatchNext ==
    \/ \E body \in Bodies : Build(body)
    \/ \E name \in Names : CallMethod(name)
    \/ \E number \in Numbers : CallNumber(number)

DispatchSpec == DispatchInit /\ [][DispatchNext]_dispatchVars

-----------------------------------------------------------------------------

\* "Method numbers below FIRST_METHOD_NUMBER are reserved for other use", and
\* "the name Constructor is always hashed to 1": whatever the names hash to, no
\* message with a reserved number runs a method and no call by name sends one,
\* the constructor apart, which answers to its own name and number only.
ReservedNumbersRunNothing ==
    /\ call.by # "none" /\ (call.by = "name" \/ call.ran # 0)
          => call.number = 1 \/ call.number >= FIRST_METHOD_NUMBER
    /\ call.ran # 0 =>
          /\ (call.number = 1) <=> (arms[call.ran] = CONSTRUCTOR_METHOD_NAME)
          /\ call.by = "name" /\ call.number = 1
                => call.name = CONSTRUCTOR_METHOD_NAME
=============================================================================
