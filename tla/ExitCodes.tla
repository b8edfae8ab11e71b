------------------------------ MODULE ExitCodes ------------------------------
(***************************************************************************)
(* The errors of the libraries and of the factory token actor, and the     *)
(* exit code each conversion to ExitCode gives.  An error is the path of   *)
(* its variants from the outside in: <<"Receiver", "Messaging",            *)
(* "Syscall", n>> is a RuntimeError holding a ReceiverHookError holding a  *)
(* MessagingError holding the error number n.  Addresses, amounts and      *)
(* texts that an error carries are left out: no conversion looks at them.  *)
(***************************************************************************)
EXTENDS Sequences

\* fvm_shared: the numbers a system call fails with, and the codes a message
\* ends with; "ACTOR_DEFINED" stands for the codes an actor may give itself.
ErrorNumber ==
    {"IllegalArgument", "IllegalOperation", "LimitExceeded", "AssertionFailed",
     "InsufficientFunds", "NotFound", "InvalidHandle", "IllegalCid",
     "IllegalCodec", "Serialization", "Forbidden", "BufferTooSmall", "ReadOnly"}

FailureCode ==
    {"SYS_OUT_OF_GAS", "USR_ILLEGAL_ARGUMENT", "USR_NOT_FOUND", "USR_FORBIDDEN",
     "USR_INSUFFICIENT_FUNDS", "USR_ILLEGAL_STATE", "USR_SERIALIZATION",
     "USR_UNHANDLED_MESSAGE", "USR_UNSPECIFIED", "USR_ASSERTION_FAILED",
     "USR_READ_ONLY", "ACTOR_DEFINED"}

ExitCode == {"OK"} \cup FailureCode

\* The errors of a set held by a variant of another.
Inside(variant, errors) == {<<variant>> \o e : e \in errors}

Bare(variants) == {<<v>> : v \in variants}

MessagingError ==
    Inside("Syscall", Bare(ErrorNumber))
        \cup Bare({"AddressNotResolved", "AddressNotInitialized", "Ipld"})

\* A Receiver error is made of an exit code that is not OK.
ReceiverHookError ==
    Bare({"NotCalled", "AlreadyCalled", "IpldEncoding"})
        \cup Inside("Messaging", MessagingError)
        \cup Inside("Receiver", Bare(FailureCode))

StateError ==
    Bare({"IpldHamt", "MissingState", "Serialization", "InsufficientBalance",
          "InsufficientAllowance", "NegativeTotalSupply", "NegativeAllowance",
          "NegativeBalance"})

TokenError ==
    Bare({"InvalidNegative", "InvalidGranularity", "InvalidIdAddress",
          "InvalidOperator", "Serialization", "StateInvariant"})
        \cup Inside("TokenState", StateError)
        \cup Inside("Messaging", MessagingError)
        \cup Inside("ReceiverHook", ReceiverHookError)

ActorError == Bare({"NoState"})

RuntimeError ==
    Bare({"Encoding", "StateRead", "Deserialization", "Serialization",
          "AddressNotAuthorized", "MintingDisabled"})
        \cup Inside("Token", TokenError)
        \cup Inside("Receiver", ReceiverHookError)
        \cup Inside("Blockstore", Bare(ErrorNumber))
        \cup Inside("StateUpdate", Bare({"ActorDeleted", "ReadOnly"}))
        \cup Inside("ActorRuntime", ActorError)
        \cup Inside("State", StateError)
        \cup Inside("Messaging", MessagingError)

-----------------------------------------------------------------------------
(* The conversions. *)

\* Mutant of NumberCode: a number without an arm of its own is no failure.
NumberCodeOrOk(n) ==
    CASE n = "IllegalArgument"                              -> "USR_ILLEGAL_ARGUMENT"
      [] n \in {"Forbidden", "IllegalOperation"}            -> "USR_FORBIDDEN"
      [] n = "AssertionFailed"                              -> "USR_ASSERTION_FAILED"
      [] n = "InsufficientFunds"                            -> "USR_INSUFFICIENT_FUNDS"
      [] n \in {"IllegalCid", "NotFound", "InvalidHandle"}  -> "USR_NOT_FOUND"
      [] n \in {"Serialization", "IllegalCodec"}            -> "USR_SERIALIZATION"
      [] OTHER                                              -> "OK"

\* The table stands in the code twice, for MessagingError::Syscall and for
\* RuntimeError::Blockstore.
NumberCode(n) ==
    CASE n = "IllegalArgument"                              -> "USR_ILLEGAL_ARGUMENT"
      [] n \in {"Forbidden", "IllegalOperation"}            -> "USR_FORBIDDEN"
      [] n = "AssertionFailed"                              -> "USR_ASSERTION_FAILED"
      [] n = "InsufficientFunds"                            -> "USR_INSUFFICIENT_FUNDS"
      [] n \in {"IllegalCid", "NotFound", "InvalidHandle"}  -> "USR_NOT_FOUND"
      [] n \in {"Serialization", "IllegalCodec"}            -> "USR_SERIALIZATION"
      [] OTHER                                              -> "USR_UNSPECIFIED"

MessagingCode(e) ==
    CASE e[1] = "Syscall" -> NumberCode(e[2])
      [] e[1] = "Ipld"    -> "USR_SERIALIZATION"
      [] OTHER            -> "USR_NOT_FOUND"

\* Mutant of ReceiverHookCode: a recipient's refusal is forbidden, whatever it
\* says itself.
ReceiverHookCodeForbidden(e) ==
    CASE e[1] = "Receiver"     -> "USR_FORBIDDEN"
      [] e[1] = "Messaging"    -> MessagingCode(Tail(e))
      [] e[1] = "IpldEncoding" -> "USR_SERIALIZATION"
      [] OTHER                 -> "USR_ASSERTION_FAILED"

ReceiverHookCode(e) ==
    CASE e[1] = "Receiver"     -> e[2]
      [] e[1] = "Messaging"    -> MessagingCode(Tail(e))
      [] e[1] = "IpldEncoding" -> "USR_SERIALIZATION"
      [] OTHER                 -> "USR_ASSERTION_FAILED"

StateErrorCode(e) ==
    CASE e[1] \in {"IpldHamt", "Serialization"} -> "USR_SERIALIZATION"
      [] e[1] \in {"InsufficientBalance", "InsufficientAllowance"}
                                                -> "USR_INSUFFICIENT_FUNDS"
      [] OTHER                                  -> "USR_ILLEGAL_STATE"

\* Mutant of TokenErrorCode: whatever stops a message to another actor, the
\* actor was not found.
TokenErrorCodeNotFound(e) ==
    CASE e[1] = "TokenState"       -> StateErrorCode(Tail(e))
      [] e[1] = "ReceiverHook"     -> ReceiverHookCode(Tail(e))
      [] e[1] = "Messaging"        -> "USR_NOT_FOUND"
      [] e[1] = "InvalidIdAddress" -> "USR_NOT_FOUND"
      [] e[1] = "Serialization"    -> "USR_SERIALIZATION"
      [] e[1] = "StateInvariant"   -> "USR_ILLEGAL_STATE"
      [] OTHER                     -> "USR_ILLEGAL_ARGUMENT"

TokenErrorCode(e) ==
    CASE e[1] = "TokenState"       -> StateErrorCode(Tail(e))
      [] e[1] = "ReceiverHook"     -> ReceiverHookCode(Tail(e))
      [] e[1] = "Messaging"        -> MessagingCode(Tail(e))
      [] e[1] = "InvalidIdAddress" -> "USR_NOT_FOUND"
      [] e[1] = "Serialization"    -> "USR_SERIALIZATION"
      [] e[1] = "StateInvariant"   -> "USR_ILLEGAL_STATE"
      [] OTHER                     -> "USR_ILLEGAL_ARGUMENT"

ActorErrorCode(e) == "USR_NOT_FOUND"

StateUpdateCode(e) ==
    IF e[1] = "ActorDeleted" THEN "USR_ILLEGAL_STATE" ELSE "USR_READ_ONLY"

RuntimeErrorCode(e) ==
    CASE e[1] = "Token"        -> TokenErrorCode(Tail(e))
      [] e[1] = "Receiver"     -> ReceiverHookCode(Tail(e))
      [] e[1] = "Blockstore"   -> NumberCode(e[2])
      [] e[1] = "StateUpdate"  -> StateUpdateCode(Tail(e))
      [] e[1] = "ActorRuntime" -> ActorErrorCode(Tail(e))
      [] e[1] = "State"        -> StateErrorCode(Tail(e))
      [] e[1] = "Messaging"    -> MessagingCode(Tail(e))
      [] e[1] = "StateRead"    -> "USR_NOT_FOUND"
      [] e[1] \in {"AddressNotAuthorized", "MintingDisabled"} -> "USR_FORBIDDEN"
      [] OTHER                 -> "USR_SERIALIZATION"
=============================================================================
