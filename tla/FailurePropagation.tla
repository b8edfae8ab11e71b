------------------------- MODULE FailurePropagation -------------------------
(***************************************************************************)
(* How a failure travels: a message to a token calls the recipient's hook, *)
(* which may call a token again, and each of them tells the one above what *)
(* became of it by its exit code alone.                                    *)
(*                                                                         *)
(* A factory token aborts with the code of its error; a basic token and a  *)
(* basic NFT actor unwrap, panic, and abort with one code for everything.  *)
(* A recipient is whoever somebody deployed.                               *)
(***************************************************************************)
EXTENDS ExitCodes, Naturals

CONSTANT MaxCalls       \* bound on the calls under way at once

ASSUME CallsAssumption == MaxCalls \in Nat \ {0}

VARIABLES
    calls,      \* the calls under way: who runs, and whether it awaits a call
    answer,     \* exit code of the call that ended last, if not yet looked at
    failure,    \* the error a factory token failed with last, and its code
    refusal     \* ghost: what the party said that failed of its own accord

failureVars == <<calls, answer, failure, refusal>>

Kind == {"factory", "basic", "recipient"}

NoFailure == [error |-> <<>>, code |-> "OK"]

FailureInit ==
    /\ calls = <<>>
    /\ answer = "none"
    /\ failure = NoFailure
    /\ refusal = "none"

Top == calls[Len(calls)]

Push(kind) == Append(calls, [kind |-> kind, waiting |-> FALSE])

Await(kind) == [Push(kind) EXCEPT ![Len(calls)].waiting = TRUE]

\* Somebody sends a token a message.
Begin(kind) ==
    /\ calls = <<>>
    /\ kind # "recipient"
    /\ calls' = Push(kind)
    /\ answer' = "none"
    /\ UNCHANGED <<failure, refusal>>

Running(kind) ==
    /\ calls # <<>>
    /\ Top = [kind |-> kind, waiting |-> FALSE]

\* The call this one made has ended.
Resumed(kind) ==
    /\ calls # <<>>
    /\ Top = [kind |-> kind, waiting |-> TRUE]

Exit(code) ==
    /\ calls' = SubSeq(calls, 1, Len(calls) - 1)
    /\ answer' = code

-----------------------------------------------------------------------------
(* What goes wrong where, in a factory token. *)

\* Loading or saving the state and setting the root.
StorageErrors ==
    Bare({"Deserialization", "Serialization"}) \cup Inside("ActorRuntime", ActorError)

\* Before the hook.  set_balance and set_allowance, which refuse a negative
\* amount of their own, are not methods of the actor.
MethodErrors ==
    Bare({"AddressNotAuthorized", "MintingDisabled"})
        \cup Inside("Token",
                Bare({"InvalidNegative", "InvalidGranularity", "InvalidOperator",
                      "Serialization"})
                \cup Inside("TokenState",
                        StateError \ Bare({"NegativeBalance", "NegativeAllowance"}))
                \cup Inside("Messaging",
                        MessagingError \ Bare({"Ipld", "AddressNotResolved"})))

\* Sending the message to the recipient.
SendErrors ==
    Inside("Receiver",
        Bare({"IpldEncoding"})
        \cup Inside("Messaging", Inside("Syscall", Bare(ErrorNumber))))

\* After the hook: reading balances again and storing what is returned.
ReturnErrors ==
    Bare({"Encoding"})
        \cup Inside("Blockstore", Bare(ErrorNumber))
        \cup Inside("Token", Inside("TokenState",
                Bare({"IpldHamt", "MissingState", "Serialization"})))

\* The panic hook: deserialize_params unwraps what the Constructor and Mint get.
PanicCode == "USR_ASSERTION_FAILED"

\* What frc46_invoke and token_invoke abort with themselves.
BadMessageCode ==
    {"USR_ILLEGAL_ARGUMENT", "USR_SERIALIZATION", "USR_UNHANDLED_MESSAGE", PanicCode}

\* invoke: the Err arm.
FactoryFails(error) ==
    /\ Exit(RuntimeErrorCode(error))
    /\ failure' = [error |-> error, code |-> RuntimeErrorCode(error)]

FactoryStops ==
    /\ Running("factory")
    /\ \E error \in StorageErrors \cup MethodErrors \cup SendErrors \cup ReturnErrors :
          FactoryFails(error)
    /\ refusal' = answer'

FactoryRefusesMessage ==
    /\ Running("factory")
    /\ \E code \in BadMessageCode : Exit(code)
    /\ refusal' = answer'
    /\ UNCHANGED failure

\* A method with a hook sends the recipient a message.
CallHook(kind) ==
    /\ Running(kind)
    /\ Len(calls) < MaxCalls
    /\ calls' = Await("recipient")
    /\ answer' = "none"
    /\ UNCHANGED <<failure, refusal>>

\* A method without a hook is done.
Done(kind) ==
    /\ Running(kind)
    /\ Exit("OK")
    /\ UNCHANGED <<failure, refusal>>

\* The recipient accepted.
FactoryReturns ==
    /\ Resumed("factory") /\ answer = "OK"
    /\ \/ Exit("OK") /\ UNCHANGED <<failure, refusal>>
       \/ /\ \E error \in StorageErrors \cup ReturnErrors : FactoryFails(error)
          /\ refusal' = answer'

\* The recipient aborted.
FactoryIsRefused(code) ==
    /\ Resumed("factory") /\ answer = code
    /\ FactoryFails(<<"Receiver", "Receiver", code>>)
    /\ UNCHANGED refusal

\* A basic actor panics at whatever error, the recipient's refusal included.
BasicPanics ==
    /\ Running("basic") \/ Resumed("basic")
    /\ Exit("USR_ASSERTION_FAILED")
    /\ refusal' = answer'
    /\ UNCHANGED failure

BasicReturns ==
    /\ Resumed("basic") /\ answer = "OK"
    /\ Exit("OK")
    /\ UNCHANGED <<failure, refusal>>

-----------------------------------------------------------------------------
(* The recipient. *)

RecipientCalls(kind) ==
    /\ Running("recipient") \/ Resumed("recipient")
    /\ kind # "recipient"
    /\ Len(calls) < MaxCalls
    /\ calls' = Await(kind)
    /\ answer' = "none"
    /\ UNCHANGED <<failure, refusal>>

RecipientAborts(code) ==
    /\ Running("recipient") \/ Resumed("recipient")
    /\ Exit(code)
    /\ refusal' = code
    /\ UNCHANGED failure

\* It aborts with the code of the call it made.
RecipientPassesOn(code) ==
    /\ Resumed("recipient") /\ answer = code
    /\ Exit(code)
    /\ UNCHANGED <<failure, refusal>>

\* It accepts, whatever became of the call it made.
RecipientAccepts ==
    /\ Resumed("recipient")
    /\ Exit("OK")
    /\ UNCHANGED <<failure, refusal>>

FailureNext ==
    \/ \E kind \in Kind : Begin(kind) \/ RecipientCalls(kind)
    \/ \E kind \in {"factory", "basic"} : CallHook(kind)
    \/ \E kind \in Kind : Done(kind)
    \/ FactoryStops
    \/ FactoryRefusesMessage
    \/ FactoryReturns
    \/ BasicPanics
    \/ BasicReturns
    \/ \E code \in FailureCode :
          FactoryIsRefused(code) \/ RecipientAborts(code) \/ RecipientPassesOn(code)
    \/ RecipientAccepts

FailureSpec == FailureInit /\ [][FailureNext]_failureVars

-----------------------------------------------------------------------------

TypeOK ==
    /\ calls \in Seq([kind : Kind, waiting : BOOLEAN])
    /\ \A i \in DOMAIN calls : i < Len(calls) => calls[i].waiting
    /\ answer \in {"none"} \cup ExitCode
    /\ calls = <<>> \/ ~Top.waiting \/ answer # "none"
    /\ failure \in {NoFailure} \cup [error : RuntimeError, code : FailureCode]
    /\ refusal \in {"none"} \cup FailureCode

\* A factory token that stops at an error says so to its caller, whose
\* message then fails too unless it decides otherwise.
FailureIsReported ==
    [][failure' # failure => answer' = failure'.code /\ answer' # "OK"]_failureVars

\* What the one who first failed said is what the caller of the outermost
\* factory token hears, at any depth of tokens and recipients that pass a
\* refusal on (the receiver hook's "if the receiver wishes to reject the
\* incoming transfer, this function should abort").
RefusalReachesCaller == answer \in FailureCode => answer = refusal

\* The code depends on what went wrong, not on the error types around it nor
\* on which of the two tables of error numbers was asked.  StateUpdate holds
\* errors of the SDK, which nothing but its name relates to the others.
CodeNamesTheCause ==
    \A e \in RuntimeError \ Inside("StateUpdate", Bare({"ActorDeleted", "ReadOnly"})) :
        failure # NoFailure /\ e[Len(e)] = failure.error[Len(failure.error)]
        => RuntimeErrorCode(e) = failure.code
=============================================================================
