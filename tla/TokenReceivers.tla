--------------------------- MODULE TokenReceivers ---------------------------
(***************************************************************************)
(* The basic_token_actor together with the actors that receive its tokens  *)
(* in the integration tests: accounts and the basic_receiving_actor, which *)
(* accept anything; the frc46_test_actor, which does what the operator     *)
(* data of the transfer tells it to; and the basic_transfer_actor, which   *)
(* keeps what its first operator sends until it is told to forward it.     *)
(*                                                                         *)
(* A call runs to its end before its caller goes on.  calls is the stack   *)
(* of calls under way.  answer is the exit code of a call that has just    *)
(* ended, for the call below it to look at.  A call that aborts loses its  *)
(* own effects and those of the calls made from it; the caller chooses     *)
(* whether to abort in its turn.                                           *)
(***************************************************************************)
EXTENDS FRC46Library, Sequences

CONSTANTS
    Role,           \* what each actor is
    Actions,        \* the operator data that messages carry, to any depth
    Scripts,        \* that of them which top-level messages carry
    Payments,       \* the amounts that top-level messages carry
    SupplyBound     \* bound on the supply, in the guard of Mint messages

Account == {"account", "receiving"}

ASSUME ReceiversAssumption ==
    /\ Role \in [ActorID -> Account \cup {"test", "transfer"}]
    /\ Scripts \cup { <<"Nothing">> } \subseteq Actions
    /\ Payments \subseteq Int
    /\ SupplyBound \in Nat

\* TestAction: what an action carries besides its name.
ASSUME ActionsAssumption ==
    \A a \in Actions :
        /\ a[1] = "ActionThenAbort" => a[2] \in Actions
        /\ a[1] \in {"Transfer", "TransferWithFallback"}
              => a[2] \in ActorID /\ a[3] \in Actions
        /\ a[1] = "TransferWithFallback" => a[4] \in Actions

Acting(role) == {a \in ActorID : Role[a] = role}

VARIABLES
    root,            \* the token's state root
    operatorAddress, \* the operator each transfer actor remembers
    accepted,        \* ghost: whose tokens each transfer actor has accepted
    calls,           \* the calls under way, the innermost last
    answer,          \* exit code of the call that ended last
    message          \* the top-level message being executed

state == [root |-> root, operatorAddress |-> operatorAddress, accepted |-> accepted]

receiversVars == <<root, operatorAddress, accepted, calls, answer, message>>

Nobody == 0

Actors == [token |-> root, accts |-> ActorID]

Top == calls[Len(calls)]

Below == SubSeq(calls, 1, Len(calls) - 1)

Running(actor, entry) ==
    /\ calls # <<>>
    /\ answer = "none"
    /\ Top.actor \in actor
    /\ Top.entry = entry

Resumed(entry) ==
    /\ calls # <<>>
    /\ answer # "none"
    /\ Top.entry = entry

\* The call on top ends well.
Return ==
    /\ calls' = Below
    /\ answer' = "ok"

\* The call on top aborts, and the FVM puts back the state it began with.
Abort ==
    /\ calls' = Below
    /\ answer' = "abort"
    /\ root' = Top.undo.root
    /\ operatorAddress' = Top.undo.operatorAddress
    /\ accepted' = Top.undo.accepted

-----------------------------------------------------------------------------
(* The token's methods, called from the calls in stack. *)

Hook(op, to, amount, data) ==
    [actor |-> to, entry |-> "Receive", from |-> op, amount |-> amount,
     action |-> data, doomed |-> FALSE, undo |-> state]

\* Mutant of SendTokens: the hook is called before the new state is saved.
SendTokensUnsaved(stack, r, hook) ==
    IF r.ok
    THEN /\ calls' = stack \o << [actor |-> Nobody, entry |-> "token", undo |-> state],
                                 hook >>
         /\ answer' = "none"
         /\ UNCHANGED root
    ELSE /\ calls' = stack
         /\ answer' = "abort"
         /\ UNCHANGED root

\* Mint and Transfer: flush and set the root, then call the receiver hook.
SendTokens(stack, r, hook) ==
    IF r.ok
    THEN /\ root' = r.world.token
         /\ calls' = stack \o << [actor |-> Nobody, entry |-> "token", undo |-> state],
                                 [hook EXCEPT !.undo.root = root'] >>
         /\ answer' = "none"
    ELSE /\ calls' = stack
         /\ answer' = "abort"
         /\ UNCHANGED root

\* transfer: the owner is the operator its recipient is told.
SendTransfer(stack, from, to, amount, data) ==
    SendTokens(stack,
               Transfer(Actors, IDAddress(from), IDAddress(to), amount),
               Hook(from, to, amount, data))

\* The receiver accepted or aborted; the token does what it did.
TokenResumes ==
    /\ Resumed("token")
    /\ \/ answer = "ok" /\ Return /\ UNCHANGED <<root, operatorAddress, accepted>>
       \/ answer = "abort" /\ Abort
    /\ UNCHANGED message

-----------------------------------------------------------------------------
(* Accounts and the basic_receiving_actor. *)

AccountReceive ==
    /\ \E role \in Account : Running(Acting(role), "Receive")
    /\ Return
    /\ UNCHANGED <<root, operatorAddress, accepted, message>>

-----------------------------------------------------------------------------
(* basic_transfer_actor. *)

\* Mutant of TransferActorReceive: later operators are not compared.
TransferActorReceiveAny ==
    /\ Running(Acting("transfer"), "Receive")
    /\ Return
    /\ operatorAddress' = [operatorAddress EXCEPT ![Top.actor] =
                              IF @ = Nobody THEN Top.from ELSE @]
    /\ accepted' = [accepted EXCEPT ![Top.actor] = @ \cup {Top.from}]
    /\ UNCHANGED <<root, message>>

TransferActorReceive ==
    /\ Running(Acting("transfer"), "Receive")
    /\ IF operatorAddress[Top.actor] \in {Nobody, Top.from}
       THEN /\ Return
            /\ operatorAddress' = [operatorAddress EXCEPT ![Top.actor] = Top.from]
            /\ accepted' = [accepted EXCEPT ![Top.actor] = @ \cup {Top.from}]
            /\ UNCHANGED root
       ELSE Abort
    /\ UNCHANGED message

\* Forward: everything it holds, with empty operator data.
TransferActorForward ==
    /\ Running(Acting("transfer"), "Forward")
    /\ IF operatorAddress[Top.actor] # Nobody /\ operatorAddress[Top.actor] = Top.from
       THEN /\ SendTransfer(calls, Top.actor, Top.target,
                            GetBalance(root, Top.actor), <<"Nothing">>)
            /\ UNCHANGED <<operatorAddress, accepted>>
       ELSE Abort
    /\ UNCHANGED message

\* Mutant of ForwardResumes: the exit code of the transfer is not looked at.
ForwardResumesAnyhow ==
    /\ Resumed("Forward")
    /\ Return
    /\ UNCHANGED <<root, operatorAddress, accepted, message>>

ForwardResumes ==
    /\ Resumed("Forward")
    /\ \/ answer = "ok" /\ Return /\ UNCHANGED <<root, operatorAddress, accepted>>
       \/ answer = "abort" /\ Abort
    /\ UNCHANGED message

-----------------------------------------------------------------------------
(* frc46_test_actor.  An action is a tuple headed by its TestAction; the    *)
(* action <<"Nothing">> is operator data that does not decode.              *)

Doing(name) ==
    /\ Running(Acting("test"), "Receive") \/ Running(Acting("test"), "Action")
    /\ Top.action[1] = name

\* handle_action asks the token for the actor's balance, while
\* handle_receive_action uses the amount it was told.
InHand == IF Top.entry = "Receive" THEN Top.amount ELSE GetBalance(root, Top.actor)

\* An action within ActionThenAbort is followed by an abort.
Finish(tok) ==
    IF Top.doomed THEN Abort
    ELSE Return /\ root' = tok /\ UNCHANGED <<operatorAddress, accepted>>

TestAccept ==
    /\ Doing("Accept")
    /\ IF Top.entry = "Receive" THEN Finish(root) ELSE Abort
    /\ UNCHANGED message

TestReject ==
    /\ Doing("Reject") \/ Doing("Nothing")
    /\ Abort
    /\ UNCHANGED message

TestBurn ==
    LET r == Burn(Actors, IDAddress(Top.actor), InHand)
    IN  /\ Doing("Burn")
        /\ IF r.ok THEN Finish(r.world.token) ELSE Abort
        /\ UNCHANGED message

TestActionThenAbort ==
    /\ Doing("ActionThenAbort")
    /\ calls' = [calls EXCEPT ![Len(calls)] =
                    [@ EXCEPT !.doomed = TRUE, !.action = Top.action[2]]]
    /\ UNCHANGED <<root, operatorAddress, accepted, answer, message>>

TestTransfer ==
    /\ Doing("Transfer") \/ Doing("TransferWithFallback")
    /\ SendTransfer(calls, Top.actor, Top.action[2], InHand, Top.action[3])
    /\ UNCHANGED <<operatorAddress, accepted, message>>

\* Mutant of TestResumes: a rejected transfer is tried again.
TestResumesRetry ==
    /\ \E entry \in {"Receive", "Action"} : Resumed(entry)
    /\ IF Top.action[1] = "TransferWithFallback" /\ answer = "abort"
       THEN answer' = "none" /\ UNCHANGED <<root, operatorAddress, accepted, calls>>
       ELSE Finish(root)
    /\ UNCHANGED message

\* The transfer has ended.  A plain Transfer leaves its receipt to whoever
\* called; TransferWithFallback does something else if it failed.
TestResumes ==
    /\ \E entry \in {"Receive", "Action"} : Resumed(entry)
    /\ IF Top.action[1] = "TransferWithFallback" /\ answer = "abort"
       THEN /\ calls' = [calls EXCEPT ![Len(calls)].action = Top.action[4]]
            /\ answer' = "none"
            /\ UNCHANGED <<root, operatorAddress, accepted>>
       ELSE Finish(root)
    /\ UNCHANGED message

-----------------------------------------------------------------------------
(* Top-level messages, from accounts. *)

Begin(m) ==
    /\ calls = <<>>
    /\ message' = m
    /\ UNCHANGED <<operatorAddress, accepted>>

MintMessage(caller, to, amount, data) ==
    /\ root.supply + amount <= SupplyBound
    /\ Begin([method |-> "Mint", caller |-> caller, actor |-> to])
    /\ SendTokens(<<>>, Mint(Actors, IDAddress(caller), IDAddress(to), amount),
                  Hook(caller, to, amount, data))

TransferMessage(caller, to, amount, data) ==
    /\ Begin([method |-> "Transfer", caller |-> caller, actor |-> to])
    /\ SendTransfer(<<>>, caller, to, amount, data)

\* A call of a test actor's Action, or of a transfer actor's Forward.
CallMessage(caller, call) ==
    /\ Begin([method |-> call.entry, caller |-> caller, actor |-> call.actor])
    /\ calls' = << call >>
    /\ answer' = "none"
    /\ UNCHANGED root

ActionMessage(caller, actor, data) ==
    CallMessage(caller, [actor |-> actor, entry |-> "Action", action |-> data,
                         doomed |-> FALSE, undo |-> state])

ForwardMessage(caller, actor, target) ==
    CallMessage(caller, [actor |-> actor, entry |-> "Forward", from |-> caller,
                         target |-> target, undo |-> state])

-----------------------------------------------------------------------------

ReceiversInit ==
    /\ root = NewState
    /\ operatorAddress = [a \in Acting("transfer") |-> Nobody]
    /\ accepted = [a \in Acting("transfer") |-> {}]
    /\ calls = <<>>
    /\ answer = "none"
    /\ message = [method |-> "none", caller |-> Nobody, actor |-> Nobody]

Message ==
    \E caller \in Acting("account") :
        \/ \E to \in ActorID, amount \in Payments, data \in Scripts :
              \/ MintMessage(caller, to, amount, data)
              \/ TransferMessage(caller, to, amount, data)
        \/ \E a \in Acting("test"), data \in Scripts : ActionMessage(caller, a, data)
        \/ \E a \in Acting("transfer"), target \in ActorID : ForwardMessage(caller, a, target)

Execute ==
    \/ TokenResumes
    \/ AccountReceive
    \/ TransferActorReceive
    \/ TransferActorForward
    \/ ForwardResumes
    \/ TestAccept
    \/ TestReject
    \/ TestBurn
    \/ TestActionThenAbort
    \/ TestTransfer
    \/ TestResumes

ReceiversNext == Message \/ Execute

\* The FVM executes a message to its end; whether there is another one is up
\* to the accounts.
ReceiversSpec == ReceiversInit /\ [][ReceiversNext]_receiversVars /\ WF_receiversVars(Execute)

-----------------------------------------------------------------------------

Ended(method, exit) == calls = <<>> /\ message.method = method /\ answer = exit

ReceiversOK ==
    /\ IsTokenState(root)
    /\ operatorAddress \in [Acting("transfer") -> ActorID \cup {Nobody}]
    /\ accepted \in [Acting("transfer") -> SUBSET ActorID]
    /\ answer \in {"none", "ok", "abort"}
    /\ SupplyMatches(root)

\* "Within this hook, the token actor has optimistically persisted the new
\* balance so the receiving actor can immediately utilise the received
\* funds": a receiver that is running in its hook holds what it was told,
\* also when a transfer it tried has been rejected and it falls back.
HookIsFunded ==
    calls # <<>> /\ answer = "none" /\ Top.entry = "Receive"
        => GetBalance(root, Top.actor) >= Top.amount

\* "First operator to send it tokens will be saved and tokens from other
\* operators will be rejected": over all messages, and with the first
\* receipt possibly taken back.
OneOperatorOnly ==
    \A a \in Acting("transfer") : accepted[a] \subseteq {operatorAddress[a]} \ {Nobody}

\* Forward "will transfer the entire balance it holds to a given address",
\* and "will abort if the operator address doesn't match, or if the receiver
\* hook rejects the transfer".
ForwardEmpties ==
    Ended("Forward", "ok") =>
        /\ GetBalance(root, message.actor) = 0
        /\ operatorAddress[message.actor] = message.caller

\* However the receivers call one another, every message comes to an end.
EveryMessageEnds == calls # <<>> ~> calls = <<>>
=============================================================================
