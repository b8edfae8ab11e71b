---------------------------- MODULE ReceiverHook ----------------------------
(***************************************************************************)
(* fvm_actor_utils::receiver::ReceiverHook: the guard that a mint or a     *)
(* transfer hands to the actor that asked for it.  The actor saves the new *)
(* state and then calls the hook.                                          *)
(*                                                                         *)
(* The actor here is whatever somebody may write: it asks for hooks, calls *)
(* them in any order, again if it likes, looks at the error or ignores it, *)
(* lets them go out of scope, and ends with success or with an error.      *)
(***************************************************************************)
EXTENDS Naturals, Sequences

CONSTANT MaxHooks       \* bound on the hooks one method asks for

ASSUME HookAssumption == MaxHooks \in Nat \ {0}

VARIABLES
    hooks,          \* the hooks asked for, in order
    sent,           \* the messages sent, [hook, payload], in order
    status          \* of the method: running, ok or aborted

vars == <<hooks, sent, status>>

\* What a call of the hook comes to.  The parameters may fail to encode and
\* the system call may fail, and then the recipient hears nothing.
Outcome == {"encoding", "syscall", "rejected", "accepted"}

Reaches(outcome) == outcome \in {"rejected", "accepted"}

Init ==
    /\ hooks = <<>>
    /\ sent = <<>>
    /\ status = "running"

\* ReceiverHook::new.  got is what the caller has been given so far.
New ==
    /\ status = "running"
    /\ Len(hooks) < MaxHooks
    /\ hooks' = Append(hooks, [called |-> FALSE, payload |-> "params",
                               result |-> "some", scope |-> TRUE, got |-> {}])
    /\ UNCHANGED <<sent, status>>

\* Mutant of Mark: a hook counts as called once the recipient has accepted.
MarkAccepted(h, outcome) ==
    [h EXCEPT !.called = outcome = "accepted", !.payload = "empty"]

\* called is set, and the payload taken out, before anything can fail.
Mark(h, outcome) == [h EXCEPT !.called = TRUE, !.payload = "empty"]

\* Mutant of Settle: the exit code is not looked at.
SettleAnyhow(h, outcome) ==
    IF Reaches(outcome)
    THEN [h EXCEPT !.result = "none", !.got = @ \cup {"Ok"}]
    ELSE [h EXCEPT !.got = @ \cup {outcome}]

\* The result data is handed out if the recipient accepted.
Settle(h, outcome) ==
    IF outcome = "accepted"
    THEN [h EXCEPT !.result = "none", !.got = @ \cup {"Ok"}]
    ELSE [h EXCEPT !.got = @ \cup {outcome}]

\* ReceiverHook::call.
Call(i, outcome) ==
    /\ status = "running"
    /\ hooks[i].scope
    /\ IF hooks[i].called
       THEN /\ hooks' = [hooks EXCEPT ![i].got = @ \cup {"AlreadyCalled"}]
            /\ UNCHANGED sent
       ELSE /\ hooks' = [hooks EXCEPT ![i] = Settle(Mark(@, outcome), outcome)]
            /\ sent' = IF Reaches(outcome)
                       THEN Append(sent, [hook |-> i, payload |-> hooks[i].payload,
                                          accepted |-> outcome = "accepted"])
                       ELSE sent
    /\ UNCHANGED status

\* Mutant of DropPanics: a hook may go unused.
DropPanicsNever(h) == FALSE

DropPanics(h) == ~h.called

\* ReceiverHook::drop, when the actor lets one go.
Drop(i) ==
    /\ status = "running"
    /\ hooks[i].scope
    /\ hooks' = [hooks EXCEPT ![i].scope = FALSE]
    /\ status' = IF DropPanics(hooks[i]) THEN "aborted" ELSE status
    /\ UNCHANGED sent

\* The method ends well: what is still in scope is dropped.
End ==
    /\ status = "running"
    /\ status' = IF \E i \in DOMAIN hooks : hooks[i].scope /\ DropPanics(hooks[i])
                 THEN "aborted" ELSE "ok"
    /\ UNCHANGED <<hooks, sent>>

\* The method ends with an error, as it does where a call is followed by ?.
GiveUp ==
    /\ status = "running"
    /\ status' = "aborted"
    /\ UNCHANGED <<hooks, sent>>

Next ==
    \/ New
    \/ \E i \in DOMAIN hooks : Drop(i) \/ (\E outcome \in Outcome : Call(i, outcome))
    \/ End
    \/ GiveUp

Spec == Init /\ [][Next]_vars

-----------------------------------------------------------------------------

Told(i) == {k \in DOMAIN sent : sent[k].hook = i}

\* A recipient is told of a transfer at most once, and with the parameters of
\* the transfer, however often the actor calls the hook and whatever came of
\* the first call: the payload is gone after it.
ToldAtMostOnce ==
    /\ \A j, k \in DOMAIN sent : sent[j].hook = sent[k].hook => j = k
    /\ \A k \in DOMAIN sent : sent[k].payload = "params"

\* "This also tracks whether the call has been made or not, and will panic if
\* dropped without calling the hook": a method cannot succeed with a
\* recipient that was neither told nor reported as out of reach.
NobodyForgotten ==
    status = "ok" => \A i \in DOMAIN hooks :
                        Told(i) # {} \/ hooks[i].got \cap {"encoding", "syscall"} # {}

\* "An error if already called.  An error if the hook call aborted": the
\* actor sees success only for a recipient that accepted, and the data it is
\* given then has not been given before.
SuccessIsAcceptance ==
    \A i \in DOMAIN hooks :
        /\ "Ok" \in hooks[i].got <=> \E k \in Told(i) : sent[k].accepted
        /\ "Ok" \in hooks[i].got <=> hooks[i].result = "none"
=============================================================================
