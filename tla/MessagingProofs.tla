---------------------------- MODULE MessagingProofs ----------------------------
(***************************************************************************)
(* What goes from actor to actor with a message, proved of each on its     *)
(* own: the guard on the receiver hook (ReceiverHook), the number that     *)
(* names a method (MethodDispatch), and the exit code that comes back      *)
(* (FailurePropagation).                                                   *)
(*                                                                         *)
(* The guard, for any number of hooks in one method: whatever the actor    *)
(* does with them, nobody is told twice, nobody is forgotten, and success  *)
(* is reported for those alone who accepted.                               *)
(*                                                                         *)
(* The numbers, for any names, any hash and any actor built with           *)
(* match_method!: no reserved number runs a method.                        *)
(*                                                                         *)
(* The codes, for any depth of tokens and recipients: who failed first is  *)
(* heard at the outermost token, and the code tells the cause.             *)
(***************************************************************************)
EXTENDS ReceiverHook, MethodDispatch, FailurePropagation, SequenceTheorems,
        WellFoundedInduction, TLAPS

-----------------------------------------------------------------------------
(* The guard. *)

HookRecord == [called : BOOLEAN, payload : {"params", "empty"},
               result : {"some", "none"}, scope : BOOLEAN,
               got : SUBSET (Outcome \cup {"Ok", "AlreadyCalled"})]

Message == [hook : Nat, payload : {"params", "empty"}, accepted : BOOLEAN]

\* A hook not called holds its parameters and has sent nothing; one that was
\* called has told the recipient or said why not.
HookOK(i) ==
    /\ ~hooks[i].called => /\ hooks[i].payload = "params"
                           /\ hooks[i].got = {}
                           /\ hooks[i].result = "some"
                           /\ \A k \in DOMAIN sent : sent[k].hook # i
    /\ hooks[i].called => \/ \E k \in DOMAIN sent : sent[k].hook = i
                          \/ hooks[i].got \cap {"encoding", "syscall"} # {}
    /\ "Ok" \in hooks[i].got
         <=> \E k \in DOMAIN sent : sent[k].hook = i /\ sent[k].accepted
    /\ "Ok" \in hooks[i].got <=> hooks[i].result = "none"

Types ==
    /\ hooks \in Seq(HookRecord)
    /\ sent \in Seq(Message)
    /\ status \in {"running", "ok", "aborted"}

\* The inductive invariant.  A hook that went out of scope unused has ended
\* the method, and one still in scope at its end would have.
IInv ==
    /\ Types
    /\ \A k \in DOMAIN sent : /\ sent[k].hook \in DOMAIN hooks
                              /\ sent[k].payload = "params"
    /\ \A j, k \in DOMAIN sent : sent[j].hook = sent[k].hook => j = k
    /\ \A i \in DOMAIN hooks : HookOK(i)
    /\ status # "aborted" => \A i \in DOMAIN hooks : ~hooks[i].scope => hooks[i].called
    /\ status = "ok" => \A i \in DOMAIN hooks : hooks[i].called

-----------------------------------------------------------------------------

LEMMA Appended ==
    ASSUME NEW S, NEW s \in Seq(S), NEW e \in S
    PROVE  LET t == Append(s, e)
           IN  /\ t \in Seq(S)
               /\ Len(s) \in Nat
               /\ DOMAIN s = 1..Len(s)
               /\ DOMAIN t = 1..(Len(s) + 1)
               /\ \A i \in 1..Len(s) : t[i] = s[i]
               /\ t[Len(s) + 1] = e
<1>1. /\ Append(s, e) \in Seq(S)
      /\ Len(Append(s, e)) = Len(s) + 1
      /\ \A i \in 1..Len(s) : Append(s, e)[i] = s[i]
      /\ Append(s, e)[Len(s) + 1] = e
  BY AppendProperties
<1>2. Len(s) \in Nat /\ DOMAIN s = 1..Len(s)
  OBVIOUS
<1>3. DOMAIN Append(s, e) = 1..(Len(s) + 1)
  BY <1>1
<1>4. QED
  BY <1>1, <1>2, <1>3

\* Replacing one hook leaves a sequence of hooks with the same indices.
LEMMA Replaced ==
    ASSUME Types, NEW i \in DOMAIN hooks, NEW h \in HookRecord
    PROVE  LET t == [hooks EXCEPT ![i] = h]
           IN  /\ t \in Seq(HookRecord)
               /\ DOMAIN t = DOMAIN hooks
               /\ t[i] = h
               /\ \A j \in DOMAIN hooks : j # i => t[j] = hooks[j]
<1> DEFINE t == [hooks EXCEPT ![i] = h]
<1>1. hooks \in Seq(HookRecord)
  BY DEF Types
<1>2. Len(hooks) \in Nat /\ DOMAIN hooks = 1..Len(hooks)
      /\ hooks \in [1..Len(hooks) -> HookRecord]
  BY <1>1
<1>3. t \in [1..Len(hooks) -> HookRecord]
  BY <1>2
<1>4. t \in Seq(HookRecord)
  BY <1>2, <1>3, SeqDef
<1>5. QED
  BY <1>2, <1>3, <1>4

LEMMA HookType ==
    ASSUME Types, NEW i \in DOMAIN hooks
    PROVE  hooks[i] \in HookRecord
<1>1. hooks \in Seq(HookRecord)
  BY DEF Types
<1>2. QED
  BY <1>1

LEMMA NewIInv ==
    ASSUME IInv, New
    PROVE  IInv'
<1> DEFINE h == [called |-> FALSE, payload |-> "params", result |-> "some",
                 scope |-> TRUE, got |-> {}]
           n == Len(hooks)
<1>1. h \in HookRecord
  BY DEF HookRecord
<1>2. hooks' = Append(hooks, h) /\ sent' = sent /\ status' = status /\ status = "running"
  BY DEF New
<1> HIDE DEF h
<1>3. /\ hooks' \in Seq(HookRecord)
      /\ n \in Nat
      /\ DOMAIN hooks = 1..n
      /\ DOMAIN hooks' = 1..(n + 1)
      /\ \A i \in 1..n : hooks'[i] = hooks[i]
      /\ hooks'[n + 1] = h
  BY <1>1, <1>2, Appended DEF IInv, Types
<1> HIDE DEF n
<1>4. DOMAIN hooks \subseteq DOMAIN hooks' /\ n + 1 \notin DOMAIN hooks
      /\ \A i \in DOMAIN hooks' : i \in DOMAIN hooks \/ i = n + 1
  BY <1>3
<1>5. \A i \in DOMAIN hooks : hooks'[i] = hooks[i]
  BY <1>3
<1>6. Types'
  BY <1>2, <1>3 DEF IInv, Types
<1>7. \A i \in DOMAIN hooks : HookOK(i)'
  BY <1>2, <1>5 DEF IInv, HookOK
<1>8. ASSUME NEW i \in DOMAIN hooks', i = n + 1 PROVE HookOK(i)'
  <2>1. hooks'[i] = h /\ \A k \in DOMAIN sent' : sent'[k].hook # i
    BY <1>2, <1>3, <1>4, <1>8 DEF IInv
  <2>2. /\ ~h.called /\ h.payload = "params" /\ h.result = "some"
        /\ h.got = {}
    BY DEF h
  <2>3. QED
    BY <2>1, <2>2 DEF HookOK
<1>9. \A i \in DOMAIN hooks' : ~hooks'[i].scope => hooks'[i].called
  BY <1>2, <1>3, <1>4, <1>5 DEF IInv, h
<1>10. \A i \in DOMAIN hooks' : HookOK(i)'
  BY <1>4, <1>7, <1>8
<1>11. QED
  BY <1>2, <1>4, <1>6, <1>9, <1>10 DEF IInv

\* A further call changes nothing but what its caller is given.
LEMMA CallAgainIInv ==
    ASSUME IInv, NEW i \in DOMAIN hooks, NEW outcome, hooks[i].called,
           Call(i, outcome)
    PROVE  IInv'
<1> DEFINE g == [hooks[i] EXCEPT !.got = @ \cup {"AlreadyCalled"}]
<1>1. hooks[i] \in HookRecord
  BY HookType DEF IInv
<1>2. /\ g \in HookRecord
      /\ g.called = hooks[i].called
      /\ g.result = hooks[i].result
      /\ g.scope = hooks[i].scope
      /\ g.got = hooks[i].got \cup {"AlreadyCalled"}
  BY <1>1 DEF HookRecord
<1>3. hooks' = [hooks EXCEPT ![i] = g] /\ sent' = sent
      /\ status' = status /\ status = "running"
  BY DEF Call
<1> HIDE DEF g
<1>4. /\ hooks' \in Seq(HookRecord)
      /\ DOMAIN hooks' = DOMAIN hooks
      /\ hooks'[i] = g
      /\ \A j \in DOMAIN hooks : j # i => hooks'[j] = hooks[j]
  BY <1>2, <1>3, Replaced DEF IInv
<1>5. Types'
  BY <1>3, <1>4 DEF IInv, Types
<1>6. \A j \in DOMAIN hooks : j # i => HookOK(j)'
  BY <1>3, <1>4 DEF IInv, HookOK
<1>7. HookOK(i)'
  <2>1. HookOK(i)
    BY DEF IInv
  <2>2. /\ "Ok" \in g.got <=> "Ok" \in hooks[i].got
        /\ hooks[i].got \cap {"encoding", "syscall"} # {}
             => g.got \cap {"encoding", "syscall"} # {}
    BY <1>2
  <2>3. QED
    BY <1>2, <1>3, <1>4, <2>1, <2>2 DEF HookOK
<1>8. \A j \in DOMAIN hooks : ~hooks'[j].scope => hooks'[j].called
  BY <1>2, <1>3, <1>4 DEF IInv
<1>9. QED
  BY <1>3, <1>4, <1>5, <1>6, <1>7, <1>8 DEF IInv

\* What a first call makes of a hook.
LEMMA Settled ==
    ASSUME NEW h \in HookRecord, NEW outcome \in Outcome, h.result = "some", h.got = {}
    PROVE  LET g == Settle(Mark(h, outcome), outcome)
           IN  /\ g \in HookRecord
               /\ g.called
               /\ g.scope = h.scope
               /\ outcome = "accepted" => g.result = "none" /\ g.got = {"Ok"}
               /\ outcome # "accepted" => g.result = "some" /\ g.got = {outcome}
  BY DEF HookRecord, Settle, Mark, Outcome

LEMMA FirstCallIInv ==
    ASSUME IInv, NEW i \in DOMAIN hooks, NEW outcome \in Outcome,
           status = "running", ~hooks[i].called, Call(i, outcome)
    PROVE  IInv'
<1> DEFINE g == Settle(Mark(hooks[i], outcome), outcome)
           m == [hook |-> i, payload |-> hooks[i].payload,
                 accepted |-> outcome = "accepted"]
           n == Len(sent)
<1>1. /\ hooks' = [hooks EXCEPT ![i] = g]
      /\ sent' = IF Reaches(outcome) THEN Append(sent, m) ELSE sent
      /\ status' = status
  BY DEF Call
<1>2. /\ hooks[i].result = "some" /\ hooks[i].got = {} /\ hooks[i].payload = "params"
      /\ \A k \in DOMAIN sent : sent[k].hook # i
  BY DEF IInv, HookOK
<1>3. /\ g \in HookRecord
      /\ g.called
      /\ outcome = "accepted" => g.result = "none" /\ g.got = {"Ok"}
      /\ outcome # "accepted" => g.result = "some" /\ g.got = {outcome}
  BY <1>2, HookType, Settled DEF IInv
<1> HIDE DEF g
<1>4. /\ hooks' \in Seq(HookRecord)
      /\ DOMAIN hooks' = DOMAIN hooks
      /\ hooks'[i] = g
      /\ \A j \in DOMAIN hooks : j # i => hooks'[j] = hooks[j]
  BY <1>1, <1>3, Replaced DEF IInv
<1>5. \A j \in DOMAIN hooks : ~hooks'[j].scope => hooks'[j].called
  BY <1>3, <1>4 DEF IInv
<1>6. CASE ~Reaches(outcome)
  <2>1. sent' = sent /\ outcome \in {"encoding", "syscall"}
    BY <1>1, <1>6 DEF Reaches, Outcome
  <2>2. Types'
    BY <1>1, <1>4, <2>1 DEF IInv, Types
  <2>3. \A j \in DOMAIN hooks : j # i => HookOK(j)'
    BY <1>4, <2>1 DEF IInv, HookOK
  <2>4. HookOK(i)'
    BY <1>2, <1>3, <1>4, <2>1 DEF HookOK
  <2>5. QED
    BY <1>1, <1>4, <1>5, <2>1, <2>2, <2>3, <2>4 DEF IInv
<1>7. CASE Reaches(outcome)
  <2>1. sent' = Append(sent, m) /\ outcome \in {"rejected", "accepted"}
    BY <1>1, <1>7 DEF Reaches
  <2>2. i \in Nat
    <3>1. hooks \in Seq(HookRecord)
      BY DEF IInv, Types
    <3>2. DOMAIN hooks = 1..Len(hooks) /\ Len(hooks) \in Nat
      BY <3>1
    <3>3. QED
      BY <3>2
  <2>3. /\ m \in Message /\ m.hook = i /\ m.payload = "params"
        /\ m.accepted <=> outcome = "accepted"
    BY <1>2, <2>2 DEF Message
  <2> HIDE DEF m
  <2>4. /\ sent' \in Seq(Message)
        /\ n \in Nat
        /\ DOMAIN sent = 1..n
        /\ DOMAIN sent' = 1..(n + 1)
        /\ \A k \in 1..n : sent'[k] = sent[k]
        /\ sent'[n + 1] = m
    BY <2>1, <2>3, Appended DEF IInv, Types
  <2> HIDE DEF n
  <2>5. /\ \A k \in DOMAIN sent : k \in DOMAIN sent' /\ sent'[k] = sent[k]
        /\ n + 1 \in DOMAIN sent'
        /\ \A k \in DOMAIN sent' : k \in DOMAIN sent \/ k = n + 1
    BY <2>4
  <2>6. Types'
    BY <1>1, <1>4, <2>4 DEF IInv, Types
  <2>7. \A j \in DOMAIN hooks : j # i => HookOK(j)'
    <3> SUFFICES ASSUME NEW j \in DOMAIN hooks, j # i PROVE HookOK(j)'
      OBVIOUS
    <3>1. HookOK(j) /\ hooks'[j] = hooks[j]
      BY <1>4 DEF IInv
    <3>2. \A k \in DOMAIN sent' : sent'[k].hook = j => k \in DOMAIN sent
      BY <2>3, <2>4, <2>5
    <3>3. QED
      BY <2>5, <3>1, <3>2 DEF HookOK
  <2>8. HookOK(i)'
    <3>1. \A k \in DOMAIN sent' : sent'[k].hook = i => k = n + 1
      BY <1>2, <2>5
    <3>2. sent'[n + 1].hook = i /\ (sent'[n + 1].accepted <=> outcome = "accepted")
      BY <2>3, <2>4
    <3>3. QED
      BY <1>3, <1>4, <2>1, <2>5, <3>1, <3>2 DEF HookOK
  <2>9. \A k \in DOMAIN sent' : /\ sent'[k].hook \in DOMAIN hooks'
                                /\ sent'[k].payload = "params"
    BY <1>4, <2>3, <2>4, <2>5 DEF IInv
  <2>10. \A j, k \in DOMAIN sent' : sent'[j].hook = sent'[k].hook => j = k
    <3> SUFFICES ASSUME NEW j \in DOMAIN sent', NEW k \in DOMAIN sent',
                        sent'[j].hook = sent'[k].hook
                 PROVE  j = k
      OBVIOUS
    <3>1. CASE j \in DOMAIN sent /\ k \in DOMAIN sent
      BY <2>5, <3>1 DEF IInv
    <3>2. CASE j = n + 1 \/ k = n + 1
      BY <1>2, <2>3, <2>4, <2>5, <3>2
    <3>3. QED
      BY <2>5, <3>1, <3>2
  <2>11. QED
    BY <1>1, <1>4, <1>5, <2>6, <2>7, <2>8, <2>9, <2>10 DEF IInv
<1>8. QED
  BY <1>6, <1>7

LEMMA DropIInv ==
    ASSUME IInv, NEW i \in DOMAIN hooks, Drop(i)
    PROVE  IInv'
<1> DEFINE g == [hooks[i] EXCEPT !.scope = FALSE]
<1>1. hooks[i] \in HookRecord
  BY HookType DEF IInv
<1>2. /\ g \in HookRecord
      /\ g.called = hooks[i].called
      /\ g.payload = hooks[i].payload
      /\ g.result = hooks[i].result
      /\ g.got = hooks[i].got
  BY <1>1 DEF HookRecord
<1>3. /\ hooks' = [hooks EXCEPT ![i] = g] /\ sent' = sent
      /\ status = "running"
      /\ status' = IF ~hooks[i].called THEN "aborted" ELSE "running"
  BY DEF Drop, DropPanics
<1> HIDE DEF g
<1>4. /\ hooks' \in Seq(HookRecord)
      /\ DOMAIN hooks' = DOMAIN hooks
      /\ hooks'[i] = g
      /\ \A j \in DOMAIN hooks : j # i => hooks'[j] = hooks[j]
  BY <1>2, <1>3, Replaced DEF IInv
<1>5. Types'
  BY <1>3, <1>4 DEF IInv, Types
<1>6. \A j \in DOMAIN hooks : HookOK(j)'
  BY <1>2, <1>3, <1>4 DEF IInv, HookOK
<1>7. status' # "aborted" => \A j \in DOMAIN hooks : ~hooks'[j].scope => hooks'[j].called
  BY <1>2, <1>3, <1>4 DEF IInv
<1>8. QED
  BY <1>3, <1>4, <1>5, <1>6, <1>7 DEF IInv

LEMMA EndIInv ==
    ASSUME IInv, End \/ GiveUp
    PROVE  IInv'
<1>1. /\ hooks' = hooks /\ sent' = sent /\ status = "running"
      /\ status' \in {"ok", "aborted"}
      /\ status' = "ok" => ~\E i \in DOMAIN hooks : hooks[i].scope /\ ~hooks[i].called
  BY DEF End, GiveUp, DropPanics
<1>2. Types' /\ \A i \in DOMAIN hooks : HookOK(i)'
  BY <1>1 DEF IInv, Types, HookOK
<1>3. status' = "ok" => \A i \in DOMAIN hooks : hooks[i].called
  <2> SUFFICES ASSUME status' = "ok", NEW i \in DOMAIN hooks PROVE hooks[i].called
    OBVIOUS
  <2>1. hooks[i].scope \in BOOLEAN /\ hooks[i].called \in BOOLEAN
    BY HookType DEF IInv, HookRecord
  <2>2. QED
    BY <1>1, <2>1 DEF IInv
<1>4. QED
  BY <1>1, <1>2, <1>3 DEF IInv

LEMMA NextIInv == IInv /\ [Next]_vars => IInv'
<1> SUFFICES ASSUME IInv, [Next]_vars PROVE IInv'
  OBVIOUS
<1>1. CASE UNCHANGED vars
  BY <1>1 DEF vars, IInv, Types, HookOK
<1>2. ASSUME NEW i \in DOMAIN hooks, NEW outcome \in Outcome, Call(i, outcome)
      PROVE  IInv'
  <2>1. CASE hooks[i].called
    BY <1>2, <2>1, CallAgainIInv DEF Call
  <2>2. CASE ~hooks[i].called
    BY <1>2, <2>2, FirstCallIInv DEF Call
  <2>3. QED
    BY <2>1, <2>2
<1>3. QED
  BY <1>1, <1>2, NewIInv, DropIInv, EndIInv DEF Next

LEMMA InitIInv == Init => IInv
<1> SUFFICES ASSUME Init PROVE IInv
  OBVIOUS
<1>1. hooks = <<>> /\ sent = <<>> /\ status = "running"
  BY DEF Init
<1>2. hooks \in Seq(HookRecord) /\ sent \in Seq(Message)
      /\ DOMAIN hooks = {} /\ DOMAIN sent = {}
  BY <1>1
<1>3. QED
  BY <1>1, <1>2 DEF IInv, Types

\* IInv holds in every state of the method.
THEOREM Invariance == Spec => []IInv
  BY InitIInv, NextIInv, PTL DEF Spec

\* However many hooks a method asks for and however often it calls each, a
\* recipient hears of its transfer once at most, with the right parameters.
THEOREM OnceAtMost == Spec => []ToldAtMostOnce
<1>1. IInv => ToldAtMostOnce
  BY DEF IInv, ToldAtMostOnce
<1>2. QED
  BY <1>1, Invariance, PTL

\* A method that succeeds has told every recipient, or has been told that it
\* could not be reached (ReceiverHook::drop panics otherwise).
THEOREM NoneForgotten == Spec => []NobodyForgotten
<1>1. IInv => NobodyForgotten
  BY DEF IInv, HookOK, NobodyForgotten, Told
<1>2. QED
  BY <1>1, Invariance, PTL

\* The actor sees success for the recipients that accepted and no others.
THEOREM SuccessMeansAcceptance == Spec => []SuccessIsAcceptance
<1>1. IInv => SuccessIsAcceptance
  BY DEF IInv, HookOK, SuccessIsAcceptance, Told
<1>2. QED
  BY <1>1, Invariance, PTL

-----------------------------------------------------------------------------
(* The numbers. *)

\* The last call ran what the arms say.
CallOK ==
    \/ call = NoCall
    \/ /\ call = [by |-> "error", name |-> call.name, ran |-> 0]
    \/ /\ call = [by |-> "name", name |-> call.name, number |-> call.number,
                  ran |-> call.ran]
       /\ call.number = method_number(call.name)
       /\ call.number # NoNumber
       /\ call.ran = Dispatch(call.number)
    \/ /\ call = [by |-> "number", number |-> call.number, ran |-> call.ran]
       /\ call.ran = Dispatch(call.number)

\* The inductive invariant.  Nothing is called before the actor is built.
DispatchIInv ==
    /\ arms \in Seq(Names)
    /\ \A i \in DOMAIN arms : method_number(arms[i]) # NoNumber
    /\ arms = <<>> => call = NoCall
    /\ CallOK

\* The induction over numbers: a set of them has a smallest.
LEMMA LeastIsMin ==
    ASSUME NEW T \in SUBSET Nat, T # {}
    PROVE  Min(T) \in T /\ \A y \in T : Min(T) <= y
<1>1. IsWellFoundedOn(OpToRel(<, Nat), Nat)
  BY NatLessThanWellFounded
<1>2. PICK x \in T : \A y \in T : ~(<<y, x>> \in OpToRel(<, Nat))
  BY <1>1, WFMin
<1>3. \A y \in T : ~(y < x)
  BY <1>2 DEF OpToRel
<1>4. x \in Nat /\ \A y \in T : y \in Nat
  OBVIOUS
<1>5. \A y \in T : x <= y
  BY <1>3, <1>4
<1>6. QED
  BY <1>5 DEF Min

\* A number from a name is the constructor's or not a reserved one, whatever
\* the digest.
LEMMA NumberKinds ==
    ASSUME NEW name
    PROVE  \/ method_number(name) = NoNumber
           \/ method_number(name) = 1 /\ name = CONSTRUCTOR_METHOD_NAME
           \/ /\ method_number(name) >= FIRST_METHOD_NUMBER
              /\ method_number(name) # 1
              /\ name # CONSTRUCTOR_METHOD_NAME
<1> DEFINE chunks == Chunks(hash[name])
           usable == {k \in DOMAIN chunks : chunks[k] >= FIRST_METHOD_NUMBER}
<1>1. \/ method_number(name) = NoNumber
      \/ method_number(name) = 1 /\ name = CONSTRUCTOR_METHOD_NAME
      \/ /\ method_number(name) = FirstAtLeast(chunks, FIRST_METHOD_NUMBER)
         /\ name # CONSTRUCTOR_METHOD_NAME
  BY DEF method_number, CONSTRUCTOR_METHOD_NUMBER
<1>2. usable \in SUBSET Nat
  BY DEF Chunks
<1>3. CASE usable = {}
  BY <1>1, <1>3 DEF FirstAtLeast
<1>4. CASE usable # {}
  <2>1. FirstAtLeast(chunks, FIRST_METHOD_NUMBER) = chunks[Min(usable)]
    BY <1>4 DEF FirstAtLeast
  <2>2. Min(usable) \in usable
    <3> HIDE DEF usable
    <3>1. QED
      BY <1>2, <1>4, LeastIsMin
  <2>3. chunks[Min(usable)] >= FIRST_METHOD_NUMBER
    BY <2>2
  <2> HIDE DEF chunks, usable
  <2>4. chunks[Min(usable)] # 1
    BY <2>3 DEF FIRST_METHOD_NUMBER
  <2>5. QED
    BY <1>1, <2>1, <2>3, <2>4
<1>5. QED
  BY <1>3, <1>4

\* The arm that runs has the number.
LEMMA DispatchMatches ==
    ASSUME arms \in Seq(Names), NEW number, Dispatch(number) # 0
    PROVE  /\ Dispatch(number) \in DOMAIN arms
           /\ method_number(arms[Dispatch(number)]) = number
<1> DEFINE matching == {i \in DOMAIN arms : method_number(arms[i]) = number}
<1>1. matching \in SUBSET Nat
  OBVIOUS
<1>2. matching # {} => Min(matching) \in matching
  BY <1>1, LeastIsMin
<1>3. QED
  BY <1>2 DEF Dispatch

LEMMA DispatchInitIInv == DispatchInit => DispatchIInv
  BY DEF DispatchInit, DispatchIInv, CallOK

LEMMA DispatchNextIInv == DispatchIInv /\ [DispatchNext]_dispatchVars => DispatchIInv'
<1> SUFFICES ASSUME DispatchIInv, [DispatchNext]_dispatchVars PROVE DispatchIInv'
  OBVIOUS
<1>1. CASE UNCHANGED dispatchVars
  BY <1>1
     DEF dispatchVars, DispatchIInv, CallOK, Dispatch, method_number
<1>2. ASSUME NEW body \in Bodies, Build(body)
      PROVE  DispatchIInv'
  <2>1. arms' = body /\ hash' = hash /\ call' = call /\ call = NoCall
    BY <1>2 DEF Build, DispatchIInv
  <2>2. body \in Seq(Names)
    BY DispatchAssumption
  <2>3. (\A i \in DOMAIN arms : method_number(arms[i]) # NoNumber)'
    BY <1>2, <2>1 DEF Build, method_number, NoNumber
  <2>4. QED
    BY <2>1, <2>2, <2>3 DEF DispatchIInv, CallOK, NoCall
<1>3. ASSUME NEW name \in Names, CallMethod(name)
      PROVE  DispatchIInv'
  <2>1. /\ arms' = arms /\ hash' = hash /\ arms # <<>>
        /\ call' = IF method_number(name) = NoNumber
                   THEN [by |-> "error", name |-> name, ran |-> 0]
                   ELSE [by |-> "name", name |-> name, number |-> method_number(name),
                         ran |-> Dispatch(method_number(name))]
    BY <1>3 DEF CallMethod
  <2>2. CallOK'
    BY <2>1 DEF CallOK, Dispatch, method_number
  <2>3. QED
    BY <2>1, <2>2 DEF DispatchIInv, method_number
<1>4. ASSUME NEW number \in Numbers, CallNumber(number)
      PROVE  DispatchIInv'
  <2>1. /\ arms' = arms /\ hash' = hash /\ arms # <<>>
        /\ call' = [by |-> "number", number |-> number, ran |-> Dispatch(number)]
    BY <1>4 DEF CallNumber
  <2>2. CallOK'
    BY <2>1 DEF CallOK, Dispatch, method_number
  <2>3. QED
    BY <2>1, <2>2 DEF DispatchIInv, method_number
<1>5. QED
  BY <1>1, <1>2, <1>3, <1>4 DEF DispatchNext

LEMMA DispatchInvariance == DispatchSpec => []DispatchIInv
  BY DispatchInitIInv, DispatchNextIInv, PTL DEF DispatchSpec

\* Whatever the names hash to, a reserved number runs nothing (the comment in
\* MethodResolver::method_number), but for the constructor's.
THEOREM ReservedCorrect == DispatchSpec => []ReservedNumbersRunNothing
<1>1. DispatchIInv => ReservedNumbersRunNothing
  <2> SUFFICES ASSUME DispatchIInv PROVE ReservedNumbersRunNothing
    OBVIOUS
  <2>1. CASE call.by \in {"none", "error"}
    <3>1. call.ran = 0
      BY <2>1 DEF DispatchIInv, CallOK, NoCall
    <3>2. QED
      BY <2>1, <3>1 DEF ReservedNumbersRunNothing
  <2>2. CASE call.by \in {"name", "number"}
    <3>1. /\ call.by = "name" => /\ call.number = method_number(call.name)
                                 /\ call.number # NoNumber
          /\ call.ran = Dispatch(call.number)
      BY <2>2 DEF DispatchIInv, CallOK, NoCall
    <3>2. call.ran # 0 => /\ call.ran \in DOMAIN arms
                          /\ method_number(arms[call.ran]) = call.number
                          /\ method_number(arms[call.ran]) # NoNumber
      BY <3>1, DispatchMatches DEF DispatchIInv
    <3>3. call.by = "name" =>
             \/ call.number = 1 /\ call.name = CONSTRUCTOR_METHOD_NAME
             \/ call.number >= FIRST_METHOD_NUMBER /\ call.number # 1
      BY <3>1, NumberKinds
    <3>4. call.ran # 0 =>
             \/ call.number = 1 /\ arms[call.ran] = CONSTRUCTOR_METHOD_NAME
             \/ /\ call.number >= FIRST_METHOD_NUMBER /\ call.number # 1
                /\ arms[call.ran] # CONSTRUCTOR_METHOD_NAME
      BY <3>2, NumberKinds
    <3>5. QED
      BY <3>3, <3>4 DEF ReservedNumbersRunNothing
  <2>3. call.by \in {"none", "error", "name", "number"}
    BY DEF DispatchIInv, CallOK, NoCall
  <2>4. QED
    BY <2>1, <2>2, <2>3
<1>2. QED
  BY <1>1, DispatchInvariance, PTL

-----------------------------------------------------------------------------
(* The exit codes: what an error comes to is told by its innermost part.   *)

Cause(e) == e[Len(e)]

CauseCode(x) ==
    IF x \in FailureCode THEN x
    ELSE IF x \in ErrorNumber THEN NumberCode(x)
    ELSE IF x \in {"AddressNotAuthorized", "MintingDisabled"} THEN "USR_FORBIDDEN"
    ELSE IF x \in {"StateRead", "NoState", "AddressNotResolved",
                   "AddressNotInitialized", "InvalidIdAddress"} THEN "USR_NOT_FOUND"
    ELSE IF x \in {"NotCalled", "AlreadyCalled"} THEN "USR_ASSERTION_FAILED"
    ELSE IF x \in {"InsufficientBalance", "InsufficientAllowance"}
         THEN "USR_INSUFFICIENT_FUNDS"
    ELSE IF x \in {"MissingState", "NegativeTotalSupply", "NegativeAllowance",
                   "NegativeBalance", "StateInvariant"} THEN "USR_ILLEGAL_STATE"
    ELSE IF x \in {"InvalidNegative", "InvalidGranularity", "InvalidOperator"}
         THEN "USR_ILLEGAL_ARGUMENT"
    ELSE "USR_SERIALIZATION"

IsError(e) == e # <<>> /\ \E T : e \in Seq(T)

\* The code is the one of the cause, and none but a failure's.
Coded(e, code) ==
    /\ IsError(e)
    /\ code = CauseCode(Cause(e))
    /\ code \in FailureCode

LEMMA BareError ==
    ASSUME NEW vs, NEW e \in Bare(vs)
    PROVE  IsError(e) /\ e[1] \in vs /\ Cause(e) = e[1]
<1>1. PICK v \in vs : e = <<v>>
  BY DEF Bare
<1>2. e \in Seq(vs) /\ Len(e) = 1 /\ e[1] = v /\ e # <<>>
  BY <1>1
<1>3. IsError(e)
  BY <1>2 DEF IsError
<1>4. QED
  BY <1>2, <1>3 DEF Cause

LEMMA InsideError ==
    ASSUME NEW v, NEW errors, \A e \in errors : IsError(e),
           NEW f \in Inside(v, errors)
    PROVE  /\ IsError(f) /\ f[1] = v
           /\ Tail(f) \in errors
           /\ Cause(f) = Cause(Tail(f))
<1>1. PICK e \in errors : f = <<v>> \o e
  BY DEF Inside
<1>2. PICK U : e \in Seq(U) /\ e # <<>>
  BY DEF IsError
<1> DEFINE T == U \cup {v}
           h == <<v>>
<1>3. e \in Seq(T) /\ Len(e) \in Nat /\ Len(e) >= 1
  <2>1. /\ Len(e) \in Nat /\ DOMAIN e = 1..Len(e) /\ e = [i \in 1..Len(e) |-> e[i]]
        /\ \A i \in 1..Len(e) : e[i] \in U
    BY <1>2
  <2>2. e \in Seq(T)
    BY <2>1, SeqDef
  <2>3. Len(e) # 0
    BY <1>2, EmptySeq
  <2>4. QED
    BY <2>1, <2>2, <2>3
<1>4. h \in Seq(T) /\ Len(h) = 1 /\ h[1] = v
  OBVIOUS
<1> HIDE DEF T, h
<1>5. /\ f \in Seq(T)
      /\ Len(f) = 1 + Len(e)
      /\ \A i \in 1..(1 + Len(e)) : f[i] = IF i <= 1 THEN h[i] ELSE e[i - 1]
  <2>1. f = h \o e
    BY <1>1 DEF h
  <2>2. /\ h \o e \in Seq(T)
        /\ Len(h \o e) = Len(h) + Len(e)
        /\ \A i \in 1..(Len(h) + Len(e)) :
              (h \o e)[i] = IF i <= Len(h) THEN h[i] ELSE e[i - Len(h)]
    BY <1>3, <1>4, ConcatProperties
  <2>3. QED
    BY <1>4, <2>1, <2>2
<1>6. /\ f # <<>> /\ f[1] = v
      /\ \A i \in 1..Len(e) : f[i + 1] = e[i]
  <2>1. 1 \in 1..(1 + Len(e))
    BY <1>3
  <2>2. f[1] = v
    BY <1>4, <1>5, <2>1
  <2>3. f # <<>>
    BY <1>3, <1>5, EmptySeq
  <2>4. ASSUME NEW i \in 1..Len(e) PROVE f[i + 1] = e[i]
    <3>1. i + 1 \in 1..(1 + Len(e)) /\ ~(i + 1 <= 1) /\ (i + 1) - 1 = i
      BY <1>3
    <3>2. QED
      BY <1>5, <3>1
  <2>5. QED
    BY <2>2, <2>3, <2>4
<1>7. Tail(f) = e
  <2>1. /\ Tail(f) \in Seq(T) /\ Len(Tail(f)) = Len(f) - 1
        /\ \A i \in 1..Len(Tail(f)) : Tail(f)[i] = f[i + 1]
    BY <1>5, <1>6, HeadTailProperties
  <2>2. Len(Tail(f)) = Len(e) /\ \A i \in 1..Len(e) : Tail(f)[i] = e[i]
    BY <1>3, <1>5, <1>6, <2>1
  <2>3. QED
    BY <1>3, <2>1, <2>2, SeqEqual
<1>8. f[Len(f)] = e[Len(e)]
  BY <1>3, <1>5, <1>6
<1>9. QED
  BY <1>5, <1>6, <1>7, <1>8 DEF IsError, Cause

LEMMA InsideBare ==
    ASSUME NEW v, NEW vs, NEW f \in Inside(v, Bare(vs))
    PROVE  IsError(f) /\ f[1] = v /\ f[2] \in vs /\ Cause(f) = f[2]
<1>1. PICK w \in vs : f = <<v>> \o <<w>>
  BY DEF Inside, Bare
<1>2. /\ f \in Seq({v, w}) /\ Len(f) = 2
      /\ f[1] = v /\ f[2] = w
  BY <1>1
<1>3. f # <<>>
  BY <1>2
<1>4. QED
  BY <1>2, <1>3 DEF IsError, Cause

LEMMA NumberCoded ==
    ASSUME NEW n \in ErrorNumber
    PROVE  NumberCode(n) = CauseCode(n) /\ NumberCode(n) \in FailureCode
<1>1. n \notin FailureCode
  BY DEF ErrorNumber, FailureCode
<1>2. NumberCode(n) \in FailureCode
  BY DEF NumberCode, FailureCode
<1>3. QED
  BY <1>1, <1>2 DEF CauseCode

LEMMA MessagingCoded ==
    ASSUME NEW e \in MessagingError
    PROVE  Coded(e, MessagingCode(e))
<1> DEFINE bare == {"AddressNotResolved", "AddressNotInitialized", "Ipld"}
<1>1. CASE e \in Inside("Syscall", Bare(ErrorNumber))
  <2>1. IsError(e) /\ e[1] = "Syscall" /\ e[2] \in ErrorNumber /\ Cause(e) = e[2]
    BY <1>1, InsideBare
  <2>2. MessagingCode(e) = NumberCode(e[2])
    BY <2>1 DEF MessagingCode
  <2>3. QED
    BY <2>1, <2>2, NumberCoded DEF Coded
<1>2. CASE e \in Bare(bare)
  <2>1. IsError(e) /\ e[1] \in bare /\ Cause(e) = e[1]
    BY <1>2, BareError
  <2>2. MessagingCode(e) = CauseCode(e[1]) /\ MessagingCode(e) \in FailureCode
    BY <2>1 DEF MessagingCode, CauseCode, FailureCode, ErrorNumber
  <2>3. QED
    BY <2>1, <2>2 DEF Coded
<1>3. QED
  BY <1>1, <1>2 DEF MessagingError

LEMMA ReceiverHookCoded ==
    ASSUME NEW e \in ReceiverHookError
    PROVE  Coded(e, ReceiverHookCode(e))
<1> DEFINE bare == {"NotCalled", "AlreadyCalled", "IpldEncoding"}
<1>1. CASE e \in Bare(bare)
  <2>1. IsError(e) /\ e[1] \in bare /\ Cause(e) = e[1]
    BY <1>1, BareError
  <2>2. ReceiverHookCode(e) = CauseCode(e[1]) /\ ReceiverHookCode(e) \in FailureCode
    BY <2>1 DEF ReceiverHookCode, CauseCode, FailureCode, ErrorNumber
  <2>3. QED
    BY <2>1, <2>2 DEF Coded
<1>2. CASE e \in Inside("Messaging", MessagingError)
  <2>1. \A m \in MessagingError : IsError(m)
    BY MessagingCoded DEF Coded
  <2>2. /\ IsError(e) /\ e[1] = "Messaging" /\ Tail(e) \in MessagingError
        /\ Cause(e) = Cause(Tail(e))
    BY <1>2, <2>1, InsideError
  <2>3. ReceiverHookCode(e) = MessagingCode(Tail(e))
    BY <2>2 DEF ReceiverHookCode
  <2>4. QED
    BY <2>2, <2>3, MessagingCoded DEF Coded
<1>3. CASE e \in Inside("Receiver", Bare(FailureCode))
  <2>1. IsError(e) /\ e[1] = "Receiver" /\ e[2] \in FailureCode /\ Cause(e) = e[2]
    BY <1>3, InsideBare
  <2>2. ReceiverHookCode(e) = e[2]
    BY <2>1 DEF ReceiverHookCode
  <2>3. QED
    BY <2>1, <2>2 DEF Coded, CauseCode
<1>4. QED
  BY <1>1, <1>2, <1>3 DEF ReceiverHookError

LEMMA StateCoded ==
    ASSUME NEW e \in StateError
    PROVE  Coded(e, StateErrorCode(e))
<1> DEFINE bare == {"IpldHamt", "MissingState", "Serialization", "InsufficientBalance",
                    "InsufficientAllowance", "NegativeTotalSupply", "NegativeAllowance",
                    "NegativeBalance"}
<1>1. IsError(e) /\ e[1] \in bare /\ Cause(e) = e[1]
  <2>1. e \in Bare(bare)
    BY DEF StateError
  <2> HIDE DEF bare
  <2>2. QED
    BY <2>1, BareError
<1>2. StateErrorCode(e) = CauseCode(e[1]) /\ StateErrorCode(e) \in FailureCode
  BY <1>1 DEF StateErrorCode, CauseCode, NumberCode, FailureCode, ErrorNumber
<1>3. QED
  BY <1>1, <1>2 DEF Coded

LEMMA TokenCoded ==
    ASSUME NEW e \in TokenError
    PROVE  Coded(e, TokenErrorCode(e))
<1> DEFINE bare == {"InvalidNegative", "InvalidGranularity", "InvalidIdAddress",
                    "InvalidOperator", "Serialization", "StateInvariant"}
<1>1. CASE e \in Bare(bare)
  <2>1. IsError(e) /\ e[1] \in bare /\ Cause(e) = e[1]
    BY <1>1, BareError
  <2>2. TokenErrorCode(e) = CauseCode(e[1]) /\ TokenErrorCode(e) \in FailureCode
    BY <2>1 DEF TokenErrorCode, CauseCode, NumberCode, FailureCode, ErrorNumber
  <2>3. QED
    BY <2>1, <2>2 DEF Coded
<1>2. CASE e \in Inside("TokenState", StateError)
  <2>1. \A m \in StateError : IsError(m)
    BY StateCoded DEF Coded
  <2>2. /\ IsError(e) /\ e[1] = "TokenState" /\ Tail(e) \in StateError
        /\ Cause(e) = Cause(Tail(e))
    BY <1>2, <2>1, InsideError
  <2>3. TokenErrorCode(e) = StateErrorCode(Tail(e))
    BY <2>2 DEF TokenErrorCode
  <2>4. QED
    BY <2>2, <2>3, StateCoded DEF Coded
<1>3. CASE e \in Inside("Messaging", MessagingError)
  <2>1. \A m \in MessagingError : IsError(m)
    BY MessagingCoded DEF Coded
  <2>2. /\ IsError(e) /\ e[1] = "Messaging" /\ Tail(e) \in MessagingError
        /\ Cause(e) = Cause(Tail(e))
    BY <1>3, <2>1, InsideError
  <2>3. TokenErrorCode(e) = MessagingCode(Tail(e))
    BY <2>2 DEF TokenErrorCode
  <2>4. QED
    BY <2>2, <2>3, MessagingCoded DEF Coded
<1>4. CASE e \in Inside("ReceiverHook", ReceiverHookError)
  <2>1. \A m \in ReceiverHookError : IsError(m)
    BY ReceiverHookCoded DEF Coded
  <2>2. /\ IsError(e) /\ e[1] = "ReceiverHook" /\ Tail(e) \in ReceiverHookError
        /\ Cause(e) = Cause(Tail(e))
    BY <1>4, <2>1, InsideError
  <2>3. TokenErrorCode(e) = ReceiverHookCode(Tail(e))
    BY <2>2 DEF TokenErrorCode
  <2>4. QED
    BY <2>2, <2>3, ReceiverHookCoded DEF Coded
<1>5. QED
  BY <1>1, <1>2, <1>3, <1>4 DEF TokenError

\* The errors whose cause is an error of this code or a number; StateUpdate
\* holds errors of the SDK.
Caught == RuntimeError \ Inside("StateUpdate", Bare({"ActorDeleted", "ReadOnly"}))

Plain == Bare({"Encoding", "StateRead", "Deserialization", "Serialization",
               "AddressNotAuthorized", "MintingDisabled"})

LEMMA AllErrors ==
    /\ \A e \in TokenError : IsError(e)
    /\ \A e \in ReceiverHookError : IsError(e)
    /\ \A e \in StateError : IsError(e)
    /\ \A e \in MessagingError : IsError(e)
    /\ \A e \in ActorError : e[1] = "NoState" /\ IsError(e) /\ Cause(e) = e[1]
  BY TokenCoded, ReceiverHookCoded, StateCoded, MessagingCoded, BareError
     DEF Coded, ActorError

LEMMA RuntimeCoded ==
    ASSUME NEW e \in Caught
    PROVE  Coded(e, RuntimeErrorCode(e))
<1> DEFINE bare == {"Encoding", "StateRead", "Deserialization", "Serialization",
                    "AddressNotAuthorized", "MintingDisabled"}
<1>1. CASE e \in Bare(bare)
  <2>1. IsError(e) /\ e[1] \in bare /\ Cause(e) = e[1]
    BY <1>1, BareError
  <2>2. RuntimeErrorCode(e) = CauseCode(e[1]) /\ RuntimeErrorCode(e) \in FailureCode
    BY <2>1 DEF RuntimeErrorCode, CauseCode, NumberCode, FailureCode, ErrorNumber
  <2>3. QED
    BY <2>1, <2>2 DEF Coded
<1>2. CASE e \in Inside("Token", TokenError)
  <2>1. /\ IsError(e) /\ e[1] = "Token" /\ Tail(e) \in TokenError
        /\ Cause(e) = Cause(Tail(e))
    BY <1>2, AllErrors, InsideError
  <2>2. RuntimeErrorCode(e) = TokenErrorCode(Tail(e))
    BY <2>1 DEF RuntimeErrorCode
  <2>3. QED
    BY <2>1, <2>2, TokenCoded DEF Coded
<1>3. CASE e \in Inside("Receiver", ReceiverHookError)
  <2>1. /\ IsError(e) /\ e[1] = "Receiver" /\ Tail(e) \in ReceiverHookError
        /\ Cause(e) = Cause(Tail(e))
    BY <1>3, AllErrors, InsideError
  <2>2. RuntimeErrorCode(e) = ReceiverHookCode(Tail(e))
    BY <2>1 DEF RuntimeErrorCode
  <2>3. QED
    BY <2>1, <2>2, ReceiverHookCoded DEF Coded
<1>4. CASE e \in Inside("Blockstore", Bare(ErrorNumber))
  <2>1. IsError(e) /\ e[1] = "Blockstore" /\ e[2] \in ErrorNumber /\ Cause(e) = e[2]
    BY <1>4, InsideBare
  <2>2. RuntimeErrorCode(e) = NumberCode(e[2])
    BY <2>1 DEF RuntimeErrorCode
  <2>3. QED
    BY <2>1, <2>2, NumberCoded DEF Coded
<1>5. CASE e \in Inside("ActorRuntime", ActorError)
  <2>1. /\ IsError(e) /\ e[1] = "ActorRuntime" /\ Tail(e) \in ActorError
        /\ Cause(e) = Cause(Tail(e))
    BY <1>5, AllErrors, InsideError
  <2>2. RuntimeErrorCode(e) = "USR_NOT_FOUND" /\ Cause(e) = "NoState"
    BY <2>1, AllErrors DEF RuntimeErrorCode, ActorErrorCode
  <2>3. QED
    BY <2>1, <2>2 DEF Coded, CauseCode, FailureCode, ErrorNumber
<1>6. CASE e \in Inside("State", StateError)
  <2>1. /\ IsError(e) /\ e[1] = "State" /\ Tail(e) \in StateError
        /\ Cause(e) = Cause(Tail(e))
    BY <1>6, AllErrors, InsideError
  <2>2. RuntimeErrorCode(e) = StateErrorCode(Tail(e))
    BY <2>1 DEF RuntimeErrorCode
  <2>3. QED
    BY <2>1, <2>2, StateCoded DEF Coded
<1>7. CASE e \in Inside("Messaging", MessagingError)
  <2>1. /\ IsError(e) /\ e[1] = "Messaging" /\ Tail(e) \in MessagingError
        /\ Cause(e) = Cause(Tail(e))
    BY <1>7, AllErrors, InsideError
  <2>2. RuntimeErrorCode(e) = MessagingCode(Tail(e))
    BY <2>1 DEF RuntimeErrorCode
  <2>3. QED
    BY <2>1, <2>2, MessagingCoded DEF Coded
<1>8. QED
  BY <1>1, <1>2, <1>3, <1>4, <1>5, <1>6, <1>7 DEF Caught, RuntimeError

\* What a variant holds may be fewer errors than it can.
LEMMA Fewer ==
    /\ \A v, A, B : A \subseteq B => Inside(v, A) \subseteq Inside(v, B)
    /\ \A A, B : A \subseteq B => Bare(A) \subseteq Bare(B)
  BY DEF Inside, Bare

LEMMA CaughtVariants ==
    /\ Plain \subseteq Caught
    /\ Inside("Token", TokenError) \subseteq Caught
    /\ Inside("Receiver", ReceiverHookError) \subseteq Caught
    /\ Inside("Blockstore", Bare(ErrorNumber)) \subseteq Caught
    /\ Inside("ActorRuntime", ActorError) \subseteq Caught
<1>1. ASSUME NEW e \in RuntimeError, e[1] # "StateUpdate"
      PROVE  e \in Caught
  BY <1>1, InsideBare DEF Caught
<1>2. Plain \subseteq Caught
  <2>1. \A e \in Plain : e \in RuntimeError /\ e[1] # "StateUpdate"
    BY BareError DEF Plain, RuntimeError
  <2>2. QED
    BY <1>1, <2>1
<1>3. Inside("Token", TokenError) \subseteq Caught
  <2>1. \A e \in Inside("Token", TokenError) : e \in RuntimeError /\ e[1] = "Token"
    BY AllErrors, InsideError DEF RuntimeError
  <2>2. QED
    BY <1>1, <2>1
<1>4. Inside("Receiver", ReceiverHookError) \subseteq Caught
  <2>1. \A e \in Inside("Receiver", ReceiverHookError) :
           e \in RuntimeError /\ e[1] = "Receiver"
    BY AllErrors, InsideError DEF RuntimeError
  <2>2. QED
    BY <1>1, <2>1
<1>5. Inside("Blockstore", Bare(ErrorNumber)) \subseteq Caught
  <2>1. \A e \in Inside("Blockstore", Bare(ErrorNumber)) :
           e \in RuntimeError /\ e[1] = "Blockstore"
    BY InsideBare DEF RuntimeError
  <2>2. QED
    BY <1>1, <2>1
<1>6. Inside("ActorRuntime", ActorError) \subseteq Caught
  <2>1. \A e \in Inside("ActorRuntime", ActorError) :
           e \in RuntimeError /\ e[1] = "ActorRuntime"
    BY AllErrors, InsideError DEF RuntimeError
  <2>2. QED
    BY <1>1, <2>1
<1>7. QED
  BY <1>2, <1>3, <1>4, <1>5, <1>6

\* What a factory token stops at has a code that tells the cause.
LEMMA StopsAreCaught ==
    StorageErrors \cup MethodErrors \cup SendErrors \cup ReturnErrors \subseteq Caught
<1>1. StorageErrors \subseteq Caught
  <2>1. Bare({"Deserialization", "Serialization"}) \subseteq Plain
    BY Fewer DEF Plain
  <2>2. QED
    BY <2>1, CaughtVariants DEF StorageErrors
<1>2. MethodErrors \subseteq Caught
  <2> DEFINE held ==
        Bare({"InvalidNegative", "InvalidGranularity", "InvalidOperator", "Serialization"})
        \cup Inside("TokenState",
                StateError \ Bare({"NegativeBalance", "NegativeAllowance"}))
        \cup Inside("Messaging",
                MessagingError \ Bare({"Ipld", "AddressNotResolved"}))
  <2>1. Bare({"AddressNotAuthorized", "MintingDisabled"}) \subseteq Plain
    BY Fewer DEF Plain
  <2>2. Bare({"InvalidNegative", "InvalidGranularity", "InvalidOperator", "Serialization"})
          \subseteq Bare({"InvalidNegative", "InvalidGranularity", "InvalidIdAddress",
                          "InvalidOperator", "Serialization", "StateInvariant"})
    BY Fewer
  <2>3. /\ Inside("TokenState",
                  StateError \ Bare({"NegativeBalance", "NegativeAllowance"}))
             \subseteq Inside("TokenState", StateError)
        /\ Inside("Messaging", MessagingError \ Bare({"Ipld", "AddressNotResolved"}))
             \subseteq Inside("Messaging", MessagingError)
    BY Fewer
  <2>4. held \subseteq TokenError
    BY <2>2, <2>3 DEF TokenError
  <2>5. MethodErrors = Bare({"AddressNotAuthorized", "MintingDisabled"})
                          \cup Inside("Token", held)
    BY DEF MethodErrors
  <2> HIDE DEF held
  <2>6. Inside("Token", held) \subseteq Inside("Token", TokenError)
    BY <2>4, Fewer
  <2>7. QED
    BY <2>1, <2>5, <2>6, CaughtVariants
<1>3. SendErrors \subseteq Caught
  <2> DEFINE held == Bare({"IpldEncoding"})
                       \cup Inside("Messaging", Inside("Syscall", Bare(ErrorNumber)))
  <2>1. Bare({"IpldEncoding"}) \subseteq Bare({"NotCalled", "AlreadyCalled", "IpldEncoding"})
    BY Fewer
  <2>2. Inside("Syscall", Bare(ErrorNumber)) \subseteq MessagingError
    BY DEF MessagingError
  <2>3. Inside("Messaging", Inside("Syscall", Bare(ErrorNumber)))
          \subseteq Inside("Messaging", MessagingError)
    BY <2>2, Fewer
  <2>4. held \subseteq ReceiverHookError
    BY <2>1, <2>3 DEF ReceiverHookError
  <2>5. SendErrors = Inside("Receiver", held)
    BY DEF SendErrors
  <2> HIDE DEF held
  <2>6. SendErrors \subseteq Inside("Receiver", ReceiverHookError)
    BY <2>4, <2>5, Fewer
  <2>7. QED
    BY <2>6, CaughtVariants
<1>4. ReturnErrors \subseteq Caught
  <2> DEFINE inner == Bare({"IpldHamt", "MissingState", "Serialization"})
             held == Inside("TokenState", inner)
  <2>1. Bare({"Encoding"}) \subseteq Plain
    BY Fewer DEF Plain
  <2>2. inner \subseteq StateError
    BY Fewer DEF StateError
  <2>3. ReturnErrors = Bare({"Encoding"}) \cup Inside("Blockstore", Bare(ErrorNumber))
                          \cup Inside("Token", held)
    BY DEF ReturnErrors
  <2> HIDE DEF inner
  <2>4. held \subseteq TokenError
    BY <2>2, Fewer DEF TokenError
  <2> HIDE DEF held
  <2>5. Inside("Token", held) \subseteq Inside("Token", TokenError)
    BY <2>4, Fewer
  <2>6. QED
    BY <2>1, <2>3, <2>5, CaughtVariants
<1>5. QED
  BY <1>1, <1>2, <1>3, <1>4

\* A recipient's refusal, in the words of the factory token, has the code the
\* recipient gave.
LEMMA RefusalKeepsCode ==
    ASSUME NEW code \in FailureCode
    PROVE  LET error == <<"Receiver", "Receiver", code>>
           IN  error \in Caught /\ RuntimeErrorCode(error) = code
<1> DEFINE error == <<"Receiver", "Receiver", code>>
<1>1. <<code>> \in Bare(FailureCode)
  BY DEF Bare
<1>2. <<"Receiver", code>> \in Inside("Receiver", Bare(FailureCode))
  <2>1. <<"Receiver", code>> = <<"Receiver">> \o <<code>>
    OBVIOUS
  <2>2. QED
    BY <1>1, <2>1 DEF Inside
<1>3. error \in Inside("Receiver", ReceiverHookError)
  <2>1. error = <<"Receiver">> \o <<"Receiver", code>>
    OBVIOUS
  <2>2. <<"Receiver", code>> \in ReceiverHookError
    BY <1>2 DEF ReceiverHookError
  <2> HIDE DEF error
  <2>3. QED
    BY <2>1, <2>2 DEF Inside
<1>4. error \in Caught
  BY <1>3, CaughtVariants
<1>5. /\ error[1] = "Receiver" /\ Tail(error) = <<"Receiver", code>>
      /\ Tail(error)[1] = "Receiver" /\ Tail(error)[2] = code
  OBVIOUS
<1> HIDE DEF error
<1>6. RuntimeErrorCode(error) = code
  BY <1>5 DEF RuntimeErrorCode, ReceiverHookCode
<1>7. QED
  BY <1>4, <1>6 DEF error

-----------------------------------------------------------------------------
(* How a failure travels.  Every step is a call or the end of one.         *)

Entry == [kind : Kind, waiting : BOOLEAN]

FailureOK ==
    failure # NoFailure =>
        /\ failure = [error |-> failure.error, code |-> RuntimeErrorCode(failure.error)]
        /\ failure.error \in Caught

\* The inductive invariant.
FailureIInv ==
    /\ calls \in Seq(Entry)
    /\ \A i \in DOMAIN calls : i < Len(calls) => calls[i].waiting
    /\ answer \in {"none"} \cup ExitCode
    /\ calls = <<>> \/ ~Top.waiting \/ answer # "none"
    /\ refusal \in {"none"} \cup FailureCode
    /\ FailureOK
    /\ RefusalReachesCaller

Calls ==
    /\ \E kind \in Kind : calls' = IF calls = <<>> THEN Push(kind) ELSE Await(kind)
    /\ answer' = "none"
    /\ UNCHANGED <<failure, refusal>>

\* A call ends with a code: well, with an error of its own, or with the code
\* it was answered itself.
Ends(code) ==
    /\ calls # <<>>
    /\ code \in ExitCode
    /\ Exit(code)
    /\ \/ failure' = failure
       \/ \E error \in Caught :
             /\ failure' = [error |-> error, code |-> RuntimeErrorCode(error)]
             /\ code = RuntimeErrorCode(error)
    /\ \/ refusal' = refusal /\ (code = "OK" \/ code = answer)
       \/ refusal' = code /\ code \in FailureCode

LEMMA ErrorEnds ==
    ASSUME NEW error \in Caught, FactoryFails(error), calls # <<>>,
           \/ refusal' = answer'
           \/ refusal' = refusal /\ RuntimeErrorCode(error) = answer
    PROVE  \E code : Ends(code)
<1> DEFINE code == RuntimeErrorCode(error)
<1>1. code \in FailureCode
  BY RuntimeCoded DEF Coded
<1>2. Exit(code) /\ failure' = [error |-> error, code |-> code] /\ answer' = code
  BY DEF FactoryFails, Exit
<1> HIDE DEF code
<1>3. Ends(code)
  BY <1>1, <1>2 DEF Ends, ExitCode, code
<1>4. QED
  BY <1>3

LEMMA StepKinds ==
    ASSUME FailureIInv, FailureNext
    PROVE  Calls \/ \E code : Ends(code)
<1>1. ASSUME NEW kind \in Kind, Begin(kind) PROVE Calls
  BY <1>1 DEF Begin, Calls
<1>2. ASSUME NEW kind \in Kind, RecipientCalls(kind) PROVE Calls
  BY <1>2 DEF RecipientCalls, Running, Resumed, Calls
<1>3. ASSUME NEW kind, CallHook(kind) PROVE Calls
  BY <1>3 DEF CallHook, Running, Calls, Kind
<1>4. ASSUME NEW kind, Done(kind) PROVE Ends("OK")
  BY <1>4 DEF Done, Running, Ends, ExitCode
<1>5. CASE FactoryStops
  <2>1. PICK error \in StorageErrors \cup MethodErrors \cup SendErrors \cup ReturnErrors :
           FactoryFails(error)
    BY <1>5 DEF FactoryStops
  <2>2. error \in Caught /\ calls # <<>> /\ refusal' = answer'
    BY <1>5, StopsAreCaught DEF FactoryStops, Running
  <2>3. QED
    BY <2>1, <2>2, ErrorEnds
<1>6. CASE FactoryRefusesMessage
  <2>1. PICK code \in BadMessageCode : Exit(code)
    BY <1>6 DEF FactoryRefusesMessage
  <2>2. /\ code \in FailureCode /\ code \in ExitCode /\ calls # <<>>
        /\ answer' = code /\ refusal' = answer' /\ failure' = failure
    BY <1>6, <2>1
       DEF FactoryRefusesMessage, Running, Exit, BadMessageCode, PanicCode, FailureCode, ExitCode
  <2>3. Ends(code)
    BY <2>1, <2>2 DEF Ends
  <2>4. QED
    BY <2>3
<1>7. CASE FactoryReturns
  <2>1. calls # <<>>
    BY <1>7 DEF FactoryReturns, Resumed
  <2>2. CASE Exit("OK") /\ UNCHANGED <<failure, refusal>>
    <3>1. Ends("OK")
      BY <2>1, <2>2 DEF Ends, ExitCode
    <3>2. QED
      BY <3>1
  <2>3. CASE /\ \E error \in StorageErrors \cup ReturnErrors : FactoryFails(error)
             /\ refusal' = answer'
    <3>1. PICK error \in StorageErrors \cup ReturnErrors : FactoryFails(error)
      BY <2>3
    <3>2. error \in Caught
      BY StopsAreCaught
    <3>3. QED
      BY <2>1, <2>3, <3>1, <3>2, ErrorEnds
  <2>4. QED
    BY <1>7, <2>2, <2>3 DEF FactoryReturns
<1>8. CASE BasicPanics
  <2>1. Ends("USR_ASSERTION_FAILED")
    BY <1>8 DEF BasicPanics, Running, Resumed, Exit, Ends, ExitCode, FailureCode
  <2>2. QED
    BY <2>1
<1>9. CASE BasicReturns
  <2>1. Ends("OK")
    BY <1>9 DEF BasicReturns, Resumed, Ends, ExitCode
  <2>2. QED
    BY <2>1
<1>10. ASSUME NEW code \in FailureCode, FactoryIsRefused(code)
       PROVE  \E c : Ends(c)
  <2>1. /\ FactoryFails(<<"Receiver", "Receiver", code>>)
        /\ calls # <<>> /\ answer = code /\ refusal' = refusal
    BY <1>10 DEF FactoryIsRefused, Resumed
  <2>2. QED
    BY <2>1, RefusalKeepsCode, ErrorEnds
<1>11. ASSUME NEW code \in FailureCode, RecipientAborts(code)
       PROVE  Ends(code)
  BY <1>11 DEF RecipientAborts, Running, Resumed, Ends, ExitCode
<1>12. ASSUME NEW code \in FailureCode, RecipientPassesOn(code)
       PROVE  Ends(code)
  BY <1>12 DEF RecipientPassesOn, Resumed, Ends, ExitCode
<1>13. CASE RecipientAccepts
  <2>1. Ends("OK")
    BY <1>13 DEF RecipientAccepts, Resumed, Ends, ExitCode
  <2>2. QED
    BY <2>1
<1>14. QED
  BY <1>1, <1>2, <1>3, <1>4, <1>5, <1>6, <1>7, <1>8, <1>9, <1>10, <1>11, <1>12, <1>13
     DEF FailureNext

\* The stack after a call: a new entry, the others waiting.
LEMMA StackGrows ==
    ASSUME calls \in Seq(Entry),
           \A i \in DOMAIN calls : i < Len(calls) => calls[i].waiting,
           NEW kind \in Kind, NEW next,
           next = IF calls = <<>> THEN Push(kind) ELSE Await(kind)
    PROVE  /\ next \in Seq(Entry) /\ next # <<>>
           /\ \A i \in DOMAIN next : i < Len(next) => next[i].waiting
           /\ ~next[Len(next)].waiting
<1> DEFINE e == [kind |-> kind, waiting |-> FALSE]
           p == Push(kind)
           n == Len(calls)
<1>1. e \in Entry /\ e.waiting = FALSE
  BY DEF Entry
<1>2. p = Append(calls, e)
  BY DEF Push
<1> HIDE DEF e, p, n
<1>3. /\ p \in Seq(Entry) /\ n \in Nat /\ DOMAIN calls = 1..n
      /\ DOMAIN p = 1..(n + 1) /\ Len(p) = n + 1
      /\ \A i \in 1..n : p[i] = calls[i]
      /\ p[n + 1] = e
  <2>1. /\ p \in Seq(Entry) /\ n \in Nat /\ DOMAIN calls = 1..n
        /\ DOMAIN p = 1..(n + 1)
        /\ \A i \in 1..n : p[i] = calls[i]
        /\ p[n + 1] = e
    BY <1>1, <1>2, Appended DEF n
  <2>2. Len(p) = n + 1
    BY <1>1, <1>2, AppendProperties DEF n
  <2>3. QED
    BY <2>1, <2>2
<1>4. CASE calls = <<>>
  <2>1. next = p /\ n = 0
    BY <1>4 DEF p, n
  <2>2. /\ next \in Seq(Entry) /\ Len(next) = 1 /\ DOMAIN next = 1..1
        /\ next[1] = e
    BY <1>3, <2>1
  <2>3. next # <<>>
    BY <2>2, EmptySeq
  <2>4. \A i \in DOMAIN next : ~(i < Len(next))
    <3>1. \A i \in 1..1 : ~(i < 1)
      OBVIOUS
    <3>2. QED
      BY <2>2, <3>1, Zenon
  <2>5. ~next[Len(next)].waiting
    BY <1>1, <2>2
  <2>6. QED
    BY <2>2, <2>3, <2>4, <2>5
<1>5. CASE calls # <<>>
  <2>1. n >= 1 /\ n \in 1..n
    <3>1. n # 0
      BY <1>5, EmptySeq DEF n
    <3>2. QED
      BY <1>3, <3>1
  <2>2. next = [p EXCEPT ![n].waiting = TRUE]
    BY <1>5 DEF Await, p, n
  <2>3. /\ next \in [1..(n + 1) -> Entry]
        /\ next[n].waiting = TRUE
        /\ \A i \in 1..(n + 1) : i # n => next[i] = p[i]
    <3>1. p \in [1..(n + 1) -> Entry] /\ n \in 1..(n + 1) /\ p[n] \in Entry
      BY <1>3, <2>1
    <3>2. [p[n] EXCEPT !.waiting = TRUE] \in Entry
      BY <3>1 DEF Entry
    <3>3. next = [p EXCEPT ![n] = [p[n] EXCEPT !.waiting = TRUE]]
      BY <2>2
    <3>4. [p[n] EXCEPT !.waiting = TRUE].waiting = TRUE
      BY <3>1 DEF Entry
    <3>5. QED
      BY <3>1, <3>2, <3>3, <3>4
  <2>4. n + 1 \in Nat
    BY <1>3
  <2>5. next \in Seq(Entry)
    BY <2>3, <2>4, SeqDef
  <2>6. Len(next) = n + 1 /\ DOMAIN next = 1..(n + 1)
    <3>1. DOMAIN next = 1..(n + 1)
      BY <2>3
    <3>2. QED
      BY <2>4, <2>5, <3>1, LenProperties
  <2>7. next # <<>>
    BY <1>3, <2>5, <2>6, EmptySeq
  <2>8. n + 1 \in 1..(n + 1) /\ n + 1 # n
    BY <1>3
  <2>9. next[n + 1] = e
    BY <1>3, <2>3, <2>8
  <2>10. ASSUME NEW i \in 1..(n + 1), i < n + 1 PROVE next[i].waiting
    <3>1. CASE i = n
      BY <2>3, <3>1
    <3>2. CASE i # n
      <4>1. i \in 1..n /\ i < n
        BY <1>3, <2>10, <3>2
      <4>2. next[i] = calls[i] /\ calls[i].waiting
        BY <1>3, <2>3, <3>2, <4>1 DEF n
      <4>3. QED
        BY <4>2
    <3>3. QED
      BY <3>1, <3>2
  <2>11. QED
    BY <1>1, <2>5, <2>6, <2>7, <2>9, <2>10
<1>6. QED
  BY <1>4, <1>5

\* The stack when the call on top ends: the others are as they were.
LEMMA StackShrinks ==
    ASSUME calls \in Seq(Entry), calls # <<>>,
           \A i \in DOMAIN calls : i < Len(calls) => calls[i].waiting,
           NEW next, next = SubSeq(calls, 1, Len(calls) - 1)
    PROVE  /\ next \in Seq(Entry)
           /\ \A i \in DOMAIN next : next[i].waiting
<1> DEFINE n == Len(calls)
<1>1. n \in Nat /\ n >= 1 /\ DOMAIN calls = 1..n
  <2>1. n \in Nat /\ DOMAIN calls = 1..n
    OBVIOUS
  <2>2. n # 0
    BY EmptySeq
  <2>3. QED
    BY <2>1, <2>2
<1>2. /\ next \in Seq(Entry) /\ Len(next) = n - 1
      /\ \A i \in 1..(n - 1) : next[i] = calls[i]
  <2>1. \A i \in 1..(n - 1) : calls[i] \in Entry
    BY <1>1
  <2>2. 1 \in Int /\ n - 1 \in Int
    BY <1>1
  <2>3. next = SubSeq(calls, 1, n - 1)
    OBVIOUS
  <2> HIDE DEF n
  <2>4. /\ next \in Seq(Entry)
        /\ Len(next) = IF 1 <= n - 1 THEN n - 1 - 1 + 1 ELSE 0
        /\ \A i \in 1..(n - 1 - 1 + 1) : next[i] = calls[1 + i - 1]
    BY <2>1, <2>2, <2>3, SubSeqProperties
  <2>5. QED
    BY <1>1, <2>4
<1>3. DOMAIN next = 1..(n - 1)
  BY <1>2, LenProperties
<1>4. ASSUME NEW i \in 1..(n - 1) PROVE next[i].waiting
  <2>1. i \in DOMAIN calls /\ i < n
    BY <1>1
  <2>2. QED
    BY <1>2, <2>1
<1>5. QED
  BY <1>2, <1>3, <1>4

LEMMA FailureInitIInv == FailureInit => FailureIInv
<1> SUFFICES ASSUME FailureInit PROVE FailureIInv
  OBVIOUS
<1>1. calls = <<>> /\ answer = "none" /\ failure = NoFailure /\ refusal = "none"
  BY DEF FailureInit
<1>2. calls \in Seq(Entry) /\ DOMAIN calls = {}
  BY <1>1
<1>3. RefusalReachesCaller
  BY <1>1 DEF RefusalReachesCaller, FailureCode
<1>4. QED
  BY <1>1, <1>2, <1>3 DEF FailureIInv, FailureOK

LEMMA FailureNextIInv == FailureIInv /\ [FailureNext]_failureVars => FailureIInv'
<1> SUFFICES ASSUME FailureIInv, [FailureNext]_failureVars PROVE FailureIInv'
  OBVIOUS
<1>1. CASE UNCHANGED failureVars
  BY <1>1 DEF failureVars, FailureIInv, Top, FailureOK, RefusalReachesCaller
<1>2. CASE Calls
  <2>1. PICK kind \in Kind : calls' = IF calls = <<>> THEN Push(kind) ELSE Await(kind)
    BY <1>2 DEF Calls
  <2>2. /\ calls' \in Seq(Entry) /\ calls' # <<>>
        /\ \A i \in DOMAIN calls' : i < Len(calls') => calls'[i].waiting
        /\ ~calls'[Len(calls')].waiting
    BY <2>1, StackGrows DEF FailureIInv
  <2>3. answer' = "none" /\ failure' = failure /\ refusal' = refusal
    BY <1>2 DEF Calls
  <2>4. RefusalReachesCaller'
    BY <2>3 DEF RefusalReachesCaller, FailureCode
  <2>5. QED
    BY <2>2, <2>3, <2>4 DEF FailureIInv, Top, FailureOK
<1>3. ASSUME NEW code, Ends(code) PROVE FailureIInv'
  <2>1. calls' = SubSeq(calls, 1, Len(calls) - 1) /\ answer' = code
    BY <1>3 DEF Ends, Exit
  <2>2. /\ calls' \in Seq(Entry)
        /\ \A i \in DOMAIN calls' : calls'[i].waiting
    BY <1>3, <2>1, StackShrinks DEF FailureIInv, Ends
  <2>3. answer' \in {"none"} \cup ExitCode /\ answer' # "none"
    BY <1>3, <2>1 DEF Ends, ExitCode, FailureCode
  <2>4. /\ refusal' \in {"none"} \cup FailureCode
        /\ RefusalReachesCaller'
    <3>1. CASE refusal' = refusal /\ (code = "OK" \/ code = answer)
      BY <2>1, <3>1 DEF FailureIInv, RefusalReachesCaller, FailureCode
    <3>2. CASE refusal' = code /\ code \in FailureCode
      BY <2>1, <3>2 DEF RefusalReachesCaller
    <3>3. QED
      BY <1>3, <3>1, <3>2 DEF Ends
  <2>5. FailureOK'
    <3>1. CASE failure' = failure
      BY <3>1 DEF FailureIInv, FailureOK
    <3>2. ASSUME NEW error \in Caught,
                 failure' = [error |-> error, code |-> RuntimeErrorCode(error)]
          PROVE  FailureOK'
      BY <3>2 DEF FailureOK
    <3>3. QED
      BY <1>3, <3>1, <3>2 DEF Ends
  <2>6. QED
    BY <2>2, <2>3, <2>4, <2>5 DEF FailureIInv
<1>4. QED
  BY <1>1, <1>2, <1>3, StepKinds

LEMMA FailureInvariance == FailureSpec => []FailureIInv
  BY FailureInitIInv, FailureNextIInv, PTL DEF FailureSpec

\* The stack, the answer and what is known of the last failure stay typed.
THEOREM TypeCorrect == FailureSpec => []TypeOK
<1>1. FailureIInv => TypeOK
  <2> SUFFICES ASSUME FailureIInv PROVE TypeOK
    OBVIOUS
  <2>1. failure \in {NoFailure} \cup [error : RuntimeError, code : FailureCode]
    <3>1. CASE failure = NoFailure
      BY <3>1
    <3>2. CASE failure # NoFailure
      <4>1. /\ failure = [error |-> failure.error,
                          code |-> RuntimeErrorCode(failure.error)]
            /\ failure.error \in Caught
        BY <3>2 DEF FailureIInv, FailureOK
      <4>2. RuntimeErrorCode(failure.error) \in FailureCode
        BY <4>1, RuntimeCoded DEF Coded
      <4>3. failure.error \in RuntimeError
        BY <4>1 DEF Caught
      <4>4. QED
        BY <4>1, <4>2, <4>3
    <3>3. QED
      BY <3>1, <3>2
  <2>2. QED
    BY <2>1 DEF FailureIInv, TypeOK, Entry
<1>2. QED
  BY <1>1, FailureInvariance, PTL

\* The code of the party that failed first is what the caller of the
\* outermost factory token hears, at any depth (ReceiverHook::call and the
\* Err arm of invoke).
THEOREM RefusalCorrect == FailureSpec => []RefusalReachesCaller
<1>1. FailureIInv => RefusalReachesCaller
  BY DEF FailureIInv
<1>2. QED
  BY <1>1, FailureInvariance, PTL

\* The code tells the cause, whatever error types it is wrapped in (the
\* conversions of the error types to ExitCode).
THEOREM CodeCorrect == FailureSpec => []CodeNamesTheCause
<1>1. FailureIInv => CodeNamesTheCause
  <2> SUFFICES ASSUME FailureIInv, NEW e \in Caught, failure # NoFailure,
                      Cause(e) = Cause(failure.error)
               PROVE  RuntimeErrorCode(e) = failure.code
    BY DEF CodeNamesTheCause, Caught, Cause
  <2>1. /\ failure.code = RuntimeErrorCode(failure.error)
        /\ failure.error \in Caught
    BY DEF FailureIInv, FailureOK
  <2>2. QED
    BY <2>1, RuntimeCoded DEF Coded
<1>2. QED
  BY <1>1, FailureInvariance, PTL

\* A factory token that stops at an error answers its caller with the code.
THEOREM ReportCorrect == FailureSpec => FailureIsReported
<1>1. FailureIInv /\ [FailureNext]_failureVars
      => [failure' # failure => answer' = failure'.code /\ answer' # "OK"]_failureVars
  <2> SUFFICES ASSUME FailureIInv, FailureNext, failure' # failure
               PROVE  answer' = failure'.code /\ answer' # "OK"
    OBVIOUS
  <2>1. ~Calls
    BY DEF Calls
  <2>2. PICK code : Ends(code)
    BY <2>1, StepKinds
  <2>3. PICK error \in Caught :
          /\ failure' = [error |-> error, code |-> RuntimeErrorCode(error)]
          /\ code = RuntimeErrorCode(error)
    BY <2>2 DEF Ends
  <2>4. RuntimeErrorCode(error) \in FailureCode
    BY RuntimeCoded DEF Coded
  <2>5. answer' = code
    BY <2>2 DEF Ends, Exit
  <2>6. QED
    BY <2>3, <2>4, <2>5 DEF FailureCode
<1>2. QED
  BY <1>1, FailureInvariance, PTL DEF FailureSpec, FailureIsReported
=============================================================================
