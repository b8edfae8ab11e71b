--------------------------- MODULE NFTActorProofs ---------------------------
(***************************************************************************)
(* The NFT actor, for any number of accounts, any addresses and lists of   *)
(* tokens and any depth of nested hooks: its type, the counts of the root, *)
(* who may take a token, what a resumed method returns, and that it is a   *)
(* collection with nested transactions.                                    *)
(*                                                                         *)
(* A rollback makes a state from the past the current one, so the counts   *)
(* have to be right in every snapshot on the stack as well.                *)
(***************************************************************************)
EXTENDS NFTActor, NFTLibraryProofs, SequenceTheorems

SnapshotOK(s) == IsSnapshot(s) /\ StateOK(s.root)

FrameOK(f) == IsFrame(f) /\ SnapshotOK(f.undo)

StackOK(s) ==
    /\ s \in Seq({s[i] : i \in DOMAIN s})
    /\ Len(s) <= MaxDepth
    /\ \A i \in DOMAIN s : FrameOK(s[i])

ReplyOK ==
    /\ reply.status \in {"none", "ok", "pending", "returned", "aborted"}
    /\ reply.caller \in ActorID

\* The inductive invariant.
IInv == SnapshotOK(Snapshot) /\ StackOK(stack) /\ ReplyOK

-----------------------------------------------------------------------------
(* Stacks *)

\* A sequence is a sequence of its own elements.
LEMMA SeqOfOwn ==
    ASSUME NEW S, NEW s \in Seq(S)
    PROVE  s \in Seq({s[i] : i \in DOMAIN s})
<1> DEFINE T == {s[i] : i \in DOMAIN s}
<1>1. Len(s) \in Nat /\ DOMAIN s = 1..Len(s) /\ s = [i \in 1..Len(s) |-> s[i]]
  OBVIOUS
<1>2. s \in [1..Len(s) -> T]
  BY <1>1
<1>3. QED
  BY <1>1, <1>2, SeqDef

\* A good frame may be pushed while the bound allows it.
LEMMA PushOK ==
    ASSUME NEW s, StackOK(s), NEW f, FrameOK(f), Len(s) < MaxDepth
    PROVE  StackOK(Append(s, f))
<1> DEFINE S == {s[i] : i \in DOMAIN s}
           t == Append(s, f)
<1>1. s \in Seq(S \cup {f}) /\ Len(s) \in Nat /\ DOMAIN s = 1..Len(s)
  <2>1. s \in Seq(S)
    BY DEF StackOK
  <2>2. Len(s) \in Nat /\ s = [i \in 1..Len(s) |-> s[i]] /\ DOMAIN s = 1..Len(s)
    BY <2>1
  <2>3. s \in [1..Len(s) -> S \cup {f}]
    BY <2>2
  <2>4. QED
    BY <2>2, <2>3, SeqDef
<1>2. /\ t \in Seq(S \cup {f})
      /\ Len(t) = Len(s) + 1
      /\ \A i \in 1..Len(s) : t[i] = s[i]
      /\ t[Len(s) + 1] = f
  <2> HIDE DEF S
  <2> QED
    BY <1>1, AppendProperties
<1> HIDE DEF S, t
<1>3. DOMAIN t = 1..(Len(s) + 1)
  BY <1>2
<1>4. \A i \in DOMAIN t : FrameOK(t[i])
  <2> SUFFICES ASSUME NEW i \in DOMAIN t PROVE FrameOK(t[i])
    OBVIOUS
  <2>1. CASE i = Len(s) + 1
    BY <1>2, <2>1
  <2>2. CASE i \in 1..Len(s)
    BY <1>1, <1>2, <2>2 DEF StackOK
  <2>3. QED
    BY <1>1, <1>3, <2>1, <2>2
<1>5. Len(t) <= MaxDepth
  BY <1>1, <1>2, ActorAssumption
<1>6. t \in Seq({t[i] : i \in DOMAIN t})
  BY <1>2, SeqOfOwn
<1>7. QED
  BY <1>4, <1>5, <1>6 DEF StackOK, t

\* Popping a good stack yields a good frame and a shorter good stack.
LEMMA PopOK ==
    ASSUME NEW s, StackOK(s), s # <<>>
    PROVE  LET t == SubSeq(s, 1, Len(s) - 1)
           IN  FrameOK(s[Len(s)]) /\ StackOK(t) /\ Len(t) < Len(s)
<1> DEFINE S == {s[i] : i \in DOMAIN s}
           t == SubSeq(s, 1, Len(s) - 1)
<1>1. s \in Seq(S)
  BY DEF StackOK
<1>2. Len(s) \in Nat \ {0} /\ DOMAIN s = 1..Len(s)
  BY <1>1
<1>3. \A i \in 1..(Len(s) - 1) : s[i] \in S
  BY <1>2
<1>4. /\ t \in Seq(S)
      /\ Len(t) = Len(s) - 1
      /\ \A i \in 1..(Len(s) - 1) : t[i] = s[i]
  <2> HIDE DEF S
  <2>1. /\ t \in Seq(S)
        /\ Len(t) = IF 1 <= Len(s) - 1 THEN Len(s) - 1 - 1 + 1 ELSE 0
        /\ \A i \in 1..(Len(s) - 1 - 1 + 1) : t[i] = s[1 + i - 1]
    BY <1>2, <1>3, SubSeqProperties
  <2>2. QED
    BY <1>2, <2>1
<1> HIDE DEF S, t
<1>5. DOMAIN t = 1..(Len(s) - 1)
  BY <1>4
<1>6. \A i \in DOMAIN t : FrameOK(t[i])
  BY <1>2, <1>4, <1>5 DEF StackOK
<1>7. Len(t) <= MaxDepth
  BY <1>2, <1>4, ActorAssumption DEF StackOK
<1>8. t \in Seq({t[i] : i \in DOMAIN t})
  BY <1>4, SeqOfOwn
<1>9. FrameOK(s[Len(s)])
  BY <1>2 DEF StackOK
<1>10. QED
  BY <1>2, <1>4, <1>6, <1>7, <1>8, <1>9 DEF StackOK, t

-----------------------------------------------------------------------------
(* What a call asks of the library. *)

\* Every permitted token is the caller's to take.
Entitled(st, caller, permitted) ==
    \A t \in DOMAIN st.tokens :
        st.tokens[t] \in permitted
        => \/ caller = OwnerOf(st, t)
           \/ caller \in st.tokens[t].operators
           \/ IsAccountOperator(st, OwnerOf(st, t), caller)

LEMMA EntitledToOwn ==
    ASSUME NEW st, NEW caller, NEW permitted, permitted \subseteq OwnedBy(caller)
    PROVE  Entitled(st, caller, permitted)
  BY DEF Entitled, OwnedBy, OwnerOf

LEMMA EntitledToDelegated ==
    ASSUME NEW st, NEW owner, NEW caller
    PROVE  Entitled(st, caller, Delegated(st, owner, caller))
  BY DEF Entitled, Delegated, OwnedBy, OwnerOf

LEMMA WorldIsOK ==
    ASSUME IInv
    PROVE  WorldOK(world) /\ world.nft = root
  BY DEF IInv, SnapshotOK, Snapshot, IsSnapshot, WorldOK, world

LEMMA SelfAddress ==
    ASSUME NEW caller \in ActorID
    PROVE  IDAddress(caller) \in Address /\ IDAddress(caller).actor = caller
  BY DEF IDAddress, Address

\* The call acts on the sound outcome r of a method that may take permitted.
ActsOn(caller, r, permitted) ==
    /\ Sound(world, r, permitted)
    /\ Entitled(root, caller, permitted)
    /\ \/ Answer(caller, r)
       \/ \E call \in CallRecord : call.caller = caller /\ AwaitHook(call, r)

LEMMA AnswerActs ==
    ASSUME NEW caller, NEW r, NEW permitted, Sound(world, r, permitted),
           Entitled(root, caller, permitted), Answer(caller, r)
    PROVE  \E s, p : ActsOn(caller, s, p)
  BY DEF ActsOn

LEMMA AwaitHookActs ==
    ASSUME NEW caller, NEW r, NEW permitted, Sound(world, r, permitted),
           Entitled(root, caller, permitted),
           NEW call \in CallRecord, call.caller = caller, AwaitHook(call, r)
    PROVE  \E s, p : ActsOn(caller, s, p)
  BY DEF ActsOn

\* It ends with the abort of the call, or with the new root.
LEMMA ActsOnEnds ==
    ASSUME NEW caller, NEW r, NEW permitted, ActsOn(caller, r, permitted)
    PROVE  \/ Refuse(caller)
           \/ /\ r.ok
              /\ SetRoot(r)
              /\ reply'.caller = caller
              /\ reply'.status \in {"ok", "pending"}
<1>1. CASE Answer(caller, r)
  <2>1. CASE r.ok
    BY <1>1, <2>1 DEF Answer
  <2>2. CASE ~r.ok
    BY <1>1, <2>2 DEF Answer
  <2>3. QED
    BY <2>1, <2>2
<1>2. ASSUME NEW call \in CallRecord, call.caller = caller, AwaitHook(call, r)
      PROVE  \/ Refuse(caller)
             \/ /\ r.ok
                /\ SetRoot(r)
                /\ reply'.caller = caller
                /\ reply'.status \in {"ok", "pending"}
  <2>1. CASE r.ok
    BY <1>2, <2>1 DEF AwaitHook
  <2>2. CASE ~r.ok
    BY <1>2, <2>2 DEF AwaitHook
  <2>3. QED
    BY <2>1, <2>2
<1>3. QED
  BY <1>1, <1>2 DEF ActsOn

\* The numbers a mint hands out.
LEMMA MintedIDs ==
    ASSUME IInv, NEW count \in Nat
    PROVE  [i \in 1..count |-> root.next + i - 1] \in Seq(TokenID)
<1>1. root.next \in Nat
  BY StateFields DEF IInv, SnapshotOK, Snapshot
<1>2. [i \in 1..count |-> root.next + i - 1] \in [1..count -> Nat]
  BY <1>1
<1>3. QED
  BY <1>2, SeqDef DEF TokenID

LEMMA CallActs ==
    ASSUME IInv, NEW caller \in accts, CallFrom(caller)
    PROVE  \E r, permitted : ActsOn(caller, r, permitted)
<1> DEFINE self == IDAddress(caller)
           Goal == \E r, permitted : ActsOn(caller, r, permitted)
<1> USE ActorAssumption
<1>1. /\ WorldOK(world) /\ world.nft = root /\ caller \in ActorID
      /\ self \in Address /\ self.actor = caller
  BY WorldIsOK, SelfAddress DEF IInv, SnapshotOK, Snapshot, IsSnapshot
<1> HIDE DEF self
<1>2. Entitled(root, caller, {}) /\ Entitled(root, caller, OwnedBy(caller))
  BY EntitledToOwn
<1>3. ASSUME NEW ids \in Batches, BurnOwn(caller, ids) PROVE Goal
  <2>1. Sound(world, Burn(world, self, ids), OwnedBy(caller))
    BY <1>1, BurnSound
  <2>2. QED
    BY <1>2, <1>3, <2>1, AnswerActs DEF BurnOwn, self
<1>4. ASSUME NEW x \in Addresses, NEW ids \in Batches, BurnOnBehalf(caller, x, ids)
      PROVE  Goal
  <2>1. Sound(world, BurnFrom(world, x, self, ids), Delegated(root, x.actor, caller))
    BY <1>1, BurnFromSound
  <2>2. QED
    BY <1>4, <2>1, EntitledToDelegated, AnswerActs DEF BurnOnBehalf, self
<1>5. ASSUME NEW x \in Operators, NEW ids \in Batches, ApproveTokens(caller, x, ids)
      PROVE  Goal
  <2>1. Sound(world, Approve(world, self, x, ids), {})
    BY <1>1, ApproveSound
  <2>2. QED
    BY <1>2, <1>5, <2>1, AnswerActs DEF ApproveTokens, self
<1>6. ASSUME NEW x \in Operators, NEW ids \in Batches, RevokeTokens(caller, x, ids)
      PROVE  Goal
  <2>1. Sound(world, Revoke(world, self, x, ids), {})
    BY <1>1, RevokeSound
  <2>2. QED
    BY <1>2, <1>6, <2>1, AnswerActs DEF RevokeTokens, self
<1>7. ASSUME NEW x \in Operators, ApproveForAll(caller, x) PROVE Goal
  <2>1. Sound(world, NFTApproveForOwner(world, self, x), {})
    BY <1>1, NFTApproveForOwnerSound
  <2>2. QED
    BY <1>2, <1>7, <2>1, AnswerActs DEF ApproveForAll, self
<1>8. ASSUME NEW x \in Operators, RevokeOperator(caller, x) PROVE Goal
  <2>1. Sound(world, NFTRevokeForAll(world, self, x), {})
    BY <1>1, NFTRevokeForAllSound
  <2>2. QED
    BY <1>2, <1>8, <2>1, AnswerActs DEF RevokeOperator, self
<1>9. ASSUME NEW x \in Addresses, NEW count \in Counts, MintTo(caller, x, count)
      PROVE  Goal
  <2> DEFINE ids  == [i \in 1..count |-> root.next + i - 1]
             call == [method |-> "Mint", caller |-> caller, owner |-> x.actor,
                      from |-> x, to |-> x, ids |-> ids]
  <2>1. Sound(world, Mint(world, self, x, count), {})
    BY <1>1, MintSound
  <2>2. ids \in Seq(TokenID)
    BY MintedIDs
  <2> HIDE DEF ids
  <2>3. call \in CallRecord /\ call.caller = caller
    BY <1>1, <2>2 DEF CallRecord, Address
  <2>4. AwaitHook(call, Mint(world, self, x, count))
    BY <1>9 DEF MintTo, self, ids
  <2>5. QED
    BY <1>2, <2>1, <2>3, <2>4, AwaitHookActs
<1>10. ASSUME NEW x \in Addresses, NEW ids \in Batches, TransferTo(caller, x, ids)
       PROVE  Goal
  <2> DEFINE call == [method |-> "Transfer", caller |-> caller, owner |-> caller,
                      from |-> self, to |-> x, ids |-> ids]
  <2>1. Sound(world, Transfer(world, self, x, ids), OwnedBy(caller))
    BY <1>1, TransferSound
  <2>2. call \in CallRecord /\ call.caller = caller
    BY <1>1 DEF CallRecord
  <2>3. AwaitHook(call, Transfer(world, self, x, ids))
    BY <1>10 DEF TransferTo, self
  <2>4. QED
    BY <1>2, <2>1, <2>2, <2>3, AwaitHookActs
<1>11. ASSUME NEW x \in Addresses, NEW y \in Addresses, NEW ids \in Batches,
              TransferOnBehalf(caller, x, y, ids)
       PROVE  Goal
  <2> DEFINE call == [method |-> "TransferFrom", caller |-> caller,
                      owner |-> caller, from |-> x, to |-> y, ids |-> ids]
             permitted == Delegated(root, caller, x.actor)
  <2>1. Sound(world, TransferFrom(world, self, x, y, ids), permitted)
    BY <1>1, TransferFromSound
  <2>2. Entitled(root, caller, permitted)
    BY DelegatedOwned, EntitledToOwn
  <2>3. call \in CallRecord /\ call.caller = caller
    BY <1>1 DEF CallRecord
  <2>4. AwaitHook(call, TransferFrom(world, self, x, y, ids))
    BY <1>11 DEF TransferOnBehalf, self
  <2>5. QED
    BY <2>1, <2>2, <2>3, <2>4, AwaitHookActs
<1>12. QED
  BY <1>3, <1>4, <1>5, <1>6, <1>7, <1>8, <1>9, <1>10, <1>11 DEF CallFrom

-----------------------------------------------------------------------------
(* Every step *)

\* What a sound outcome makes the root is a good state.
LEMMA SetRootOK ==
    ASSUME IInv, NEW r, NEW permitted, Sound(world, r, permitted), SetRoot(r)
    PROVE  SnapshotOK(Snapshot')
<1>1. WorldOK(r.world) /\ root' = r.world.nft /\ accts' = r.world.accts
  BY DEF Sound, SetRoot
<1>2. StateOK(root') /\ accts' \subseteq ActorID
  BY <1>1 DEF WorldOK
<1>3. QED
  BY <1>2 DEF SnapshotOK, IsSnapshot, Snapshot, StateOK

LEMMA RefuseIInv ==
    ASSUME IInv, NEW caller \in ActorID, Refuse(caller)
    PROVE  IInv'
<1>1. ReplyOK' /\ Snapshot' = Snapshot /\ stack' = stack
  BY DEF Refuse, ReplyOK, Snapshot
<1>2. QED
  BY <1>1 DEF IInv, StackOK

LEMMA CallIInv ==
    ASSUME IInv, NEW caller \in accts, CallFrom(caller)
    PROVE  IInv'
<1>1. PICK r, permitted : ActsOn(caller, r, permitted)
  BY CallActs
<1>2. caller \in ActorID
  BY DEF IInv, SnapshotOK, Snapshot, IsSnapshot
<1>3. r.ok \in BOOLEAN
  BY <1>1 DEF ActsOn, Sound
<1>4. CASE Refuse(caller)
  BY <1>2, <1>4, RefuseIInv
<1>5. CASE Answer(caller, r) /\ r.ok
  <2>1. /\ SetRoot(r) /\ stack' = stack
        /\ reply' = [status |-> "ok", caller |-> caller]
    BY <1>5 DEF Answer
  <2>2. SnapshotOK(Snapshot')
    BY <1>1, <2>1, SetRootOK DEF ActsOn
  <2>3. ReplyOK'
    BY <1>2, <2>1 DEF ReplyOK
  <2>4. QED
    BY <2>1, <2>2, <2>3 DEF IInv, StackOK
<1>6. ASSUME NEW call \in CallRecord, call.caller = caller, AwaitHook(call, r), r.ok
      PROVE  IInv'
  <2> DEFINE frame == [call |-> call, handle |-> root', undo |-> Snapshot]
  <2>1. /\ Len(stack) < MaxDepth /\ SetRoot(r)
        /\ stack' = Append(stack, frame)
        /\ reply' = [status |-> "pending", caller |-> caller]
    BY <1>6 DEF AwaitHook
  <2>2. SnapshotOK(Snapshot')
    BY <1>1, <2>1, SetRootOK DEF ActsOn
  <2>3. FrameOK(frame)
    BY <2>2 DEF FrameOK, IsFrame, IInv, SnapshotOK, StateOK, Snapshot
  <2> HIDE DEF frame
  <2>4. StackOK(stack')
    BY <2>1, <2>3, PushOK DEF IInv
  <2>5. ReplyOK'
    BY <1>2, <2>1 DEF ReplyOK
  <2>6. QED
    BY <2>2, <2>4, <2>5 DEF IInv, StackOK
<1>7. QED
  BY <1>1, <1>3, <1>4, <1>5, <1>6 DEF ActsOn, Answer, AwaitHook

\* Resuming the method closes its frame and keeps the state its hook left.
LEMMA HookReturnsIInv ==
    ASSUME IInv, HookReturns
    PROVE  IInv'
<1>1. stack # <<>> /\ Snapshot' = Snapshot /\ stack' = Pop
  BY DEF HookReturns, Snapshot
<1>2. FrameOK(Top) /\ StackOK(stack')
  BY <1>1, PopOK DEF Top, Pop, IInv
<1>3. reply'.status = "returned" /\ reply'.caller = Top.call.caller
  BY DEF HookReturns
<1>4. ReplyOK'
  BY <1>2, <1>3 DEF ReplyOK, FrameOK, IsFrame, CallRecord
<1>5. QED
  BY <1>1, <1>2, <1>4 DEF IInv, StackOK

\* Rolling back makes a good snapshot the state.
LEMMA HookAbortsIInv ==
    ASSUME IInv, HookAborts
    PROVE  IInv'
<1>1. /\ stack # <<>>
      /\ root' = Top.undo.root
      /\ accts' = Top.undo.accts
      /\ stack' = Pop
      /\ reply' = [status |-> "aborted", caller |-> Top.call.caller]
  BY DEF HookAborts
<1>2. FrameOK(Top) /\ StackOK(stack')
  BY <1>1, PopOK DEF Top, Pop, IInv
<1>3. SnapshotOK(Snapshot')
  BY <1>1, <1>2 DEF FrameOK, SnapshotOK, IsSnapshot, Snapshot
<1>4. ReplyOK'
  BY <1>1, <1>2 DEF ReplyOK, FrameOK, IsFrame, CallRecord
<1>5. QED
  BY <1>2, <1>3, <1>4 DEF IInv, StackOK

LEMMA InitIInv == Init => IInv
<1> SUFFICES ASSUME Init PROVE IInv
  OBVIOUS
<1>1. root = NewNFTState /\ accts = Founders /\ stack = <<>>
  BY DEF Init
<1>2. SnapshotOK(Snapshot)
  BY <1>1, NewStateOK, ActorAssumption DEF SnapshotOK, IsSnapshot, Snapshot, StateOK
<1>3. StackOK(stack)
  <2>1. <<>> \in Seq({<<>>[i] : i \in DOMAIN <<>>})
    OBVIOUS
  <2>2. Len(stack) = 0 /\ DOMAIN stack = {}
    BY <1>1
  <2>3. QED
    BY <1>1, <2>1, <2>2, ActorAssumption DEF StackOK
<1>4. ReplyOK
  BY ActorAssumption DEF Init, ReplyOK
<1>5. QED
  BY <1>2, <1>3, <1>4 DEF IInv

LEMMA NextIInv == IInv /\ [Next]_vars => IInv'
<1> SUFFICES ASSUME IInv, [Next]_vars PROVE IInv'
  OBVIOUS
<1>1. CASE UNCHANGED vars
  <2>1. Snapshot' = Snapshot /\ stack' = stack /\ ReplyOK'
    BY <1>1 DEF vars, Snapshot, IInv, ReplyOK
  <2>2. QED
    BY <2>1 DEF IInv, StackOK
<1>2. CASE Next
  BY <1>2, CallIInv, HookReturnsIInv, HookAbortsIInv DEF Next
<1>3. QED
  BY <1>1, <1>2

\* IInv holds in every state of the actor.
THEOREM Invariance == Spec => []IInv
  BY InitIInv, NextIInv, PTL DEF Spec

\* The root, every handle and every snapshot on the stack, and the reply keep
\* their types at any depth of nesting.
THEOREM TypeCorrect == Spec => []TypeOK
<1>1. IInv => TypeOK
  BY DEF IInv, SnapshotOK, StackOK, FrameOK, ReplyOK, TypeOK
<1>2. QED
  BY <1>1, Invariance, PTL

\* The state any call will load counts its tokens right, with methods
\* suspended in hooks and after any rollback.
THEOREM CountsCorrect == Spec => []BalancesCountTokens
<1>1. IInv => BalancesCountTokens
  BY OnlyEmptyOwners DEF IInv, SnapshotOK, Snapshot, StateOK, BalancesCountTokens
<1>2. QED
  BY <1>1, Invariance, PTL

-----------------------------------------------------------------------------
(* Authority *)

\* What MoveIsAuthorised says of a step.
MoveStep ==
    reply'.status # "aborted" =>
        \A t \in DOMAIN root.tokens :
            t \notin DOMAIN root'.tokens \/ OwnerOf(root', t) # OwnerOf(root, t)
            => \/ reply'.caller = OwnerOf(root, t)
               \/ reply'.caller \in root.tokens[t].operators
               \/ IsAccountOperator(root, OwnerOf(root, t), reply'.caller)

LEMMA CallIsAuthorised ==
    ASSUME IInv, NEW caller \in accts, CallFrom(caller)
    PROVE  MoveStep
<1>1. PICK r, permitted : ActsOn(caller, r, permitted)
  BY CallActs
<1>2. CASE Refuse(caller)
  BY <1>2 DEF Refuse, MoveStep
<1>3. CASE r.ok /\ SetRoot(r) /\ reply'.caller = caller
  <2>1. Taken(root, root', permitted)
    BY <1>1, <1>3, WorldIsOK DEF ActsOn, Sound, Follows, SetRoot
  <2>2. QED
    BY <1>1, <1>3, <2>1 DEF ActsOn, Entitled, Taken, MoveStep
<1>4. QED
  BY <1>1, <1>2, <1>3, ActsOnEnds

\* Whoever runs code in a hook, and however deep the hooks nest, a token
\* leaves its owner only at the call of the owner, of an operator of the token
\* or of an operator of the account, or by a rollback.
THEOREM MoveCorrect == Spec => MoveIsAuthorised
<1>1. IInv /\ [Next]_vars => [MoveStep]_vars
  <2> SUFFICES ASSUME IInv, Next PROVE MoveStep
    OBVIOUS
  <2>1. ASSUME HookReturns PROVE MoveStep
    BY <2>1 DEF HookReturns, MoveStep
  <2>2. ASSUME HookAborts PROVE MoveStep
    BY <2>2 DEF HookAborts, MoveStep
  <2>3. QED
    BY <2>1, <2>2, CallIsAuthorised DEF Next
<1>2. MoveIsAuthorised <=> [][MoveStep]_vars
  BY PTL DEF MoveIsAuthorised, MoveStep
<1>3. QED
  BY <1>1, <1>2, Invariance, PTL DEF Spec

-----------------------------------------------------------------------------
(* The return value *)

LEMMA CallDoesNotReturn ==
    ASSUME IInv, NEW caller \in accts, CallFrom(caller)
    PROVE  reply'.status # "returned"
<1>1. PICK r, permitted : ActsOn(caller, r, permitted)
  BY CallActs
<1>2. CASE Refuse(caller)
  BY <1>2 DEF Refuse
<1>3. CASE reply'.status \in {"ok", "pending"}
  BY <1>3
<1>4. QED
  BY <1>1, <1>2, <1>3, ActsOnEnds

\* What mint, transfer and transfer_from return is read from the state as the
\* recipient's hook, and whatever ran within it, left it.
THEOREM ReplyCorrect == Spec => []ReplyIsCurrent
<1>1. Init => ReplyIsCurrent
  BY DEF Init, ReplyIsCurrent
<1>2. IInv /\ ReplyIsCurrent /\ [Next]_vars => ReplyIsCurrent'
  <2> SUFFICES ASSUME IInv, ReplyIsCurrent, [Next]_vars PROVE ReplyIsCurrent'
    OBVIOUS
  <2>1. ASSUME NEW caller \in accts, CallFrom(caller) PROVE ReplyIsCurrent'
    BY <2>1, CallDoesNotReturn DEF ReplyIsCurrent
  <2>2. ASSUME HookReturns PROVE ReplyIsCurrent'
    <3>1. ReloadIfChanged(Top.handle) = root
      BY DEF ReloadIfChanged
    <3>2. /\ root' = root /\ reply'.call = Top.call
          /\ reply'.value = ReturnValue(Top.call, root)
      BY <2>2, <3>1 DEF HookReturns
    <3>3. QED
      BY <3>2 DEF ReplyIsCurrent
  <2>3. ASSUME HookAborts PROVE ReplyIsCurrent'
    BY <2>3 DEF HookAborts, ReplyIsCurrent
  <2>4. CASE UNCHANGED vars
    BY <2>4 DEF vars, ReplyIsCurrent
  <2>5. QED
    BY <2>1, <2>2, <2>3, <2>4 DEF Next
<1>3. QED
  BY <1>1, <1>2, Invariance, PTL DEF Spec

-----------------------------------------------------------------------------
(* The actor is a collection with nested transactions. *)

Saved(s) == [owner |-> Owners(s.root), issued |-> s.root.next]

SavedStack(s) == [i \in DOMAIN s |-> Saved(s[i].undo)]

LEMMA SavedStackIsSeq ==
    ASSUME NEW s, StackOK(s)
    PROVE  /\ Len(s) \in Nat /\ DOMAIN s = 1..Len(s)
           /\ SavedStack(s) \in Seq({Saved(s[i].undo) : i \in DOMAIN s})
           /\ Len(SavedStack(s)) = Len(s)
<1> DEFINE S == {s[i] : i \in DOMAIN s}
           T == {Saved(s[i].undo) : i \in DOMAIN s}
<1>1. s \in Seq(S)
  BY DEF StackOK
<1>2. Len(s) \in Nat /\ DOMAIN s = 1..Len(s)
  BY <1>1
<1>3. SavedStack(s) \in [1..Len(s) -> T] /\ DOMAIN SavedStack(s) = 1..Len(s)
  BY <1>2 DEF SavedStack
<1> HIDE DEF S, T
<1>4. SavedStack(s) \in Seq(T)
  BY <1>2, <1>3, SeqDef
<1>5. Len(SavedStack(s)) = Len(s)
  BY <1>2, <1>3, <1>4
<1>6. QED
  BY <1>2, <1>4, <1>5 DEF T

\* Two sequences of one length with the same elements are the same.
LEMMA SameSeq ==
    ASSUME NEW S, NEW T, NEW s \in Seq(S), NEW t \in Seq(T), Len(s) = Len(t),
           \A i \in 1..Len(s) : s[i] = t[i]
    PROVE  s = t
<1>1. Len(s) \in Nat /\ s = [i \in 1..Len(s) |-> s[i]] /\ t = [i \in 1..Len(t) |-> t[i]]
  OBVIOUS
<1>2. QED
  BY <1>1

LEMMA SavedPush ==
    ASSUME NEW s, StackOK(s), NEW f, FrameOK(f), Len(s) < MaxDepth
    PROVE  SavedStack(Append(s, f)) = Append(SavedStack(s), Saved(f.undo))
<1> DEFINE t == Append(s, f)
           u == Append(SavedStack(s), Saved(f.undo))
           n == Len(s)
           S == {s[i] : i \in DOMAIN s} \cup {f}
           T == {Saved(s[i].undo) : i \in DOMAIN s} \cup {Saved(f.undo)}
<1>1. /\ n \in Nat /\ DOMAIN s = 1..n /\ Len(SavedStack(s)) = n
      /\ \A i \in 1..n : SavedStack(s)[i] = Saved(s[i].undo)
  BY SavedStackIsSeq DEF SavedStack
<1>2. s \in Seq(S) /\ SavedStack(s) \in Seq(T)
  <2> DEFINE S0 == {s[i] : i \in DOMAIN s}
  <2>1. s \in Seq(S0)
    BY DEF StackOK
  <2> HIDE DEF S0
  <2>2. s = [i \in 1..n |-> s[i]]
    BY <2>1
  <2>3. s \in [1..n -> S]
    BY <1>1, <2>2
  <2>4. SavedStack(s) \in [1..n -> T]
    BY <1>1 DEF SavedStack
  <2> HIDE DEF S, T
  <2>5. QED
    BY <1>1, <2>3, <2>4, SeqDef
<1>3. f \in S /\ Saved(f.undo) \in T
  OBVIOUS
<1> HIDE DEF S, T
<1>4. Len(t) = n + 1 /\ t[n + 1] = f /\ \A i \in 1..n : t[i] = s[i]
  BY <1>2, <1>3, AppendProperties
<1>5. /\ u \in Seq(T) /\ Len(u) = n + 1 /\ u[n + 1] = Saved(f.undo)
      /\ \A i \in 1..n : u[i] = Saved(s[i].undo)
  BY <1>1, <1>2, <1>3, AppendProperties
<1>6. StackOK(t)
  BY PushOK
<1> HIDE DEF t, u, n
<1>7. /\ Len(SavedStack(t)) = n + 1
      /\ \A i \in 1..(n + 1) : SavedStack(t)[i] = Saved(t[i].undo)
      /\ SavedStack(t) \in Seq({Saved(t[i].undo) : i \in DOMAIN t})
  BY <1>4, <1>6, SavedStackIsSeq DEF SavedStack
<1>8. \A i \in 1..(n + 1) : SavedStack(t)[i] = u[i]
  <2> SUFFICES ASSUME NEW i \in 1..(n + 1) PROVE SavedStack(t)[i] = u[i]
    OBVIOUS
  <2>1. i = n + 1 \/ i \in 1..n
    BY <1>1
  <2>2. QED
    BY <1>4, <1>5, <1>7, <2>1
<1>9. SavedStack(t) = u
  BY <1>5, <1>7, <1>8, SameSeq
<1>10. QED
  BY <1>9 DEF t, u

LEMMA SavedPop ==
    ASSUME NEW s, StackOK(s), s # <<>>
    PROVE  LET n == Len(SavedStack(s))
           IN  /\ SavedStack(s) # <<>>
               /\ SavedStack(s)[n] = Saved(s[Len(s)].undo)
               /\ SavedStack(SubSeq(s, 1, Len(s) - 1)) = SubSeq(SavedStack(s), 1, n - 1)
<1> DEFINE t == SubSeq(s, 1, Len(s) - 1)
           n == Len(s)
           S == {s[i] : i \in DOMAIN s}
           T == {Saved(s[i].undo) : i \in DOMAIN s}
           u == SubSeq(SavedStack(s), 1, n - 1)
<1>1. /\ n \in Nat /\ DOMAIN s = 1..n /\ Len(SavedStack(s)) = n
      /\ SavedStack(s) \in Seq(T) /\ s \in Seq(S)
      /\ \A i \in 1..n : SavedStack(s)[i] = Saved(s[i].undo)
  BY SavedStackIsSeq DEF SavedStack, StackOK
<1>2. n \in Nat \ {0}
  BY <1>1
<1>3. /\ \A i \in 1..(n - 1) : s[i] \in S
      /\ \A i \in 1..(n - 1) : SavedStack(s)[i] \in T
  <2> SUFFICES ASSUME NEW i \in 1..(n - 1)
               PROVE  s[i] \in S /\ SavedStack(s)[i] \in T
    OBVIOUS
  <2>1. i \in 1..n /\ i \in DOMAIN s
    BY <1>1, <1>2
  <2>2. s[i] \in S
    BY <2>1
  <2>3. Saved(s[i].undo) \in T
    BY <2>1
  <2>4. QED
    BY <1>1, <2>1, <2>2, <2>3
<1> HIDE DEF S, T
<1>4. /\ Len(t) = IF 1 <= n - 1 THEN n - 1 - 1 + 1 ELSE 0
      /\ \A i \in 1..(n - 1 - 1 + 1) : t[i] = s[1 + i - 1]
  BY <1>1, <1>2, <1>3, SubSeqProperties
<1>5. /\ u \in Seq(T)
      /\ Len(u) = IF 1 <= n - 1 THEN n - 1 - 1 + 1 ELSE 0
      /\ \A i \in 1..(n - 1 - 1 + 1) : u[i] = SavedStack(s)[1 + i - 1]
  BY <1>1, <1>2, <1>3, SubSeqProperties
<1>6. StackOK(t)
  BY PopOK
<1> HIDE DEF t, u
<1>7. /\ Len(t) = n - 1 /\ Len(u) = n - 1
      /\ \A i \in 1..(n - 1) : t[i] = s[i] /\ u[i] = SavedStack(s)[i]
  <2>1. Len(t) = n - 1 /\ Len(u) = n - 1
    <3> HIDE DEF n
    <3>1. CASE 1 <= n - 1
      BY <1>2, <1>4, <1>5, <3>1
    <3>2. CASE n = 1
      BY <1>4, <1>5, <3>2
    <3>3. QED
      BY <1>2, <3>1, <3>2
  <2>2. ASSUME NEW i \in 1..(n - 1)
        PROVE  t[i] = s[i] /\ u[i] = SavedStack(s)[i]
    <3>1. i \in 1..(n - 1 - 1 + 1) /\ 1 + i - 1 = i
      BY <1>2
    <3>2. t[i] = s[1 + i - 1] /\ u[i] = SavedStack(s)[1 + i - 1]
      BY <1>4, <1>5, <3>1
    <3>3. QED
      BY <3>1, <3>2
  <2>3. QED
    BY <2>1, <2>2
<1>8. /\ Len(SavedStack(t)) = n - 1
      /\ \A i \in 1..(n - 1) : SavedStack(t)[i] = Saved(t[i].undo)
      /\ SavedStack(t) \in Seq({Saved(t[i].undo) : i \in DOMAIN t})
  BY <1>6, <1>7, SavedStackIsSeq DEF SavedStack
<1>9. \A i \in 1..(n - 1) : SavedStack(t)[i] = u[i]
  <2> SUFFICES ASSUME NEW i \in 1..(n - 1) PROVE SavedStack(t)[i] = u[i]
    OBVIOUS
  <2>1. i \in 1..n
    BY <1>2
  <2>2. SavedStack(t)[i] = Saved(s[i].undo)
    BY <1>7, <1>8
  <2>3. u[i] = Saved(s[i].undo)
    BY <1>1, <1>7, <2>1
  <2>4. QED
    BY <2>2, <2>3
<1>10. SavedStack(t) = u
  BY <1>5, <1>7, <1>8, <1>9, SameSeq
<1>11. SavedStack(s) # <<>> /\ SavedStack(s)[n] = Saved(s[n].undo)
  BY <1>1, <1>2
<1>12. QED
  BY <1>1, <1>10, <1>11 DEF t, u

\* What the library does to the tokens, as the collection sees it.
Grown(owner, issued, upTo, a) ==
    [t \in DOMAIN owner \cup issued..(upTo - 1) |->
        IF t \in DOMAIN owner THEN owner[t] ELSE a]

LEMMA IssuedOwners ==
    ASSUME NEW st, NEW new, NEW a, Issued(st, new, a)
    PROVE  Owners(new) = Grown(Owners(st), st.next, new.next, a)
  BY DEF Issued, Owners, Grown

LEMMA PassedOwners ==
    ASSUME NEW st, NEW new, NEW a, NEW b, Passed(st, new, a, b)
    PROVE  /\ DOMAIN Owners(new) = DOMAIN Owners(st)
           /\ \A t \in DOMAIN Owners(st) :
                 \/ Owners(new)[t] = Owners(st)[t]
                 \/ Owners(st)[t] = a /\ Owners(new)[t] = b
  BY DEF Passed, Owners

LEMMA RetiredOwners ==
    ASSUME NEW st, NEW new, NEW a, Retired(st, new, a)
    PROVE  /\ DOMAIN Owners(new) \subseteq DOMAIN Owners(st)
           /\ Owners(new) = [t \in DOMAIN Owners(new) |-> Owners(st)[t]]
           /\ \A t \in DOMAIN Owners(st) \ DOMAIN Owners(new) : Owners(st)[t] = a
  BY DEF Retired, Owners

LEMMA SameOwnersOwners ==
    ASSUME NEW st, NEW new, SameOwners(st, new)
    PROVE  Owners(new) = Owners(st)
  BY DEF SameOwners, Owners

\* A refused call is a stutter of the collection.
LEMMA RefuseStutters ==
    ASSUME NEW caller, Refuse(caller)
    PROVE  UNCHANGED Promise!vars
  BY DEF Refuse, Promise!vars

\* A method without a hook leaves the transactions alone.
LEMMA AnswerKeepsSaved ==
    ASSUME NEW caller, NEW r, Answer(caller, r), r.ok
    PROVE  root' = r.world.nft /\ stack' = stack
  BY DEF Answer, SetRoot

\* A method that calls a hook begins one.
LEMMA AwaitHookBegins ==
    ASSUME IInv, NEW call \in CallRecord, NEW r, NEW permitted,
           Sound(world, r, permitted), AwaitHook(call, r), r.ok
    PROVE  root' = r.world.nft /\ Promise!Begin
<1> DEFINE frame == [call |-> call, handle |-> root', undo |-> Snapshot]
<1>1. /\ Len(stack) < MaxDepth /\ SetRoot(r) /\ root' = r.world.nft
      /\ stack' = Append(stack, frame)
  BY DEF AwaitHook, SetRoot
<1>2. SnapshotOK(Snapshot')
  BY <1>1, SetRootOK
<1>3. FrameOK(frame)
  BY <1>2 DEF FrameOK, IsFrame, IInv, SnapshotOK, StateOK, Snapshot
<1>4. frame.undo.root = root
  BY DEF Snapshot
<1> HIDE DEF frame
<1>5. SavedStack(stack') = Append(SavedStack(stack), Saved(frame.undo))
  BY <1>1, <1>3, SavedPush DEF IInv
<1>6. Saved(frame.undo) = [owner |-> Owners(root), issued |-> root.next]
  BY <1>4 DEF Saved
<1>7. QED
  BY <1>1, <1>5, <1>6 DEF Promise!Begin, SavedStack, Saved

\* So each method that moves tokens is the collection's operation.
LEMMA MintRefines ==
    ASSUME IInv, NEW call \in CallRecord, NEW r, NEW permitted,
           Sound(world, r, permitted), AwaitHook(call, r),
           NEW a \in ActorID, r.ok => Issued(root, r.world.nft, a)
    PROVE  Promise!Next \/ UNCHANGED Promise!vars
<1>1. CASE ~r.ok
  BY <1>1, RefuseStutters DEF AwaitHook
<1>2. CASE r.ok
  <2>1. root' = r.world.nft /\ Promise!Begin
    BY <1>2, AwaitHookBegins
  <2>2. Issued(root, root', a)
    BY <1>2, <2>1
  <2>3. Promise!Issue(a)
    <3>1. Owners(root') = Grown(Owners(root), root.next, root'.next, a)
      BY <2>2, IssuedOwners
    <3>2. root'.next >= root.next
      BY <2>2 DEF Issued
    <3>3. QED
      BY <2>1, <3>1, <3>2 DEF Promise!Issue, Grown
  <2>4. QED
    BY <2>3 DEF Promise!Next
<1>3. QED
  BY <1>1, <1>2

LEMMA TransferRefines ==
    ASSUME IInv, NEW call \in CallRecord, NEW r, NEW permitted,
           Sound(world, r, permitted), AwaitHook(call, r),
           NEW a \in ActorID, NEW b \in ActorID,
           r.ok => Passed(root, r.world.nft, a, b)
    PROVE  Promise!Next \/ UNCHANGED Promise!vars
<1>1. CASE ~r.ok
  BY <1>1, RefuseStutters DEF AwaitHook
<1>2. CASE r.ok
  <2>1. root' = r.world.nft /\ Promise!Begin
    BY <1>2, AwaitHookBegins
  <2>2. Passed(root, root', a, b)
    BY <1>2, <2>1
  <2>3. Promise!Move(a, b)
    BY <2>1, <2>2, PassedOwners DEF Promise!Move, Passed
  <2>4. QED
    BY <2>3 DEF Promise!Next
<1>3. QED
  BY <1>1, <1>2

LEMMA BurnRefines ==
    ASSUME NEW caller, NEW r, Answer(caller, r), NEW a \in ActorID,
           r.ok => Retired(root, r.world.nft, a)
    PROVE  Promise!Next \/ UNCHANGED Promise!vars
<1>1. CASE ~r.ok
  BY <1>1, RefuseStutters DEF Answer
<1>2. CASE r.ok
  <2>1. root' = r.world.nft /\ stack' = stack
    BY <1>2, AnswerKeepsSaved
  <2>2. Retired(root, root', a)
    BY <1>2, <2>1
  <2>3. root'.next = root.next
    BY <2>2 DEF Retired
  <2>4. Promise!Retire(a)
    BY <2>1, <2>2, <2>3, RetiredOwners DEF Promise!Retire
  <2>5. QED
    BY <2>4 DEF Promise!Next
<1>3. QED
  BY <1>1, <1>2

LEMMA ApprovalRefines ==
    ASSUME NEW caller, NEW r, Answer(caller, r),
           r.ok => SameOwners(root, r.world.nft)
    PROVE  UNCHANGED Promise!vars
<1>1. CASE ~r.ok
  BY <1>1, RefuseStutters DEF Answer
<1>2. CASE r.ok
  <2>1. root' = r.world.nft /\ stack' = stack
    BY <1>2, AnswerKeepsSaved
  <2>2. SameOwners(root, root')
    BY <1>2, <2>1
  <2>3. Owners(root') = Owners(root) /\ root'.next = root.next
    BY <2>2, SameOwnersOwners DEF SameOwners
  <2>4. QED
    BY <2>1, <2>3 DEF Promise!vars
<1>3. QED
  BY <1>1, <1>2

LEMMA CallRefines ==
    ASSUME IInv, NEW caller \in accts, CallFrom(caller)
    PROVE  Promise!Next \/ UNCHANGED Promise!vars
<1> DEFINE self == IDAddress(caller)
           Goal == Promise!Next \/ UNCHANGED Promise!vars
<1> USE ActorAssumption
<1>1. /\ WorldOK(world) /\ world.nft = root /\ caller \in ActorID
      /\ self \in Address /\ self.actor = caller
      /\ \A x \in Address : x.actor \in ActorID
  BY WorldIsOK, SelfAddress DEF IInv, SnapshotOK, Snapshot, IsSnapshot, Address
<1> HIDE DEF self, Goal
<1>2. ASSUME NEW ids \in Batches, BurnOwn(caller, ids) PROVE Goal
  <2>1. Burn(world, self, ids).ok
          => Retired(root, Burn(world, self, ids).world.nft, caller)
    BY <1>1, BurnRetires
  <2>2. QED
    BY <1>1, <1>2, <2>1, BurnRefines DEF BurnOwn, self, Goal
<1>3. ASSUME NEW x \in Addresses, NEW ids \in Batches, BurnOnBehalf(caller, x, ids)
      PROVE  Goal
  <2>1. BurnFrom(world, x, self, ids).ok
          => Retired(root, BurnFrom(world, x, self, ids).world.nft, x.actor)
    BY <1>1, BurnFromRetires
  <2>2. QED
    BY <1>1, <1>3, <2>1, BurnRefines DEF BurnOnBehalf, self, Goal
<1>4. ASSUME NEW x \in Operators, NEW ids, NEW r, Answer(caller, r),
             \/ r = Approve(world, self, x, ids)
             \/ r = Revoke(world, self, x, ids)
             \/ r = NFTApproveForOwner(world, self, x)
             \/ r = NFTRevokeForAll(world, self, x)
      PROVE  Goal
  <2>1. r.ok => SameOwners(root, r.world.nft)
    BY <1>1, <1>4, ApprovalsKeepOwners
  <2>2. QED
    BY <1>4, <2>1, ApprovalRefines DEF Goal
<1>5. ASSUME NEW x \in Operators, ApproveForAll(caller, x) PROVE Goal
  BY <1>4, <1>5 DEF ApproveForAll, self
<1>6. ASSUME NEW x \in Operators, RevokeOperator(caller, x) PROVE Goal
  BY <1>4, <1>6 DEF RevokeOperator, self
<1>7. ASSUME NEW x \in Operators, NEW ids \in Batches,
             ApproveTokens(caller, x, ids) \/ RevokeTokens(caller, x, ids)
      PROVE  Goal
  BY <1>4, <1>7 DEF ApproveTokens, RevokeTokens, self
<1>8. ASSUME NEW x \in Addresses, NEW count \in Counts, MintTo(caller, x, count)
      PROVE  Goal
  <2> DEFINE r == Mint(world, self, x, count)
             ids  == [i \in 1..count |-> root.next + i - 1]
             call == [method |-> "Mint", caller |-> caller, owner |-> x.actor,
                      from |-> x, to |-> x, ids |-> ids]
  <2>1. Sound(world, r, {}) /\ (r.ok => Issued(root, r.world.nft, x.actor))
    BY <1>1, MintSound, MintIssues
  <2>2. AwaitHook(call, r)
    BY <1>8 DEF MintTo, self
  <2>3. call \in CallRecord
    BY <1>1, MintedIDs DEF CallRecord
  <2> HIDE DEF r, call
  <2>4. QED
    BY <1>1, <2>1, <2>2, <2>3, MintRefines DEF Goal
<1>9. ASSUME NEW x \in Addresses, NEW ids \in Batches, TransferTo(caller, x, ids)
      PROVE  Goal
  <2> DEFINE r == Transfer(world, self, x, ids)
             call == [method |-> "Transfer", caller |-> caller, owner |-> caller,
                      from |-> self, to |-> x, ids |-> ids]
  <2>1. /\ Sound(world, r, OwnedBy(caller))
        /\ r.ok => Passed(root, r.world.nft, caller, x.actor)
    BY <1>1, TransferSound, TransferPasses
  <2>2. AwaitHook(call, r)
    BY <1>9 DEF TransferTo, self
  <2>3. call \in CallRecord
    BY <1>1 DEF CallRecord
  <2> HIDE DEF r, call
  <2>4. QED
    BY <1>1, <2>1, <2>2, <2>3, TransferRefines DEF Goal
<1>10. ASSUME NEW x \in Addresses, NEW y \in Addresses, NEW ids \in Batches,
              TransferOnBehalf(caller, x, y, ids)
       PROVE  Goal
  <2> DEFINE r == TransferFrom(world, self, x, y, ids)
             call == [method |-> "TransferFrom", caller |-> caller,
                      owner |-> caller, from |-> x, to |-> y, ids |-> ids]
  <2>1. /\ Sound(world, r, Delegated(root, caller, x.actor))
        /\ r.ok => Passed(root, r.world.nft, caller, y.actor)
    BY <1>1, TransferFromSound, TransferFromPasses
  <2>2. AwaitHook(call, r)
    BY <1>10 DEF TransferOnBehalf, self
  <2>3. call \in CallRecord
    BY <1>1 DEF CallRecord
  <2> HIDE DEF r, call
  <2>4. QED
    BY <1>1, <2>1, <2>2, <2>3, TransferRefines DEF Goal
<1>11. QED
  BY <1>2, <1>3, <1>5, <1>6, <1>7, <1>8, <1>9, <1>10 DEF CallFrom, Goal

LEMMA HookReturnsRefines ==
    ASSUME IInv, HookReturns
    PROVE  Promise!Commit
<1>1. stack # <<>> /\ root' = root /\ stack' = SubSeq(stack, 1, Len(stack) - 1)
  BY DEF HookReturns, Pop
<1>2. /\ SavedStack(stack) # <<>>
      /\ SavedStack(stack')
           = SubSeq(SavedStack(stack), 1, Len(SavedStack(stack)) - 1)
  BY <1>1, SavedPop DEF IInv
<1>3. QED
  BY <1>1, <1>2 DEF Promise!Commit, Promise!Close, SavedStack, Saved

LEMMA HookAbortsRefines ==
    ASSUME IInv, HookAborts
    PROVE  Promise!RollBack
<1>1. /\ stack # <<>> /\ stack' = SubSeq(stack, 1, Len(stack) - 1)
      /\ root' = stack[Len(stack)].undo.root
  BY DEF HookAborts, Pop, Top
<1>2. /\ SavedStack(stack) # <<>>
      /\ SavedStack(stack)[Len(SavedStack(stack))] = Saved(stack[Len(stack)].undo)
      /\ SavedStack(stack')
           = SubSeq(SavedStack(stack), 1, Len(SavedStack(stack)) - 1)
  BY <1>1, SavedPop DEF IInv
<1>3. Promise!Close
  BY <1>2 DEF Promise!Close, SavedStack, Saved
<1>4. Promise!Innermost = [owner |-> Owners(root'), issued |-> root'.next]
  BY <1>1, <1>2 DEF Promise!Innermost, SavedStack, Saved
<1>5. QED
  BY <1>3, <1>4 DEF Promise!RollBack

LEMMA InitRefines == Init => Promise!Init
<1> SUFFICES ASSUME Init PROVE Promise!Init
  OBVIOUS
<1>1. root.tokens = EmptyHamt /\ root.next = 0 /\ stack = <<>>
  BY DEF Init, NewNFTState
<1>2. Owners(root) = [t \in {} |-> 0]
  BY <1>1 DEF Owners, EmptyHamt
<1>3. [i \in DOMAIN stack |-> [owner  |-> Owners(stack[i].undo.root),
                               issued |-> stack[i].undo.root.next]] = <<>>
  BY <1>1
<1>4. QED
  BY <1>1, <1>2, <1>3 DEF Promise!Init

LEMMA NextRefines == IInv /\ [Next]_vars => [Promise!Next]_(Promise!vars)
<1> SUFFICES ASSUME IInv, [Next]_vars
             PROVE  Promise!Next \/ UNCHANGED Promise!vars
  OBVIOUS
<1>1. CASE UNCHANGED vars
  BY <1>1 DEF vars, Promise!vars
<1>2. ASSUME HookReturns PROVE Promise!Next
  BY <1>2, HookReturnsRefines DEF Promise!Next
<1>3. ASSUME HookAborts PROVE Promise!Next
  BY <1>3, HookAbortsRefines DEF Promise!Next
<1>4. QED
  BY <1>1, <1>2, <1>3, CallRefines DEF Next

\* The actor implements the collection: each method is one of its operations
\* or none, a hook that returns commits, one that aborts rolls back all that
\* was done since its method was called.
THEOREM Refinement == Spec => ImplementsCollection
  BY InitRefines, NextRefines, Invariance, PTL
     DEF Spec, ImplementsCollection, Promise!Spec
=============================================================================
