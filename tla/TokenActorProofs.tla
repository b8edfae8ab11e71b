-------------------------- MODULE TokenActorProofs --------------------------
(***************************************************************************)
(* The factory token and the basic token, for any number of accounts, any  *)
(* addresses and amounts and any depth of nested hooks: the type, the      *)
(* agreement of the state root with its balances and with what has been    *)
(* issued, who may mint, who may take from an account, what a resumed      *)
(* method returns, and that the actor implements the ledger.               *)
(*                                                                         *)
(* A rollback makes a state from the past the current one, so what holds   *)
(* of the root has to hold of every snapshot on the stack as well.         *)
(*                                                                         *)
(* The two tokens differ in their mint and in their minter.  What both     *)
(* keep is proved once, of AnyNext, and concluded for Spec, the factory    *)
(* token, and for EitherSpec.                                              *)
(***************************************************************************)
EXTENDS BasicTokenActor, FRC46LibraryProofs, SequenceTheorems

RootOK(r) ==
    /\ r = [token |-> r.token, minter |-> r.minter]
    /\ StateOK(r.token)
    /\ SupplyMatches(r.token)
    /\ r.minter \in Option \cup {Anyone}

SnapshotOK(s) ==
    /\ s = [root |-> s.root, accts |-> s.accts, issued |-> s.issued]
    /\ RootOK(s.root)
    /\ s.accts \subseteq ActorID
    /\ s.issued \in Int
    /\ s.root.token.supply = s.issued

FrameOK(f) ==
    /\ f = [call |-> f.call, handle |-> f.handle, undo |-> f.undo]
    /\ f.call \in CallRecord
    /\ RootOK(f.handle)
    /\ SnapshotOK(f.undo)

StackOK(s) ==
    /\ s \in Seq({s[i] : i \in DOMAIN s})
    /\ Len(s) <= MaxDepth
    /\ \A i \in DOMAIN s : FrameOK(s[i])

ReplyOK ==
    /\ reply.status \in {"none", "ok", "pending", "returned", "aborted", "unhandled"}
    /\ reply.caller \in ActorID

\* What either token may do, its kind left open.
AnyCall(caller) ==
    \/ CallFrom(caller)
    \/ Basic /\ \E x \in Addresses, amount \in Amounts : BasicMint(caller, x, amount)

AnyNext ==
    \/ \E caller \in accts : AnyCall(caller)
    \/ HookReturns
    \/ HookAborts

\* The inductive invariant.
IInv == SnapshotOK(Snapshot) /\ StackOK(stack) /\ ReplyOK

\* A step of the factory token and a step of either token are such steps.
LEMMA NextIsAny == Next => AnyNext
  BY DEF Next, AnyNext, AnyCall

LEMMA EitherNextIsAny == EitherNext => AnyNext
<1>1. ASSUME Basic, NEW caller, BasicCallFrom(caller) PROVE AnyCall(caller)
  BY <1>1
     DEF BasicCallFrom, AnyCall, CallFrom, BasicUnknown, BasicBurn, BasicRevoke,
         BasicTransfer, BasicIncrease, BasicDecrease, BasicTransferFrom
<1>2. QED
  BY <1>1, NextIsAny
     DEF EitherNext, BasicNext, AnyNext, BasicReturns, BasicAborts

-----------------------------------------------------------------------------
(* Stacks *)

\* A sequence is a sequence of its own elements.
LEMMA SeqOfOwn ==
    ASSUME NEW S, NEW s \in Seq(S)
    PROVE  s \in Seq({s[i] : i \in DOMAIN s})
<1> DEFINE T == {s[i] : i \in DOMAIN s}
<1>1. Len(s) \in Nat /\ DOMAIN s = 1..Len(s) /\ s = [i \in 1..Len(s) |-> s[i]]
  OBVIOUS
<1>2. s \in [1..Len(s) -> T]
  BY <1>1
<1>3. QED
  BY <1>1, <1>2, SeqDef

\* A good frame may be pushed while the bound allows it.
LEMMA PushOK ==
    ASSUME NEW s, StackOK(s), NEW f, FrameOK(f), Len(s) < MaxDepth
    PROVE  StackOK(Append(s, f))
<1> DEFINE S == {s[i] : i \in DOMAIN s}
           t == Append(s, f)
<1>1. s \in Seq(S \cup {f}) /\ Len(s) \in Nat /\ DOMAIN s = 1..Len(s)
  <2>1. s \in Seq(S)
    BY DEF StackOK
  <2>2. Len(s) \in Nat /\ s = [i \in 1..Len(s) |-> s[i]] /\ DOMAIN s = 1..Len(s)
    BY <2>1
  <2>3. s \in [1..Len(s) -> S \cup {f}]
    BY <2>2
  <2>4. QED
    BY <2>2, <2>3, SeqDef
<1>2. /\ t \in Seq(S \cup {f})
      /\ Len(t) = Len(s) + 1
      /\ \A i \in 1..Len(s) : t[i] = s[i]
      /\ t[Len(s) + 1] = f
  <2> HIDE DEF S
  <2> QED
    BY <1>1, AppendProperties
<1> HIDE DEF S, t
<1>3. DOMAIN t = 1..(Len(s) + 1)
  BY <1>2
<1>4. \A i \in DOMAIN t : FrameOK(t[i])
  <2> SUFFICES ASSUME NEW i \in DOMAIN t PROVE FrameOK(t[i])
    OBVIOUS
  <2>1. CASE i = Len(s) + 1
    BY <1>2, <2>1
  <2>2. CASE i \in 1..Len(s)
    BY <1>1, <1>2, <2>2 DEF StackOK
  <2>3. QED
    BY <1>1, <1>3, <2>1, <2>2
<1>5. Len(t) <= MaxDepth
  BY <1>1, <1>2, ActorAssumption
<1>6. t \in Seq({t[i] : i \in DOMAIN t})
  BY <1>2, SeqOfOwn
<1>7. QED
  BY <1>4, <1>5, <1>6 DEF StackOK, t

\* Popping a good stack yields a good frame and a shorter good stack.
LEMMA PopOK ==
    ASSUME NEW s, StackOK(s), s # <<>>
    PROVE  LET t == SubSeq(s, 1, Len(s) - 1)
           IN  FrameOK(s[Len(s)]) /\ StackOK(t) /\ Len(t) < Len(s)
<1> DEFINE S == {s[i] : i \in DOMAIN s}
           t == SubSeq(s, 1, Len(s) - 1)
<1>1. s \in Seq(S)
  BY DEF StackOK
<1>2. Len(s) \in Nat \ {0} /\ DOMAIN s = 1..Len(s)
  BY <1>1
<1>3. \A i \in 1..(Len(s) - 1) : s[i] \in S
  BY <1>2
<1>4. /\ t \in Seq(S)
      /\ Len(t) = Len(s) - 1
      /\ \A i \in 1..(Len(s) - 1) : t[i] = s[i]
  <2> HIDE DEF S
  <2>1. /\ t \in Seq(S)
        /\ Len(t) = IF 1 <= Len(s) - 1 THEN Len(s) - 1 - 1 + 1 ELSE 0
        /\ \A i \in 1..(Len(s) - 1 - 1 + 1) : t[i] = s[1 + i - 1]
    BY <1>2, <1>3, SubSeqProperties
  <2>2. QED
    BY <1>2, <2>1
<1> HIDE DEF S, t
<1>5. DOMAIN t = 1..(Len(s) - 1)
  BY <1>4
<1>6. \A i \in DOMAIN t : FrameOK(t[i])
  BY <1>2, <1>4, <1>5 DEF StackOK
<1>7. Len(t) <= MaxDepth
  BY <1>2, <1>4, ActorAssumption DEF StackOK
<1>8. t \in Seq({t[i] : i \in DOMAIN t})
  BY <1>4, SeqOfOwn
<1>9. FrameOK(s[Len(s)])
  BY <1>2 DEF StackOK
<1>10. QED
  BY <1>2, <1>4, <1>6, <1>7, <1>8, <1>9 DEF StackOK, t

\* The elements of a stack after a push and after a pop.
LEMMA PushElements ==
    ASSUME NEW s, StackOK(s), NEW f
    PROVE  LET t == Append(s, f)
           IN  /\ Len(s) \in Nat
               /\ DOMAIN t = 1..(Len(s) + 1)
               /\ t[Len(s) + 1] = f
               /\ \A i \in 1..Len(s) : t[i] = s[i] /\ i \in DOMAIN s
<1> DEFINE S == {s[i] : i \in DOMAIN s}
<1>1. s \in Seq(S)
  BY DEF StackOK
<1> HIDE DEF S
<1>2. QED
  BY <1>1

LEMMA PopElements ==
    ASSUME NEW s, StackOK(s), s # <<>>
    PROVE  LET t == SubSeq(s, 1, Len(s) - 1)
           IN  /\ Len(s) \in DOMAIN s
               /\ \A i \in DOMAIN t : i \in DOMAIN s /\ t[i] = s[i]
<1> DEFINE S == {s[i] : i \in DOMAIN s}
<1>1. s \in Seq(S)
  BY DEF StackOK
<1> HIDE DEF S
<1>2. Len(s) \in Nat \ {0} /\ DOMAIN s = 1..Len(s)
  BY <1>1
<1>3. QED
  BY <1>1, <1>2

-----------------------------------------------------------------------------
(* How a call ends *)

LEMMA WorldIsOK ==
    ASSUME IInv
    PROVE  WorldOK(world)
  BY DEF IInv, SnapshotOK, Snapshot, RootOK, WorldOK, world

\* Aborting changes nothing but the reply.
LEMMA RefuseIInv ==
    ASSUME IInv, NEW caller \in ActorID, Refuse(caller)
    PROVE  IInv'
<1>1. ReplyOK'
  BY DEF Refuse, ReplyOK
<1>2. Snapshot' = Snapshot /\ stack' = stack
  BY DEF Refuse, Snapshot
<1>3. QED
  BY <1>1, <1>2 DEF IInv, StackOK

\* The root and the accounts a proper outcome leaves are good ones.
LEMMA SetRootOK ==
    ASSUME IInv, NEW r, NEW d, Proper(world, r, d), r.ok, SetRoot(r)
    PROVE  /\ RootOK(root')
           /\ accts' \subseteq ActorID
           /\ root'.token.supply = issued + d
<1>1. root' = [token |-> r.world.token, minter |-> root.minter]
  BY DEF SetRoot, IInv, SnapshotOK, Snapshot, RootOK
<1>2. /\ StateOK(r.world.token)
      /\ SupplyMatches(r.world.token)
      /\ r.world.accts \subseteq ActorID
      /\ r.world.token.supply = root.token.supply + d
  BY DEF Proper, WorldOK, world
<1>3. root.minter \in Option \cup {Anyone} /\ root.token.supply = issued
  BY DEF IInv, SnapshotOK, Snapshot, RootOK
<1>4. accts' = r.world.accts
  BY DEF SetRoot
<1>5. QED
  BY <1>1, <1>2, <1>3, <1>4 DEF RootOK, StateOK

LEMMA SnapshotStep ==
    ASSUME RootOK(root'), accts' \subseteq ActorID,
           root'.token.supply = issued'
    PROVE  SnapshotOK(Snapshot')
<1>1. issued' \in Int
  BY DEF RootOK, StateOK, IsTokenState
<1>2. QED
  BY <1>1 DEF SnapshotOK, Snapshot, RootOK

\* A method without a hook whose outcome is proper keeps the invariant.
LEMMA AnswerIInv ==
    ASSUME IInv, NEW caller \in ActorID, NEW r, NEW burned \in Int,
           Proper(world, r, -burned), Answer(caller, r, burned)
    PROVE  IInv'
<1>1. CASE ~r.ok
  BY <1>1, RefuseIInv DEF Answer
<1>2. CASE r.ok
  <2>1. /\ SetRoot(r)
        /\ issued' = issued - burned
        /\ reply' = [status |-> "ok", caller |-> caller]
        /\ stack' = stack
    BY <1>2 DEF Answer
  <2>2. /\ RootOK(root')
        /\ accts' \subseteq ActorID
        /\ root'.token.supply = issued + (-burned)
    BY <1>2, <2>1, SetRootOK
  <2>3. issued \in Int
    BY DEF IInv, SnapshotOK, Snapshot
  <2>4. SnapshotOK(Snapshot')
    BY <2>1, <2>2, <2>3, SnapshotStep
  <2>5. ReplyOK'
    BY <2>1 DEF ReplyOK
  <2>6. QED
    BY <2>1, <2>4, <2>5 DEF IInv, StackOK
<1>3. QED
  BY <1>1, <1>2 DEF Proper

\* So does a method that goes on to call a hook.
LEMMA AwaitHookIInv ==
    ASSUME IInv, NEW call \in CallRecord, NEW r, NEW minted \in Int,
           Proper(world, r, minted), AwaitHook(call, r, minted)
    PROVE  IInv'
<1>1. call.caller \in ActorID
  BY DEF CallRecord
<1>2. CASE ~r.ok
  BY <1>1, <1>2, RefuseIInv DEF AwaitHook
<1>3. CASE r.ok
  <2> DEFINE frame == [call |-> call, handle |-> root', undo |-> Snapshot]
  <2>1. /\ Len(stack) < MaxDepth
        /\ SetRoot(r)
        /\ issued' = issued + minted
        /\ stack' = Append(stack, frame)
        /\ reply' = [status |-> "pending", caller |-> call.caller]
    BY <1>3 DEF AwaitHook
  <2>2. /\ RootOK(root')
        /\ accts' \subseteq ActorID
        /\ root'.token.supply = issued + minted
    BY <1>3, <2>1, SetRootOK
  <2>3. SnapshotOK(Snapshot')
    BY <2>1, <2>2, SnapshotStep
  <2>4. FrameOK(frame)
    BY <2>2 DEF FrameOK, RootOK, IInv, SnapshotOK
  <2>5. StackOK(stack')
    BY <2>1, <2>4, PushOK DEF IInv
  <2>6. ReplyOK'
    BY <1>1, <2>1 DEF ReplyOK
  <2>7. QED
    BY <2>3, <2>5, <2>6 DEF IInv, StackOK
<1>4. QED
  BY <1>2, <1>3 DEF Proper

-----------------------------------------------------------------------------
(* Every step *)

LEMMA SelfAddress ==
    ASSUME NEW caller \in ActorID
    PROVE  IDAddress(caller) \in Address
  BY DEF IDAddress, Address

LEMMA CallIInv ==
    ASSUME IInv, NEW caller \in accts, AnyCall(caller)
    PROVE  IInv'
<1> DEFINE self == IDAddress(caller)
<1> USE ActorAssumption
<1>1. WorldOK(world) /\ caller \in ActorID /\ self \in Address
  BY WorldIsOK, SelfAddress DEF IInv, SnapshotOK, Snapshot
<1>2. ASSUME DisableMint(caller) PROVE IInv'
  <2>1. CASE root.minter = NoMinter \/ caller # root.minter
    BY <1>1, <1>2, <2>1, RefuseIInv DEF DisableMint
  <2>2. CASE ~(root.minter = NoMinter \/ caller # root.minter)
    <3>1. /\ root' = [root EXCEPT !.minter = NoMinter]
          /\ reply' = [status |-> "ok", caller |-> caller]
          /\ UNCHANGED <<accts, stack, issued>>
      BY <1>2, <2>2 DEF DisableMint
    <3>2. root' = [token |-> root.token, minter |-> NoMinter]
      BY <3>1 DEF IInv, SnapshotOK, Snapshot, RootOK
    <3>3. RootOK(root')
      BY <3>2 DEF IInv, SnapshotOK, Snapshot, RootOK, Option
    <3>4. SnapshotOK(Snapshot')
      BY <3>1, <3>2, <3>3, SnapshotStep DEF IInv, SnapshotOK, Snapshot
    <3>5. ReplyOK'
      BY <1>1, <3>1 DEF ReplyOK
    <3>6. QED
      BY <3>1, <3>4, <3>5 DEF IInv, StackOK
  <2>3. QED
    BY <2>1, <2>2
<1>3. ASSUME BurnOnBehalf(caller) PROVE IInv'
  <2>1. Snapshot' = Snapshot /\ stack' = stack /\ ReplyOK'
    BY <1>1, <1>3 DEF BurnOnBehalf, Snapshot, ReplyOK
  <2>2. QED
    BY <2>1 DEF IInv, StackOK
<1>4. ASSUME NEW amount \in Amounts, BurnOwn(caller, amount) PROVE IInv'
  BY <1>1, <1>4, BurnProper, AnswerIInv DEF BurnOwn
<1>5. ASSUME NEW x \in Operators, Revoke(caller, x) PROVE IInv'
  <2>1. Proper(world, TokenRevokeAllowance(world, self, x), -0)
    BY <1>1, TokenRevokeAllowanceProper
  <2>2. QED
    BY <1>1, <1>5, <2>1, AnswerIInv DEF Revoke
<1>6. ASSUME NEW x \in Addresses, NEW amount \in Amounts, MintTo(caller, x, amount)
      PROVE  IInv'
  <2> DEFINE call == [method |-> "Mint", caller |-> caller, from |-> x, to |-> x]
  <2>1. CASE root.minter = NoMinter \/ caller # root.minter
    BY <1>1, <1>6, <2>1, RefuseIInv DEF MintTo
  <2>2. CASE ~(root.minter = NoMinter \/ caller # root.minter)
    <3>1. AwaitHook(call, Mint(world, self, x, amount), amount)
      BY <1>6, <2>2 DEF MintTo
    <3>2. call \in CallRecord
      BY <1>1 DEF CallRecord
    <3>3. Proper(world, Mint(world, self, x, amount), amount)
      BY <1>1, MintProper
    <3>4. QED
      BY <3>1, <3>2, <3>3, AwaitHookIInv
  <2>3. QED
    BY <2>1, <2>2
<1>7. ASSUME NEW x \in Addresses, NEW amount \in Amounts, TransferTo(caller, x, amount)
      PROVE  IInv'
  <2> DEFINE call == [method |-> "Transfer", caller |-> caller, from |-> self, to |-> x]
  <2>1. AwaitHook(call, Transfer(world, self, x, amount), 0)
    BY <1>7 DEF TransferTo
  <2>2. call \in CallRecord
    BY <1>1 DEF CallRecord
  <2>3. Proper(world, Transfer(world, self, x, amount), 0)
    BY <1>1, TransferProper
  <2>4. QED
    BY <2>1, <2>2, <2>3, AwaitHookIInv
<1>8. ASSUME NEW x \in Operators, NEW amount \in Amounts, Increase(caller, x, amount)
      PROVE  IInv'
  <2>1. Proper(world, IncreaseAllowance(world, self, x, amount), -0)
    BY <1>1, IncreaseAllowanceProper
  <2>2. QED
    BY <1>1, <1>8, <2>1, AnswerIInv DEF Increase
<1>9. ASSUME NEW x \in Operators, NEW amount \in Amounts, Decrease(caller, x, amount)
      PROVE  IInv'
  <2>1. Proper(world, DecreaseAllowance(world, self, x, amount), -0)
    BY <1>1, DecreaseAllowanceProper
  <2>2. QED
    BY <1>1, <1>9, <2>1, AnswerIInv DEF Decrease
<1>10. ASSUME NEW x \in Addresses, NEW y \in Addresses, NEW amount \in Amounts,
              TransferOnBehalf(caller, x, y, amount)
       PROVE  IInv'
  <2> DEFINE call == [method |-> "TransferFrom", caller |-> caller,
                      from |-> x, to |-> y]
  <2>1. AwaitHook(call, TransferFrom(world, self, x, y, amount), 0)
    BY <1>10 DEF TransferOnBehalf
  <2>2. call \in CallRecord
    BY <1>1 DEF CallRecord
  <2>3. Proper(world, TransferFrom(world, self, x, y, amount), 0)
    BY <1>1, TransferFromProper
  <2>4. QED
    BY <2>1, <2>2, <2>3, AwaitHookIInv
<1>11. ASSUME NEW x \in Addresses, NEW amount \in Amounts, BasicMint(caller, x, amount)
       PROVE  IInv'
  <2> DEFINE call == [method |-> "Mint", caller |-> caller, from |-> x, to |-> x]
  <2>1. AwaitHook(call, Mint(world, self, x, amount), amount)
    BY <1>11 DEF BasicMint
  <2>2. call \in CallRecord
    BY <1>1 DEF CallRecord
  <2>3. Proper(world, Mint(world, self, x, amount), amount)
    BY <1>1, MintProper
  <2>4. QED
    BY <2>1, <2>2, <2>3, AwaitHookIInv
<1>12. QED
  BY <1>2, <1>3, <1>4, <1>5, <1>6, <1>7, <1>8, <1>9, <1>10, <1>11
     DEF AnyCall, CallFrom

\* Resuming the method closes its frame and keeps the state its hook left.
LEMMA HookReturnsIInv ==
    ASSUME IInv, HookReturns
    PROVE  IInv'
<1>1. stack # <<>> /\ Snapshot' = Snapshot /\ stack' = Pop
  BY DEF HookReturns, Snapshot
<1>2. FrameOK(Top) /\ StackOK(stack')
  BY <1>1, PopOK DEF Top, Pop, IInv
<1>3. reply'.status = "returned" /\ reply'.caller = Top.call.caller
  BY DEF HookReturns
<1>4. ReplyOK'
  BY <1>2, <1>3 DEF ReplyOK, FrameOK, CallRecord
<1>5. QED
  BY <1>1, <1>2, <1>4 DEF IInv, StackOK

\* Rolling back makes a good snapshot the state.
LEMMA HookAbortsIInv ==
    ASSUME IInv, HookAborts
    PROVE  IInv'
<1>1. /\ stack # <<>>
      /\ root' = Top.undo.root
      /\ accts' = Top.undo.accts
      /\ issued' = Top.undo.issued
      /\ stack' = Pop
      /\ reply' = [status |-> "aborted", caller |-> Top.call.caller]
  BY DEF HookAborts
<1>2. FrameOK(Top) /\ StackOK(stack')
  BY <1>1, PopOK DEF Top, Pop, IInv
<1>3. SnapshotOK(Snapshot')
  BY <1>1, <1>2 DEF FrameOK, SnapshotOK, Snapshot
<1>4. ReplyOK'
  BY <1>1, <1>2 DEF ReplyOK, FrameOK, CallRecord
<1>5. QED
  BY <1>2, <1>3, <1>4 DEF IInv, StackOK

LEMMA InitIInv == Init \/ BasicInit => IInv
<1> SUFFICES ASSUME Init \/ BasicInit PROVE IInv
  OBVIOUS
<1>1. /\ root = [token |-> NewState, minter |-> root.minter]
      /\ root.minter \in {Minter, Anyone}
      /\ accts = Founders /\ issued = 0
  BY DEF Init, BasicInit
<1>2. RootOK(root)
  BY <1>1, NewStateOK, ActorAssumption DEF RootOK, StateOK, Option
<1>3. root.token.supply = 0
  BY <1>1 DEF NewState
<1>4. SnapshotOK(Snapshot)
  BY <1>1, <1>2, <1>3, ActorAssumption DEF SnapshotOK, Snapshot
<1>5. StackOK(stack)
  <2>1. stack = <<>> /\ <<>> \in Seq({<<>>[i] : i \in DOMAIN <<>>})
    BY DEF Init, BasicInit
  <2>2. Len(stack) = 0 /\ DOMAIN stack = {}
    BY <2>1
  <2>3. QED
    BY <2>1, <2>2, ActorAssumption DEF StackOK
<1>6. ReplyOK
  BY ActorAssumption DEF Init, BasicInit, ReplyOK
<1>7. QED
  BY <1>4, <1>5, <1>6 DEF IInv

LEMMA NextIInv == IInv /\ [AnyNext]_vars => IInv'
<1> SUFFICES ASSUME IInv, [AnyNext]_vars PROVE IInv'
  OBVIOUS
<1>1. CASE UNCHANGED vars
  <2>1. Snapshot' = Snapshot /\ stack' = stack /\ ReplyOK'
    BY <1>1 DEF vars, Snapshot, IInv, ReplyOK
  <2>2. QED
    BY <2>1 DEF IInv, StackOK
<1>2. CASE AnyNext
  BY <1>2, CallIInv, HookReturnsIInv, HookAbortsIInv DEF AnyNext
<1>3. QED
  BY <1>1, <1>2

\* IInv holds in every state of the factory token, and of either token.
THEOREM Invariance == Spec => []IInv
  BY InitIInv, NextIInv, NextIsAny, PTL DEF Spec

THEOREM EitherInvariance == EitherSpec => []IInv
  BY InitIInv, NextIInv, EitherNextIsAny, PTL DEF EitherSpec

-----------------------------------------------------------------------------
(* The type of the factory token, whose minter is an actor or nobody *)

\* No root, current or to be restored, is that of a basic token.
HasMinter ==
    /\ root.minter \in Option
    /\ \A i \in DOMAIN stack :
          stack[i].handle.minter \in Option /\ stack[i].undo.root.minter \in Option

\* Saving a token state leaves the minter.
LEMMA SetRootRoot ==
    ASSUME IInv, NEW r, SetRoot(r)
    PROVE  root'.token = r.world.token /\ root'.minter = root.minter
  BY DEF SetRoot, IInv, SnapshotOK, Snapshot, RootOK

LEMMA AnswerHasMinter ==
    ASSUME IInv, HasMinter, NEW caller, NEW r, NEW burned, Answer(caller, r, burned)
    PROVE  HasMinter'
<1>1. CASE r.ok
  BY <1>1, SetRootRoot DEF Answer, HasMinter
<1>2. CASE ~r.ok
  BY <1>2 DEF Answer, Refuse, HasMinter
<1>3. QED
  BY <1>1, <1>2

LEMMA AwaitHookHasMinter ==
    ASSUME IInv, HasMinter, NEW call, NEW r, NEW minted, AwaitHook(call, r, minted)
    PROVE  HasMinter'
<1>1. CASE r.ok
  <2> DEFINE frame == [call |-> call, handle |-> root', undo |-> Snapshot]
  <2>1. stack' = Append(stack, frame) /\ root'.minter \in Option
    BY <1>1, SetRootRoot DEF AwaitHook, HasMinter
  <2>2. frame.handle.minter \in Option /\ frame.undo.root.minter \in Option
    BY <2>1 DEF Snapshot, HasMinter
  <2> HIDE DEF frame
  <2>3. /\ DOMAIN stack' = 1..(Len(stack) + 1)
        /\ stack'[Len(stack) + 1] = frame
        /\ \A i \in 1..Len(stack) : stack'[i] = stack[i] /\ i \in DOMAIN stack
        /\ Len(stack) \in Nat
    BY <2>1, PushElements DEF IInv
  <2>4. ASSUME NEW i \in DOMAIN stack'
        PROVE  /\ stack'[i].handle.minter \in Option
               /\ stack'[i].undo.root.minter \in Option
    <3>1. CASE i = Len(stack) + 1
      BY <2>2, <2>3, <3>1
    <3>2. CASE i \in 1..Len(stack)
      BY <2>3, <3>2 DEF HasMinter
    <3>3. QED
      BY <2>3, <3>1, <3>2
  <2>5. QED
    BY <2>1, <2>4 DEF HasMinter
<1>2. CASE ~r.ok
  BY <1>2 DEF AwaitHook, Refuse, HasMinter
<1>3. QED
  BY <1>1, <1>2

LEMMA CallHasMinter ==
    ASSUME IInv, HasMinter, NEW caller, CallFrom(caller)
    PROVE  HasMinter'
<1>1. ASSUME Refuse(caller) PROVE HasMinter'
  BY <1>1 DEF Refuse, HasMinter
<1>2. ASSUME DisableMint(caller) PROVE HasMinter'
  <2>1. CASE root' = [root EXCEPT !.minter = NoMinter] /\ stack' = stack
    <3>1. root'.minter = NoMinter
      BY <2>1 DEF IInv, SnapshotOK, Snapshot, RootOK
    <3>2. QED
      BY <2>1, <3>1 DEF HasMinter, Option
  <2>2. QED
    BY <1>1, <1>2, <2>1 DEF DisableMint
<1>3. ASSUME BurnOnBehalf(caller) PROVE HasMinter'
  BY <1>3 DEF BurnOnBehalf, HasMinter
<1>4. ASSUME NEW x, NEW amount, MintTo(caller, x, amount) PROVE HasMinter'
  BY <1>1, <1>4, AwaitHookHasMinter DEF MintTo
<1>5. QED
  BY <1>2, <1>3, <1>4, AnswerHasMinter, AwaitHookHasMinter
     DEF CallFrom, BurnOwn, Revoke, TransferTo, Increase, Decrease, TransferOnBehalf

LEMMA NextHasMinter == IInv /\ HasMinter /\ [Next]_vars => HasMinter'
<1> SUFFICES ASSUME IInv, HasMinter, [Next]_vars PROVE HasMinter'
  OBVIOUS
<1>1. ASSUME stack # <<>>, stack' = Pop
      PROVE  \A i \in DOMAIN stack' : i \in DOMAIN stack /\ stack'[i] = stack[i]
  BY <1>1, PopElements DEF IInv, Pop
<1>2. ASSUME HookReturns PROVE HasMinter'
  BY <1>1, <1>2 DEF HookReturns, HasMinter
<1>3. ASSUME HookAborts PROVE HasMinter'
  <2>1. Len(stack) \in DOMAIN stack
    BY <1>3, PopElements DEF HookAborts, IInv
  <2>2. root' = stack[Len(stack)].undo.root
    BY <1>3 DEF HookAborts, Top
  <2>3. QED
    BY <1>1, <1>3, <2>1, <2>2 DEF HookAborts, HasMinter
<1>4. CASE UNCHANGED vars
  BY <1>4 DEF vars, HasMinter
<1>5. QED
  BY <1>2, <1>3, <1>4, CallHasMinter DEF Next

\* The root, every handle and every snapshot on the stack, and the reply keep
\* their types at any depth of nesting.
THEOREM TypeCorrect == Spec => []TypeOK
<1>1. Init => HasMinter
  BY ActorAssumption DEF Init, HasMinter, Option
<1>2. IInv /\ HasMinter => TypeOK
  BY DEF IInv, HasMinter, SnapshotOK, RootOK, StateOK, StackOK, FrameOK, ReplyOK,
         TypeOK, IsRoot, IsSnapshot, IsFrame, Snapshot
<1>3. QED
  BY <1>1, <1>2, NextHasMinter, Invariance, PTL DEF Spec

-----------------------------------------------------------------------------
(* The supply *)

\* The supply any call will load is the sum of the balances it will load,
\* with methods suspended in hooks and after any rollback.
THEOREM SupplyCorrect == Spec => []SupplyIsSumOfBalances
<1>1. IInv => SupplyIsSumOfBalances
  BY DEF IInv, SnapshotOK, RootOK, Snapshot, SupplyIsSumOfBalances
<1>2. QED
  BY <1>1, Invariance, PTL

\* The same of a token that may be a basic one (basic_token_actor).
THEOREM EitherSupplyCorrect == EitherSpec => []SupplyIsSumOfBalances
<1>1. IInv => SupplyIsSumOfBalances
  BY DEF IInv, SnapshotOK, RootOK, Snapshot, SupplyIsSumOfBalances
<1>2. QED
  BY <1>1, EitherInvariance, PTL

\* The supply is what successful mints added less what successful burns took,
\* those made inside hooks and not rolled back included (FRC46Token::total_supply).
THEOREM SupplyIsIssued == Spec => []SupplyIsNetIssuance
<1>1. IInv => SupplyIsNetIssuance
  BY DEF IInv, SnapshotOK, Snapshot, SupplyIsNetIssuance
<1>2. QED
  BY <1>1, Invariance, PTL

-----------------------------------------------------------------------------
(* The minter *)

\* What MinterAuthority says of a step.
MinterStep ==
    /\ root'.token.supply > root.token.supply
         => RolledBack' \/ reply'.caller = root.minter
    /\ root'.minter # root.minter
         => \/ root'.minter = NoMinter /\ reply'.caller = root.minter
            \/ RolledBack' /\ Len(stack') < Len(stack)

\* A step that leaves the root alone does nothing only the minter may do.
LEMMA SameRootIsAllowed ==
    ASSUME IInv, root' = root
    PROVE  MinterStep
<1>1. root.token.supply \in Int
  BY DEF IInv, SnapshotOK, Snapshot, RootOK, StateOK, IsTokenState
<1>2. QED
  BY <1>1 DEF MinterStep

\* Nor does one that sets a root with no larger supply.
LEMMA NoIssueIsAllowed ==
    ASSUME IInv, NEW r, NEW d \in Int, Proper(world, r, d), r.ok => d <= 0,
           r.ok => SetRoot(r), ~r.ok => root' = root
    PROVE  MinterStep
<1>1. CASE ~r.ok
  BY <1>1, SameRootIsAllowed
<1>2. CASE r.ok
  <2>1. root'.token.supply = issued + d /\ issued \in Int /\ issued = root.token.supply
    BY <1>2, SetRootOK DEF IInv, SnapshotOK, Snapshot
  <2>2. root'.minter = root.minter
    BY <1>2 DEF SetRoot, IInv, SnapshotOK, Snapshot, RootOK
  <2>3. QED
    BY <1>2, <2>1, <2>2 DEF MinterStep
<1>3. QED
  BY <1>1, <1>2 DEF Proper

\* A burn that succeeds is not of a negative amount.
LEMMA BurnOfNat ==
    ASSUME NEW w, NEW owner, NEW amount \in Int, Burn(w, owner, amount).ok
    PROVE  amount >= 0
<1>1. CASE ~ValidAmount(amount)
  BY <1>1 DEF Burn, Failed
<1>2. QED
  BY <1>1 DEF ValidAmount

LEMMA CallIsAllowed ==
    ASSUME IInv, NEW caller \in accts, CallFrom(caller)
    PROVE  MinterStep
<1> DEFINE self == IDAddress(caller)
<1> USE ActorAssumption
<1>1. WorldOK(world) /\ caller \in ActorID /\ self \in Address
  BY WorldIsOK, SelfAddress DEF IInv, SnapshotOK, Snapshot
<1>2. ASSUME NEW r, Proper(world, r, 0), Answer(caller, r, 0) PROVE MinterStep
  BY <1>2, NoIssueIsAllowed DEF Answer, Refuse
<1>3. ASSUME NEW r, NEW call, Proper(world, r, 0), AwaitHook(call, r, 0)
      PROVE  MinterStep
  BY <1>3, NoIssueIsAllowed DEF AwaitHook, Refuse
<1>4. ASSUME DisableMint(caller) PROVE MinterStep
  <2>1. CASE root.minter = NoMinter \/ caller # root.minter
    BY <1>4, <2>1, SameRootIsAllowed DEF DisableMint, Refuse
  <2>2. CASE ~(root.minter = NoMinter \/ caller # root.minter)
    <3>1. /\ root' = [root EXCEPT !.minter = NoMinter]
          /\ reply' = [status |-> "ok", caller |-> caller]
      BY <1>4, <2>2 DEF DisableMint
    <3>2. root' = [token |-> root.token, minter |-> NoMinter]
      BY <3>1 DEF IInv, SnapshotOK, Snapshot, RootOK
    <3>3. root.token.supply \in Int
      BY DEF IInv, SnapshotOK, Snapshot, RootOK, StateOK, IsTokenState
    <3>4. QED
      BY <2>2, <3>1, <3>2, <3>3 DEF MinterStep
  <2>3. QED
    BY <2>1, <2>2
<1>5. ASSUME BurnOnBehalf(caller) PROVE MinterStep
  BY <1>5, SameRootIsAllowed DEF BurnOnBehalf
<1>6. ASSUME NEW amount \in Amounts, BurnOwn(caller, amount) PROVE MinterStep
  <2> DEFINE r == Burn(world, self, amount)
  <2>1. Proper(world, r, -amount) /\ -amount \in Int
    BY <1>1, BurnProper
  <2>2. r.ok => -amount <= 0
    BY BurnOfNat
  <2>3. (r.ok => SetRoot(r)) /\ (~r.ok => root' = root)
    BY <1>6 DEF BurnOwn, Answer, Refuse
  <2> HIDE DEF r
  <2>4. QED
    BY <2>1, <2>2, <2>3, NoIssueIsAllowed
<1>7. ASSUME NEW x \in Operators, Revoke(caller, x) PROVE MinterStep
  BY <1>1, <1>2, <1>7, TokenRevokeAllowanceProper DEF Revoke
<1>8. ASSUME NEW x \in Addresses, NEW amount \in Amounts, MintTo(caller, x, amount)
      PROVE  MinterStep
  <2> DEFINE r == Mint(world, self, x, amount)
             call == [method |-> "Mint", caller |-> caller, from |-> x, to |-> x]
  <2>1. CASE root.minter = NoMinter \/ caller # root.minter
    BY <1>8, <2>1, SameRootIsAllowed DEF MintTo, Refuse
  <2>2. CASE ~(root.minter = NoMinter \/ caller # root.minter) /\ ~r.ok
    BY <1>8, <2>2, SameRootIsAllowed DEF MintTo, AwaitHook, Refuse
  <2>3. CASE ~(root.minter = NoMinter \/ caller # root.minter) /\ r.ok
    <3>1. reply'.caller = caller /\ SetRoot(r)
      BY <1>8, <2>3 DEF MintTo, AwaitHook
    <3>2. root'.minter = root.minter
      BY <3>1 DEF SetRoot, IInv, SnapshotOK, Snapshot, RootOK
    <3>3. QED
      BY <2>3, <3>1, <3>2 DEF MinterStep
  <2>4. QED
    BY <1>1, <2>1, <2>2, <2>3, MintProper DEF Proper
<1>9. ASSUME NEW x \in Addresses, NEW amount \in Amounts, TransferTo(caller, x, amount)
      PROVE  MinterStep
  BY <1>1, <1>3, <1>9, TransferProper DEF TransferTo
<1>10. ASSUME NEW x \in Operators, NEW amount \in Amounts, Increase(caller, x, amount)
       PROVE  MinterStep
  BY <1>1, <1>2, <1>10, IncreaseAllowanceProper DEF Increase
<1>11. ASSUME NEW x \in Operators, NEW amount \in Amounts, Decrease(caller, x, amount)
       PROVE  MinterStep
  BY <1>1, <1>2, <1>11, DecreaseAllowanceProper DEF Decrease
<1>12. ASSUME NEW x \in Addresses, NEW y \in Addresses, NEW amount \in Amounts,
              TransferOnBehalf(caller, x, y, amount)
       PROVE  MinterStep
  BY <1>1, <1>3, <1>12, TransferFromProper DEF TransferOnBehalf
<1>13. QED
  BY <1>4, <1>5, <1>6, <1>7, <1>8, <1>9, <1>10, <1>11, <1>12 DEF CallFrom

LEMMA NextIsAllowed == IInv /\ [Next]_vars => [MinterStep]_vars
<1> SUFFICES ASSUME IInv, Next PROVE MinterStep
  OBVIOUS
<1>1. ASSUME HookReturns PROVE MinterStep
  BY <1>1, SameRootIsAllowed DEF HookReturns
<1>2. ASSUME HookAborts PROVE MinterStep
  <2>1. RolledBack' /\ stack # <<>> /\ stack' = Pop
    BY <1>2 DEF HookAborts, RolledBack
  <2>2. Len(stack') < Len(stack)
    BY <2>1, PopOK DEF Pop, IInv
  <2>3. QED
    BY <2>1, <2>2 DEF MinterStep
<1>3. QED
  BY <1>1, <1>2, CallIsAllowed DEF Next

\* Whoever runs code in a hook, only the minter's own calls add to the supply,
\* and minting once disabled comes back only with the rollback of the method
\* within which it was disabled ("Permanently disable minting").
THEOREM MinterOnly == Spec => MinterAuthority
<1>1. MinterAuthority <=> [][MinterStep]_vars
  BY PTL DEF MinterAuthority, MinterStep
<1>2. QED
  BY <1>1, Invariance, NextIsAllowed, PTL DEF Spec

-----------------------------------------------------------------------------
(* The owners *)

\* An outcome the caller is entitled to stays so when the actor acts on it.
LEMMA ActedOnIsAuthorised ==
    ASSUME IInv, NEW caller \in ActorID, NEW r, r.ok \in BOOLEAN,
           Authorised(root.token, r.world.token, caller),
           ~r.ok => Refuse(caller),
           r.ok => SetRoot(r) /\ reply'.caller = caller
    PROVE  Authorised(root.token, root'.token, reply'.caller)
<1>1. StateOK(root.token)
  BY DEF IInv, SnapshotOK, Snapshot, RootOK
<1>2. CASE ~r.ok
  BY <1>1, <1>2, UnchangedAuthorised DEF Refuse
<1>3. CASE r.ok
  <2>1. root'.token = r.world.token
    BY <1>3 DEF SetRoot, IInv, SnapshotOK, Snapshot, RootOK
  <2>2. QED
    BY <1>3, <2>1
<1>4. QED
  BY <1>2, <1>3

LEMMA CallIsAuthorised ==
    ASSUME IInv, NEW caller \in accts, AnyCall(caller)
    PROVE  Authorised(root.token, root'.token, reply'.caller)
<1> DEFINE self == IDAddress(caller)
<1> USE ActorAssumption
<1>1. /\ WorldOK(world) /\ world.token = root.token
      /\ caller \in ActorID /\ self \in Address /\ self.actor = caller
  BY WorldIsOK, SelfAddress
     DEF IInv, SnapshotOK, Snapshot, world, IDAddress
<1>2. ASSUME root' = root PROVE Authorised(root.token, root'.token, reply'.caller)
  BY <1>2, UnchangedAuthorised DEF IInv, SnapshotOK, Snapshot, RootOK
<1>3. ASSUME NEW r, NEW burned, NEW d, Proper(world, r, d),
             Authorised(root.token, r.world.token, caller), Answer(caller, r, burned)
      PROVE  Authorised(root.token, root'.token, reply'.caller)
  <2>1. /\ r.ok \in BOOLEAN
        /\ ~r.ok => Refuse(caller)
        /\ r.ok => SetRoot(r) /\ reply'.caller = caller
    BY <1>3 DEF Proper, Answer
  <2>2. QED
    BY <1>1, <1>3, <2>1, ActedOnIsAuthorised
<1>4. ASSUME NEW r, NEW call, NEW minted, NEW d, Proper(world, r, d),
             call.caller = caller,
             Authorised(root.token, r.world.token, caller), AwaitHook(call, r, minted)
      PROVE  Authorised(root.token, root'.token, reply'.caller)
  <2>1. /\ r.ok \in BOOLEAN
        /\ ~r.ok => Refuse(caller)
        /\ r.ok => SetRoot(r) /\ reply'.caller = caller
    BY <1>4 DEF Proper, AwaitHook
  <2>2. QED
    BY <1>1, <1>4, <2>1, ActedOnIsAuthorised
<1>5. ASSUME DisableMint(caller)
      PROVE  Authorised(root.token, root'.token, reply'.caller)
  <2>1. root'.token = root.token
    BY <1>5 DEF DisableMint, Refuse, IInv, SnapshotOK, Snapshot, RootOK
  <2>2. QED
    BY <2>1, UnchangedAuthorised DEF IInv, SnapshotOK, Snapshot, RootOK
<1>6. ASSUME BurnOnBehalf(caller)
      PROVE  Authorised(root.token, root'.token, reply'.caller)
  BY <1>2, <1>6 DEF BurnOnBehalf
<1>7. ASSUME NEW amount \in Amounts, BurnOwn(caller, amount)
      PROVE  Authorised(root.token, root'.token, reply'.caller)
  BY <1>1, <1>3, <1>7, BurnProper, BurnAuthorised DEF BurnOwn
<1>8. ASSUME NEW x \in Operators, Revoke(caller, x)
      PROVE  Authorised(root.token, root'.token, reply'.caller)
  BY <1>1, <1>3, <1>8, TokenRevokeAllowanceProper, TokenRevokeAllowanceAuthorised
     DEF Revoke
<1>9. ASSUME NEW x \in Addresses, NEW amount \in Amounts, MintTo(caller, x, amount)
      PROVE  Authorised(root.token, root'.token, reply'.caller)
  <2> DEFINE call == [method |-> "Mint", caller |-> caller, from |-> x, to |-> x]
  <2>1. CASE root.minter = NoMinter \/ caller # root.minter
    BY <1>2, <1>9, <2>1 DEF MintTo, Refuse
  <2>2. CASE ~(root.minter = NoMinter \/ caller # root.minter)
    <3>1. AwaitHook(call, Mint(world, self, x, amount), amount) /\ call.caller = caller
      BY <1>9, <2>2 DEF MintTo
    <3>2. QED
      BY <1>1, <1>4, <3>1, MintProper, MintAuthorised
  <2>3. QED
    BY <2>1, <2>2
<1>10. ASSUME NEW x \in Addresses, NEW amount \in Amounts, TransferTo(caller, x, amount)
       PROVE  Authorised(root.token, root'.token, reply'.caller)
  <2> DEFINE call == [method |-> "Transfer", caller |-> caller, from |-> self, to |-> x]
  <2>1. AwaitHook(call, Transfer(world, self, x, amount), 0) /\ call.caller = caller
    BY <1>10 DEF TransferTo
  <2>2. QED
    BY <1>1, <1>4, <2>1, TransferProper, TransferAuthorised
<1>11. ASSUME NEW x \in Operators, NEW amount \in Amounts, Increase(caller, x, amount)
       PROVE  Authorised(root.token, root'.token, reply'.caller)
  BY <1>1, <1>3, <1>11, IncreaseAllowanceProper, IncreaseAllowanceAuthorised
     DEF Increase
<1>12. ASSUME NEW x \in Operators, NEW amount \in Amounts, Decrease(caller, x, amount)
       PROVE  Authorised(root.token, root'.token, reply'.caller)
  BY <1>1, <1>3, <1>12, DecreaseAllowanceProper, DecreaseAllowanceAuthorised
     DEF Decrease
<1>13. ASSUME NEW x \in Addresses, NEW y \in Addresses, NEW amount \in Amounts,
              TransferOnBehalf(caller, x, y, amount)
       PROVE  Authorised(root.token, root'.token, reply'.caller)
  <2> DEFINE call == [method |-> "TransferFrom", caller |-> caller,
                      from |-> x, to |-> y]
  <2>1. AwaitHook(call, TransferFrom(world, self, x, y, amount), 0)
        /\ call.caller = caller
    BY <1>13 DEF TransferOnBehalf
  <2>2. QED
    BY <1>1, <1>4, <2>1, TransferFromProper, TransferFromAuthorised
<1>14. ASSUME NEW x \in Addresses, NEW amount \in Amounts,
              BasicMint(caller, x, amount)
       PROVE  Authorised(root.token, root'.token, reply'.caller)
  <2> DEFINE call == [method |-> "Mint", caller |-> caller, from |-> x, to |-> x]
  <2>1. AwaitHook(call, Mint(world, self, x, amount), amount) /\ call.caller = caller
    BY <1>14 DEF BasicMint
  <2>2. QED
    BY <1>1, <1>4, <2>1, MintProper, MintAuthorised
<1>15. QED
  BY <1>5, <1>6, <1>7, <1>8, <1>9, <1>10, <1>11, <1>12, <1>13, <1>14
     DEF AnyCall, CallFrom

\* What DebitIsAuthorised says of a step.
DebitStep ==
    LET operator == reply'.caller
    IN  \A a \in ActorID :
            operator # a /\ ~RolledBack'
            => /\ Spent(a) > 0 => AllowanceUsed(a, operator) = Spent(a)
               /\ \A b \in ActorID : AllowanceUsed(a, b) >= 0

LEMMA AuthorisedStep ==
    ASSUME IInv, Authorised(root.token, root'.token, reply'.caller),
           StateOK(root'.token)
    PROVE  DebitStep
<1>1. \A x, y : /\ GetAllowance(root.token, x, y) \in Nat
               /\ GetAllowance(root'.token, x, y) \in Nat
  BY GetAllowanceNat DEF IInv, SnapshotOK, Snapshot, RootOK, StateOK
<1>2. QED
  BY <1>1 DEF Authorised, DebitsCovered, AllowancesKept, DebitStep, Spent, AllowanceUsed

LEMMA NextIsAuthorised == IInv /\ [AnyNext]_vars => [DebitStep]_vars
<1> SUFFICES ASSUME IInv, AnyNext PROVE DebitStep
  OBVIOUS
<1>1. ASSUME NEW caller \in accts, AnyCall(caller) PROVE DebitStep
  BY <1>1, CallIsAuthorised, CallIInv, AuthorisedStep
     DEF IInv, SnapshotOK, Snapshot, RootOK
<1>2. ASSUME HookReturns PROVE DebitStep
  <2>1. root' = root /\ StateOK(root.token)
    BY <1>2 DEF HookReturns, IInv, SnapshotOK, Snapshot, RootOK
  <2>2. QED
    BY <2>1, UnchangedAuthorised, AuthorisedStep
<1>3. ASSUME HookAborts PROVE DebitStep
  BY <1>3 DEF HookAborts, RolledBack, DebitStep
<1>4. QED
  BY <1>1, <1>2, <1>3 DEF AnyNext

\* However deep the hooks nest and whoever calls from them: outside a rollback
\* tokens leave an account at its owner's call, or against an allowance of the
\* caller that shrinks by as much, and only the owner's call raises an
\* allowance.
THEOREM DebitCorrect == Spec => DebitIsAuthorised
<1>1. DebitIsAuthorised <=> [][DebitStep]_vars
  BY PTL DEF DebitIsAuthorised, DebitStep
<1>2. QED
  BY <1>1, Invariance, NextIsAuthorised, NextIsAny, PTL DEF Spec

\* The same of a token that may be a basic one, whose mint is open to anybody.
THEOREM EitherDebitCorrect == EitherSpec => DebitIsAuthorised
<1>1. DebitIsAuthorised <=> [][DebitStep]_vars
  BY PTL DEF DebitIsAuthorised, DebitStep
<1>2. QED
  BY <1>1, EitherInvariance, NextIsAuthorised, EitherNextIsAny, PTL DEF EitherSpec

-----------------------------------------------------------------------------
(* The return value *)

\* A call that is not a resumption does not return from a hook.
LEMMA CallDoesNotReturn ==
    ASSUME NEW caller, AnyCall(caller)
    PROVE  reply'.status # "returned"
<1>1. ASSUME NEW r, NEW burned, Answer(caller, r, burned)
      PROVE  reply'.status # "returned"
  BY <1>1 DEF Answer, Refuse
<1>2. ASSUME NEW r, NEW call, NEW minted, AwaitHook(call, r, minted)
      PROVE  reply'.status # "returned"
  BY <1>2 DEF AwaitHook, Refuse
<1>3. ASSUME Refuse(caller) PROVE reply'.status # "returned"
  BY <1>3 DEF Refuse
<1>4. ASSUME DisableMint(caller) PROVE reply'.status # "returned"
  BY <1>3, <1>4 DEF DisableMint
<1>5. ASSUME BurnOnBehalf(caller) PROVE reply'.status # "returned"
  BY <1>5 DEF BurnOnBehalf
<1>6. QED
  BY <1>1, <1>2, <1>3, <1>4, <1>5
     DEF AnyCall, BasicMint, CallFrom, BurnOwn, Revoke, MintTo, TransferTo, Increase, Decrease,
         TransferOnBehalf

LEMMA NextRepliesCurrent ==
    ReplyIsCurrent /\ [AnyNext]_vars => ReplyIsCurrent'
<1> SUFFICES ASSUME ReplyIsCurrent, [AnyNext]_vars PROVE ReplyIsCurrent'
  OBVIOUS
<1>1. ASSUME NEW caller \in accts, AnyCall(caller) PROVE ReplyIsCurrent'
  BY <1>1, CallDoesNotReturn DEF ReplyIsCurrent
<1>2. ASSUME HookReturns PROVE ReplyIsCurrent'
  <2>1. Reload(Top.handle) = root
    BY DEF Reload
  <2>2. world' = [token |-> Reload(Top.handle).token, accts |-> accts]
    BY <1>2, <2>1 DEF HookReturns, world
  <2>3. reply'.call = Top.call /\ reply'.value = ReturnValue(Top.call, world')
    BY <1>2, <2>2 DEF HookReturns
  <2>4. QED
    BY <2>3 DEF ReplyIsCurrent
<1>3. ASSUME HookAborts PROVE ReplyIsCurrent'
  BY <1>3 DEF HookAborts, ReplyIsCurrent
<1>4. CASE UNCHANGED vars
  BY <1>4 DEF vars, ReplyIsCurrent, world
<1>5. QED
  BY <1>1, <1>2, <1>3, <1>4 DEF AnyNext

\* What a method returns after its hook is read from the state as the hook,
\* and whatever ran within it, left it.
THEOREM ReplyCorrect == Spec => []ReplyIsCurrent
<1>1. Init => ReplyIsCurrent
  BY DEF Init, ReplyIsCurrent
<1>2. QED
  BY <1>1, NextRepliesCurrent, NextIsAny, PTL DEF Spec

\* Whichever token it is.
THEOREM EitherReplyCorrect == EitherSpec => []ReplyIsCurrent
<1>1. Init \/ BasicInit => ReplyIsCurrent
  BY DEF Init, BasicInit, ReplyIsCurrent
<1>2. QED
  BY <1>1, NextRepliesCurrent, EitherNextIsAny, PTL DEF EitherSpec

-----------------------------------------------------------------------------
(* The ledger *)

\* The ledger a snapshot stands for, and those the stack would return to.
Saved(s) == [balance |-> BalanceOfEach(s.root.token), open |-> s.root.minter # NoMinter]

SavedStack(s) == [i \in DOMAIN s |-> Saved(s[i].undo)]

LEMMA SavedStackIsSeq ==
    ASSUME NEW s, StackOK(s)
    PROVE  /\ Len(s) \in Nat /\ DOMAIN s = 1..Len(s)
           /\ SavedStack(s) \in Seq({Saved(s[i].undo) : i \in DOMAIN s})
           /\ Len(SavedStack(s)) = Len(s)
<1> DEFINE S == {s[i] : i \in DOMAIN s}
           T == {Saved(s[i].undo) : i \in DOMAIN s}
<1>1. s \in Seq(S)
  BY DEF StackOK
<1>2. Len(s) \in Nat /\ DOMAIN s = 1..Len(s)
  BY <1>1
<1>3. SavedStack(s) \in [1..Len(s) -> T] /\ DOMAIN SavedStack(s) = 1..Len(s)
  BY <1>2 DEF SavedStack
<1> HIDE DEF S, T
<1>4. SavedStack(s) \in Seq(T)
  BY <1>2, <1>3, SeqDef
<1>5. Len(SavedStack(s)) = Len(s)
  BY <1>2, <1>3, <1>4
<1>6. QED
  BY <1>2, <1>4, <1>5 DEF T

\* Two sequences of one length with the same elements are the same.
LEMMA SameSeq ==
    ASSUME NEW S, NEW T, NEW s \in Seq(S), NEW t \in Seq(T), Len(s) = Len(t),
           \A i \in 1..Len(s) : s[i] = t[i]
    PROVE  s = t
<1>1. Len(s) \in Nat /\ s = [i \in 1..Len(s) |-> s[i]] /\ t = [i \in 1..Len(t) |-> t[i]]
  OBVIOUS
<1>2. QED
  BY <1>1

LEMMA SavedPush ==
    ASSUME NEW s, StackOK(s), NEW f, FrameOK(f), Len(s) < MaxDepth
    PROVE  SavedStack(Append(s, f)) = Append(SavedStack(s), Saved(f.undo))
<1> DEFINE t == Append(s, f)
           u == Append(SavedStack(s), Saved(f.undo))
           n == Len(s)
           S == {s[i] : i \in DOMAIN s} \cup {f}
           T == {Saved(s[i].undo) : i \in DOMAIN s} \cup {Saved(f.undo)}
<1>1. /\ n \in Nat /\ DOMAIN s = 1..n /\ Len(SavedStack(s)) = n
      /\ \A i \in 1..n : SavedStack(s)[i] = Saved(s[i].undo)
  BY SavedStackIsSeq DEF SavedStack
<1>2. s \in Seq(S) /\ SavedStack(s) \in Seq(T)
  <2> DEFINE S0 == {s[i] : i \in DOMAIN s}
  <2>1. s \in Seq(S0)
    BY DEF StackOK
  <2> HIDE DEF S0
  <2>2. s = [i \in 1..n |-> s[i]]
    BY <2>1
  <2>3. s \in [1..n -> S]
    BY <1>1, <2>2
  <2>4. SavedStack(s) \in [1..n -> T]
    BY <1>1 DEF SavedStack
  <2> HIDE DEF S, T
  <2>5. QED
    BY <1>1, <2>3, <2>4, SeqDef
<1>3. f \in S /\ Saved(f.undo) \in T
  OBVIOUS
<1> HIDE DEF S, T
<1>4. Len(t) = n + 1 /\ t[n + 1] = f /\ \A i \in 1..n : t[i] = s[i]
  BY <1>2, <1>3, AppendProperties
<1>5. /\ u \in Seq(T) /\ Len(u) = n + 1 /\ u[n + 1] = Saved(f.undo)
      /\ \A i \in 1..n : u[i] = Saved(s[i].undo)
  BY <1>1, <1>2, <1>3, AppendProperties
<1>6. StackOK(t)
  BY PushOK
<1> HIDE DEF t, u, n
<1>7. /\ Len(SavedStack(t)) = n + 1
      /\ \A i \in 1..(n + 1) : SavedStack(t)[i] = Saved(t[i].undo)
      /\ SavedStack(t) \in Seq({Saved(t[i].undo) : i \in DOMAIN t})
  BY <1>4, <1>6, SavedStackIsSeq DEF SavedStack
<1>8. \A i \in 1..(n + 1) : SavedStack(t)[i] = u[i]
  <2> SUFFICES ASSUME NEW i \in 1..(n + 1) PROVE SavedStack(t)[i] = u[i]
    OBVIOUS
  <2>1. i = n + 1 \/ i \in 1..n
    BY <1>1
  <2>2. QED
    BY <1>4, <1>5, <1>7, <2>1
<1>9. SavedStack(t) = u
  BY <1>5, <1>7, <1>8, SameSeq
<1>10. QED
  BY <1>9 DEF t, u

LEMMA SavedPop ==
    ASSUME NEW s, StackOK(s), s # <<>>
    PROVE  LET n == Len(SavedStack(s))
           IN  /\ SavedStack(s) # <<>>
               /\ SavedStack(s)[n] = Saved(s[Len(s)].undo)
               /\ SavedStack(SubSeq(s, 1, Len(s) - 1)) = SubSeq(SavedStack(s), 1, n - 1)
<1> DEFINE t == SubSeq(s, 1, Len(s) - 1)
           n == Len(s)
           S == {s[i] : i \in DOMAIN s}
           T == {Saved(s[i].undo) : i \in DOMAIN s}
           u == SubSeq(SavedStack(s), 1, n - 1)
<1>1. /\ n \in Nat /\ DOMAIN s = 1..n /\ Len(SavedStack(s)) = n
      /\ SavedStack(s) \in Seq(T) /\ s \in Seq(S)
      /\ \A i \in 1..n : SavedStack(s)[i] = Saved(s[i].undo)
  BY SavedStackIsSeq DEF SavedStack, StackOK
<1>2. n \in Nat \ {0}
  BY <1>1
<1>3. /\ \A i \in 1..(n - 1) : s[i] \in S
      /\ \A i \in 1..(n - 1) : SavedStack(s)[i] \in T
  <2> SUFFICES ASSUME NEW i \in 1..(n - 1)
               PROVE  s[i] \in S /\ SavedStack(s)[i] \in T
    OBVIOUS
  <2>1. i \in 1..n /\ i \in DOMAIN s
    BY <1>1, <1>2
  <2>2. s[i] \in S
    BY <2>1
  <2>3. Saved(s[i].undo) \in T
    BY <2>1
  <2>4. QED
    BY <1>1, <2>1, <2>2, <2>3
<1> HIDE DEF S, T
<1>4. /\ Len(t) = IF 1 <= n - 1 THEN n - 1 - 1 + 1 ELSE 0
      /\ \A i \in 1..(n - 1 - 1 + 1) : t[i] = s[1 + i - 1]
  BY <1>1, <1>2, <1>3, SubSeqProperties
<1>5. /\ u \in Seq(T)
      /\ Len(u) = IF 1 <= n - 1 THEN n - 1 - 1 + 1 ELSE 0
      /\ \A i \in 1..(n - 1 - 1 + 1) : u[i] = SavedStack(s)[1 + i - 1]
  BY <1>1, <1>2, <1>3, SubSeqProperties
<1>6. StackOK(t)
  BY PopOK
<1> HIDE DEF t, u
<1>7. /\ Len(t) = n - 1 /\ Len(u) = n - 1
      /\ \A i \in 1..(n - 1) : t[i] = s[i] /\ u[i] = SavedStack(s)[i]
  <2>1. Len(t) = n - 1 /\ Len(u) = n - 1
    <3> HIDE DEF n
    <3>1. CASE 1 <= n - 1
      BY <1>2, <1>4, <1>5, <3>1
    <3>2. CASE n = 1
      BY <1>4, <1>5, <3>2
    <3>3. QED
      BY <1>2, <3>1, <3>2
  <2>2. ASSUME NEW i \in 1..(n - 1)
        PROVE  t[i] = s[i] /\ u[i] = SavedStack(s)[i]
    <3>1. i \in 1..(n - 1 - 1 + 1) /\ 1 + i - 1 = i
      BY <1>2
    <3>2. t[i] = s[1 + i - 1] /\ u[i] = SavedStack(s)[1 + i - 1]
      BY <1>4, <1>5, <3>1
    <3>3. QED
      BY <3>1, <3>2
  <2>3. QED
    BY <2>1, <2>2
<1>8. /\ Len(SavedStack(t)) = n - 1
      /\ \A i \in 1..(n - 1) : SavedStack(t)[i] = Saved(t[i].undo)
      /\ SavedStack(t) \in Seq({Saved(t[i].undo) : i \in DOMAIN t})
  BY <1>6, <1>7, SavedStackIsSeq DEF SavedStack
<1>9. \A i \in 1..(n - 1) : SavedStack(t)[i] = u[i]
  <2> SUFFICES ASSUME NEW i \in 1..(n - 1) PROVE SavedStack(t)[i] = u[i]
    OBVIOUS
  <2>1. i \in 1..n
    BY <1>2
  <2>2. SavedStack(t)[i] = Saved(s[i].undo)
    BY <1>7, <1>8
  <2>3. u[i] = Saved(s[i].undo)
    BY <1>1, <1>7, <2>1
  <2>4. QED
    BY <2>2, <2>3
<1>10. SavedStack(t) = u
  BY <1>5, <1>7, <1>8, <1>9, SameSeq
<1>11. SavedStack(s) # <<>> /\ SavedStack(s)[n] = Saved(s[n].undo)
  BY <1>1, <1>2
<1>12. QED
  BY <1>1, <1>10, <1>11 DEF t, u


\* What the library does to the balances, as the ledger sees it.
Moved(balance, n, a, b) ==
    [x \in ActorID |-> balance[x] + (IF x = b THEN n ELSE 0)
                                  - (IF x = a THEN n ELSE 0)]

LEMMA PaidBalances ==
    ASSUME NEW st, NEW new, NEW a \in ActorID, NEW b, Paid(st, new, a, b)
    PROVE  \E n \in 0..BalanceOfEach(st)[a] :
               BalanceOfEach(new) = Moved(BalanceOfEach(st), n, a, b)
<1>1. PICK n \in 0..GetBalance(st, a) :
          \A x \in ActorID :
              GetBalance(new, x) = GetBalance(st, x) + (IF x = b THEN n ELSE 0)
                                                     - (IF x = a THEN n ELSE 0)
  BY DEF Paid
<1>2. BalanceOfEach(st)[a] = GetBalance(st, a)
  BY DEF BalanceOfEach
<1>3. BalanceOfEach(new) = Moved(BalanceOfEach(st), n, a, b)
  BY <1>1 DEF BalanceOfEach, Moved
<1>4. QED
  BY <1>1, <1>2, <1>3

LEMMA CreditedBalances ==
    ASSUME NEW st, NEW new, NEW a \in ActorID, Credited(st, new, a)
    PROVE  /\ BalanceOfEach(new)[a] >= BalanceOfEach(st)[a]
           /\ BalanceOfEach(new) = [BalanceOfEach(st) EXCEPT ![a] = BalanceOfEach(new)[a]]
  BY DEF BalanceOfEach, Credited

LEMMA DebitedBalances ==
    ASSUME NEW st, NEW new, NEW a \in ActorID, Debited(st, new, a)
    PROVE  \E n \in 0..BalanceOfEach(st)[a] :
               BalanceOfEach(new) = [BalanceOfEach(st) EXCEPT ![a] = @ - n]
<1>1. PICK n \in 0..GetBalance(st, a) : GetBalance(new, a) = GetBalance(st, a) - n
  BY DEF Debited
<1>2. BalanceOfEach(st)[a] = GetBalance(st, a)
  BY DEF BalanceOfEach
<1>3. BalanceOfEach(new) = [BalanceOfEach(st) EXCEPT ![a] = @ - n]
  BY <1>1 DEF BalanceOfEach, Debited
<1>4. QED
  BY <1>1, <1>2, <1>3

LEMMA SameBalancesBalances ==
    ASSUME NEW st, NEW new, SameBalances(st, new)
    PROVE  BalanceOfEach(new) = BalanceOfEach(st)
  BY DEF SameBalances, BalanceOfEach

\* A refused call is a stutter of the ledger.
LEMMA RefuseStutters ==
    ASSUME NEW caller, Refuse(caller)
    PROVE  UNCHANGED Promise!vars
  BY DEF Refuse, Promise!vars

\* A method that calls a hook begins a transaction.
LEMMA AwaitHookBegins ==
    ASSUME IInv, NEW call \in CallRecord, NEW r, NEW minted,
           Proper(world, r, minted), AwaitHook(call, r, minted), r.ok
    PROVE  /\ root'.token = r.world.token /\ root'.minter = root.minter
           /\ Promise!Begin
<1> DEFINE frame == [call |-> call, handle |-> root', undo |-> Snapshot]
<1>1. /\ Len(stack) < MaxDepth /\ SetRoot(r)
      /\ stack' = Append(stack, frame)
  BY DEF AwaitHook
<1>2. /\ RootOK(root')
      /\ root'.token = r.world.token /\ root'.minter = root.minter
  BY <1>1, SetRootOK, SetRootRoot
<1>3. FrameOK(frame)
  BY <1>2 DEF FrameOK, RootOK, IInv, SnapshotOK
<1>4. frame.undo.root = root
  BY DEF Snapshot
<1> HIDE DEF frame
<1>5. SavedStack(stack') = Append(SavedStack(stack), Saved(frame.undo))
  BY <1>1, <1>3, SavedPush DEF IInv
<1>6. Saved(frame.undo) = [balance |-> BalanceOfEach(root.token),
                           open    |-> root.minter # NoMinter]
  BY <1>4 DEF Saved
<1>7. QED
  BY <1>2, <1>5, <1>6 DEF Promise!Begin, SavedStack, Saved

\* So each method that moves tokens is the ledger's operation.
LEMMA MintRefines ==
    ASSUME IInv, NEW call \in CallRecord, NEW r, NEW minted,
           Proper(world, r, minted), AwaitHook(call, r, minted),
           NEW a \in ActorID, root.minter # NoMinter,
           r.ok => Credited(root.token, r.world.token, a)
    PROVE  Promise!Next \/ UNCHANGED Promise!vars
<1>1. CASE ~r.ok
  BY <1>1, RefuseStutters DEF AwaitHook
<1>2. CASE r.ok
  <2>1. /\ root'.token = r.world.token /\ root'.minter = root.minter
        /\ Promise!Begin
    BY <1>2, AwaitHookBegins
  <2>2. Credited(root.token, root'.token, a)
    BY <1>2, <2>1
  <2>3. Promise!Issue(a)
    BY <2>1, <2>2, CreditedBalances DEF Promise!Issue
  <2>4. QED
    BY <2>3 DEF Promise!Next
<1>3. QED
  BY <1>1, <1>2

LEMMA TransferRefines ==
    ASSUME IInv, NEW call \in CallRecord, NEW r,
           Proper(world, r, 0), AwaitHook(call, r, 0),
           NEW a \in ActorID, NEW b \in ActorID,
           r.ok => Paid(root.token, r.world.token, a, b)
    PROVE  Promise!Next \/ UNCHANGED Promise!vars
<1>1. CASE ~r.ok
  BY <1>1, RefuseStutters DEF AwaitHook
<1>2. CASE r.ok
  <2>1. /\ root'.token = r.world.token /\ root'.minter = root.minter
        /\ Promise!Begin
    BY <1>2, AwaitHookBegins
  <2>2. Paid(root.token, root'.token, a, b)
    BY <1>2, <2>1
  <2>3. Promise!Pay(a, b)
    BY <2>1, <2>2, PaidBalances DEF Promise!Pay, Moved
  <2>4. QED
    BY <2>3 DEF Promise!Next
<1>3. QED
  BY <1>1, <1>2

LEMMA BurnRefines ==
    ASSUME IInv, NEW caller, NEW r, NEW burned, Answer(caller, r, burned),
           NEW a \in ActorID, r.ok => Debited(root.token, r.world.token, a)
    PROVE  Promise!Next \/ UNCHANGED Promise!vars
<1>1. CASE ~r.ok
  BY <1>1, RefuseStutters DEF Answer
<1>2. CASE r.ok
  <2>1. SetRoot(r) /\ stack' = stack
    BY <1>2 DEF Answer
  <2>2. root'.token = r.world.token /\ root'.minter = root.minter
    BY <2>1, SetRootRoot
  <2>3. Debited(root.token, root'.token, a)
    BY <1>2, <2>2
  <2>4. Promise!Retire(a)
    BY <2>1, <2>2, <2>3, DebitedBalances DEF Promise!Retire
  <2>5. QED
    BY <2>4 DEF Promise!Next
<1>3. QED
  BY <1>1, <1>2

LEMMA AllowanceRefines ==
    ASSUME IInv, NEW caller, NEW r, Answer(caller, r, 0),
           r.ok => SameBalances(root.token, r.world.token)
    PROVE  UNCHANGED Promise!vars
<1>1. CASE ~r.ok
  BY <1>1, RefuseStutters DEF Answer
<1>2. CASE r.ok
  <2>1. SetRoot(r) /\ stack' = stack
    BY <1>2 DEF Answer
  <2>2. root'.token = r.world.token /\ root'.minter = root.minter
    BY <2>1, SetRootRoot
  <2>3. BalanceOfEach(root'.token) = BalanceOfEach(root.token)
    BY <1>2, <2>2, SameBalancesBalances
  <2>4. QED
    BY <2>1, <2>2, <2>3 DEF Promise!vars
<1>3. QED
  BY <1>1, <1>2

LEMMA DisableMintRefines ==
    ASSUME IInv, NEW caller, DisableMint(caller)
    PROVE  Promise!Next \/ UNCHANGED Promise!vars
<1>1. CASE root.minter = NoMinter \/ caller # root.minter
  BY <1>1, RefuseStutters DEF DisableMint
<1>2. CASE ~(root.minter = NoMinter \/ caller # root.minter)
  <2>1. root' = [root EXCEPT !.minter = NoMinter] /\ stack' = stack
    BY <1>2 DEF DisableMint
  <2>2. root'.token = root.token /\ root'.minter = NoMinter
    BY <2>1 DEF IInv, SnapshotOK, Snapshot, RootOK
  <2>3. Promise!StopIssuing
    BY <2>1, <2>2 DEF Promise!StopIssuing
  <2>4. QED
    BY <2>3 DEF Promise!Next
<1>3. QED
  BY <1>1, <1>2

LEMMA CallRefines ==
    ASSUME IInv, NEW caller \in accts, AnyCall(caller)
    PROVE  Promise!Next \/ UNCHANGED Promise!vars
<1> DEFINE self == IDAddress(caller)
           Goal == Promise!Next \/ UNCHANGED Promise!vars
<1> USE ActorAssumption
<1>1. /\ WorldOK(world) /\ world.token = root.token
      /\ caller \in ActorID /\ self \in Address /\ self.actor = caller
      /\ \A x \in Address : x.actor \in ActorID
  BY WorldIsOK, SelfAddress
     DEF IInv, SnapshotOK, Snapshot, world, IDAddress, Address
<1> HIDE DEF self, Goal
<1>2. ASSUME DisableMint(caller) PROVE Goal
  BY <1>2, DisableMintRefines DEF Goal
<1>3. ASSUME BurnOnBehalf(caller) PROVE Goal
  BY <1>3 DEF BurnOnBehalf, Goal, Promise!vars
<1>4. ASSUME NEW amount \in Amounts, BurnOwn(caller, amount) PROVE Goal
  <2>1. Burn(world, self, amount).ok
          => Debited(root.token, Burn(world, self, amount).world.token, caller)
    BY <1>1, BurnDebits
  <2>2. QED
    BY <1>1, <1>4, <2>1, BurnRefines DEF BurnOwn, self, Goal
<1>5. ASSUME NEW x \in Operators, NEW delta \in Int, NEW r, Answer(caller, r, 0),
             \/ r = IncreaseAllowance(world, self, x, delta)
             \/ r = DecreaseAllowance(world, self, x, delta)
             \/ r = TokenRevokeAllowance(world, self, x)
      PROVE  Goal
  <2>1. r.ok => SameBalances(root.token, r.world.token)
    BY <1>1, <1>5, AllowancesKeepBalances
  <2>2. QED
    BY <1>5, <2>1, AllowanceRefines DEF Goal
<1>6. ASSUME NEW x \in Operators, Revoke(caller, x) PROVE Goal
  <2>1. 0 \in Int
    OBVIOUS
  <2>2. QED
    BY <1>5, <1>6, <2>1 DEF Revoke, self
<1>7. ASSUME NEW x \in Operators, NEW amount \in Amounts,
             Increase(caller, x, amount) \/ Decrease(caller, x, amount)
      PROVE  Goal
  BY <1>5, <1>7 DEF Increase, Decrease, self
<1>8. ASSUME NEW x \in Addresses, NEW amount \in Amounts, MintTo(caller, x, amount)
      PROVE  Goal
  <2> DEFINE r == Mint(world, self, x, amount)
             call == [method |-> "Mint", caller |-> caller, from |-> x, to |-> x]
  <2>1. CASE root.minter = NoMinter \/ caller # root.minter
    BY <1>8, <2>1, RefuseStutters DEF MintTo, Goal
  <2>2. CASE ~(root.minter = NoMinter \/ caller # root.minter)
    <3>1. Proper(world, r, amount)
      BY <1>1, MintProper
    <3>2. r.ok => Credited(root.token, r.world.token, x.actor)
      BY <1>1, MintCredits
    <3>3. AwaitHook(call, r, amount)
      BY <1>8, <2>2 DEF MintTo, self
    <3>4. call \in CallRecord
      BY <1>1 DEF CallRecord
    <3> HIDE DEF r, call
    <3>5. QED
      BY <1>1, <2>2, <3>1, <3>2, <3>3, <3>4, MintRefines DEF Goal
  <2>3. QED
    BY <2>1, <2>2
<1>9. ASSUME NEW x \in Addresses, NEW amount \in Amounts, TransferTo(caller, x, amount)
      PROVE  Goal
  <2> DEFINE r == Transfer(world, self, x, amount)
             call == [method |-> "Transfer", caller |-> caller, from |-> self, to |-> x]
  <2>1. Proper(world, r, 0) /\ (r.ok => Paid(root.token, r.world.token, caller, x.actor))
    BY <1>1, TransferProper, TransferPays
  <2>2. AwaitHook(call, r, 0)
    BY <1>9 DEF TransferTo, self
  <2>3. call \in CallRecord
    BY <1>1 DEF CallRecord
  <2> HIDE DEF r, call
  <2>4. QED
    BY <1>1, <2>1, <2>2, <2>3, TransferRefines DEF Goal
<1>10. ASSUME NEW x \in Addresses, NEW y \in Addresses, NEW amount \in Amounts,
              TransferOnBehalf(caller, x, y, amount)
       PROVE  Goal
  <2> DEFINE r == TransferFrom(world, self, x, y, amount)
             call == [method |-> "TransferFrom", caller |-> caller,
                      from |-> x, to |-> y]
  <2>1. /\ Proper(world, r, 0)
        /\ r.ok => Paid(root.token, r.world.token, x.actor, y.actor)
    BY <1>1, TransferFromProper, TransferFromPays
  <2>2. AwaitHook(call, r, 0)
    BY <1>10 DEF TransferOnBehalf, self
  <2>3. call \in CallRecord
    BY <1>1 DEF CallRecord
  <2> HIDE DEF r, call
  <2>4. QED
    BY <1>1, <2>1, <2>2, <2>3, TransferRefines DEF Goal
<1>11. ASSUME NEW x \in Addresses, NEW amount \in Amounts,
              BasicMint(caller, x, amount), Basic
       PROVE  Goal
  <2> DEFINE r == Mint(world, self, x, amount)
             call == [method |-> "Mint", caller |-> caller, from |-> x, to |-> x]
  <2>1. Proper(world, r, amount)
    BY <1>1, MintProper
  <2>2. r.ok => Credited(root.token, r.world.token, x.actor)
    BY <1>1, MintCredits
  <2>3. AwaitHook(call, r, amount)
    BY <1>11 DEF BasicMint, self
  <2>4. call \in CallRecord
    BY <1>1 DEF CallRecord
  <2>5. root.minter # NoMinter
    BY <1>11 DEF Basic, Anyone, NoMinter
  <2> HIDE DEF r, call
  <2>6. QED
    BY <1>1, <2>1, <2>2, <2>3, <2>4, <2>5, MintRefines DEF Goal
<1>12. QED
  BY <1>2, <1>3, <1>4, <1>6, <1>7, <1>8, <1>9, <1>10, <1>11
     DEF AnyCall, CallFrom, Goal

LEMMA HookReturnsRefines ==
    ASSUME IInv, HookReturns
    PROVE  Promise!Commit
<1>1. stack # <<>> /\ root' = root /\ stack' = SubSeq(stack, 1, Len(stack) - 1)
  BY DEF HookReturns, Pop
<1>2. /\ SavedStack(stack) # <<>>
      /\ SavedStack(stack')
           = SubSeq(SavedStack(stack), 1, Len(SavedStack(stack)) - 1)
  BY <1>1, SavedPop DEF IInv
<1>3. QED
  BY <1>1, <1>2 DEF Promise!Commit, Promise!Close, SavedStack, Saved

LEMMA HookAbortsRefines ==
    ASSUME IInv, HookAborts
    PROVE  Promise!RollBack
<1>1. /\ stack # <<>> /\ stack' = SubSeq(stack, 1, Len(stack) - 1)
      /\ root' = stack[Len(stack)].undo.root
  BY DEF HookAborts, Pop, Top
<1>2. /\ SavedStack(stack) # <<>>
      /\ SavedStack(stack)[Len(SavedStack(stack))] = Saved(stack[Len(stack)].undo)
      /\ SavedStack(stack')
           = SubSeq(SavedStack(stack), 1, Len(SavedStack(stack)) - 1)
  BY <1>1, SavedPop DEF IInv
<1>3. Promise!Close
  BY <1>2 DEF Promise!Close, SavedStack, Saved
<1>4. Promise!Innermost = [balance |-> BalanceOfEach(root'.token),
                           open    |-> root'.minter # NoMinter]
  BY <1>1, <1>2 DEF Promise!Innermost, SavedStack, Saved
<1>5. QED
  BY <1>3, <1>4 DEF Promise!RollBack

LEMMA InitRefines == Init \/ BasicInit => Promise!Init
<1> SUFFICES ASSUME Init \/ BasicInit PROVE Promise!Init
  OBVIOUS
<1>1. root.token = NewState /\ root.minter \in {Minter, Anyone} /\ stack = <<>>
  BY DEF Init, BasicInit
<1>2. BalanceOfEach(root.token) = [a \in ActorID |-> 0]
  BY <1>1 DEF BalanceOfEach, GetBalance, NewState, HamtGet, EmptyHamt
<1>3. root.minter # NoMinter
  BY <1>1, ActorAssumption DEF NoMinter, ActorID, Anyone
<1>4. [i \in DOMAIN stack |->
          [balance |-> BalanceOfEach(stack[i].undo.root.token),
           open    |-> stack[i].undo.root.minter # NoMinter]] = <<>>
  BY <1>1
<1>5. QED
  BY <1>2, <1>3, <1>4 DEF Promise!Init

LEMMA NextRefines == IInv /\ [AnyNext]_vars => [Promise!Next]_(Promise!vars)
<1> SUFFICES ASSUME IInv, [AnyNext]_vars
             PROVE  Promise!Next \/ UNCHANGED Promise!vars
  OBVIOUS
<1>1. CASE UNCHANGED vars
  BY <1>1 DEF vars, Promise!vars
<1>2. ASSUME HookReturns PROVE Promise!Next
  BY <1>2, HookReturnsRefines DEF Promise!Next
<1>3. ASSUME HookAborts PROVE Promise!Next
  BY <1>3, HookAbortsRefines DEF Promise!Next
<1>4. QED
  BY <1>1, <1>2, <1>3, CallRefines DEF AnyNext

\* The actor implements the ledger: each method is one of its operations or
\* none, a hook that returns commits, one that aborts rolls back all that was
\* done since its method was called, the end of minting included.
THEOREM Refinement == Spec => ImplementsLedger
  BY InitRefines, NextRefines, NextIsAny, Invariance, PTL
     DEF Spec, ImplementsLedger, Promise!Spec

\* So does the basic token, which never stops issuing.
THEOREM EitherRefinement == EitherSpec => ImplementsLedger
  BY InitRefines, NextRefines, EitherNextIsAny, EitherInvariance, PTL
     DEF EitherSpec, ImplementsLedger, Promise!Spec
=============================================================================
