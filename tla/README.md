# Verification of the Filecoin actors-utils token libraries

TLA+ modules of the FRC-46 fungible token library, the FRC-53 NFT library, the
actors built on them, their receivers and the FRC-42 method numbers,
model-checked with TLC and proved with TLAPS. Paths are relative to the
repository; `token/` is `frc46_token/src/token/`, `frc53/` is `frc53_nft/src/`.

## 1. The system

| component | state | operations | interacts with |
|---|---|---|---|
| `frc46_token` `TokenState` (`token/state.rs`) | supply, balances HAMT, allowances HAMT of HAMTs | get/change/set balance, transfer, change supply, change/set/revoke/use allowance, `check_invariants` | blockstore |
| `frc46_token` `Token` (`token/mod.rs`) | a handle on a `TokenState` | mint, burn, burn_from, transfer, transfer_from, four allowance methods, set_balance, queries | `ActorRuntime`; hands a `ReceiverHook` to its actor |
| `fvm_actor_utils` `ActorRuntime` | none of its own | resolve, resolve or create, compare addresses; send; read and set the root | FVM system calls |
| `fvm_actor_utils` `ReceiverHook` | `called`, payload, result | `call`, panic on drop | the recipient actor, which may call anybody back |
| `frc46_factory_token` actor | root: token state, minter, granularity | constructor, Mint, DisableMint, the FRC-46 methods through `frc46_invoke` | the library, the FVM, recipients |
| `basic_token_actor` | root: token state | the FRC-46 methods, Mint for anybody | as above |
| `frc53_nft` `NFTState` (`frc53/state.rs`) | token AMT, owner HAMT, `next_token`, `total_supply` | mint, burn, transfer, approvals per token and per account, paged listings | blockstore |
| `frc53_nft` `NFT` (`frc53/lib.rs`) | a handle on an `NFTState` | the same with addresses, authority checks and hooks | as the FRC-46 library |
| `basic_nft_actor` | root: NFT state | the FRC-53 methods, Mint for anybody | the NFT library, recipients |
| `frc46_test_actor`, `basic_transfer_actor`, `basic_receiving_actor` | none; operator and token seen first; none | receiver hook; Action; Forward | tokens, each other through tokens |
| `frc53_test_actor` | none | receiver hook, Action | NFTs |
| `frc42_dispatch` (hasher, macros, `match_method`, message) | none | method name to number; number to method | every actor's `invoke`, and callers |
| error types (`error.rs`, `state.rs`, `messaging.rs`, `receiver/mod.rs`, `util.rs`) | none | error to exit code, nested one in another | every caller, by the exit code alone |
| tools, examples, tests, fakes | none | | |

There are no threads. What makes the code hard is that a token method calls its
recipient in the middle (mint, transfer, transfer_from): the recipient may call
the token again, nested to any depth, before the first method goes on with a
handle that is now out of date. An abort anywhere undoes that call and all that
happened inside it and nothing else. Below that, methods with several steps, and
batches of tokens, may fail half way; one account has several addresses, some of
which resolve to nothing yet; maps must never hold entries that mean nothing;
and a listing is read page by page while the collection changes.

What makes each part correct:

* `TokenState`: supply is the sum of balances; nothing negative, zero or empty
  is stored; balances are multiples of the granularity.
* `Token`: a failed call changes nothing; nobody's tokens move without the
  owner or an allowance that pays for it; only owners raise allowances.
* token actors: the same with methods suspended in hooks; nothing that happened
  in a hook is lost when the method resumes, nor survives when it is rolled
  back; methods report the state as their hook left it; only the minter mints.
* `NFTState`, `NFT`, NFT actor: one owner per token, supply and balances count
  tokens, burnt IDs stay burnt, failed batches change nothing, approvals come
  from owners or their operators and go with the token, nothing moves without authority, and the
  same under hooks and rollback.
* listings: each item once and none missing, or the cursor is refused; an end.
* `ReceiverHook`: each recipient told once, none forgotten, no success without
  acceptance.
* receivers: tokens are there when the hook runs; a transfer actor serves one
  operator and forwards all or fails; every message ends.
* method numbers: reserved numbers run nothing, the constructor answers to its
  own name and number only.
* exit codes: a failure is never answered with success; the code depends on what
  went wrong; a recipient's refusal reaches the caller of the token.

`PROJECT.json` lists all components with their status, and the hazards, each at
its line, with the properties that would catch it.

## 2. Modules

| module | models | state and actions |
|---|---|---|
| `Ipld` | HAMTs and AMTs as functions that are absent at most keys | results `Ok`, `Err`, `AndThen`; maps `EmptyHamt`, `HamtGet`, `HamtSet`, `HamtDelete` |
| `ActorRuntime` | address resolution and creation in `util.rs` | operators on the set of actors that exist. `Resolves` is `resolve_id`: an ID address always resolves (`fvm_sdk` answers with the ID), a key address only once its actor exists. `Creatable` are the actors a plain send creates |
| `FRC46State` | `TokenState` | every method is an operator returning `[ok, st]`, where `st` is what the receiver looks like afterwards, also when the method failed part-way; `CheckInvariants` is the set of complaints of `check_invariants` |
| `FRC46Library` | `Token` | every method is an operator from a world `[token, accts]` to `[ok, world]`. `Transaction` is `Token::transaction`; the allowance methods work in place, as in the code |
| `FRC46Token` | `Token` as a machine | `token`, `accts`, and who made the last call; one action per method, any order |
| `TokenActor` | the factory token actor, the hook, the FVM's rollback | `root`, `accts`, `stack` of methods suspended in a hook, `reply`, and the ghost `issued`. A method with a hook flushes, sets the root and pushes a frame (`AwaitHook`); while the stack is not empty any existing account may call any method, which is all a recipient can make happen; `HookReturns` reloads if the root differs and answers; `HookAborts` restores what the frame saved |
| `BasicTokenActor` | the basic token actor | `TokenActor`'s state and methods with an open `BasicMint`. Its root has no minter field; in the model `root.minter = Anyone`, which no action changes. `EitherSpec` starts as one actor or the other, so that one run checks both |
| `Ledger` | nothing in the code: what a token actor promises | balances under nested transactions: pay, issue, retire, stop issuing, commit, roll back |
| `TokenReceivers` | the basic token with test actors, transfer actors, receiving actors and accounts | `calls`, the stack of calls under way, and `answer`, the exit code of the call that ended last; an account sends a message, and the steps of `Execute` run it to its end, the effect of an abort included. The test actors' scripts nest as the operator data of the integration tests does |
| `ReceiverHook` | the hook object, used by any method anybody may write | `hooks` asked for, messages `sent`, `status` of the method; ask, call, call again, let go, end, give up |
| `NFTState` | `NFTState` | as `FRC46State`: operators returning `[ok, st]`; batches are folded over their IDs in order; `CheckInvariants` likewise |
| `NFTLibrary` | `NFT` | as `FRC46Library`: address resolution, authority, transaction |
| `NFTToken` | `NFT` as a machine | `nft`, `accts`, `last` call, ghost `burnt` |
| `NFTActor` | `basic_nft_actor` | as `TokenActor`; `TransferOnBehalf` passes caller and `from` in the order of the code |
| `Collection` | nothing in the code: what an NFT actor promises | owners of numbered tokens under nested transactions: issue, move, retire, commit, roll back |
| `NFTEnumeration` | the five listings and their cursors | `nft`, a `client` with cursor and what it found so far; `NextPage`, and `Write`, any successful call by others |
| `MethodDispatch` | FRC-42 | `hash` from names to digests, the `arms` an actor was built with, the last `call`; build, call by name, call by number |
| `ExitCodes` | the error types and their conversions to exit codes | an error is the sequence of its variants from the outermost to the cause; one operator per `From<&...Error> for ExitCode` |
| `FailurePropagation` | how codes travel through nested calls | `calls` under way (factory token, basic token, recipient), `answer` not yet looked at, the last `failure` with its code, and the ghost `refusal`; call, stop at an error, return, fail after the hook, pass on or swallow |
| `MC*` | | instances for TLC |
| `*Proofs` | | lemmas and theorems, section 5 |

`FRC46Token`, `TokenActor` and `TokenReceivers` extend `FRC46Library`, which
extends `FRC46State` and `ActorRuntime`; `NFTToken`, `NFTActor` and
`NFTEnumeration` extend `NFTLibrary` likewise. `TokenActor` refines `Ledger`,
`NFTActor` refines `Collection`.

How the code's data is abstracted: amounts are integers (the code's are
arbitrary-precision, so there is no overflow to model; the `u64` and `usize` of
the listings do overflow and are modelled modulo `U64` and `USIZE`); an actor is
known by an ID and one key address; error values are one failure in the modules
about state, because the actors answer all of them with an abort, and which code
the abort carries is the subject of `ExitCodes` and `FailurePropagation`; a CID is the state it names; metadata,
operator and token data are left out where no property depends on them.
`TokenReceivers` keeps the operator data, which is the script a test actor
follows; its `operatorAddress` is the transfer actors' `operator_address`.

A frame's `undo` is taken when the method changes the state, not when it is
entered: between the two the method only reads. A third actor that calls the
token successfully from a hook and then aborts itself has its calls undone while
the hook goes on; that leaves the state from before those calls, from which the
model goes on as if they had not been made, so it has no action of its own in
`TokenActor` and `NFTActor`. `TokenReceivers` has that step: there the callers
are modelled too.

Definitions introduced by the comment "Mutant of" are
deliberately wrong versions of the definition that follows them. No
specification uses them: substituted for the definition, each makes the property
named in `PROJECT.json` fail, which shows that the property watches that code.

## 3. Runs

| run | instance | checks |
|---|---|---|
| `library` | 2 actors, ID and key addresses, every initial population, actor 1 creatable, granularity 2, amounts -1 to 2, supply up to 2, allowances up to 3 | `TypeOK`, `SupplyIsSumOfBalances`, `StateIsCanonical`, `FailedCallChangesNothing`, `DebitIsAuthorised`, `AllowanceIsTheOwners` |
| `library_self` | as `library` | `NoAllowanceToSelf` fails: finding 1 |
| `actor_nested` | 2 actors by ID, supply 2, hooks two deep, no allowances | `TypeOK`, `SupplyIsNetIssuance`, `MinterAuthority`, `ImplementsLedger` |
| `actor_approvals` | factory or basic token, 2 actors, one known by its key and created in the run, supply 1, allowances 1 that may go to that actor, hooks two deep | `SupplyIsSumOfBalances`, `ReplyIsCurrent`, `DebitIsAuthorised`, `ImplementsLedger` |
| `actor_dispatch` | factory token, otherwise as `actor_approvals` | `InterfaceIsDispatched` fails: finding 2 |
| `receivers` | an account, a receiving actor, two test actors, a transfer actor; supply 2; scripts nested as deep as in the integration tests | `ReceiversOK`, `HookIsFunded`, `OneOperatorOnly`, `ForwardEmpties`, and the liveness `EveryMessageEnds` |
| `hook_guard` | a method with up to two hooks | `ToldAtMostOnce`, `NobodyForgotten`, `SuccessIsAcceptance` |
| `nft_library` | 2 actors, one created in the run, batches of none, one, two and the same token twice, two tokens ever | `TypeOK`, `BalancesCountTokens`, `BurntStaysBurnt`, `FailedCallChangesNothing`, `ApprovalsAreTheOwners`, `NoEntryLeftEmpty` |
| `nft_actor` | 2 actors, one known by its key and created in the run, two tokens, batches that fail or name a token twice, all approval methods, hooks one deep | `BalancesCountTokens`, `ReplyIsCurrent`, `MoveIsAuthorised`, `ImplementsCollection` |
| `nft_listing` | no tokens, or three tokens of two owners with two operators each, one ID burnt; pages of 1 to 3; up to three changes by others | `ListingIsExact`, and the liveness `EnumerationEnds` |
| `method_numbers` | a constructor, three legal names and one of each illegal kind; digests with reserved, usable and no chunks, colliding or not | `ReservedNumbersRunNothing` |
| `exit_codes` | every error a factory token can stop with, basic tokens, any recipients, up to four calls under way | `RefusalReachesCaller`, `CodeNamesTheCause`, `FailureIsReported` |

Bounds. The `Max` constants are guards on the calls that would exceed them;
refusals are never bounded. Two actors give every pair of roles, including an
operator that names itself and a transfer to oneself; the role they cannot
separate, a recipient that is neither owner nor operator, is covered by the
theorems about `DebitIsAuthorised` and `MoveIsAuthorised`, which hold for any
number of actors. A supply of 2 lets both actors hold tokens, and granularity 2
with amounts of 1 and 2 separates a legal amount from one that is not a
multiple; an allowance of 3, which is none, can be spent by 2. Two tokens let a
batch fail on its second or name one twice. Depth 2 is the smallest at which a
rollback leaves a suspended method behind and at which a hook can use an
allowance with `transfer_from` or mint inside a mint, which open a hook of their
own: `actor_nested` and `actor_approvals` have it. To keep the latter within
minutes, approvals go to one of the two actors (`Operators`), by the other and
by itself. The NFT actor is checked at depth 1, where the hook already finds a
handle suspended and may burn, approve and revoke but not transfer, because with
depth 2 it exceeds what TLC enumerates in minutes; there, too, approvals go to
one actor. The proofs have none of these bounds: those of section 5 are for any
depth.

In `nft_listing`, three tokens with a gap and pages of 1 to 3 give first, middle
and last pages, pages that end on the gap and listings of one page; three
changes are enough to take something away and to bring it back. The limits stay
below `USIZE` and an index plus a limit below `U64`, whose wrap-around is a known
divergence (section 4). In `receivers` there is one token, so what
`basic_transfer_actor` records about the token it first received never differs.
In `exit_codes`, four calls (`MaxCalls`) are token, recipient, token, recipient:
every way for a code to come from one token through a recipient to another. In
`hook_guard`, one hook can be forgotten while the other is called; the
theorems have any number.

Deadlock is checked except where the system really stops: a method that uses
hooks ends (`hook_guard`), a listing ends and its client is gone
(`nft_listing`), and an actor that matches on a name without a number is never
built (`method_numbers`).

Fairness and liveness.

* `EveryMessageEnds`, under `WF_vars(Execute)`: the FVM executes a message
  synchronously, from start to end, and a step of it is always possible. Nothing
  is assumed of the accounts that send messages. What could go wrong is the
  code's: receivers that keep calling each other, or a fallback that repeats
  itself.
* `EnumerationEnds`, under weak fairness of the client's own `NextPage`: it is
  the client that asks again while it is given a cursor. Page sizes are at least
  1 (a limit of 0 is answered with the same cursor for ever, by design of the
  arithmetic). Nothing is assumed of the others but that they are finitely many:
  a cursor into the token array is refused after any change of it, while a
  listing of account operators ends because the operators, at most `NumActors`,
  run out.
* The actor modules claim no liveness: there the recipient is arbitrary, and it
  is gas, outside the repository, that makes its hook end.

## 4. Findings and known divergences

Findings, each the counterexample of a run:

1. `NoAllowanceToSelf`: the doc of `check_invariants` (`token/state.rs:564-569`)
   counts "no allowances are stored where operator == owner" among the
   invariants all states obey. `increase_allowance` and `set_allowance` store
   one when an owner names itself. It cannot be spent, `transfer_from` and
   `burn_from` refuse operator = owner, but `assert_invariants` then fails.
2. `InterfaceIsDispatched`: `frc46_invoke` says it "invokes the appropriate
   method on the FRC46Token interface" (`token_impl/src/lib.rs:401`), and has no
   arm for BurnFrom (nor for the query Granularity), so `burn_from` of the
   factory token cannot be reached by any message.

Known divergences between the code and its docs. The models follow the code; the
properties are worded so that they do not decide between the two, except where an
item says what a run claims:

* `frc53/state.rs:325`: for an account without an entry `approve_for_owner`
  stores an empty set of operators instead of one with the operator, and returns
  success. The approval is lost, and the entry is one that `check_invariants`
  reports as empty. `mint_tokens` with an empty batch stores such an entry too
  (line 204). `NoEntryLeftEmpty` is about the entries that once said something.
* `frc53/lib.rs:256` and `282`: `approve` and `revoke` accept the token's owner
  only; their docs (lines 242 and 265, `state.rs:251`, `279` and `306`) also allow
  an account-level operator. `ApprovalsAreTheOwners` allows what the docs allow,
  so it holds of the code, which allows less; that such an operator is refused
  is not checked for or against.
* `frc53/lib.rs:400`: `transfer_from` fills the hook's `operator` with the owner;
  `frc53/receiver.rs:40` says it is who initiated the transfer.
* `basic_nft_actor/src/lib.rs:92`: TransferFrom passes caller, from, to for
  owner, operator, recipient (`frc53/lib.rs:363`). It moves the caller's tokens,
  and the address named as `from` must be their operator. `MoveIsAuthorised`
  holds even so: the owner is always the caller.
* `frc53/state.rs:714`: `list_account_operators` never compares its cursor with a
  root, and stamps it with that of the token array, which account operators do
  not move. An operator may be missed if others are revoked between pages;
  `ListingIsExact` demands exactness of this listing only if the operators stay.
* `frc53/state.rs:663` and `669`: `limit as usize` keeps 32 bits on wasm32 and
  `range_start + limit` wraps without a check (`Cargo.toml:49-52`): a page may
  come back empty and last, or with a cursor that starts again.
* `frc42_dispatch/hasher/src/hash.rs:64-66`: the number is said to be the first
  four bytes of the hash unless those are 0 or 1; line 86 skips everything below
  2^24, and `MethodDispatch` does the same. `ReservedNumbersRunNothing` claims the
  bound of the code, as the comment on line 84 does.
* `match_method.rs:14`: two names with one number are not refused; the arm that
  comes first answers for both. The run has such names, and no property claims
  anything of them but that they are not reserved.

## 5. Proofs

Proved by `tlapm` for every number of actors, every set of addresses, amounts,
batches and all bounds:

| module | theorems |
|---|---|
| `FRC46LibraryProofs` | `SumOfUpdate`, the effect of each operation of `TokenState`; `TransferFromProper` and the like for every method of `Token` |
| `FRC46TokenProofs` | `TypeCorrect`, `SupplyCorrect`, `FailureIsAtomic`, `DebitCorrect`, `AllowanceCorrect`, `CanonicalCorrect`; of the receivers `ReceiversTypeCorrect`, `HookFunded`, `OneOperator`, `ForwardCorrect` |
| `TokenActorProofs` | `TypeCorrect`, `SupplyCorrect`, `SupplyIsIssued`, `MinterOnly`, `DebitCorrect`, `ReplyCorrect`, `Refinement`; of runs of either actor `EitherSupplyCorrect`, `EitherDebitCorrect`, `EitherReplyCorrect`, `EitherRefinement` |
| `MessagingProofs` | of the hook `OnceAtMost`, `NoneForgotten`, `SuccessMeansAcceptance`; of method numbers `ReservedCorrect`; of exit codes `TypeCorrect`, `RefusalCorrect`, `CodeCorrect`, `ReportCorrect` |
| `NFTLibraryProofs` | what each operation of `NFTState` and each method of `NFT` keeps and changes |
| `NFTTokenProofs` | `TypeCorrect`, `CountsCorrect`, `BurntCorrect`, `FailureIsAtomic`, `EntriesCorrect`, `ApprovalsCorrect` |
| `NFTActorProofs` | `TypeCorrect`, `CountsCorrect`, `MoveCorrect`, `ReplyCorrect`, `Refinement` |
| `NFTEnumerationProofs` | `TypeCorrect`, `TokenListingCorrect`, `ListingCorrect` |

The argument for the fungible token, bottom up:

1. `FRC46LibraryProofs`, on `TokenState`. The supply is compared with a sum over all accounts,
   defined by a recursive function. That the function exists and is the prefix
   sum is proved from the least-number principle; from it `SumOfUpdate`
   (changing one summand moves the sum by the difference). Each operation of
   `TokenState` keeps `StateOK` (types and no explicit zeros) and moves supply
   and total balance by stated amounts. The zero-free part is carried along
   because what the clean-up of a map leaves is known only of a map that was
   clean.
2. `FRC46LibraryProofs`, on `Token`. Each method has a `Proper` outcome: a good state whose
   supply is the sum of its balances; the old token state if it failed; the
   supply changed by exactly the amount minted or burned if it succeeded. Then,
   account by account, what each method may do to a balance and to an
   allowance, which is what authority is about, and what it does to the balances
   seen as a payment, an issue or a retirement, which is what the ledger promises.
3. `FRC46TokenProofs`. Every step of the machine is a proper outcome, so
   `IInv`, the types with `SupplyMatches` and `NoExplicitZeros`, is inductive.
   `CanonicalCorrect` adds that every balance is a multiple of the granularity,
   which is inductive because only checked amounts reach a balance; the
   arithmetic names each multiple by its quotient.
4. `TokenActorProofs`. A rollback makes an old state current, so the invariant
   of the root is not inductive alone: `IInv` states it of the root, of every
   suspended handle and of every snapshot on the stack, together with
   "supply = issued" for root and snapshots. `MinterOnly` and `DebitCorrect` are
   properties of steps and follow from `IInv` and the outcome of each method;
   `DebitIsAuthorised` is about both balances that fall and allowances that rise.
   `Refinement` maps every frame of the stack to a saved ledger: a transfer is a
   payment and a mint an issue, each opening a transaction; a burn retires, the
   end of minting stops issuing, the allowance methods stutter, and the return
   or the abort of the hook commits or rolls back. The basic token's steps are
   covered by the same case analysis: by `EitherNextIsAny` a step of `EitherSpec`
   is one the factory token could take or a mint without authority, so that the
   `Either` theorems rest on the same invariant. Only `MinterOnly` and
   `SupplyIsIssued` are about the factory token alone.

The receivers (`FRC46TokenProofs`, second half), for any number of actors in any
roles, any operator data closed under what it contains (`ActionsAssumption`),
any payments and calls nested to any depth. The invariant `ReceiversIInv` looks
at the whole stack of calls:

* `StackOK`: a call of the token is followed by the hook it calls, and a call
  that calls the token by that call of the token, which found the caller holding
  what it was told (`Calls`). So an abort, which puts back the state the token
  was called in, gives the caller its tokens back for a fallback: that is
  `HookIsFunded`, which is not inductive, since it speaks only of the call that
  runs.
* `GoodState` of the state and of every saved one: the type, the supply, and
  that what a transfer actor has accepted is of the operator it remembers.
* `Emptied`: in a Forward, from the moment the tokens have left, the forwarding
  actor holds none and stays bound to its caller, in the state and in every
  state saved above it (`Settled`). Tokens can only come back through its own
  hook (`Arrives`), and that hook aborts: it asks for its operator, an account,
  while a transfer out of a hook is by a test actor or by itself.

The proof goes through six kinds of steps (`AnyStep`: a call returns, aborts,
goes on with another action, makes the token call a hook, is refused by the
token, or a message begins) that keep the invariant, and shows each action to be
one of them, with the lemmas about `Token` for what a transfer, a mint and a burn
do to balances.

The NFT library goes the same way. A batch is a recursive function over its
list; that every prefix of it has handled what it should is proved by the least
prefix that has not. The invariant is that each owner's balance is the
cardinality of the set of its tokens and the supply that of all tokens, and that
every ID is below `next_token`; from the last part a burnt ID, which is below it
too, is never minted again. A transfer within a batch is `Tidy`: it leaves no
empty entry and no operators behind, and so do several in a row, which is what
`EntriesCorrect` and `ApprovalsCorrect` need of a batch. `NFTActorProofs` again
states the invariant of root, handles and snapshots. `Refinement` maps every
frame of the stack to a saved collection: a method with a hook is an issue or a
move that opens a transaction, a burn retires, the approval methods stutter, the
hook's return commits and its abort rolls back to what the innermost frame saved.

The listings (`NFTEnumerationProofs`). That the result is exact at the end is
not inductive. `IInv` says of a running listing how much of it the cursor stands
for (`SoFar`: exactly the items below the cursor's index, or the first so many
operators, each found once), that a cursor which is still accepted names the
token array the listing began on (`Anchored`), and, because operators of an
account are listed without a look at the root, that what was always there is
contained in what is listed and that in what was ever there (`Enclosed`). A page
moves the cursor past the items it returned, and a write by others moves
`Anchored` not at all: it leaves the array or makes the cursor stale.
`TokenListingCorrect`, about the three listings of tokens, has no hypothesis.
`ListingCorrect`, about all five, supposes `PagesFit`: page sizes, and the index
of an operator plus a page size, stay within `usize` and `u64`. The hypothesis is
needed and not hidden: without it the property is false of the code (section 4).

Method numbers. `DispatchIInv` is that the arms and the last call are what
building and calling make of the hash: a number found in a digest is at least
`FIRST_METHOD_NUMBER` or there is none, and the arm that ran has the number the
message carries. Nothing is assumed of the hash but that it returns bytes in
chunks, so `ReservedCorrect` holds also when names collide.

Exit codes. `RuntimeErrorCode` has one case per nesting of error types; the
lemmas go through them type by type, up to `RuntimeCoded`: the code is the one
its innermost error has, and never `OK`. `FailureIInv` adds to the types that a
`refusal` is what the answer under way will be compared with, that every call
below the top waits, and that a recorded failure carries the code of its error.

Assumed: `ActorsAssumption`, `GranularityAssumption`, `BoundsAssumption`,
`ActorAssumption`, `HookAssumption`, `EnumerationAssumption`,
`DispatchAssumption`, `CallsAssumption`, `ReceiversAssumption` and
`ActionsAssumption`, which TLC evaluates in the runs of the modules that declare
them. The granularity is at least 1 as `FRC46Token::granularity` demands;
`construct_token` does not check it. `ActionsAssumption` says what a `TestAction`
carries: the actions within an action are actions, the recipient is an ID. The
collections a listing may start from (`Starts`) are well formed, as
`NFTTokenProofs` shows every collection to be, with IDs below the last `u64`.

Only model-checked: the two liveness properties, `EveryMessageEnds` and
`EnumerationEnds`, which are out of the prover's reach. So is what recursive
definitions compute for every input; sums and batches are characterised through
their prefixes instead.

## 6. Not modelled

`frc53_test_actor` follows scripts as `frc46_test_actor` does; `NFTActor` lets a
hook do anything, its scripts included. Blockstore, encodings, return blocks,
the wording of errors and the names and symbols of tokens are pure I/O or data no property
depends on. Gas, and thus the termination of arbitrary recipients, belongs to
the FVM. A panic of the code under a failed blockstore aborts the call like any
error. Tools, examples and the test doubles keep no state. Blake2b is an
arbitrary function, and the parsing of macro tokens happens in the compiler.
Two different non-ID addresses of one actor are one key address.

## 7. Plan

Done: the fungible library, its two actors, receivers and hook; the NFT library,
its actor and listings; method numbers and exit codes; the proofs of section 5.

Left, in order of importance:

1. A run of `TokenReceivers` with two tokens, for the token address
   `basic_transfer_actor` records, and the theorems for it.
2. Metadata of NFTs, on which no operation depends today.
