# TLA+ models of the WART/ETH bridge backend

This directory holds the specification of the Cartesi bridge backend in
`src/src/index.js` and `src/src/wartSpv.js`, and of the native header verifier in
`src/native/janushash`: TLA+ modules, the TLC configurations that check them on
small instances, and proofs checked by TLAPS that hold for every instance. Paths
like `index.js:434` are into `src/src/`, paths like `main.cpp:71` into
`src/native/janushash/`.

## 1. The system

The backend is one Node.js process inside (or beside) a Cartesi machine. `main`
(index.js:3904) asks the rollup server for the next input, runs one handler to
completion, and reports `accept` or `reject` with the next request. There is one
thread of control: a handler's `await`s are for its own notices and vouchers,
and no second input is fetched before it returned. All state is in memory.
`janushash-check` is a separate program, run for each deposit claim: it reads one block header and prints
whether its proof of work meets its target.

| Component | State | Operations | Interacts with |
|---|---|---|---|
| Fungible pool, Path A | `fungiblePool` (locked, claimed, redeemed, tickets, users), pool fields of `userVaults` | `pool_deposit`, `pool_mint_wwart`, `pool_withdraw_wwart`, `pool_burn_wwart` (owner's and holder's), `pool_unlock`, `pool_redeem` | the wWART portal fills its inventory; tickets tell a hot wallet to pay WART; vouchers mint wWART on L1 |
| Deposit crediting | `usedDepositTxs`, `ownerByOriginAccountId`, `ownerByWartAddress` | `wart_deposit_claim`, `pool_deposit` | asks the light client, credits the pool |
| SPV light client | `wartLc` (headers by height, checkpoint, tip, pin) | `wart_checkpoint`, `wart_headers`, the headers and the block of a claim | called by deposit crediting |
| Merkle body proofs | none | leaves, root, transfers of a block body | called by deposit claims |
| wWART portal routing | none of its own | `creditWwartPortal` splits a deposit between Path A and Path B | ERC-20 portal, both paths |
| Personal vaults, Path B | `personalVaults`, `subLocks`, `pendingLocks`, `vaultReleaseState`, `spoofedMint*` fields | `create_vault`, `sub_lock`, `sub_unlock`, `sweep_lock` | collateral for Path B claims |
| Path B claims | claim and inventory fields of `userVaults` | `mint_liquid`, `sync_wwart_claim`, `mint_wwart`, `burn_liquid`, `burn_wwart`, `withdraw_wwart` | the same wWART token as Path A |
| ETH vaults | `ethVault*`, wETH fields of `userVaults` | `create_eth_vault`, `eth_vault_lock`, `eth_vault_unlock`, `mint_weth_claim`, `burn_weth_claim` | tickets tell the vault's cosigner to pay ETH |
| Inventory | `ethSub*`, `dAppAddress`, `eth`, `CTSI`, `usdc` of `userVaults` | `register_eth_sub`, the ETH and ERC-20 portals, `withdraw_*`, the address relay | vouchers |
| Main loop, inspects | the status of the last input, `registeredUsers` | finish loop, `register_address`, reports | runs every handler |
| Native verifier | hashers, the key | Verus hash, SHA-256, the verdict | called for the block of a deposit claim (`verifyHeaderPow`) |

What is hard here is not concurrency between threads. It is

- **long sequences of legal inputs of several owners.** Claims of everyone share
  one collateral; four handlers release it, each after a check of a *different*
  quantity; tokens move on L1 between owners where the backend cannot see them;
- **partial failure inside a handler**: collateral is moved before a step that
  can throw, errors are swallowed, balances are put back by hand;
- **duplicated state**: claims are kept both in `fungiblePool.users` and in
  `userVaults` and debited by different clamping rules;
- **order**: debits go first-in-first-out over a JavaScript `Map` that reads
  extend, and a debit that goes on over `userVaults` enters the owners it meets there into
  the other Map, that of the pool's users;
- **boundaries**: rounding between 8 and 18 decimals, the threshold below which
  portal inventory reads as zero, the ticket log of 200 entries, the header
  window of 512; amounts below zero, which `withdraw_wwart`, `withdraw_ctsi` and
  `withdraw_usdc` parse and do not refuse (index.js:910, 1921);
- **what an input says of the other chain**: a claim brings the structure of a body along with
  its bytes, and only the bytes of its leaves are committed to; addresses, hashes and the pool's
  account are its word, and so is that a sweep took place;
- **rejected inputs**: a Cartesi machine reverts them, a host process does not,
  so what a handler did before it rejected can stay;
- **answers to lost posts**: the loop posts a status again without knowing whether
  the server took it the first time;
- **bytes at block ends**: the hashers of the native verifier swap and fill buffers
  in place, and every turn of the keyed loop reads a key at addresses it computes.

What makes each component correct:

- *Pool*: collateral covers open claims; what is locked is exactly what is
  attributed to depositors; a burn is paid or rejected, never half done; both
  copies of a claim agree; rejected inputs move no balance.
- *Deposit crediting*: what is claimed as a block says it is credited at most once, whatever
  other inputs make up; an account number, and an address, has one owner; a rejected claim
  leaves no trace where rejects are reverted.
- *Light client*: the store is one chain; tip and checkpoint belong to it; a
  block is final only when it is buried in that chain.
- *Path B*: claims never exceed the collateral of the owner's own locks;
  collateral is counted once over lock, sweep and unlock.
- *Both paths*: all wWART together has its WART in the pool or in a vault, but for
  what withdrawals of negative amounts added.
- *ETH vaults*: wETH claims never exceed locked ETH.
- *Inventory*: what the rollup owes is what came in and was not paid out, with the same
  exception for tokens; an address has one owner.
- *Main loop*: each input is answered, by its own result.
- *Native verifier*: no access out of bounds, no byte of a header without influence,
  and the verdict of exact arithmetic.

`PROJECT.json` lists every component with its status, and every hazard at its
line with the properties that would catch it.

## 2. Modules

| Module | Models | Extends / composes |
|---|---|---|
| `WwartAmounts` | The arithmetic: E8 to wWART rounding, clamped subtraction, the portal threshold, the split of an untagged portal deposit | |
| `FifoDebits` | `ensurePoolUser`'s Map order; what a whole FIFO debit may do, stated declaratively | `WwartAmounts` |
| `FifoLoop` | `debitDepositsFifo` and `debitFilledClaimsFifo` one loop turn per step | `FifoDebits` |
| `FungiblePool` | Path A, one action per outcome of each handler | `FifoDebits`; refines `PegLedger` |
| `PegLedger` | The abstract promise: collateral, claims, paid, and three kinds of step | |
| `MCFungiblePool`, `MCFifoLoop` | TLC instances | |
| `SumTheorems` | Facts about `SumFunctionOnSet`, least elements and powers of two | |
| `FungiblePoolProofs` | Type correctness, solvency and the other theorems of the pool | `FungiblePool` |
| `PersonalVaultProofs` | Path B for every input | `PersonalVault` |
| `RollupLoopProofs` | The loop, the ETH vaults and the inventory | `RollupLoop` |
| `SpvLightClientProofs` | The store is one chain that is only extended | `SpvLightClient` |
| `DepositCreditProofs` | Merkle roots, credits, keys, bindings; credited blocks stay | `DepositCredit`, `INSTANCE SpvLightClientProofs` |
| `WwartBridgeProofs` | Both paths keep each other's assumptions; the peg of the bridge | `WwartBridge`, `PersonalVaultProofs`, `INSTANCE FungiblePoolProofs` |
| `LoopProofs` | What the loops compute: the walk over users, and the parts of the native verifier | `FifoLoop` and the five parts of `Janushash` |
| `PersonalVault` | Path B: sweeps, locks, unlocks, and the claims on them | `WwartAmounts` |
| `SpvLightClient` | The header store and finality of `wartSpv.js`, and the inputs that drive it | |
| `MerkleBody` | The two walks over a body as a claim brings it: leaves and root, transfers | |
| `DepositCredit` | The two ways a pool deposit is credited, with owner binding and keys | `MerkleBody`, `INSTANCE SpvLightClient` |
| `WwartBridge` | Both paths with one wWART token | `PersonalVault`, `INSTANCE FungiblePool` |
| `EthVaults` | Cosigner ETH vaults and wETH claims | |
| `Inventory` | ETH, CTSI and USDC balances, ETH sub-wallets, withdrawals | |
| `RollupLoop` | `main`'s loop and an unreliable rollup server | `INSTANCE` of the two above |
| `VerusHasher` | The Verus hash of writes of any length | `Haraka` |
| `Haraka` | Which words the permutations mix into which | |
| `ClHash` | The keyed loop: its addresses and divisions | |
| `Clmul` | The portable carry-less arithmetic | |
| `Sha256` | Padding, byte order and schedule of SHA-256 | |
| `JanusCheck` | The verdict: floats, target, threshold | |
| `Janushash` | The parts of the native verifier side by side | the six above |
| `MCPersonalVault`, `MCSpvLightClient`, `MCDepositCredit`, `MCWwartBridge`, `MCRollupLoop`, `MCJanushash` | TLC instances | |

### How `FungiblePool` corresponds to the code

Variables have the names of the fields (`lockedE8` is `fungiblePool.lockedE8`,
`claim18[o]` is `fungiblePool.users.get(o).claim18`, `poolL1WwartClaim[o]` is the
field of `userVaults.get(o)`). The users Map is the sequence `users` of its keys
in insertion order with one function per field; the fields of an owner that is
not in a Map are zero, as the entry the code would create. Two variables are
outside the code: `l1Wwart`, the ERC-20 balances, and `pathB`, the wWART the
other path holds or can mint.

A handler is one action, since nothing else runs while it does. When it has
several outcomes each is an action: `PoolUnlock` / `PoolUnlockRejected`,
`RedeemOpenClaim` / `RedeemFreeDeposit` / `RedeemRejected`, `HolderBurn` /
`OwnerBurn` / `BurnRejected`. `issuePoolReleaseTicket` is `Release`, which keeps
the code's order: an amount above the collateral changes nothing, and an amount
the known deposits do not cover leaves those debited and restores the rest.
`sendNotice` swallows its errors and so cannot fail a handler; `emitVoucher`
throws, which is the `voucherOk` input of `PoolWithdrawWwart`.

`status` is what the handler returned. Steps that reject are those of a process
that does *not* revert (the Maps keep the entries the handler made); under a
reverting machine they change `status` alone, a special case of every property
below, because the only thing they add is order of Map entries.

`OtherInput` is an input for another part of the rollup, which may accept or reject
and may enter an owner into `userVaults`, the Map that a holder's burn walks.

Left out: rejects of malformed input (missing or non-positive amounts, no owner,
no dApp address), which return before they change anything; notices, logs and
histories, which no handler reads back. Whether the owner has a filled Path B claim,
which the portal split asks, is a nondeterministic input here and the claim itself in
`WwartBridge`.

### How `PersonalVault` corresponds to the code

`userVaults` is keyed by L1 owners and by Warthog vault addresses; so are
`spoofedMinted` and `spoofedBurned`, over `Keys`. `userMintHistories` and
`userBurnHistories` are the sums of the histories, which is all a handler computes
from them. `subLocks` and `personalVaults` hold the fields handlers use;
`pendingLocks` has the sub-wallet *and the spelling* as its key, because `sub_lock`
files the announcement under the address as it was written while everything else
goes by the normal form. `vaultReleaseState` keeps the counters of a vault; its
log of tickets is never read and left out.

Each handler is an action and each of its refusals another; Path B handlers refuse before
they change anything, except `withdraw_wwart`, which rolls back after a failed voucher
(`Rollback`). Vouchers of a rejected input are dropped, so a mint voucher that went
out before a transfer voucher failed mints nothing.

The code verifies no proof of a sweep: `sweep_lock` takes its word for where it came from and
went to and how much it was. What inputs may say is therefore a `setting`, chosen from `Settings` at
the start: `sweeps` are the ones inputs prove, `happened` those of them that took place on Warthog,
`subOwners` and `subVaults` the owners and vaults that inputs name for a sub-wallet, and `replays`
says whether a sweep is proved again. `Honest` inputs prove what took place, and once;
`Undisputed` ones also agree on one owner and one vault for each sub-wallet. These are the
assumptions under which collateral can be counted at all; the code checks none of them, so
each property that needs one says so. `ClaimsCovered` and `BooksAgree` need none.

`withdrawErc20FromVault` has no check that the amount is positive, and `parseTokenAmount` reads a
sign. `WithdrawWwart` therefore takes any integer of `withdrawals18`. Zero and negative amounts emit no
voucher, and a negative one is "debited" from `wwartPortable`, which raises it without a
claim. `raised` is the history of that. So `ClaimsCovered` and `TokensBacked` say
that nothing but these amounts goes beyond claims and collateral, and by exactly how much; without such
withdrawals (`raisable = 0`) they say that nothing does. `raisable` bounds them. All other
handlers of both paths refuse amounts that are not positive.

`PoolShares` is what the pool may take of an untagged portal deposit, whose remainder fills
this path's inventory. An owner is taken to have an entry in `userVaults`, which inputs of other
parts may have made. `withdraw_wwart` rejects where there is none, which only shows for
withdrawals of zero or less; `WwartBridge` has the entry and the guard.

Left out: `mint_wwart` for another token address, which is accepted and does nothing;
asset names; the optional proof of `sub_unlock`, which can only refuse; the notices.

### How `SpvLightClient` corresponds to the code

`lc` is `wartLc`. The functions of `wartSpv.js` change it in place until they throw,
so each is an operator from a client to `[lc, ok]`: `Returns` and `Throws` say how it
ended and with which client. That makes what a window leaves behind when
it fails half-way part of the model: the headers in front of the conflict stay, and the
store is not trimmed. `Ends` applies the result of a handler; with `Reverts` a
rejected input leaves no trace, without it, it does.

A header is its hash, its parent's hash and the height it is *sent with*. The height
is not part of what is hashed, so the same header may come at another height
(`Moved` in the instance). Hashes are compared, never computed: where a header comes
with its bytes, the code computes its hash from them; in a window it may come without, and is then
taken as it is sent (`Bare`). Proof of work, which is asked of a claim's own block alone,
is `Mined`.
Whether a block's difficulty is the right one is not checked by the code, and so not here.

### How `DepositCredit` corresponds to the code

It runs the light client by `INSTANCE` and adds what the handlers do afterwards:
`assertAndBindDepositOwner` (`MayBind`, `BoundIf`), the key (`ClaimKey`,
`DepositKey`), the lookup in `usedDepositTxs` (`Fresh`) and the credit (`Credit`).
The order is the code's: the client changes first, then the account number is bound, then the
address, then the key is looked up, so a duplicate leaves bindings behind where
nothing reverts. `credits` is a history.

A claim brings a body as bytes *and a structure of them*, and `MerkleBody` keeps apart what the two walks
of the code make of it. `collectBodyLeaves` hashes the bytes of nodes with a leaf tag and does not look
below them; `findPoolDeposits` looks at every node tagged `wartTransfer`, also below a leaf. So a
body is its seed and leaves, each with a tag, an offset, the content of its bytes, and what is tagged
`wartTransfer` below it. Only seed and contents go into the root (`merkleRootNew`, level by
level as the code). `HeaderRoot` is what a header commits to, a tree defined independently, as
Warthog's node computes it. A hash is the term of what was hashed, and a level of hashes may itself be brought as
leaves: two hashes are long enough to be read as a transfer.
What a claim can get of a block is `Claimable`: any body of the world whose root is the block's, any account it calls
the pool's (`claimAccounts`), and of equal amounts the first. Worlds have bodies with an
entry missing, repeated, added, moved or changed, or another seed, which do not prove to be the block's; and bodies with a
transfer below a leaf, another tag, another offset, or hashes for leaves, which do.

What else an input says is its sender's word as well. `fromAddress` is any text or none, and is what gets bound;
nothing compares it with the account that sent. The transaction's hash is any text or none, and is
the key when there is one; a claim's is stripped of `0x`, a host's is not. Without one the key is computed, with the
offset that the structure gave. `pool_deposit` believes its host, here as there. What a
credit is worth therefore depends on the input: it is `genuine` when it says what the block says (`AsInBlock`), names the
pool's account, and gives the hash or leaves it out as the setting's genuine inputs do (`byHash`).
Of two equal deposits in a block a claim always gets the first, so a claim meant for the second is one for the first.
A host that gives no hash, or gives it with `0x`, is not genuine, because its key is none or another form.
What becomes of a credit is `FungiblePool`: a credit is its `PoolDeposit`.

An address under 40 digits binds nothing and is `NoAddress`. Not modelled: a text given as a hash that
equals the key computed for another claim (a SHA-256).

### How `WwartBridge` corresponds to the code

`FungiblePool` and `PersonalVault` each know the other path as a supply of wWART from
outside, `pathB` and `pathA`. Here that supply *is* the other module: both run over
the same `l1Wwart` and `status`, an input of one path is a handler of that module, and
what it puts out on L1 or takes from there (`PutOut`) leaves or enters the other's outside.
Two steps touch both: a transfer on L1 and `creditWwartPortal`, which reads the
filled claims of both paths, shares the deposit out and enters the owner into
`userVaults`. Path B's handlers store the owner's entry when they changed it
(`Stored`), which the pool's walk over that Map can see.

`PathsInBridge` says that every such step is a step of `PersonalVault` *and* of
`FungiblePool` as those modules state it. So each module's assumption of its
outside is discharged by the other, and what is checked of a path alone, over more
amounts and owners than the composition can have, holds in it. `GlobalPeg` is what
neither can say alone.

### How `EthVaults`, `Inventory` and `RollupLoop` correspond to the code

`ethVaultByAddress` holds the records; `ethVaultsByOwner` lists the same objects, so a
change of one is a change of both and there is one variable. `ethSubByAddress` and
`ethSubsByOwner` of the sub-wallets are two tables with records of their own, and are
two variables. The amount of a lock is the owner's word, as in the code. `withdraw_eth`
refuses amounts that are not positive; `withdraw_ctsi` and `withdraw_usdc` debit any amount
(`withdrawErc20FromVault`), and a negative one raises the balance: `raised` counts by how much, per token, and
`InventoryBacked` says that nothing else makes the rollup owe more than it holds. Their voucher has a payload
that is not hexadecimal; a server that refuses it makes the handler put the amount back (`PutBack`),
one that takes it transfers nothing (`Transferred`). An address is taken to have an entry in `userVaults`, which inputs of other parts may have made; without one the code rejects.

`eth_vault_unlock` compares with all that the *owner* has locked, not with the vault
it names. A ticket can therefore name a vault with nothing locked, and say more ETH than
it has; the owner's sums still agree with its vaults' sums, which is what
`LockBooksAgree` says and all that the code promises.

`RollupLoop` runs the actions of one of the two as the handler. They share no
state, and the loop treats all handlers alike, so a behaviour has the inputs of one of
them. The server is outside of the code: a post may be taken and its response lost, fail
before it was taken, or be answered by "nothing yet"; and the server may take the answer, move on to an input that the
process does not get to see (`Unseen`) and then fail (`MaybeTaken`). The process repeats after a code other
than 200 and ends on anything else (`FinishLost`, `HandlerThrows`). A process that ends has
lost its state; nothing is persisted, so there is no recovery to model.

### How the native modules correspond to the code

`janushash-check` computes a Verus hash and a triple SHA-256 of the header, multiplies
the first by a power of the second and compares. Its parts run one after the other and
pass on values that the modules leave open; `Janushash` starts each on its own.

A byte is *where it comes from*: a position in the message, a hash, a constant, or
memory that was never written. That is enough to see which bytes a hasher takes and which
words depend on them; S-boxes, field arithmetic and round constants decide
only values. `VerusHasher` keeps the two buffers and the pointers that swap, `Sha256` the
buffer that is reversed in place, padded, and reversed again. `ClHash` keeps which slots of the
key are read, with the real sizes; a selector is any choice of slots, kind, rounds and low bits. The key is made anew for
each hash, so what the loop writes into it ends with the hash. `Clmul` is exact, on narrower words: a word is the set of its one bits.
`JanusCheck` is exact on narrower mantissas; `pow` is the C library's and any
normalised float.

Left out: the loops of older versions (`verusclhash_port`, `verusclhash_sv2_1_port`), SHA-1 and SHA-384/512, the
restoring of a key from its log (`gethashkey`, `fixupkey`, `update_seed`), none of which the program calls; the
serializer, parsing and printing.

## 3. Runs

| Run | Instance | Shows |
|---|---|---|
| `pool` | 2 owners, wWART also from Path B | solvency, attribution, agreement of the copies, the ticket log, rejects, paid burns, refinement of `PegLedger`; and that a shortfall of the pool's claims, tokens or returns is never more than what came from Path B |
| `pool_portal_burn` | 2 owners, nothing from Path B | a burn of portal inventory that is not paid (finding 1) |
| `fifo_loop` | 3 owners, every order and balance | the loops compute the debit the pool's actions use |
| `vaults` | four settings: 2 owners with a vault each and a Path A token; 1 owner, 2 sub-wallets, 3 sweeps to one vault; 2 owners and withdrawals of any amount; a sweep that never took place and a disputed sub-wallet | claims stay covered, every token has its WART in a vault, but for negative withdrawals, the copies of the books agree, WART is counted once, rejects change nothing |
| `vault_replay` | 2 sweeps, proved again | a sweep is counted twice (finding 2) |
| `bridge` | both paths, 2 owners, one sweep | all wWART and WLIQ is backed but for negative withdrawals, each path keeps the other's assumptions |
| `spv_store` | chain of 6, branch of 3, window of 2 | the newest headers are one fixed chain, the checkpoint stays |
| `spv_pin_finality` | the same | finality by a pin nobody recorded (finding 3) |
| `credit` | three settings: claims with computed keys, equal deposits and a branch; claims and attested deposits with hashes and addresses, reverting; inputs that make up what they can, reverting | collateral is real as far as inputs are genuine, an account number or address has one owner, credits stay on the chain, no key is burnt, bindings are earned |
| `credit_twice` | claims with both kinds of key | a transfer is credited twice (finding 4) |
| `rollup` | the loop with the inputs of `EthVaults` or of `Inventory` | wETH is covered, books and sub-wallet tables agree, the inventory is backed, each answer belongs to its input, each input is answered |
| `janushash` | the five parts of the verifier | all bytes of a message count, in order, however it is cut; key and buffer bounds; the arithmetic and the verdict are exact |

**Bounds.** `U = 2` makes an odd claim leave a remainder, so both roundings
occur; in `pool` `MinPortal = 3` leaves amounts below, at and above the threshold, and is not a multiple
of `U`. Amounts 1 to 3 cross each boundary from both sides. `MaxDepositE8 = 2` WART
ever deposited (capacity 4 wWART) lets each owner deposit, mint and hold a part, and lets claims be partly
open and partly filled. `ForeignSupply = 2` is enough to make the global claim and the owners'
claims differ. Two owners suffice for every interaction in the code, which
never relates three owners except through the FIFO order; that order is what
`fifo_loop` checks with three. `TicketLog = 1` overflows at the second ticket.

In `vaults`, `MinPortal = 2` makes a single returned token dust. In its first setting every owner has one E8 and two wWART
of capacity, enough to hold open, filled and returned claims at once; two owners, so that tokens change
hands. The second has amounts 1, 2 and 1, so a lock is extended, unlocked in parts, ended and
begun again, announced or not, to the right vault or not, in both spellings. In the third, withdrawals of -2 to 3 leave
amounts that are portable without a claim, to be minted, traded and burned against claims of others. The fourth has one
sweep of two that took place, and two owners named for the sub-wallet.
`bridge` moves whole E8 (two wWART) only: rounding and dust are checked in each
path's own run, and its question is who may take whose backing, which needs two owners, both
paths and tokens that cross between them.

`MaxHeaders = 2` in the light client makes the third header already
trim, and six blocks let the window move past the checkpoint and the fork.
`maxCredits` bounds the credits at 2 or 3; keys are only compared, so a third
repetition adds nothing to the second. The bodies of `credit` have one to five entries and
claims bring up to six, so levels of odd length occur at and above the leaves.

In `rollup`, two vaults and a lock of up to 3 wei let an owner unlock from one vault what
it locked in the other, in parts; two addresses, each of which may be depositor, sub-wallet
and owner, and two indexes let a binding move, change hands and return (`RegistrationChoices` are the five registrations with
which each happens). `MaxDeposited = 3` bounds what was deposited and raised together; withdrawals are of -1, 0 or 1.

In `janushash` the writes end before, at and behind each block end, including a
header of 80 bytes at once. The keyed loop has 2 of its 32 turns, with the slots at both
ends of the key and all kinds of turn (`LoopProofs` has any number); words
have 8 bits, mantissas 2 bytes of 2 bits. The polynomials' degrees and the windows of four bits are the program's,
so every repair and every table entry of a window is used.

**Symmetry.** No definition names an owner, so `pool`, `pool_portal_burn`, `credit` and
`credit_twice` use owner symmetry; none of them has a liveness property. The owners of
`vaults` and `bridge` differ in their sub-wallets.

**Deadlock** is checked but in three runs: `fifo_loop` and `janushash` model
functions that return, and in `rollup` the process may exit.

**Fairness.** Only `RollupLoop` has any. It assumes `WF_vars(Process)`, as a timer that was set fires
and a handler that was called comes to its end, and `SF_vars(FinishTaken)`: of the posts that go out
again and again, one reaches a server that works again. Weak fairness would not do,
because between two posts the process waits. Nothing obliges the server to
have an input, the answer to a post to arrive, or an owner to send anything.

## 4. Findings

1. *Not any holder's burn is paid.* The comment of `pool_burn_wwart` says any
   owner with portal wWART may burn against the global capacity and the
   auto-unlock pays it (index.js:2577). An owner whose filled claim covers the
   amount takes the other branch, whose ticket is limited to its own deposit:
   without one it burns and gets nothing. `pool_portal_burn` finds the trace.
2. *A sweep is counted as often as it is proved.* "Sweep confirmed — spoofed wWART
   minted 1:1" (index.js:3616); nothing remembers the sweep, and nothing verifies that it took place. `vault_replay`.
3. *A claim can bring its own pin.* Finality is "confirmations vs tip, or height <=
   pinHeight with pinHash match" and "accept if pin recorded" (wartSpv.js:10, 622),
   but the height is taken from the claim first and hashes are compared only if both
   sides have one. `spv_pin_finality`.
4. *The idempotency key is not stable.* It is computed from the body only when the
   claim carries no transaction hash (wartSpv.js:634), so a transfer claimed once with and
   once without it is credited twice. `credit_twice`. Nor is the given hash compared with anything, so two given texts are two keys
   as well, which `credit`'s third setting has.

Three more ways in which an input's word is taken are no contradiction of a comment or test, and are
stated in the properties they limit: withdrawals of negative amounts (`raised` in `ClaimsCovered`, `TokensBacked`,
`InventoryBacked`), what a claim's structure says beyond the leaves (`genuine` in `CollateralIsReal`), and addresses that
nothing ties to the sender (`OneOwnerPerAccount`).

## 5. Proofs

TLAPS proves the theorems below for every value of the constants that satisfies the
modules' named assumptions: finite sets of owners, sub-wallets, vaults and addresses, a unit
`U > 0`, heights above zero, and constants of the right kind. TLC evaluates the
assumptions in the runs. The bounds (`MaxDepositE8`, `TicketLog`, `MaxLockedWei`, `MaxDeposited`,
`MaxHeaders`, and `raisable` and `maxCredits` of settings) are constants of any value, so no theorem limits amounts or the
number or order of inputs.

Three modules assume more than the kind of their constants. In `WwartBridge` the supply from outside that
each path is given is all that the other can ever mint, negative withdrawals included, and no sweep is proved again
(`BridgedAssumption`): with replays Path B mints without limit (finding 2). In `Sha256` a message
has fewer than 2^28 bytes (`WritingsAssumption`), since the count of bits is kept in one word there; headers have 80. In
`JanusCheck` mantissas are normalised and hold at least the bits of a target (`SizesAssumption`,
`FloatsAssumption`), and in `Clmul` a word is at least as wide as the reduction polynomial's two repairs
and is cut in windows of four (`WidthAssumption`).

The theorems of the native parts are about each part's own specification (`KeySpec`, `HasherSpec`,
`ShaSpec`, `VerdictSpec`, `ArithmeticSpec`). `Janushash` starts one part and leaves the variables of
the others alone, so its behaviours are theirs.

| Module | Theorem | States |
|---|---|---|
| `FungiblePoolProofs` | `TypeCorrect` | `TypeOK`: no balance is ever negative, each subtraction is covered by its handler's checks |
| | `Solvency` | `PegSolvent` |
| | `CollateralIsAttributed` | `Attributed`: `CollateralAttributed` and `BalancesAreKnown` |
| | `ClaimCopies` | `ClaimsAgree`: `MirrorsAgree`, `OpenWithinClaim` and `GlobalWithinClaims` |
| | `PegRefinement` | the pool implements `PegLedger` (`KeepsPeg`) |
| | `HolderBurnIsPaid` | `HolderBurnPaid` |
| | `RejectsKeepBalances` | `RejectKeepsBalances` |
| | `ShortfallIsBounded` | `ShortfallIsForeign` |
| | `SupplyIsBacked` | `SupplyBacked` |
| | `ReturnedIsBurnable` | `PortalBurnable` |
| | `LogIsComplete` | `TicketLogIsTail` |
| `PersonalVaultProofs` | `TypeCorrect` | `TypeOK` |
| | `ClaimsAreCovered` | `ClaimsCovered` |
| | `BooksAlwaysAgree` | `BooksAgree` |
| | `RejectsMoveNothing` | `RejectKeepsBalances` |
| | `CollateralIsCounted` | `CollateralCounted` |
| | `TokensAreBacked` | `TokensBacked` |
| | `HonestMints` | if only sweeps that took place are proved, and once (`Honest`), `MintedOneToOne` |
| | `TokensWithinSweeps` | if `Honest`, also where inputs dispute whose a sub-wallet is: there are no more tokens of Path B than WART was swept, the pool put out and negative withdrawals added |
| `RollupLoopProofs` | `TypeCorrect` | `TypeOK` of the loop and of what it runs |
| | `WethIsCovered` | `WethCovered` |
| | `LockBooksAlwaysAgree` | `LockBooksAgree` |
| | `InventoryIsBacked` | `InventoryBacked` |
| | `BoundIsAlwaysListed` | `BoundIsListed` |
| | `AnswersAreTheirOwn` | `AnswersAreOwn` |
| `SpvLightClientProofs` | `StoreIsChain` | without re-bootstrapping, `TipIsChain` |
| | `NoReorganisation` | without re-bootstrapping, `HistoryIsFixed` |
| `DepositCreditProofs` | `TypeCorrect` | `TypeOK` of that module |
| | `OnlyCreditsUseKeys` | `UsedKeysAreCredited` |
| | `CreditIsNotStolen` | `OneOwnerPerAccount`, for all inputs |
| | `NobodyIsBoundForNothing` | `BindingsAreEarned`, for all inputs |
| | `OnlyOwnContentsProve` | a body with the Merkle root that a block's header commits to has the block's seed and the contents of its leaves in their order, unless all of them are made of hashes |
| | `CollateralIsNeverMadeUp` | `CollateralIsReal`, see below |
| | `CreditedBlocksStay` | without re-bootstrapping, `CreditsStayOnChain` |
| `WwartBridgeProofs` | `BridgeInvHolds` | `BridgeInv`, see below |
| | `PathsHold` | `PathsInBridge` |
| | `BridgeImplementsPaths` | the bridge implements the specifications of both paths, whose theorems hold in it |
| | `GlobalPegHolds` | `GlobalPeg` |
| `LoopProofs` | `WalkIsTheDebit` | `WalkIsFifoDebit`: for any number of owners, order and balances the loops' debit is the one the pool's actions use |
| | `BlocksInOrder` | `BlocksFollowMessage`: the blocks that the Verus hash takes are those of the message, however it is cut into writes |
| | `NoByteIsLost` | `EveryByteCounts` |
| | `PaddedMessageIsTaken` | `TakesPaddedMessage`: SHA-256 takes the padded message, however it is cut |
| | `AccessesInBounds` | `StaysInKey`: the keyed loop of the verifier, for every number of turns and every selector |
| | `OrderIsKept` | `HashesKeepOrder`: of two hashes the smaller never has the larger float |
| | `VerdictHolds` | `VerdictIsExact`: for mantissas, hashes and targets of any width |
| | `ArithmeticHolds` | `ArithmeticIsExact`: for words of any width |

**The pool.** The inductive invariant is `PoolInv`, the first four of its theorems at
once. None is inductive alone. That a ticket is never short (`CollateralAttributed`) needs every owner
with a deposit to be in the Map that is walked (`BalancesAreKnown`), and solvency
after `RedeemOpenClaim` or a failed ticket needs it in turn, because that is what
excludes a debit that happened and a release that did not. `OpenWithinClaim`
needs holder burns to debit only filled parts, `MirrorsAgree` needs
`OpenWithinClaim` (otherwise the clamped subtraction of one copy would bite
where the other's does not), and `GlobalWithinClaims` needs both.
One lemma per handler states what it does to collateral and claims
(`...Retires`), to the copies of the claims (`...Claims`) and to the attribution
(`...Attributed`); `InvNext` combines them.

On top of it, `TokenInv` adds that the tokens, wherever they are, stay within the global
claim and what Path B put out. That alone is what bounds the shortfall: a holder's burn debits the
global claim in full and the owners' claims by as much as they have, so what they keep
too much of is always matched by tokens that were not minted for a claim. `TicketInv`
adds that the log is no longer than its bound and never reaches the next nonce.

**Path B.** `VaultInv` is types, books and covered claims, and needs no assumption on inputs. The
books are only inductive with one more equation, that what is given up is counted as
much for owners as for vaults. `CollateralInv` adds what counting collateral needs: locks, announcements
and metadata name an owner that inputs name for the sub-wallet (`AttributedInv`); what
is counted for a key and not given up is what the locks with that key hold (`LocksInv`);
a vault is counted for its sweeps (`SweptInv`); tokens stay within claims, what the
pool put out and what was `raised` (`TokensInv`). The first is what makes `Undisputed` bite: the code
looks a lock's owner up in three places, and only if all say the same is
an unlock charged to whom the sweep was credited. Owners and vaults have different
keys (`VaultsAssumption`), because L1 addresses carry `0x` and Warthog addresses do not.

**The loop and what it runs.** `RollupInv` has three parts. The vaults' says that an owner's
sums are the sums over the vaults it owns *now*, which holds over changes of hands because
a vault nobody owns has nothing in it. The inventory's says that what everyone is owed is what is on
L1, and that what is shown for an owner's sub-wallets is in its balance or was withdrawn. The
loop's ties `status` to what the handler returned from the moment it ends to the post that is taken.

**The light client.** `Sound` (a client that has started is `Chained`, one that has not is
empty) is kept by every operation *whether it returns or throws*, and so is `Extends` of the client
before. That covers inputs that fail half-way and are not reverted, which is where trimming is
skipped. A window is a fold of `ApplyOne`; `LoopKeeps` takes a smallest set of the window's
places after which `Keeps` does not hold. `_trim` keeps what `Chained` speaks of because
fewer than `MaxHeaders` headers of the window are above any of it. The theorems assume
`~AllowRebootstrap`, which is the code's default (`WART_SPV_ALLOW_REBOOTSTRAP`, index.js); with it a
second bootstrap replaces tip and checkpoint at any time, so neither holds.

**Deposit credits.** `CreditInv` ties credits to keys in both directions, and every credit to the
bindings it was given under (`CreditsBound`) and every binding to a credit (`BindingsAreEarned`). A step credits nothing
or one new credit (`StepCases`), for a claim as for an attested deposit, and that is all its theorems need to know of one. They hold for
whatever inputs say: structures, accounts, hashes and addresses are any. `CreditIsNotStolen` says how far the bindings reach and
no further. `pool_deposit` binds only the address it gives, so it may credit to another owner what an account with a bound *number* sent.

`CollateralIsNeverMadeUp` is about genuine inputs and what the others cannot do to them. Its
hypothesis is that a transfer has one key that genuine inputs give it: they give the transaction's hash (`byHash`), or
a block is claimed at one height (`OneHeight`). Without it, the same genuine claim at another height has another key, as the height
of a header is not part of its hash. `CollateralInv` says of each genuine credit that it is a transfer of the block and has that key, and of the
collateral that it is the sum of the distinct genuine transfers and of what else was credited.
That a genuine claim is for a transfer of the block's is `AsInBlockIsTransfer`, from `OnlyOwnContentsProve`: the
place it names has the block's tag and offset because it says so, and the block's content because the root says so.

For `CreditedBlocksStay` the client's theorems are instantiated. The instance `LCP` has each of
its definitions once more; the lemmas `Same...` show that they are those of `LC`, and `ChainInv` that
the block of every credit a claim gave was on the chain when it was given and
has been since.

**Merkle roots.** `merkleRootNew` goes up from the leaves until one hash is left; `HeaderRoot` has a height and places. `OnlyOwnContentsProve`
goes down from equal roots: a level that is a row of the other tree was made of one that is the row below (`SameStep`), because
hashes tell what was hashed and the parents' places tell the children's (`SameBelow`, `RowPlaces`). A level with a leaf that is not made of hashes is never one of hashes, so
both trees end together and the seeds, which only roots have, are the same. A body *all* of whose leaves are made of hashes may be
a level higher up in the block's tree, which is why the theorem asks for one that is not. It assumes (`WorldsAssumption`) that a block has at
least one entry, its reward, and of hashes what the model does: equal ones were made of the same, and an entry's bytes are no
two hashes. Tags, offsets and what a structure puts below a leaf are in no hash, and the theorem says nothing of them.

**Sums.** The totals are `SumFunction` of the community modules, a fold over a
recursive CHOOSE. Its laws (`SumUpdate`, `SumOfSum`, ...) are proved in
`SumTheorems` without an induction theorem that takes an operator: a law that
failed for some finite set would fail for a smallest one (`WFMin` on the strict
subset relation), whose parts obey it. Folds over sequences are treated the same way.

**The bridge.** `BridgeInv` is the invariants of the two paths together with what ties them.
`SharedSupply` says that the wWART on L1, and what each path still sees outside of it, are the two supplies from
outside: each path's outside is the other path, so neither has to be told how much the other may mint.
`SweptOnceInv` bounds what Path B minted by what was swept and raised, and `PoolP!TokenInv` and `ClaimsOnDeposits` what the pool minted by what was deposited;
with these an outside never runs out where a handler of the other path puts tokens out. `HoldersEntered` says that whoever can withdraw
from Path B is in `userVaults`, the Map that the pool's burn walks over.
`StepsInPaths` goes through the steps of the bridge one by one and shows that each is a step of both paths; `PathsHold`,
the refinement and `GlobalPegHolds` follow from it. The pool's theorems come in by the instance `PoolP`, which, as with
the light client, has every definition once more (`SameNext`, `SameSums`).

**The walk.** `WalkIsFifoDebit` compares a finished walk with `FifoDebits`, which says what the debit *is*. `WalkInv` says at each turn
what holds of it: while something is left to debit, the owners in front of
the loop's place have nothing and the others all they had (`PlaceInv`). What the walk over the vaults enters into the pool's users is not in the Map it walks over. What
was taken and what is left make up the amount, and an owner who gave anything has only such in front of it as have nothing left
(`DebitInv`). A debit with these properties is unique, which `FifoDebits` needs, since it is a CHOOSE.

**The hashers.** `HasherInv` says of the swapped buffers which bytes of the message each holds, for any place at which a write
ends: `Taken(k, j)` is byte `j` of block `k`. That every byte counts is that two rounds of Haraka mix
every word of the state with every other, and that a state once mixed stays so (`ChainInv`). `ShaInv` says that what was compressed is the full
blocks of the message and the buffer has the rest. The reversal of words in place is the identity when done twice, and what the final transform sees is
the message with its padding, in one block more or two.

**The key.** `AccessesInBounds` needs only the selector of one turn: the largest slot it
can reach, and a divisor that has bits the code sets.

**The verdict.** `VerdictIsExact` compares what the program does with mantissas and exponents to the comparison of exact numbers.
Floats scale by powers of two, which `Up` and `Down` do step by step (`UpIs`, `DownIs`); the product of two mantissas, cut
off, keeps the exact product's leading part; normalised numbers with different exponents compare as their exponents do, and with the same as
their mantissas (`ExactCompare`). For hashes, prefixes keep the order of the whole, and a hash with more zeros in front is smaller.

**The arithmetic.** Words are sets of bits and addition is symmetric difference, so a carry-less product is a parity of pairs
of bits. The window algorithm adds table entries for four bits at a time and then repairs what left the word; a parity over windows is the
parity over all pairs (`OddGroups`), and the repair adds just the bits that the shift lost. The reduction by the table is linear, and
removes multiples of the polynomial, so it equals the remainder that takes off one power after another. Of the signed lanes, products
differ by multiples of what two lanes hold, which the cut removes after the shift (`CutsOff`).

**Recursion.** A recursive function is defined in TLA+ by a CHOOSE, so its equation holds only once some table is shown to satisfy it. For each, one is
shown to exist for every length (`Iterates` for a step repeated, a counterexample of least length otherwise), and that there is
no other where uniqueness is needed. Inductions are likewise made without the library's theorems: a set of numbers with 0
and with the successor of each member has all of them, as its complement would have a least member.

**Model-checked only.** `InputsAnswered` is liveness under fairness, which the prover does not do.
`FinalByRecordedPin`, `CreditedOnce` and the properties of the other two findings are false.

## 6. Not modelled

- *Bytes of a body*: a leaf's content is what it decodes to, and only tags, offsets, contents and nesting are told apart. Two
  nodes over overlapping bytes, or one that begins within another, are contents of their own.
- *Malformed input*: handlers return before they change anything. A malformed
  amount of a few handlers throws outside their `try`, which ends the process: `HandlerThrows`.
- *Inspects*, but for their side effect on the pool's Map and their place in the loop: formatting.
- *The vault's flag of being unlocked* (index.js:3315): one sub-wallet's full unlock sets it while
  others are locked. Only reports read it, so no property depends on it.
- *The ZK generator*: a command-line computation without state. *The scaffold and the selector table* are not used.
- *`sse2neon.h`*: 9073 vendored lines, included on ARM only. With the unused variants of
  the hashes it is most of the native code; the lines the modules map are the share of it that
  runs and decides something.
- *Targets that are not canonical* (main.cpp:71, a mantissa without its highest bit), and the
  digits of a hexadecimal string that is not one (main.cpp:17, where a value is not
  initialised) are outside of the inputs `JanusCheck` takes.

## 7. Plan

Every safety property of a passing run is a theorem, some under hypotheses that section 5 states. What could follow:

1. A module in which a credit of `DepositCredit` *is* the input of `FungiblePool`'s `PoolDeposit`. The code calls the
   one from the other (index.js, `pool_deposit` and `wart_deposit_claim`), the models say it only in words.
2. The difficulty rule of Warthog, as soon as the light client checks it.
3. Restarts, as soon as anything is persisted.
