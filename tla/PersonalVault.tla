---------------------------- MODULE PersonalVault ----------------------------
(***************************************************************************)
(* Path B of src/src/index.js: personal vaults and the claims on them.     *)
(*                                                                         *)
(* An owner moves WART from one of its Warthog sub-wallets to a vault (a   *)
(* sweep) and proves it to the rollup, which locks the sub-wallet and      *)
(* counts the WART as the owner's capacity.  WLIQ and wWART claims are     *)
(* minted within capacity.  A wWART claim is "portable" until it is        *)
(* withdrawn, which mints tokens on L1, and can be burned when it is still *)
(* portable or its tokens came back through the ERC-20 portal.  Unlocking  *)
(* a sub-wallet gives up capacity and issues a ticket for the vault's WART.*)
(*                                                                         *)
(* One input is one action.  What a setting says of inputs is what the     *)
(* code leaves to them: it does not verify that a sweep took place, whose  *)
(* sub-wallet it was or that it is proved for the first time, and it does  *)
(* not ask that a withdrawal is of a positive amount.                      *)
(***************************************************************************)
EXTENDS WwartAmounts, Integers, FiniteSetsExt, SequencesExt

CONSTANTS
  Owners, NoOwner,  (* L1 owners, and none.                                *)
  Subs,             (* Sub-wallets.                                        *)
  Vaults,           (* Warthog vault addresses.                            *)
  Spellings, Norm,  (* How inputs write a sub-wallet's address.  Norm is   *)
                    (*   the normal form, without 0x in lower case.        *)
  Settings          (* What there is to sweep and what inputs say, fixed   *)
                    (*   from the start:                                   *)
                    (* sweeps     transfers of WART from sub-wallets to    *)
                    (*            vaults that inputs prove, as             *)
                    (*            [from, to, amountE8, txHash];            *)
                    (* happened   those that took place on Warthog;        *)
                    (* senders    owners who send inputs and hold tokens;  *)
                    (* subOwners  owners inputs name for a sub-wallet;     *)
                    (* subVaults  vaults sub_lock names for it;            *)
                    (* spellings  how inputs write its address;            *)
                    (* replays    whether a sweep is proved again;         *)
                    (* amounts18  18-decimal amounts of inputs;            *)
                    (* withdrawals18  amounts withdrawals ask for;         *)
                    (* raisable   bound: what withdrawals of negative      *)
                    (*            amounts add to the portable claims;      *)
                    (* amountsE8  amounts of WART an unlock may ask for;   *)
                    (* poolSupply bound: wWART Path A mints of its own.    *)

ASSUME OwnersAssumption == IsFiniteSet(Owners) /\ NoOwner \notin Owners
ASSUME SubsAssumption == IsFiniteSet(Subs)

(* Owners are keyed by their L1 address, with 0x, and vaults by their      *)
(* Warthog address, without.                                               *)
ASSUME VaultsAssumption == IsFiniteSet(Vaults) /\ Owners \cap Vaults = {}
ASSUME SpellingsAssumption == Norm \in Spellings
ASSUME SettingsAssumption ==
  \A world \in Settings :
    /\ IsFiniteSet(world.sweeps)
    /\ \A s \in world.sweeps :
         /\ DOMAIN s = {"from", "to", "amountE8", "txHash"}
         /\ s.from \in Subs /\ s.to \in Vaults /\ s.amountE8 \in Nat \ {0}
    /\ world.happened \subseteq world.sweeps
    /\ world.senders \subseteq Owners
    /\ world.subOwners \in [Subs -> SUBSET world.senders]
    /\ world.subVaults \in [Subs -> SUBSET Vaults]
    /\ world.spellings \subseteq Spellings
    /\ world.replays \in BOOLEAN
    /\ world.amounts18 \subseteq Nat \ {0}
    /\ world.withdrawals18 \subseteq Int /\ world.raisable \in Nat
    /\ world.amountsE8 \subseteq Nat \ {0}
    /\ world.poolSupply \in Nat

(* What userVaults and the burn histories are keyed by.                    *)
Keys == Owners \cup Vaults

VARIABLES
  setting,            (* The one of Settings this is; never changes.     *)
  status,             (* What the last handler returned to the rollup.     *)
  spoofedMinted,      (* userVaults: WART counted into a key,              *)
  spoofedBurned,      (*   and given up again;                             *)
  liquid,             (*   WLIQ claims of an owner,                        *)
  l1WwartClaim,       (*   wWART claims,                                   *)
  wwartPortable,      (*   those not withdrawn, and                        *)
  wWART,              (*   Path B tokens that came back by the portal.     *)
  raised,             (* History: what withdrawals of negative amounts     *)
                      (*   added to what is portable.                      *)
  userMintHistories,  (* Sums of an owner's mint history,                  *)
  userBurnHistories,  (*   and of a key's burn history.                    *)
  subLocks,           (* Sub-wallet -> its lock.                           *)
  pendingLocks,       (* Sub-wallet and spelling -> announced sweep.       *)
  personalVaults,     (* Owner -> metadata of its vault.                   *)
  vaultReleaseState,  (* Vault -> tickets issued for it.                   *)
  l1Wwart,            (* External: wWART an owner holds on L1.             *)
  pathA,              (* External: wWART Path A holds or may still mint.   *)
  proven              (* History: the sweeps accepted.                     *)

capacityVars == <<spoofedMinted, spoofedBurned, userMintHistories,
                  userBurnHistories>>
claimVars    == <<liquid, l1WwartClaim, wwartPortable, wWART, raised>>
lockVars     == <<subLocks, pendingLocks, personalVaults, vaultReleaseState>>
l1Vars       == <<l1Wwart, pathA>>
vars         == <<setting, status, capacityVars, claimVars, lockVars, l1Vars, proven>>

Hints == {"pool", "personal", "none"}

NoLock     == [locked |-> FALSE]
NoPending  == [owner |-> NoOwner]
NoPersonal == [locked |-> FALSE]

Lock     == [locked : BOOLEAN, owner : Owners, minted : Nat, vault : Vaults]
Pending  == [owner : Owners, vault : Vaults]
Personal == [sub : Subs, vault : Vaults, fundedE8 : Nat, locked : BOOLEAN]

TypeOK ==
  /\ setting \in Settings
  /\ status \in {"accept", "reject"}
  /\ spoofedMinted \in [Keys -> Nat] /\ spoofedBurned \in [Keys -> Nat]
  /\ userMintHistories \in [Owners -> Nat] /\ userBurnHistories \in [Keys -> Nat]
  /\ liquid \in [Owners -> Nat] /\ l1WwartClaim \in [Owners -> Nat]
  /\ wwartPortable \in [Owners -> Nat] /\ wWART \in [Owners -> Nat]
  /\ raised \in [Owners -> Nat]
  /\ subLocks \in [Subs -> Lock \cup {NoLock}]
  /\ pendingLocks \in [Subs \X Spellings -> Pending \cup {NoPending}]
  /\ personalVaults \in [Owners -> Personal \cup {NoPersonal}]
  /\ vaultReleaseState \in [Vaults -> [nextNonce : Nat \ {0},
                                       cumulativeBurnedE8 : Nat]]
  /\ l1Wwart \in [Owners -> Nat] /\ pathA \in Nat
  /\ proven \subseteq setting.sweeps

Init ==
  /\ setting \in Settings
  /\ status = "accept"
  /\ spoofedMinted = [k \in Keys |-> 0] /\ spoofedBurned = [k \in Keys |-> 0]
  /\ userMintHistories = [o \in Owners |-> 0]
  /\ userBurnHistories = [k \in Keys |-> 0]
  /\ liquid = [o \in Owners |-> 0] /\ l1WwartClaim = [o \in Owners |-> 0]
  /\ wwartPortable = [o \in Owners |-> 0] /\ wWART = [o \in Owners |-> 0]
  /\ raised = [o \in Owners |-> 0]
  /\ subLocks = [s \in Subs |-> NoLock]
  /\ pendingLocks = [p \in Subs \X Spellings |-> NoPending]
  /\ personalVaults = [o \in Owners |-> NoPersonal]
  /\ vaultReleaseState =
       [v \in Vaults |-> [nextNonce |-> 1, cumulativeBurnedE8 |-> 0]]
  /\ l1Wwart = [o \in Owners |-> 0] /\ pathA = setting.poolSupply
  /\ proven = {}

-----------------------------------------------------------------------------
(* Capacity and claims.                                                    *)

(* spoofedOutstandingE8: the histories count when they have an entry.      *)
SpoofedOutstandingE8(o) ==
  IF userMintHistories[o] > 0 \/ userBurnHistories[o] > 0
  THEN Monus(userMintHistories[o], userBurnHistories[o])
  ELSE Monus(spoofedMinted[o], spoofedBurned[o])

BackingCapacity18(o) == SpoofedOutstandingE8(o) * U

ShareClaimed18(o) == liquid[o] + l1WwartClaim[o]

(* Mutant: WLIQ and wWART claims do not share the capacity.                *)
RemainingApart(o) == Monus(BackingCapacity18(o), l1WwartClaim[o])

Remaining(o) == Monus(BackingCapacity18(o), ShareClaimed18(o))

Portal(o) == PortalWwart18Of(wWART[o])

(* Claims whose tokens are not out on L1.                                  *)
Burnable(o) == Least(l1WwartClaim[o], wwartPortable[o] + Portal(o))

(* What of an amount is taken from the portable part, before inventory.    *)
FromPortable(o, amount) == Least(wwartPortable[o], amount)

(* Mutant: the inventory stays.                                            *)
InventoryAfterNothing(o, amount) == wWART[o]

(* Inventory after the rest of an amount was taken from it.                *)
InventoryAfter(o, amount) ==
  IF amount > 0 THEN Portal(o) - amount ELSE wWART[o]

-----------------------------------------------------------------------------
(* The handlers of claims.                                                 *)

Accept == status' = "accept"

(* A handler that refuses has changed nothing.                             *)
Refuse == status' = "reject" /\ UNCHANGED
  <<capacityVars, claimVars, lockVars, l1Vars, proven>>

MintLiquid(o, requested) ==
  /\ Remaining(o) > 0
  /\ liquid' = [liquid EXCEPT ![o] = @ + Least(requested, Remaining(o))]
  /\ Accept
  /\ UNCHANGED <<capacityVars, l1WwartClaim, wwartPortable, wWART, raised,
                 lockVars, l1Vars, proven>>

(* sync_wwart_claim raises the claim to what was asked, as far as capacity *)
(* and WLIQ leave room, and never lowers it.                               *)
SyncWwartClaim(o, requested) ==
  LET maxClaim == Monus(BackingCapacity18(o), liquid[o])
      target   == Least(requested, maxClaim)
  IN  /\ l1WwartClaim' = [l1WwartClaim EXCEPT ![o] =
                            IF target > @ THEN target ELSE @]
      /\ Accept
      /\ UNCHANGED <<capacityVars, liquid, wwartPortable, wWART, raised,
                     lockVars, l1Vars, proven>>

MintWwart(o, requested) ==
  LET mintAmt == Least(requested, Remaining(o))
  IN  /\ Remaining(o) > 0
      /\ l1WwartClaim' = [l1WwartClaim EXCEPT ![o] = @ + mintAmt]
      /\ wwartPortable' = [wwartPortable EXCEPT ![o] = @ + mintAmt]
      /\ Accept
      /\ UNCHANGED <<capacityVars, liquid, wWART, raised, lockVars, l1Vars,
                     proven>>

MintRefused(o) == Remaining(o) = 0 /\ Refuse

BurnLiquid(o, amount) ==
  /\ liquid[o] >= amount
  /\ liquid' = [liquid EXCEPT ![o] = @ - amount]
  /\ Accept
  /\ UNCHANGED <<capacityVars, l1WwartClaim, wwartPortable, wWART, raised,
                 lockVars, l1Vars, proven>>

BurnLiquidRefused(o, amount) == liquid[o] < amount /\ Refuse

BurnWwart(o, amount) ==
  LET fromPortable == FromPortable(o, amount)
  IN  /\ amount <= Burnable(o)
      /\ l1WwartClaim' = [l1WwartClaim EXCEPT ![o] = @ - amount]
      /\ wwartPortable' = [wwartPortable EXCEPT ![o] = @ - fromPortable]
      /\ wWART' = [wWART EXCEPT ![o] = InventoryAfter(o, amount - fromPortable)]
      /\ Accept
      /\ UNCHANGED <<capacityVars, liquid, raised, lockVars, l1Vars, proven>>

BurnWwartRefused(o, amount) == amount > Burnable(o) /\ Refuse

(* Mutant: the rollback forgets the portable part.                         *)
RollbackBase(fromPortable, base) == [portable |-> 0, base |-> base]

(* withdrawErc20FromVault puts back what it debited.                       *)
Rollback(fromPortable, base) == [portable |-> fromPortable, base |-> base]

(* withdraw_wwart: mints what is portable and transfers the rest from the  *)
(* inventory.  Claims stay as they are.  vouchersOk: no post failed; what  *)
(* a rejected input emitted is dropped.  The amount may be zero or         *)
(* negative: no voucher is emitted for it, and a negative amount is taken  *)
(* from what is portable like any other, which adds to it.                 *)
WithdrawWwart(o, amount, vouchersOk) ==
  LET fromPortable == FromPortable(o, amount)
      base         == amount - fromPortable
      undo         == IF vouchersOk THEN [portable |-> 0, base |-> 0]
                      ELSE Rollback(fromPortable, base)
  IN  /\ wwartPortable[o] + Portal(o) >= amount
      /\ SumFunction(raised) + Monus(0, amount) <= setting.raisable
      /\ wwartPortable' = [wwartPortable EXCEPT ![o] =
                             (@ - fromPortable) + undo.portable]
      /\ wWART' = [wWART EXCEPT ![o] = InventoryAfter(o, base) + undo.base]
      /\ l1Wwart' = [l1Wwart EXCEPT ![o] =
                       IF vouchersOk THEN @ + Monus(amount, 0) ELSE @]
      /\ raised' = [raised EXCEPT ![o] =
                      IF vouchersOk THEN @ + Monus(0, amount) ELSE @]
      /\ status' = IF vouchersOk THEN "accept" ELSE "reject"
      /\ UNCHANGED <<capacityVars, liquid, l1WwartClaim, lockVars, pathA, proven>>

WithdrawRefused(o, amount) == wwartPortable[o] + Portal(o) < amount /\ Refuse

PersonalFilled(o) == FilledClaim18(l1WwartClaim[o], wwartPortable[o]) > 0

(* What of a deposit may go to the pool, whatever o and others have there: *)
(* filled claims count up to the amount, other claims only if there are.   *)
PoolShares(o, amount) ==
  { PoolShare(amount, hint, poolFilled, PersonalFilled(o), poolClaimed) :
      hint \in Hints, poolFilled \in 0 .. amount, poolClaimed \in {0, 1} }

(* The ERC-20 portal delivers o's wWART, of which toPool goes to the pool. *)
PortalDepositWwart(o, amount, toPool) ==
  /\ l1Wwart[o] >= amount
  /\ l1Wwart' = [l1Wwart EXCEPT ![o] = @ - amount]
  /\ wWART' = [wWART EXCEPT ![o] =
                 IF toPool < amount THEN Portal(o) + (amount - toPool) ELSE @]
  /\ pathA' = pathA + toPool
  /\ Accept
  /\ UNCHANGED <<capacityVars, liquid, l1WwartClaim, wwartPortable, raised,
                 lockVars, proven>>

-----------------------------------------------------------------------------
(* The handlers of vaults.                                                 *)

(* create_vault: metadata of anybody's vault, from the start.              *)
CreateVault(o, sub, vault) ==
  /\ personalVaults' = [personalVaults EXCEPT ![o] =
       [sub |-> sub, vault |-> vault, fundedE8 |-> 0, locked |-> FALSE]]
  /\ Accept
  /\ UNCHANGED <<capacityVars, claimVars, subLocks, pendingLocks,
                 vaultReleaseState, l1Vars, proven>>

(* sub_lock: a deposit to the sub-wallet announces a sweep to a vault.  It *)
(* is filed under the sub-wallet as the input writes it.                   *)
SubLock(sub, spelling, o, vault) ==
  /\ pendingLocks' = [pendingLocks EXCEPT ![<<sub, spelling>>] =
                        [owner |-> o, vault |-> vault]]
  /\ Accept
  /\ UNCHANGED <<capacityVars, claimVars, subLocks, personalVaults,
                 vaultReleaseState, l1Vars, proven>>

(* What was announced for a sub-wallet, under this spelling or the normal  *)
(* one.                                                                    *)
Announced(sub, spelling) ==
  IF pendingLocks[<<sub, spelling>>] # NoPending THEN pendingLocks[<<sub, spelling>>]
  ELSE pendingLocks[<<sub, Norm>>]

(* Whom a sweep is for that nobody announced: the owner the input names,   *)
(* else one (the first) whose vault metadata has the sub-wallet, else the  *)
(* sender.                                                                 *)
DirectOwners(sub, named, sender) ==
  LET registered == { o \in Owners : /\ personalVaults[o] # NoPersonal
                                     /\ personalVaults[o].sub = sub }
  IN  IF named # NoOwner THEN {named}
      ELSE IF registered # {} THEN registered ELSE {sender}

(* What a sweep is booked by: the announcement or else the sweep itself.   *)
Contexts(sweep, spelling, named, sender) ==
  LET announced == Announced(sweep.from, spelling)
  IN  IF announced # NoPending THEN {announced}
      ELSE { [owner |-> o, vault |-> sweep.to] :
               o \in DirectOwners(sweep.from, named, sender) }

(* Mutant: a further sweep replaces the lock.                              *)
LockedBeforeNever(sub) == 0

(* What a sub-wallet is locked for already.                                *)
LockedBefore(sub) == IF subLocks[sub] = NoLock THEN 0 ELSE subLocks[sub].minted

(* The owner's metadata after a sweep.                                     *)
FundedPersonal(o, sweep, indexGiven) ==
  IF personalVaults[o] # NoPersonal
  THEN [personalVaults[o] EXCEPT !.fundedE8 = @ + sweep.amountE8,
                                 !.locked = TRUE, !.vault = sweep.to]
  ELSE IF indexGiven
  THEN [sub |-> sweep.from, vault |-> sweep.to, fundedE8 |-> sweep.amountE8,
        locked |-> TRUE]
  ELSE NoPersonal

(* Mutant: counts the WART for the vault alone.                            *)
CountedVaultOnly(counter, o, vault, e8) == [counter EXCEPT ![vault] = @ + e8]

(* A counter of userVaults, kept for the owner and for the vault.          *)
Counted(counter, o, vault, e8) ==
  [counter EXCEPT ![o] = @ + e8, ![vault] = @ + e8]

(* sweep_lock: the WART of the sweep becomes the owner's capacity.         *)
SweepLock(sweep, spelling, named, sender, indexGiven) ==
  /\ setting.replays \/ sweep \notin proven
  /\ \E context \in Contexts(sweep, spelling, named, sender) :
       LET o == context.owner
       IN  /\ context.vault = sweep.to
           /\ pendingLocks' = [pendingLocks EXCEPT
                ![<<sweep.from, spelling>>] = NoPending,
                ![<<sweep.from, Norm>>] = NoPending]
           /\ spoofedMinted' =
                Counted(spoofedMinted, o, sweep.to, sweep.amountE8)
           /\ userMintHistories' =
                [userMintHistories EXCEPT ![o] = @ + sweep.amountE8]
           /\ personalVaults' = [personalVaults EXCEPT
                ![o] = FundedPersonal(o, sweep, indexGiven)]
           /\ subLocks' = [subLocks EXCEPT ![sweep.from] =
                [locked |-> TRUE, owner |-> o, vault |-> sweep.to,
                 minted |-> LockedBefore(sweep.from) + sweep.amountE8]]
  /\ proven' = proven \cup {sweep}
  /\ Accept
  /\ UNCHANGED <<spoofedBurned, userBurnHistories, claimVars,
                 vaultReleaseState, l1Vars>>

(* A sweep to another vault than was announced.                            *)
SweepRefused(sweep, spelling) ==
  /\ Announced(sweep.from, spelling) # NoPending
  /\ Announced(sweep.from, spelling).vault # sweep.to
  /\ Refuse

(* Mutant: compares the claims with the capacity there is now.             *)
KeepsCoverNow(o, e8) == ShareClaimed18(o) <= BackingCapacity18(o)

(* What is left of the capacity still covers the claims.                   *)
KeepsCover(o, e8) ==
  ShareClaimed18(o) <= Monus(BackingCapacity18(o), e8 * U)

CanUnlock(sender, sub, e8) ==
  /\ subLocks[sub].locked
  /\ subLocks[sub].owner = sender
  /\ e8 <= subLocks[sub].minted
  /\ KeepsCover(sender, e8)

(* sub_unlock: e8 of the sub-wallet's WART is given up and a ticket issued *)
(* for its vault.  The lock ends with the last of it.                      *)
SubUnlock(sender, sub, e8) ==
  LET lock == subLocks[sub]
      last == e8 = lock.minted
  IN  /\ CanUnlock(sender, sub, e8)
      /\ subLocks' = [subLocks EXCEPT ![sub].minted = @ - e8,
                                      ![sub].locked = ~last]
      /\ spoofedBurned' = Counted(spoofedBurned, sender, lock.vault, e8)
      /\ userBurnHistories' = Counted(userBurnHistories, sender, lock.vault, e8)
      /\ personalVaults' =
           IF personalVaults[sender] = NoPersonal THEN personalVaults
           ELSE [personalVaults EXCEPT ![sender].fundedE8 = Monus(@, e8),
                                       ![sender].locked = @ /\ ~last]
      /\ vaultReleaseState' = [vaultReleaseState EXCEPT
           ![lock.vault].nextNonce = @ + 1,
           ![lock.vault].cumulativeBurnedE8 = @ + e8]
      /\ Accept
      /\ UNCHANGED <<spoofedMinted, userMintHistories, claimVars, pendingLocks,
                     l1Vars, proven>>

UnlockRefused(sender, sub, e8) == ~CanUnlock(sender, sub, e8) /\ Refuse

-----------------------------------------------------------------------------
(* Outside the rollup.                                                     *)

L1Transfer(from, to, amount) ==
  /\ from # to
  /\ l1Wwart[from] >= amount
  /\ l1Wwart' = [l1Wwart EXCEPT ![from] = @ - amount, ![to] = @ + amount]
  /\ UNCHANGED <<status, capacityVars, claimVars, lockVars, pathA, proven>>

(* pool_withdraw_wwart of Path A mints wWART on the pool's collateral.     *)
PathARelease(o, amount) ==
  /\ amount <= pathA
  /\ pathA' = pathA - amount
  /\ l1Wwart' = [l1Wwart EXCEPT ![o] = @ + amount]
  /\ Accept
  /\ UNCHANGED <<capacityVars, claimVars, lockVars, proven>>

(* An input of another component.                                          *)
OtherInput ==
  /\ status' \in {"accept", "reject"}
  /\ UNCHANGED <<capacityVars, claimVars, lockVars, l1Vars, proven>>

ClaimInput(o, amount) ==
  \/ MintLiquid(o, amount)
  \/ SyncWwartClaim(o, amount)
  \/ MintWwart(o, amount)
  \/ BurnLiquid(o, amount)
  \/ BurnLiquidRefused(o, amount)
  \/ BurnWwart(o, amount)
  \/ BurnWwartRefused(o, amount)

WithdrawInput(o, amount) ==
  \/ \E vouchersOk \in BOOLEAN : WithdrawWwart(o, amount, vouchersOk)
  \/ WithdrawRefused(o, amount)

ClaimHandler(o, amount) ==
  \/ ClaimInput(o, amount)
  \/ \E toPool \in PoolShares(o, amount) : PortalDepositWwart(o, amount, toPool)

VaultHandler(sub) ==
  \/ \E o \in setting.subOwners[sub], vault \in Vaults : CreateVault(o, sub, vault)
  \/ \E spelling \in setting.spellings, o \in setting.subOwners[sub], vault \in setting.subVaults[sub] :
       SubLock(sub, spelling, o, vault)
  \/ \E sender \in setting.senders, e8 \in setting.amountsE8 :
       SubUnlock(sender, sub, e8) \/ UnlockRefused(sender, sub, e8)

SweepHandler(sweep, spelling) ==
  \/ \E named \in setting.subOwners[sweep.from] \cup {NoOwner},
        sender \in setting.subOwners[sweep.from], indexGiven \in BOOLEAN :
       SweepLock(sweep, spelling, named, sender, indexGiven)
  \/ SweepRefused(sweep, spelling)

Next ==
  /\ UNCHANGED setting
  /\ \/ OtherInput
     \/ \E o \in setting.senders, amount \in setting.amounts18 :
          ClaimHandler(o, amount) \/ PathARelease(o, amount)
     \/ \E o \in setting.senders, amount \in setting.withdrawals18 :
          WithdrawInput(o, amount)
     \/ \E o \in setting.senders : MintRefused(o)
     \/ \E sub \in Subs : VaultHandler(sub)
     \/ \E sweep \in setting.sweeps, spelling \in setting.spellings :
          SweepHandler(sweep, spelling)
     \/ \E from, to \in setting.senders, amount \in setting.amounts18 :
          L1Transfer(from, to, amount)

Spec == Init /\ [][Next]_vars

-----------------------------------------------------------------------------
(* Properties.                                                             *)

(* What inputs prove took place, and once.                                 *)
Honest == ~setting.replays /\ setting.sweeps \subseteq setting.happened

(* They also agree on who owns a sub-wallet and on the vault it sweeps to. *)
Undisputed ==
  /\ Honest
  /\ \A sub \in Subs : Cardinality(setting.subOwners[sub]) <= 1
  /\ \A s, t \in setting.sweeps : s.from = t.from => s.to = t.to

AmountE8     == [s \in setting.sweeps |-> s.amountE8]
Swept(vault) ==
  SumFunctionOnSet(AmountE8, { s \in proven \cap setting.happened : s.to = vault })

Released(vault) == vaultReleaseState[vault].cumulativeBurnedE8
HeldE8       == [v \in Vaults |-> Swept(v) - Released(v)]

(* The sub-wallets' locks, of an owner or on a vault.                      *)
MintedE8      == [sub \in Subs |-> LockedBefore(sub)]
LocksOf(o)    == { sub \in Subs : subLocks[sub] # NoLock /\ subLocks[sub].owner = o }
LocksOn(v)    == { sub \in Subs : subLocks[sub] # NoLock /\ subLocks[sub].vault = v }

(* Tokens that exist, or can be had for a claim without giving it up.      *)
TokenSupply == SumFunction(l1Wwart) + SumFunction(wWART)
               + SumFunction(wwartPortable) + pathA

(* An owner's WLIQ and wWART claims are covered by its capacity, whatever  *)
(* mints, syncs and burns come between partial unlocks, and what is        *)
(* portable is within the claim but for what withdrawals of negative       *)
(* amounts added, so that withdrawing never mints more than was claimed    *)
(* and added.                                                              *)
ClaimsCovered ==
  \A o \in Owners :
    /\ ShareClaimed18(o) <= BackingCapacity18(o)
    /\ wwartPortable[o] <= l1WwartClaim[o] + raised[o]

(* Capacity is kept three times, in the histories, for the owner and for   *)
(* the vault, and tickets are counted besides: they agree.                 *)
BooksAgree ==
  /\ \A o \in Owners : userMintHistories[o] = spoofedMinted[o]
  /\ userBurnHistories = spoofedBurned
  /\ \A v \in Vaults : Released(v) = spoofedBurned[v]
  /\ SumFunctionOnSet(spoofedMinted, Owners)
       = SumFunctionOnSet(spoofedMinted, Vaults)

(* An owner's capacity is what its sub-wallets are locked for, and a vault *)
(* holds the WART its sub-wallets are locked for after its tickets are     *)
(* paid: collateral is counted once over announcing, sweeping, locking     *)
(* again and unlocking in parts.                                           *)
CollateralCounted ==
  Undisputed =>
    /\ \A o \in Owners :
         SpoofedOutstandingE8(o) = SumFunctionOnSet(MintedE8, LocksOf(o))
    /\ \A v \in Vaults :
         Swept(v) = Released(v) + SumFunctionOnSet(MintedE8, LocksOn(v))

(* Every wWART token of Path B, and every WLIQ, has its WART in a vault,   *)
(* whoever holds the tokens by now and whichever path they came back by,   *)
(* but for exactly what withdrawals of negative amounts added: nothing     *)
(* else is minted without backing.                                         *)
TokensBacked ==
  Undisputed =>
    TokenSupply + SumFunction(liquid)
      <= setting.poolSupply + U * SumFunction(HeldE8) + SumFunction(raised)

(* A rejected input moves no balance, also when a voucher failed after the *)
(* withdrawal was debited.                                                 *)
RejectKeepsBalances ==
  [][status' = "reject" =>
       UNCHANGED <<capacityVars, claimVars, lockVars>>]_vars

(* "Spoofed wWART minted 1:1": a vault is counted for no more than was     *)
(* swept to it.                                                            *)
MintedOneToOne == \A v \in Vaults : spoofedMinted[v] <= Swept(v)

=============================================================================
