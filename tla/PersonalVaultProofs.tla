------------------------- MODULE PersonalVaultProofs -------------------------
(***************************************************************************)
(* Proofs about PersonalVault, for every set of owners, sub-wallets and    *)
(* vaults, every unit, and every setting: whatever is swept and whatever   *)
(* inputs say.                                                             *)
(***************************************************************************)
EXTENDS PersonalVault, SumTheorems

-----------------------------------------------------------------------------
(* What the helpers return.                                                *)

(* Subtraction that stops at zero.                                         *)
LEMMA MonusProperties ==
  ASSUME NEW a \in Nat, NEW b \in Nat
  PROVE  /\ Monus(a, b) \in Nat
         /\ b <= a => Monus(a, b) = a - b
         /\ a <= b => Monus(a, b) = 0
BY DEF Monus

(* The smaller of two.                                                     *)
LEMMA LeastProperties ==
  ASSUME NEW a \in Nat, NEW b \in Nat
  PROVE  /\ Least(a, b) \in Nat
         /\ Least(a, b) <= a
         /\ Least(a, b) <= b
BY DEF Least

(* A unit times what is left is what is left of the units.                 *)
LEMMA TimesUnit ==
  ASSUME NEW a \in Nat, NEW b \in Nat
  PROVE  /\ a * U \in Nat
         /\ a <= b => a * U <= b * U
         /\ b <= a => (a - b) * U = a * U - b * U
BY UnitAssumption

(* Inventory counts in full or not at all.                                 *)
LEMMA PortalProperties ==
  ASSUME NEW raw \in Nat
  PROVE  /\ PortalWwart18Of(raw) \in Nat
         /\ PortalWwart18Of(raw) \in {0, raw}
BY DEF PortalWwart18Of

(* A portal deposit is split, never enlarged.                              *)
LEMMA PoolShareBound ==
  ASSUME NEW amount \in Nat, NEW hint \in Hints, NEW poolFilled \in Nat,
         NEW personalFilled \in BOOLEAN, NEW poolClaimed \in Nat
  PROVE  PoolShare(amount, hint, poolFilled, personalFilled, poolClaimed)
           \in 0 .. amount
BY DEF PoolShare, Hints, Least

(* A setting's fields.                                                     *)
LEMMA SettingType ==
  ASSUME setting \in Settings
  PROVE  /\ IsFiniteSet(setting.sweeps)
         /\ \A s \in setting.sweeps :
              s.from \in Subs /\ s.to \in Vaults /\ s.amountE8 \in Nat \ {0}
         /\ setting.happened \subseteq setting.sweeps
         /\ setting.withdrawals18 \subseteq Int /\ setting.raisable \in Nat
         /\ setting.senders \subseteq Owners
         /\ \A sub \in Subs : setting.subOwners[sub] \subseteq Owners
         /\ \A sub \in Subs : setting.subVaults[sub] \subseteq Vaults
         /\ setting.spellings \subseteq Spellings
         /\ setting.replays \in BOOLEAN
         /\ setting.amounts18 \subseteq Nat \ {0}
         /\ setting.amountsE8 \subseteq Nat \ {0}
         /\ setting.poolSupply \in Nat
<1>1. /\ setting.subOwners \in [Subs -> SUBSET setting.senders]
      /\ setting.subVaults \in [Subs -> SUBSET Vaults]
      /\ setting.senders \subseteq Owners
  BY SettingsAssumption
<1>. QED  BY <1>1, SettingsAssumption

(* Whatever a deposit's hint and the pool are.                             *)
LEMMA PoolSharesBound ==
  ASSUME NEW o, NEW amount \in Nat,
         NEW toPool \in PoolShares(o, amount)
  PROVE  toPool \in 0 .. amount
<1>1. PICK hint \in Hints, poolFilled \in 0 .. amount, poolClaimed \in {0, 1} :
        toPool = PoolShare(amount, hint, poolFilled, PersonalFilled(o), poolClaimed)
  BY DEF PoolShares
<1>2. poolFilled \in Nat /\ poolClaimed \in Nat
  OBVIOUS
<1>3. PersonalFilled(o) \in BOOLEAN
  BY DEF PersonalFilled
<1>. QED  BY <1>1, <1>2, <1>3, PoolShareBound

(* No lock, announcement or metadata is the record for none.               *)
LEMMA NoneIsNone ==
  /\ \A l \in Lock : l # NoLock
  /\ \A p \in Pending : p # NoPending
  /\ \A p \in Personal : p # NoPersonal
<1>1. \A l \in Lock : DOMAIN l = {"locked", "owner", "minted", "vault"}
  BY DEF Lock
<1>2. \A p \in Personal : DOMAIN p = {"sub", "vault", "fundedE8", "locked"}
  BY DEF Personal
<1>3. \A p \in Pending : DOMAIN p = {"owner", "vault"}
  BY DEF Pending
<1>4. DOMAIN NoLock = {"locked"} /\ DOMAIN NoPersonal = {"locked"}
  BY DEF NoLock, NoPersonal
<1>5. DOMAIN NoPending = {"owner"}
  BY DEF NoPending
<1>6. "owner" # "locked" /\ "vault" # "owner" /\ "sub" # "locked"
  OBVIOUS
<1>. QED  BY <1>1, <1>2, <1>3, <1>4, <1>5, <1>6, Zenon

(* A lock of which part was given up.                                      *)
LEMMA LockAfter ==
  ASSUME NEW l \in Lock, NEW n \in Nat, NEW b \in BOOLEAN
  PROVE  /\ [l EXCEPT !.minted = n, !.locked = b] \in Lock
         /\ [l EXCEPT !.minted = n, !.locked = b].minted = n
         /\ [l EXCEPT !.minted = n, !.locked = b].owner = l.owner
         /\ [l EXCEPT !.minted = n, !.locked = b].vault = l.vault
BY DEF Lock

(* Metadata after part was given up.                                       *)
LEMMA PersonalAfter ==
  ASSUME NEW p \in Personal, NEW n \in Nat, NEW b \in BOOLEAN
  PROVE  /\ [p EXCEPT !.fundedE8 = n, !.locked = b] \in Personal
         /\ [p EXCEPT !.fundedE8 = n, !.locked = b].sub = p.sub
BY DEF Personal

(* Metadata after a sweep.                                                 *)
LEMMA PersonalSwept ==
  ASSUME NEW p \in Personal, NEW n \in Nat, NEW b \in BOOLEAN, NEW v \in Vaults
  PROVE  /\ [p EXCEPT !.fundedE8 = n, !.locked = b, !.vault = v] \in Personal
         /\ [p EXCEPT !.fundedE8 = n, !.locked = b, !.vault = v].sub = p.sub
BY DEF Personal

(* What a sub-wallet is locked for, and what no lock is locked for.        *)
LEMMA LockedBeforeType ==
  ASSUME TypeOK, NEW sub \in Subs
  PROVE  /\ LockedBefore(sub) \in Nat
         /\ subLocks[sub] # NoLock => /\ subLocks[sub] \in Lock
                                      /\ LockedBefore(sub) = subLocks[sub].minted
<1>1. subLocks[sub] \in Lock \cup {NoLock}
  BY DEF TypeOK
<1>. QED  BY <1>1 DEF LockedBefore, Lock

(* A counter of userVaults stays one: the owner and the vault have keys of *)
(* their own, and each gets the amount once.                               *)
LEMMA CountedProperties ==
  ASSUME NEW counter \in [Keys -> Nat], NEW o \in Owners, NEW v \in Vaults,
         NEW e8 \in Nat
  PROVE  /\ Counted(counter, o, v, e8) \in [Keys -> Nat]
         /\ Counted(counter, o, v, e8)[o] = counter[o] + e8
         /\ Counted(counter, o, v, e8)[v] = counter[v] + e8
         /\ \A k \in Owners \ {o} : Counted(counter, o, v, e8)[k] = counter[k]
         /\ \A k \in Vaults \ {v} : Counted(counter, o, v, e8)[k] = counter[k]
BY VaultsAssumption DEF Counted, Keys

-----------------------------------------------------------------------------
(* Types.                                                                  *)

(* Capacity and claims are amounts.                                        *)
LEMMA AmountsType ==
  ASSUME TypeOK, NEW o \in Owners
  PROVE  /\ SpoofedOutstandingE8(o) \in Nat
         /\ BackingCapacity18(o) \in Nat
         /\ ShareClaimed18(o) \in Nat
         /\ Remaining(o) \in Nat
         /\ Portal(o) \in Nat
         /\ Portal(o) \in {0, wWART[o]}
         /\ Burnable(o) \in Nat
<1>1. /\ o \in Keys
      /\ userMintHistories[o] \in Nat /\ spoofedMinted[o] \in Nat
      /\ userBurnHistories[o] \in Nat /\ spoofedBurned[o] \in Nat
      /\ liquid[o] \in Nat /\ l1WwartClaim[o] \in Nat
      /\ wwartPortable[o] \in Nat /\ wWART[o] \in Nat
  BY DEF TypeOK, Keys
<1>2. SpoofedOutstandingE8(o) \in Nat
  BY <1>1, MonusProperties DEF SpoofedOutstandingE8
<1>3. BackingCapacity18(o) \in Nat
  BY <1>2, TimesUnit DEF BackingCapacity18
<1>4. ShareClaimed18(o) \in Nat
  BY <1>1 DEF ShareClaimed18
<1>5. Remaining(o) \in Nat
  BY <1>3, <1>4, MonusProperties DEF Remaining
<1>6. Portal(o) \in Nat /\ Portal(o) \in {0, wWART[o]}
  BY <1>1, PortalProperties DEF Portal
<1>7. Burnable(o) \in Nat
  BY <1>1, <1>6 DEF Burnable, Least
<1>. QED  BY <1>2, <1>3, <1>4, <1>5, <1>6, <1>7

(* What of an amount is portable and what of it the inventory pays.        *)
LEMMA InventoryPays ==
  ASSUME TypeOK, NEW o \in Owners, NEW amount \in Int,
         amount <= wwartPortable[o] + Portal(o)
  PROVE  /\ FromPortable(o, amount) \in Int
         /\ amount \in Nat => FromPortable(o, amount) \in Nat
         /\ amount - FromPortable(o, amount) \in 0 .. Monus(amount, 0)
         /\ FromPortable(o, amount) <= wwartPortable[o]
         /\ FromPortable(o, amount) <= amount
         /\ FromPortable(o, amount) = amount
              \/ FromPortable(o, amount) = wwartPortable[o]
         /\ amount - FromPortable(o, amount) <= wWART[o]
         /\ InventoryAfter(o, amount - FromPortable(o, amount))
              = wWART[o] - (amount - FromPortable(o, amount))
<1>1. /\ wwartPortable[o] \in Nat /\ wWART[o] \in Nat
      /\ Portal(o) \in Nat /\ Portal(o) \in {0, wWART[o]}
  BY AmountsType DEF TypeOK
<1>. QED  BY <1>1 DEF FromPortable, InventoryAfter, Least, Monus

(* A withdrawal takes its amount from what is portable and, if it is more, *)
(* the rest from the inventory; what it adds is a negative amount's.       *)
LEMMA WithdrawEffect ==
  ASSUME TypeOK, NEW o \in Owners, NEW amount \in Int,
         NEW vouchersOk \in BOOLEAN, WithdrawWwart(o, amount, vouchersOk)
  PROVE  /\ UNCHANGED <<capacityVars, liquid, l1WwartClaim, lockVars, pathA,
                        proven>>
         /\ SumFunction(raised) + Monus(0, amount) <= setting.raisable
         /\ \/ /\ vouchersOk = FALSE /\ status' = "reject"
               /\ UNCHANGED <<wwartPortable, wWART, l1Wwart, raised>>
            \/ /\ vouchersOk = TRUE /\ status' = "accept"
               /\ \E base \in 0 .. Monus(amount, 0) :
                    /\ amount - base <= wwartPortable[o] /\ base <= wWART[o]
                    /\ wwartPortable' = [wwartPortable EXCEPT ![o] = @ - (amount - base)]
                    /\ wWART' = [wWART EXCEPT ![o] = @ - base]
                    /\ l1Wwart' = [l1Wwart EXCEPT ![o] = @ + Monus(amount, 0)]
                    /\ raised' = [raised EXCEPT ![o] = @ + Monus(0, amount)]
<1>. DEFINE m == FromPortable(o, amount)
            base == amount - m
            after == InventoryAfter(o, base)
<1>1. /\ wwartPortable \in [Owners -> Nat] /\ wWART \in [Owners -> Nat]
      /\ l1Wwart \in [Owners -> Nat] /\ raised \in [Owners -> Nat]
      /\ wwartPortable[o] \in Nat /\ wWART[o] \in Nat /\ Portal(o) \in Nat
  BY AmountsType DEF TypeOK
<1>2. amount <= wwartPortable[o] + Portal(o)
  BY <1>1 DEF WithdrawWwart
<1>3. /\ m \in Int /\ base \in 0 .. Monus(amount, 0)
      /\ m <= wwartPortable[o] /\ base <= wWART[o] /\ after = wWART[o] - base
  BY <1>2, InventoryPays
<1>4. /\ UNCHANGED <<capacityVars, liquid, l1WwartClaim, lockVars, pathA, proven>>
      /\ SumFunction(raised) + Monus(0, amount) <= setting.raisable
  BY DEF WithdrawWwart
<1>5. base \in Nat /\ amount - base = m
  <2>1. Monus(amount, 0) \in Nat
    BY DEF Monus
  <2>. QED  BY <1>3, <2>1
<1>6. CASE vouchersOk = TRUE
  <2>1. /\ status' = "accept"
        /\ wwartPortable' = [wwartPortable EXCEPT ![o] = @ - m + 0]
        /\ wWART' = [wWART EXCEPT ![o] = after + 0]
        /\ l1Wwart' = [l1Wwart EXCEPT ![o] = @ + Monus(amount, 0)]
        /\ raised' = [raised EXCEPT ![o] = @ + Monus(0, amount)]
    BY <1>6 DEF WithdrawWwart
  <2>. HIDE DEF m, base, after
  <2>2. /\ wwartPortable[o] - m + 0 = wwartPortable[o] - m
        /\ after + 0 = wWART[o] - base
    BY <1>1, <1>3, <1>5
  <2>3. wwartPortable' = [wwartPortable EXCEPT ![o] = @ - m]
    BY <2>1, <2>2
  <2>4. wWART' = [wWART EXCEPT ![o] = @ - base]
    BY <2>1, <2>2
  <2>. QED  BY <1>3, <1>4, <1>5, <1>6, <2>1, <2>3, <2>4
<1>7. CASE vouchersOk = FALSE
  <2>1. /\ status' = "reject"
        /\ wwartPortable' = [wwartPortable EXCEPT ![o] = @ - m + m]
        /\ wWART' = [wWART EXCEPT ![o] = after + base]
        /\ l1Wwart' = [l1Wwart EXCEPT ![o] = @]
        /\ raised' = [raised EXCEPT ![o] = @]
    BY <1>7 DEF WithdrawWwart, Rollback
  <2>. HIDE DEF m, base, after
  <2>2. UNCHANGED <<wwartPortable, wWART, l1Wwart, raised>>
    BY <1>1, <1>3, <1>5, <2>1
  <2>. QED  BY <1>4, <1>7, <2>1, <2>2
<1>. QED  BY <1>6, <1>7

(* Who books a sweep is an owner, on a vault.                              *)
LEMMA ContextsType ==
  ASSUME TypeOK, NEW sweep \in setting.sweeps, NEW spelling \in Spellings,
         NEW named \in Owners \cup {NoOwner}, NEW sender \in Owners
  PROVE  Contexts(sweep, spelling, named, sender) \subseteq Pending
<1>1. sweep.from \in Subs /\ sweep.to \in Vaults
  BY SettingType DEF TypeOK
<1>2. /\ pendingLocks[<<sweep.from, spelling>>] \in Pending \cup {NoPending}
      /\ pendingLocks[<<sweep.from, Norm>>] \in Pending \cup {NoPending}
  BY <1>1, SpellingsAssumption DEF TypeOK
<1>3. Announced(sweep.from, spelling) \in Pending \cup {NoPending}
  BY <1>2 DEF Announced
<1>4. DirectOwners(sweep.from, named, sender) \subseteq Owners
  BY DEF DirectOwners
<1>. QED  BY <1>1, <1>3, <1>4 DEF Contexts, Pending

(* The handlers of claims keep the types.                                  *)
LEMMA ClaimHandlerKeepsType ==
  ASSUME TypeOK, UNCHANGED setting,
         NEW o \in Owners, NEW amount \in setting.amounts18,
         ClaimHandler(o, amount)
  PROVE  TypeOK'
<1>1. amount \in Nat /\ setting.amounts18 \subseteq Nat
  BY SettingType DEF TypeOK
<1>2. /\ BackingCapacity18(o) \in Nat /\ Remaining(o) \in Nat
      /\ Portal(o) \in Nat /\ Burnable(o) \in Nat
      /\ liquid[o] \in Nat /\ l1WwartClaim[o] \in Nat
      /\ wwartPortable[o] \in Nat /\ wWART[o] \in Nat /\ l1Wwart[o] \in Nat
  BY AmountsType DEF TypeOK
<1>3. ASSUME MintLiquid(o, amount) PROVE TypeOK'
  <2>1. Least(amount, Remaining(o)) \in Nat
    BY <1>1, <1>2, LeastProperties
  <2>. QED  BY <1>2, <1>3, <2>1
            DEF TypeOK, MintLiquid, Accept, capacityVars, lockVars, l1Vars
<1>4. ASSUME SyncWwartClaim(o, amount) PROVE TypeOK'
  <2>1. Least(amount, Monus(BackingCapacity18(o), liquid[o])) \in Nat
    BY <1>1, <1>2, LeastProperties, MonusProperties
  <2>. QED  BY <1>2, <1>4, <2>1
            DEF TypeOK, SyncWwartClaim, Accept, capacityVars, lockVars, l1Vars
<1>5. ASSUME MintWwart(o, amount) PROVE TypeOK'
  <2>1. Least(amount, Remaining(o)) \in Nat
    BY <1>1, <1>2, LeastProperties
  <2>. QED  BY <1>2, <1>5, <2>1
            DEF TypeOK, MintWwart, Accept, capacityVars, lockVars, l1Vars
<1>6. ASSUME BurnLiquid(o, amount) PROVE TypeOK'
  BY <1>1, <1>2, <1>6
     DEF TypeOK, BurnLiquid, Accept, capacityVars, lockVars, l1Vars
<1>7. ASSUME BurnWwart(o, amount) PROVE TypeOK'
  <2>1. amount <= l1WwartClaim[o] /\ amount <= wwartPortable[o] + Portal(o)
    BY <1>1, <1>2, <1>7 DEF BurnWwart, Burnable, Least
  <2>. QED  BY <1>1, <1>2, <1>7, <2>1, InventoryPays
            DEF TypeOK, BurnWwart, Accept, capacityVars, lockVars, l1Vars
<1>9. ASSUME NEW toPool \in PoolShares(o, amount),
             PortalDepositWwart(o, amount, toPool)
      PROVE  TypeOK'
  <2>1. toPool \in 0 .. amount
    BY <1>1, PoolSharesBound DEF TypeOK
  <2>. QED  BY <1>1, <1>2, <1>9, <2>1
            DEF TypeOK, PortalDepositWwart, Accept, capacityVars, lockVars
<1>10. ASSUME Refuse PROVE TypeOK'
  BY <1>10 DEF TypeOK, Refuse, capacityVars, claimVars, lockVars, l1Vars
<1>. QED  BY <1>3, <1>4, <1>5, <1>6, <1>7, <1>9, <1>10
          DEF ClaimHandler, ClaimInput, BurnLiquidRefused, BurnWwartRefused

(* Withdrawals do, of any amount.                                          *)
LEMMA WithdrawKeepsType ==
  ASSUME TypeOK, UNCHANGED setting, NEW o \in Owners, NEW amount \in Int,
         WithdrawInput(o, amount)
  PROVE  TypeOK'
<1>1. CASE Refuse
  BY <1>1 DEF TypeOK, Refuse, capacityVars, claimVars, lockVars, l1Vars
<1>2. ASSUME NEW vouchersOk \in BOOLEAN, WithdrawWwart(o, amount, vouchersOk)
      PROVE  TypeOK'
  <2>1. /\ wwartPortable \in [Owners -> Nat] /\ wWART \in [Owners -> Nat]
        /\ l1Wwart \in [Owners -> Nat] /\ raised \in [Owners -> Nat]
    BY DEF TypeOK
  <2>2. Monus(amount, 0) \in Nat /\ Monus(0, amount) \in Nat
    BY DEF Monus
  <2>3. /\ wwartPortable' \in [Owners -> Nat] /\ wWART' \in [Owners -> Nat]
        /\ l1Wwart' \in [Owners -> Nat] /\ raised' \in [Owners -> Nat]
        /\ status' \in {"accept", "reject"}
    <3>1. CASE vouchersOk = FALSE
      BY <1>2, <2>1, <3>1, WithdrawEffect
    <3>2. CASE vouchersOk = TRUE
      <4>1. PICK base \in 0 .. Monus(amount, 0) :
              /\ amount - base <= wwartPortable[o] /\ base <= wWART[o]
              /\ wwartPortable' = [wwartPortable EXCEPT ![o] = @ - (amount - base)]
              /\ wWART' = [wWART EXCEPT ![o] = @ - base]
              /\ l1Wwart' = [l1Wwart EXCEPT ![o] = @ + Monus(amount, 0)]
              /\ raised' = [raised EXCEPT ![o] = @ + Monus(0, amount)]
        BY <1>2, <3>2, WithdrawEffect
      <4>2. status' = "accept"
        BY <1>2, <3>2, WithdrawEffect
      <4>. QED  BY <2>1, <2>2, <4>1, <4>2
    <3>. QED  BY <3>1, <3>2
  <2>4. UNCHANGED <<capacityVars, liquid, l1WwartClaim, lockVars, pathA, proven>>
    BY <1>2, WithdrawEffect
  <2>. QED  BY <2>3, <2>4 DEF TypeOK, capacityVars, lockVars
<1>. QED  BY <1>1, <1>2 DEF WithdrawInput, WithdrawRefused

(* The handlers of vaults do.                                              *)
LEMMA VaultHandlerKeepsType ==
  ASSUME TypeOK, UNCHANGED setting, NEW sub \in Subs, VaultHandler(sub)
  PROVE  TypeOK'
<1>1. /\ setting.subOwners[sub] \subseteq Owners
      /\ setting.subVaults[sub] \subseteq Vaults
      /\ setting.spellings \subseteq Spellings
      /\ setting.senders \subseteq Owners /\ setting.amountsE8 \subseteq Nat
  BY SettingType DEF TypeOK
<1>2. ASSUME NEW o \in Owners, NEW vault \in Vaults, CreateVault(o, sub, vault)
      PROVE  TypeOK'
  BY <1>2 DEF TypeOK, CreateVault, Accept, Personal, capacityVars, claimVars,
              l1Vars
<1>3. ASSUME NEW spelling \in Spellings, NEW o \in Owners, NEW vault \in Vaults,
             SubLock(sub, spelling, o, vault)
      PROVE  TypeOK'
  <2>1. [owner |-> o, vault |-> vault] \in Pending
    BY DEF Pending
  <2>2. pendingLocks' \in [Subs \X Spellings -> Pending \cup {NoPending}]
    BY <1>3, <2>1 DEF TypeOK, SubLock
  <2>. QED  BY <1>3, <2>2 DEF TypeOK, SubLock, Accept, capacityVars, claimVars,
                              l1Vars
<1>4. ASSUME NEW sender \in Owners, NEW e8 \in Nat, SubUnlock(sender, sub, e8)
      PROVE  TypeOK'
  <2>. DEFINE lock == subLocks[sub]
  <2>1. /\ lock \in Lock /\ lock.locked /\ lock.owner = sender
        /\ lock.minted \in Nat /\ e8 <= lock.minted /\ lock.vault \in Vaults
    BY <1>4 DEF TypeOK, SubUnlock, CanUnlock, Lock, NoLock
  <2>2. subLocks' \in [Subs -> Lock \cup {NoLock}]
    <3>1. [lock EXCEPT !.minted = lock.minted - e8,
                       !.locked = e8 # lock.minted] \in Lock
      <4>1. lock.minted - e8 \in Nat /\ (e8 # lock.minted) \in BOOLEAN
        BY <2>1
      <4>. QED  BY <2>1, <4>1, LockAfter
    <3>2. subLocks' = [subLocks EXCEPT ![sub] =
             [lock EXCEPT !.minted = lock.minted - e8,
                          !.locked = e8 # lock.minted]]
      BY <1>4, <2>1 DEF SubUnlock, TypeOK
    <3>. QED  BY <3>1, <3>2 DEF TypeOK
  <2>3. /\ spoofedBurned' \in [Keys -> Nat]
        /\ userBurnHistories' \in [Keys -> Nat]
    BY <1>4, <2>1, CountedProperties DEF TypeOK, SubUnlock
  <2>4. personalVaults' \in [Owners -> Personal \cup {NoPersonal}]
    <3>1. CASE personalVaults[sender] = NoPersonal
      BY <1>4, <3>1 DEF TypeOK, SubUnlock
    <3>2. CASE personalVaults[sender] # NoPersonal
      <4>. DEFINE p == personalVaults[sender]
      <4>1. p \in Personal
        BY <3>2 DEF TypeOK
      <4>2. Monus(p.fundedE8, e8) \in Nat
        BY <4>1, MonusProperties DEF Personal
      <4>3. [p EXCEPT !.fundedE8 = Monus(p.fundedE8, e8),
                      !.locked = p.locked /\ e8 # lock.minted] \in Personal
        <5>1. (p.locked /\ e8 # lock.minted) \in BOOLEAN
          BY <4>1 DEF Personal
        <5>. QED  BY <4>1, <4>2, <5>1, PersonalAfter
      <4>4. personalVaults' = [personalVaults EXCEPT ![sender] =
               [p EXCEPT !.fundedE8 = Monus(p.fundedE8, e8),
                         !.locked = p.locked /\ e8 # lock.minted]]
        BY <1>4, <3>2, <4>1 DEF SubUnlock, TypeOK
      <4>. QED  BY <4>3, <4>4 DEF TypeOK
    <3>. QED  BY <3>1, <3>2
  <2>5. vaultReleaseState' \in [Vaults -> [nextNonce : Nat \ {0},
                                           cumulativeBurnedE8 : Nat]]
    BY <1>4, <2>1 DEF TypeOK, SubUnlock
  <2>. QED  BY <1>4, <2>2, <2>3, <2>4, <2>5
            DEF TypeOK, SubUnlock, Accept, claimVars, l1Vars
<1>5. ASSUME Refuse PROVE TypeOK'
  BY <1>5 DEF TypeOK, Refuse, capacityVars, claimVars, lockVars, l1Vars
<1>. QED  BY <1>1, <1>2, <1>3, <1>4, <1>5 DEF VaultHandler, UnlockRefused

(* So does booking a sweep.                                                *)
LEMMA SweepHandlerKeepsType ==
  ASSUME TypeOK, UNCHANGED setting, NEW sweep \in setting.sweeps,
         NEW spelling \in setting.spellings, SweepHandler(sweep, spelling)
  PROVE  TypeOK'
<1>1. /\ sweep.from \in Subs /\ sweep.to \in Vaults /\ sweep.amountE8 \in Nat
      /\ spelling \in Spellings
      /\ setting.subOwners[sweep.from] \subseteq Owners
  BY SettingType DEF TypeOK
<1>2. ASSUME NEW named \in Owners \cup {NoOwner}, NEW sender \in Owners,
             NEW indexGiven \in BOOLEAN,
             SweepLock(sweep, spelling, named, sender, indexGiven)
      PROVE  TypeOK'
  <2>1. PICK context \in Contexts(sweep, spelling, named, sender) :
          LET o == context.owner
          IN  /\ pendingLocks' = [pendingLocks EXCEPT
                   ![<<sweep.from, spelling>>] = NoPending,
                   ![<<sweep.from, Norm>>] = NoPending]
              /\ spoofedMinted' =
                   Counted(spoofedMinted, o, sweep.to, sweep.amountE8)
              /\ userMintHistories' =
                   [userMintHistories EXCEPT ![o] = @ + sweep.amountE8]
              /\ personalVaults' = [personalVaults EXCEPT
                   ![o] = FundedPersonal(o, sweep, indexGiven)]
              /\ subLocks' = [subLocks EXCEPT ![sweep.from] =
                   [locked |-> TRUE, owner |-> o, vault |-> sweep.to,
                    minted |-> LockedBefore(sweep.from) + sweep.amountE8]]
    BY <1>2 DEF SweepLock
  <2>. DEFINE o == context.owner
  <2>2. o \in Owners
    BY <1>1, ContextsType DEF Pending
  <2>3. LockedBefore(sweep.from) \in Nat
    BY <1>1, LockedBeforeType
  <2>4. FundedPersonal(o, sweep, indexGiven) \in Personal \cup {NoPersonal}
    <3>. DEFINE p == personalVaults[o]
    <3>1. CASE p # NoPersonal
      <4>1. p \in Personal
        BY <2>2, <3>1 DEF TypeOK
      <4>2. p.fundedE8 + sweep.amountE8 \in Nat
        BY <1>1, <4>1 DEF Personal
      <4>. QED  BY <1>1, <3>1, <4>1, <4>2, PersonalSwept DEF FundedPersonal
    <3>2. CASE p = NoPersonal
      BY <1>1, <2>2, <3>2 DEF FundedPersonal, Personal
    <3>. QED  BY <3>1, <3>2
  <2>5. pendingLocks' \in [Subs \X Spellings -> Pending \cup {NoPending}]
    BY <2>1 DEF TypeOK
  <2>6. /\ spoofedMinted' \in [Keys -> Nat]
        /\ userMintHistories' \in [Owners -> Nat]
    <3>1. spoofedMinted \in [Keys -> Nat] /\ userMintHistories \in [Owners -> Nat]
      BY DEF TypeOK
    <3>2. spoofedMinted' \in [Keys -> Nat]
      BY <1>1, <2>1, <2>2, <3>1, CountedProperties
    <3>3. userMintHistories' \in [Owners -> Nat]
      BY <1>1, <2>1, <2>2, <3>1
    <3>. QED  BY <3>2, <3>3
  <2>7. personalVaults' \in [Owners -> Personal \cup {NoPersonal}]
    BY <2>1, <2>4 DEF TypeOK
  <2>8. subLocks' \in [Subs -> Lock \cup {NoLock}]
    BY <1>1, <2>1, <2>2, <2>3 DEF TypeOK, Lock
  <2>. QED  BY <1>2, <2>5, <2>6, <2>7, <2>8
            DEF TypeOK, SweepLock, Accept, claimVars, l1Vars
<1>3. ASSUME SweepRefused(sweep, spelling) PROVE TypeOK'
  BY <1>3 DEF SweepRefused, TypeOK, Refuse, capacityVars, claimVars, lockVars,
              l1Vars
<1>. QED  BY <1>1, <1>2, <1>3 DEF SweepHandler

(* And what happens outside the rollup, or in another component.           *)
LEMMA OutsideKeepsType ==
  ASSUME TypeOK, UNCHANGED setting
  PROVE  /\ \A o \in Owners, amount \in Nat : PathARelease(o, amount) => TypeOK'
         /\ \A from, to \in Owners, amount \in Nat :
              L1Transfer(from, to, amount) => TypeOK'
         /\ OtherInput => TypeOK'
<1>1. ASSUME NEW o \in Owners, NEW amount \in Nat, PathARelease(o, amount)
      PROVE  TypeOK'
  BY <1>1 DEF TypeOK, PathARelease, Accept, capacityVars, claimVars, lockVars
<1>2. ASSUME NEW from \in Owners, NEW to \in Owners, NEW amount \in Nat,
             L1Transfer(from, to, amount)
      PROVE  TypeOK'
  BY <1>2 DEF TypeOK, L1Transfer, capacityVars, claimVars, lockVars
<1>3. ASSUME OtherInput PROVE TypeOK'
  BY <1>3 DEF TypeOK, OtherInput, capacityVars, claimVars, lockVars, l1Vars
<1>. QED  BY <1>1, <1>2, <1>3

(* The types at the start.                                                 *)
LEMMA InitType == Init => TypeOK
<1>. SUFFICES ASSUME Init PROVE TypeOK
  OBVIOUS
<1>1. setting.poolSupply \in Nat
  BY SettingType DEF Init
<1>2. vaultReleaseState \in [Vaults -> [nextNonce : Nat \ {0},
                                        cumulativeBurnedE8 : Nat]]
  BY DEF Init
<1>. QED  BY <1>1, <1>2 DEF Init, TypeOK

(* And after any step.                                                     *)
LEMMA NextType == TypeOK /\ [Next]_vars => TypeOK'
<1>1. ASSUME TypeOK, Next PROVE TypeOK'
  <2>1. /\ setting.senders \subseteq Owners /\ setting.amounts18 \subseteq Nat
        /\ setting.withdrawals18 \subseteq Int
    BY <1>1, SettingType DEF TypeOK
  <2>. QED  BY <1>1, <2>1, ClaimHandlerKeepsType, WithdrawKeepsType,
               VaultHandlerKeepsType,
               SweepHandlerKeepsType, OutsideKeepsType
            DEF Next, MintRefused, Refuse, OtherInput
<1>2. ASSUME TypeOK, UNCHANGED vars PROVE TypeOK'
  BY <1>2 DEF TypeOK, vars, capacityVars, claimVars, lockVars, l1Vars
<1>. QED  BY <1>1, <1>2

(* Books, claims, locks and tickets keep their types.                      *)
THEOREM TypeCorrect == Spec => []TypeOK
BY InitType, NextType, PTL DEF Spec

-----------------------------------------------------------------------------
(* The books.                                                              *)

(* Capacity given up is kept twice as well as capacity gained.             *)
BooksInv ==
  /\ BooksAgree
  /\ SumFunctionOnSet(spoofedBurned, Owners)
       = SumFunctionOnSet(spoofedBurned, Vaults)

(* What is counted for the owner and the vault keeps both sums together.   *)
LEMMA CountedSums ==
  ASSUME NEW counter \in [Keys -> Nat], NEW o \in Owners, NEW v \in Vaults,
         NEW e8 \in Nat
  PROVE  /\ SumFunctionOnSet(Counted(counter, o, v, e8), Owners)
              = SumFunctionOnSet(counter, Owners) + e8
         /\ SumFunctionOnSet(Counted(counter, o, v, e8), Vaults)
              = SumFunctionOnSet(counter, Vaults) + e8
<1>. DEFINE after == Counted(counter, o, v, e8)
<1>1. /\ after \in [Keys -> Nat]
      /\ after[o] = counter[o] + e8 /\ after[v] = counter[v] + e8
      /\ \A k \in Owners \ {o} : after[k] = counter[k]
      /\ \A k \in Vaults \ {v} : after[k] = counter[k]
  BY CountedProperties
<1>2. Owners \in SUBSET Keys /\ Vaults \in SUBSET Keys
  BY DEF Keys
<1>. HIDE DEF after
<1>3. /\ SumFunctionOnSet(after, Owners) = SumFunctionOnSet(counter, Owners) + e8
      /\ SumFunctionOnSet(after, Vaults) = SumFunctionOnSet(counter, Vaults) + e8
  BY <1>1, <1>2, OwnersAssumption, VaultsAssumption, SumRaised
<1>. QED  BY <1>3 DEF after

(* What a sweep does once it is accepted, for the owner it is booked for.  *)
SweptFor(sweep, o) ==
  /\ setting.replays \/ sweep \notin proven
  /\ spoofedMinted' = Counted(spoofedMinted, o, sweep.to, sweep.amountE8)
  /\ userMintHistories' = [userMintHistories EXCEPT ![o] = @ + sweep.amountE8]
  /\ subLocks' = [subLocks EXCEPT ![sweep.from] =
       [locked |-> TRUE, owner |-> o, vault |-> sweep.to,
        minted |-> LockedBefore(sweep.from) + sweep.amountE8]]
  /\ proven' = proven \cup {sweep}
  /\ Accept
  /\ UNCHANGED <<spoofedBurned, userBurnHistories, claimVars, vaultReleaseState,
                 l1Vars>>

LEMMA SweepEffect ==
  ASSUME TypeOK, NEW sweep \in setting.sweeps, NEW spelling \in setting.spellings,
         SweepHandler(sweep, spelling)
  PROVE  Refuse \/ \E o \in Owners : SweptFor(sweep, o)
<1>1. /\ sweep.from \in Subs /\ spelling \in Spellings
      /\ setting.subOwners[sweep.from] \subseteq Owners
  BY SettingType DEF TypeOK
<1>2. ASSUME NEW named \in Owners \cup {NoOwner}, NEW sender \in Owners,
             NEW indexGiven \in BOOLEAN,
             SweepLock(sweep, spelling, named, sender, indexGiven)
      PROVE  \E o \in Owners : SweptFor(sweep, o)
  <2>1. \A context \in Contexts(sweep, spelling, named, sender) :
          context.owner \in Owners
    BY <1>1, ContextsType DEF Pending
  <2>. QED  BY <1>2, <2>1 DEF SweepLock, SweptFor
<1>. QED  BY <1>1, <1>2 DEF SweepHandler, SweepRefused

(* What an unlock does, for the sub-wallet's lock.                         *)
LEMMA UnlockEffect ==
  ASSUME TypeOK, NEW sub \in Subs, NEW sender \in Owners, NEW e8 \in Nat,
         SubUnlock(sender, sub, e8)
  PROVE  /\ subLocks[sub] \in Lock
         /\ subLocks[sub].owner = sender
         /\ subLocks[sub].vault \in Vaults
         /\ subLocks[sub].minted \in Nat
         /\ e8 <= subLocks[sub].minted
         /\ subLocks'[sub] \in Lock
         /\ subLocks'[sub].owner = sender
         /\ subLocks'[sub].vault = subLocks[sub].vault
         /\ subLocks'[sub].minted = subLocks[sub].minted - e8
         /\ \A s \in Subs \ {sub} : subLocks'[s] = subLocks[s]
<1>. DEFINE lock == subLocks[sub]
<1>1. /\ lock \in Lock /\ lock.locked /\ lock.owner = sender
      /\ lock.minted \in Nat /\ e8 <= lock.minted /\ lock.vault \in Vaults
  BY DEF TypeOK, SubUnlock, CanUnlock, Lock, NoLock
<1>. DEFINE n == lock.minted - e8
            b == e8 # lock.minted
<1>2. n \in Nat /\ b \in BOOLEAN
  BY <1>1
<1>3. subLocks' = [subLocks EXCEPT ![sub] = [lock EXCEPT !.minted = n, !.locked = b]]
  BY <1>1 DEF SubUnlock, TypeOK
<1>4. subLocks \in [Subs -> Lock \cup {NoLock}]
  BY DEF TypeOK
<1>5. /\ subLocks'[sub] = [lock EXCEPT !.minted = n, !.locked = b]
      /\ \A s \in Subs \ {sub} : subLocks'[s] = subLocks[s]
  BY <1>3, <1>4
<1>. HIDE DEF n, b
<1>6. /\ subLocks'[sub] \in Lock
      /\ subLocks'[sub].minted = n
      /\ subLocks'[sub].owner = lock.owner
      /\ subLocks'[sub].vault = lock.vault
  <2>. DEFINE after == [lock EXCEPT !.minted = n, !.locked = b]
  <2>. HIDE DEF lock
  <2>1. /\ after \in Lock /\ after.minted = n
        /\ after.owner = lock.owner /\ after.vault = lock.vault
    <3>1. lock \in Lock /\ n \in Nat /\ b \in BOOLEAN
      BY <1>1, <1>2
    <3>. QED  BY <3>1, ZenonT(20), LockAfter
  <2>2. subLocks'[sub] = after
    BY <1>5 DEF lock
  <2>. HIDE DEF after
  <2>. QED  BY <2>1, <2>2 DEF lock
<1>. QED  BY <1>1, <1>5, <1>6 DEF n

(* A sweep is booked once in every book.                                   *)
LEMMA SweepKeepsBooks ==
  ASSUME TypeOK, BooksInv, NEW sweep \in setting.sweeps, NEW o \in Owners,
         SweptFor(sweep, o)
  PROVE  BooksInv'
<1>1. sweep.to \in Vaults /\ sweep.amountE8 \in Nat
  BY SettingType DEF TypeOK
<1>2. spoofedMinted \in [Keys -> Nat] /\ userMintHistories \in [Owners -> Nat]
  BY DEF TypeOK
<1>3. \A p \in Owners : userMintHistories'[p] = spoofedMinted'[p]
  <2>1. /\ spoofedMinted'[o] = spoofedMinted[o] + sweep.amountE8
        /\ \A p \in Owners \ {o} : spoofedMinted'[p] = spoofedMinted[p]
    BY <1>1, <1>2, CountedProperties DEF SweptFor
  <2>. QED  BY <1>2, <2>1 DEF SweptFor, BooksInv, BooksAgree
<1>4. SumFunctionOnSet(spoofedMinted', Owners)
        = SumFunctionOnSet(spoofedMinted', Vaults)
  BY <1>1, <1>2, CountedSums DEF SweptFor, BooksInv, BooksAgree
<1>. QED  BY <1>3, <1>4 DEF SweptFor, BooksInv, BooksAgree, Released

(* So is an unlock, and its ticket.                                        *)
LEMMA UnlockKeepsBooks ==
  ASSUME TypeOK, BooksInv, NEW sub \in Subs, NEW sender \in Owners,
         NEW e8 \in Nat, SubUnlock(sender, sub, e8)
  PROVE  BooksInv'
<1>. DEFINE v == subLocks[sub].vault
<1>1. v \in Vaults
  BY UnlockEffect
<1>2. /\ spoofedBurned \in [Keys -> Nat]
      /\ vaultReleaseState \in [Vaults -> [nextNonce : Nat \ {0},
                                           cumulativeBurnedE8 : Nat]]
  BY DEF TypeOK
<1>3. /\ spoofedBurned' = Counted(spoofedBurned, sender, v, e8)
      /\ userBurnHistories' = spoofedBurned'
      /\ UNCHANGED <<spoofedMinted, userMintHistories>>
  BY DEF SubUnlock, BooksInv, BooksAgree
<1>4. \A w \in Vaults :
        vaultReleaseState'[w].cumulativeBurnedE8
          = vaultReleaseState[w].cumulativeBurnedE8 + (IF w = v THEN e8 ELSE 0)
  BY <1>1, <1>2 DEF SubUnlock
<1>5. \A w \in Vaults :
        spoofedBurned'[w] = spoofedBurned[w] + (IF w = v THEN e8 ELSE 0)
  <2>1. /\ spoofedBurned'[v] = spoofedBurned[v] + e8
        /\ \A w \in Vaults \ {v} : spoofedBurned'[w] = spoofedBurned[w]
    BY <1>1, <1>2, <1>3, CountedProperties
  <2>2. \A w \in Vaults : spoofedBurned[w] \in Nat
    BY <1>2 DEF Keys
  <2>. QED  BY <1>1, <2>1, <2>2
<1>6. \A w \in Vaults : Released(w)' = spoofedBurned'[w]
  BY <1>4, <1>5 DEF BooksInv, BooksAgree, Released
<1>7. SumFunctionOnSet(spoofedBurned', Owners)
        = SumFunctionOnSet(spoofedBurned', Vaults)
  BY <1>1, <1>2, <1>3, CountedSums DEF BooksInv
<1>. QED  BY <1>3, <1>6, <1>7 DEF BooksInv, BooksAgree

-----------------------------------------------------------------------------
(* Claims are covered.                                                     *)

(* Once the books agree it does not matter which of them is read.          *)
LEMMA Outstanding ==
  ASSUME TypeOK, BooksAgree, NEW o \in Owners
  PROVE  SpoofedOutstandingE8(o) = Monus(spoofedMinted[o], spoofedBurned[o])
BY DEF TypeOK, BooksAgree, SpoofedOutstandingE8, Monus, Keys

(* Claims of one owner change, within what it has.                         *)
LEMMA CoverAtOne ==
  ASSUME ClaimsCovered, UNCHANGED capacityVars, NEW o \in Owners,
         \A p \in Owners \ {o} :
           /\ liquid'[p] = liquid[p] /\ l1WwartClaim'[p] = l1WwartClaim[p]
           /\ wwartPortable'[p] = wwartPortable[p] /\ raised'[p] = raised[p],
         liquid'[o] + l1WwartClaim'[o] <= BackingCapacity18(o),
         wwartPortable'[o] <= l1WwartClaim'[o] + raised'[o]
  PROVE  ClaimsCovered'
<1>1. \A p \in Owners : BackingCapacity18(p)' = BackingCapacity18(p)
  BY DEF capacityVars, BackingCapacity18, SpoofedOutstandingE8
<1>2. ASSUME NEW p \in Owners
      PROVE  /\ ShareClaimed18(p)' <= BackingCapacity18(p)'
             /\ wwartPortable'[p] <= l1WwartClaim'[p] + raised'[p]
  <2>1. CASE p = o
    BY <1>1, <2>1 DEF ShareClaimed18
  <2>2. CASE p # o
    BY <1>1, <2>2 DEF ShareClaimed18, ClaimsCovered
  <2>. QED  BY <2>1, <2>2
<1>. QED  BY <1>2 DEF ClaimsCovered

(* The handlers of claims stay within capacity.                            *)
LEMMA ClaimHandlerKeepsCover ==
  ASSUME TypeOK, ClaimsCovered, NEW o \in Owners,
         NEW amount \in setting.amounts18, ClaimHandler(o, amount)
  PROVE  ClaimsCovered'
<1>1. amount \in Nat
  BY SettingType DEF TypeOK
<1>2. /\ BackingCapacity18(o) \in Nat /\ Remaining(o) \in Nat
      /\ Portal(o) \in Nat
      /\ liquid[o] \in Nat /\ l1WwartClaim[o] \in Nat
      /\ wwartPortable[o] \in Nat /\ wWART[o] \in Nat /\ raised[o] \in Nat
      /\ liquid \in [Owners -> Nat] /\ l1WwartClaim \in [Owners -> Nat]
      /\ wwartPortable \in [Owners -> Nat]
  BY AmountsType DEF TypeOK
<1>3. /\ liquid[o] + l1WwartClaim[o] <= BackingCapacity18(o)
      /\ wwartPortable[o] <= l1WwartClaim[o] + raised[o]
  BY DEF ClaimsCovered, ShareClaimed18
<1>4. liquid[o] + l1WwartClaim[o] + Remaining(o) = BackingCapacity18(o)
  BY <1>2, <1>3 DEF Remaining, Monus, ShareClaimed18
<1>5. CASE MintLiquid(o, amount)
  <2>1. Least(amount, Remaining(o)) \in Nat /\ Least(amount, Remaining(o)) <= Remaining(o)
    BY <1>1, <1>2, LeastProperties
  <2>2. /\ liquid' = [liquid EXCEPT ![o] = @ + Least(amount, Remaining(o))]
        /\ UNCHANGED <<capacityVars, l1WwartClaim, wwartPortable, raised>>
    BY <1>5 DEF MintLiquid
  <2>3. liquid'[o] + l1WwartClaim'[o] <= BackingCapacity18(o)
    BY <1>2, <1>4, <2>1, <2>2
  <2>. QED  BY <1>2, <1>3, <2>2, <2>3, CoverAtOne
<1>6. CASE SyncWwartClaim(o, amount)
  <2>. DEFINE target == Least(amount, Monus(BackingCapacity18(o), liquid[o]))
              after == IF target > l1WwartClaim[o] THEN target ELSE l1WwartClaim[o]
  <2>1. target \in Nat /\ target <= BackingCapacity18(o) - liquid[o]
    BY <1>1, <1>2, <1>3 DEF Least, Monus
  <2>2. /\ l1WwartClaim' = [l1WwartClaim EXCEPT ![o] = after]
        /\ UNCHANGED <<capacityVars, liquid, wwartPortable, raised>>
    BY <1>6 DEF SyncWwartClaim
  <2>3. /\ after \in Nat /\ l1WwartClaim[o] <= after
        /\ liquid[o] + after <= BackingCapacity18(o)
    BY <1>2, <1>3, <2>1
  <2>. HIDE DEF after
  <2>4. /\ liquid'[o] + l1WwartClaim'[o] <= BackingCapacity18(o)
        /\ wwartPortable'[o] <= l1WwartClaim'[o] + raised'[o]
    BY <1>2, <1>3, <2>2, <2>3
  <2>. QED  BY <1>2, <2>2, <2>4, CoverAtOne
<1>7. CASE MintWwart(o, amount)
  <2>1. Least(amount, Remaining(o)) \in Nat /\ Least(amount, Remaining(o)) <= Remaining(o)
    BY <1>1, <1>2, LeastProperties
  <2>2. /\ l1WwartClaim' = [l1WwartClaim EXCEPT ![o] = @ + Least(amount, Remaining(o))]
        /\ wwartPortable' = [wwartPortable EXCEPT ![o] = @ + Least(amount, Remaining(o))]
        /\ UNCHANGED <<capacityVars, liquid, raised>>
    BY <1>7 DEF MintWwart
  <2>3. /\ liquid'[o] + l1WwartClaim'[o] <= BackingCapacity18(o)
        /\ wwartPortable'[o] <= l1WwartClaim'[o] + raised'[o]
    BY <1>2, <1>3, <1>4, <2>1, <2>2
  <2>. QED  BY <1>2, <2>2, <2>3, CoverAtOne
<1>8. CASE BurnLiquid(o, amount)
  <2>1. /\ amount <= liquid[o]
        /\ liquid' = [liquid EXCEPT ![o] = @ - amount]
        /\ UNCHANGED <<capacityVars, l1WwartClaim, wwartPortable, raised>>
    BY <1>1, <1>2, <1>8 DEF BurnLiquid
  <2>2. liquid'[o] + l1WwartClaim'[o] <= BackingCapacity18(o)
    BY <1>1, <1>2, <1>3, <2>1
  <2>. QED  BY <1>2, <1>3, <2>1, <2>2, CoverAtOne
<1>9. CASE BurnWwart(o, amount)
  <2>1. amount <= l1WwartClaim[o]
    BY <1>1, <1>2, <1>9 DEF BurnWwart, Burnable, Least
  <2>2. /\ l1WwartClaim' = [l1WwartClaim EXCEPT ![o] = @ - amount]
        /\ wwartPortable' = [wwartPortable EXCEPT ![o] = @ - FromPortable(o, amount)]
        /\ UNCHANGED <<capacityVars, liquid, raised>>
    BY <1>9 DEF BurnWwart
  <2>3. /\ FromPortable(o, amount) \in Nat
        /\ FromPortable(o, amount) = amount
              \/ FromPortable(o, amount) = wwartPortable[o]
    BY <1>1, <1>2 DEF FromPortable, Least
  <2>4. /\ liquid'[o] + l1WwartClaim'[o] <= BackingCapacity18(o)
        /\ wwartPortable'[o] <= l1WwartClaim'[o] + raised'[o]
    BY <1>1, <1>2, <1>3, <2>1, <2>2, <2>3
  <2>. QED  BY <1>2, <2>2, <2>4, CoverAtOne
<1>11. ASSUME NEW toPool, PortalDepositWwart(o, amount, toPool)
       PROVE  ClaimsCovered'
  BY <1>3, <1>11, CoverAtOne DEF PortalDepositWwart
<1>12. CASE Refuse
  BY <1>3, <1>12, CoverAtOne DEF Refuse, claimVars
<1>. QED  BY <1>5, <1>6, <1>7, <1>8, <1>9, <1>11, <1>12
          DEF ClaimHandler, ClaimInput, BurnLiquidRefused, BurnWwartRefused

(* A withdrawal changes what is portable, and adds only what it raises.    *)
LEMMA WithdrawKeepsCover ==
  ASSUME TypeOK, ClaimsCovered, NEW o \in Owners, NEW amount \in Int,
         WithdrawInput(o, amount)
  PROVE  ClaimsCovered'
<1>1. /\ wwartPortable \in [Owners -> Nat] /\ raised \in [Owners -> Nat]
      /\ wwartPortable[o] \in Nat /\ raised[o] \in Nat /\ l1WwartClaim[o] \in Nat
  BY DEF TypeOK
<1>2. /\ liquid[o] + l1WwartClaim[o] <= BackingCapacity18(o)
      /\ wwartPortable[o] <= l1WwartClaim[o] + raised[o]
  BY DEF ClaimsCovered, ShareClaimed18
<1>3. ASSUME UNCHANGED <<capacityVars, liquid, l1WwartClaim, wwartPortable, raised>>
      PROVE  ClaimsCovered'
  BY <1>2, <1>3, CoverAtOne
<1>4. CASE Refuse
  BY <1>3, <1>4 DEF Refuse, claimVars
<1>5. ASSUME WithdrawWwart(o, amount, TRUE) PROVE ClaimsCovered'
  <2>1. PICK base \in 0 .. Monus(amount, 0) :
          /\ wwartPortable' = [wwartPortable EXCEPT ![o] = @ - (amount - base)]
          /\ raised' = [raised EXCEPT ![o] = @ + Monus(0, amount)]
    BY <1>5, WithdrawEffect
  <2>2. UNCHANGED <<capacityVars, liquid, l1WwartClaim>>
    BY <1>5, WithdrawEffect
  <2>3. Monus(amount, 0) \in Nat /\ amount = Monus(amount, 0) - Monus(0, amount)
        /\ Monus(0, amount) \in Nat
    BY DEF Monus
  <2>4. /\ wwartPortable'[o] = wwartPortable[o] - (amount - base)
        /\ raised'[o] = raised[o] + Monus(0, amount)
        /\ \A p \in Owners \ {o} : /\ wwartPortable'[p] = wwartPortable[p]
                                  /\ raised'[p] = raised[p]
    BY <1>1, <2>1
  <2>5. wwartPortable'[o] <= l1WwartClaim'[o] + raised'[o]
    <3>. DEFINE more == Monus(0, amount)
                paid == Monus(amount, 0)
    <3>1. base \in 0 .. paid /\ paid \in Nat /\ more \in Nat /\ amount = paid - more
      BY <2>3
    <3>2. wwartPortable[o] - (amount - base) <= l1WwartClaim[o] + (raised[o] + more)
      <4>. HIDE DEF more, paid
      <4>. QED  BY <1>1, <1>2, <3>1
    <3>. QED  BY <2>2, <2>4, <3>2
  <2>. QED  BY <1>2, <2>2, <2>4, <2>5, CoverAtOne
<1>6. ASSUME WithdrawWwart(o, amount, FALSE) PROVE ClaimsCovered'
  BY <1>3, <1>6, WithdrawEffect
<1>. QED  BY <1>4, <1>5, <1>6 DEF WithdrawInput, WithdrawRefused

(* A sweep only adds capacity.                                             *)
LEMMA SweepKeepsCover ==
  ASSUME TypeOK, BooksInv, ClaimsCovered, NEW sweep \in setting.sweeps,
         NEW o \in Owners, SweptFor(sweep, o), TypeOK', BooksInv'
  PROVE  ClaimsCovered'
<1>1. sweep.to \in Vaults /\ sweep.amountE8 \in Nat
  BY SettingType DEF TypeOK
<1>2. ASSUME NEW p \in Owners
      PROVE  /\ BackingCapacity18(p) <= BackingCapacity18(p)'
             /\ BackingCapacity18(p)' \in Nat
  <2>1. /\ spoofedMinted[p] \in Nat /\ spoofedBurned[p] \in Nat
        /\ spoofedMinted'[p] \in Nat /\ spoofedMinted[p] <= spoofedMinted'[p]
        /\ spoofedBurned'[p] = spoofedBurned[p]
    <3>1. spoofedMinted \in [Keys -> Nat] /\ spoofedBurned \in [Keys -> Nat]
      BY DEF TypeOK
    <3>2. spoofedMinted[p] \in Nat /\ spoofedBurned[p] \in Nat
      BY <3>1 DEF Keys
    <3>3. spoofedMinted'[p] = spoofedMinted[p]
            \/ spoofedMinted'[p] = spoofedMinted[p] + sweep.amountE8
      <4>1. /\ spoofedMinted'[o] = spoofedMinted[o] + sweep.amountE8
            /\ \A k \in Owners \ {o} : spoofedMinted'[k] = spoofedMinted[k]
        BY <1>1, <3>1, CountedProperties DEF SweptFor
      <4>. QED  BY <4>1
    <3>. QED  BY <1>1, <3>2, <3>3 DEF SweptFor
  <2>2. SpoofedOutstandingE8(p)' = Monus(spoofedMinted'[p], spoofedBurned'[p])
    BY Outstanding DEF BooksInv, SpoofedOutstandingE8, Monus, TypeOK, BooksAgree,
       Keys
  <2>3. SpoofedOutstandingE8(p) <= SpoofedOutstandingE8(p)'
    BY <2>1, <2>2, Outstanding DEF Monus, BooksInv
  <2>4. SpoofedOutstandingE8(p) \in Nat
    BY AmountsType
  <2>5. SpoofedOutstandingE8(p)' \in Nat
    BY <2>1, <2>2, MonusProperties
  <2>. QED  BY <2>3, <2>4, <2>5, TimesUnit DEF BackingCapacity18
<1>3. ASSUME NEW p \in Owners
      PROVE  /\ ShareClaimed18(p)' <= BackingCapacity18(p)'
             /\ wwartPortable'[p] <= l1WwartClaim'[p] + raised'[p]
  <2>1. /\ ShareClaimed18(p)' = ShareClaimed18(p)
        /\ wwartPortable'[p] = wwartPortable[p] /\ raised'[p] = raised[p]
        /\ l1WwartClaim'[p] = l1WwartClaim[p]
    BY DEF SweptFor, claimVars, ShareClaimed18
  <2>2. ShareClaimed18(p) <= BackingCapacity18(p)
    BY DEF ClaimsCovered
  <2>3. /\ ShareClaimed18(p) \in Nat /\ BackingCapacity18(p) \in Nat
        /\ BackingCapacity18(p)' \in Nat
        /\ BackingCapacity18(p) <= BackingCapacity18(p)'
    BY <1>2, AmountsType
  <2>. QED  BY <2>1, <2>2, <2>3 DEF ClaimsCovered
<1>. QED  BY <1>3 DEF ClaimsCovered

(* An unlock leaves enough for the claims, though it may take all that the *)
(* books have of the owner's capacity.                                     *)
LEMMA UnlockKeepsCover ==
  ASSUME TypeOK, BooksInv, ClaimsCovered, NEW sub \in Subs,
         NEW sender \in Owners, NEW e8 \in Nat, SubUnlock(sender, sub, e8),
         TypeOK', BooksInv'
  PROVE  ClaimsCovered'
<1>. DEFINE v == subLocks[sub].vault
<1>1. /\ v \in Vaults
      /\ spoofedBurned' = Counted(spoofedBurned, sender, v, e8)
      /\ spoofedBurned \in [Keys -> Nat] /\ spoofedMinted \in [Keys -> Nat]
      /\ UNCHANGED <<spoofedMinted, liquid, l1WwartClaim, wwartPortable, raised>>
  BY UnlockEffect DEF TypeOK, SubUnlock, claimVars
<1>2. /\ spoofedBurned'[sender] = spoofedBurned[sender] + e8
      /\ \A p \in Owners \ {sender} : spoofedBurned'[p] = spoofedBurned[p]
  <2>. HIDE DEF v
  <2>1. /\ Counted(spoofedBurned, sender, v, e8)[sender] = spoofedBurned[sender] + e8
        /\ \A p \in Owners \ {sender} :
             Counted(spoofedBurned, sender, v, e8)[p] = spoofedBurned[p]
    BY <1>1, CountedProperties
  <2>. QED  BY <1>1, <2>1
<1>3. ASSUME NEW p \in Owners
      PROVE  ShareClaimed18(p) <= BackingCapacity18(p)'
  <2>1. /\ spoofedMinted[p] \in Nat /\ spoofedBurned[p] \in Nat
        /\ SpoofedOutstandingE8(p) = Monus(spoofedMinted[p], spoofedBurned[p])
        /\ ShareClaimed18(p) \in Nat /\ BackingCapacity18(p) \in Nat
    BY <1>1, Outstanding, AmountsType DEF BooksInv, Keys
  <2>2. SpoofedOutstandingE8(p)' = Monus(spoofedMinted[p], spoofedBurned'[p])
    BY <1>1 DEF BooksInv, SpoofedOutstandingE8, Monus, TypeOK, BooksAgree, Keys
  <2>3. CASE p # sender
    BY <1>2, <2>1, <2>2, <2>3
       DEF BackingCapacity18, ClaimsCovered
  <2>4. CASE p = sender
    <3>. DEFINE left == SpoofedOutstandingE8(p)
    <3>1. ShareClaimed18(p) <= Monus(left * U, e8 * U)
      BY <2>4 DEF SubUnlock, CanUnlock, KeepsCover, BackingCapacity18
    <3>2. left \in Nat /\ SpoofedOutstandingE8(p)' = Monus(left, e8)
      BY <1>2, <2>1, <2>2, <2>4 DEF Monus
    <3>. HIDE DEF left
    <3>3. Monus(left * U, e8 * U) = Monus(left, e8) * U
      <4>1. CASE e8 <= left
        <5>1. (left - e8) * U = left * U - e8 * U /\ e8 * U <= left * U
          BY <3>2, <4>1, TimesUnit
        <5>. QED  BY <3>2, <4>1, <5>1, TimesUnit, MonusProperties
      <4>2. CASE left <= e8
        <5>1. left * U <= e8 * U /\ 0 * U = 0
          BY <3>2, <4>2, TimesUnit, UnitAssumption
        <5>. QED  BY <3>2, <4>2, <5>1, TimesUnit, MonusProperties
      <4>. QED  BY <3>2, <4>1, <4>2
    <3>. QED  BY <3>1, <3>2, <3>3 DEF BackingCapacity18
  <2>. QED  BY <2>3, <2>4
<1>. QED  BY <1>1, <1>3 DEF ClaimsCovered, ShareClaimed18

-----------------------------------------------------------------------------
(* The theorems that hold whatever inputs say.                             *)

VaultInv == TypeOK /\ BooksInv /\ ClaimsCovered

(* Steps that touch neither books nor claims.                              *)
LEMMA OthersKeepVaultInv ==
  ASSUME BooksInv, ClaimsCovered,
         UNCHANGED <<capacityVars, liquid, l1WwartClaim, wwartPortable, raised,
                     vaultReleaseState>>
  PROVE  BooksInv' /\ ClaimsCovered'
BY DEF BooksInv, BooksAgree, Released, ClaimsCovered, ShareClaimed18,
   BackingCapacity18, SpoofedOutstandingE8, capacityVars

(* At the start there is nothing to agree on.                              *)
LEMMA InitVaultInv == Init => VaultInv
<1>. SUFFICES ASSUME Init PROVE VaultInv
  OBVIOUS
<1>1. TypeOK
  BY InitType
<1>2. BooksInv
  <2>. DEFINE zero == [k \in Keys |-> 0]
  <2>1. zero \in [Keys -> Nat] /\ \A k \in Keys : zero[k] = 0
    OBVIOUS
  <2>2. Owners \in SUBSET Keys /\ Vaults \in SUBSET Keys
    BY DEF Keys
  <2>3. spoofedMinted = zero /\ spoofedBurned = zero
    BY DEF Init
  <2>. HIDE DEF zero
  <2>4. SumFunctionOnSet(zero, Owners) = 0 /\ SumFunctionOnSet(zero, Vaults) = 0
    BY <2>1, <2>2, OwnersAssumption, VaultsAssumption, SumOfZero
  <2>5. /\ \A o \in Owners : userMintHistories[o] = spoofedMinted[o]
        /\ userBurnHistories = spoofedBurned
        /\ \A v \in Vaults : Released(v) = spoofedBurned[v]
    BY DEF Init, Released, Keys
  <2>. QED  BY <2>3, <2>4, <2>5 DEF BooksInv, BooksAgree
<1>3. ClaimsCovered
  <2>1. \A o \in Owners : BackingCapacity18(o) \in Nat
    BY <1>1, AmountsType
  <2>. QED  BY <2>1 DEF Init, ClaimsCovered, ShareClaimed18
<1>. QED  BY <1>1, <1>2, <1>3 DEF VaultInv

(* Every step keeps books and claims.                                      *)
LEMMA NextVaultInv == VaultInv /\ [Next]_vars => VaultInv'
<1>. SUFFICES ASSUME VaultInv, [Next]_vars PROVE VaultInv'
  OBVIOUS
<1>. USE DEF VaultInv
<1>1. TypeOK'
  BY NextType
<1>2. /\ setting.senders \subseteq Owners /\ setting.amountsE8 \subseteq Nat
      /\ setting.withdrawals18 \subseteq Int
  BY SettingType DEF TypeOK
<1>3. ASSUME NEW o \in Owners, NEW amount \in setting.amounts18,
             ClaimHandler(o, amount)
      PROVE  BooksInv' /\ ClaimsCovered'
  <2>1. UNCHANGED <<capacityVars, vaultReleaseState>>
    BY <1>3 DEF ClaimHandler, ClaimInput, MintLiquid, SyncWwartClaim, MintWwart,
       BurnLiquid, BurnWwart, PortalDepositWwart, BurnLiquidRefused,
       BurnWwartRefused, Refuse, lockVars
  <2>2. BooksInv'
    BY <2>1 DEF BooksInv, BooksAgree, Released, capacityVars
  <2>. QED  BY <1>3, <2>2, ClaimHandlerKeepsCover
<1>4. ASSUME NEW sub \in Subs, VaultHandler(sub) PROVE BooksInv' /\ ClaimsCovered'
  <2>1. ASSUME NEW sender \in Owners, NEW e8 \in Nat, SubUnlock(sender, sub, e8)
        PROVE  BooksInv' /\ ClaimsCovered'
    BY <1>1, <2>1, UnlockKeepsBooks, UnlockKeepsCover
  <2>2. ASSUME NEW o, NEW vault, CreateVault(o, sub, vault)
        PROVE  BooksInv' /\ ClaimsCovered'
    BY <2>2, OthersKeepVaultInv DEF CreateVault, claimVars
  <2>3. ASSUME NEW spelling, NEW o, NEW vault, SubLock(sub, spelling, o, vault)
        PROVE  BooksInv' /\ ClaimsCovered'
    BY <2>3, OthersKeepVaultInv DEF SubLock, claimVars
  <2>4. CASE Refuse
    BY <2>4, OthersKeepVaultInv DEF Refuse, claimVars, lockVars
  <2>. QED  BY <1>2, <1>4, <2>1, <2>2, <2>3, <2>4 DEF VaultHandler, UnlockRefused
<1>5. ASSUME NEW sweep \in setting.sweeps, NEW spelling \in setting.spellings,
             SweepHandler(sweep, spelling)
      PROVE  BooksInv' /\ ClaimsCovered'
  <2>1. CASE Refuse
    BY <2>1, OthersKeepVaultInv DEF Refuse, claimVars, lockVars
  <2>2. ASSUME NEW o \in Owners, SweptFor(sweep, o)
        PROVE  BooksInv' /\ ClaimsCovered'
    BY <1>1, <2>2, SweepKeepsBooks, SweepKeepsCover
  <2>. QED  BY <1>5, <2>1, <2>2, SweepEffect
<1>6. CASE UNCHANGED <<capacityVars, claimVars, lockVars>>
  <2>1. UNCHANGED <<capacityVars, liquid, l1WwartClaim, wwartPortable, raised,
                    vaultReleaseState>>
    BY <1>6 DEF claimVars, lockVars
  <2>. QED  BY <1>1, <2>1, OthersKeepVaultInv
<1>7. CASE UNCHANGED vars
  BY <1>6, <1>7 DEF vars
<1>8. ASSUME NEW o \in Owners, NEW amount \in Int, WithdrawInput(o, amount)
      PROVE  BooksInv' /\ ClaimsCovered'
  <2>1. UNCHANGED <<capacityVars, vaultReleaseState>>
    BY <1>8, WithdrawEffect DEF WithdrawInput, WithdrawRefused, Refuse, lockVars
  <2>2. BooksInv'
    BY <2>1 DEF BooksInv, BooksAgree, Released, capacityVars
  <2>. QED  BY <1>8, <2>2, WithdrawKeepsCover
<1>. QED  BY <1>1, <1>2, <1>3, <1>4, <1>5, <1>6, <1>7, <1>8
          DEF Next, OtherInput, MintRefused, Refuse, PathARelease, L1Transfer

(* WLIQ and wWART claims together stay within the WART that is locked for  *)
(* their owner, and withdrawing mints no more than was claimed and than    *)
(* withdrawals of negative amounts added: mint, sync, burn, withdraw and   *)
(* partial unlocks may come in any order.                                  *)
THEOREM ClaimsAreCovered == Spec => []ClaimsCovered
<1>1. VaultInv => ClaimsCovered
  BY DEF VaultInv
<1>. QED  BY <1>1, InitVaultInv, NextVaultInv, PTL DEF Spec

(* The three records of an owner's capacity, and the tickets that were     *)
(* issued, never drift apart.                                              *)
THEOREM BooksAlwaysAgree == Spec => []BooksAgree
<1>1. VaultInv => BooksAgree
  BY DEF VaultInv, BooksInv
<1>. QED  BY <1>1, InitVaultInv, NextVaultInv, PTL DEF Spec

(* A rejected input leaves capacity, claims and locks as they were: also   *)
(* a withdrawal that was debited before its voucher failed.                *)
THEOREM RejectsMoveNothing == Spec => RejectKeepsBalances
<1>1. TypeOK /\ [Next]_vars =>
        [status' = "reject" => UNCHANGED <<capacityVars, claimVars, lockVars>>]_vars
  <2>. SUFFICES ASSUME TypeOK, Next, status' = "reject"
                PROVE  UNCHANGED <<capacityVars, claimVars, lockVars>>
    OBVIOUS
  <2>1. /\ setting.senders \subseteq Owners /\ setting.amounts18 \subseteq Nat
        /\ setting.withdrawals18 \subseteq Int
    BY SettingType DEF TypeOK
  <2>2. ASSUME NEW o \in Owners, NEW amount \in Int, WithdrawInput(o, amount)
        PROVE  UNCHANGED <<capacityVars, claimVars, lockVars>>
    <3>1. CASE Refuse
      BY <3>1 DEF Refuse
    <3>2. ASSUME NEW vouchersOk \in BOOLEAN, WithdrawWwart(o, amount, vouchersOk)
          PROVE  UNCHANGED <<capacityVars, claimVars, lockVars>>
      BY <3>2, WithdrawEffect DEF claimVars
    <3>. QED  BY <2>2, <3>1, <3>2 DEF WithdrawInput, WithdrawRefused
  <2>3. ASSUME NEW o \in Owners, NEW amount \in Nat, ClaimHandler(o, amount)
        PROVE  UNCHANGED <<capacityVars, claimVars, lockVars>>
    BY <2>3 DEF ClaimHandler, ClaimInput, MintLiquid, SyncWwartClaim,
       MintWwart, BurnLiquid, BurnWwart, PortalDepositWwart, BurnLiquidRefused,
       BurnWwartRefused, Refuse, Accept
  <2>4. ASSUME NEW sub \in Subs, VaultHandler(sub)
        PROVE  UNCHANGED <<capacityVars, claimVars, lockVars>>
    BY <2>4 DEF VaultHandler, CreateVault, SubLock, SubUnlock, UnlockRefused,
       Refuse, Accept
  <2>5. ASSUME NEW sweep \in setting.sweeps, NEW spelling,
               SweepHandler(sweep, spelling)
        PROVE  UNCHANGED <<capacityVars, claimVars, lockVars>>
    BY <2>5 DEF SweepHandler, SweepLock, SweepRefused, Refuse, Accept
  <2>. QED  BY <2>1, <2>2, <2>3, <2>4, <2>5
            DEF Next, OtherInput, MintRefused, Refuse, PathARelease, L1Transfer
<1>. QED  BY <1>1, TypeCorrect, PTL DEF Spec, RejectKeepsBalances

-----------------------------------------------------------------------------
(* Whose the sub-wallets are.                                              *)

(* Locks, announcements and metadata name an owner that inputs name for    *)
(* the sub-wallet, and locks a vault that a sweep went to.                 *)
AttributedInv ==
  /\ \A sub \in Subs : subLocks[sub] # NoLock =>
       /\ subLocks[sub].owner \in setting.subOwners[sub]
       /\ \E s \in setting.sweeps : s.from = sub /\ s.to = subLocks[sub].vault
  /\ \A sub \in Subs, spelling \in Spellings :
       pendingLocks[<<sub, spelling>>] # NoPending =>
         pendingLocks[<<sub, spelling>>].owner \in setting.subOwners[sub]
  /\ \A o \in Owners : personalVaults[o] # NoPersonal =>
       o \in setting.subOwners[personalVaults[o].sub]

(* So a sweep is booked for one that inputs name.                          *)
LEMMA ContextsAttributed ==
  ASSUME TypeOK, AttributedInv, NEW sweep \in setting.sweeps,
         NEW spelling \in Spellings,
         NEW named \in setting.subOwners[sweep.from] \cup {NoOwner},
         NEW sender \in setting.subOwners[sweep.from],
         NEW context \in Contexts(sweep, spelling, named, sender)
  PROVE  context.owner \in setting.subOwners[sweep.from]
<1>1. sweep.from \in Subs
  BY SettingType DEF TypeOK
<1>2. CASE Announced(sweep.from, spelling) # NoPending
  BY <1>1, <1>2, SpellingsAssumption DEF Contexts, Announced, AttributedInv
<1>3. CASE Announced(sweep.from, spelling) = NoPending
  <2>1. DirectOwners(sweep.from, named, sender) \subseteq setting.subOwners[sweep.from]
    BY DEF DirectOwners, AttributedInv
  <2>. QED  BY <1>3, <2>1 DEF Contexts
<1>. QED  BY <1>2, <1>3

(* A sweep keeps it so.                                                    *)
LEMMA SweepAttributed ==
  ASSUME TypeOK, AttributedInv, UNCHANGED setting,
         NEW sweep \in setting.sweeps, NEW spelling \in setting.spellings,
         SweepHandler(sweep, spelling)
  PROVE  /\ AttributedInv'
         /\ Refuse \/ \E o \in setting.subOwners[sweep.from] : SweptFor(sweep, o)
<1>1. /\ sweep.from \in Subs /\ sweep.to \in Vaults /\ spelling \in Spellings
      /\ sweep.amountE8 \in Nat
      /\ setting.subOwners[sweep.from] \subseteq Owners
  BY SettingType DEF TypeOK
<1>2. CASE SweepRefused(sweep, spelling)
  BY <1>2 DEF SweepRefused, Refuse, AttributedInv, lockVars
<1>3. ASSUME NEW named \in setting.subOwners[sweep.from] \cup {NoOwner},
             NEW sender \in setting.subOwners[sweep.from], NEW indexGiven \in BOOLEAN,
             SweepLock(sweep, spelling, named, sender, indexGiven)
      PROVE  /\ AttributedInv'
             /\ \E o \in setting.subOwners[sweep.from] : SweptFor(sweep, o)
  <2>1. PICK context \in Contexts(sweep, spelling, named, sender) :
          /\ SweptFor(sweep, context.owner)
          /\ pendingLocks' = [pendingLocks EXCEPT
               ![<<sweep.from, spelling>>] = NoPending,
               ![<<sweep.from, Norm>>] = NoPending]
          /\ personalVaults' = [personalVaults EXCEPT
               ![context.owner] = FundedPersonal(context.owner, sweep, indexGiven)]
    BY <1>3 DEF SweepLock, SweptFor
  <2>. DEFINE o == context.owner
  <2>2. o \in setting.subOwners[sweep.from] /\ o \in Owners
    BY <1>1, ContextsAttributed
  <2>3. \A sub \in Subs : subLocks'[sub] # NoLock =>
          /\ subLocks'[sub].owner \in setting.subOwners[sub]
          /\ \E s \in setting.sweeps : s.from = sub /\ s.to = subLocks'[sub].vault
    <3>1. /\ subLocks'[sweep.from].owner = o
          /\ subLocks'[sweep.from].vault = sweep.to
          /\ \A sub \in Subs \ {sweep.from} : subLocks'[sub] = subLocks[sub]
      BY <1>1, <2>1 DEF SweptFor, TypeOK
    <3>. QED  BY <2>2, <3>1 DEF AttributedInv
  <2>4. \A sub \in Subs, sp \in Spellings :
          pendingLocks'[<<sub, sp>>] # NoPending =>
            pendingLocks'[<<sub, sp>>].owner \in setting.subOwners[sub]
    <3>1. \A sub \in Subs, sp \in Spellings :
            pendingLocks'[<<sub, sp>>] \in {NoPending, pendingLocks[<<sub, sp>>]}
      BY <2>1 DEF TypeOK
    <3>. QED  BY <3>1 DEF AttributedInv
  <2>5. \A p \in Owners : personalVaults'[p] # NoPersonal =>
          p \in setting.subOwners[personalVaults'[p].sub]
    <3>1. /\ personalVaults'[o] = FundedPersonal(o, sweep, indexGiven)
          /\ \A p \in Owners \ {o} : personalVaults'[p] = personalVaults[p]
      BY <2>1, <2>2 DEF TypeOK
    <3>2. CASE personalVaults[o] # NoPersonal
      <4>. DEFINE p == personalVaults[o]
                  n == p.fundedE8 + sweep.amountE8
      <4>1. p \in Personal
        BY <2>2, <3>2 DEF TypeOK
      <4>2. n \in Nat
        BY <1>1, <4>1 DEF Personal
      <4>. DEFINE after == [p EXCEPT !.fundedE8 = n, !.locked = TRUE,
                                     !.vault = sweep.to]
      <4>3. FundedPersonal(o, sweep, indexGiven) = after
        BY <3>2, Zenon DEF FundedPersonal
      <4>. HIDE DEF n, p
      <4>4. after.sub = p.sub
        BY <1>1, <4>1, <4>2 DEF Personal
      <4>. HIDE DEF after
      <4>5. FundedPersonal(o, sweep, indexGiven).sub = p.sub
        BY <4>3, <4>4
      <4>. QED  BY <2>2, <3>1, <3>2, <4>5 DEF AttributedInv, p
    <3>3. CASE personalVaults[o] = NoPersonal
      <4>1. FundedPersonal(o, sweep, indexGiven) # NoPersonal =>
              FundedPersonal(o, sweep, indexGiven).sub = sweep.from
        BY <3>3 DEF FundedPersonal
      <4>. QED  BY <2>2, <3>1, <4>1 DEF AttributedInv
    <3>. QED  BY <3>2, <3>3
  <2>. QED  BY <2>1, <2>2, <2>3, <2>4, <2>5 DEF AttributedInv
<1>. QED  BY <1>2, <1>3 DEF SweepHandler, SweepRefused

(* So do the other handlers of vaults.                                     *)
LEMMA VaultHandlerAttributed ==
  ASSUME TypeOK, AttributedInv, UNCHANGED setting, NEW sub \in Subs,
         VaultHandler(sub)
  PROVE  AttributedInv'
<1>1. /\ setting.subOwners[sub] \subseteq Owners
      /\ setting.spellings \subseteq Spellings
      /\ setting.senders \subseteq Owners /\ setting.amountsE8 \subseteq Nat
  BY SettingType DEF TypeOK
<1>2. ASSUME NEW o \in setting.subOwners[sub], NEW vault, CreateVault(o, sub, vault)
      PROVE  AttributedInv'
  <2>1. \A p \in Owners : personalVaults'[p] # NoPersonal =>
          p \in setting.subOwners[personalVaults'[p].sub]
    BY <1>1, <1>2 DEF CreateVault, AttributedInv, TypeOK
  <2>. QED  BY <1>2, <2>1 DEF CreateVault, AttributedInv
<1>3. ASSUME NEW spelling \in Spellings, NEW o \in setting.subOwners[sub],
             NEW vault, SubLock(sub, spelling, o, vault)
      PROVE  AttributedInv'
  <2>1. /\ pendingLocks'[<<sub, spelling>>] = [owner |-> o, vault |-> vault]
        /\ \A other \in Subs, sp \in Spellings : <<other, sp>> # <<sub, spelling>> =>
             pendingLocks'[<<other, sp>>] = pendingLocks[<<other, sp>>]
    BY <1>3 DEF SubLock, TypeOK
  <2>2. \A other \in Subs, sp \in Spellings :
          pendingLocks'[<<other, sp>>] # NoPending =>
            pendingLocks'[<<other, sp>>].owner \in setting.subOwners[other]
    <3>. SUFFICES ASSUME NEW other \in Subs, NEW sp \in Spellings,
                         pendingLocks'[<<other, sp>>] # NoPending
                  PROVE  pendingLocks'[<<other, sp>>].owner \in setting.subOwners[other]
      OBVIOUS
    <3>1. CASE <<other, sp>> = <<sub, spelling>>
      <4>1. other = sub /\ pendingLocks'[<<other, sp>>].owner = o
        BY <2>1, <3>1
      <4>. QED  BY <4>1
    <3>2. CASE <<other, sp>> # <<sub, spelling>>
      BY <2>1, <3>2 DEF AttributedInv
    <3>. QED  BY <3>1, <3>2
  <2>. QED  BY <1>3, <2>2 DEF SubLock, AttributedInv
<1>4. ASSUME NEW sender \in Owners, NEW e8 \in Nat, SubUnlock(sender, sub, e8)
      PROVE  AttributedInv'
  <2>1. \A other \in Subs : subLocks'[other] # NoLock =>
          /\ subLocks[other] # NoLock
          /\ subLocks'[other].owner = subLocks[other].owner
          /\ subLocks'[other].vault = subLocks[other].vault
    BY <1>4, UnlockEffect, NoneIsNone
  <2>2. \A p \in Owners : personalVaults'[p] # NoPersonal =>
          /\ personalVaults[p] # NoPersonal
          /\ personalVaults'[p].sub = personalVaults[p].sub
    <3>1. CASE personalVaults[sender] = NoPersonal
      BY <1>4, <3>1 DEF SubUnlock
    <3>2. CASE personalVaults[sender] # NoPersonal
      <4>. DEFINE p == personalVaults[sender]
                  n == Monus(p.fundedE8, e8)
                  b == p.locked /\ e8 # subLocks[sub].minted
                  after == [p EXCEPT !.fundedE8 = n, !.locked = b]
      <4>1. p \in Personal
        BY <3>2 DEF TypeOK
      <4>2. personalVaults' = [personalVaults EXCEPT ![sender] = after]
        BY <1>4, <3>2, <4>1 DEF SubUnlock, TypeOK
      <4>3. n \in Nat /\ b \in BOOLEAN
        BY <4>1, MonusProperties DEF Personal
      <4>. HIDE DEF n, b, p
      <4>4. after.sub = p.sub
        BY <4>1, <4>3 DEF Personal
      <4>. HIDE DEF after
      <4>. QED  BY <3>2, <4>2, <4>4 DEF p, TypeOK
    <3>. QED  BY <3>1, <3>2
  <2>3. \A other \in Subs : subLocks'[other] # NoLock =>
          /\ subLocks'[other].owner \in setting.subOwners[other]
          /\ \E s \in setting.sweeps : s.from = other /\ s.to = subLocks'[other].vault
    BY <2>1 DEF AttributedInv
  <2>4. \A p \in Owners : personalVaults'[p] # NoPersonal =>
          p \in setting.subOwners[personalVaults'[p].sub]
    BY <2>2 DEF AttributedInv
  <2>5. UNCHANGED <<setting, pendingLocks>>
    BY <1>4 DEF SubUnlock
  <2>. QED  BY <2>3, <2>4, <2>5 DEF AttributedInv
<1>5. CASE Refuse
  BY <1>5 DEF Refuse, AttributedInv, lockVars
<1>. QED  BY <1>1, <1>2, <1>3, <1>4, <1>5 DEF VaultHandler, UnlockRefused

-----------------------------------------------------------------------------
(* Collateral is counted once.                                             *)

(* What sub-wallets are locked for to an owner or on a vault.              *)
Held(k) == [sub \in Subs |->
              IF /\ subLocks[sub] # NoLock
                 /\ subLocks[sub].owner = k \/ subLocks[sub].vault = k
              THEN LockedBefore(sub) ELSE 0]

HeldSum(k) == SumFunctionOnSet(Held(k), Subs)

(* What is counted for a key and not given up is what is locked for it.    *)
LocksInv ==
  Undisputed => \A k \in Keys : spoofedMinted[k] = spoofedBurned[k] + HeldSum(k)

(* A vault is counted for what was swept to it, once for each sweep.       *)
SweptInv == Honest => \A v \in Vaults : spoofedMinted[v] = Swept(v)

(* Amounts locked are amounts.                                             *)
LEMMA HeldType ==
  ASSUME TypeOK, NEW k
  PROVE  Held(k) \in [Subs -> Nat] /\ HeldSum(k) \in Nat
<1>1. Held(k) \in [Subs -> Nat]
  BY LockedBeforeType DEF Held
<1>. QED  BY <1>1, SubsAssumption, SumType DEF HeldSum

(* Undisputed, there is one owner that inputs name for a sub-wallet.       *)
LEMMA OneOwner ==
  ASSUME TypeOK, Undisputed, NEW sub \in Subs,
         NEW o \in setting.subOwners[sub], NEW p \in setting.subOwners[sub]
  PROVE  o = p
<1>. SUFFICES ASSUME o # p PROVE FALSE
  OBVIOUS
<1>. DEFINE S == setting.subOwners[sub]
<1>1. IsFiniteSet(S)
  <2>1. S \subseteq Owners
    BY SettingType DEF TypeOK
  <2>. QED  BY <2>1, OwnersAssumption, FS_Subset
<1>2. IsFiniteSet({p}) /\ Cardinality({p}) = 1
  BY FS_Singleton
<1>3. Cardinality({p} \cup {o}) = 2
  <2>1. o \notin {p}
    OBVIOUS
  <2>2. Cardinality({p} \cup {o}) = Cardinality({p}) + 1
    BY <1>2, <2>1, FS_AddElement
  <2>. QED  BY <1>2, <2>2
<1>4. Cardinality({p} \cup {o}) <= Cardinality(S)
  <2>1. {p} \cup {o} \subseteq S
    OBVIOUS
  <2>. HIDE DEF S
  <2>. QED  BY <1>1, <2>1, FS_Subset
<1>5. Cardinality(S) <= 1 /\ Cardinality(S) \in Nat
  BY <1>1, FS_CardinalityType DEF Undisputed
<1>. QED  BY <1>3, <1>4, <1>5

(* A sweep counts for its owner and its vault what it locks.               *)
LEMMA SweepKeepsLocks ==
  ASSUME TypeOK, AttributedInv, LocksInv, UNCHANGED setting,
         NEW sweep \in setting.sweeps, NEW o \in setting.subOwners[sweep.from],
         SweptFor(sweep, o), TypeOK'
  PROVE  LocksInv'
<1>. SUFFICES ASSUME Undisputed
              PROVE  \A k \in Keys :
                       spoofedMinted'[k] = spoofedBurned'[k] + HeldSum(k)'
  BY DEF LocksInv, Undisputed, Honest
<1>. DEFINE sub == sweep.from
            v == sweep.to
            e8 == sweep.amountE8
<1>1. /\ sub \in Subs /\ v \in Vaults /\ e8 \in Nat
      /\ setting.subOwners[sub] \subseteq Owners /\ o \in Owners
  BY SettingType DEF TypeOK
<1>2. subLocks[sub] # NoLock => subLocks[sub].owner = o /\ subLocks[sub].vault = v
  <2>. HAVE subLocks[sub] # NoLock
  <2>1. subLocks[sub].owner \in setting.subOwners[sub]
    BY <1>1 DEF AttributedInv
  <2>2. PICK s \in setting.sweeps : s.from = sub /\ s.to = subLocks[sub].vault
    BY <1>1 DEF AttributedInv
  <2>. QED  BY <1>1, <2>1, <2>2, OneOwner DEF Undisputed
<1>3. /\ subLocks'[sub] = [locked |-> TRUE, owner |-> o, vault |-> v,
                           minted |-> LockedBefore(sub) + e8]
      /\ \A s \in Subs \ {sub} : subLocks'[s] = subLocks[s]
  BY <1>1 DEF SweptFor, TypeOK
<1>4. LockedBefore(sub) \in Nat /\ (subLocks[sub] = NoLock => LockedBefore(sub) = 0)
  BY <1>1, LockedBeforeType DEF LockedBefore
<1>5. /\ subLocks'[sub] # NoLock /\ subLocks'[sub].owner = o
      /\ subLocks'[sub].vault = v
      /\ subLocks'[sub].minted = LockedBefore(sub) + e8
  <2>1. subLocks'[sub] \in Lock
    BY <1>1, <1>3, <1>4 DEF Lock
  <2>2. subLocks'[sub] # NoLock
    BY <2>1, NoneIsNone
  <2>. QED  BY <1>3, <2>2
<1>6. o # v
  BY <1>1, VaultsAssumption
<1>7. ASSUME NEW k \in Keys
      PROVE  HeldSum(k)' = HeldSum(k) + (IF k \in {o, v} THEN e8 ELSE 0)
  <2>. DEFINE n == IF k \in {o, v} THEN e8 ELSE 0
              h == Held(k)
              h2 == Held(k)'
  <2>1. h \in [Subs -> Nat] /\ h2 \in [Subs -> Nat]
    <3>1. h2 \in [Subs -> Nat]
      BY DEF TypeOK, Held, LockedBefore, Lock
    <3>. QED  BY <3>1, HeldType
  <2>2. h2[sub] = h[sub] + n
    BY <1>1, <1>2, <1>4, <1>5 DEF Held, LockedBefore
  <2>3. \A s \in Subs \ {sub} : h2[s] = h[s]
    BY <1>3 DEF Held, LockedBefore
  <2>4. n \in Nat
    BY <1>1
  <2>. HIDE DEF n, h, h2
  <2>5. SumFunctionOnSet(h2, Subs) = SumFunctionOnSet(h, Subs) + n
    BY <1>1, <2>1, <2>2, <2>3, <2>4, SubsAssumption, SumRaised
  <2>. QED  BY <2>5 DEF HeldSum, n, h, h2
<1>8. ASSUME NEW k \in Keys
      PROVE  /\ spoofedMinted'[k] = spoofedMinted[k] + (IF k \in {o, v} THEN e8 ELSE 0)
             /\ spoofedMinted[k] \in Nat /\ spoofedBurned[k] \in Nat
             /\ spoofedBurned'[k] = spoofedBurned[k]
  BY <1>1, <1>6 DEF SweptFor, Counted, TypeOK
<1>9. \A k \in Keys : spoofedMinted[k] = spoofedBurned[k] + HeldSum(k)
  BY DEF LocksInv
<1>. QED  BY <1>1, <1>7, <1>8, <1>9, HeldType

(* An unlock gives up, for both, what it takes from the lock.              *)
LEMMA UnlockKeepsLocks ==
  ASSUME TypeOK, LocksInv, UNCHANGED setting, NEW sub \in Subs,
         NEW sender \in Owners, NEW e8 \in Nat, SubUnlock(sender, sub, e8), TypeOK'
  PROVE  LocksInv'
<1>. SUFFICES ASSUME Undisputed
              PROVE  \A k \in Keys :
                       spoofedMinted'[k] = spoofedBurned'[k] + HeldSum(k)'
  BY DEF LocksInv, Undisputed, Honest
<1>. DEFINE v == subLocks[sub].vault
<1>1. /\ v \in Vaults /\ subLocks[sub] # NoLock /\ subLocks'[sub] # NoLock
      /\ subLocks[sub].owner = sender /\ subLocks'[sub].owner = sender
      /\ subLocks'[sub].vault = v
      /\ subLocks[sub].minted \in Nat /\ e8 <= subLocks[sub].minted
      /\ subLocks'[sub].minted = subLocks[sub].minted - e8
      /\ \A s \in Subs \ {sub} : subLocks'[s] = subLocks[s]
  BY UnlockEffect, NoneIsNone
<1>2. sender # v
  BY <1>1, VaultsAssumption
<1>3. ASSUME NEW k \in Keys
      PROVE  HeldSum(k) = HeldSum(k)' + (IF k \in {sender, v} THEN e8 ELSE 0)
  <2>. DEFINE n == IF k \in {sender, v} THEN e8 ELSE 0
              h == Held(k)
              h2 == Held(k)'
  <2>1. h \in [Subs -> Nat] /\ h2 \in [Subs -> Nat]
    <3>1. h2 \in [Subs -> Nat]
      BY DEF TypeOK, Held, LockedBefore, Lock
    <3>. QED  BY <3>1, HeldType
  <2>2. h[sub] = h2[sub] + n
    BY <1>1 DEF Held, LockedBefore
  <2>3. \A s \in Subs \ {sub} : h[s] = h2[s]
    BY <1>1 DEF Held, LockedBefore
  <2>4. n \in Nat
    OBVIOUS
  <2>. HIDE DEF n, h, h2
  <2>5. SumFunctionOnSet(h, Subs) = SumFunctionOnSet(h2, Subs) + n
    BY <2>1, <2>2, <2>3, <2>4, SubsAssumption, SumRaised
  <2>. QED  BY <2>5 DEF HeldSum, n, h, h2
<1>4. ASSUME NEW k \in Keys
      PROVE  /\ spoofedBurned'[k] = spoofedBurned[k] + (IF k \in {sender, v} THEN e8 ELSE 0)
             /\ spoofedMinted[k] \in Nat /\ spoofedBurned[k] \in Nat
             /\ spoofedMinted'[k] = spoofedMinted[k]
             /\ HeldSum(k)' \in Nat
  <2>1. Held(k)' \in [Subs -> Nat]
    BY DEF TypeOK, Held, LockedBefore, Lock
  <2>2. HeldSum(k)' \in Nat
    BY <2>1, SubsAssumption, SumType DEF HeldSum
  <2>. QED  BY <1>1, <1>2, <2>2 DEF SubUnlock, Counted, TypeOK
<1>5. \A k \in Keys : spoofedMinted[k] = spoofedBurned[k] + HeldSum(k)
  BY DEF LocksInv
<1>. QED  BY <1>1, <1>3, <1>4, <1>5, HeldType

(* A vault is counted for each sweep once.                                 *)
LEMMA SweepKeepsSwept ==
  ASSUME TypeOK, SweptInv, UNCHANGED setting, NEW sweep \in setting.sweeps,
         NEW o \in Owners, SweptFor(sweep, o)
  PROVE  SweptInv'
<1>. SUFFICES ASSUME Honest, NEW w \in Vaults
              PROVE  spoofedMinted'[w] = Swept(w)'
  BY DEF SweptInv, Honest
<1>. DEFINE v == sweep.to
            before == {s \in proven \cap setting.happened : s.to = w}
            after == {s \in proven' \cap setting.happened : s.to = w}
<1>1. /\ v \in Vaults /\ sweep.amountE8 \in Nat
      /\ IsFiniteSet(setting.sweeps) /\ AmountE8 \in [setting.sweeps -> Nat]
      /\ proven \subseteq setting.sweeps /\ spoofedMinted[w] \in Nat
      /\ spoofedMinted \in [Keys -> Nat]
  BY SettingType DEF TypeOK, AmountE8, Keys
<1>2. /\ sweep \notin proven /\ proven' = proven \cup {sweep}
      /\ sweep \in setting.happened
      /\ spoofedMinted' = Counted(spoofedMinted, o, v, sweep.amountE8)
  BY DEF SweptFor, Honest
<1>3. Swept(w)' = SumFunctionOnSet(AmountE8, after)
  BY DEF Swept, AmountE8
<1>4. spoofedMinted[w] = SumFunctionOnSet(AmountE8, before)
  BY DEF SweptInv, Swept
<1>5. CASE w = v
  <2>1. /\ sweep \in after /\ after \ {sweep} = before
        /\ after \in SUBSET setting.sweeps
    BY <1>1, <1>2, <1>5
  <2>2. IsFiniteSet(after)
    BY <1>1, <2>1, FS_Subset
  <2>3. AmountE8[sweep] = sweep.amountE8
    BY DEF AmountE8
  <2>. HIDE DEF before, after
  <2>4. SumFunctionOnSet(AmountE8, after)
          = AmountE8[sweep] + SumFunctionOnSet(AmountE8, after \ {sweep})
    BY <1>1, <2>1, <2>2, SumRemove
  <2>5. spoofedMinted'[w] = spoofedMinted[w] + sweep.amountE8
    BY <1>1, <1>2, <1>5, CountedProperties
  <2>6. spoofedMinted'[w] = SumFunctionOnSet(AmountE8, after)
    <3>1. SumFunctionOnSet(AmountE8, after) = sweep.amountE8 + spoofedMinted[w]
      BY <1>4, <2>1, <2>3, <2>4
    <3>. QED  BY <1>1, <2>5, <3>1
  <2>. QED  BY <1>3, <2>6
<1>6. CASE w # v
  <2>1. after = before
    BY <1>2, <1>6
  <2>2. \A k \in Vaults \ {v} : spoofedMinted'[k] = spoofedMinted[k]
    BY <1>1, <1>2, CountedProperties
  <2>. QED  BY <1>3, <1>4, <1>6, <2>1, <2>2
<1>. QED  BY <1>5, <1>6

-----------------------------------------------------------------------------
(* Tokens are claims.                                                      *)

(* Tokens that exist or can be had without giving up a claim were claimed, *)
(* or come from the pool.                                                  *)
TokensInv ==
  TokenSupply <= setting.poolSupply + SumFunction(l1WwartClaim) + SumFunction(raised)

(* A sum over the owners.                                                  *)
LEMMA OwnerSum ==
  ASSUME NEW f \in [Owners -> Nat]
  PROVE  /\ SumFunction(f) = SumFunctionOnSet(f, Owners)
         /\ SumFunction(f) \in Nat
<1>1. SumFunction(f) = SumFunctionOnSet(f, Owners)
  BY DEF SumFunction, SumFunctionOnSet, FoldFunction
<1>. QED  BY <1>1, OwnersAssumption, SumType

(* Sums of what changes for one owner.                                     *)
LEMMA OwnerSumAtOne ==
  ASSUME NEW f \in [Owners -> Nat], NEW g \in [Owners -> Nat], NEW o \in Owners,
         \A p \in Owners \ {o} : g[p] = f[p]
  PROVE  SumFunction(g) + f[o] = SumFunction(f) + g[o]
BY OwnersAssumption, OwnerSum, SumAtOne

(* What the tokens and the claims are.                                     *)
LEMMA TokenTypes ==
  ASSUME TypeOK
  PROVE  /\ l1Wwart \in [Owners -> Nat] /\ wWART \in [Owners -> Nat]
         /\ wwartPortable \in [Owners -> Nat] /\ l1WwartClaim \in [Owners -> Nat]
         /\ liquid \in [Owners -> Nat] /\ raised \in [Owners -> Nat]
         /\ pathA \in Nat /\ setting.poolSupply \in Nat
BY SettingType DEF TypeOK

(* A step of one owner puts out no more tokens than it claims.             *)
LEMMA TokensAtOne ==
  ASSUME TypeOK, TypeOK', TokensInv, UNCHANGED setting, NEW o \in Owners,
         \A p \in Owners \ {o} :
           /\ l1Wwart'[p] = l1Wwart[p] /\ wWART'[p] = wWART[p]
           /\ wwartPortable'[p] = wwartPortable[p]
           /\ l1WwartClaim'[p] = l1WwartClaim[p] /\ raised'[p] = raised[p],
         l1Wwart'[o] + wWART'[o] + wwartPortable'[o] + pathA' + l1WwartClaim[o]
             + raised[o]
           <= l1Wwart[o] + wWART[o] + wwartPortable[o] + pathA + l1WwartClaim'[o]
                + raised'[o]
  PROVE  TokensInv'
<1>1. /\ l1Wwart \in [Owners -> Nat] /\ wWART \in [Owners -> Nat]
      /\ wwartPortable \in [Owners -> Nat] /\ l1WwartClaim \in [Owners -> Nat]
      /\ raised \in [Owners -> Nat]
      /\ pathA \in Nat /\ setting.poolSupply \in Nat
  BY TokenTypes
<1>2. /\ l1Wwart' \in [Owners -> Nat] /\ wWART' \in [Owners -> Nat]
      /\ wwartPortable' \in [Owners -> Nat] /\ l1WwartClaim' \in [Owners -> Nat]
      /\ raised' \in [Owners -> Nat] /\ pathA' \in Nat
  BY DEF TypeOK
<1>3a. SumFunction(l1Wwart') + l1Wwart[o] = SumFunction(l1Wwart) + l1Wwart'[o]
  <2>1. \A p \in Owners \ {o} : l1Wwart'[p] = l1Wwart[p]
    OBVIOUS
  <2>2. l1Wwart \in [Owners -> Nat] /\ l1Wwart' \in [Owners -> Nat]
    BY <1>1, <1>2
  <2>. QED  BY <2>1, <2>2, OwnerSumAtOne
<1>3b. SumFunction(wWART') + wWART[o] = SumFunction(wWART) + wWART'[o]
  <2>1. \A p \in Owners \ {o} : wWART'[p] = wWART[p]
    OBVIOUS
  <2>2. wWART \in [Owners -> Nat] /\ wWART' \in [Owners -> Nat]
    BY <1>1, <1>2
  <2>. QED  BY <2>1, <2>2, OwnerSumAtOne
<1>3c. SumFunction(wwartPortable') + wwartPortable[o]
         = SumFunction(wwartPortable) + wwartPortable'[o]
  <2>1. \A p \in Owners \ {o} : wwartPortable'[p] = wwartPortable[p]
    OBVIOUS
  <2>2. wwartPortable \in [Owners -> Nat] /\ wwartPortable' \in [Owners -> Nat]
    BY <1>1, <1>2
  <2>. QED  BY <2>1, <2>2, OwnerSumAtOne
<1>3d. SumFunction(l1WwartClaim') + l1WwartClaim[o]
         = SumFunction(l1WwartClaim) + l1WwartClaim'[o]
  <2>1. \A p \in Owners \ {o} : l1WwartClaim'[p] = l1WwartClaim[p]
    OBVIOUS
  <2>2. l1WwartClaim \in [Owners -> Nat] /\ l1WwartClaim' \in [Owners -> Nat]
    BY <1>1, <1>2
  <2>. QED  BY <2>1, <2>2, OwnerSumAtOne
<1>3e. SumFunction(raised') + raised[o] = SumFunction(raised) + raised'[o]
  <2>1. \A p \in Owners \ {o} : raised'[p] = raised[p]
    OBVIOUS
  <2>2. raised \in [Owners -> Nat] /\ raised' \in [Owners -> Nat]
    BY <1>1, <1>2
  <2>. QED  BY <2>1, <2>2, OwnerSumAtOne
<1>4. /\ SumFunction(l1Wwart) \in Nat /\ SumFunction(l1Wwart') \in Nat
      /\ SumFunction(wWART) \in Nat /\ SumFunction(wWART') \in Nat
      /\ SumFunction(wwartPortable) \in Nat /\ SumFunction(wwartPortable') \in Nat
      /\ SumFunction(l1WwartClaim) \in Nat /\ SumFunction(l1WwartClaim') \in Nat
      /\ SumFunction(raised) \in Nat /\ SumFunction(raised') \in Nat
  BY <1>1, <1>2, OwnerSum
<1>5. SumFunction(l1Wwart) + SumFunction(wWART) + SumFunction(wwartPortable) + pathA
        <= setting.poolSupply + SumFunction(l1WwartClaim) + SumFunction(raised)
  BY DEF TokensInv, TokenSupply
<1>6. /\ l1Wwart[o] \in Nat /\ l1Wwart'[o] \in Nat /\ wWART[o] \in Nat
      /\ wWART'[o] \in Nat /\ wwartPortable[o] \in Nat /\ wwartPortable'[o] \in Nat
      /\ l1WwartClaim[o] \in Nat /\ l1WwartClaim'[o] \in Nat
      /\ raised[o] \in Nat /\ raised'[o] \in Nat
  BY <1>1, <1>2
<1>7. SumFunction(l1Wwart') + SumFunction(wWART') + SumFunction(wwartPortable') + pathA'
        <= setting.poolSupply + SumFunction(l1WwartClaim') + SumFunction(raised')
  BY <1>1, <1>2, <1>3a, <1>3b, <1>3c, <1>3d, <1>3e, <1>4, <1>5, <1>6
<1>. QED  BY <1>7 DEF TokensInv, TokenSupply

(* The handlers of claims put out what is claimed.                         *)
LEMMA ClaimHandlerKeepsTokens ==
  ASSUME TypeOK, TypeOK', TokensInv, UNCHANGED setting, NEW o \in Owners,
         NEW amount \in setting.amounts18, ClaimHandler(o, amount)
  PROVE  TokensInv'
<1>1. amount \in Nat
  BY SettingType DEF TypeOK
<1>2. /\ l1Wwart \in [Owners -> Nat] /\ wWART \in [Owners -> Nat]
      /\ wwartPortable \in [Owners -> Nat] /\ l1WwartClaim \in [Owners -> Nat]
      /\ pathA \in Nat /\ Portal(o) \in Nat /\ Portal(o) <= wWART[o]
      /\ Remaining(o) \in Nat /\ liquid[o] \in Nat /\ BackingCapacity18(o) \in Nat
      /\ l1Wwart[o] \in Nat /\ wWART[o] \in Nat
      /\ wwartPortable[o] \in Nat /\ l1WwartClaim[o] \in Nat
      /\ raised \in [Owners -> Nat] /\ raised[o] \in Nat
  BY TokenTypes, AmountsType
<1>3. CASE MintLiquid(o, amount) \/ BurnLiquid(o, amount) \/ Refuse
  <2>1. UNCHANGED <<l1Wwart, wWART, wwartPortable, l1WwartClaim, raised, pathA>>
    BY <1>3 DEF MintLiquid, BurnLiquid, Refuse, claimVars, l1Vars
  <2>. QED  BY <1>2, <2>1, TokensAtOne
<1>4. CASE SyncWwartClaim(o, amount)
  <2>1. Least(amount, Monus(BackingCapacity18(o), liquid[o])) \in Nat
    BY <1>1, <1>2, LeastProperties, MonusProperties
  <2>2. /\ UNCHANGED <<l1Wwart, wWART, wwartPortable, raised, pathA>>
        /\ l1WwartClaim[o] <= l1WwartClaim'[o]
        /\ \A p \in Owners \ {o} : l1WwartClaim'[p] = l1WwartClaim[p]
    BY <1>2, <1>4, <2>1 DEF SyncWwartClaim, l1Vars
  <2>3. l1WwartClaim'[o] \in Nat
    BY DEF TypeOK
  <2>. QED  BY <1>2, <2>2, <2>3, TokensAtOne
<1>5. CASE MintWwart(o, amount)
  <2>1. Least(amount, Remaining(o)) \in Nat
    BY <1>1, <1>2, LeastProperties
  <2>2. /\ l1WwartClaim' = [l1WwartClaim EXCEPT ![o] = @ + Least(amount, Remaining(o))]
        /\ wwartPortable' = [wwartPortable EXCEPT ![o] = @ + Least(amount, Remaining(o))]
        /\ UNCHANGED <<l1Wwart, wWART, raised, pathA>>
    BY <1>5 DEF MintWwart, l1Vars
  <2>. QED  BY <1>2, <2>1, <2>2, TokensAtOne
<1>6. CASE BurnWwart(o, amount)
  <2>1. amount <= l1WwartClaim[o] /\ amount <= wwartPortable[o] + Portal(o)
    BY <1>1, <1>2, <1>6 DEF BurnWwart, Burnable, Least
  <2>. DEFINE m == FromPortable(o, amount)
  <2>2. /\ m \in Nat /\ m <= wwartPortable[o] /\ m <= amount
        /\ amount - m <= wWART[o]
        /\ InventoryAfter(o, amount - m) = wWART[o] - (amount - m)
    BY <1>1, <2>1, InventoryPays
  <2>3. /\ l1WwartClaim' = [l1WwartClaim EXCEPT ![o] = @ - amount]
        /\ wwartPortable' = [wwartPortable EXCEPT ![o] = @ - m]
        /\ wWART' = [wWART EXCEPT ![o] = wWART[o] - (amount - m)]
        /\ UNCHANGED <<l1Wwart, raised, pathA>>
    BY <1>6, <2>2 DEF BurnWwart, l1Vars
  <2>. HIDE DEF m
  <2>. QED  BY <1>1, <1>2, <2>1, <2>2, <2>3, TokensAtOne
<1>8. ASSUME NEW toPool \in PoolShares(o, amount),
             PortalDepositWwart(o, amount, toPool)
      PROVE  TokensInv'
  <2>1. toPool \in 0 .. amount
    BY <1>1, PoolSharesBound DEF TypeOK
  <2>2. /\ amount <= l1Wwart[o]
        /\ l1Wwart' = [l1Wwart EXCEPT ![o] = @ - amount]
        /\ wWART' = [wWART EXCEPT ![o] =
              IF toPool < amount THEN Portal(o) + (amount - toPool) ELSE @]
        /\ pathA' = pathA + toPool
        /\ UNCHANGED <<wwartPortable, l1WwartClaim, raised>>
    BY <1>1, <1>2, <1>8 DEF PortalDepositWwart
  <2>3. wWART'[o] <= wWART[o] + (amount - toPool)
    BY <1>1, <1>2, <2>1, <2>2
  <2>4. wWART'[o] \in Nat
    BY DEF TypeOK
  <2>. QED  BY <1>1, <1>2, <2>1, <2>2, <2>3, <2>4, TokensAtOne
<1>. QED  BY <1>3, <1>4, <1>5, <1>6, <1>8
          DEF ClaimHandler, ClaimInput, BurnLiquidRefused, BurnWwartRefused

(* A withdrawal puts out what it takes from what is portable and from the  *)
(* inventory.                                                              *)
LEMMA WithdrawKeepsTokens ==
  ASSUME TypeOK, TypeOK', TokensInv, UNCHANGED setting, NEW o \in Owners,
         NEW amount \in Int, WithdrawInput(o, amount)
  PROVE  TokensInv'
<1>1. /\ l1Wwart \in [Owners -> Nat] /\ wWART \in [Owners -> Nat]
      /\ wwartPortable \in [Owners -> Nat] /\ raised \in [Owners -> Nat]
      /\ l1WwartClaim[o] \in Nat /\ pathA \in Nat
      /\ l1Wwart[o] \in Nat /\ wWART[o] \in Nat
      /\ wwartPortable[o] \in Nat /\ raised[o] \in Nat
  BY TokenTypes
<1>2. ASSUME UNCHANGED <<l1Wwart, wWART, wwartPortable, l1WwartClaim, raised, pathA>>
      PROVE  TokensInv'
  BY <1>1, <1>2, TokensAtOne
<1>3. CASE Refuse
  BY <1>2, <1>3 DEF Refuse, claimVars, l1Vars
<1>4. ASSUME WithdrawWwart(o, amount, FALSE) PROVE TokensInv'
  BY <1>2, <1>4, WithdrawEffect
<1>5. ASSUME WithdrawWwart(o, amount, TRUE) PROVE TokensInv'
  <2>. DEFINE paid == Monus(amount, 0)
              more == Monus(0, amount)
  <2>1. PICK base \in 0 .. paid :
          /\ wwartPortable' = [wwartPortable EXCEPT ![o] = @ - (amount - base)]
          /\ wWART' = [wWART EXCEPT ![o] = @ - base]
          /\ l1Wwart' = [l1Wwart EXCEPT ![o] = @ + paid]
          /\ raised' = [raised EXCEPT ![o] = @ + more]
    BY <1>5, WithdrawEffect
  <2>2. UNCHANGED <<l1WwartClaim, pathA>>
    BY <1>5, WithdrawEffect
  <2>3. paid \in Nat /\ more \in Nat /\ amount = paid - more
    BY DEF Monus
  <2>. HIDE DEF paid, more
  <2>4. base \in Int
    BY <2>3
  <2>. QED  BY <1>1, <2>1, <2>2, <2>3, <2>4, TokensAtOne
<1>. QED  BY <1>3, <1>4, <1>5 DEF WithdrawInput, WithdrawRefused

(* On L1 tokens move between owners, and the pool gives out its own.       *)
LEMMA OutsideKeepsTokens ==
  ASSUME TypeOK, TypeOK', TokensInv, UNCHANGED setting
  PROVE  /\ \A o \in Owners, amount \in Nat : PathARelease(o, amount) => TokensInv'
         /\ \A from, to \in Owners, amount \in Nat :
              L1Transfer(from, to, amount) => TokensInv'
<1>1. /\ l1Wwart \in [Owners -> Nat] /\ wWART \in [Owners -> Nat]
      /\ wwartPortable \in [Owners -> Nat] /\ l1WwartClaim \in [Owners -> Nat]
      /\ raised \in [Owners -> Nat] /\ pathA \in Nat
  BY TokenTypes
<1>2. ASSUME NEW o \in Owners, NEW amount \in Nat, PathARelease(o, amount)
      PROVE  TokensInv'
  <2>1. /\ l1Wwart' = [l1Wwart EXCEPT ![o] = @ + amount]
        /\ amount <= pathA /\ pathA' = pathA - amount
        /\ UNCHANGED <<wWART, wwartPortable, l1WwartClaim, raised>>
    BY <1>2 DEF PathARelease, claimVars
  <2>. QED  BY <1>1, <2>1, TokensAtOne
<1>3. ASSUME NEW from \in Owners, NEW to \in Owners, NEW amount \in Nat,
             L1Transfer(from, to, amount)
      PROVE  TokensInv'
  <2>. DEFINE mid == [l1Wwart EXCEPT ![from] = @ - amount]
  <2>1. /\ from # to /\ amount <= l1Wwart[from]
        /\ l1Wwart' = [mid EXCEPT ![to] = @ + amount]
        /\ UNCHANGED <<wWART, wwartPortable, l1WwartClaim, raised, pathA>>
    BY <1>1, <1>3 DEF L1Transfer, claimVars
  <2>2. /\ mid \in [Owners -> Nat] /\ mid[from] = l1Wwart[from] - amount
        /\ \A p \in Owners \ {from} : mid[p] = l1Wwart[p]
    BY <1>1, <2>1
  <2>. HIDE DEF mid
  <2>3. /\ l1Wwart' \in [Owners -> Nat] /\ l1Wwart'[to] = mid[to] + amount
        /\ \A p \in Owners \ {to} : l1Wwart'[p] = mid[p]
    BY <2>1, <2>2
  <2>4. /\ SumFunction(mid) + l1Wwart[from] = SumFunction(l1Wwart) + mid[from]
        /\ SumFunction(l1Wwart') + mid[to] = SumFunction(mid) + l1Wwart'[to]
    BY <1>1, <2>2, <2>3, OwnerSumAtOne
  <2>5. /\ SumFunction(mid) \in Nat /\ SumFunction(l1Wwart) \in Nat
        /\ SumFunction(l1Wwart') \in Nat
    BY <1>1, <2>2, <2>3, OwnerSum
  <2>6. l1Wwart[from] \in Nat /\ mid[to] \in Nat
    BY <1>1, <2>2
  <2>7. SumFunction(l1Wwart') = SumFunction(l1Wwart)
    BY <2>2, <2>3, <2>4, <2>5, <2>6
  <2>. QED  BY <2>1, <2>7 DEF TokensInv, TokenSupply
<1>. QED  BY <1>2, <1>3

-----------------------------------------------------------------------------
(* The inductive invariant, and the theorems about collateral.             *)

CollateralInv == VaultInv /\ AttributedInv /\ LocksInv /\ SweptInv /\ TokensInv

(* At the start nothing is swept, locked or claimed.                       *)
LEMMA InitCollateralInv == Init => CollateralInv
<1>. SUFFICES ASSUME Init PROVE CollateralInv
  OBVIOUS
<1>1. VaultInv /\ TypeOK
  BY InitVaultInv DEF VaultInv
<1>2. AttributedInv
  BY DEF Init, AttributedInv
<1>3. LocksInv
  <2>1. ASSUME NEW k \in Keys PROVE HeldSum(k) = 0
    <3>1. Held(k) \in [Subs -> Nat] /\ \A sub \in Subs : Held(k)[sub] = 0
      BY DEF Init, Held
    <3>. QED  BY <3>1, SubsAssumption, SumOfZero DEF HeldSum
  <2>. QED  BY <2>1 DEF Init, LocksInv
<1>4. SweptInv
  <2>1. ASSUME NEW v \in Vaults PROVE Swept(v) = 0
    <3>1. {s \in proven \cap setting.happened : s.to = v} = {}
      BY DEF Init
    <3>. QED  BY <3>1, SumEmpty DEF Swept
  <2>. QED  BY <2>1 DEF Init, SweptInv, Keys
<1>5. TokensInv
  <2>. DEFINE zero == [o \in Owners |-> 0]
  <2>1. zero \in [Owners -> Nat] /\ \A o \in Owners : zero[o] = 0
    OBVIOUS
  <2>2. /\ l1Wwart = zero /\ wWART = zero /\ wwartPortable = zero
        /\ l1WwartClaim = zero /\ raised = zero /\ pathA = setting.poolSupply
    BY DEF Init
  <2>. HIDE DEF zero
  <2>3. SumFunction(zero) = 0
    BY <2>1, OwnersAssumption, OwnerSum, SumOfZero
  <2>4. setting.poolSupply \in Nat
    BY <1>1, TokenTypes
  <2>. QED  BY <2>2, <2>3, <2>4 DEF TokensInv, TokenSupply
<1>. QED  BY <1>1, <1>2, <1>3, <1>4, <1>5 DEF CollateralInv

(* Steps that touch neither locks nor capacity.                            *)
LEMMA OthersKeepLocks ==
  ASSUME AttributedInv, LocksInv, SweptInv,
         UNCHANGED <<setting, spoofedMinted, spoofedBurned, subLocks, pendingLocks,
                     personalVaults, proven>>
  PROVE  AttributedInv' /\ LocksInv' /\ SweptInv'
<1>1. AttributedInv'
  BY DEF AttributedInv
<1>2. LocksInv'
  BY DEF LocksInv, Undisputed, Honest, HeldSum, Held, LockedBefore
<1>3. SweptInv'
  BY DEF SweptInv, Honest, Swept, AmountE8
<1>. QED  BY <1>1, <1>2, <1>3

(* Steps that move no tokens and no claims.                                *)
LEMMA OthersKeepTokens ==
  ASSUME TokensInv, UNCHANGED <<setting, l1Wwart, wWART, wwartPortable,
                                l1WwartClaim, raised, pathA>>
  PROVE  TokensInv'
BY DEF TokensInv, TokenSupply

(* Every step keeps it.                                                    *)
LEMMA NextCollateralInv == CollateralInv /\ [Next]_vars => CollateralInv'
<1>. SUFFICES ASSUME CollateralInv, [Next]_vars PROVE CollateralInv'
  OBVIOUS
<1>1. /\ VaultInv /\ TypeOK /\ AttributedInv /\ LocksInv /\ SweptInv /\ TokensInv
  BY DEF CollateralInv, VaultInv
<1>2. VaultInv' /\ TypeOK' /\ UNCHANGED setting
  <2>1. VaultInv'
    BY <1>1, NextVaultInv
  <2>. QED  BY <2>1 DEF VaultInv, Next, vars
<1>3. /\ setting.senders \subseteq Owners /\ setting.amountsE8 \subseteq Nat
      /\ setting.amounts18 \subseteq Nat /\ setting.withdrawals18 \subseteq Int
      /\ \A sub \in Subs : setting.subOwners[sub] \subseteq Owners
      /\ \A sweep \in setting.sweeps : sweep.from \in Subs
  BY <1>1, SettingType DEF TypeOK
<1>. DEFINE Kept == AttributedInv' /\ LocksInv' /\ SweptInv' /\ TokensInv'
<1>4. ASSUME NEW o \in Owners, NEW amount \in setting.amounts18,
             ClaimHandler(o, amount)
      PROVE  Kept
  <2>1. UNCHANGED <<capacityVars, lockVars, proven>>
    BY <1>4 DEF ClaimHandler, ClaimInput, MintLiquid, SyncWwartClaim, MintWwart,
       BurnLiquid, BurnWwart, PortalDepositWwart, BurnLiquidRefused,
       BurnWwartRefused, Refuse
  <2>2. AttributedInv' /\ LocksInv' /\ SweptInv'
    BY <1>1, <1>2, <2>1, OthersKeepLocks DEF capacityVars, lockVars
  <2>. QED  BY <1>1, <1>2, <1>4, <2>2, ClaimHandlerKeepsTokens
<1>5. ASSUME NEW sub \in Subs, VaultHandler(sub) PROVE Kept
  <2>1. AttributedInv'
    BY <1>1, <1>2, <1>5, VaultHandlerAttributed
  <2>2. UNCHANGED <<claimVars, l1Vars, proven, spoofedMinted>>
    BY <1>5 DEF VaultHandler, CreateVault, SubLock, SubUnlock, UnlockRefused,
       Refuse, capacityVars
  <2>3. TokensInv'
    BY <1>1, <1>2, <2>2, OthersKeepTokens DEF claimVars, l1Vars
  <2>4. SweptInv'
    BY <1>1, <1>2, <2>2 DEF SweptInv, Honest, Swept, AmountE8
  <2>5. LocksInv'
    <3>1. ASSUME NEW sender \in Owners, NEW e8 \in Nat, SubUnlock(sender, sub, e8)
          PROVE  LocksInv'
      BY <1>1, <1>2, <3>1, UnlockKeepsLocks
    <3>2. CASE UNCHANGED <<capacityVars, subLocks>>
      BY <1>1, <1>2, <3>2 DEF LocksInv, Undisputed, Honest, HeldSum, Held, LockedBefore,
         capacityVars
    <3>. QED  BY <1>3, <1>5, <3>1, <3>2
              DEF VaultHandler, CreateVault, SubLock, UnlockRefused, Refuse, lockVars
  <2>. QED  BY <2>1, <2>3, <2>4, <2>5
<1>6. ASSUME NEW sweep \in setting.sweeps, NEW spelling \in setting.spellings,
             SweepHandler(sweep, spelling)
      PROVE  Kept
  <2>1. AttributedInv'
    BY <1>1, <1>2, <1>6, SweepAttributed
  <2>2. CASE Refuse
    BY <1>1, <1>2, <2>2, OthersKeepLocks, OthersKeepTokens
       DEF Refuse, capacityVars, claimVars, lockVars, l1Vars
  <2>3. ASSUME NEW o \in setting.subOwners[sweep.from], SweptFor(sweep, o)
        PROVE  Kept
    <3>1. o \in Owners
      BY <1>3
    <3>2. LocksInv' /\ SweptInv'
      BY <1>1, <1>2, <2>3, <3>1, SweepKeepsLocks, SweepKeepsSwept
    <3>3. TokensInv'
      BY <1>1, <1>2, <2>3, OthersKeepTokens DEF SweptFor, claimVars, l1Vars
    <3>. QED  BY <2>1, <3>2, <3>3
  <2>. QED  BY <1>1, <1>2, <1>6, <2>2, <2>3, SweepAttributed
<1>7. ASSUME NEW o \in Owners, NEW amount \in Nat, PathARelease(o, amount)
      PROVE  Kept
  <2>1. TokensInv'
    BY <1>1, <1>2, <1>7, OutsideKeepsTokens
  <2>. QED  BY <1>1, <1>2, <1>7, <2>1, OthersKeepLocks
            DEF PathARelease, capacityVars, lockVars
<1>8. ASSUME NEW from \in Owners, NEW to \in Owners, NEW amount \in Nat,
             L1Transfer(from, to, amount)
      PROVE  Kept
  <2>1. TokensInv'
    BY <1>1, <1>2, <1>8, OutsideKeepsTokens
  <2>. QED  BY <1>1, <1>2, <1>8, <2>1, OthersKeepLocks
            DEF L1Transfer, capacityVars, lockVars
<1>9. ASSUME UNCHANGED <<capacityVars, claimVars, lockVars, l1Vars, proven>>
      PROVE  Kept
  BY <1>1, <1>2, <1>9, OthersKeepLocks, OthersKeepTokens
     DEF capacityVars, claimVars, lockVars, l1Vars
<1>10. ASSUME NEW o \in Owners, NEW amount \in Int, WithdrawInput(o, amount)
       PROVE  Kept
  <2>1. UNCHANGED <<capacityVars, lockVars, proven>>
    BY <1>1, <1>10, WithdrawEffect DEF WithdrawInput, WithdrawRefused, Refuse
  <2>2. AttributedInv' /\ LocksInv' /\ SweptInv'
    BY <1>1, <1>2, <2>1, OthersKeepLocks DEF capacityVars, lockVars
  <2>. QED  BY <1>1, <1>2, <1>10, <2>2, WithdrawKeepsTokens
<1>11. Kept
  <2>1. CASE UNCHANGED vars
    BY <1>9, <2>1 DEF vars
  <2>2. CASE Next
    BY <1>3, <1>4, <1>5, <1>6, <1>7, <1>8, <1>9, <1>10, <2>2
       DEF Next, OtherInput, MintRefused, Refuse
  <2>. QED  BY <2>1, <2>2
<1>. QED  BY <1>2, <1>11 DEF CollateralInv

(* So it always holds.                                                     *)
LEMMA CollateralInvHolds == Spec => []CollateralInv
BY InitCollateralInv, NextCollateralInv, PTL DEF Spec

(* The locks of an owner or on a vault, summed.                            *)
LEMMA LockSums ==
  ASSUME TypeOK
  PROVE  /\ \A o \in Owners : SumFunctionOnSet(MintedE8, LocksOf(o)) = HeldSum(o)
         /\ \A v \in Vaults : SumFunctionOnSet(MintedE8, LocksOn(v)) = HeldSum(v)
<1>1. MintedE8 \in [Subs -> Nat]
  BY LockedBeforeType DEF MintedE8
<1>2. \A sub \in Subs : subLocks[sub] # NoLock =>
        subLocks[sub].owner \in Owners /\ subLocks[sub].vault \in Vaults
  BY LockedBeforeType DEF Lock
<1>3. ASSUME NEW k \in Keys, NEW T \in SUBSET Subs,
             T = {sub \in Subs : /\ subLocks[sub] # NoLock
                                 /\ \/ subLocks[sub].owner = k
                                    \/ subLocks[sub].vault = k}
      PROVE  SumFunctionOnSet(MintedE8, T) = HeldSum(k)
  <2>1. Held(k) = [sub \in Subs |-> IF sub \in T THEN MintedE8[sub] ELSE 0]
    BY <1>3 DEF Held, MintedE8
  <2>. QED  BY <1>1, <2>1, SubsAssumption, SumOfPart DEF HeldSum
<1>4. ASSUME NEW o \in Owners
      PROVE  SumFunctionOnSet(MintedE8, LocksOf(o)) = HeldSum(o)
  <2>1. LocksOf(o) = {sub \in Subs : /\ subLocks[sub] # NoLock
                                     /\ \/ subLocks[sub].owner = o
                                        \/ subLocks[sub].vault = o}
    BY <1>2, VaultsAssumption DEF LocksOf
  <2>2. o \in Keys /\ LocksOf(o) \in SUBSET Subs
    BY DEF Keys, LocksOf
  <2>. QED  BY <1>3, <2>1, <2>2
<1>5. ASSUME NEW v \in Vaults
      PROVE  SumFunctionOnSet(MintedE8, LocksOn(v)) = HeldSum(v)
  <2>1. LocksOn(v) = {sub \in Subs : /\ subLocks[sub] # NoLock
                                     /\ \/ subLocks[sub].owner = v
                                        \/ subLocks[sub].vault = v}
    BY <1>2, VaultsAssumption DEF LocksOn
  <2>2. v \in Keys /\ LocksOn(v) \in SUBSET Subs
    BY DEF Keys, LocksOn
  <2>. QED  BY <1>3, <2>1, <2>2
<1>. QED  BY <1>4, <1>5

(* An owner's capacity is what its sub-wallets are locked for, and what is *)
(* left in a vault is what is locked on it: no interleaving of announced   *)
(* and direct sweeps, further sweeps and unlocks in parts counts WART      *)
(* twice or loses it, as long as inputs agree on whose a sub-wallet is and *)
(* prove a sweep once.                                                     *)
THEOREM CollateralIsCounted == Spec => []CollateralCounted
<1>1. ASSUME CollateralInv, Undisputed
      PROVE  /\ \A o \in Owners :
                  SpoofedOutstandingE8(o) = SumFunctionOnSet(MintedE8, LocksOf(o))
             /\ \A v \in Vaults :
                  Swept(v) = Released(v) + SumFunctionOnSet(MintedE8, LocksOn(v))
  <2>1. /\ TypeOK /\ BooksAgree /\ LocksInv /\ SweptInv /\ Honest
    BY <1>1 DEF CollateralInv, VaultInv, BooksInv, Undisputed
  <2>2. \A k \in Keys : /\ spoofedMinted[k] = spoofedBurned[k] + HeldSum(k)
                        /\ spoofedBurned[k] \in Nat /\ HeldSum(k) \in Nat
    BY <1>1, <2>1, HeldType DEF LocksInv, TypeOK
  <2>3. ASSUME NEW o \in Owners
        PROVE  SpoofedOutstandingE8(o) = HeldSum(o)
    <3>1. /\ spoofedMinted[o] = spoofedBurned[o] + HeldSum(o)
          /\ spoofedBurned[o] \in Nat /\ HeldSum(o) \in Nat
      BY <2>2 DEF Keys
    <3>. QED  BY <2>1, <3>1, Outstanding DEF Monus
  <2>4. ASSUME NEW v \in Vaults
        PROVE  Swept(v) = Released(v) + HeldSum(v)
    <3>1. spoofedMinted[v] = spoofedBurned[v] + HeldSum(v)
      BY <2>2 DEF Keys
    <3>. QED  BY <2>1, <3>1 DEF BooksAgree, SweptInv
  <2>. QED  BY <2>1, <2>3, <2>4, LockSums
<1>2. CollateralInv => CollateralCounted
  BY <1>1 DEF CollateralCounted
<1>. QED  BY <1>2, CollateralInvHolds, PTL

(* Capacity over all owners is what the vaults hold.                       *)
LEMMA CapacityIsHeld ==
  ASSUME CollateralInv, Undisputed
  PROVE  /\ HeldE8 \in [Vaults -> Nat]
         /\ SumFunctionOnSet([o \in Owners |-> SpoofedOutstandingE8(o)], Owners)
              = SumFunction(HeldE8)
<1>. DEFINE out == [o \in Owners |-> SpoofedOutstandingE8(o)]
            mintedO == [o \in Owners |-> spoofedMinted[o]]
            burnedO == [o \in Owners |-> spoofedBurned[o]]
            mintedV == [v \in Vaults |-> spoofedMinted[v]]
            burnedV == [v \in Vaults |-> spoofedBurned[v]]
<1>1. /\ TypeOK /\ BooksInv /\ LocksInv /\ SweptInv /\ Honest
  BY DEF CollateralInv, VaultInv, Undisputed
<1>2. \A k \in Keys : /\ spoofedMinted[k] = spoofedBurned[k] + HeldSum(k)
                      /\ spoofedMinted[k] \in Nat /\ spoofedBurned[k] \in Nat
                      /\ HeldSum(k) \in Nat
  BY <1>1, HeldType DEF LocksInv, TypeOK
<1>3. /\ mintedO \in [Owners -> Nat] /\ burnedO \in [Owners -> Nat]
      /\ out \in [Owners -> Nat]
      /\ mintedV \in [Vaults -> Nat] /\ burnedV \in [Vaults -> Nat]
  BY <1>1, <1>2, AmountsType DEF Keys
<1>4. \A o \in Owners : mintedO[o] = out[o] + burnedO[o]
  BY <1>1, <1>2, Outstanding DEF Monus, Keys, BooksInv
<1>5. \A v \in Vaults : HeldE8[v] = HeldSum(v)
  BY <1>1, <1>2 DEF HeldE8, SweptInv, BooksInv, BooksAgree, Keys
<1>6. HeldE8 \in [Vaults -> Nat]
  BY <1>2, <1>5 DEF HeldE8, Keys
<1>7. \A v \in Vaults : mintedV[v] = HeldE8[v] + burnedV[v]
  BY <1>2, <1>5 DEF Keys
<1>8. /\ SumFunctionOnSet(mintedO, Owners)
           = SumFunctionOnSet(spoofedMinted, Owners)
      /\ SumFunctionOnSet(burnedO, Owners)
           = SumFunctionOnSet(spoofedBurned, Owners)
      /\ SumFunctionOnSet(mintedV, Vaults)
           = SumFunctionOnSet(spoofedMinted, Vaults)
      /\ SumFunctionOnSet(burnedV, Vaults)
           = SumFunctionOnSet(spoofedBurned, Vaults)
  <2>1. spoofedMinted \in [Keys -> Nat] /\ spoofedBurned \in [Keys -> Nat]
    BY <1>1 DEF TypeOK
  <2>2. /\ \A o \in Owners : /\ mintedO[o] = spoofedMinted[o]
                             /\ burnedO[o] = spoofedBurned[o]
        /\ \A v \in Vaults : /\ mintedV[v] = spoofedMinted[v]
                             /\ burnedV[v] = spoofedBurned[v]
    OBVIOUS
  <2>3. Owners \subseteq Keys /\ Vaults \subseteq Keys
    BY DEF Keys
  <2>. HIDE DEF out, mintedO, burnedO, mintedV, burnedV
  <2>. QED  BY <1>3, <2>1, <2>2, <2>3, OwnersAssumption, VaultsAssumption, SumAgree
<1>. HIDE DEF out, mintedO, burnedO, mintedV, burnedV
<1>9. /\ SumFunctionOnSet(mintedO, Owners)
           = SumFunctionOnSet(out, Owners) + SumFunctionOnSet(burnedO, Owners)
      /\ SumFunctionOnSet(mintedV, Vaults)
           = SumFunctionOnSet(HeldE8, Vaults) + SumFunctionOnSet(burnedV, Vaults)
  <2>1. IsFiniteSet(Owners) /\ Owners \in SUBSET Owners
    BY OwnersAssumption
  <2>2. SumFunctionOnSet(mintedO, Owners)
          = SumFunctionOnSet(out, Owners) + SumFunctionOnSet(burnedO, Owners)
    BY <1>3, <1>4, <2>1, SumOfSum
  <2>3. IsFiniteSet(Vaults) /\ Vaults \in SUBSET Vaults
    BY VaultsAssumption
  <2>4. SumFunctionOnSet(mintedV, Vaults)
          = SumFunctionOnSet(HeldE8, Vaults) + SumFunctionOnSet(burnedV, Vaults)
    BY <1>3, <1>6, <1>7, <2>3, SumOfSum
  <2>. QED  BY <2>2, <2>4
<1>10. /\ SumFunctionOnSet(out, Owners) \in Nat
       /\ SumFunctionOnSet(burnedO, Owners) \in Nat
       /\ SumFunctionOnSet(HeldE8, Vaults) \in Nat
  BY <1>3, <1>6, OwnersAssumption, VaultsAssumption, SumType
<1>11. SumFunction(HeldE8) = SumFunctionOnSet(HeldE8, Vaults)
  BY DEF SumFunction, SumFunctionOnSet, FoldFunction, HeldE8
<1>12. SumFunctionOnSet(out, Owners) = SumFunctionOnSet(HeldE8, Vaults)
  BY <1>1, <1>8, <1>9, <1>10 DEF BooksInv, BooksAgree
<1>. QED  BY <1>6, <1>11, <1>12 DEF out

(* What the vaults hold covers the capacities, and these the tokens.       *)
LEMMA HeldCoversTokens ==
  ASSUME CollateralInv, Undisputed
  PROVE  TokenSupply + SumFunction(liquid)
           <= setting.poolSupply + U * SumFunction(HeldE8) + SumFunction(raised)
<1>. DEFINE out == [o \in Owners |-> SpoofedOutstandingE8(o)]
            share == [o \in Owners |-> ShareClaimed18(o)]
            capacity == [o \in Owners |-> BackingCapacity18(o)]
<1>1. TypeOK /\ ClaimsCovered /\ TokensInv
  BY DEF CollateralInv, VaultInv
<1>2. /\ liquid \in [Owners -> Nat] /\ l1WwartClaim \in [Owners -> Nat]
      /\ l1Wwart \in [Owners -> Nat] /\ wWART \in [Owners -> Nat]
      /\ wwartPortable \in [Owners -> Nat] /\ raised \in [Owners -> Nat]
      /\ pathA \in Nat /\ setting.poolSupply \in Nat
  BY <1>1, TokenTypes
<1>3. /\ out \in [Owners -> Nat] /\ share \in [Owners -> Nat]
      /\ capacity \in [Owners -> Nat]
  BY <1>1, AmountsType
<1>4. \A o \in Owners : share[o] = liquid[o] + l1WwartClaim[o]
  BY DEF ShareClaimed18
<1>5. \A o \in Owners : share[o] <= capacity[o]
  BY <1>1 DEF ClaimsCovered
<1>6. \A o \in Owners : capacity[o] = U * out[o]
  BY <1>1, AmountsType, UnitAssumption DEF BackingCapacity18
<1>7. SumFunctionOnSet(out, Owners) = SumFunction(HeldE8)
  BY CapacityIsHeld
<1>. HIDE DEF out, share, capacity
<1>8. SumFunctionOnSet(share, Owners) = SumFunction(liquid) + SumFunction(l1WwartClaim)
  <2>1. /\ SumFunction(liquid) = SumFunctionOnSet(liquid, Owners)
        /\ SumFunction(l1WwartClaim) = SumFunctionOnSet(l1WwartClaim, Owners)
    BY <1>2, OwnerSum
  <2>2. Owners \in SUBSET Owners /\ IsFiniteSet(Owners)
    BY OwnersAssumption
  <2>3. SumFunctionOnSet(share, Owners)
          = SumFunctionOnSet(liquid, Owners) + SumFunctionOnSet(l1WwartClaim, Owners)
    BY <1>2, <1>3, <1>4, <2>2, SumOfSum
  <2>. QED  BY <2>1, <2>3
<1>9. SumFunctionOnSet(share, Owners) <= SumFunctionOnSet(capacity, Owners)
  BY <1>3, <1>5, OwnersAssumption, SumMonotonic
<1>10. SumFunctionOnSet(capacity, Owners) = U * SumFunctionOnSet(out, Owners)
  BY <1>3, <1>6, OwnersAssumption, UnitAssumption, SumScaled
<1>11. /\ SumFunctionOnSet(share, Owners) \in Nat
       /\ SumFunctionOnSet(capacity, Owners) \in Nat
       /\ SumFunction(liquid) \in Nat /\ SumFunction(l1WwartClaim) \in Nat
       /\ TokenSupply \in Nat /\ SumFunction(raised) \in Nat
  <2>1. /\ SumFunction(l1Wwart) \in Nat /\ SumFunction(wWART) \in Nat
        /\ SumFunction(wwartPortable) \in Nat
    BY <1>2, OwnerSum
  <2>. QED  BY <1>2, <1>3, <2>1, OwnersAssumption, OwnerSum, SumType
            DEF TokenSupply
<1>12. TokenSupply
         <= setting.poolSupply + SumFunction(l1WwartClaim) + SumFunction(raised)
  BY <1>1 DEF TokensInv
<1>. DEFINE c == SumFunctionOnSet(capacity, Owners)
<1>13. TokenSupply + SumFunction(liquid)
         <= setting.poolSupply + c + SumFunction(raised)
  BY <1>2, <1>8, <1>9, <1>11, <1>12
<1>. QED  BY <1>7, <1>10, <1>13

(* Every wWART token of Path B, every WLIQ, and every claim that can still *)
(* be made one, has its WART in a vault, in every order of sweeps, mints,  *)
(* withdrawals, transfers, deposits, burns and unlocks, but for exactly    *)
(* what accepted withdrawals of negative amounts added.                    *)
THEOREM TokensAreBacked == Spec => []TokensBacked
<1>1. CollateralInv => TokensBacked
  BY HeldCoversTokens DEF TokensBacked
<1>. QED  BY <1>1, CollateralInvHolds, PTL

(* "Spoofed wWART minted 1:1": a vault is counted for what was swept to    *)
(* it, if inputs prove what took place, and once.  The code checks neither *)
(* and the other settings leave it open.                                   *)
THEOREM HonestMints == Spec => [](Honest => MintedOneToOne)
<1>1. CollateralInv => (Honest => MintedOneToOne)
  <2>. SUFFICES ASSUME CollateralInv, Honest, NEW v \in Vaults
                PROVE  spoofedMinted[v] <= Swept(v)
    BY DEF MintedOneToOne
  <2>1. spoofedMinted[v] = Swept(v) /\ spoofedMinted[v] \in Nat
    BY DEF CollateralInv, VaultInv, SweptInv, TypeOK, Keys
  <2>. QED  BY <2>1
<1>. QED  BY <1>1, CollateralInvHolds, PTL

-----------------------------------------------------------------------------
(* Whoever owns what: there is no more of Path B than was swept.           *)

(* The owners together are counted for every sweep once.                   *)
SweptOnceInv ==
  ~ setting.replays =>
    SumFunctionOnSet(spoofedMinted, Owners) = SumFunctionOnSet(AmountE8, proven)

(* At the start nothing is counted.                                        *)
LEMMA InitSweptOnce == Init => SweptOnceInv
<1>. SUFFICES ASSUME Init PROVE SweptOnceInv
  OBVIOUS
<1>1. /\ spoofedMinted \in [Keys -> Nat] /\ Owners \in SUBSET Keys
      /\ \A o \in Owners : spoofedMinted[o] = 0
  BY InitType DEF Init, TypeOK, Keys
<1>2. SumFunctionOnSet(spoofedMinted, Owners) = 0
  BY <1>1, OwnersAssumption, SumOfZero
<1>3. SumFunctionOnSet(AmountE8, proven) = 0
  BY SumEmpty DEF Init
<1>. QED  BY <1>2, <1>3 DEF SweptOnceInv

(* A sweep is counted for one owner.                                       *)
LEMMA SweepKeepsSweptOnce ==
  ASSUME TypeOK, SweptOnceInv, UNCHANGED setting, NEW sweep \in setting.sweeps,
         NEW o \in Owners, SweptFor(sweep, o)
  PROVE  SweptOnceInv'
<1>. SUFFICES ASSUME ~ setting.replays
              PROVE  SumFunctionOnSet(spoofedMinted', Owners)
                       = SumFunctionOnSet(AmountE8', proven')
  BY DEF SweptOnceInv
<1>1. /\ sweep.to \in Vaults /\ sweep.amountE8 \in Nat
      /\ IsFiniteSet(setting.sweeps) /\ AmountE8 \in [setting.sweeps -> Nat]
      /\ proven \subseteq setting.sweeps
      /\ spoofedMinted \in [Keys -> Nat]
  BY SettingType DEF TypeOK, AmountE8
<1>2. /\ sweep \notin proven /\ proven' = proven \cup {sweep}
      /\ spoofedMinted' = Counted(spoofedMinted, o, sweep.to, sweep.amountE8)
  BY DEF SweptFor
<1>3. AmountE8' = AmountE8 /\ AmountE8[sweep] = sweep.amountE8
  BY DEF AmountE8
<1>. DEFINE after == proven \cup {sweep}
            counted == SumFunctionOnSet(spoofedMinted, Owners)
<1>4. /\ after \in SUBSET setting.sweeps /\ sweep \in after
      /\ after \ {sweep} = proven
  BY <1>1, <1>2
<1>5. IsFiniteSet(after)
  BY <1>1, <1>4, FS_Subset
<1>. HIDE DEF after
<1>6. SumFunctionOnSet(AmountE8, after)
        = AmountE8[sweep] + SumFunctionOnSet(AmountE8, after \ {sweep})
  BY <1>1, <1>4, <1>5, SumRemove
<1>7. SumFunctionOnSet(spoofedMinted', Owners) = counted + sweep.amountE8
  BY <1>1, <1>2, CountedSums
<1>8. counted = SumFunctionOnSet(AmountE8, proven) /\ counted \in Nat
  <2>1. Owners \in SUBSET Keys
    BY DEF Keys
  <2>. QED  BY <1>1, <2>1, OwnersAssumption, SumType DEF SweptOnceInv
<1>9. SumFunctionOnSet(AmountE8, after) = sweep.amountE8 + counted
  BY <1>3, <1>4, <1>6, <1>8
<1>. HIDE DEF counted
<1>10. SumFunctionOnSet(AmountE8, after) = counted + sweep.amountE8
  BY <1>1, <1>8, <1>9
<1>. QED  BY <1>2, <1>3, <1>7, <1>10 DEF after

(* No other step sweeps.                                                   *)
LEMMA SweptOnceNext ==
  ASSUME TypeOK, SweptOnceInv, [Next]_vars
  PROVE  SweptOnceInv'
<1>1. UNCHANGED setting /\ \A sub \in Subs : setting.subOwners[sub] \subseteq Owners
  BY SettingType DEF TypeOK, Next, vars
<1>2. ASSUME UNCHANGED <<spoofedMinted, proven>> PROVE SweptOnceInv'
  BY <1>1, <1>2 DEF SweptOnceInv, AmountE8
<1>3. ASSUME UNCHANGED <<capacityVars, proven>> PROVE SweptOnceInv'
  BY <1>2, <1>3 DEF capacityVars
<1>4. ASSUME NEW o, NEW amount, ClaimHandler(o, amount) \/ PathARelease(o, amount)
      PROVE  SweptOnceInv'
  BY <1>3, <1>4
     DEF ClaimHandler, ClaimInput, MintLiquid, SyncWwartClaim, MintWwart,
         BurnLiquid, BurnWwart, PortalDepositWwart, BurnLiquidRefused,
         BurnWwartRefused, Refuse, PathARelease
<1>5. ASSUME NEW sub \in Subs, VaultHandler(sub) PROVE SweptOnceInv'
  BY <1>2, <1>5 DEF VaultHandler, CreateVault, SubLock, SubUnlock,
                    UnlockRefused, Refuse, capacityVars
<1>6. ASSUME NEW sweep \in setting.sweeps, NEW spelling \in setting.spellings,
             SweepHandler(sweep, spelling)
      PROVE  SweptOnceInv'
  <2>1. CASE Refuse
    BY <1>3, <2>1 DEF Refuse
  <2>. QED  BY <1>1, <1>6, <2>1, SweepEffect, SweepKeepsSweptOnce
<1>7. ASSUME NEW from, NEW to, NEW amount, L1Transfer(from, to, amount)
      PROVE  SweptOnceInv'
  BY <1>3, <1>7 DEF L1Transfer
<1>8. ASSUME NEW o, NEW amount, WithdrawInput(o, amount) PROVE SweptOnceInv'
  BY <1>3, <1>8 DEF WithdrawInput, WithdrawWwart, WithdrawRefused, Refuse
<1>9. CASE Next
  BY <1>3, <1>4, <1>5, <1>6, <1>7, <1>8, <1>9
     DEF Next, OtherInput, MintRefused, Refuse
<1>10. CASE UNCHANGED vars
  BY <1>3, <1>10 DEF vars
<1>. QED  BY <1>9, <1>10

(* So what all owners can claim is within all that there is to sweep.      *)
LEMMA SweepsCoverTokens ==
  ASSUME CollateralInv, SweptOnceInv, ~ setting.replays
  PROVE  TokenSupply <= setting.poolSupply + U * SumFunction(AmountE8)
                          + SumFunction(raised)
<1>. DEFINE minted == [o \in Owners |-> spoofedMinted[o]]
            bound == [o \in Owners |-> U * spoofedMinted[o]]
            sweeps == setting.sweeps
<1>1. /\ TypeOK /\ ClaimsCovered /\ TokensInv /\ BooksAgree
  BY DEF CollateralInv, VaultInv, BooksInv
<1>2. /\ IsFiniteSet(sweeps) /\ AmountE8 \in [sweeps -> Nat]
      /\ proven \in SUBSET sweeps
  BY <1>1, SettingType DEF TypeOK, AmountE8
<1>3. \A o \in Owners : spoofedMinted[o] \in Nat /\ spoofedBurned[o] \in Nat
  BY <1>1 DEF TypeOK, Keys
<1>4. /\ minted \in [Owners -> Nat] /\ bound \in [Owners -> Nat]
      /\ l1WwartClaim \in [Owners -> Nat] /\ liquid \in [Owners -> Nat]
  BY <1>1, <1>3, TokenTypes, UnitAssumption
<1>5. ASSUME NEW o \in Owners PROVE l1WwartClaim[o] <= bound[o]
  <2>. DEFINE out == SpoofedOutstandingE8(o)
  <2>1. out = Monus(spoofedMinted[o], spoofedBurned[o])
    BY <1>1, Outstanding
  <2>2. out \in Nat /\ out <= spoofedMinted[o]
    BY <1>3, <2>1 DEF Monus
  <2>3. l1WwartClaim[o] <= out * U
    BY <1>1, <1>4, AmountsType DEF ClaimsCovered, ShareClaimed18, BackingCapacity18
  <2>. HIDE DEF out
  <2>4. out * U <= U * spoofedMinted[o]
    BY <1>3, <2>2, UnitAssumption
  <2>5. out * U \in Nat /\ bound[o] = U * spoofedMinted[o] /\ bound[o] \in Nat
    BY <1>4, <2>2, UnitAssumption
  <2>. HIDE DEF bound
  <2>. QED  BY <1>4, <2>3, <2>4, <2>5
<1>6. /\ \A o \in Owners : bound[o] = U * minted[o]
      /\ \A o \in Owners : minted[o] = spoofedMinted[o]
  OBVIOUS
<1>7. SumFunctionOnSet(minted, Owners) = SumFunctionOnSet(spoofedMinted, Owners)
  <2>1. spoofedMinted \in [Keys -> Nat] /\ Owners \subseteq Keys
    BY <1>1 DEF TypeOK, Keys
  <2>. HIDE DEF minted
  <2>. QED  BY <1>4, <1>6, <2>1, OwnersAssumption, SumAgree
<1>. HIDE DEF minted, bound, sweeps
<1>8. SumFunctionOnSet(l1WwartClaim, Owners) <= SumFunctionOnSet(bound, Owners)
  BY <1>4, <1>5, OwnersAssumption, SumMonotonic
<1>9. SumFunctionOnSet(bound, Owners) = U * SumFunctionOnSet(minted, Owners)
  <2>1. \A o \in Owners : bound[o] = U * minted[o]
    BY <1>6
  <2>2. minted \in [Owners -> Nat] /\ bound \in [Owners -> Nat]
    BY <1>4
  <2>. QED  BY <2>1, <2>2, OwnersAssumption, UnitAssumption, SumScaled
<1>10. /\ SumFunctionOnSet(AmountE8, proven) <= SumFunctionOnSet(AmountE8, sweeps)
       /\ SumFunctionOnSet(AmountE8, proven) \in Nat
       /\ SumFunctionOnSet(AmountE8, sweeps) \in Nat
  <2>. DEFINE part == [s \in sweeps |-> IF s \in proven THEN AmountE8[s] ELSE 0]
  <2>1. /\ part \in [sweeps -> Nat] /\ \A s \in sweeps : part[s] <= AmountE8[s]
    BY <1>2
  <2>2. SumFunctionOnSet(AmountE8, proven) = SumFunctionOnSet(part, sweeps)
    BY <1>2, SumOfPart
  <2>. HIDE DEF part
  <2>3. SumFunctionOnSet(part, sweeps) <= SumFunctionOnSet(AmountE8, sweeps)
    BY <1>2, <2>1, SumMonotonic
  <2>4. IsFiniteSet(proven)
    BY <1>2, FS_Subset
  <2>. QED  BY <1>2, <2>2, <2>3, <2>4, SumType
<1>11. SumFunction(AmountE8) = SumFunctionOnSet(AmountE8, sweeps)
  BY DEF SumFunction, SumFunctionOnSet, FoldFunction, AmountE8, sweeps
<1>12. SumFunction(l1WwartClaim) = SumFunctionOnSet(l1WwartClaim, Owners)
  BY <1>4, OwnerSum
<1>. DEFINE counted == SumFunctionOnSet(AmountE8, proven)
            all == SumFunction(AmountE8)
<1>13. counted \in Nat /\ all \in Nat /\ counted <= all
  BY <1>10, <1>11
<1>14. SumFunction(l1WwartClaim) <= U * counted
  BY <1>7, <1>8, <1>9, <1>12 DEF SweptOnceInv
<1>. HIDE DEF counted, all
<1>15. U * counted <= U * all /\ U * counted \in Nat /\ U * all \in Nat
  BY <1>13, UnitAssumption
<1>16. /\ TokenSupply \in Nat /\ SumFunction(l1WwartClaim) \in Nat
       /\ setting.poolSupply \in Nat /\ SumFunction(raised) \in Nat
  BY <1>1, TokenTypes, OwnerSum DEF TokenSupply
<1>17. TokenSupply
         <= setting.poolSupply + SumFunction(l1WwartClaim) + SumFunction(raised)
  BY <1>1 DEF TokensInv
<1>18. TokenSupply <= setting.poolSupply + U * all + SumFunction(raised)
  BY <1>14, <1>15, <1>16, <1>17
<1>. QED  BY <1>18 DEF all

(* The WART that was swept on Warthog.                                     *)
WartSwept == SumFunctionOnSet(AmountE8, setting.happened)

(* Also where inputs dispute whose a sub-wallet is: there is no more wWART *)
(* of Path B than WART was swept, but for what withdrawals of negative     *)
(* amounts added, if what is proved took place and is proved once.         *)
THEOREM TokensWithinSweeps ==
  Spec => [](Honest => TokenSupply <= setting.poolSupply + U * WartSwept
                                        + SumFunction(raised))
<1>1. TypeOK /\ SweptOnceInv /\ [Next]_vars => SweptOnceInv'
  BY SweptOnceNext
<1>2. CollateralInv /\ SweptOnceInv /\ Honest =>
        TokenSupply <= setting.poolSupply + U * WartSwept + SumFunction(raised)
  <2>. SUFFICES ASSUME CollateralInv, SweptOnceInv, Honest
                PROVE  TokenSupply <= setting.poolSupply + U * WartSwept
                                        + SumFunction(raised)
    OBVIOUS
  <2>1. setting.happened = setting.sweeps
    BY SettingType DEF CollateralInv, VaultInv, TypeOK, Honest
  <2>2. WartSwept = SumFunction(AmountE8)
    BY <2>1 DEF WartSwept, SumFunction, SumFunctionOnSet, FoldFunction, AmountE8
  <2>. QED  BY <2>2, SweepsCoverTokens DEF Honest
<1>3. CollateralInv => TypeOK
  BY DEF CollateralInv, VaultInv
<1>. QED  BY <1>1, <1>2, <1>3, InitSweptOnce, CollateralInvHolds, PTL DEF Spec

=============================================================================
