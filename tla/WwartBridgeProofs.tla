------------------------- MODULE WwartBridgeProofs -------------------------
(***************************************************************************)
(* Proofs about WwartBridge: each path keeps to what the other one assumes *)
(* of it, so that what is proved of them apart holds of them together, and *)
(* all wWART and WLIQ are covered by the pool and the vaults.              *)
(***************************************************************************)
EXTENDS WwartBridge, PersonalVaultProofs

-----------------------------------------------------------------------------
(* The pool, and what is proved of it.                                     *)

PoolP == INSTANCE FungiblePoolProofs

LEMMA PoolHolds ==
  /\ PoolP!UnitAssumption /\ PoolP!MinPortalAssumption
  /\ PoolP!OwnersAssumption
  /\ PoolP!Amounts18Assumption /\ PoolP!AmountsE8Assumption
  /\ PoolP!TicketLogAssumption /\ PoolP!ForeignAssumption
BY UnitAssumption, MinPortalAssumption, OwnersAssumption, PoolInputsAssumption
   DEF PoolP!UnitAssumption, PoolP!MinPortalAssumption, PoolP!OwnersAssumption,
       PoolP!Amounts18Assumption, PoolP!AmountsE8Assumption,
       PoolP!TicketLogAssumption, PoolP!ForeignAssumption, PoolP!IsFiniteSet,
       IsFiniteSet

(* It is the same pool: the instance has every definition once more.       *)
LEMMA SameSums ==
  /\ \A f : SumFunction(f) = PoolP!SumFunction(f)
  /\ \A f : Pool!SumFunction(f) = PoolP!SumFunction(f)
  /\ \A f, S : Pool!SumFunctionOnSet(f, S) = PoolP!SumFunctionOnSet(f, S)
BY Zenon
   DEF SumFunction, SumFunctionOnSet, FoldFunctionOnSet, MapThenFoldSet,
       Pool!SumFunction, Pool!SumFunctionOnSet, Pool!FoldFunctionOnSet,
       Pool!MapThenFoldSet, PoolP!SumFunction, PoolP!SumFunctionOnSet,
       PoolP!FoldFunctionOnSet, PoolP!MapThenFoldSet

LEMMA SameInit == Pool!Init <=> PoolP!Init
BY Zenon DEF Pool!Init, PoolP!Init, Pool!NoE8, PoolP!NoE8

LEMMA SameNext == Pool!Next <=> PoolP!Next
BY Zenon
   DEF Pool!Next, PoolP!Next, Pool!Handler, PoolP!Handler, Pool!PoolInput,
       PoolP!PoolInput, Pool!PoolDeposit, PoolP!PoolDeposit,
       Pool!PoolMintWwart, PoolP!PoolMintWwart, Pool!PoolWithdrawWwart,
       PoolP!PoolWithdrawWwart, Pool!PoolWithdrawRejected,
       PoolP!PoolWithdrawRejected, Pool!PoolMintRejected,
       PoolP!PoolMintRejected, Pool!TooSmallRejected, PoolP!TooSmallRejected,
       Pool!InspectPool, PoolP!InspectPool, Pool!L1Transfer, PoolP!L1Transfer,
       Pool!PathBRelease, PoolP!PathBRelease, Pool!OtherInput,
       PoolP!OtherInput, Pool!HolderBurn, PoolP!HolderBurn, Pool!OwnerBurn,
       PoolP!OwnerBurn, Pool!BurnRejected, PoolP!BurnRejected,
       Pool!PoolUnlock, PoolP!PoolUnlock, Pool!PoolUnlockRejected,
       PoolP!PoolUnlockRejected, Pool!RedeemOpenClaim, PoolP!RedeemOpenClaim,
       Pool!RedeemFreeDeposit, PoolP!RedeemFreeDeposit, Pool!RedeemRejected,
       PoolP!RedeemRejected, Pool!PortalDepositWwart,
       PoolP!PortalDepositWwart, Pool!HasOpenClaim, PoolP!HasOpenClaim,
       Pool!IsHolderBurn, PoolP!IsHolderBurn, Pool!Burnable, PoolP!Burnable,
       Pool!BurnableInventory, PoolP!BurnableInventory, Pool!Portal,
       PoolP!Portal, Pool!Filled, PoolP!Filled, Pool!FilledClaimsOf,
       PoolP!FilledClaimsOf, Pool!DebitFilledClaims, PoolP!DebitFilledClaims,
       Pool!Covered, PoolP!Covered, Pool!Release, PoolP!Release,
       Pool!NoRelease, PoolP!NoRelease, Pool!Logged, PoolP!Logged,
       Pool!PoolAvailable18, PoolP!PoolAvailable18, Pool!PoolCapacity18,
       PoolP!PoolCapacity18, Pool!PoolFreeableE8, PoolP!PoolFreeableE8,
       Pool!UserFreeableE8, PoolP!UserFreeableE8, Pool!PutBack, PoolP!PutBack,
       Pool!Accept, PoolP!Accept, Pool!RejectWith, PoolP!RejectWith,
       Pool!poolVars, PoolP!poolVars, Pool!userVars, PoolP!userVars,
       Pool!vaultVars, PoolP!vaultVars, Pool!l1Vars, PoolP!l1Vars, Pool!vars,
       PoolP!vars, Pool!Hints, PoolP!Hints, Pool!Monus, PoolP!Monus,
       Pool!Least, PoolP!Least, Pool!ClaimedToE8, PoolP!ClaimedToE8,
       Pool!PortalWwart18Of, PoolP!PortalWwart18Of, Pool!FilledClaim18,
       PoolP!FilledClaim18, Pool!PoolShare, PoolP!PoolShare, Pool!WithUser,
       PoolP!WithUser, Pool!Ahead, PoolP!Ahead, Pool!FifoDebits,
       PoolP!FifoDebits, Pool!UsersAfterWalk, PoolP!UsersAfterWalk,
       Pool!Range, PoolP!Range, Pool!SetToSeqs, PoolP!SetToSeqs,
       Pool!Cardinality, PoolP!Cardinality, Pool!SumFunction,
       PoolP!SumFunction, Pool!SumFunctionOnSet, PoolP!SumFunctionOnSet,
       Pool!FoldFunctionOnSet, PoolP!FoldFunctionOnSet, Pool!MapThenFoldSet,
       PoolP!MapThenFoldSet

LEMMA SameVars == UNCHANGED Pool!vars <=> UNCHANGED PoolP!vars
BY Zenon
   DEF Pool!vars, PoolP!vars, Pool!poolVars, PoolP!poolVars, Pool!userVars,
       PoolP!userVars, Pool!vaultVars, PoolP!vaultVars, Pool!l1Vars,
       PoolP!l1Vars

(* So what is proved of the pool's steps applies to it here.               *)
LEMMA PoolKeeps ==
  ASSUME PoolP!TokenInv, PoolP!ClaimsOnDeposits, [Pool!Next]_(Pool!vars)
  PROVE  PoolP!TokenInv' /\ PoolP!ClaimsOnDeposits'
<1>1. [PoolP!Next]_(PoolP!vars)
  BY SameNext, SameVars
<1>2. PoolP!TokenInv'
  BY <1>1, PoolHolds, PoolP!TokenNext
<1>3. PoolP!PoolInv
  BY DEF PoolP!TokenInv
<1>. QED  BY <1>1, <1>2, <1>3, PoolHolds, PoolP!DepositsNext

-----------------------------------------------------------------------------
(* The invariant of the bridge.                                            *)

(* A step moves wWART between L1 and the two paths: none is made.          *)
SharedSupply ==
  SumFunction(l1Wwart) + pathA + pathB = setting.poolSupply + ForeignSupply

(* Who has anything to withdraw from Path B has an entry in userVaults.    *)
HoldersEntered ==
  \A o \in Owners : wwartPortable[o] > 0 \/ wWART[o] > 0 => o \in vaults

(* What withdrawals of negative amounts add stays within its bound.        *)
RaisedBounded == SumFunction(raised) <= setting.raisable

BridgeInv ==
  /\ CollateralInv
  /\ SweptOnceInv
  /\ PoolP!TokenInv
  /\ PoolP!ClaimsOnDeposits
  /\ SharedSupply
  /\ HoldersEntered
  /\ RaisedBounded

(* What there is in this setting.                                          *)
LEMMA BridgedSetting ==
  ASSUME setting \in Settings
  PROVE  /\ ~ setting.replays
         /\ setting.amounts18 = Amounts18
         /\ Amounts18 \subseteq Nat \ {0}
         /\ setting.senders \subseteq Owners
         /\ setting.withdrawals18 \subseteq Int /\ setting.raisable \in Nat
         /\ \A amount \in setting.withdrawals18 :
              amount > 0 => amount \in Amounts18
         /\ setting.poolSupply = U * MaxDepositE8
         /\ ForeignSupply = U * SumFunction(AmountE8) + setting.raisable
BY BridgedAssumption, PoolInputsAssumption, SettingType DEF AmountE8

LEMMA BridgeTypes ==
  ASSUME TypeOK, PoolP!TypeOK
  PROVE  /\ l1Wwart \in [Owners -> Nat] /\ SumFunction(l1Wwart) \in Nat
         /\ wWART \in [Owners -> Nat] /\ SumFunction(wWART) \in Nat
         /\ wwartPortable \in [Owners -> Nat]
         /\ SumFunction(wwartPortable) \in Nat
         /\ liquid \in [Owners -> Nat] /\ SumFunction(liquid) \in Nat
         /\ raised \in [Owners -> Nat] /\ SumFunction(raised) \in Nat
         /\ poolWwartPortable \in [Owners -> Nat]
         /\ SumFunction(poolWwartPortable) \in Nat
         /\ poolPortalWwart \in [Owners -> Nat]
         /\ SumFunction(poolPortalWwart) \in Nat
         /\ pathA \in Nat /\ pathB \in Nat
         /\ lockedE8 \in Nat /\ claimed18 \in Nat /\ redeemedE8 \in Nat
         /\ setting \in Settings /\ setting.poolSupply \in Nat
<1>1. /\ l1Wwart \in [Owners -> Nat] /\ wWART \in [Owners -> Nat]
      /\ wwartPortable \in [Owners -> Nat] /\ liquid \in [Owners -> Nat]
      /\ raised \in [Owners -> Nat]
      /\ pathA \in Nat /\ setting \in Settings /\ setting.poolSupply \in Nat
  BY TokenTypes DEF TypeOK
<1>2. /\ poolWwartPortable \in [Owners -> Nat]
      /\ poolPortalWwart \in [Owners -> Nat] /\ pathB \in Nat
      /\ lockedE8 \in Nat /\ claimed18 \in Nat /\ redeemedE8 \in Nat
  BY DEF PoolP!TypeOK, PoolP!PoolType, PoolP!VaultType, PoolP!L1Type
<1>. QED  BY <1>1, <1>2, OwnerSum

LEMMA InvTypes == ASSUME BridgeInv PROVE TypeOK /\ PoolP!TypeOK
BY DEF BridgeInv, CollateralInv, VaultInv, PoolP!TokenInv, PoolP!PoolInv

(* What the pool may still give out is still outside of Path B.            *)
LEMMA RoomForPool ==
  ASSUME BridgeInv
  PROVE  SumFunction(poolWwartPortable) + SumFunction(poolPortalWwart) <= pathA
<1>. DEFINE l1 == SumFunction(l1Wwart)
            open == SumFunction(poolWwartPortable)
            portal == SumFunction(poolPortalWwart)
            had == lockedE8 + redeemedE8
            supply == setting.poolSupply
<1>1. TypeOK /\ PoolP!TypeOK
  BY InvTypes
<1>2. /\ l1 \in Nat /\ open \in Nat /\ portal \in Nat
      /\ pathA \in Nat /\ pathB \in Nat /\ claimed18 \in Nat
      /\ had \in Nat /\ supply \in Nat
      /\ ForeignSupply \in Nat
  BY <1>1, BridgeTypes, PoolInputsAssumption
<1>3. ((l1 + portal) + pathB) + open <= claimed18 + ForeignSupply
  BY SameSums DEF BridgeInv, PoolP!TokenInv, PoolP!SupplyInv, PoolP!Tokens,
                  PoolP!TokenSupply, PoolP!OpenClaims
<1>4. (l1 + pathA) + pathB = supply + ForeignSupply
  BY DEF BridgeInv, SharedSupply
<1>5. claimed18 <= supply
  <2>1. supply = U * MaxDepositE8
    BY <1>1, BridgeTypes, BridgedSetting
  <2>2. claimed18 <= U * had /\ had <= MaxDepositE8
    BY DEF BridgeInv, PoolP!ClaimsOnDeposits
  <2>. HIDE DEF had, supply
  <2>3. U * had <= U * MaxDepositE8 /\ U * had \in Nat
    BY <1>2, <2>2, UnitAssumption, PoolInputsAssumption
  <2>. QED  BY <1>2, <2>1, <2>2, <2>3
<1>. HIDE DEF l1, open, portal, had, supply
<1>6. open + portal <= pathA
  BY <1>2, <1>3, <1>4, <1>5
<1>. QED  BY <1>6 DEF open, portal

(* What Path B may still give out is still outside of the pool.            *)
LEMMA RoomForVaults ==
  ASSUME BridgeInv
  PROVE  SumFunction(wwartPortable) + SumFunction(wWART) <= pathB
<1>. DEFINE l1 == SumFunction(l1Wwart)
            portable == SumFunction(wwartPortable)
            inventory == SumFunction(wWART)
            supply == setting.poolSupply
            made == SumFunction(raised)
            swept == U * SumFunction(AmountE8)
            bound == setting.raisable
<1>1. TypeOK /\ PoolP!TypeOK /\ CollateralInv /\ SweptOnceInv
  BY InvTypes DEF BridgeInv
<1>2. /\ l1 \in Nat /\ portable \in Nat /\ inventory \in Nat
      /\ pathA \in Nat /\ pathB \in Nat /\ supply \in Nat
      /\ ForeignSupply \in Nat /\ made \in Nat
  BY <1>1, BridgeTypes, PoolInputsAssumption
<1>3. /\ ~ setting.replays /\ ForeignSupply = swept + bound /\ bound \in Nat
  BY <1>1, BridgeTypes, BridgedSetting
<1>4. ((l1 + inventory) + portable) + pathA <= (supply + swept) + made
  BY <1>1, <1>3, SweepsCoverTokens DEF TokenSupply
<1>5. made <= bound
  BY DEF BridgeInv, RaisedBounded
<1>6. swept \in Nat
  <2>1. IsFiniteSet(setting.sweeps) /\ AmountE8 \in [setting.sweeps -> Nat]
    BY <1>1, SettingType DEF TypeOK, AmountE8
  <2>2. SumFunctionOnSet(AmountE8, setting.sweeps) \in Nat
    BY <2>1, SumType
  <2>3. SumFunction(AmountE8) = SumFunctionOnSet(AmountE8, setting.sweeps)
    BY <2>1 DEF SumFunction, SumFunctionOnSet, FoldFunction
  <2>. QED  BY <2>2, <2>3, UnitAssumption
<1>7. (l1 + pathA) + pathB = supply + ForeignSupply
  BY DEF BridgeInv, SharedSupply
<1>. HIDE DEF l1, portable, inventory, supply, made, swept, bound
<1>8. portable + inventory <= pathB
  BY <1>2, <1>3, <1>4, <1>5, <1>6, <1>7
<1>. QED  BY <1>8 DEF portable, inventory

-----------------------------------------------------------------------------
(* What a step of one path does to the other.                              *)

Ends == status' \in {"accept", "reject"}

(* Tokens that a path gives out.                                           *)
GivenTo(o, a) == l1Wwart' = [l1Wwart EXCEPT ![o] = @ + a] /\ Accept

(* The pool gives out what was open, and nothing of Path B changes.        *)
LEMMA PoolReleases ==
  ASSUME PoolStep
  PROVE  /\ UNCHANGED <<capacityVars, claimVars, lockVars, proven, pathB>>
         /\ pathA' = pathA - PutOut
         /\ vaults \subseteq vaults'
         /\ Ends
         /\ \/ UNCHANGED l1Wwart
            \/ \E o \in setting.senders, a \in Amounts18 :
                 a <= poolWwartPortable[o] /\ GivenTo(o, a)
<1>. DEFINE Kept == UNCHANGED pathB /\ vaults \subseteq vaults' /\ Ends
            Given == \E o \in setting.senders, a \in Amounts18 :
                       a <= poolWwartPortable[o] /\ GivenTo(o, a)
<1>1. /\ UNCHANGED <<capacityVars, claimVars, lockVars, proven>>
      /\ pathA' = pathA - PutOut
  BY DEF PoolStep, pathBVars
<1>2. ASSUME NEW newUsers, NEW newVaults, Pool!RejectWith(newUsers, newVaults),
             vaults \subseteq newVaults
      PROVE  Kept /\ UNCHANGED l1Wwart
  BY <1>2 DEF Pool!RejectWith, Pool!l1Vars, Ends
<1>3. ASSUME NEW o \in setting.senders, NEW a \in Amounts18, Pool!PoolInput(o, a)
      PROVE  Kept /\ (UNCHANGED l1Wwart \/ Given)
  <2>1. ASSUME NEW ok \in BOOLEAN, Pool!PoolWithdrawWwart(o, a, ok)
        PROVE  Kept /\ (UNCHANGED l1Wwart \/ Given)
    <3>1. Kept
      BY <2>1 DEF Pool!PoolWithdrawWwart, Ends
    <3>2. CASE ok
      BY <2>1, <3>1, <3>2 DEF Pool!PoolWithdrawWwart, GivenTo, Accept
    <3>3. CASE ~ ok
      BY <2>1, <3>1, <3>3 DEF Pool!PoolWithdrawWwart
    <3>. QED  BY <3>2, <3>3, <3>1
  <2>2. CASE Pool!PoolMintWwart(o, a)
    BY <2>2 DEF Pool!PoolMintWwart, Pool!Accept, Pool!l1Vars, Ends
  <2>3. ASSUME NEW auto, Pool!HolderBurn(o, a, auto)
        PROVE  Kept /\ UNCHANGED l1Wwart
    BY <2>3 DEF Pool!HolderBurn, Pool!Accept, Pool!l1Vars, Ends
  <2>4. ASSUME NEW auto, Pool!OwnerBurn(o, a, auto)
        PROVE  Kept /\ UNCHANGED l1Wwart
    BY <2>4 DEF Pool!OwnerBurn, Pool!Accept, Pool!l1Vars, Ends
  <2>5. CASE Pool!PoolUnlock(o, a)
    BY <2>5 DEF Pool!PoolUnlock, Pool!vaultVars, Pool!l1Vars, Ends
  <2>6. CASE Pool!RedeemOpenClaim(o, a)
    BY <2>6 DEF Pool!RedeemOpenClaim, Pool!l1Vars, Ends
  <2>7. CASE Pool!RedeemFreeDeposit(o, a)
    BY <2>7 DEF Pool!RedeemFreeDeposit, Pool!l1Vars, Ends
  <2>8. CASE \/ Pool!PoolWithdrawRejected(o, a) \/ Pool!BurnRejected(o, a)
             \/ Pool!PoolUnlockRejected(o, a) \/ Pool!RedeemRejected(o, a)
    BY <1>2, <2>8 DEF Pool!PoolWithdrawRejected, Pool!BurnRejected,
                      Pool!PoolUnlockRejected, Pool!RedeemRejected
  <2>. HIDE DEF Kept, Given
  <2>. QED  BY <1>3, <2>1, <2>2, <2>3, <2>4, <2>5, <2>6, <2>7, <2>8
            DEF Pool!PoolInput
<1>4. ASSUME \/ \E o \in setting.senders, e8 \in AmountsE8 : Pool!PoolDeposit(o, e8)
             \/ \E o \in setting.senders : Pool!InspectPool(o)
      PROVE  Kept /\ UNCHANGED l1Wwart
  BY <1>4 DEF Pool!PoolDeposit, Pool!InspectPool, Pool!vaultVars, Pool!l1Vars,
              Pool!Accept, Ends
<1>5. ASSUME Pool!PoolMintRejected \/ \E a \in Amounts18 : Pool!TooSmallRejected(a)
      PROVE  Kept /\ UNCHANGED l1Wwart
  BY <1>2, <1>5 DEF Pool!PoolMintRejected, Pool!TooSmallRejected
<1>6. Kept /\ (UNCHANGED l1Wwart \/ Given)
  <2>. HIDE DEF Kept, Given
  <2>. QED  BY <1>3, <1>4, <1>5 DEF PoolStep
<1>. QED  BY <1>1, <1>6

(* A handler of one owner stores the entry of that owner.                  *)
LEMMA StoredAtOne ==
  ASSUME NEW o \in Owners,
         \A p \in Owners \ {o} :
           /\ spoofedMinted'[p] = spoofedMinted[p]
           /\ spoofedBurned'[p] = spoofedBurned[p]
           /\ liquid'[p] = liquid[p] /\ l1WwartClaim'[p] = l1WwartClaim[p]
           /\ wwartPortable'[p] = wwartPortable[p] /\ wWART'[p] = wWART[p]
  PROVE  Stored \subseteq {o}
BY DEF Stored, UserVault

(* Nobody's entry is stored that nothing changed in.                       *)
LEMMA StoredNothing ==
  ASSUME UNCHANGED <<capacityVars, claimVars>>
  PROVE  Stored = {}
BY DEF Stored, UserVault, capacityVars, claimVars

(* What a withdrawal does on L1 and adds to what is portable.              *)
OnL1(o, amount) ==
  \/ UNCHANGED <<l1Wwart, raised>>
  \/ /\ Accept
     /\ l1Wwart' = [l1Wwart EXCEPT ![o] = @ + Monus(amount, 0)]
     /\ raised' = [raised EXCEPT ![o] = @ + Monus(0, amount)]
     /\ SumFunction(raised) + Monus(0, amount) <= setting.raisable

LEMMA WithdrawOnL1 ==
  ASSUME TypeOK, NEW o \in Owners, NEW amount \in Int,
         NEW vouchersOk \in BOOLEAN, WithdrawWwart(o, amount, vouchersOk)
  PROVE  OnL1(o, amount)
<1>1. CASE vouchersOk = FALSE
  BY <1>1, WithdrawEffect DEF OnL1
<1>2. CASE vouchersOk = TRUE
  <2>. DEFINE added == Monus(0, amount)
              out == Monus(amount, 0)
              room == SumFunction(raised) + added <= setting.raisable
  <2>1. /\ status' = "accept" /\ room
        /\ l1Wwart' = [l1Wwart EXCEPT ![o] = @ + out]
        /\ raised' = [raised EXCEPT ![o] = @ + added]
    BY <1>2, WithdrawEffect
  <2>. HIDE DEF added, out, room
  <2>. QED  BY <2>1 DEF Accept, added, out, room, OnL1
<1>. QED  BY <1>1, <1>2

(* Path B gives out what was portable or in the inventory, and stores the  *)
(* entry of one owner.                                                     *)
LEMMA VaultReleases ==
  ASSUME TypeOK, VaultStep
  PROVE  /\ UNCHANGED <<pathAVars, pathA>>
         /\ pathB' = pathB - PutOut
         /\ vaults' = vaults \cup Stored
         /\ Ends
         /\ \/ UNCHANGED l1Wwart /\ \E o \in Owners : Stored \subseteq {o}
            \/ \E o \in setting.senders, a \in Amounts18 :
                 /\ a <= wwartPortable[o] + Portal(o) /\ GivenTo(o, a)
                 /\ Stored \subseteq {o}
<1>. DEFINE One == \E o \in Owners : Stored \subseteq {o}
            Kept == UNCHANGED pathA /\ Ends
            Given == \E o \in setting.senders, a \in Amounts18 :
                       /\ a <= wwartPortable[o] + Portal(o) /\ GivenTo(o, a)
                       /\ Stored \subseteq {o}
<1>1. /\ UNCHANGED pathAVars /\ pathB' = pathB - PutOut
      /\ vaults' = vaults \cup Stored
  BY DEF VaultStep
<1>2. /\ setting.senders \subseteq Owners /\ Amounts18 \subseteq Nat
      /\ setting.amountsE8 \subseteq Nat /\ Owners # {}
      /\ \A sweep \in setting.sweeps : sweep.to \in Vaults /\ sweep.amountE8 \in Nat
  BY SettingType, PoolInputsAssumption DEF TypeOK
<1>3. /\ spoofedMinted \in [Keys -> Nat] /\ spoofedBurned \in [Keys -> Nat]
      /\ liquid \in [Owners -> Nat] /\ l1WwartClaim \in [Owners -> Nat]
      /\ wwartPortable \in [Owners -> Nat] /\ wWART \in [Owners -> Nat]
      /\ l1Wwart \in [Owners -> Nat]
  BY DEF TypeOK
<1>4. ASSUME UNCHANGED <<capacityVars, claimVars, l1Vars>>, Ends
      PROVE  Kept /\ UNCHANGED l1Wwart /\ One
  BY <1>2, <1>4, StoredNothing DEF l1Vars
<1>5. ASSUME Refuse PROVE Kept /\ UNCHANGED l1Wwart /\ One
  BY <1>4, <1>5 DEF Refuse, Ends
<1>6. ASSUME NEW o \in setting.senders, NEW a \in Amounts18, ClaimInput(o, a)
      PROVE  Kept /\ UNCHANGED l1Wwart /\ One
  <2>1. CASE \/ MintLiquid(o, a) \/ SyncWwartClaim(o, a) \/ MintWwart(o, a)
             \/ BurnLiquid(o, a) \/ BurnWwart(o, a)
    <3>1. Kept /\ UNCHANGED l1Wwart
      BY <2>1 DEF MintLiquid, SyncWwartClaim, MintWwart, BurnLiquid, BurnWwart,
                  l1Vars, Accept, Ends
    <3>2. Stored \subseteq {o}
      BY <1>2, <1>3, <2>1, StoredAtOne
         DEF MintLiquid, SyncWwartClaim, MintWwart, BurnLiquid, BurnWwart,
             capacityVars
    <3>. QED  BY <1>2, <3>1, <3>2
  <2>2. CASE BurnLiquidRefused(o, a) \/ BurnWwartRefused(o, a)
    BY <1>5, <2>2 DEF BurnLiquidRefused, BurnWwartRefused
  <2>. HIDE DEF Kept, Given, One
  <2>. QED  BY <1>6, <2>1, <2>2 DEF ClaimInput
<1>6a. ASSUME NEW o \in setting.senders \cap vaults,
              NEW a \in setting.withdrawals18, WithdrawInput(o, a)
       PROVE  Kept /\ ((UNCHANGED l1Wwart /\ One) \/ Given)
  <2>1. /\ o \in Owners /\ a \in Int
        /\ a > 0 => a \in Amounts18
    BY <1>2, BridgedSetting DEF TypeOK
  <2>2. ASSUME NEW ok \in BOOLEAN, WithdrawWwart(o, a, ok)
        PROVE  Kept /\ ((UNCHANGED l1Wwart /\ One) \/ Given)
    <3>1. Kept /\ a <= wwartPortable[o] + Portal(o)
      BY <1>2, <1>3, <2>1, <2>2, AmountsType DEF WithdrawWwart, Ends
    <3>2. Stored \subseteq {o}
      BY <1>3, <2>1, <2>2, StoredAtOne DEF WithdrawWwart, capacityVars
    <3>3. OnL1(o, a)
      BY <2>1, <2>2, WithdrawOnL1
    <3>4. CASE UNCHANGED l1Wwart
      BY <2>1, <3>1, <3>2, <3>4
    <3>5. CASE Accept /\ l1Wwart' = [l1Wwart EXCEPT ![o] = @ + Monus(a, 0)]
      <4>1. CASE a > 0
        <5>1. Monus(a, 0) = a
          BY <2>1, <4>1 DEF Monus
        <5>2. GivenTo(o, a)
          BY <3>5, <5>1 DEF GivenTo
        <5>. QED  BY <2>1, <3>1, <3>2, <4>1, <5>2
      <4>2. CASE ~ (a > 0)
        <5>1. UNCHANGED l1Wwart
          BY <1>3, <2>1, <3>5, <4>2 DEF Monus
        <5>. QED  BY <2>1, <3>1, <3>2, <5>1
      <4>. QED  BY <4>1, <4>2
    <3>. HIDE DEF Kept, Given, One
    <3>. QED  BY <3>3, <3>4, <3>5 DEF OnL1
  <2>3. CASE WithdrawRefused(o, a)
    BY <1>5, <2>3 DEF WithdrawRefused
  <2>. HIDE DEF Kept, Given, One
  <2>. QED  BY <1>6a, <2>2, <2>3 DEF WithdrawInput
<1>7. ASSUME NEW sub \in Subs, VaultHandler(sub)
      PROVE  Kept /\ UNCHANGED l1Wwart /\ One
  <2>1. ASSUME NEW sender \in setting.senders, NEW e8 \in setting.amountsE8,
               SubUnlock(sender, sub, e8)
        PROVE  Kept /\ UNCHANGED l1Wwart /\ One
    <3>. DEFINE v == subLocks[sub].vault
    <3>1. /\ UNCHANGED <<spoofedMinted, claimVars, l1Vars>> /\ Accept
          /\ spoofedBurned' = Counted(spoofedBurned, sender, v, e8)
      BY <2>1 DEF SubUnlock
    <3>2. sender \in Owners /\ e8 \in Nat
      BY <1>2
    <3>3. v \in Vaults
      BY <2>1, <3>2, UnlockEffect
    <3>. HIDE DEF v
    <3>4. \A p \in Owners \ {sender} : spoofedBurned'[p] = spoofedBurned[p]
      <4>. DEFINE burned == spoofedBurned
      <4>2. burned \in [Keys -> Nat]
        BY <1>3
      <4>. HIDE DEF burned
      <4>3. \A p \in Owners \ {sender} :
              Counted(burned, sender, v, e8)[p] = burned[p]
        BY <3>2, <3>3, <4>2, CountedProperties
      <4>1. \A p \in Owners \ {sender} :
              Counted(spoofedBurned, sender, v, e8)[p] = spoofedBurned[p]
        BY <4>3 DEF burned
      <4>. QED  BY <3>1, <4>1
    <3>5. Stored \subseteq {sender}
      BY <3>1, <3>2, <3>4, StoredAtOne DEF claimVars
    <3>. QED  BY <3>1, <3>2, <3>5 DEF Accept, Ends, l1Vars
  <2>2. ASSUME NEW o, NEW vault, NEW spelling,
               CreateVault(o, sub, vault) \/ SubLock(sub, spelling, o, vault)
        PROVE  Kept /\ UNCHANGED l1Wwart /\ One
    BY <1>4, <2>2 DEF CreateVault, SubLock, Accept, Ends
  <2>3. ASSUME NEW sender, NEW e8, UnlockRefused(sender, sub, e8)
        PROVE  Kept /\ UNCHANGED l1Wwart /\ One
    BY <1>5, <2>3 DEF UnlockRefused
  <2>. HIDE DEF Kept, One
  <2>. QED  BY <1>7, <2>1, <2>2, <2>3 DEF VaultHandler
<1>8. ASSUME NEW sweep \in setting.sweeps, NEW spelling \in setting.spellings,
             SweepHandler(sweep, spelling)
      PROVE  Kept /\ UNCHANGED l1Wwart /\ One
  <2>1. ASSUME NEW o \in Owners, SweptFor(sweep, o)
        PROVE  Kept /\ UNCHANGED l1Wwart /\ One
    <3>1. /\ UNCHANGED <<spoofedBurned, claimVars, l1Vars>> /\ Accept
          /\ spoofedMinted' = Counted(spoofedMinted, o, sweep.to, sweep.amountE8)
      BY <2>1 DEF SweptFor
    <3>2. \A p \in Owners \ {o} : spoofedMinted'[p] = spoofedMinted[p]
      <4>. DEFINE v == sweep.to
                  e8 == sweep.amountE8
      <4>1. v \in Vaults /\ e8 \in Nat /\ spoofedMinted \in [Keys -> Nat]
        BY <1>2, <1>3
      <4>2. spoofedMinted' = Counted(spoofedMinted, o, v, e8)
        BY <3>1
      <4>. HIDE DEF v, e8
      <4>3. \A p \in Owners \ {o} :
              Counted(spoofedMinted, o, v, e8)[p] = spoofedMinted[p]
        BY <4>1, CountedProperties
      <4>. QED  BY <4>2, <4>3
    <3>3. Stored \subseteq {o}
      BY <3>1, <3>2, StoredAtOne DEF claimVars
    <3>. QED  BY <3>1, <3>3 DEF Accept, Ends, l1Vars
  <2>. HIDE DEF Kept, One
  <2>. QED  BY <1>5, <1>8, <2>1, SweepEffect
<1>9. Kept /\ ((UNCHANGED l1Wwart /\ One) \/ Given)
  <2>. HIDE DEF Kept, Given, One
  <2>. QED  BY <1>5, <1>6, <1>6a, <1>7, <1>8 DEF VaultStep, MintRefused
<1>. QED  BY <1>1, <1>9

-----------------------------------------------------------------------------
(* Each path keeps to what the other one assumes of it.                    *)

(* What one owner has is within the sum.                                   *)
LEMMA AmountInSum ==
  ASSUME NEW f \in [Owners -> Nat], NEW o \in Owners
  PROVE  f[o] \in Nat /\ f[o] <= SumFunction(f)
<1>1. SumFunctionOnSet(f, Owners) = f[o] + SumFunctionOnSet(f, Owners \ {o})
  <2>1. Owners \in SUBSET Owners
    OBVIOUS
  <2>. QED  BY <2>1, OwnersAssumption, SumRemove
<1>2. SumFunctionOnSet(f, Owners \ {o}) \in Nat
  <2>1. IsFiniteSet(Owners \ {o}) /\ Owners \ {o} \in SUBSET Owners
    BY OwnersAssumption, FS_Subset
  <2>. QED  BY <2>1, SumType
<1>3. f[o] \in Nat
  OBVIOUS
<1>. QED  BY <1>1, <1>2, <1>3, OwnerSum

(* Tokens given to an owner are put out, and nothing else is.              *)
LEMMA GivenIsPutOut ==
  ASSUME l1Wwart \in [Owners -> Nat], NEW o \in Owners, NEW a \in Nat,
         GivenTo(o, a)
  PROVE  PutOut = a
<1>. DEFINE g == [l1Wwart EXCEPT ![o] = @ + a]
<1>1. g \in [Owners -> Nat] /\ g[o] = l1Wwart[o] + a /\ l1Wwart[o] \in Nat
      /\ \A p \in Owners \ {o} : g[p] = l1Wwart[p]
  OBVIOUS
<1>2. l1Wwart' = g
  BY DEF GivenTo
<1>. HIDE DEF g
<1>3. SumFunction(g) + l1Wwart[o] = SumFunction(l1Wwart) + g[o]
  BY <1>1, OwnerSumAtOne
<1>4. SumFunction(g) \in Nat /\ SumFunction(l1Wwart) \in Nat
  BY <1>1, OwnerSum
<1>5. SumFunction(g) - SumFunction(l1Wwart) = a
  BY <1>1, <1>3, <1>4
<1>. QED  BY <1>2, <1>5 DEF PutOut

LEMMA NothingIsPutOut ==
  ASSUME l1Wwart \in [Owners -> Nat], UNCHANGED l1Wwart
  PROVE  PutOut = 0
<1>1. SumFunction(l1Wwart) \in Nat
  BY OwnerSum
<1>. QED  BY <1>1 DEF PutOut

(* Taking what is put out from one path keeps the supply.                  *)
LEMMA SupplyKeptByStep ==
  ASSUME SharedSupply, UNCHANGED setting,
         SumFunction(l1Wwart) \in Nat, SumFunction(l1Wwart') \in Nat,
         pathA \in Nat, pathB \in Nat,
         \/ pathA' = pathA - PutOut /\ UNCHANGED pathB
         \/ pathB' = pathB - PutOut /\ UNCHANGED pathA
  PROVE  SharedSupply'
<1>. DEFINE s == SumFunction(l1Wwart)
            t == SumFunction(l1Wwart')
            a == pathA'
            b == pathB'
<1>1. /\ s \in Nat /\ t \in Nat
      /\ \/ a = pathA - (t - s) /\ b = pathB
         \/ b = pathB - (t - s) /\ a = pathA
  BY DEF PutOut
<1>2. s + pathA + pathB = setting.poolSupply + ForeignSupply
  BY DEF SharedSupply
<1>3. SharedSupply' <=> t + a + b = setting.poolSupply + ForeignSupply
  BY DEF SharedSupply
<1>. HIDE DEF s, t, a, b
<1>4. t + a + b = s + pathA + pathB
  BY <1>1
<1>. QED  BY <1>2, <1>3, <1>4

(* The pool's inputs are steps of the pool.                                *)
LEMMA PoolStepOfPool ==
  ASSUME setting \in Settings, PoolStep
  PROVE  Pool!Next
<1>1. setting.senders \subseteq Owners
  BY BridgedSetting
<1>. QED  BY <1>1 DEF PoolStep, Pool!Next, Pool!Handler

(* An input for the pool: to Path B its tokens come from outside.          *)
LEMMA PoolStepInPaths ==
  ASSUME BridgeInv, UNCHANGED setting, PoolStep
  PROVE  Next /\ Pool!Next
<1>1. /\ UNCHANGED <<capacityVars, claimVars, lockVars, proven>>
      /\ pathA' = pathA - PutOut
      /\ Ends
      /\ \/ UNCHANGED l1Wwart
         \/ \E o \in setting.senders, a \in Amounts18 :
              a <= poolWwartPortable[o] /\ GivenTo(o, a)
  BY PoolReleases
<1>2. /\ l1Wwart \in [Owners -> Nat] /\ poolWwartPortable \in [Owners -> Nat]
      /\ SumFunction(poolWwartPortable) \in Nat
      /\ SumFunction(poolPortalWwart) \in Nat
      /\ pathA \in Nat /\ setting \in Settings
  BY InvTypes, BridgeTypes
<1>3. /\ setting.amounts18 = Amounts18 /\ Amounts18 \subseteq Nat
      /\ setting.senders \subseteq Owners
  BY <1>2, BridgedSetting
<1>4. Pool!Next
  BY <1>2, PoolStepOfPool
<1>5. ASSUME UNCHANGED l1Wwart PROVE Next
  <2>1. PutOut = 0
    BY <1>2, <1>5, NothingIsPutOut
  <2>2. pathA' = pathA
    BY <1>1, <1>2, <2>1
  <2>3. OtherInput
    BY <1>1, <1>5, <2>2 DEF OtherInput, Ends, l1Vars
  <2>. QED  BY <2>3 DEF Next
<1>6. ASSUME NEW o \in setting.senders, NEW a \in Amounts18,
             a <= poolWwartPortable[o], GivenTo(o, a)
      PROVE  Next
  <2>1. a \in Nat /\ o \in Owners
    BY <1>3
  <2>2. PutOut = a
    BY <1>2, <1>6, <2>1, GivenIsPutOut
  <2>3. a <= pathA
    <3>1. /\ poolWwartPortable[o] \in Nat
          /\ poolWwartPortable[o] <= SumFunction(poolWwartPortable)
      BY <1>2, <2>1, AmountInSum
    <3>. QED  BY <1>2, <1>6, <2>1, <3>1, RoomForPool
  <2>4. PathARelease(o, a)
    BY <1>1, <1>6, <2>2, <2>3 DEF PathARelease, GivenTo
  <2>. QED  BY <1>3, <2>4 DEF Next
<1>. QED  BY <1>1, <1>5, <1>6, <1>4

(* An input for the vaults: to the pool its tokens come from outside.      *)
LEMMA VaultStepInPaths ==
  ASSUME BridgeInv, UNCHANGED setting, VaultStep
  PROVE  Next /\ Pool!Next
<1>1. /\ UNCHANGED <<pathAVars, pathA>>
      /\ pathB' = pathB - PutOut
      /\ vaults' = vaults \cup Stored
      /\ Ends
      /\ \/ UNCHANGED l1Wwart /\ \E o \in Owners : Stored \subseteq {o}
         \/ \E o \in setting.senders, a \in Amounts18 :
              /\ a <= wwartPortable[o] + Portal(o) /\ GivenTo(o, a)
              /\ Stored \subseteq {o}
  BY InvTypes, VaultReleases
<1>2. /\ l1Wwart \in [Owners -> Nat] /\ wwartPortable \in [Owners -> Nat]
      /\ wWART \in [Owners -> Nat]
      /\ SumFunction(wwartPortable) \in Nat /\ SumFunction(wWART) \in Nat
      /\ pathB \in Nat /\ setting \in Settings
  BY InvTypes, BridgeTypes
<1>3. /\ setting.amounts18 = Amounts18 /\ Amounts18 \subseteq Nat \ {0}
      /\ setting.senders \subseteq Owners
  BY <1>2, BridgedSetting
<1>4. Next
  BY <1>3 DEF VaultStep, Next, ClaimHandler
<1>5. ASSUME UNCHANGED l1Wwart, NEW o \in Owners, Stored \subseteq {o}
      PROVE  Pool!Next
  <2>1. PutOut = 0
    BY <1>2, <1>5, NothingIsPutOut
  <2>2. pathB' = pathB
    BY <1>1, <1>2, <2>1
  <2>3. vaults' = vaults \cup {} \/ vaults' = vaults \cup {o}
    BY <1>1, <1>5
  <2>4. Pool!OtherInput({}) \/ Pool!OtherInput({o})
    BY <1>1, <1>5, <2>2, <2>3
       DEF Pool!OtherInput, Ends, pathAVars, Pool!poolVars, Pool!userVars,
           Pool!l1Vars
  <2>. QED  BY <2>4 DEF Pool!Next
<1>6. ASSUME NEW o \in setting.senders, NEW a \in Amounts18,
             a <= wwartPortable[o] + Portal(o), GivenTo(o, a),
             Stored \subseteq {o}
      PROVE  Pool!Next
  <2>1. a \in Nat \ {0} /\ o \in Owners
    BY <1>3
  <2>2. PutOut = a
    BY <1>2, <1>6, <2>1, GivenIsPutOut
  <2>3. /\ wwartPortable[o] \in Nat /\ wWART[o] \in Nat
        /\ wwartPortable[o] <= SumFunction(wwartPortable)
        /\ wWART[o] <= SumFunction(wWART)
    BY <1>2, <2>1, AmountInSum
  <2>4. Portal(o) \in Nat /\ Portal(o) <= wWART[o]
    BY <2>3, PortalProperties DEF Portal
  <2>5. a <= pathB
    BY <1>2, <1>6, <2>1, <2>3, <2>4, RoomForVaults
  <2>6. o \in vaults
    <3>1. wwartPortable[o] > 0 \/ wWART[o] > 0
      BY <1>6, <2>1, <2>3, <2>4
    <3>. QED  BY <2>1, <3>1 DEF BridgeInv, HoldersEntered
  <2>7. vaults' = vaults
    BY <1>1, <1>6, <2>6
  <2>8. Pool!PathBRelease(o, a)
    BY <1>1, <1>6, <2>2, <2>5, <2>7
       DEF Pool!PathBRelease, Pool!Accept, Accept, GivenTo, pathAVars,
           Pool!poolVars, Pool!userVars, Pool!vaultVars
  <2>. QED  BY <2>1, <2>8 DEF Pool!Next
<1>. QED  BY <1>1, <1>4, <1>5, <1>6

(* A deposit goes to both paths' handlers, with the same share.            *)
LEMMA DepositInPaths ==
  ASSUME TypeOK, PoolP!TypeOK, UNCHANGED setting, NEW o \in setting.senders,
         NEW amount \in Amounts18, NEW hint \in Hints,
         PortalDeposit(o, amount, hint)
  PROVE  Next /\ Pool!Next
<1>1. /\ setting.amounts18 = Amounts18 /\ Amounts18 \subseteq Nat \ {0}
      /\ setting.senders \subseteq Owners
  BY BridgedSetting DEF TypeOK
<1>2. PersonalFilled(o) \in BOOLEAN
  BY DEF PersonalFilled
<1>3. Pool!Next
  <2>1. Pool!PortalDepositWwart(o, amount, hint, PersonalFilled(o))
    BY DEF PortalDeposit
  <2>2. hint \in Pool!Hints
    BY DEF Hints, Pool!Hints
  <2>. QED  BY <1>1, <1>2, <2>1, <2>2 DEF Pool!Next, Pool!Handler
<1>. DEFINE filled == Pool!Filled(o)
            personal == PersonalFilled(o)
            share == PoolShare(amount, hint, filled, personal, claimed18)
<1>4. amount \in Nat \ {0} /\ claimed18 \in Nat /\ filled \in Nat
  <2>1. /\ poolL1WwartClaim[o] \in Nat /\ poolWwartPortable[o] \in Nat
        /\ claimed18 \in Nat
    BY <1>1 DEF PoolP!TypeOK, PoolP!PoolType, PoolP!VaultType
  <2>. QED  BY <1>1, <2>1 DEF Pool!Filled, Pool!FilledClaim18, Pool!Monus
<1>5. PortalDepositWwart(o, amount, share)
  BY DEF PortalDeposit
<1>6. share \in PoolShares(o, amount)
  <2>. HIDE DEF filled
  <2>. DEFINE f == Least(amount, filled)
              c == IF claimed18 > 0 THEN 1 ELSE 0
  <2>1. f \in 0 .. amount /\ c \in {0, 1}
    BY <1>4 DEF Least
  <2>2. share = PoolShare(amount, hint, f, personal, c)
    <3>1. (f > 0 <=> filled > 0) /\ (c > 0 <=> claimed18 > 0)
      BY <1>4 DEF Least
    <3>2. Least(amount, f) = Least(amount, filled)
      BY <1>4 DEF Least
    <3>. HIDE DEF f, c, personal
    <3>. QED  BY <3>1, <3>2 DEF PoolShare
  <2>. HIDE DEF f, c, share
  <2>. QED  BY <2>1, <2>2 DEF PoolShares
<1>7. Next
  <2>. HIDE DEF share
  <2>. QED  BY <1>1, <1>5, <1>6 DEF Next, ClaimHandler
<1>. QED  BY <1>3, <1>7

(* A step of the bridge is a step of both paths, or none.                  *)
LEMMA StepsInPaths ==
  ASSUME BridgeInv, [NextBridge]_bridgeVars
  PROVE  [Next]_vars /\ [Pool!Next]_(Pool!vars)
<1>1. TypeOK /\ PoolP!TypeOK /\ setting.senders \subseteq Owners
      /\ setting.amounts18 = Amounts18
  BY InvTypes, BridgedSetting DEF TypeOK
<1>2. ASSUME UNCHANGED setting, NEW from \in setting.senders,
             NEW to \in setting.senders, NEW amount \in Amounts18,
             Transfer(from, to, amount)
      PROVE  Next /\ Pool!Next
  <2>1. L1Transfer(from, to, amount) /\ Pool!L1Transfer(from, to, amount)
    BY <1>2 DEF Transfer
  <2>. QED  BY <1>1, <1>2, <2>1 DEF Next, Pool!Next
<1>3. ASSUME UNCHANGED setting, NEW o \in setting.senders, OtherInput,
             Pool!OtherInput({o})
      PROVE  Next /\ Pool!Next
  BY <1>1, <1>3 DEF Next, Pool!Next
<1>4. CASE UNCHANGED bridgeVars
  <2>1. UNCHANGED vars
    BY <1>4 DEF bridgeVars
  <2>2. UNCHANGED Pool!vars
    BY <1>4 DEF bridgeVars, vars, pathAVars, l1Vars, Pool!vars, Pool!poolVars,
                Pool!userVars, Pool!vaultVars, Pool!l1Vars
  <2>. QED  BY <2>1, <2>2
<1>5. CASE NextBridge
  BY <1>1, <1>2, <1>3, <1>5, PoolStepInPaths, VaultStepInPaths, DepositInPaths
     DEF NextBridge
<1>. QED  BY <1>4, <1>5

-----------------------------------------------------------------------------
(* Steps keep the invariant.                                               *)

(* A deposit leaves L1 for the two paths.                                  *)
LEMMA DepositKeepsSupply ==
  ASSUME TypeOK, PoolP!TypeOK, SharedSupply, UNCHANGED setting,
         NEW o \in setting.senders, NEW amount \in Amounts18, NEW hint \in Hints,
         PortalDeposit(o, amount, hint)
  PROVE  SharedSupply'
<1>. DEFINE share == PoolShare(amount, hint, Pool!Filled(o), PersonalFilled(o),
                               claimed18)
            g == [l1Wwart EXCEPT ![o] = @ - amount]
            s == SumFunction(l1Wwart)
            a == pathA'
            b == pathB'
<1>1. /\ amount \in Nat \ {0} /\ o \in Owners /\ claimed18 \in Nat
      /\ l1Wwart \in [Owners -> Nat] /\ s \in Nat
      /\ pathA \in Nat /\ pathB \in Nat
  BY BridgedSetting, BridgeTypes
<1>2. /\ l1Wwart[o] >= amount /\ l1Wwart' = g /\ a = pathA + share
  BY DEF PortalDeposit, PortalDepositWwart
<1>3. b = pathB + (amount - share)
  <2>1. share = Pool!PoolShare(amount, hint, Pool!Filled(o), PersonalFilled(o),
                               claimed18)
    BY DEF PoolShare, Pool!PoolShare, Least, Pool!Least
  <2>2. b = pathB + (amount
              - Pool!PoolShare(amount, hint, Pool!Filled(o), PersonalFilled(o),
                               claimed18))
    BY DEF PortalDeposit, Pool!PortalDepositWwart
  <2>. HIDE DEF share, b
  <2>. QED  BY <2>1, <2>2
<1>4. share \in 0 .. amount
  <2>1. Pool!Filled(o) \in Nat
    <3>1. poolL1WwartClaim[o] \in Nat /\ poolWwartPortable[o] \in Nat
      BY <1>1 DEF PoolP!TypeOK, PoolP!VaultType
    <3>. QED  BY <3>1 DEF Pool!Filled, Pool!FilledClaim18, Pool!Monus
  <2>2. PersonalFilled(o) \in BOOLEAN
    BY DEF PersonalFilled
  <2>. QED  BY <1>1, <2>1, <2>2, PoolShareBound
<1>5. /\ g \in [Owners -> Nat] /\ g[o] = l1Wwart[o] - amount
      /\ \A p \in Owners \ {o} : g[p] = l1Wwart[p]
  BY <1>1, <1>2
<1>. HIDE DEF share, g
<1>6. SumFunction(g) + l1Wwart[o] = s + g[o] /\ SumFunction(g) \in Nat
  BY <1>1, <1>5, OwnerSum, OwnerSumAtOne
<1>7. s + pathA + pathB = setting.poolSupply + ForeignSupply
  BY DEF SharedSupply
<1>8. SharedSupply' <=> SumFunction(g) + a + b = setting.poolSupply + ForeignSupply
  BY <1>2 DEF SharedSupply
<1>. HIDE DEF s, a, b
<1>9. l1Wwart[o] \in Nat
  BY <1>1
<1>10. SumFunction(g) + amount = s
  BY <1>1, <1>2, <1>5, <1>6, <1>9
<1>11. SumFunction(g) + a + b = s + pathA + pathB
  <2>. DEFINE r == SumFunction(g)
  <2>1. r \in Nat /\ r + amount = s /\ share \in Nat
    BY <1>1, <1>4, <1>6, <1>10
  <2>2. a = pathA + share /\ b = pathB + (amount - share)
    BY <1>2, <1>3
  <2>. HIDE DEF r
  <2>3. r + a + b = s + pathA + pathB
    BY <1>1, <2>1, <2>2
  <2>. QED  BY <2>3 DEF r
<1>. QED  BY <1>7, <1>8, <1>11

(* A transfer stays on L1.                                                 *)
LEMMA TransferKeepsSupply ==
  ASSUME TypeOK, SharedSupply, UNCHANGED <<setting, pathB>>,
         NEW from \in Owners, NEW to \in Owners, NEW amount \in Nat,
         L1Transfer(from, to, amount)
  PROVE  SharedSupply'
<1>. DEFINE f == [l1Wwart EXCEPT ![from] = @ - amount]
            g == [l1Wwart EXCEPT ![from] = @ - amount, ![to] = @ + amount]
<1>1. l1Wwart \in [Owners -> Nat]
  BY DEF TypeOK
<1>2. /\ from # to /\ l1Wwart[from] >= amount /\ l1Wwart' = g
      /\ UNCHANGED pathA
  BY DEF L1Transfer, l1Vars
<1>3. /\ f \in [Owners -> Nat] /\ g \in [Owners -> Nat]
      /\ f[from] = l1Wwart[from] - amount
      /\ \A p \in Owners \ {from} : f[p] = l1Wwart[p]
      /\ g[to] = f[to] + amount
      /\ \A p \in Owners \ {to} : g[p] = f[p]
  BY <1>1, <1>2
<1>. HIDE DEF f, g
<1>4. /\ SumFunction(f) + l1Wwart[from] = SumFunction(l1Wwart) + f[from]
      /\ SumFunction(g) + f[to] = SumFunction(f) + g[to]
  BY <1>1, <1>3, OwnerSumAtOne
<1>5. /\ SumFunction(f) \in Nat /\ SumFunction(g) \in Nat
      /\ SumFunction(l1Wwart) \in Nat
  BY <1>1, <1>3, OwnerSum
<1>6. l1Wwart[from] \in Nat /\ f[to] \in Nat
  BY <1>1, <1>3
<1>7. SumFunction(g) = SumFunction(l1Wwart)
  BY <1>2, <1>3, <1>4, <1>5, <1>6
<1>. QED  BY <1>2, <1>7 DEF SharedSupply

(* So does every step keep the supply.                                     *)
LEMMA SupplyNext ==
  ASSUME BridgeInv, TypeOK', [NextBridge]_bridgeVars
  PROVE  SharedSupply'
<1>1. /\ TypeOK /\ PoolP!TypeOK /\ SharedSupply
      /\ SumFunction(l1Wwart) \in Nat /\ pathA \in Nat /\ pathB \in Nat
      /\ setting.senders \subseteq Owners /\ Amounts18 \subseteq Nat
  BY InvTypes, BridgeTypes, BridgedSetting DEF BridgeInv
<1>2. SumFunction(l1Wwart') \in Nat
  <2>1. l1Wwart' \in [Owners -> Nat]
    BY DEF TypeOK
  <2>. QED  BY <2>1, OwnerSum
<1>3. ASSUME UNCHANGED <<setting, l1Wwart, pathA, pathB>> PROVE SharedSupply'
  BY <1>1, <1>3 DEF SharedSupply
<1>4. ASSUME UNCHANGED setting, PoolStep PROVE SharedSupply'
  BY <1>1, <1>2, <1>4, PoolReleases, SupplyKeptByStep
<1>5. ASSUME UNCHANGED setting, VaultStep PROVE SharedSupply'
  BY <1>1, <1>2, <1>5, VaultReleases, SupplyKeptByStep
<1>6. ASSUME UNCHANGED setting, NEW from \in setting.senders,
             NEW to \in setting.senders, NEW amount \in Amounts18,
             Transfer(from, to, amount)
      PROVE  SharedSupply'
  BY <1>1, <1>6, TransferKeepsSupply DEF Transfer, Pool!L1Transfer
<1>7. ASSUME UNCHANGED setting, NEW o \in setting.senders, OtherInput,
             Pool!OtherInput({o})
      PROVE  SharedSupply'
  BY <1>3, <1>7 DEF OtherInput, Pool!OtherInput, l1Vars, Pool!l1Vars
<1>8. CASE UNCHANGED bridgeVars
  BY <1>3, <1>8 DEF bridgeVars, vars, l1Vars
<1>9. CASE NextBridge
  BY <1>1, <1>4, <1>5, <1>6, <1>7, <1>9, DepositKeepsSupply DEF NextBridge
<1>. QED  BY <1>8, <1>9

(* Whoever gets something in Path B is entered by the same step.           *)
LEMMA HoldersNext ==
  ASSUME BridgeInv, [NextBridge]_bridgeVars
  PROVE  HoldersEntered'
<1>1. TypeOK /\ HoldersEntered /\ setting.senders \subseteq Owners
  BY InvTypes, BridgedSetting DEF BridgeInv, TypeOK
<1>2. ASSUME UNCHANGED claimVars, vaults \subseteq vaults' PROVE HoldersEntered'
  BY <1>1, <1>2 DEF HoldersEntered, claimVars
<1>3. ASSUME PoolStep PROVE HoldersEntered'
  BY <1>2, <1>3, PoolReleases
<1>4. ASSUME VaultStep PROVE HoldersEntered'
  <2>. SUFFICES ASSUME NEW o \in Owners, wwartPortable'[o] > 0 \/ wWART'[o] > 0
                PROVE  o \in vaults'
    BY DEF HoldersEntered
  <2>1. vaults' = vaults \cup Stored
    BY <1>4 DEF VaultStep
  <2>2. CASE o \in Stored
    BY <2>1, <2>2
  <2>3. CASE o \notin Stored
    <3>1. wwartPortable'[o] = wwartPortable[o] /\ wWART'[o] = wWART[o]
      BY <2>3 DEF Stored, UserVault
    <3>. QED  BY <1>1, <2>1, <3>1 DEF HoldersEntered
  <2>. QED  BY <2>2, <2>3
<1>5. ASSUME NEW o \in setting.senders, NEW amount, NEW hint,
             PortalDeposit(o, amount, hint)
      PROVE  HoldersEntered'
  <2>1. /\ UNCHANGED wwartPortable /\ vaults' = vaults \cup {o}
        /\ \E n : wWART' = [wWART EXCEPT ![o] = n]
    BY <1>5 DEF PortalDeposit, PortalDepositWwart, Pool!PortalDepositWwart
  <2>2. wWART \in [Owners -> Nat]
    BY <1>1 DEF TypeOK
  <2>3. \A p \in Owners \ {o} : wWART'[p] = wWART[p]
    BY <2>1, <2>2
  <2>. QED  BY <1>1, <2>1, <2>3 DEF HoldersEntered
<1>6. ASSUME NEW from, NEW to, NEW amount, Transfer(from, to, amount)
      PROVE  HoldersEntered'
  BY <1>2, <1>6 DEF Transfer, L1Transfer, Pool!L1Transfer, Pool!vaultVars
<1>7. ASSUME NEW o, OtherInput, Pool!OtherInput({o}) PROVE HoldersEntered'
  BY <1>2, <1>7 DEF OtherInput, Pool!OtherInput
<1>8. CASE UNCHANGED bridgeVars
  BY <1>2, <1>8 DEF bridgeVars, vars
<1>9. CASE NextBridge
  BY <1>3, <1>4, <1>5, <1>6, <1>7, <1>9 DEF NextBridge
<1>. QED  BY <1>8, <1>9

(* A withdrawal of a negative amount adds no more than the bound allows.   *)
LEMMA RaisedNext ==
  ASSUME BridgeInv, [NextBridge]_bridgeVars
  PROVE  RaisedBounded'
<1>1. /\ TypeOK /\ RaisedBounded /\ setting.senders \subseteq Owners
      /\ setting.withdrawals18 \subseteq Int
      /\ raised \in [Owners -> Nat] /\ SumFunction(raised) \in Nat
      /\ setting.raisable \in Nat
  BY InvTypes, BridgeTypes, BridgedSetting DEF BridgeInv
<1>2. ASSUME UNCHANGED <<setting, raised>> PROVE RaisedBounded'
  BY <1>1, <1>2 DEF RaisedBounded
<1>3. ASSUME UNCHANGED setting, NEW o \in setting.senders,
             NEW amount \in setting.withdrawals18, WithdrawInput(o, amount)
      PROVE  RaisedBounded'
  <2>1. o \in Owners /\ amount \in Int
    BY <1>1
  <2>. DEFINE n == Monus(0, amount)
  <2>2. n \in Nat
    BY <2>1 DEF Monus
  <2>3. CASE UNCHANGED raised
    BY <1>2, <1>3, <2>3
  <2>4. CASE /\ raised' = [raised EXCEPT ![o] = @ + n]
             /\ SumFunction(raised) + n <= setting.raisable
    <3>. HIDE DEF n
    <3>. DEFINE g == [raised EXCEPT ![o] = @ + n]
    <3>1. /\ g \in [Owners -> Nat] /\ g[o] = raised[o] + n
          /\ raised[o] \in Nat
          /\ \A p \in Owners \ {o} : g[p] = raised[p]
      BY <1>1, <2>1, <2>2
    <3>2. raised' = g
      BY <2>4
    <3>. HIDE DEF g
    <3>3. /\ SumFunction(g) + raised[o] = SumFunction(raised) + g[o]
          /\ SumFunction(g) \in Nat
      BY <1>1, <2>1, <3>1, OwnerSum, OwnerSumAtOne
    <3>4. SumFunction(g) <= setting.raisable
      BY <1>1, <2>2, <2>4, <3>1, <3>3
    <3>. QED  BY <1>3, <3>2, <3>4 DEF RaisedBounded
  <2>5. ASSUME NEW ok \in BOOLEAN, WithdrawWwart(o, amount, ok)
        PROVE  RaisedBounded'
    <3>1. OnL1(o, amount)
      BY <1>1, <2>1, <2>5, WithdrawOnL1
    <3>. HIDE DEF RaisedBounded
    <3>. QED  BY <2>3, <2>4, <3>1 DEF OnL1
  <2>. QED  BY <1>3, <2>3, <2>5 DEF WithdrawInput, WithdrawRefused, Refuse, claimVars
<1>4. ASSUME NEW o, NEW amount, ClaimInput(o, amount) PROVE UNCHANGED raised
  BY <1>4 DEF ClaimInput, MintLiquid, SyncWwartClaim, MintWwart, BurnLiquid,
              BurnLiquidRefused, BurnWwart, BurnWwartRefused, Refuse, claimVars
<1>5. ASSUME NEW sub, VaultHandler(sub) PROVE UNCHANGED raised
  BY <1>5 DEF VaultHandler, CreateVault, SubLock, SubUnlock, UnlockRefused,
              Refuse, claimVars
<1>6. ASSUME NEW sweep, NEW spelling, SweepHandler(sweep, spelling)
      PROVE  UNCHANGED raised
  BY <1>6 DEF SweepHandler, SweepLock, SweepRefused, Refuse, claimVars
<1>7. ASSUME NEW o, MintRefused(o) PROVE UNCHANGED raised
  BY <1>7 DEF MintRefused, Refuse, claimVars
<1>8. ASSUME UNCHANGED setting, VaultStep PROVE RaisedBounded'
  <2>. HIDE DEF RaisedBounded
  <2>. QED  BY <1>2, <1>3, <1>4, <1>5, <1>6, <1>7, <1>8 DEF VaultStep
<1>9. ASSUME PoolStep PROVE UNCHANGED raised
  BY <1>9 DEF PoolStep, pathBVars, claimVars
<1>10. ASSUME NEW o, NEW amount, NEW hint, PortalDeposit(o, amount, hint)
       PROVE  UNCHANGED raised
  BY <1>10 DEF PortalDeposit, PortalDepositWwart
<1>11. ASSUME NEW from, NEW to, NEW amount, Transfer(from, to, amount)
       PROVE  UNCHANGED raised
  BY <1>11 DEF Transfer, L1Transfer, claimVars
<1>12. ASSUME OtherInput PROVE UNCHANGED raised
  BY <1>12 DEF OtherInput, claimVars
<1>13. CASE UNCHANGED bridgeVars
  BY <1>2, <1>13 DEF bridgeVars, vars, claimVars
<1>14. CASE NextBridge
  <2>. HIDE DEF RaisedBounded
  <2>. QED  BY <1>2, <1>8, <1>9, <1>10, <1>11, <1>12, <1>14 DEF NextBridge
<1>. QED  BY <1>13, <1>14

(* At the start neither path has given out anything.                       *)
LEMMA BridgeInit == InitBridge => BridgeInv
<1>. SUFFICES ASSUME InitBridge PROVE BridgeInv
  OBVIOUS
<1>1. Init /\ Pool!Init
  BY DEF InitBridge
<1>2. CollateralInv /\ SweptOnceInv
  BY <1>1, InitCollateralInv, InitSweptOnce
<1>3. PoolP!TokenInv
  BY <1>1, SameInit, PoolHolds, PoolP!TokenInit
<1>4. PoolP!ClaimsOnDeposits
  <2>1. lockedE8 = 0 /\ redeemedE8 = 0 /\ claimed18 = 0
    BY <1>1 DEF Pool!Init
  <2>. QED  BY <2>1, UnitAssumption, PoolInputsAssumption
            DEF PoolP!ClaimsOnDeposits
<1>5. SharedSupply
  <2>1. /\ l1Wwart \in [Owners -> Nat] /\ pathA = setting.poolSupply
        /\ \A o \in Owners : l1Wwart[o] = 0
        /\ pathB = ForeignSupply /\ setting \in Settings
    BY <1>1 DEF Init, Pool!Init
  <2>2. SumFunction(l1Wwart) = 0
    BY <2>1, OwnersAssumption, OwnerSum, SumOfZero
  <2>3. setting.poolSupply \in Nat /\ ForeignSupply \in Nat
    BY <2>1, SettingType, PoolInputsAssumption
  <2>. QED  BY <2>1, <2>2, <2>3 DEF SharedSupply
<1>6. HoldersEntered
  BY <1>1 DEF Init, HoldersEntered
<1>7. RaisedBounded
  <2>1. /\ raised \in [Owners -> Nat] /\ \A o \in Owners : raised[o] = 0
        /\ setting.raisable \in Nat
    BY <1>1, SettingType DEF Init
  <2>2. SumFunction(raised) = 0
    BY <2>1, OwnersAssumption, OwnerSum, SumOfZero
  <2>. QED  BY <2>1, <2>2 DEF RaisedBounded
<1>. QED  BY <1>2, <1>3, <1>4, <1>5, <1>6, <1>7 DEF BridgeInv

(* Every step keeps the invariant, and each path's own one with it.        *)
LEMMA BridgeNext ==
  ASSUME BridgeInv, [NextBridge]_bridgeVars
  PROVE  BridgeInv'
<1>1. [Next]_vars /\ [Pool!Next]_(Pool!vars)
  BY StepsInPaths
<1>2. CollateralInv' /\ TypeOK'
  BY <1>1, NextCollateralInv DEF BridgeInv, CollateralInv, VaultInv
<1>3. SweptOnceInv'
  BY <1>1, InvTypes, SweptOnceNext DEF BridgeInv
<1>4. PoolP!TokenInv' /\ PoolP!ClaimsOnDeposits'
  BY <1>1, PoolKeeps DEF BridgeInv
<1>5. SharedSupply' /\ HoldersEntered' /\ RaisedBounded'
  BY <1>2, SupplyNext, HoldersNext, RaisedNext
<1>. QED  BY <1>2, <1>3, <1>4, <1>5 DEF BridgeInv

(* The reserves, claims and supplies of the two paths fit together after   *)
(* any sequence of inputs for either: the strengthening that the theorems  *)
(* below need.                                                             *)
THEOREM BridgeInvHolds == SpecBridge => []BridgeInv
<1>1. BridgeInv /\ [NextBridge]_bridgeVars => BridgeInv'
  BY BridgeNext
<1>. QED  BY <1>1, BridgeInit, PTL DEF SpecBridge

(* Every step of the bridge is one that each path allows to its outside:   *)
(* the claims of the other path never give out more wWART than a path      *)
(* assumed when its own safety was proved.                                 *)
THEOREM PathsHold == SpecBridge => PathsInBridge
<1>1. BridgeInv /\ [NextBridge]_bridgeVars
        => [[Next]_vars /\ [Pool!Next]_(Pool!vars)]_bridgeVars
  BY StepsInPaths
<1>. QED  BY <1>1, BridgeInvHolds, PTL DEF SpecBridge, PathsInBridge

(* So the bridge implements the specifications of its two paths, and what  *)
(* is proved of either of them holds here.                                 *)
THEOREM BridgeImplementsPaths ==
  SpecBridge => Spec /\ Pool!Init /\ [][Pool!Next]_(Pool!vars)
<1>1. InitBridge => Init /\ Pool!Init
  BY DEF InitBridge
<1>2. BridgeInv /\ [NextBridge]_bridgeVars
        => [Next]_vars /\ [Pool!Next]_(Pool!vars)
  BY StepsInPaths
<1>. QED  BY <1>1, <1>2, BridgeInvHolds, PTL DEF SpecBridge, Spec

-----------------------------------------------------------------------------
(* The peg of the whole bridge.                                            *)

(* What two reserves cover is covered by them together.                    *)
LEMMA DivOfTwo ==
  ASSUME NEW x \in Nat, NEW c \in Nat, NEW h \in Nat, NEW locked \in Nat,
         x <= c + U * h, c \div U <= locked
  PROVE  x \div U <= locked + h
<1>1. c < U * (locked + 1)
  BY UnitAssumption
<1>2. x < U * ((locked + h) + 1)
  <2>1. U * ((locked + h) + 1) = U * (locked + 1) + U * h
    BY UnitAssumption
  <2>. DEFINE p == U * (locked + 1)
              q == U * h
  <2>2. p \in Nat /\ q \in Nat
    BY UnitAssumption
  <2>. HIDE DEF p, q
  <2>3. x < p + q
    BY <1>1, <2>2 DEF p, q
  <2>. QED  BY <2>1, <2>3 DEF p, q
<1>. DEFINE m == locked + h
<1>3. m \in Nat /\ x < U * (m + 1)
  BY <1>2
<1>. HIDE DEF m
<1>4. x \div U <= m
  BY <1>3, UnitAssumption
<1>. QED  BY <1>4 DEF m

LEMMA HeldSumType ==
  ASSUME CollateralInv, Undisputed
  PROVE  SumFunction(HeldE8) \in Nat
<1>. DEFINE out == [o \in Owners |-> SpoofedOutstandingE8(o)]
<1>1. SumFunctionOnSet(out, Owners) = SumFunction(HeldE8)
  BY CapacityIsHeld
<1>2. out \in [Owners -> Nat]
  BY AmountsType DEF CollateralInv, VaultInv
<1>. HIDE DEF out
<1>3. SumFunctionOnSet(out, Owners) \in Nat
  BY <1>2, OwnersAssumption, SumType
<1>. QED  BY <1>1, <1>3

(* The tokens of both paths together are no more than the claims on the    *)
(* pool and the WART in the vaults.                                        *)
LEMMA TokensWithinBoth ==
  ASSUME BridgeInv, Undisputed
  PROVE  SumFunction(l1Wwart) + SumFunction(poolPortalWwart)
           + SumFunction(wWART) + SumFunction(poolWwartPortable)
           + SumFunction(wwartPortable) + SumFunction(liquid)
           <= claimed18 + U * SumFunction(HeldE8) + SumFunction(raised)
<1>. DEFINE l1 == SumFunction(l1Wwart)
            open == SumFunction(poolWwartPortable)
            portal == SumFunction(poolPortalWwart)
            portable == SumFunction(wwartPortable)
            inventory == SumFunction(wWART)
            liq == SumFunction(liquid)
            supply == setting.poolSupply
            held == U * SumFunction(HeldE8)
            made == SumFunction(raised)
<1>1. TypeOK /\ PoolP!TypeOK /\ CollateralInv
  BY InvTypes DEF BridgeInv
<1>2. /\ l1 \in Nat /\ open \in Nat /\ portal \in Nat /\ portable \in Nat
      /\ inventory \in Nat /\ liq \in Nat /\ made \in Nat
      /\ pathA \in Nat /\ pathB \in Nat /\ claimed18 \in Nat /\ supply \in Nat
      /\ ForeignSupply \in Nat
  BY <1>1, BridgeTypes, PoolInputsAssumption
<1>3. held \in Nat
  <2>1. SumFunction(HeldE8) \in Nat
    BY <1>1, HeldSumType
  <2>. QED  BY <2>1, UnitAssumption
<1>4. (((l1 + inventory) + portable) + pathA) + liq <= (supply + held) + made
  BY <1>1, HeldCoversTokens DEF TokenSupply
<1>5. ((l1 + portal) + pathB) + open <= claimed18 + ForeignSupply
  BY SameSums DEF BridgeInv, PoolP!TokenInv, PoolP!SupplyInv, PoolP!Tokens,
                  PoolP!TokenSupply, PoolP!OpenClaims
<1>6. (l1 + pathA) + pathB = supply + ForeignSupply
  BY DEF BridgeInv, SharedSupply
<1>. HIDE DEF l1, open, portal, portable, inventory, liq, supply, held, made
<1>7. ((((l1 + portal) + inventory) + open) + portable) + liq
        <= (claimed18 + held) + made
  BY <1>2, <1>3, <1>4, <1>5, <1>6
<1>. QED  BY <1>7 DEF l1, open, portal, portable, inventory, liq, held, made

(* All wWART and WLIQ that exist, or can be had for an open claim, are     *)
(* covered by the pool and the vaults, though tokens of one path come back *)
(* by the other and are burned against its claims.                         *)
THEOREM GlobalPegHolds == SpecBridge => []GlobalPeg
<1>1. BridgeInv => GlobalPeg
  <2>. SUFFICES ASSUME BridgeInv, Undisputed
                PROVE  ClaimedToE8(Monus(SumFunction(l1Wwart)
                         + SumFunction(poolPortalWwart) + SumFunction(wWART)
                         + SumFunction(poolWwartPortable)
                         + SumFunction(wwartPortable) + SumFunction(liquid),
                         SumFunction(raised)))
                         <= lockedE8 + SumFunction(HeldE8)
    BY DEF GlobalPeg
  <2>. DEFINE owed == SumFunction(l1Wwart) + SumFunction(poolPortalWwart)
                      + SumFunction(wWART) + SumFunction(poolWwartPortable)
                      + SumFunction(wwartPortable) + SumFunction(liquid)
              made == SumFunction(raised)
              held == SumFunction(HeldE8)
  <2>1. owed \in Nat /\ made \in Nat /\ claimed18 \in Nat /\ lockedE8 \in Nat
    BY InvTypes, BridgeTypes
  <2>2. held \in Nat
    BY HeldSumType DEF BridgeInv
  <2>3. owed <= claimed18 + U * held + made
    BY TokensWithinBoth
  <2>4. claimed18 \div U <= lockedE8
    BY DEF BridgeInv, PoolP!TokenInv, PoolP!PoolInv, PoolP!PegSolvent,
           PoolP!ClaimedToE8
  <2>. DEFINE net == Monus(owed, made)
  <2>5. ClaimedToE8(net) = net \div U
    BY DEF ClaimedToE8
  <2>. HIDE DEF owed, held, made
  <2>6. net \in Nat /\ net <= claimed18 + U * held
    <3>1. U * held \in Nat
      BY <2>2, UnitAssumption
    <3>. DEFINE p == U * held
    <3>. HIDE DEF p
    <3>2. p \in Nat /\ owed <= claimed18 + p + made
      BY <2>3, <3>1 DEF p
    <3>3. net \in Nat /\ net <= claimed18 + p
      BY <2>1, <3>2 DEF Monus
    <3>. QED  BY <3>3 DEF p
  <2>. HIDE DEF net
  <2>7. net \div U <= lockedE8 + held
    BY <2>1, <2>2, <2>4, <2>6, DivOfTwo
  <2>. QED  BY <2>5, <2>7 DEF net, owed, held, made
<1>. QED  BY <1>1, BridgeInvHolds, PTL

=============================================================================
