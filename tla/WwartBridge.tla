----------------------------- MODULE WwartBridge -----------------------------
(***************************************************************************)
(* Both paths of the wWART token together (src/src/index.js).              *)
(*                                                                         *)
(* PersonalVault and FungiblePool each see the other path as a supply of   *)
(* wWART from outside: pathA and pathB.  Here the supply is the other      *)
(* module.  The paths share the token on L1, the entries of userVaults and *)
(* the ERC-20 portal, whose one handler, creditWwartPortal, reads the      *)
(* claims of both and fills the inventory of both.                         *)
(***************************************************************************)
EXTENDS PersonalVault

CONSTANTS
  Amounts18,       (* As in FungiblePool.                                  *)
  AmountsE8,
  TicketLog,
  MaxDepositE8,
  ForeignSupply

ASSUME PoolInputsAssumption ==
  /\ Owners # {}
  /\ Amounts18 \subseteq Nat \ {0} /\ AmountsE8 \subseteq Nat \ {0}
  /\ TicketLog \in Nat \ {0}
  /\ MaxDepositE8 \in Nat /\ ForeignSupply \in Nat

(* What is outside of a path is what the other one can ever mint.          *)
ASSUME BridgedAssumption ==
  \A world \in Settings :
    /\ ~world.replays
    /\ world.amounts18 = Amounts18
    /\ \A amount \in world.withdrawals18 : amount > 0 => amount \in Amounts18
    /\ world.poolSupply = U * MaxDepositE8
    /\ ForeignSupply = U * SumFunction([s \in world.sweeps |-> s.amountE8])
                       + world.raisable

VARIABLES
  lockedE8, claimed18, redeemedE8, nextNonce, tickets, users, depositedE8,
  claim18, portable18, userRedeemedE8, vaults, poolL1WwartClaim,
  poolWwartPortable, poolPortalWwart, pathB

Pool == INSTANCE FungiblePool

pathAVars  == <<lockedE8, claimed18, redeemedE8, nextNonce, tickets, users,
                depositedE8, claim18, portable18, userRedeemedE8,
                poolL1WwartClaim, poolWwartPortable, poolPortalWwart>>
pathBVars  == <<capacityVars, claimVars, lockVars, proven>>
bridgeVars == <<vars, pathAVars, vaults, pathB>>

InitBridge == Init /\ Pool!Init

-----------------------------------------------------------------------------

(* What a step puts out on L1, less what it takes from there.              *)
PutOut == SumFunction(l1Wwart') - SumFunction(l1Wwart)

(* What userVaults has of an owner in Path B.                              *)
UserVault(o) == <<spoofedMinted[o], spoofedBurned[o], liquid[o],
                  l1WwartClaim[o], wwartPortable[o], wWART[o]>>

(* Path B's handlers store the owner's entry when they have changed it.    *)
Stored == { o \in Owners : UserVault(o)' # UserVault(o) }

(* An input for the pool.                                                  *)
PoolStep ==
  /\ \/ \E o \in setting.senders, e8 \in AmountsE8 : Pool!PoolDeposit(o, e8)
     \/ \E o \in setting.senders, amount \in Amounts18 : Pool!PoolInput(o, amount)
     \/ Pool!PoolMintRejected
     \/ \E amount \in Amounts18 : Pool!TooSmallRejected(amount)
     \/ \E o \in setting.senders : Pool!InspectPool(o)
  /\ pathA' = pathA - PutOut
  /\ UNCHANGED pathBVars

(* An input for the personal vaults or the claims on them.  Who has no     *)
(* entry cannot withdraw.                                                  *)
VaultStep ==
  /\ \/ \E o \in setting.senders, amount \in Amounts18 : ClaimInput(o, amount)
     \/ \E o \in setting.senders \cap vaults, amount \in setting.withdrawals18 :
          WithdrawInput(o, amount)
     \/ \E o \in setting.senders : MintRefused(o)
     \/ \E sub \in Subs : VaultHandler(sub)
     \/ \E sweep \in setting.sweeps, spelling \in setting.spellings :
          SweepHandler(sweep, spelling)
  /\ pathB' = pathB - PutOut
  /\ vaults' = vaults \cup Stored
  /\ UNCHANGED pathAVars

(* The ERC-20 portal delivers wWART: one handler for both paths.           *)
PortalDeposit(o, amount, hint) ==
  /\ PortalDepositWwart(o, amount,
       PoolShare(amount, hint, Pool!Filled(o), PersonalFilled(o), claimed18))
  /\ Pool!PortalDepositWwart(o, amount, hint, PersonalFilled(o))

Transfer(from, to, amount) ==
  /\ L1Transfer(from, to, amount)
  /\ Pool!L1Transfer(from, to, amount)

NextBridge ==
  /\ UNCHANGED setting
  /\ \/ PoolStep
     \/ VaultStep
     \/ \E o \in setting.senders, amount \in Amounts18, hint \in Hints :
          PortalDeposit(o, amount, hint)
     \/ \E from, to \in setting.senders, amount \in Amounts18 :
          Transfer(from, to, amount)
     \/ \E o \in setting.senders : OtherInput /\ Pool!OtherInput({o})

SpecBridge == InitBridge /\ [][NextBridge]_bridgeVars

-----------------------------------------------------------------------------
(* Properties.                                                             *)

(* Each path assumes no more of the other than it keeps: every step of the *)
(* bridge is a step of PersonalVault whose outside gives out at most what  *)
(* the pool could mint and was given back, and a step of FungiblePool with *)
(* Path B for its outside, though claims of one path are burned with the   *)
(* tokens of the other and deposits are routed by the claims of both.      *)
PathsInBridge ==
  [][[Next]_vars /\ [Pool!Next]_(Pool!vars)]_bridgeVars

(* Every whole E8 of the wWART and WLIQ that exist, or can be had for an   *)
(* open claim, is in the pool or in a vault, whichever path released what  *)
(* against the tokens of the other, but for what withdrawals of negative   *)
(* amounts added in Path B.                                                *)
GlobalPeg ==
  Undisputed =>
    ClaimedToE8(Monus(SumFunction(l1Wwart) + SumFunction(poolPortalWwart)
                      + SumFunction(wWART) + SumFunction(poolWwartPortable)
                      + SumFunction(wwartPortable) + SumFunction(liquid),
                      SumFunction(raised)))
      <= lockedE8 + SumFunction(HeldE8)

=============================================================================
