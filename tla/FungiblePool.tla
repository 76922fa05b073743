---------------------------- MODULE FungiblePool ----------------------------
(***************************************************************************)
(* Path A, the fungible WART pool of src/src/index.js.                     *)
(*                                                                         *)
(* Real WART deposited to one pool address is collateral for wWART claims  *)
(* of every L1 owner.  A claim starts "open": portable on the rollup.      *)
(* Withdrawing it emits a mint voucher and leaves the claim "filled": its  *)
(* tokens are on L1, where they move freely.  Tokens come back through the *)
(* ERC-20 portal and are burned, by the owner of the claim or by any other *)
(* holder, which may release collateral with a ticket the hot wallet pays. *)
(*                                                                         *)
(* The rollup runs one input to completion before it asks for the next     *)
(* (main), so a handler is one action.  Every handler ends in "accept" or  *)
(* "reject"; this module is the process alone, in which a rejected input   *)
(* keeps the entries it created in the two Maps.  Where a Cartesi machine  *)
(* reverts a rejected input those steps change status alone.  Outputs of a *)
(* rejected input are dropped in both settings.                            *)
(***************************************************************************)
EXTENDS FifoDebits

CONSTANTS
  Amounts18,      (* The 18-decimal amounts inputs may carry.              *)
  AmountsE8,      (* The amounts of WART a deposit may carry.              *)
  TicketLog,      (* Tickets the pool remembers: 200.                      *)
  MaxDepositE8,   (* Bound: WART ever deposited.                           *)
  ForeignSupply   (* Bound: wWART Path B mints on its own vaults' capacity.*)

ASSUME Amounts18Assumption == Amounts18 \subseteq Nat \ {0}
ASSUME AmountsE8Assumption == AmountsE8 \subseteq Nat \ {0}
ASSUME TicketLogAssumption == TicketLog \in Nat \ {0}
ASSUME ForeignAssumption   == ForeignSupply \in Nat

VARIABLES
  status,             (* What the last handler returned to the rollup.     *)
  lockedE8,           (* fungiblePool: WART at the pool address,           *)
  claimed18,          (*   wWART claimed against it,                       *)
  redeemedE8,         (*   WART released by tickets,                       *)
  nextNonce,          (*   number of the next ticket,                      *)
  tickets,            (*   the last TicketLog tickets, and                 *)
  users,              (*   owners in the order the users Map got them.     *)
  depositedE8,        (* users Map: collateral attributed to an owner,     *)
  claim18,            (*   the owner's claims,                             *)
  portable18,         (*   the open part of them, and                      *)
  userRedeemedE8,     (*   WART released to the owner.                     *)
  vaults,             (* Owners with an entry in userVaults.  Its fields:  *)
  poolL1WwartClaim,   (*   claims again, the copy handlers decide on,      *)
  poolWwartPortable,  (*   the open part again, and                        *)
  poolPortalWwart,    (*   Path A tokens that came back by the portal.     *)
  l1Wwart,            (* External: wWART an owner holds on L1.             *)
  pathB               (* External: wWART Path B holds or may still mint.   *)

poolVars  == <<lockedE8, claimed18, redeemedE8, nextNonce, tickets>>
userVars  == <<users, depositedE8, claim18, portable18, userRedeemedE8>>
vaultVars == <<vaults, poolL1WwartClaim, poolWwartPortable, poolPortalWwart>>
l1Vars    == <<l1Wwart, pathB>>
vars      == <<status, poolVars, userVars, vaultVars, l1Vars>>

Hints  == {"pool", "personal", "none"}
Ticket == [nonce : Nat, owner : Owners, amountE8 : Nat]
NoE8   == [o \in Owners |-> 0]

PoolType ==
  /\ lockedE8 \in Nat /\ claimed18 \in Nat /\ redeemedE8 \in Nat
  /\ nextNonce \in Nat \ {0}
  /\ tickets \in Seq(Ticket)

UserType ==
  /\ users \in Seq(Owners)
  /\ depositedE8 \in [Owners -> Nat] /\ userRedeemedE8 \in [Owners -> Nat]
  /\ claim18 \in [Owners -> Nat] /\ portable18 \in [Owners -> Nat]

VaultType ==
  /\ vaults \subseteq Owners
  /\ poolL1WwartClaim \in [Owners -> Nat]
  /\ poolWwartPortable \in [Owners -> Nat]
  /\ poolPortalWwart \in [Owners -> Nat]

L1Type == l1Wwart \in [Owners -> Nat] /\ pathB \in Nat

TypeOK ==
  /\ status \in {"accept", "reject"}
  /\ PoolType /\ UserType /\ VaultType /\ L1Type

Init ==
  /\ status = "accept"
  /\ lockedE8 = 0 /\ claimed18 = 0 /\ redeemedE8 = 0
  /\ nextNonce = 1 /\ tickets = <<>>
  /\ users = <<>> /\ vaults = {}
  /\ depositedE8 = NoE8 /\ userRedeemedE8 = NoE8
  /\ claim18 = NoE8 /\ portable18 = NoE8
  /\ poolL1WwartClaim = NoE8 /\ poolWwartPortable = NoE8
  /\ poolPortalWwart = NoE8 /\ l1Wwart = NoE8
  /\ pathB = ForeignSupply

-----------------------------------------------------------------------------
(* Derived amounts.                                                        *)

PoolCapacity18 == lockedE8 * U

(* Mutant: does not count what is claimed already.                         *)
PoolAvailable18Gross == PoolCapacity18

PoolAvailable18 == Monus(PoolCapacity18, claimed18)

(* Mutant: frees all collateral.                                           *)
PoolFreeableE8All(claimed) == lockedE8

(* Collateral the claims leave free, given what is claimed at that point.  *)
PoolFreeableE8(claimed) == Monus(lockedE8, ClaimedToE8(claimed))

(* Mutant: the owner's deposit, whatever the pool's claims need.           *)
UserFreeableE8Own(o, claimed) == depositedE8[o]

UserFreeableE8(o, claimed) == Least(depositedE8[o], PoolFreeableE8(claimed))

Filled(o) == FilledClaim18(poolL1WwartClaim[o], poolWwartPortable[o])

-----------------------------------------------------------------------------
(* debitFilledClaimsFifo.                                                  *)

FilledClaimsOf == [o \in Owners |-> Filled(o)]

(* Mutant: debits the vaults and forgets the copies in the users Map.      *)
DebitFilledClaimsVaultsOnly(o, order, amount) ==
  \E d \in FifoDebits(order, o, FilledClaimsOf, amount) :
    /\ poolL1WwartClaim' = [v \in Owners |-> poolL1WwartClaim[v] - d[v]]
    /\ claim18'          = claim18

DebitFilledClaims(o, order, amount) ==
  \E d \in FifoDebits(order, o, FilledClaimsOf, amount) :
    /\ poolL1WwartClaim' = [v \in Owners |-> poolL1WwartClaim[v] - d[v]]
    /\ claim18'          = [v \in Owners |-> Monus(claim18[v], d[v])]

-----------------------------------------------------------------------------
(* issuePoolReleaseTicket: it throws when the pool, or the deposits the    *)
(* users are known for, do not cover e8.  In the second case the deposits  *)
(* it went through stay debited.                                           *)

(* Mutant: off by one, so the last of the collateral cannot be released.   *)
CoveredStrict(e8) == e8 < lockedE8 /\ e8 <= SumFunction(depositedE8)

Covered(e8) == e8 <= lockedE8 /\ e8 <= SumFunction(depositedE8)

(* Mutant: a full log takes no more tickets.                               *)
LoggedWhileRoom(ticket) ==
  IF Len(tickets) < TicketLog THEN Append(tickets, ticket) ELSE tickets

Logged(ticket) ==
  LET all == Append(tickets, ticket)
  IN  IF Len(all) > TicketLog THEN Tail(all) ELSE all

Release(o, order, e8) ==
  IF e8 <= lockedE8
  THEN /\ \E d \in FifoDebits(order, o, depositedE8, e8) :
            depositedE8' = [v \in Owners |-> depositedE8[v] - d[v]]
       /\ IF Covered(e8)
          THEN /\ lockedE8' = lockedE8 - e8
               /\ redeemedE8' = redeemedE8 + e8
               /\ userRedeemedE8' = [userRedeemedE8 EXCEPT ![o] = @ + e8]
               /\ nextNonce' = nextNonce + 1
               /\ tickets' = Logged(
                    [nonce |-> nextNonce, owner |-> o, amountE8 |-> e8])
          ELSE UNCHANGED <<lockedE8, redeemedE8, userRedeemedE8,
                           nextNonce, tickets>>
  ELSE UNCHANGED <<depositedE8, lockedE8, redeemedE8, userRedeemedE8,
                   nextNonce, tickets>>

NoRelease == UNCHANGED <<depositedE8, lockedE8, redeemedE8, userRedeemedE8,
                         nextNonce, tickets>>

-----------------------------------------------------------------------------
(* How a handler ends.                                                     *)

Accept == status' = "accept"

(* Mutant: nothing is put back.                                            *)
PutBackNothing(ok, amount) == 0

(* What a handler adds back to a balance it debited when a later call of   *)
(* its own failed.                                                         *)
PutBack(ok, amount) == IF ok THEN 0 ELSE amount

(* A rejected input whose handler had entered these owners in the Maps.    *)
RejectWith(newUsers, newVaults) ==
  /\ status' = "reject"
  /\ users' = newUsers
  /\ vaults' = newVaults
  /\ UNCHANGED <<poolVars, depositedE8, claim18, portable18, userRedeemedE8,
                 poolL1WwartClaim, poolWwartPortable, poolPortalWwart, l1Vars>>

-----------------------------------------------------------------------------
(* The handlers.                                                           *)

(* pool_deposit and wart_deposit_claim once they believe the deposit: e8   *)
(* arrived at the pool address and is credited to owner o.                 *)
PoolDeposit(o, e8) ==
  /\ lockedE8 + redeemedE8 + e8 <= MaxDepositE8
  /\ lockedE8' = lockedE8 + e8
  /\ depositedE8' = [depositedE8 EXCEPT ![o] = @ + e8]
  /\ users' = WithUser(users, o)
  /\ vaults' = vaults \cup {o}
  /\ Accept
  /\ UNCHANGED <<claimed18, redeemedE8, nextNonce, tickets, claim18,
                 portable18, userRedeemedE8, poolL1WwartClaim,
                 poolWwartPortable, poolPortalWwart, l1Vars>>

(* pool_mint_wwart: as much of the request as the capacity still allows.   *)
PoolMintWwart(o, requested) ==
  LET mintAmt == Least(requested, PoolAvailable18)
  IN  /\ PoolAvailable18 > 0
      /\ claimed18' = claimed18 + mintAmt
      /\ claim18' = [claim18 EXCEPT ![o] = @ + mintAmt]
      /\ portable18' = [portable18 EXCEPT ![o] = @ + mintAmt]
      /\ poolL1WwartClaim' = [poolL1WwartClaim EXCEPT ![o] = @ + mintAmt]
      /\ poolWwartPortable' = [poolWwartPortable EXCEPT ![o] = @ + mintAmt]
      /\ users' = WithUser(users, o)
      /\ vaults' = vaults \cup {o}
      /\ Accept
      /\ UNCHANGED <<lockedE8, redeemedE8, nextNonce, tickets, depositedE8,
                     userRedeemedE8, poolPortalWwart, l1Vars>>

PoolMintRejected ==
  /\ PoolAvailable18 = 0
  /\ RejectWith(users, vaults)

(* pool_withdraw_wwart: the open claim becomes tokens on L1.  The handler  *)
(* puts the balances back when the voucher cannot be emitted.              *)
PoolWithdrawWwart(o, amount, voucherOk) ==
  LET undo == PutBack(voucherOk, amount)
  IN  /\ poolWwartPortable[o] >= amount
      /\ poolWwartPortable' =
           [poolWwartPortable EXCEPT ![o] = (@ - amount) + undo]
      /\ portable18' = [portable18 EXCEPT ![o] = Monus(@, amount) + undo]
      /\ l1Wwart' = IF voucherOk THEN [l1Wwart EXCEPT ![o] = @ + amount]
                                 ELSE l1Wwart
      /\ status' = IF voucherOk THEN "accept" ELSE "reject"
      /\ users' = WithUser(users, o)
      /\ vaults' = vaults \cup {o}
      /\ UNCHANGED <<poolVars, depositedE8, claim18, userRedeemedE8,
                     poolL1WwartClaim, poolPortalWwart, pathB>>

PoolWithdrawRejected(o, amount) ==
  /\ poolWwartPortable[o] < amount
  /\ RejectWith(users, vaults \cup {o})

(* The ERC-20 portal delivers o's wWART; creditWwartPortal decides which   *)
(* path's inventory it joins.  personalFilled: o has filled Path B claims. *)
PortalDepositWwart(o, amount, hint, personalFilled) ==
  LET toPool == PoolShare(amount, hint, Filled(o), personalFilled, claimed18)
  IN  /\ l1Wwart[o] >= amount
      /\ l1Wwart' = [l1Wwart EXCEPT ![o] = @ - amount]
      /\ poolPortalWwart' = [poolPortalWwart EXCEPT ![o] = @ + toPool]
      /\ pathB' = pathB + (amount - toPool)
      /\ vaults' = vaults \cup {o}
      /\ Accept
      /\ UNCHANGED <<poolVars, userVars, poolL1WwartClaim, poolWwartPortable>>

Portal(o) == PortalWwart18Of(poolPortalWwart[o])

(* Mutant: cannot burn the last of the claims.                             *)
IsHolderBurnStrict(o, amount) ==
  /\ poolL1WwartClaim[o] < amount
  /\ Portal(o) >= amount
  /\ claimed18 > amount

IsHolderBurn(o, amount) ==
  /\ poolL1WwartClaim[o] < amount
  /\ Portal(o) >= amount
  /\ claimed18 >= amount

(* Mutant: not limited by the owner's claim.                               *)
BurnableInventory(o) == poolWwartPortable[o] + Portal(o)

Burnable(o) == Least(poolL1WwartClaim[o], poolWwartPortable[o] + Portal(o))

(* pool_burn_wwart, A-beta: a holder without claims of its own burns       *)
(* tokens against whatever is claimed in the pool.  Filled claims are      *)
(* debited soft, and the ticket is for the whole burn; an error issuing it *)
(* is logged and the burn stands.                                          *)
HolderBurn(o, amount, autoUnlock) ==
  LET e8 == ClaimedToE8(amount)
  IN  /\ IsHolderBurn(o, amount)
      /\ poolPortalWwart' = [poolPortalWwart EXCEPT ![o] = Portal(o) - amount]
      /\ claimed18' = claimed18 - amount
      /\ \E order \in UsersAfterWalk(WithUser(users, o), vaults \cup {o},
                                    FilledClaimsOf, amount) :
           /\ users' = order
           /\ DebitFilledClaims(o, order, amount)
           /\ IF autoUnlock /\ e8 > 0 THEN Release(o, order, e8) ELSE NoRelease
      /\ vaults' = vaults \cup {o}
      /\ Accept
      /\ UNCHANGED <<portable18, poolWwartPortable, l1Vars>>

(* pool_burn_wwart, A-alpha: an owner burns its own claim, its open part   *)
(* first and then portal inventory.  The ticket is for at most what the    *)
(* owner itself has deposited and the remaining claims leave free.         *)
OwnerBurn(o, amount, autoUnlock) ==
  LET fromOpen   == Least(poolWwartPortable[o], amount)
      fromPortal == amount - fromOpen
      claimed    == Monus(claimed18, amount)
      unlockE8   == Least(ClaimedToE8(amount), UserFreeableE8(o, claimed))
      order      == WithUser(users, o)
  IN  /\ ~IsHolderBurn(o, amount)
      /\ amount <= Burnable(o)
      /\ poolL1WwartClaim' = [poolL1WwartClaim EXCEPT ![o] = @ - amount]
      /\ poolWwartPortable' = [poolWwartPortable EXCEPT ![o] = @ - fromOpen]
      /\ poolPortalWwart' =
           [poolPortalWwart EXCEPT ![o] =
              IF fromPortal > 0 THEN Portal(o) - fromPortal ELSE @]
      /\ claimed18' = claimed
      /\ claim18' = [claim18 EXCEPT ![o] = Monus(@, amount)]
      /\ portable18' =
           [portable18 EXCEPT ![o] = Least(@, poolWwartPortable[o] - fromOpen)]
      /\ users' = order
      /\ IF autoUnlock /\ unlockE8 > 0
         THEN Release(o, order, unlockE8) ELSE NoRelease
      /\ vaults' = vaults \cup {o}
      /\ Accept
      /\ UNCHANGED l1Vars

BurnRejected(o, amount) ==
  /\ ~IsHolderBurn(o, amount)
  /\ amount > Burnable(o)
  /\ RejectWith(users, vaults \cup {o})

(* pool_unlock: release o's own deposit where claims leave it free.        *)
PoolUnlock(o, amount) ==
  LET e8    == ClaimedToE8(amount)
      order == WithUser(users, o)
  IN  /\ e8 > 0
      /\ e8 <= UserFreeableE8(o, claimed18)
      /\ users' = order
      /\ Release(o, order, e8)
      /\ status' = IF Covered(e8) THEN "accept" ELSE "reject"
      /\ UNCHANGED <<claimed18, claim18, portable18, vaultVars, l1Vars>>

PoolUnlockRejected(o, amount) ==
  /\ ClaimedToE8(amount) > UserFreeableE8(o, claimed18)
  /\ RejectWith(WithUser(users, o), vaults)

HasOpenClaim(o, amount) ==
  poolWwartPortable[o] >= amount /\ poolL1WwartClaim[o] >= amount

(* pool_redeem, path 1: close an open claim and release its collateral.    *)
(* The claim comes back when the ticket cannot be issued.                  *)
RedeemOpenClaim(o, amount) ==
  LET e8    == ClaimedToE8(amount)
      order == WithUser(users, o)
      undo  == PutBack(Covered(e8), amount)
  IN  /\ e8 > 0
      /\ HasOpenClaim(o, amount)
      /\ e8 <= lockedE8
      /\ poolL1WwartClaim' =
           [poolL1WwartClaim EXCEPT ![o] = (@ - amount) + undo]
      /\ poolWwartPortable' =
           [poolWwartPortable EXCEPT ![o] = (@ - amount) + undo]
      /\ claimed18' = Monus(claimed18, amount) + undo
      /\ claim18' = [claim18 EXCEPT ![o] = Monus(@, amount) + undo]
      /\ portable18' = [portable18 EXCEPT ![o] = Monus(@, amount) + undo]
      /\ users' = order
      /\ Release(o, order, e8)
      /\ status' = IF Covered(e8) THEN "accept" ELSE "reject"
      /\ vaults' = vaults \cup {o}
      /\ UNCHANGED <<poolPortalWwart, l1Vars>>

(* pool_redeem, path 2: no open claim, so the owner's free deposit.        *)
RedeemFreeDeposit(o, amount) ==
  LET e8    == ClaimedToE8(amount)
      order == WithUser(users, o)
  IN  /\ e8 > 0
      /\ ~HasOpenClaim(o, amount)
      /\ e8 <= UserFreeableE8(o, claimed18)
      /\ users' = order
      /\ Release(o, order, e8)
      /\ status' = IF Covered(e8) THEN "accept" ELSE "reject"
      /\ vaults' = vaults \cup {o}
      /\ UNCHANGED <<claimed18, claim18, portable18, poolL1WwartClaim,
                     poolWwartPortable, poolPortalWwart, l1Vars>>

RedeemRejected(o, amount) ==
  LET e8 == ClaimedToE8(amount)
  IN  /\ e8 > 0
      /\ IF HasOpenClaim(o, amount)
         THEN /\ e8 > lockedE8
              /\ RejectWith(users, vaults \cup {o})
         ELSE /\ e8 > UserFreeableE8(o, claimed18)
              /\ RejectWith(WithUser(users, o), vaults \cup {o})

(* pool_unlock and pool_redeem of less than one E8.                        *)
TooSmallRejected(amount) ==
  /\ ClaimedToE8(amount) = 0
  /\ RejectWith(users, vaults)

(* A pool inspect of an owner's balances goes through userFreeableE8 and   *)
(* so enters the owner in the users Map.                                   *)
InspectPool(o) ==
  /\ users' = WithUser(users, o)
  /\ Accept
  /\ UNCHANGED <<poolVars, depositedE8, claim18, portable18, userRedeemedE8,
                 vaultVars, l1Vars>>

(* An input of another component, which may enter owners in userVaults.    *)
OtherInput(entered) ==
  /\ vaults' = vaults \cup entered
  /\ status' \in {"accept", "reject"}
  /\ UNCHANGED <<poolVars, userVars, poolL1WwartClaim, poolWwartPortable,
                 poolPortalWwart, l1Vars>>

-----------------------------------------------------------------------------
(* Outside the rollup.                                                     *)

(* wWART is an ordinary ERC-20 token on L1.                                *)
L1Transfer(from, to, amount) ==
  /\ from # to
  /\ l1Wwart[from] >= amount
  /\ l1Wwart' = [l1Wwart EXCEPT ![from] = @ - amount, ![to] = @ + amount]
  /\ UNCHANGED <<status, poolVars, userVars, vaultVars, pathB>>

(* withdraw_wwart of Path B mints wWART on a personal vault, or gives back *)
(* what was deposited there.                                               *)
PathBRelease(o, amount) ==
  /\ amount <= pathB
  /\ pathB' = pathB - amount
  /\ l1Wwart' = [l1Wwart EXCEPT ![o] = @ + amount]
  /\ Accept
  /\ UNCHANGED <<poolVars, userVars, vaultVars>>

PoolInput(o, amount) ==
  \/ PoolMintWwart(o, amount)
  \/ \E voucherOk \in BOOLEAN : PoolWithdrawWwart(o, amount, voucherOk)
  \/ PoolWithdrawRejected(o, amount)
  \/ \E autoUnlock \in BOOLEAN : HolderBurn(o, amount, autoUnlock)
  \/ \E autoUnlock \in BOOLEAN : OwnerBurn(o, amount, autoUnlock)
  \/ BurnRejected(o, amount)
  \/ PoolUnlock(o, amount)
  \/ PoolUnlockRejected(o, amount)
  \/ RedeemOpenClaim(o, amount)
  \/ RedeemFreeDeposit(o, amount)
  \/ RedeemRejected(o, amount)

Handler(o, amount) ==
  \/ PoolInput(o, amount)
  \/ \E hint \in Hints, personalFilled \in BOOLEAN :
       PortalDepositWwart(o, amount, hint, personalFilled)

Next ==
  \/ \E o \in Owners : OtherInput({}) \/ OtherInput({o})
  \/ \E o \in Owners, e8 \in AmountsE8 : PoolDeposit(o, e8)
  \/ \E o \in Owners, amount \in Amounts18 : Handler(o, amount)
  \/ PoolMintRejected
  \/ \E amount \in Amounts18 : TooSmallRejected(amount)
  \/ \E o \in Owners : InspectPool(o)
  \/ \E from, to \in Owners, amount \in Amounts18 : L1Transfer(from, to, amount)
  \/ \E o \in Owners, amount \in Amounts18 : PathBRelease(o, amount)

Spec == Init /\ [][Next]_vars
-----------------------------------------------------------------------------
(* Properties.                                                             *)

OpenClaims == SumFunction(poolWwartPortable)

(* wWART that exists as tokens: on L1, in the pool's portal inventory, or  *)
(* with Path B.                                                            *)
TokenSupply == SumFunction(l1Wwart) + SumFunction(poolPortalWwart) + pathB

(* Every whole E8 of open claims has an E8 of collateral, whatever mix of  *)
(* unlocks, redeems and burns released the rest.  Each of those handlers   *)
(* makes its own check, of a different quantity, before it releases.       *)
PegSolvent == ClaimedToE8(claimed18) <= lockedE8

(* Parts of the two properties that follow.                                *)
CollateralAttributed ==
  /\ SumFunction(depositedE8) = lockedE8
  /\ SumFunction(userRedeemedE8) = redeemedE8

BalancesAreKnown ==
  \A o \in Owners \ Range(users) :
    depositedE8[o] = 0 /\ poolL1WwartClaim[o] = 0 /\ userRedeemedE8[o] = 0

MirrorsAgree ==
  /\ claim18 = poolL1WwartClaim
  /\ portable18 = poolWwartPortable

OpenWithinClaim ==
  \A o \in Owners : poolWwartPortable[o] <= poolL1WwartClaim[o]

GlobalWithinClaims == claimed18 <= SumFunction(poolL1WwartClaim)

(* The collateral is exactly what is attributed to the depositors, what    *)
(* was released is exactly what the users' records say, and whoever has a  *)
(* balance is in the users Map the debits walk: this is what keeps         *)
(* issuePoolReleaseTicket from throwing half-way.                          *)
Attributed == CollateralAttributed /\ BalancesAreKnown

(* The two copies of an owner's claims, debited by different clamping      *)
(* rules, never drift apart, no debit of another holder's burn reaches     *)
(* into the open part of a claim, and the global claim, debited in full,   *)
(* stays within the owners' claims, which are debited soft.                *)
ClaimsAgree == MirrorsAgree /\ OpenWithinClaim /\ GlobalWithinClaims

(* The remembered tickets are the last ones issued, without a gap, and     *)
(* while none is forgotten they add up to what was released.               *)
TicketLogIsTail ==
  /\ \A i \in DOMAIN tickets :
       tickets[i].nonce + (Len(tickets) - i) + 1 = nextNonce
  /\ nextNonce = Len(tickets) + 1 =>
       redeemedE8 = SumFunction([i \in DOMAIN tickets |-> tickets[i].amountE8])

(* The soft debit of a holder's burn is short by no more than the wWART    *)
(* that came from elsewhere: without any, the global claim is the sum of   *)
(* the owners' claims.                                                     *)
ShortfallIsForeign == SumFunction(poolL1WwartClaim) <= claimed18 + ForeignSupply

(* Collateral covers every whole E8 of the wWART that exists or can still  *)
(* be withdrawn, but for as much as came from elsewhere.                   *)
SupplyBacked ==
  ClaimedToE8(Monus(TokenSupply + OpenClaims, ForeignSupply)) <= lockedE8

(* Whoever returns tokens to the pool's portal can burn them, as the       *)
(* rejection notice of pool_burn_wwart says, but for as many as came from  *)
(* elsewhere.                                                              *)
PortalBurnable ==
  \A o \in Owners, amount \in Amounts18 :
    Portal(o) >= amount + ForeignSupply =>
      IsHolderBurn(o, amount) \/ amount <= Burnable(o)

(* A rejected input moves no balance, also when its handler had debited    *)
(* some before the voucher or the ticket failed.                           *)
RejectKeepsBalances ==
  [][status' = "reject" =>
       UNCHANGED <<poolVars, depositedE8, claim18, portable18, userRedeemedE8,
                   poolL1WwartClaim, poolWwartPortable, poolPortalWwart>>]_vars

(* A holder's burn that asks for it is always paid in full: the error      *)
(* HolderBurn would swallow after the tokens are gone does not happen.     *)
HolderBurnPaid ==
  [][\A o \in Owners, amount \in Amounts18 :
       HolderBurn(o, amount, TRUE) =>
         lockedE8' + ClaimedToE8(amount) = lockedE8]_vars

(* "Any L1 owner with pool-portal wWART may burn against global claimed    *)
(* capacity; auto-unlock pays redeemer": burning portal inventory of a     *)
(* whole E8 or more releases collateral.                                   *)
PortalBurnPays ==
  [][\A o \in Owners, amount \in Amounts18 :
       /\ OwnerBurn(o, amount, TRUE) \/ HolderBurn(o, amount, TRUE)
       /\ poolPortalWwart'[o] + amount = poolPortalWwart[o]
       /\ ClaimedToE8(amount) > 0
       => lockedE8' < lockedE8]_vars

Peg == INSTANCE PegLedger WITH
         collateral <- lockedE8, claims <- claimed18, paid <- redeemedE8

(* The pool keeps the promise of PegLedger.                                *)
KeepsPeg == Peg!Spec

=============================================================================
