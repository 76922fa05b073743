----------------------------- MODULE EthVaults -----------------------------
(***************************************************************************)
(* The cosigner ETH vaults and wETH claims of src/src/index.js.            *)
(*                                                                         *)
(* An L1 owner registers vaults, attests ETH locked in them, mints wETH    *)
(* claims on the rollup within what it has locked, burns them and unlocks  *)
(* ETH again, for which the vault's cosigner gets a ticket.  Claims are    *)
(* counted per owner, locks per owner and per vault.                       *)
(*                                                                         *)
(* One input is one action.  ethVaultsByOwner holds the very records of    *)
(* ethVaultByAddress, so it has no variable of its own here.               *)
(***************************************************************************)
EXTENDS Naturals, FiniteSets, Functions

CONSTANTS
  Owners, NoOwner,  (* L1 owners, and none.                                *)
  EthVaultAddresses,(* Addresses of cosigner vaults.                       *)
  LockAmounts,      (* Amounts of wei that inputs carry.                   *)
  MaxLockedWei      (* Bound: wei attested as locked by all owners.        *)

(* What the constants are; RollupLoop assumes it.                          *)
Parameters ==
  /\ IsFiniteSet(Owners) /\ NoOwner \notin Owners
  /\ IsFiniteSet(EthVaultAddresses)
  /\ LockAmounts \subseteq Nat \ {0}

VARIABLES
  status,               (* What the last handler returned to the rollup.   *)
  ethVaultByAddress,    (* Vault -> [owner, lockedMinted, lockedBurned].   *)
  ethVaultReleaseState, (* Vault -> [nextNonce, cumulativeBurnedWei].      *)
  ethLockedMinted,      (* userVaults: wei an owner locked,                *)
  ethLockedBurned,      (*   and unlocked again,                           *)
  l1WethClaim,          (*   its wETH claims, and                          *)
  wethPortable          (*   those it can burn.                            *)

lockVars  == <<ethVaultByAddress, ethVaultReleaseState, ethLockedMinted,
               ethLockedBurned>>
claimVars == <<l1WethClaim, wethPortable>>
vars      == <<status, lockVars, claimVars>>

Unregistered == [owner |-> NoOwner, lockedMinted |-> 0, lockedBurned |-> 0]
NoTickets    == [nextNonce |-> 1, cumulativeBurnedWei |-> 0]

TypeOK ==
  /\ status \in {"accept", "reject"}
  /\ ethVaultByAddress \in [EthVaultAddresses ->
       [owner : Owners \cup {NoOwner}, lockedMinted : Nat, lockedBurned : Nat]]
  /\ ethVaultReleaseState \in [EthVaultAddresses ->
       [nextNonce : Nat \ {0}, cumulativeBurnedWei : Nat]]
  /\ ethLockedMinted \in [Owners -> Nat] /\ ethLockedBurned \in [Owners -> Nat]
  /\ l1WethClaim \in [Owners -> Nat] /\ wethPortable \in [Owners -> Nat]

Init ==
  /\ status = "accept"
  /\ ethVaultByAddress = [v \in EthVaultAddresses |-> Unregistered]
  /\ ethVaultReleaseState = [v \in EthVaultAddresses |-> NoTickets]
  /\ ethLockedMinted = [o \in Owners |-> 0]
  /\ ethLockedBurned = [o \in Owners |-> 0]
  /\ l1WethClaim = [o \in Owners |-> 0]
  /\ wethPortable = [o \in Owners |-> 0]

-----------------------------------------------------------------------------

LeastOf(a, b) == IF a < b THEN a ELSE b

(* a - b, or 0 where that is negative.                                     *)
Above(a, b) == IF a > b THEN a - b ELSE 0

EthLockedOutstandingWei(o) == Above(ethLockedMinted[o], ethLockedBurned[o])

(* What an owner may still mint.                                           *)
Mintable(o) == Above(EthLockedOutstandingWei(o), l1WethClaim[o])

(* What an owner may burn.                                                 *)
BurnableWeth(o) == LeastOf(l1WethClaim[o], wethPortable[o])

Accept == status' = "accept"

Reject == status' = "reject" /\ UNCHANGED <<lockVars, claimVars>>

IsOwn(v, o) == ethVaultByAddress[v].owner = o

(* The record of a vault that o registers, perhaps again.                  *)
Record(v, o) == [ethVaultByAddress[v] EXCEPT !.owner = o]

(* create_eth_vault.                                                       *)
CreateEthVault(o, v) ==
  /\ ethVaultByAddress[v].owner \in {NoOwner, o}
  /\ ethVaultByAddress' = [ethVaultByAddress EXCEPT ![v] = Record(v, o)]
  /\ Accept
  /\ UNCHANGED <<ethVaultReleaseState, ethLockedMinted, ethLockedBurned,
                 claimVars>>

CreateEthVaultRefused(o, v) ==
  /\ ethVaultByAddress[v].owner \notin {NoOwner, o}
  /\ Reject

(* eth_vault_lock: the owner's word is all there is for the amount.        *)
EthVaultLock(o, v, wei) ==
  /\ SumFunction(ethLockedMinted) + wei <= MaxLockedWei
  /\ IsOwn(v, o)
  /\ ethLockedMinted' = [ethLockedMinted EXCEPT ![o] = @ + wei]
  /\ ethVaultByAddress' = [ethVaultByAddress EXCEPT ![v].lockedMinted = @ + wei]
  /\ Accept
  /\ UNCHANGED <<ethVaultReleaseState, ethLockedBurned, claimVars>>

(* Mutant: compares with what is locked before the unlock.                 *)
CanUnlockNow(o, wei) ==
  /\ wei <= EthLockedOutstandingWei(o)
  /\ l1WethClaim[o] <= EthLockedOutstandingWei(o)

(* eth_vault_unlock looks at all that the owner has locked.                *)
CanUnlock(o, wei) ==
  /\ wei <= EthLockedOutstandingWei(o)
  /\ l1WethClaim[o] <= EthLockedOutstandingWei(o) - wei

(* Mutant: a ticket for the first unlock only.                             *)
TicketOnce(rel, wei) ==
  IF rel.nextNonce > 1 THEN rel
  ELSE [nextNonce |-> 2, cumulativeBurnedWei |-> wei]

Ticket(rel, wei) ==
  [nextNonce |-> rel.nextNonce + 1,
   cumulativeBurnedWei |-> rel.cumulativeBurnedWei + wei]

EthVaultUnlock(o, v, wei) ==
  /\ IsOwn(v, o)
  /\ CanUnlock(o, wei)
  /\ ethLockedBurned' = [ethLockedBurned EXCEPT ![o] = @ + wei]
  /\ ethVaultByAddress' = [ethVaultByAddress EXCEPT ![v].lockedBurned = @ + wei]
  /\ ethVaultReleaseState' =
       [ethVaultReleaseState EXCEPT ![v] = Ticket(@, wei)]
  /\ Accept
  /\ UNCHANGED <<ethLockedMinted, claimVars>>

(* eth_vault_lock and eth_vault_unlock of a vault that is not the owner's. *)
NotTheOwner(o, v) == ~IsOwn(v, o) /\ Reject

EthVaultUnlockRefused(o, v, wei) ==
  /\ IsOwn(v, o)
  /\ ~CanUnlock(o, wei)
  /\ Reject

(* mint_weth_claim: as much of the request as the capacity allows.         *)
MintWethClaim(o, requested) ==
  LET mintAmt == LeastOf(requested, Mintable(o))
  IN  /\ Mintable(o) > 0
      /\ l1WethClaim' = [l1WethClaim EXCEPT ![o] = @ + mintAmt]
      /\ wethPortable' = [wethPortable EXCEPT ![o] = @ + mintAmt]
      /\ Accept
      /\ UNCHANGED lockVars

MintWethRefused(o) == Mintable(o) = 0 /\ Reject

(* burn_weth_claim: as much of the request as there is to burn.            *)
BurnWethClaim(o, amount) ==
  LET burnAmt == LeastOf(amount, BurnableWeth(o))
  IN  /\ BurnableWeth(o) > 0
      /\ l1WethClaim' = [l1WethClaim EXCEPT ![o] = @ - burnAmt]
      /\ wethPortable' = [wethPortable EXCEPT ![o] = Above(@, burnAmt)]
      /\ Accept
      /\ UNCHANGED lockVars

BurnWethRefused(o) == BurnableWeth(o) = 0 /\ Reject

(* An amount that is malformed or not positive, in any of these inputs.    *)
AmountRefused == Reject

Next ==
  \/ \E o \in Owners, v \in EthVaultAddresses :
       \/ CreateEthVault(o, v)
       \/ CreateEthVaultRefused(o, v)
       \/ NotTheOwner(o, v)
       \/ \E wei \in LockAmounts :
            \/ EthVaultLock(o, v, wei)
            \/ EthVaultUnlock(o, v, wei)
            \/ EthVaultUnlockRefused(o, v, wei)
  \/ \E o \in Owners :
       \/ \E wei \in LockAmounts : MintWethClaim(o, wei) \/ BurnWethClaim(o, wei)
       \/ MintWethRefused(o)
       \/ BurnWethRefused(o)
  \/ AmountRefused

Spec == Init /\ [][Next]_vars

-----------------------------------------------------------------------------
(* Properties.                                                             *)

VaultsOf(o) == { v \in EthVaultAddresses : IsOwn(v, o) }

MintedIn == [v \in EthVaultAddresses |-> ethVaultByAddress[v].lockedMinted]
BurnedIn == [v \in EthVaultAddresses |-> ethVaultByAddress[v].lockedBurned]

(* "After unlock, capacity must still cover used wETH claims": whatever    *)
(* order an owner locks, mints, burns and unlocks in, and over whichever   *)
(* of its vaults, its claims stay within what it has locked in all of them.*)
WethCovered ==
  \A o \in Owners :
    /\ l1WethClaim[o] <= EthLockedOutstandingWei(o)
    /\ wethPortable[o] = l1WethClaim[o]

(* The same ETH is booked for the owner, for the vault and in the vault's  *)
(* tickets, and vaults may be registered again; the books never differ,    *)
(* and no owner unlocks more than it locked.                               *)
LockBooksAgree ==
  /\ \A o \in Owners :
       /\ ethLockedMinted[o] = SumFunctionOnSet(MintedIn, VaultsOf(o))
       /\ ethLockedBurned[o] = SumFunctionOnSet(BurnedIn, VaultsOf(o))
       /\ ethLockedBurned[o] <= ethLockedMinted[o]
  /\ \A v \in EthVaultAddresses :
       ethVaultReleaseState[v].cumulativeBurnedWei =
         ethVaultByAddress[v].lockedBurned

=============================================================================
