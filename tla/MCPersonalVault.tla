--------------------------- MODULE MCPersonalVault ---------------------------
(* Instances of PersonalVault for TLC.                                     *)
EXTENDS PersonalVault

CONSTANTS o1, o2, s1, s2, v1, v2

Sweep(from, to, amountE8, txHash) ==
  [from |-> from, to |-> to, amountE8 |-> amountE8, txHash |-> txHash]

(* Each sub-wallet sweeps to a vault of its own.                           *)
OwnVault == { Sweep(s1, v1, 1, "a"), Sweep(s2, v2, 1, "b") }

(* Two sub-wallets sweep to one vault, one of them twice.                  *)
SharedVault == { Sweep(s1, v1, 1, "a"), Sweep(s2, v1, 2, "b"),
                 Sweep(s1, v1, 1, "c") }

EachItsOwner == s1 :> {o1} @@ s2 :> {o2}
OneOwner     == s1 :> {o1} @@ s2 :> {o1}
EachItsVault == s1 :> {v1} @@ s2 :> {v2}

(* The first sub-wallet's sweeps may be announced, to either vault.        *)
AnyVault     == s1 :> {v1, v2} @@ s2 :> {}

(* By default the sweeps took place and inputs withdraw positive amounts.  *)
Setting(sweeps, senders, subOwners, subVaults, spellings,
        amounts18, amountsE8, poolSupply) ==
  [sweeps |-> sweeps, happened |-> sweeps, senders |-> senders,
   subOwners |-> subOwners, subVaults |-> subVaults, spellings |-> spellings,
   replays |-> FALSE, amounts18 |-> amounts18, withdrawals18 |-> amounts18,
   raisable |-> 0, amountsE8 |-> amountsE8, poolSupply |-> poolSupply]

(* Claims: both owners mint, trade and return on one sweep each.           *)
ClaimsSetting ==
  Setting(OwnVault, {o1, o2}, EachItsOwner, EachItsVault, {"norm"}, {1, 2}, {1}, 1)

(* Locks: one owner, three sweeps to one vault, in both spellings.         *)
LocksSetting ==
  Setting(SharedVault, {o1}, OneOwner, AnyVault, {"norm", "raw"}, {2}, {1, 2}, 0)

(* Withdrawals of any amount, by two owners that trade what one swept.     *)
AnyAmountSetting ==
  [Setting({ Sweep(s1, v1, 1, "a") }, {o1, o2}, s1 :> {o1} @@ s2 :> {},
           s1 :> {} @@ s2 :> {}, {"norm"}, {2}, {1}, 0)
     EXCEPT !.withdrawals18 = {-2, -1, 0, 2, 3}, !.raisable = 2]

(* One of two sweeps that are proved took place, and inputs disagree on    *)
(* whose it is.                                                            *)
MadeUpSetting ==
  [Setting({ Sweep(s1, v1, 1, "a"), Sweep(s1, v2, 1, "b") }, {o1, o2},
           s1 :> {o1, o2} @@ s2 :> {}, s1 :> {} @@ s2 :> {}, {"norm"}, {2}, {1}, 0)
     EXCEPT !.happened = { Sweep(s1, v1, 1, "a") }]

AllSettings == { ClaimsSetting, LocksSetting, AnyAmountSetting, MadeUpSetting }

(* A sweep may be proved again.                                            *)
ReplaySettings ==
  { [Setting(OwnVault, {o1}, OneOwner, EachItsVault, {"norm"}, {1, 2}, {1}, 1)
       EXCEPT !.replays = TRUE] }
=============================================================================
