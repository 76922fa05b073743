----------------------------- MODULE PegLedger -----------------------------
(***************************************************************************)
(* What the fungible pool promises, whoever the owners are and however     *)
(* their claims are kept: WART collateral only leaves as a payout, a claim *)
(* is only opened against collateral that is there, and after every payout *)
(* each whole E8 of the claims still open has an E8 of collateral.         *)
(***************************************************************************)
EXTENDS Naturals

CONSTANT U                   (* wWART units per E8 of WART.                *)

VARIABLES
  collateral,                (* E8 locked in the pool.                     *)
  claims,                    (* wWART claimed against it, 18 decimals.     *)
  paid                       (* E8 released by tickets so far.             *)

vars == <<collateral, claims, paid>>

TypeOK == collateral \in Nat /\ claims \in Nat /\ paid \in Nat

Init == collateral = 0 /\ claims = 0 /\ paid = 0

Deposit ==
  /\ collateral' \in Nat
  /\ collateral' > collateral
  /\ UNCHANGED <<claims, paid>>

Mint ==
  /\ claims' \in Nat
  /\ claims' > claims
  /\ claims' <= collateral * U
  /\ UNCHANGED <<collateral, paid>>

(* Claims are closed, collateral is paid out, or both.                     *)
Retire ==
  /\ claims' \in Nat /\ collateral' \in Nat
  /\ claims' <= claims /\ collateral' <= collateral
  /\ claims' \div U <= collateral'
  /\ paid' = paid + (collateral - collateral')

Next == Deposit \/ Mint \/ Retire

Spec == Init /\ [][Next]_vars

(* Every whole E8 of open claims is covered by locked collateral.          *)
Solvent == claims \div U <= collateral
=============================================================================
