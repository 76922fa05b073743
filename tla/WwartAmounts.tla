--------------------------- MODULE WwartAmounts ---------------------------
(***************************************************************************)
(* The arithmetic both bridge paths share (src/src/index.js).              *)
(*                                                                         *)
(* Native WART is counted in E8 (8 decimals) and wWART in 18 decimals, so  *)
(* one E8 is worth U = 10^10 units of wWART.  Inventory deposited through  *)
(* the ERC-20 portal that is below MinPortal = 10^15 is read as zero,      *)
(* because older sweeps wrote E8 amounts into the same field.              *)
(* All amounts are BigInts in the code: there is no width to overflow.     *)
(***************************************************************************)
EXTENDS Naturals

CONSTANTS
  U,          (* wWART units per E8 of WART: 10^10 in the code.            *)
  MinPortal   (* Smallest portal balance that is not read as zero: 10^15.  *)

ASSUME UnitAssumption      == U \in Nat \ {0}
ASSUME MinPortalAssumption == MinPortal \in Nat

Least(a, b) == IF a < b THEN a ELSE b

(* a - b, clamped at zero: the x > y ? x - y : 0n idiom of the code.       *)
Monus(a, b) == IF a > b THEN a - b ELSE 0

(* Whole E8 in an 18-decimal amount; the remainder is dropped.             *)
ClaimedToE8(amount18) == amount18 \div U

(* Inventory that may be spent: portal balances below the threshold, which *)
(* older sweeps polluted with E8 amounts, count as nothing.                *)
PortalWwart18Of(raw) == IF raw < MinPortal THEN 0 ELSE raw

(* The part of a claim whose tokens have left for L1.                      *)
FilledClaim18(claim, portable) == Monus(claim, portable)

(* How much of a wWART portal deposit goes to Path A inventory; the rest   *)
(* goes to Path B.  hint is "none" when the exec data carries no path tag. *)
PoolShare(amount, hint, poolFilled, personalFilled, claimed18) ==
  CASE hint = "pool"     -> amount
    [] hint = "personal" -> 0
    [] hint = "none"     ->
         IF poolFilled > 0
         THEN IF personalFilled THEN Least(amount, poolFilled) ELSE amount
         ELSE IF ~personalFilled /\ claimed18 > 0 THEN amount ELSE 0
===========================================================================
