----------------------------- MODULE FifoDebits -----------------------------
(***************************************************************************)
(* Debits that walk over the pool's users (debitDepositsFifo and           *)
(* debitFilledClaimsFifo of src/src/index.js).  A JavaScript Map iterates  *)
(* in insertion order, so the users Map is a sequence of owners.  What a   *)
(* whole walk does is stated here as a set of debits; FifoLoop shows that  *)
(* the loops compute it.                                                   *)
(***************************************************************************)
EXTENDS WwartAmounts, SequencesExt

CONSTANT Owners   (* L1 addresses.                                         *)

ASSUME OwnersAssumption == IsFiniteSet(Owners) /\ Owners # {}

(* Mutant: an owner is looked up but never entered.                        *)
WithUserLookup(order, o) == order

(* ensurePoolUser: a new owner goes to the end of the Map's order.         *)
WithUser(order, o) == IF o \in Range(order) THEN order ELSE Append(order, o)

(* a is visited before b: the preferred owner first, then Map order.       *)
Ahead(order, first, a, b) ==
  /\ a # b /\ b # first
  /\ \/ a = first
     \/ \E i, j \in DOMAIN order : i < j /\ order[i] = a /\ order[j] = b

(* Mutant: stops after the preferred owner.                                *)
FifoDebitsOwn(order, first, balance, amount) ==
  { d \in [Owners -> 0 .. amount] :
      \A o \in Owners :
        d[o] = IF o = first THEN Least(amount, balance[o]) ELSE 0 }

(* As much of amount as the owners in order have, and nothing from an      *)
(* owner while one ahead of it has some left.                              *)
FifoDebits(order, first, balance, amount) ==
  { d \in [Owners -> 0 .. amount] :
      /\ \A o \in Owners :
           /\ d[o] <= balance[o]
           /\ o \notin Range(order) => d[o] = 0
      /\ SumFunction(d) =
           Least(amount, SumFunctionOnSet(balance, Range(order)))
      /\ \A a, b \in Owners :
           Ahead(order, first, a, b) /\ d[b] > 0 => d[a] = balance[a] }

(* The users Map after a walk that goes on to every entry of userVaults    *)
(* when the users do not have the amount: it enters their owners.          *)
UsersAfterWalk(order, vaultOwners, balance, amount) ==
  IF SumFunctionOnSet(balance, Range(order)) < amount
  THEN { order \o more : more \in SetToSeqs(vaultOwners \ Range(order)) }
  ELSE { order }
=============================================================================
