------------------------------ MODULE FifoLoop ------------------------------
(***************************************************************************)
(* The loops of debitDepositsFifo and debitFilledClaimsFifo, one visit of  *)
(* an owner per step.  They differ in one thing that matters here: the     *)
(* claims walk goes on to userVaults when the users do not have the        *)
(* amount, and take() enters the owners it meets there into the users.     *)
(***************************************************************************)
EXTENDS FifoDebits

CONSTANTS
  MaxBalance,   (* Bound: what one owner has.                              *)
  MaxAmount     (* Bound: what the walk asks for.                          *)

ASSUME WalkBounds == MaxBalance \in Nat /\ MaxAmount \in Nat

VARIABLES
  goesToVaults, (* TRUE for debitFilledClaimsFifo.                         *)
  first,        (* preferOwner.                                            *)
  amount,       (* What to debit,                                          *)
  left,         (*   and how much of it is left.                           *)
  known,        (* The users Map before the walk,                          *)
  users,        (*   and now.                                              *)
  had,          (* The owners' balances before the walk,                   *)
  balance,      (*   and now.                                              *)
  vaultOrder,   (* Owners in the order userVaults got them.                *)
  pc,           (* Where the function is: "first", "users", "vaults" or    *)
                (* "done",                                                 *)
  pos           (*   and the entry its loop visits next.                   *)

input == <<goesToVaults, first, amount, known, had, vaultOrder>>
vars  == <<input, left, users, balance, pc, pos>>

(* Orders a Map of owners can have.                                        *)
MapOrders == UNION { SetToSeqs(S) : S \in SUBSET Owners }

Init ==
  /\ goesToVaults \in BOOLEAN
  /\ first \in Owners
  /\ amount \in 1 .. MaxAmount
  /\ known \in MapOrders /\ vaultOrder \in MapOrders
  /\ had \in [Owners -> 0 .. MaxBalance]
  /\ \A o \in Owners \ Range(known) : had[o] = 0
  /\ left = amount /\ users = known /\ balance = had
  /\ pc = "first" /\ pos = 1

(* Mutant: the owner that exhausts the debit is not charged for the rest.  *)
TakeAll(o) ==
  LET d == IF balance[o] < left THEN balance[o] ELSE 0
  IN  /\ users' = IF left > 0 THEN WithUser(users, o) ELSE users
      /\ balance' = [balance EXCEPT ![o] = @ - d]
      /\ left' = IF balance[o] < left THEN left - d ELSE 0

(* take(o)                                                                 *)
Take(o) ==
  LET d == Least(balance[o], left)
  IN  /\ users' = IF left > 0 THEN WithUser(users, o) ELSE users
      /\ balance' = [balance EXCEPT ![o] = @ - d]
      /\ left' = left - d

TakeFirst ==
  /\ pc = "first"
  /\ Take(first)
  /\ pc' = "users" /\ pos' = 1
  /\ UNCHANGED input

(* One turn of a for loop over the entries of order.                       *)
Visit(order) ==
  /\ pos <= Len(order)
  /\ IF order[pos] = first
     THEN UNCHANGED <<users, balance, left>>
     ELSE Take(order[pos])
  /\ pos' = pos + 1
  /\ UNCHANGED <<input, pc>>

VisitUser == pc = "users" /\ left > 0 /\ Visit(users)

LeaveUsers ==
  /\ pc = "users"
  /\ left = 0 \/ pos > Len(users)
  /\ pc' = IF left > 0 /\ goesToVaults THEN "vaults" ELSE "done"
  /\ pos' = 1
  /\ UNCHANGED <<input, left, users, balance>>

VisitVault == pc = "vaults" /\ left > 0 /\ Visit(vaultOrder)

LeaveVaults ==
  /\ pc = "vaults"
  /\ left = 0 \/ pos > Len(vaultOrder)
  /\ pc' = "done" /\ pos' = 1
  /\ UNCHANGED <<input, left, users, balance>>

Next == TakeFirst \/ VisitUser \/ LeaveUsers \/ VisitVault \/ LeaveVaults

Spec == Init /\ [][Next]_vars

Debits == [o \in Owners |-> had[o] - balance[o]]

(* What the walk debited is the one debit FifoDebits allows, what is left  *)
(* is exactly the shortfall, and the users Map is one UsersAfterWalk       *)
(* allows: the pool's actions do in one step what the loops do.            *)
WalkIsFifoDebit ==
  pc = "done" =>
    LET order == WithUser(known, first)
    IN  /\ FifoDebits(order, first, had, amount) = {Debits}
        /\ left = Monus(amount, SumFunction(had))
        /\ users \in UsersAfterWalk(order,
                       IF goesToVaults THEN Range(vaultOrder) ELSE {},
                       had, amount)
=============================================================================
