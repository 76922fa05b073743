------------------------- MODULE FungiblePoolProofs -------------------------
(***************************************************************************)
(* Proofs about FungiblePool, for every set of owners, every unit and      *)
(* every amount: type correctness, and then that the pool stays solvent.   *)
(* PegSolvent is inductive together with the invariants on the attribution *)
(* of collateral and on the copies of the claims: those show that a ticket *)
(* whose amount a handler has checked is always issued, so no handler is   *)
(* left half done.  From the same invariant: what exists as wWART is       *)
(* bounded by what is claimed and what came from elsewhere, and the ticket *)
(* log has no gap.                                                         *)
(***************************************************************************)
EXTENDS FungiblePool, SumTheorems, SequenceTheorems

-----------------------------------------------------------------------------
(* Arithmetic.                                                             *)

(* Whole E8 of a Nat are a Nat.                                            *)
LEMMA DivType ==
  ASSUME NEW a \in Nat
  PROVE  a \div U \in Nat
BY UnitAssumption

(* Rounding down is monotonic.                                             *)
LEMMA DivMonotonic ==
  ASSUME NEW a \in Nat, NEW b \in Nat, a <= b
  PROVE  a \div U <= b \div U
BY UnitAssumption

(* What is burned, rounded down, is no more than what the burn frees.      *)
LEMMA DivOfDifference ==
  ASSUME NEW a \in Nat, NEW b \in Nat, b <= a
  PROVE  (a - b) \div U + b \div U <= a \div U
BY UnitAssumption

(* Claims within a capacity of whole E8 need no more than those E8.        *)
LEMMA DivOfCapacity ==
  ASSUME NEW a \in Nat, NEW n \in Nat, a <= n * U
  PROVE  a \div U <= n
BY UnitAssumption

-----------------------------------------------------------------------------
(* What the helpers return.                                                *)

(* A portal deposit is split, never enlarged.                              *)
LEMMA PoolShareBound ==
  ASSUME NEW amount \in Nat, NEW hint \in Hints, NEW poolFilled \in Nat,
         NEW personalFilled \in BOOLEAN, NEW claimed \in Nat
  PROVE  PoolShare(amount, hint, poolFilled, personalFilled, claimed)
           \in 0 .. amount
BY DEF PoolShare, Hints, Least

(* Entering an owner keeps the Map's order and adds at most that owner.    *)
LEMMA WithUserProperties ==
  ASSUME NEW order \in Seq(Owners), NEW o \in Owners
  PROVE  /\ WithUser(order, o) \in Seq(Owners)
         /\ Range(WithUser(order, o)) = Range(order) \cup {o}
<1>1. CASE o \in Range(order)
  BY <1>1 DEF WithUser
<1>2. CASE o \notin Range(order)
  <2>1. WithUser(order, o) = Append(order, o)
    BY <1>2 DEF WithUser
  <2>2. /\ Append(order, o) \in Seq(Owners)
        /\ Len(Append(order, o)) = Len(order) + 1
        /\ \A i \in 1 .. Len(order) : Append(order, o)[i] = order[i]
        /\ Append(order, o)[Len(order) + 1] = o
    BY AppendProperties
  <2>3. Range(Append(order, o)) = Range(order) \cup {o}
    <3>1. Range(Append(order, o)) =
            {Append(order, o)[i] : i \in 1 .. Len(order) + 1}
      BY <2>2, RangeEquality
    <3>2. Range(order) = {order[i] : i \in 1 .. Len(order)}
      BY RangeEquality
    <3>3. Len(order) \in Nat
      BY LenProperties
    <3>. QED  BY <2>2, <3>1, <3>2, <3>3
  <2>. QED  BY <2>1, <2>2, <2>3
<1>. QED  BY <1>1, <1>2

(* A walk that goes on to the vaults only ever adds owners to the Map.     *)
LEMMA UsersAfterWalkProperties ==
  ASSUME NEW order \in Seq(Owners), NEW V \in SUBSET Owners,
         NEW balance, NEW amount,
         NEW after \in UsersAfterWalk(order, V, balance, amount)
  PROVE  after \in Seq(Owners) /\ Range(order) \subseteq Range(after)
<1>1. CASE after = order
  BY <1>1
<1>2. CASE \E more \in SetToSeqs(V \ Range(order)) : after = order \o more
  <2>1. PICK more \in SetToSeqs(V \ Range(order)) : after = order \o more
    BY <1>2
  <2>2. Cardinality(V \ Range(order)) \in Nat
    <3>1. IsFiniteSet(V \ Range(order))
      BY OwnersAssumption, FS_Subset
    <3>. QED  BY <3>1, FS_CardinalityType
  <2>3. more \in [1 .. Cardinality(V \ Range(order)) -> Owners]
    BY <2>1 DEF SetToSeqs
  <2>4. more \in Seq(Owners)
    <3>. DEFINE n == Cardinality(V \ Range(order))
    <3>1. n \in Nat /\ more \in [1 .. n -> Owners]
      BY <2>2, <2>3
    <3>. HIDE DEF n
    <3>. QED  BY <3>1, SeqDef
  <2>. QED  BY <2>1, <2>4, ConcatProperties, RangeConcatenation
<1>. QED  BY <1>1, <1>2 DEF UsersAfterWalk

(* A debit takes at most what an owner has, and nothing from an owner who  *)
(* is not in the Map.                                                      *)
LEMMA DebitProperties ==
  ASSUME NEW order, NEW first, NEW balance \in [Owners -> Nat],
         NEW amount \in Nat,
         NEW d \in FifoDebits(order, first, balance, amount)
  PROVE  /\ d \in [Owners -> Nat]
         /\ \A o \in Owners : d[o] <= balance[o]
         /\ \A o \in Owners : o \notin Range(order) => d[o] = 0
BY DEF FifoDebits

(* Debiting what is there leaves Nats, none larger than before.            *)
LEMMA DebitedType ==
  ASSUME NEW f \in [Owners -> Nat], NEW d \in [Owners -> Nat],
         \A o \in Owners : d[o] <= f[o]
  PROVE  /\ [o \in Owners |-> f[o] - d[o]] \in [Owners -> Nat]
         /\ \A o \in Owners : f[o] - d[o] <= f[o]
OBVIOUS

(* The log stays a sequence of tickets.                                    *)
LEMMA LoggedType ==
  ASSUME tickets \in Seq(Ticket), NEW t \in Ticket
  PROVE  Logged(t) \in Seq(Ticket)
BY AppendProperties, HeadTailProperties DEF Logged

(* What a release can do to the collateral: it either moves e8 from locked *)
(* to redeemed under a new ticket, or moves nothing; deposits only shrink. *)
LEMMA ReleaseEffect ==
  ASSUME TypeOK, NEW o \in Owners, NEW order, NEW e8 \in Nat,
         Release(o, order, e8) \/ NoRelease
  PROVE  /\ depositedE8' \in [Owners -> Nat]
         /\ \A v \in Owners : depositedE8'[v] <= depositedE8[v]
         /\ \/ /\ e8 <= lockedE8
               /\ lockedE8' = lockedE8 - e8
               /\ redeemedE8' = redeemedE8 + e8
               /\ userRedeemedE8' = [userRedeemedE8 EXCEPT ![o] = @ + e8]
               /\ nextNonce' = nextNonce + 1
               /\ tickets' \in Seq(Ticket)
            \/ UNCHANGED <<lockedE8, redeemedE8, userRedeemedE8, nextNonce,
                           tickets>>
<1>1. CASE NoRelease \/ e8 > lockedE8
  BY <1>1 DEF Release, NoRelease, TypeOK, PoolType, UserType
<1>2. CASE Release(o, order, e8) /\ e8 <= lockedE8
  <2>1. PICK d \in FifoDebits(order, o, depositedE8, e8) :
          depositedE8' = [v \in Owners |-> depositedE8[v] - d[v]]
    BY <1>2 DEF Release
  <2>2. /\ d \in [Owners -> Nat]
        /\ \A v \in Owners : d[v] <= depositedE8[v]
    BY DebitProperties DEF TypeOK, UserType
  <2>3. /\ depositedE8' \in [Owners -> Nat]
        /\ \A v \in Owners : depositedE8'[v] <= depositedE8[v]
    BY <2>1, <2>2, DebitedType DEF TypeOK, UserType
  <2>4. CASE Covered(e8)
    <3>. DEFINE t == [nonce |-> nextNonce, owner |-> o, amountE8 |-> e8]
    <3>1. t \in Ticket
      BY DEF Ticket, TypeOK, PoolType
    <3>2. Logged(t) \in Seq(Ticket)
      BY <3>1, LoggedType DEF TypeOK, PoolType
    <3>. QED  BY <1>2, <2>3, <2>4, <3>2 DEF Release
  <2>5. CASE ~Covered(e8)
    BY <1>2, <2>3, <2>5 DEF Release
  <2>. QED  BY <2>4, <2>5
<1>. QED  BY <1>1, <1>2 DEF TypeOK, PoolType

(* Filled claims, and what debiting them does to the two copies.           *)
LEMMA FilledType ==
  ASSUME TypeOK
  PROVE  /\ FilledClaimsOf \in [Owners -> Nat]
         /\ \A o \in Owners :
              /\ FilledClaimsOf[o] <= poolL1WwartClaim[o]
              /\ poolWwartPortable[o] <= poolL1WwartClaim[o] =>
                   FilledClaimsOf[o] = poolL1WwartClaim[o] - poolWwartPortable[o]
BY DEF TypeOK, VaultType, FilledClaimsOf, Filled, FilledClaim18, Monus

-----------------------------------------------------------------------------
(* Type correctness.                                                       *)

(* The initial state has the types.                                        *)
LEMMA InitType == Init => TypeOK
<1>1. <<>> \in Seq(Ticket) /\ <<>> \in Seq(Owners)
  BY EmptySeq
<1>. QED  BY <1>1, ForeignAssumption
          DEF Init, TypeOK, PoolType, UserType, VaultType, L1Type, NoE8

(* Stuttering, and rejected inputs, which only touch the Maps.             *)
LEMMA RejectType ==
  ASSUME TypeOK, NEW newUsers \in Seq(Owners), NEW newVaults \in SUBSET Owners,
         RejectWith(newUsers, newVaults)
  PROVE  TypeOK'
BY DEF RejectWith, TypeOK, PoolType, UserType, VaultType, L1Type, poolVars, l1Vars

(* A release keeps the types of what it may change.                        *)
LEMMA ReleaseType ==
  ASSUME TypeOK, NEW o \in Owners, NEW order, NEW e8 \in Nat,
         Release(o, order, e8) \/ NoRelease
  PROVE  /\ lockedE8' \in Nat /\ redeemedE8' \in Nat
         /\ nextNonce' \in Nat \ {0}
         /\ tickets' \in Seq(Ticket)
         /\ depositedE8' \in [Owners -> Nat]
         /\ userRedeemedE8' \in [Owners -> Nat]
<1>1. /\ depositedE8' \in [Owners -> Nat]
      /\ \/ /\ e8 <= lockedE8
            /\ lockedE8' = lockedE8 - e8
            /\ redeemedE8' = redeemedE8 + e8
            /\ userRedeemedE8' = [userRedeemedE8 EXCEPT ![o] = @ + e8]
            /\ nextNonce' = nextNonce + 1
            /\ tickets' \in Seq(Ticket)
         \/ UNCHANGED <<lockedE8, redeemedE8, userRedeemedE8, nextNonce,
                        tickets>>
  BY ReleaseEffect
<1>2. /\ lockedE8 \in Nat /\ redeemedE8 \in Nat /\ nextNonce \in Nat \ {0}
      /\ userRedeemedE8 \in [Owners -> Nat]
      /\ tickets \in Seq(Ticket)
  BY DEF TypeOK, PoolType, UserType
<1>3. lockedE8' \in Nat /\ redeemedE8' \in Nat /\ nextNonce' \in Nat \ {0}
  <2>1. CASE /\ e8 <= lockedE8
             /\ lockedE8' = lockedE8 - e8
             /\ redeemedE8' = redeemedE8 + e8
             /\ nextNonce' = nextNonce + 1
    BY <1>2, <2>1
  <2>2. CASE UNCHANGED <<lockedE8, redeemedE8, nextNonce>>
    BY <1>2, <2>2
  <2>. QED  BY <1>1, <2>1, <2>2
<1>4. userRedeemedE8' \in [Owners -> Nat]
  <2>1. CASE userRedeemedE8' = [userRedeemedE8 EXCEPT ![o] = @ + e8]
    BY <1>2, <2>1
  <2>2. CASE UNCHANGED userRedeemedE8
    BY <1>2, <2>2
  <2>. QED  BY <1>1, <2>1, <2>2
<1>5. tickets' \in Seq(Ticket)
  BY <1>1, <1>2
<1>. QED  BY <1>1, <1>3, <1>4, <1>5

(* A deposit keeps the types.                                              *)
LEMMA DepositType ==
  ASSUME TypeOK, NEW o \in Owners, NEW e8 \in AmountsE8, PoolDeposit(o, e8)
  PROVE  TypeOK'
<1>1. e8 \in Nat /\ WithUser(users, o) \in Seq(Owners)
  BY AmountsE8Assumption, WithUserProperties DEF TypeOK, UserType
<1>2. PoolType'
  BY <1>1 DEF PoolDeposit, TypeOK, PoolType
<1>3. UserType'
  BY <1>1 DEF PoolDeposit, TypeOK, UserType
<1>. QED  BY <1>2, <1>3 DEF PoolDeposit, Accept, TypeOK, VaultType, L1Type, l1Vars

(* A mint keeps the types.                                                 *)
LEMMA MintType ==
  ASSUME TypeOK, NEW o \in Owners, NEW a \in Nat, PoolMintWwart(o, a)
  PROVE  TypeOK'
<1>1. WithUser(users, o) \in Seq(Owners)
  BY WithUserProperties DEF TypeOK, UserType
<1>. DEFINE m == Least(a, PoolAvailable18)
<1>2. m \in Nat
  BY UnitAssumption
     DEF TypeOK, PoolType, Least, PoolAvailable18, PoolCapacity18, Monus
<1>3. /\ claimed18' = claimed18 + m
      /\ claim18' = [claim18 EXCEPT ![o] = @ + m]
      /\ portable18' = [portable18 EXCEPT ![o] = @ + m]
      /\ poolL1WwartClaim' = [poolL1WwartClaim EXCEPT ![o] = @ + m]
      /\ poolWwartPortable' = [poolWwartPortable EXCEPT ![o] = @ + m]
      /\ users' = WithUser(users, o)
  BY DEF PoolMintWwart
<1>. HIDE DEF m
<1>4. PoolType'
  BY <1>2, <1>3 DEF PoolMintWwart, TypeOK, PoolType
<1>5. UserType'
  BY <1>1, <1>2, <1>3 DEF PoolMintWwart, TypeOK, UserType
<1>6. VaultType'
  BY <1>2, <1>3 DEF PoolMintWwart, TypeOK, VaultType
<1>. QED  BY <1>4, <1>5, <1>6 DEF PoolMintWwart, Accept, TypeOK, L1Type, l1Vars

(* A withdrawal keeps the types, also when it is undone.                   *)
LEMMA WithdrawType ==
  ASSUME TypeOK, NEW o \in Owners, NEW a \in Nat, NEW ok \in BOOLEAN,
         PoolWithdrawWwart(o, a, ok)
  PROVE  TypeOK'
<1>1. WithUser(users, o) \in Seq(Owners)
  BY WithUserProperties DEF TypeOK, UserType
<1>2. PutBack(ok, a) \in Nat
  BY DEF PutBack
<1>3. UserType'
  BY <1>1, <1>2 DEF PoolWithdrawWwart, Monus, TypeOK, UserType
<1>4. VaultType'
  BY <1>2 DEF PoolWithdrawWwart, TypeOK, VaultType
<1>5. L1Type'
  BY DEF PoolWithdrawWwart, TypeOK, L1Type
<1>. QED  BY <1>3, <1>4, <1>5 DEF PoolWithdrawWwart, TypeOK, PoolType, poolVars

(* A portal deposit keeps the types.                                       *)
LEMMA PortalType ==
  ASSUME TypeOK, NEW o \in Owners, NEW a \in Nat, NEW hint \in Hints,
         NEW personalFilled \in BOOLEAN,
         PortalDepositWwart(o, a, hint, personalFilled)
  PROVE  TypeOK'
<1>. DEFINE toPool == PoolShare(a, hint, Filled(o), personalFilled, claimed18)
<1>1. toPool \in 0 .. a
  <2>1. Filled(o) \in Nat /\ claimed18 \in Nat
    BY DEF TypeOK, PoolType, VaultType, Filled, FilledClaim18, Monus
  <2>. QED  BY <2>1, PoolShareBound
<1>2. /\ l1Wwart[o] >= a
      /\ l1Wwart' = [l1Wwart EXCEPT ![o] = @ - a]
      /\ poolPortalWwart' = [poolPortalWwart EXCEPT ![o] = @ + toPool]
      /\ pathB' = pathB + (a - toPool)
      /\ vaults' = vaults \cup {o}
      /\ status' = "accept"
      /\ UNCHANGED <<poolVars, userVars, poolL1WwartClaim, poolWwartPortable>>
  BY DEF PortalDepositWwart, Accept
<1>. HIDE DEF toPool
<1>3. VaultType'
  BY <1>1, <1>2 DEF TypeOK, VaultType
<1>4. L1Type'
  BY <1>1, <1>2 DEF TypeOK, L1Type
<1>. QED  BY <1>2, <1>3, <1>4 DEF TypeOK, PoolType, UserType, poolVars, userVars

(* A holder's burn keeps the types: no soft debit exceeds a claim.         *)
LEMMA HolderBurnType ==
  ASSUME TypeOK, NEW o \in Owners, NEW a \in Nat, NEW auto \in BOOLEAN,
         HolderBurn(o, a, auto)
  PROVE  TypeOK'
<1>1. PICK order \in UsersAfterWalk(WithUser(users, o), vaults \cup {o},
                                    FilledClaimsOf, a) :
        /\ users' = order
        /\ DebitFilledClaims(o, order, a)
        /\ Release(o, order, ClaimedToE8(a)) \/ NoRelease
  BY DEF HolderBurn
<1>2. order \in Seq(Owners)
  BY WithUserProperties, UsersAfterWalkProperties DEF TypeOK, UserType, VaultType
<1>3. ClaimedToE8(a) \in Nat
  BY DivType DEF ClaimedToE8
<1>4. /\ lockedE8' \in Nat /\ redeemedE8' \in Nat
      /\ nextNonce' \in Nat \ {0}
      /\ tickets' \in Seq(Ticket)
      /\ depositedE8' \in [Owners -> Nat]
      /\ userRedeemedE8' \in [Owners -> Nat]
  BY <1>1, <1>3, ReleaseType
<1>5. poolL1WwartClaim' \in [Owners -> Nat] /\ claim18' \in [Owners -> Nat]
  <2>1. PICK d \in FifoDebits(order, o, FilledClaimsOf, a) :
          /\ poolL1WwartClaim' = [v \in Owners |-> poolL1WwartClaim[v] - d[v]]
          /\ claim18' = [v \in Owners |-> Monus(claim18[v], d[v])]
    BY <1>1 DEF DebitFilledClaims
  <2>2. /\ d \in [Owners -> Nat]
        /\ \A v \in Owners : d[v] <= FilledClaimsOf[v]
        /\ FilledClaimsOf \in [Owners -> Nat]
        /\ \A v \in Owners : FilledClaimsOf[v] <= poolL1WwartClaim[v]
    BY FilledType, DebitProperties
  <2>3. \A v \in Owners : d[v] <= poolL1WwartClaim[v]
    BY <2>2 DEF TypeOK, VaultType
  <2>4. poolL1WwartClaim' \in [Owners -> Nat]
    BY <2>1, <2>2, <2>3, DebitedType DEF TypeOK, VaultType
  <2>5. claim18' \in [Owners -> Nat]
    BY <2>1, <2>2 DEF TypeOK, UserType, Monus
  <2>. QED  BY <2>4, <2>5
<1>6. claimed18' \in Nat
  BY DEF HolderBurn, IsHolderBurn, TypeOK, PoolType
<1>7. poolPortalWwart' \in [Owners -> Nat]
  BY DEF HolderBurn, IsHolderBurn, Portal, PortalWwart18Of, TypeOK, VaultType
<1>8. PoolType'
  BY <1>4, <1>6 DEF PoolType
<1>9. UserType'
  BY <1>1, <1>2, <1>4, <1>5 DEF HolderBurn, TypeOK, UserType
<1>10. VaultType'
  BY <1>5, <1>7 DEF HolderBurn, TypeOK, VaultType
<1>. QED  BY <1>8, <1>9, <1>10 DEF HolderBurn, Accept, TypeOK, L1Type, l1Vars

(* An owner's burn keeps the types.                                        *)
LEMMA OwnerBurnType ==
  ASSUME TypeOK, NEW o \in Owners, NEW a \in Nat, NEW auto \in BOOLEAN,
         OwnerBurn(o, a, auto)
  PROVE  TypeOK'
<1>. DEFINE fromOpen   == Least(poolWwartPortable[o], a)
            fromPortal == a - fromOpen
            claimed    == Monus(claimed18, a)
            unlockE8   == Least(ClaimedToE8(a), UserFreeableE8(o, claimed))
<1>1. /\ a <= Burnable(o)
      /\ poolL1WwartClaim' = [poolL1WwartClaim EXCEPT ![o] = @ - a]
      /\ poolWwartPortable' = [poolWwartPortable EXCEPT ![o] = @ - fromOpen]
      /\ poolPortalWwart' =
           [poolPortalWwart EXCEPT ![o] =
              IF fromPortal > 0 THEN Portal(o) - fromPortal ELSE @]
      /\ claimed18' = claimed
      /\ claim18' = [claim18 EXCEPT ![o] = Monus(@, a)]
      /\ portable18' =
           [portable18 EXCEPT ![o] = Least(@, poolWwartPortable[o] - fromOpen)]
      /\ users' = WithUser(users, o)
      /\ Release(o, WithUser(users, o), unlockE8) \/ NoRelease
      /\ vaults' = vaults \cup {o}
      /\ status' = "accept"
      /\ UNCHANGED l1Vars
  BY DEF OwnerBurn, Accept
<1>2. WithUser(users, o) \in Seq(Owners)
  BY WithUserProperties DEF TypeOK, UserType
<1>3. /\ claimed \in Nat
      /\ poolL1WwartClaim[o] \in Nat /\ poolWwartPortable[o] \in Nat
      /\ poolPortalWwart[o] \in Nat
      /\ Portal(o) \in Nat
  BY DEF TypeOK, PoolType, VaultType, Monus, Portal, PortalWwart18Of
<1>4. /\ fromOpen \in Nat /\ fromPortal \in Nat
      /\ fromOpen <= poolWwartPortable[o]
      /\ fromPortal > 0 => fromPortal <= Portal(o)
      /\ a <= poolL1WwartClaim[o]
  BY <1>1, <1>3 DEF Burnable, Least
<1>5. unlockE8 \in Nat
  <2>1. ClaimedToE8(a) \in Nat /\ ClaimedToE8(claimed) \in Nat
    BY <1>3, DivType DEF ClaimedToE8
  <2>. HIDE DEF claimed
  <2>. QED  BY <2>1
            DEF Least, UserFreeableE8, PoolFreeableE8, Monus, TypeOK, PoolType,
                UserType
<1>. HIDE DEF fromOpen, fromPortal, claimed, unlockE8
<1>6. /\ lockedE8' \in Nat /\ redeemedE8' \in Nat
      /\ nextNonce' \in Nat \ {0}
      /\ tickets' \in Seq(Ticket)
      /\ depositedE8' \in [Owners -> Nat]
      /\ userRedeemedE8' \in [Owners -> Nat]
  BY <1>1, <1>5, ReleaseType
<1>7. PoolType'
  BY <1>1, <1>3, <1>6 DEF PoolType
<1>8. UserType'
  <2>1. /\ claim18 \in [Owners -> Nat] /\ portable18 \in [Owners -> Nat]
        /\ poolWwartPortable[o] - fromOpen \in Nat
    BY <1>3, <1>4 DEF TypeOK, UserType
  <2>2. Monus(claim18[o], a) \in Nat
    BY <2>1 DEF Monus
  <2>3. Least(portable18[o], poolWwartPortable[o] - fromOpen) \in Nat
    BY <2>1 DEF Least
  <2>4. claim18' \in [Owners -> Nat]
    BY <1>1, <2>1, <2>2
  <2>5. portable18' \in [Owners -> Nat]
    BY <1>1, <2>1, <2>3
  <2>. QED  BY <1>1, <1>2, <1>6, <2>4, <2>5 DEF UserType
<1>9. VaultType'
  BY <1>1, <1>3, <1>4 DEF TypeOK, VaultType
<1>. QED  BY <1>1, <1>7, <1>8, <1>9 DEF TypeOK, L1Type, l1Vars

(* An unlock keeps the types.                                              *)
LEMMA UnlockType ==
  ASSUME TypeOK, NEW o \in Owners, NEW a \in Nat, PoolUnlock(o, a)
  PROVE  TypeOK'
<1>1. ClaimedToE8(a) \in Nat
  BY DivType DEF ClaimedToE8
<1>2. WithUser(users, o) \in Seq(Owners)
  BY WithUserProperties DEF TypeOK, UserType
<1>3. Release(o, WithUser(users, o), ClaimedToE8(a))
  BY DEF PoolUnlock
<1>4. /\ lockedE8' \in Nat /\ redeemedE8' \in Nat
      /\ nextNonce' \in Nat \ {0}
      /\ tickets' \in Seq(Ticket)
      /\ depositedE8' \in [Owners -> Nat]
      /\ userRedeemedE8' \in [Owners -> Nat]
  BY <1>1, <1>3, ReleaseType
<1>. QED  BY <1>2, <1>4 DEF PoolUnlock, TypeOK, PoolType, UserType, VaultType,
                            L1Type, vaultVars, l1Vars

(* Redeeming an open claim keeps the types.                                *)
LEMMA RedeemOpenType ==
  ASSUME TypeOK, NEW o \in Owners, NEW a \in Nat, RedeemOpenClaim(o, a)
  PROVE  TypeOK'
<1>. DEFINE undo == PutBack(Covered(ClaimedToE8(a)), a)
<1>1. ClaimedToE8(a) \in Nat /\ undo \in Nat
  BY DivType DEF ClaimedToE8, PutBack
<1>2. WithUser(users, o) \in Seq(Owners)
  BY WithUserProperties DEF TypeOK, UserType
<1>3. /\ HasOpenClaim(o, a)
      /\ poolL1WwartClaim' =
           [poolL1WwartClaim EXCEPT ![o] = (@ - a) + undo]
      /\ poolWwartPortable' =
           [poolWwartPortable EXCEPT ![o] = (@ - a) + undo]
      /\ claimed18' = Monus(claimed18, a) + undo
      /\ claim18' = [claim18 EXCEPT ![o] = Monus(@, a) + undo]
      /\ portable18' = [portable18 EXCEPT ![o] = Monus(@, a) + undo]
      /\ users' = WithUser(users, o)
      /\ Release(o, WithUser(users, o), ClaimedToE8(a))
      /\ status' \in {"accept", "reject"}
      /\ vaults' = vaults \cup {o}
      /\ UNCHANGED <<poolPortalWwart, l1Vars>>
  BY DEF RedeemOpenClaim
<1>. HIDE DEF undo
<1>4. /\ lockedE8' \in Nat /\ redeemedE8' \in Nat
      /\ nextNonce' \in Nat \ {0}
      /\ tickets' \in Seq(Ticket)
      /\ depositedE8' \in [Owners -> Nat]
      /\ userRedeemedE8' \in [Owners -> Nat]
  BY <1>1, <1>3, ReleaseType
<1>5. PoolType'
  BY <1>1, <1>3, <1>4 DEF TypeOK, PoolType, Monus
<1>6. UserType'
  <2>1. claim18 \in [Owners -> Nat] /\ portable18 \in [Owners -> Nat]
    BY DEF TypeOK, UserType
  <2>2. /\ Monus(claim18[o], a) + undo \in Nat
        /\ Monus(portable18[o], a) + undo \in Nat
    BY <1>1, <2>1 DEF Monus
  <2>3. claim18' \in [Owners -> Nat]
    BY <1>3, <2>1, <2>2
  <2>4. portable18' \in [Owners -> Nat]
    BY <1>3, <2>1, <2>2
  <2>. QED  BY <1>2, <1>3, <1>4, <2>3, <2>4 DEF UserType
<1>7. VaultType'
  BY <1>1, <1>3 DEF TypeOK, VaultType, HasOpenClaim
<1>. QED  BY <1>3, <1>5, <1>6, <1>7 DEF TypeOK, L1Type, l1Vars

(* Redeeming a free deposit keeps the types.                               *)
LEMMA RedeemFreeType ==
  ASSUME TypeOK, NEW o \in Owners, NEW a \in Nat, RedeemFreeDeposit(o, a)
  PROVE  TypeOK'
<1>1. ClaimedToE8(a) \in Nat
  BY DivType DEF ClaimedToE8
<1>2. WithUser(users, o) \in Seq(Owners)
  BY WithUserProperties DEF TypeOK, UserType
<1>3. Release(o, WithUser(users, o), ClaimedToE8(a))
  BY DEF RedeemFreeDeposit
<1>4. /\ lockedE8' \in Nat /\ redeemedE8' \in Nat
      /\ nextNonce' \in Nat \ {0}
      /\ tickets' \in Seq(Ticket)
      /\ depositedE8' \in [Owners -> Nat]
      /\ userRedeemedE8' \in [Owners -> Nat]
  BY <1>1, <1>3, ReleaseType
<1>. QED  BY <1>2, <1>4 DEF RedeemFreeDeposit, TypeOK, PoolType, UserType,
                            VaultType, L1Type, l1Vars

(* Every handler keeps the types.                                          *)
LEMMA HandlerType ==
  ASSUME TypeOK, NEW o \in Owners, NEW a \in Amounts18, Handler(o, a)
  PROVE  TypeOK'
<1>1. a \in Nat
  BY Amounts18Assumption
<1>2. /\ WithUser(users, o) \in Seq(Owners) /\ users \in Seq(Owners)
      /\ vaults \in SUBSET Owners /\ vaults \cup {o} \in SUBSET Owners
  BY WithUserProperties DEF TypeOK, UserType, VaultType
<1>3. CASE PoolMintWwart(o, a)
  BY <1>1, <1>3, MintType
<1>4. CASE \E ok \in BOOLEAN : PoolWithdrawWwart(o, a, ok)
  BY <1>1, <1>4, WithdrawType
<1>5. CASE PoolWithdrawRejected(o, a)
  BY <1>2, <1>5, RejectType DEF PoolWithdrawRejected
<1>6. CASE \E hint \in Hints, personalFilled \in BOOLEAN :
             PortalDepositWwart(o, a, hint, personalFilled)
  BY <1>1, <1>6, PortalType
<1>7. CASE \E auto \in BOOLEAN : HolderBurn(o, a, auto)
  BY <1>1, <1>7, HolderBurnType
<1>8. CASE \E auto \in BOOLEAN : OwnerBurn(o, a, auto)
  BY <1>1, <1>8, OwnerBurnType
<1>9. CASE BurnRejected(o, a)
  BY <1>2, <1>9, RejectType DEF BurnRejected
<1>10. CASE PoolUnlock(o, a)
  BY <1>1, <1>10, UnlockType
<1>11. CASE PoolUnlockRejected(o, a)
  BY <1>2, <1>11, RejectType DEF PoolUnlockRejected
<1>12. CASE RedeemOpenClaim(o, a)
  BY <1>1, <1>12, RedeemOpenType
<1>13. CASE RedeemFreeDeposit(o, a)
  BY <1>1, <1>13, RedeemFreeType
<1>14. CASE RedeemRejected(o, a)
  BY <1>2, <1>14, RejectType DEF RedeemRejected
<1>. QED  BY <1>3, <1>4, <1>5, <1>6, <1>7, <1>8, <1>9, <1>10, <1>11, <1>12,
             <1>13, <1>14 DEF Handler, PoolInput

(* So does every step.                                                     *)
LEMMA NextType == TypeOK /\ [Next]_vars => TypeOK'
<1>. SUFFICES ASSUME TypeOK, [Next]_vars PROVE TypeOK'
  OBVIOUS
<1>1. CASE \E o \in Owners, e8 \in AmountsE8 : PoolDeposit(o, e8)
  BY <1>1, DepositType
<1>2. CASE \E o \in Owners, a \in Amounts18 : Handler(o, a)
  BY <1>2, HandlerType
<1>3. CASE PoolMintRejected \/ \E a \in Amounts18 : TooSmallRejected(a)
  <2>1. RejectWith(users, vaults)
    BY <1>3 DEF PoolMintRejected, TooSmallRejected
  <2>. QED  BY <2>1, RejectType DEF TypeOK, UserType, VaultType
<1>4. CASE \E o \in Owners : InspectPool(o)
  <2>1. PICK o \in Owners : InspectPool(o)
    BY <1>4
  <2>2. WithUser(users, o) \in Seq(Owners)
    BY WithUserProperties DEF TypeOK, UserType
  <2>. QED  BY <2>1, <2>2
            DEF InspectPool, Accept, TypeOK, PoolType, UserType, VaultType,
                L1Type, poolVars, vaultVars, l1Vars
<1>5. CASE \E o \in Owners : OtherInput({}) \/ OtherInput({o})
  BY <1>5 DEF OtherInput, TypeOK, PoolType, UserType, VaultType,
              L1Type, poolVars, userVars, l1Vars
<1>6. CASE \E from, to \in Owners, a \in Amounts18 : L1Transfer(from, to, a)
  <2>1. L1Type' /\ UNCHANGED <<status, poolVars, userVars, vaultVars>>
    BY <1>6, Amounts18Assumption DEF L1Transfer, TypeOK, L1Type
  <2>. QED  BY <2>1 DEF TypeOK, PoolType, UserType, VaultType,
                        poolVars, userVars, vaultVars
<1>7. CASE \E o \in Owners, a \in Amounts18 : PathBRelease(o, a)
  <2>1. /\ L1Type' /\ status' = "accept"
        /\ UNCHANGED <<poolVars, userVars, vaultVars>>
    BY <1>7, Amounts18Assumption DEF PathBRelease, Accept, TypeOK, L1Type
  <2>. QED  BY <2>1 DEF TypeOK, PoolType, UserType, VaultType,
                        poolVars, userVars, vaultVars
<1>8. CASE UNCHANGED vars
  BY <1>8 DEF vars, TypeOK, PoolType, UserType, VaultType, L1Type,
              poolVars, userVars, vaultVars, l1Vars
<1>. QED  BY <1>1, <1>2, <1>3, <1>4, <1>5, <1>6, <1>7, <1>8 DEF Next

(* No balance of the pool, of a user or of a vault is ever negative: every *)
(* subtraction in the handlers is covered by a check the handler made.     *)
THEOREM TypeCorrect == Spec => []TypeOK
BY InitType, NextType, PTL DEF Spec

-----------------------------------------------------------------------------
(* The peg.                                                                *)

(* The inductive invariant.                                                *)
PoolInv ==
  /\ TypeOK
  /\ PegSolvent
  /\ CollateralAttributed
  /\ BalancesAreKnown
  /\ MirrorsAgree
  /\ OpenWithinClaim
  /\ GlobalWithinClaims

-----------------------------------------------------------------------------
(* Sums over all owners.                                                   *)

(* A sum over an owner-indexed function is a Nat.                          *)
LEMMA OwnerSum ==
  ASSUME NEW f \in [Owners -> Nat]
  PROVE  /\ SumFunction(f) = SumFunctionOnSet(f, Owners)
         /\ SumFunction(f) \in Nat
<1>1. DOMAIN f = Owners
  OBVIOUS
<1>2. SumFunctionOnSet(f, Owners) \in Nat
  BY OwnersAssumption, SumType
<1>. QED  BY <1>1, <1>2 DEF SumFunction

(* Changing one owner's amount changes the sum by as much.                 *)
LEMMA OwnerSumUpdate ==
  ASSUME NEW f \in [Owners -> Nat], NEW o \in Owners, NEW n \in Nat
  PROVE  SumFunction([f EXCEPT ![o] = n]) + f[o] = SumFunction(f) + n
<1>1. [f EXCEPT ![o] = n] \in [Owners -> Nat]
  OBVIOUS
<1>2. SumFunctionOnSet([f EXCEPT ![o] = n], Owners) + f[o] =
        SumFunctionOnSet(f, Owners) + n
  BY OwnersAssumption, SumUpdate
<1>. QED  BY <1>1, <1>2, OwnerSum

(* Debiting owners debits the sum.                                         *)
LEMMA OwnerSumDebit ==
  ASSUME NEW f \in [Owners -> Nat], NEW d \in [Owners -> Nat],
         \A v \in Owners : d[v] <= f[v]
  PROVE  SumFunction([v \in Owners |-> f[v] - d[v]]) + SumFunction(d) =
           SumFunction(f)
<1>. DEFINE g == [v \in Owners |-> f[v] - d[v]]
<1>1. g \in [Owners -> Nat] /\ \A v \in Owners : f[v] = g[v] + d[v]
  OBVIOUS
<1>. HIDE DEF g
<1>2. SumFunctionOnSet(f, Owners) =
        SumFunctionOnSet(g, Owners) + SumFunctionOnSet(d, Owners)
  BY <1>1, OwnersAssumption, SumOfSum
<1>3. SumFunction(g) + SumFunction(d) = SumFunction(f)
  BY <1>1, <1>2, OwnerSum
<1>. QED  BY <1>3 DEF g

(* A debit is for what was asked, or for all there is.                     *)
LEMMA DebitSum ==
  ASSUME NEW order \in Seq(Owners), NEW first, NEW balance \in [Owners -> Nat],
         NEW amount \in Nat,
         NEW d \in FifoDebits(order, first, balance, amount)
  PROVE  /\ SumFunction(d) \in Nat /\ SumFunction(d) <= amount
         /\ (\A v \in Owners \ Range(order) : balance[v] = 0) =>
              SumFunction(d) = Least(amount, SumFunction(balance))
<1>1. SumFunction(d) =
        Least(amount, SumFunctionOnSet(balance, Range(order)))
  BY DEF FifoDebits
<1>2. Range(order) \in SUBSET Owners /\ IsFiniteSet(Range(order))
  <2>1. Range(order) \subseteq Owners
    BY RangeEquality, LenProperties, ElementOfSeq
  <2>. QED  BY <2>1, OwnersAssumption, FS_Subset
<1>3. SumFunctionOnSet(balance, Range(order)) \in Nat
  BY <1>2, SumType
<1>4. ASSUME \A v \in Owners \ Range(order) : balance[v] = 0
      PROVE  SumFunction(balance) = SumFunctionOnSet(balance, Range(order))
  <2>1. SumFunctionOnSet(balance, Owners) =
          SumFunctionOnSet(balance, Range(order))
    <3>1. \A v \in Owners : v \notin Range(order) => balance[v] = 0
      BY <1>4
    <3>. QED  BY <1>2, <3>1, OwnersAssumption, SumOverSupport
  <2>. QED  BY <2>1, OwnerSum
<1>. QED  BY <1>1, <1>3, <1>4 DEF Least

-----------------------------------------------------------------------------
(* Releases.                                                               *)

(* A step of PegLedger's Retire, in the pool's variables.                  *)
Retires ==
  /\ claimed18' <= claimed18
  /\ lockedE8' <= lockedE8
  /\ ClaimedToE8(claimed18') <= lockedE8'
  /\ redeemedE8' = redeemedE8 + (lockedE8 - lockedE8')

PegVarsUnchanged == UNCHANGED <<lockedE8, claimed18, redeemedE8>>

(* The part of the types the ledger's variables need.                      *)
LEMMA PegTypes ==
  ASSUME TypeOK
  PROVE  /\ lockedE8 \in Nat /\ claimed18 \in Nat /\ redeemedE8 \in Nat
         /\ ClaimedToE8(claimed18) \in Nat
BY DivType DEF TypeOK, PoolType, ClaimedToE8

(* A release moves e8 from locked to redeemed when it is covered, and      *)
(* otherwise leaves both alone.                                            *)
LEMMA ReleaseCollateral ==
  ASSUME NEW o, NEW order, NEW e8 \in Nat, Release(o, order, e8)
  PROVE  IF Covered(e8)
         THEN lockedE8' = lockedE8 - e8 /\ redeemedE8' = redeemedE8 + e8
         ELSE UNCHANGED <<lockedE8, redeemedE8>>
BY DEF Release, Covered

(* Releasing what the claims leave free of the collateral keeps them       *)
(* covered.                                                                *)
LEMMA ReleaseOfFreeable ==
  ASSUME TypeOK, NEW o \in Owners, NEW order, NEW e8 \in Nat,
         NEW claimed \in Nat,
         claimed <= claimed18, ClaimedToE8(claimed) <= lockedE8,
         e8 <= PoolFreeableE8(claimed),
         claimed18' = claimed,
         Release(o, order, e8) \/ NoRelease
  PROVE  Retires
<1>1. ClaimedToE8(claimed) \in Nat
  BY DivType DEF ClaimedToE8
<1>2. e8 <= lockedE8 - ClaimedToE8(claimed)
  BY <1>1, PegTypes DEF PoolFreeableE8, Monus
<1>3. \/ lockedE8' = lockedE8 - e8 /\ redeemedE8' = redeemedE8 + e8
      \/ UNCHANGED <<lockedE8, redeemedE8>>
  BY ReleaseCollateral DEF NoRelease
<1>4. lockedE8 \in Nat /\ redeemedE8 \in Nat
  BY PegTypes
<1>. HIDE DEF Release, NoRelease
<1>. QED  BY <1>1, <1>2, <1>3, <1>4 DEF Retires

(* What an owner may free is within what the pool may free.                *)
LEMMA UserFreeableBound ==
  ASSUME TypeOK, NEW o \in Owners, NEW claimed \in Nat
  PROVE  UserFreeableE8(o, claimed) <= PoolFreeableE8(claimed)
<1>1. PoolFreeableE8(claimed) \in Nat /\ depositedE8[o] \in Nat
  <2>1. ClaimedToE8(claimed) \in Nat
    BY DivType DEF ClaimedToE8
  <2>. QED  BY <2>1 DEF TypeOK, PoolType, UserType, PoolFreeableE8, Monus
<1>. QED  BY <1>1 DEF UserFreeableE8, Least

(* A release the pool's collateral covers is always issued in full: the    *)
(* deposits of the users in the Map cover it too.                          *)
LEMMA ReleaseExact ==
  ASSUME PoolInv, NEW o \in Owners, NEW order \in Seq(Owners),
         Range(users) \subseteq Range(order),
         NEW e8 \in Nat, e8 <= lockedE8, Release(o, order, e8)
  PROVE  /\ Covered(e8)
         /\ lockedE8' = lockedE8 - e8
         /\ redeemedE8' = redeemedE8 + e8
         /\ userRedeemedE8' = [userRedeemedE8 EXCEPT ![o] = @ + e8]
         /\ depositedE8' \in [Owners -> Nat]
         /\ \A v \in Owners : depositedE8'[v] <= depositedE8[v]
         /\ SumFunction(depositedE8') = lockedE8 - e8
<1>1. Covered(e8)
  BY DEF Covered, PoolInv, CollateralAttributed
<1>2. PICK d \in FifoDebits(order, o, depositedE8, e8) :
        depositedE8' = [v \in Owners |-> depositedE8[v] - d[v]]
  BY DEF Release
<1>3. depositedE8 \in [Owners -> Nat] /\ lockedE8 \in Nat
  BY DEF PoolInv, TypeOK, PoolType, UserType
<1>4. /\ d \in [Owners -> Nat]
      /\ \A v \in Owners : d[v] <= depositedE8[v]
  BY <1>3, DebitProperties
<1>5. /\ depositedE8' \in [Owners -> Nat]
      /\ \A v \in Owners : depositedE8'[v] <= depositedE8[v]
  BY <1>2, <1>3, <1>4, DebitedType
<1>6. SumFunction(d) = e8
  <2>1. \A v \in Owners \ Range(order) : depositedE8[v] = 0
    BY DEF PoolInv, BalancesAreKnown
  <2>2. SumFunction(d) = Least(e8, SumFunction(depositedE8))
    BY <1>3, <2>1, DebitSum
  <2>3. SumFunction(depositedE8) = lockedE8
    BY DEF PoolInv, CollateralAttributed
  <2>. QED  BY <1>3, <2>2, <2>3 DEF Least
<1>7. SumFunction(depositedE8') + e8 = lockedE8
  BY <1>2, <1>3, <1>4, <1>6, OwnerSumDebit DEF PoolInv, CollateralAttributed
<1>8. SumFunction(depositedE8') = lockedE8 - e8
  <2>1. SumFunction(depositedE8') \in Nat
    BY <1>5, OwnerSum
  <2>. QED  BY <1>3, <1>7, <2>1
<1>. QED  BY <1>1, <1>5, <1>8 DEF Release

(* So a release keeps the collateral attributed and the balances known.    *)
LEMMA ReleaseKeeps ==
  ASSUME PoolInv, NEW o \in Owners, NEW order \in Seq(Owners),
         Range(users) \cup {o} \subseteq Range(order),
         users' = order,
         NEW e8 \in Nat, e8 <= lockedE8,
         Release(o, order, e8) \/ NoRelease
  PROVE  /\ CollateralAttributed'
         /\ \A v \in Owners \ Range(users') :
              depositedE8'[v] = 0 /\ userRedeemedE8'[v] = 0
<1>1. /\ depositedE8 \in [Owners -> Nat] /\ userRedeemedE8 \in [Owners -> Nat]
      /\ lockedE8 \in Nat /\ redeemedE8 \in Nat
      /\ SumFunction(depositedE8) = lockedE8
      /\ SumFunction(userRedeemedE8) = redeemedE8
      /\ \A v \in Owners \ Range(order) :
           depositedE8[v] = 0 /\ userRedeemedE8[v] = 0
  BY DEF PoolInv, TypeOK, PoolType, UserType, CollateralAttributed,
         BalancesAreKnown
<1>2. CASE NoRelease
  BY <1>1, <1>2 DEF NoRelease, CollateralAttributed
<1>3. CASE Release(o, order, e8)
  <2>1. /\ lockedE8' = lockedE8 - e8
        /\ redeemedE8' = redeemedE8 + e8
        /\ userRedeemedE8' = [userRedeemedE8 EXCEPT ![o] = @ + e8]
        /\ depositedE8' \in [Owners -> Nat]
        /\ \A v \in Owners : depositedE8'[v] <= depositedE8[v]
        /\ SumFunction(depositedE8') = lockedE8 - e8
    BY <1>3, ReleaseExact
  <2>2. SumFunction(userRedeemedE8') = redeemedE8 + e8
    <3>1. userRedeemedE8[o] \in Nat /\ userRedeemedE8[o] + e8 \in Nat
      BY <1>1
    <3>2. userRedeemedE8' = [userRedeemedE8 EXCEPT ![o] = userRedeemedE8[o] + e8]
      BY <2>1
    <3>3. userRedeemedE8' \in [Owners -> Nat]
      BY <1>1, <3>1, <3>2
    <3>4. SumFunction(userRedeemedE8') + userRedeemedE8[o] =
            redeemedE8 + (userRedeemedE8[o] + e8)
      BY <1>1, <3>1, <3>2, OwnerSumUpdate
    <3>5. SumFunction(userRedeemedE8') \in Nat
      BY <3>3, OwnerSum
    <3>6. \A x, r, m \in Nat : x + r = m + (r + e8) => x = m + e8
      OBVIOUS
    <3>7. redeemedE8 \in Nat
      BY <1>1
    <3>. QED  BY <3>1, <3>4, <3>5, <3>6, <3>7
  <2>3. CollateralAttributed'
    BY <2>1, <2>2 DEF CollateralAttributed
  <2>4. \A v \in Owners \ Range(order) :
          depositedE8'[v] = 0 /\ userRedeemedE8'[v] = 0
    BY <1>1, <2>1
  <2>. QED  BY <2>3, <2>4
<1>. QED  BY <1>2, <1>3

-----------------------------------------------------------------------------
(* Each handler that gives up claims or collateral keeps the rest covered. *)

(* pool_burn_wwart of a holder: all of the burn, rounded down.             *)
LEMMA HolderBurnRetires ==
  ASSUME TypeOK, PegSolvent, NEW o \in Owners, NEW a \in Nat,
         NEW auto \in BOOLEAN, HolderBurn(o, a, auto)
  PROVE  Retires
<1>1. a <= claimed18 /\ claimed18' = claimed18 - a
  BY DEF HolderBurn, IsHolderBurn
<1>2. ClaimedToE8(a) \in Nat
  BY DivType DEF ClaimedToE8
<1>3. PICK order : Release(o, order, ClaimedToE8(a)) \/ NoRelease
  BY DEF HolderBurn
<1>4. /\ ClaimedToE8(claimed18 - a) + ClaimedToE8(a) <= ClaimedToE8(claimed18)
      /\ ClaimedToE8(claimed18 - a) \in Nat
  BY <1>1, PegTypes, DivOfDifference, DivType DEF ClaimedToE8
<1>5. ClaimedToE8(claimed18) <= lockedE8
  BY DEF PegSolvent
<1>6. \/ /\ lockedE8' = lockedE8 - ClaimedToE8(a)
         /\ redeemedE8' = redeemedE8 + ClaimedToE8(a)
      \/ UNCHANGED <<lockedE8, redeemedE8>>
  BY <1>2, <1>3, ReleaseCollateral DEF NoRelease
<1>. QED  BY <1>1, <1>2, <1>4, <1>5, <1>6, PegTypes DEF Retires

(* pool_burn_wwart of an owner: what the remaining claims leave free.      *)
LEMMA OwnerBurnRetires ==
  ASSUME TypeOK, PegSolvent, NEW o \in Owners, NEW a \in Nat,
         NEW auto \in BOOLEAN, OwnerBurn(o, a, auto)
  PROVE  Retires
<1>. DEFINE claimed  == Monus(claimed18, a)
            unlockE8 == Least(ClaimedToE8(a), UserFreeableE8(o, claimed))
<1>1. /\ claimed18' = claimed
      /\ Release(o, WithUser(users, o), unlockE8) \/ NoRelease
  BY DEF OwnerBurn
<1>2. claimed \in Nat /\ claimed <= claimed18
  BY PegTypes DEF Monus
<1>. HIDE DEF claimed
<1>3. ClaimedToE8(a) \in Nat /\ UserFreeableE8(o, claimed) \in Nat
  <2>1. ClaimedToE8(a) \in Nat /\ ClaimedToE8(claimed) \in Nat
    BY <1>2, DivType DEF ClaimedToE8
  <2>. QED  BY <2>1 DEF UserFreeableE8, PoolFreeableE8, Least, Monus,
                        TypeOK, PoolType, UserType
<1>4. PoolFreeableE8(claimed) \in Nat
  BY <1>2, PegTypes, DivType DEF PoolFreeableE8, ClaimedToE8, Monus
<1>5. unlockE8 \in Nat /\ unlockE8 <= PoolFreeableE8(claimed)
  BY <1>2, <1>3, <1>4, UserFreeableBound DEF Least
<1>. HIDE DEF unlockE8
<1>6. ClaimedToE8(claimed) <= lockedE8
  <2>1. ClaimedToE8(claimed) <= ClaimedToE8(claimed18)
    BY <1>2, PegTypes, DivMonotonic DEF ClaimedToE8
  <2>2. ClaimedToE8(claimed) \in Nat
    BY <1>2, DivType DEF ClaimedToE8
  <2>. QED  BY <2>1, <2>2, PegTypes DEF PegSolvent
<1>. QED  BY <1>1, <1>2, <1>5, <1>6, ReleaseOfFreeable

(* pool_unlock, and the second path of pool_redeem.                        *)
LEMMA FreeDepositRetires ==
  ASSUME TypeOK, PegSolvent, NEW o \in Owners, NEW a \in Nat,
         PoolUnlock(o, a) \/ RedeemFreeDeposit(o, a)
  PROVE  Retires
<1>1. /\ ClaimedToE8(a) <= UserFreeableE8(o, claimed18)
      /\ Release(o, WithUser(users, o), ClaimedToE8(a))
      /\ claimed18' = claimed18
  BY DEF PoolUnlock, RedeemFreeDeposit
<1>2. ClaimedToE8(a) \in Nat
  BY DivType DEF ClaimedToE8
<1>3. claimed18 \in Nat /\ ClaimedToE8(claimed18) <= lockedE8
  BY PegTypes DEF PegSolvent
<1>4. ClaimedToE8(a) <= PoolFreeableE8(claimed18)
  <2>1. /\ PoolFreeableE8(claimed18) \in Nat
        /\ UserFreeableE8(o, claimed18) \in Nat
    BY PegTypes DEF UserFreeableE8, PoolFreeableE8, Least, Monus, TypeOK, UserType
  <2>. QED  BY <1>1, <1>2, <1>3, <2>1, UserFreeableBound
<1>. QED  BY <1>1, <1>2, <1>3, <1>4, ReleaseOfFreeable

(* pool_redeem, path 1: the ticket is always issued, so nothing is put     *)
(* back.                                                                   *)
LEMMA RedeemOpenRetires ==
  ASSUME PoolInv, NEW o \in Owners, NEW a \in Nat, RedeemOpenClaim(o, a)
  PROVE  /\ Retires
         /\ Covered(ClaimedToE8(a))
         /\ PutBack(Covered(ClaimedToE8(a)), a) = 0
<1>1. /\ ClaimedToE8(a) <= lockedE8
      /\ claimed18' = Monus(claimed18, a) + PutBack(Covered(ClaimedToE8(a)), a)
      /\ Release(o, WithUser(users, o), ClaimedToE8(a))
  BY DEF RedeemOpenClaim
<1>2. ClaimedToE8(a) \in Nat
  BY DivType DEF ClaimedToE8
<1>3. Covered(ClaimedToE8(a)) /\ PutBack(Covered(ClaimedToE8(a)), a) = 0
  BY <1>1 DEF PoolInv, CollateralAttributed, Covered, PutBack
<1>4. /\ lockedE8 \in Nat /\ claimed18 \in Nat /\ redeemedE8 \in Nat
      /\ ClaimedToE8(claimed18) \in Nat
      /\ ClaimedToE8(claimed18) <= lockedE8
  BY PegTypes DEF PoolInv, PegSolvent
<1>5. claimed18' = Monus(claimed18, a)
  <2>1. claimed18' = Monus(claimed18, a) + 0
    BY <1>1, <1>3
  <2>2. Monus(claimed18, a) \in Nat
    BY <1>4 DEF Monus
  <2>. QED  BY <2>1, <2>2
<1>6. /\ lockedE8' = lockedE8 - ClaimedToE8(a)
      /\ redeemedE8' = redeemedE8 + ClaimedToE8(a)
  BY <1>1, <1>2, <1>3, ReleaseCollateral
<1>7. CASE a <= claimed18
  <2>1. claimed18' = claimed18 - a
    <3>1. \A x \in Nat : a <= x => Monus(x, a) = x - a
      BY DEF Monus
    <3>. QED  BY <1>4, <1>5, <1>7, <3>1
  <2>2. /\ ClaimedToE8(claimed18 - a) + ClaimedToE8(a) <= ClaimedToE8(claimed18)
        /\ ClaimedToE8(claimed18 - a) \in Nat
    <3>1. claimed18 - a \in Nat
      BY <1>4, <1>7
    <3>. QED  BY <1>4, <1>7, <3>1, DivOfDifference, DivType DEF ClaimedToE8
  <2>3. ClaimedToE8(claimed18') <= lockedE8 - ClaimedToE8(a)
    <3>1. \A x, y, c, l \in Nat : x + y <= c /\ c <= l => x <= l - y
      OBVIOUS
    <3>. QED  BY <1>2, <1>4, <2>1, <2>2, <3>1
  <2>4. claimed18' <= claimed18
    BY <1>4, <1>7, <2>1
  <2>5. Retires
    BY <1>2, <1>4, <1>6, <2>3, <2>4 DEF Retires
  <2>. QED  BY <1>3, <2>5
<1>8. CASE ~(a <= claimed18)
  <2>1. claimed18' = 0
    BY <1>4, <1>5, <1>8 DEF Monus
  <2>2. ClaimedToE8(0) = 0
    BY UnitAssumption DEF ClaimedToE8
  <2>3. Retires
    BY <1>1, <1>2, <1>4, <1>6, <2>1, <2>2 DEF Retires
  <2>. QED  BY <1>3, <2>3
<1>. QED  BY <1>7, <1>8

-----------------------------------------------------------------------------
(* The steps, as far as the balances go.                                   *)

BalancesUnchanged ==
  /\ UNCHANGED <<lockedE8, claimed18, redeemedE8, depositedE8, userRedeemedE8,
                 claim18, portable18, poolL1WwartClaim, poolWwartPortable>>
  /\ Range(users) \subseteq Range(users')

(* A rejected input moves no balance.                                      *)
LEMMA RejectUnchanged ==
  ASSUME NEW newUsers, NEW newVaults, RejectWith(newUsers, newVaults),
         Range(users) \subseteq Range(newUsers)
  PROVE  BalancesUnchanged
BY DEF RejectWith, BalancesUnchanged, poolVars

(* Every step is one of the balance-moving handlers or moves none.         *)
LEMMA StepCases ==
  ASSUME TypeOK, [Next]_vars
  PROVE  \/ BalancesUnchanged
         \/ \E o \in Owners, e8 \in AmountsE8 : PoolDeposit(o, e8)
         \/ \E o \in Owners, a \in Nat :
              \/ PoolMintWwart(o, a)
              \/ \E ok \in BOOLEAN : PoolWithdrawWwart(o, a, ok)
              \/ \E auto \in BOOLEAN : HolderBurn(o, a, auto)
              \/ \E auto \in BOOLEAN : OwnerBurn(o, a, auto)
              \/ PoolUnlock(o, a) \/ RedeemFreeDeposit(o, a)
              \/ RedeemOpenClaim(o, a)
<1>1. \A o \in Owners : Range(users) \subseteq Range(WithUser(users, o))
  BY WithUserProperties DEF TypeOK, UserType
<1>2. ASSUME NEW o \in Owners, NEW a \in Amounts18,
             \/ PoolWithdrawRejected(o, a) \/ BurnRejected(o, a)
             \/ PoolUnlockRejected(o, a) \/ RedeemRejected(o, a)
      PROVE  BalancesUnchanged
  BY <1>1, <1>2, RejectUnchanged
     DEF PoolWithdrawRejected, BurnRejected, PoolUnlockRejected, RedeemRejected
<1>3. ASSUME \/ PoolMintRejected
             \/ \E a \in Amounts18 : TooSmallRejected(a)
      PROVE  BalancesUnchanged
  BY <1>3, RejectUnchanged DEF PoolMintRejected, TooSmallRejected
<1>4. ASSUME NEW o \in Owners, NEW a \in Amounts18,
             \/ InspectPool(o) \/ PathBRelease(o, a)
             \/ \E hint \in Hints, personalFilled \in BOOLEAN :
                  PortalDepositWwart(o, a, hint, personalFilled)
      PROVE  BalancesUnchanged
  BY <1>1, <1>4 DEF InspectPool, PathBRelease, PortalDepositWwart,
                    BalancesUnchanged, poolVars, userVars, vaultVars
<1>5. ASSUME NEW from \in Owners, NEW to \in Owners, NEW a \in Amounts18,
             L1Transfer(from, to, a)
      PROVE  BalancesUnchanged
  BY <1>5 DEF L1Transfer, BalancesUnchanged, poolVars, userVars, vaultVars
<1>6. ASSUME UNCHANGED vars PROVE BalancesUnchanged
  BY <1>6 DEF vars, BalancesUnchanged, poolVars, userVars, vaultVars
<1>7. ASSUME NEW o \in Owners,
             InspectPool(o) \/ OtherInput({}) \/ OtherInput({o})
      PROVE  BalancesUnchanged
  BY <1>1, <1>7 DEF InspectPool, OtherInput, BalancesUnchanged, poolVars,
                    userVars, vaultVars
<1>. QED  BY <1>2, <1>3, <1>4, <1>5, <1>6, <1>7, Amounts18Assumption
          DEF Next, Handler, PoolInput

-----------------------------------------------------------------------------
(* The two copies of the claims, and the global one.                       *)

(* What the invariant says of the claims.                                  *)
LEMMA ClaimTypes ==
  ASSUME PoolInv
  PROVE  /\ claimed18 \in Nat
         /\ poolL1WwartClaim \in [Owners -> Nat]
         /\ poolWwartPortable \in [Owners -> Nat]
         /\ SumFunction(poolL1WwartClaim) \in Nat
         /\ claimed18 <= SumFunction(poolL1WwartClaim)
         /\ claim18 = poolL1WwartClaim /\ portable18 = poolWwartPortable
         /\ \A v \in Owners : poolWwartPortable[v] <= poolL1WwartClaim[v]
<1>1. poolL1WwartClaim \in [Owners -> Nat]
  BY DEF PoolInv, TypeOK, VaultType
<1>2. SumFunction(poolL1WwartClaim) \in Nat
  BY <1>1, OwnerSum
<1>. QED  BY <1>1, <1>2
          DEF PoolInv, TypeOK, PoolType, VaultType, MirrorsAgree,
              OpenWithinClaim, GlobalWithinClaims

(* A mint adds the same to every copy of the claim.                        *)
LEMMA MintClaims ==
  ASSUME PoolInv, NEW o \in Owners, NEW a \in Nat, PoolMintWwart(o, a)
  PROVE  ClaimsAgree'
<1>. DEFINE m == Least(a, PoolAvailable18)
<1>1. m \in Nat
  BY UnitAssumption
     DEF PoolInv, TypeOK, PoolType, Least, PoolAvailable18, PoolCapacity18, Monus
<1>2. /\ claimed18' = claimed18 + m
      /\ claim18' = [claim18 EXCEPT ![o] = @ + m]
      /\ portable18' = [portable18 EXCEPT ![o] = @ + m]
      /\ poolL1WwartClaim' = [poolL1WwartClaim EXCEPT ![o] = @ + m]
      /\ poolWwartPortable' = [poolWwartPortable EXCEPT ![o] = @ + m]
  BY DEF PoolMintWwart
<1>. HIDE DEF m
<1>3. MirrorsAgree' /\ OpenWithinClaim'
  BY <1>1, <1>2, ClaimTypes DEF MirrorsAgree, OpenWithinClaim
<1>4. GlobalWithinClaims'
  <2>1. poolL1WwartClaim[o] \in Nat /\ poolL1WwartClaim[o] + m \in Nat
    BY <1>1, ClaimTypes
  <2>2. SumFunction(poolL1WwartClaim') + poolL1WwartClaim[o] =
          SumFunction(poolL1WwartClaim) + (poolL1WwartClaim[o] + m)
    BY <1>2, <2>1, ClaimTypes, OwnerSumUpdate
  <2>3. SumFunction(poolL1WwartClaim') \in Nat
    <3>1. poolL1WwartClaim' \in [Owners -> Nat]
      BY <1>2, <2>1, ClaimTypes
    <3>. QED  BY <3>1, OwnerSum
  <2>4. \A x, y, r \in Nat : x + r = y + (r + m) => x = y + m
    BY <1>1
  <2>5. SumFunction(poolL1WwartClaim') = SumFunction(poolL1WwartClaim) + m
    BY <2>1, <2>2, <2>3, <2>4, ClaimTypes
  <2>. QED  BY <1>1, <1>2, <2>5, ClaimTypes DEF GlobalWithinClaims
<1>. QED  BY <1>3, <1>4 DEF ClaimsAgree

(* A withdrawal moves only the open part, and puts it back on failure.     *)
LEMMA WithdrawClaims ==
  ASSUME PoolInv, NEW o \in Owners, NEW a \in Nat, NEW ok \in BOOLEAN,
         PoolWithdrawWwart(o, a, ok)
  PROVE  ClaimsAgree' /\ (~ok => UNCHANGED <<portable18, poolWwartPortable>>)
<1>. DEFINE undo == PutBack(ok, a)
<1>1. /\ poolWwartPortable[o] >= a
      /\ poolWwartPortable' = [poolWwartPortable EXCEPT ![o] = (@ - a) + undo]
      /\ portable18' = [portable18 EXCEPT ![o] = Monus(@, a) + undo]
      /\ UNCHANGED <<claimed18, claim18, poolL1WwartClaim>>
  BY DEF PoolWithdrawWwart, poolVars
<1>2. undo \in {0, a} /\ (~ok => undo = a)
  BY DEF PutBack
<1>. HIDE DEF undo
<1>3. poolWwartPortable[o] \in Nat /\ portable18 = poolWwartPortable
  BY ClaimTypes
<1>4. Monus(poolWwartPortable[o], a) = poolWwartPortable[o] - a
  BY <1>1, <1>3 DEF Monus
<1>5. MirrorsAgree'
  BY <1>1, <1>3, <1>4, ClaimTypes DEF MirrorsAgree
<1>6. OpenWithinClaim'
  BY <1>1, <1>2, ClaimTypes DEF OpenWithinClaim
<1>7. GlobalWithinClaims'
  BY <1>1, ClaimTypes DEF GlobalWithinClaims
<1>8. ~ok => UNCHANGED <<portable18, poolWwartPortable>>
  BY <1>1, <1>2, <1>3, <1>4, ClaimTypes
<1>. QED  BY <1>5, <1>6, <1>7, <1>8 DEF ClaimsAgree

(* A holder's burn debits filled claims only, the same in both copies, and *)
(* no more of them than the global claim.                                  *)
LEMMA HolderBurnClaims ==
  ASSUME PoolInv, NEW o \in Owners, NEW a \in Nat, NEW auto \in BOOLEAN,
         HolderBurn(o, a, auto)
  PROVE  ClaimsAgree' /\ \A v \in Owners : poolL1WwartClaim'[v] <= poolL1WwartClaim[v]
<1>1. PICK order \in UsersAfterWalk(WithUser(users, o), vaults \cup {o},
                                    FilledClaimsOf, a) :
        DebitFilledClaims(o, order, a)
  BY DEF HolderBurn
<1>2. /\ a <= claimed18 /\ claimed18' = claimed18 - a
      /\ UNCHANGED <<portable18, poolWwartPortable>>
  BY DEF HolderBurn, IsHolderBurn
<1>3. PICK d \in FifoDebits(order, o, FilledClaimsOf, a) :
        /\ poolL1WwartClaim' = [v \in Owners |-> poolL1WwartClaim[v] - d[v]]
        /\ claim18' = [v \in Owners |-> Monus(claim18[v], d[v])]
  BY <1>1 DEF DebitFilledClaims
<1>4. /\ FilledClaimsOf \in [Owners -> Nat]
      /\ \A v \in Owners :
           FilledClaimsOf[v] = poolL1WwartClaim[v] - poolWwartPortable[v]
  BY FilledType, ClaimTypes DEF PoolInv
<1>5. /\ d \in [Owners -> Nat]
      /\ \A v \in Owners : d[v] <= FilledClaimsOf[v]
  BY <1>4, DebitProperties
<1>6. \A v \in Owners : d[v] <= poolL1WwartClaim[v] - poolWwartPortable[v]
  BY <1>4, <1>5
<1>7. order \in Seq(Owners)
  BY WithUserProperties, UsersAfterWalkProperties
     DEF PoolInv, TypeOK, UserType, VaultType
<1>8. SumFunction(d) \in Nat /\ SumFunction(d) <= a
  BY <1>4, <1>7, DebitSum
<1>9. \A v \in Owners : Monus(poolL1WwartClaim[v], d[v]) = poolL1WwartClaim[v] - d[v]
  BY <1>5, <1>6, ClaimTypes DEF Monus
<1>10. MirrorsAgree'
  BY <1>2, <1>3, <1>9, ClaimTypes DEF MirrorsAgree
<1>11. OpenWithinClaim'
  BY <1>2, <1>3, <1>5, <1>6, ClaimTypes DEF OpenWithinClaim
<1>12. \A v \in Owners : d[v] <= poolL1WwartClaim[v]
  BY <1>5, <1>6, ClaimTypes
<1>13. GlobalWithinClaims'
  <2>1. SumFunction(poolL1WwartClaim') + SumFunction(d) =
          SumFunction(poolL1WwartClaim)
    BY <1>3, <1>5, <1>12, ClaimTypes, OwnerSumDebit
  <2>2. SumFunction(poolL1WwartClaim') \in Nat
    <3>1. poolL1WwartClaim' \in [Owners -> Nat]
      BY <1>3, <1>5, <1>12, ClaimTypes, DebitedType
    <3>. QED  BY <3>1, OwnerSum
  <2>3. \A c, s, t, u \in Nat :
          c <= s /\ t + u = s /\ u <= a /\ a <= c => c - a <= t
    OBVIOUS
  <2>4. claimed18 - a <= SumFunction(poolL1WwartClaim')
    BY <1>2, <1>8, <2>1, <2>2, <2>3, ClaimTypes
  <2>. QED  BY <1>2, <2>4 DEF GlobalWithinClaims
<1>14. \A v \in Owners : poolL1WwartClaim'[v] <= poolL1WwartClaim[v]
  BY <1>3, <1>5, ClaimTypes
<1>. QED  BY <1>10, <1>11, <1>13, <1>14 DEF ClaimsAgree

(* Closing a of an owner's claim, fromOpen of it from the open part.       *)
LEMMA CloseClaims ==
  ASSUME PoolInv, NEW o \in Owners, NEW a \in Nat, NEW fromOpen \in Nat,
         a <= poolL1WwartClaim[o], fromOpen <= poolWwartPortable[o],
         fromOpen = a \/ fromOpen = poolWwartPortable[o],
         claimed18' = Monus(claimed18, a),
         poolL1WwartClaim' = [poolL1WwartClaim EXCEPT ![o] = @ - a],
         claim18' = [claim18 EXCEPT ![o] = @ - a],
         poolWwartPortable' = [poolWwartPortable EXCEPT ![o] = @ - fromOpen],
         portable18' = [portable18 EXCEPT ![o] = @ - fromOpen]
  PROVE  ClaimsAgree'
<1>1. MirrorsAgree' /\ OpenWithinClaim'
  BY ClaimTypes DEF MirrorsAgree, OpenWithinClaim
<1>2. poolL1WwartClaim[o] \in Nat /\ poolL1WwartClaim[o] - a \in Nat
  BY ClaimTypes
<1>3. SumFunction(poolL1WwartClaim') + poolL1WwartClaim[o] =
        SumFunction(poolL1WwartClaim) + (poolL1WwartClaim[o] - a)
  BY <1>2, ClaimTypes, OwnerSumUpdate
<1>4. SumFunction(poolL1WwartClaim') \in Nat
  <2>1. poolL1WwartClaim' \in [Owners -> Nat]
    BY <1>2, ClaimTypes
  <2>. QED  BY <2>1, OwnerSum
<1>5. \A c, s, t, r \in Nat :
        c <= s /\ a <= r /\ t + r = s + (r - a) => Monus(c, a) <= t
  BY DEF Monus
<1>6. Monus(claimed18, a) <= SumFunction(poolL1WwartClaim')
  BY <1>2, <1>3, <1>4, <1>5, ClaimTypes
<1>. QED  BY <1>1, <1>6 DEF ClaimsAgree, GlobalWithinClaims

(* An owner's burn closes as much in every copy.                           *)
LEMMA OwnerBurnClaims ==
  ASSUME PoolInv, NEW o \in Owners, NEW a \in Nat, NEW auto \in BOOLEAN,
         OwnerBurn(o, a, auto)
  PROVE  ClaimsAgree'
<1>. DEFINE fromOpen == Least(poolWwartPortable[o], a)
<1>1. /\ a <= Burnable(o)
      /\ poolL1WwartClaim' = [poolL1WwartClaim EXCEPT ![o] = @ - a]
      /\ poolWwartPortable' = [poolWwartPortable EXCEPT ![o] = @ - fromOpen]
      /\ claimed18' = Monus(claimed18, a)
      /\ claim18' = [claim18 EXCEPT ![o] = Monus(@, a)]
      /\ portable18' =
           [portable18 EXCEPT ![o] = Least(@, poolWwartPortable[o] - fromOpen)]
  BY DEF OwnerBurn
<1>2. /\ poolL1WwartClaim[o] \in Nat /\ poolWwartPortable[o] \in Nat
      /\ Portal(o) \in Nat
      /\ claim18 = poolL1WwartClaim /\ portable18 = poolWwartPortable
  BY ClaimTypes DEF PoolInv, TypeOK, VaultType, Portal, PortalWwart18Of
<1>3. a <= poolL1WwartClaim[o]
  BY <1>1, <1>2 DEF Burnable, Least
<1>4. /\ fromOpen \in Nat /\ fromOpen <= poolWwartPortable[o]
      /\ fromOpen = a \/ fromOpen = poolWwartPortable[o]
  BY <1>2 DEF Least
<1>. HIDE DEF fromOpen
<1>5. /\ Monus(claim18[o], a) = claim18[o] - a
      /\ Least(portable18[o], poolWwartPortable[o] - fromOpen) =
           portable18[o] - fromOpen
  BY <1>2, <1>3, <1>4 DEF Monus, Least
<1>6. /\ claim18' = [claim18 EXCEPT ![o] = @ - a]
      /\ portable18' = [portable18 EXCEPT ![o] = @ - fromOpen]
  BY <1>1, <1>5
<1>. QED  BY <1>1, <1>3, <1>4, <1>6, CloseClaims

(* So does redeeming an open claim.                                        *)
LEMMA RedeemOpenClaims ==
  ASSUME PoolInv, NEW o \in Owners, NEW a \in Nat, RedeemOpenClaim(o, a)
  PROVE  ClaimsAgree'
<1>1. PutBack(Covered(ClaimedToE8(a)), a) = 0
  BY RedeemOpenRetires
<1>2. /\ a <= poolL1WwartClaim[o] /\ a <= poolWwartPortable[o]
      /\ poolL1WwartClaim' = [poolL1WwartClaim EXCEPT ![o] = (@ - a) + 0]
      /\ poolWwartPortable' = [poolWwartPortable EXCEPT ![o] = (@ - a) + 0]
      /\ claimed18' = Monus(claimed18, a) + 0
      /\ claim18' = [claim18 EXCEPT ![o] = Monus(@, a) + 0]
      /\ portable18' = [portable18 EXCEPT ![o] = Monus(@, a) + 0]
  BY <1>1, ClaimTypes DEF RedeemOpenClaim, HasOpenClaim
<1>3. /\ claim18[o] \in Nat /\ portable18[o] \in Nat /\ claimed18 \in Nat
      /\ claim18 = poolL1WwartClaim /\ portable18 = poolWwartPortable
  BY ClaimTypes
<1>4. /\ Monus(claim18[o], a) + 0 = claim18[o] - a
      /\ Monus(portable18[o], a) + 0 = portable18[o] - a
      /\ (claim18[o] - a) + 0 = claim18[o] - a
      /\ (portable18[o] - a) + 0 = portable18[o] - a
      /\ Monus(claimed18, a) + 0 = Monus(claimed18, a)
  BY <1>2, <1>3 DEF Monus
<1>5. /\ poolL1WwartClaim' = [poolL1WwartClaim EXCEPT ![o] = @ - a]
      /\ poolWwartPortable' = [poolWwartPortable EXCEPT ![o] = @ - a]
      /\ claimed18' = Monus(claimed18, a)
      /\ claim18' = [claim18 EXCEPT ![o] = @ - a]
      /\ portable18' = [portable18 EXCEPT ![o] = @ - a]
  BY <1>2, <1>3, <1>4
<1>. QED  BY <1>2, <1>5, CloseClaims

-----------------------------------------------------------------------------
(* The attribution of the collateral, and the owners in the Map.           *)

(* A handler that enters o in the Map knows o and all known before.        *)
LEMMA KnownOwners ==
  ASSUME PoolInv, NEW o \in Owners
  PROVE  /\ WithUser(users, o) \in Seq(Owners)
         /\ Range(users) \cup {o} \subseteq Range(WithUser(users, o))
         /\ \A v \in Owners : v \notin Range(users) => poolL1WwartClaim[v] = 0
BY WithUserProperties DEF PoolInv, TypeOK, UserType, BalancesAreKnown

(* A deposit is credited to its owner, who is in the Map.                  *)
LEMMA DepositAttributed ==
  ASSUME PoolInv, NEW o \in Owners, NEW e8 \in AmountsE8, PoolDeposit(o, e8)
  PROVE  Attributed'
<1>1. /\ lockedE8' = lockedE8 + e8
      /\ depositedE8' = [depositedE8 EXCEPT ![o] = @ + e8]
      /\ users' = WithUser(users, o)
      /\ UNCHANGED <<redeemedE8, userRedeemedE8, poolL1WwartClaim>>
  BY DEF PoolDeposit
<1>2. /\ lockedE8 \in Nat /\ e8 \in Nat
      /\ depositedE8 \in [Owners -> Nat]
      /\ SumFunction(depositedE8) = lockedE8
      /\ SumFunction(userRedeemedE8) = redeemedE8
  BY AmountsE8Assumption
     DEF PoolInv, TypeOK, PoolType, UserType, CollateralAttributed
<1>3. depositedE8[o] \in Nat /\ depositedE8[o] + e8 \in Nat
  BY <1>2
<1>4. SumFunction(depositedE8') + depositedE8[o] =
        lockedE8 + (depositedE8[o] + e8)
  BY <1>1, <1>2, <1>3, OwnerSumUpdate
<1>5. SumFunction(depositedE8') \in Nat
  <2>1. depositedE8' \in [Owners -> Nat]
    BY <1>1, <1>2, <1>3
  <2>. QED  BY <2>1, OwnerSum
<1>6. \A x, r, m \in Nat : x + r = m + (r + e8) => x = m + e8
  BY <1>2
<1>7. CollateralAttributed'
  BY <1>1, <1>2, <1>3, <1>4, <1>5, <1>6 DEF CollateralAttributed
<1>8. BalancesAreKnown'
  BY <1>1, <1>2, KnownOwners DEF PoolInv, BalancesAreKnown
<1>. QED  BY <1>7, <1>8 DEF Attributed

(* A handler that enters o in the Map and leaves the collateral alone.     *)
LEMMA ClaimsOnlyAttributed ==
  ASSUME PoolInv, NEW o \in Owners,
         users' = WithUser(users, o),
         UNCHANGED <<lockedE8, redeemedE8, depositedE8, userRedeemedE8>>,
         \A v \in Owners : v # o => poolL1WwartClaim'[v] <= poolL1WwartClaim[v],
         poolL1WwartClaim' \in [Owners -> Nat]
  PROVE  Attributed'
<1>1. CollateralAttributed'
  BY DEF PoolInv, CollateralAttributed
<1>2. ASSUME NEW v \in Owners, v \notin Range(users')
      PROVE  depositedE8'[v] = 0 /\ poolL1WwartClaim'[v] = 0 /\ userRedeemedE8'[v] = 0
  <2>1. v \notin Range(users) /\ v # o
    BY <1>2, KnownOwners
  <2>2. depositedE8[v] = 0 /\ poolL1WwartClaim[v] = 0 /\ userRedeemedE8[v] = 0
    BY <2>1 DEF PoolInv, BalancesAreKnown
  <2>3. poolL1WwartClaim'[v] <= 0 /\ poolL1WwartClaim'[v] \in Nat
    BY <2>1, <2>2
  <2>. QED  BY <2>2, <2>3
<1>3. BalancesAreKnown'
  BY <1>2 DEF BalancesAreKnown
<1>. QED  BY <1>1, <1>3 DEF Attributed

(* A handler that releases collateral the pool has.                        *)
LEMMA ReleaseAttributed ==
  ASSUME PoolInv, NEW o \in Owners, NEW order \in Seq(Owners),
         Range(users) \cup {o} \subseteq Range(order),
         users' = order,
         NEW e8 \in Nat, e8 <= lockedE8,
         Release(o, order, e8) \/ NoRelease,
         \A v \in Owners : v # o => poolL1WwartClaim'[v] <= poolL1WwartClaim[v],
         poolL1WwartClaim' \in [Owners -> Nat]
  PROVE  Attributed'
<1>1. /\ CollateralAttributed'
      /\ \A v \in Owners \ Range(users') :
           depositedE8'[v] = 0 /\ userRedeemedE8'[v] = 0
  BY ReleaseKeeps
<1>2. \A v \in Owners \ Range(users') : poolL1WwartClaim'[v] = 0
  <2>. TAKE v \in Owners \ Range(users')
  <2>1. v # o /\ poolL1WwartClaim[v] = 0
    BY KnownOwners
  <2>2. poolL1WwartClaim'[v] <= 0 /\ poolL1WwartClaim'[v] \in Nat
    BY <2>1
  <2>. QED  BY <2>2
<1>3. BalancesAreKnown'
  BY <1>1, <1>2 DEF BalancesAreKnown
<1>. QED  BY <1>1, <1>3 DEF Attributed

(* A check of UserFreeableE8 is a check of what the pool has.              *)
LEMMA FreeableWithinLocked ==
  ASSUME TypeOK, NEW o \in Owners, NEW claimed \in Nat
  PROVE  /\ UserFreeableE8(o, claimed) \in Nat
         /\ UserFreeableE8(o, claimed) <= lockedE8
<1>1. ClaimedToE8(claimed) \in Nat /\ lockedE8 \in Nat /\ depositedE8[o] \in Nat
  BY DivType, PegTypes DEF ClaimedToE8, TypeOK, UserType
<1>2. PoolFreeableE8(claimed) \in Nat /\ PoolFreeableE8(claimed) <= lockedE8
  BY <1>1 DEF PoolFreeableE8, Monus
<1>. HIDE DEF PoolFreeableE8
<1>. QED  BY <1>1, <1>2 DEF UserFreeableE8, Least

(* What is claimed in the pool, rounded down, is there to release.         *)
LEMMA ClaimWithinLocked ==
  ASSUME TypeOK, PegSolvent, NEW a \in Nat, a <= claimed18
  PROVE  ClaimedToE8(a) \in Nat /\ ClaimedToE8(a) <= lockedE8
<1>1. ClaimedToE8(a) \in Nat
  BY DivType DEF ClaimedToE8
<1>2. ClaimedToE8(a) <= ClaimedToE8(claimed18)
  BY PegTypes, DivMonotonic DEF ClaimedToE8
<1>. QED  BY <1>1, <1>2, PegTypes DEF PegSolvent

(* A holder's burn keeps the collateral attributed.                        *)
LEMMA HolderBurnAttributed ==
  ASSUME PoolInv, NEW o \in Owners, NEW a \in Nat, NEW auto \in BOOLEAN,
         HolderBurn(o, a, auto), TypeOK'
  PROVE  Attributed'
<1>1. PICK order \in UsersAfterWalk(WithUser(users, o), vaults \cup {o},
                                    FilledClaimsOf, a) :
        /\ users' = order
        /\ Release(o, order, ClaimedToE8(a)) \/ NoRelease
  BY DEF HolderBurn
<1>2. /\ order \in Seq(Owners)
      /\ Range(WithUser(users, o)) \subseteq Range(order)
  <2>1. WithUser(users, o) \in Seq(Owners) /\ vaults \cup {o} \in SUBSET Owners
    BY KnownOwners DEF PoolInv, TypeOK, VaultType
  <2>. QED  BY <1>1, <2>1, UsersAfterWalkProperties
<1>3. Range(users) \cup {o} \subseteq Range(order)
  BY <1>2, KnownOwners
<1>4. ClaimedToE8(a) \in Nat /\ ClaimedToE8(a) <= lockedE8
  BY ClaimWithinLocked DEF PoolInv, HolderBurn, IsHolderBurn
<1>5. /\ \A v \in Owners : poolL1WwartClaim'[v] <= poolL1WwartClaim[v]
      /\ poolL1WwartClaim' \in [Owners -> Nat]
  BY HolderBurnClaims DEF TypeOK, VaultType
<1>. QED  BY <1>1, <1>2, <1>3, <1>4, <1>5, ReleaseAttributed

(* So does an owner's burn,                                                *)
LEMMA OwnerBurnAttributed ==
  ASSUME PoolInv, NEW o \in Owners, NEW a \in Nat, NEW auto \in BOOLEAN,
         OwnerBurn(o, a, auto), TypeOK'
  PROVE  Attributed'
<1>. DEFINE claimed  == Monus(claimed18, a)
            unlockE8 == Least(ClaimedToE8(a), UserFreeableE8(o, claimed))
            order    == WithUser(users, o)
<1>1. /\ users' = order
      /\ Release(o, order, unlockE8) \/ NoRelease
      /\ poolL1WwartClaim' = [poolL1WwartClaim EXCEPT ![o] = @ - a]
  BY DEF OwnerBurn
<1>2. claimed \in Nat /\ ClaimedToE8(a) \in Nat
  BY ClaimTypes, DivType DEF Monus, ClaimedToE8
<1>. HIDE DEF claimed
<1>3. UserFreeableE8(o, claimed) \in Nat /\ UserFreeableE8(o, claimed) <= lockedE8
  BY <1>2, FreeableWithinLocked DEF PoolInv
<1>4. lockedE8 \in Nat
  BY PegTypes DEF PoolInv
<1>5. unlockE8 \in Nat /\ unlockE8 <= lockedE8
  BY <1>2, <1>3, <1>4 DEF Least
<1>. HIDE DEF unlockE8
<1>6. /\ \A v \in Owners : v # o => poolL1WwartClaim'[v] <= poolL1WwartClaim[v]
      /\ poolL1WwartClaim' \in [Owners -> Nat]
  BY <1>1, ClaimTypes DEF TypeOK, VaultType
<1>7. order \in Seq(Owners) /\ Range(users) \cup {o} \subseteq Range(order)
  BY KnownOwners
<1>. HIDE DEF order
<1>. QED  BY <1>1, <1>5, <1>6, <1>7, ReleaseAttributed

(* and so do pool_unlock and pool_redeem.                                  *)
LEMMA RedeemAttributed ==
  ASSUME PoolInv, NEW o \in Owners, NEW a \in Nat,
         \/ PoolUnlock(o, a) \/ RedeemFreeDeposit(o, a)
         \/ RedeemOpenClaim(o, a),
         TypeOK'
  PROVE  Attributed'
<1>1. /\ users' = WithUser(users, o)
      /\ Release(o, WithUser(users, o), ClaimedToE8(a))
      /\ \/ ClaimedToE8(a) <= UserFreeableE8(o, claimed18)
         \/ ClaimedToE8(a) <= lockedE8
  BY DEF PoolUnlock, RedeemFreeDeposit, RedeemOpenClaim
<1>2. ClaimedToE8(a) \in Nat
  BY DivType DEF ClaimedToE8
<1>3. ClaimedToE8(a) <= lockedE8
  <2>1. /\ UserFreeableE8(o, claimed18) \in Nat /\ lockedE8 \in Nat
        /\ UserFreeableE8(o, claimed18) <= lockedE8
    BY FreeableWithinLocked, PegTypes DEF PoolInv
  <2>. QED  BY <1>1, <1>2, <2>1
<1>4. \A v \in Owners : v # o => poolL1WwartClaim'[v] <= poolL1WwartClaim[v]
  <2>1. \/ poolL1WwartClaim' = poolL1WwartClaim
        \/ \E n : poolL1WwartClaim' = [poolL1WwartClaim EXCEPT ![o] = n]
    BY DEF PoolUnlock, RedeemFreeDeposit, RedeemOpenClaim, vaultVars
  <2>. QED  BY <2>1, ClaimTypes
<1>5. poolL1WwartClaim' \in [Owners -> Nat]
  BY DEF TypeOK, VaultType
<1>. QED  BY <1>1, <1>2, <1>3, <1>4, <1>5, KnownOwners, ReleaseAttributed

-----------------------------------------------------------------------------
(* The invariant and the abstract specification, a step at a time.         *)

PegStep == [Peg!Next]_(Peg!vars) /\ PegSolvent'

(* Giving up claims or collateral is PegLedger's Retire.                   *)
LEMMA RetiresIsPegStep ==
  ASSUME PoolInv, TypeOK', Retires
  PROVE  PegStep
<1>1. Peg!Retire
  BY PegTypes DEF PoolInv, TypeOK, PoolType, Retires, Peg!Retire, ClaimedToE8
<1>2. PegSolvent'
  BY DEF Retires, PegSolvent, ClaimedToE8
<1>. QED  BY <1>1, <1>2 DEF PegStep, Peg!Next

(* Leaving the ledger's variables alone is a stuttering step of it.        *)
LEMMA UnchangedIsPegStep ==
  ASSUME PoolInv, UNCHANGED <<lockedE8, claimed18, redeemedE8>>
  PROVE  PegStep
BY DEF PoolInv, PegSolvent, PegStep, Peg!vars, ClaimedToE8

(* A deposit is PegLedger's Deposit.                                       *)
LEMMA DepositIsPegStep ==
  ASSUME PoolInv, TypeOK', NEW o \in Owners, NEW e8 \in AmountsE8,
         PoolDeposit(o, e8)
  PROVE  PegStep
<1>1. /\ lockedE8 \in Nat /\ lockedE8' \in Nat /\ e8 \in Nat \ {0}
      /\ lockedE8' = lockedE8 + e8
      /\ claimed18' = claimed18 /\ redeemedE8' = redeemedE8
  BY AmountsE8Assumption DEF PoolInv, TypeOK, PoolType, PoolDeposit
<1>2. Peg!Deposit
  BY <1>1 DEF Peg!Deposit
<1>3. PegSolvent'
  <2>1. ClaimedToE8(claimed18) \in Nat /\ ClaimedToE8(claimed18) <= lockedE8
    BY PegTypes DEF PoolInv, PegSolvent
  <2>2. ClaimedToE8(claimed18') = ClaimedToE8(claimed18)
    BY <1>1
  <2>. QED  BY <1>1, <2>1, <2>2 DEF PegSolvent
<1>. QED  BY <1>2, <1>3 DEF PegStep, Peg!Next

(* A mint is PegLedger's Mint: it stays within the capacity.               *)
LEMMA MintIsPegStep ==
  ASSUME PoolInv, TypeOK', NEW o \in Owners, NEW a \in Nat, PoolMintWwart(o, a)
  PROVE  PegStep
<1>. DEFINE cap == PoolCapacity18
            m   == Least(a, PoolAvailable18)
<1>1. /\ lockedE8 \in Nat /\ claimed18 \in Nat /\ cap \in Nat
      /\ cap = lockedE8 * U
  BY UnitAssumption DEF PoolInv, TypeOK, PoolType, PoolCapacity18
<1>2. /\ PoolAvailable18 > 0
      /\ claimed18' = claimed18 + m
      /\ lockedE8' = lockedE8 /\ redeemedE8' = redeemedE8
  BY DEF PoolMintWwart
<1>3. PoolAvailable18 = Monus(cap, claimed18)
  BY DEF PoolAvailable18
<1>. HIDE DEF cap
<1>4. PoolAvailable18 = cap - claimed18 /\ claimed18 <= cap
  BY <1>1, <1>2, <1>3 DEF Monus
<1>5. m \in Nat /\ m <= cap - claimed18
  BY <1>1, <1>4 DEF Least
<1>. HIDE DEF m
<1>6. /\ claimed18' \in Nat /\ claimed18' <= lockedE8 * U
  <2>1. claimed18' <= cap
    BY <1>1, <1>2, <1>4, <1>5
  <2>. QED  BY <1>1, <1>2, <1>5, <2>1
<1>7. PegSolvent'
  <2>1. ClaimedToE8(claimed18') <= lockedE8
    BY <1>1, <1>6, DivOfCapacity DEF ClaimedToE8
  <2>. QED  BY <1>2, <2>1 DEF PegSolvent
<1>8. CASE m = 0
  BY <1>1, <1>2, <1>8, UnchangedIsPegStep
<1>9. CASE m # 0
  <2>1. claimed18' > claimed18
    BY <1>1, <1>2, <1>5, <1>9
  <2>2. Peg!Mint
    BY <1>2, <1>6, <2>1 DEF Peg!Mint
  <2>. QED  BY <1>7, <2>2 DEF PegStep, Peg!Next
<1>. QED  BY <1>8, <1>9

(* The invariant holds initially.                                          *)
LEMMA InvInit == Init => PoolInv /\ Peg!Init
<1>. SUFFICES ASSUME Init PROVE PoolInv /\ Peg!Init
  OBVIOUS
<1>1. TypeOK
  BY InitType
<1>2. /\ NoE8 \in [Owners -> Nat] /\ \A v \in Owners : NoE8[v] = 0
  BY DEF NoE8
<1>3. SumFunction(NoE8) = 0
  <2>1. SumFunctionOnSet(NoE8, Owners) = 0
    BY <1>2, OwnersAssumption, SumOfZero
  <2>. QED  BY <1>2, <2>1, OwnerSum
<1>4. ClaimedToE8(0) = 0
  BY UnitAssumption DEF ClaimedToE8
<1>. HIDE DEF NoE8
<1>. QED  BY <1>1, <1>2, <1>3, <1>4
          DEF Init, PoolInv, PegSolvent, CollateralAttributed, BalancesAreKnown,
              MirrorsAgree, OpenWithinClaim, GlobalWithinClaims, Peg!Init

(* Every step keeps the invariant and is one PegLedger allows.             *)
LEMMA InvNext ==
  ASSUME PoolInv, [Next]_vars
  PROVE  PoolInv' /\ PegStep
<1>. USE DEF PoolInv
<1>1. TypeOK'
  BY NextType
<1>. SUFFICES PegStep /\ Attributed' /\ ClaimsAgree'
  BY <1>1 DEF PegStep, Attributed, ClaimsAgree
<1>2. poolL1WwartClaim' \in [Owners -> Nat]
  BY <1>1 DEF TypeOK, VaultType
<1>3. CASE BalancesUnchanged
  <2>1. PegStep
    BY <1>3, UnchangedIsPegStep DEF BalancesUnchanged
  <2>2. Attributed' /\ ClaimsAgree'
    BY <1>3 DEF BalancesUnchanged, Attributed, ClaimsAgree, MirrorsAgree,
                CollateralAttributed, BalancesAreKnown, OpenWithinClaim,
                GlobalWithinClaims
  <2>. QED  BY <2>1, <2>2
<1>4. ASSUME NEW o \in Owners, NEW e8 \in AmountsE8, PoolDeposit(o, e8)
      PROVE  PegStep /\ Attributed' /\ ClaimsAgree'
  <2>1. ClaimsAgree'
    BY <1>4 DEF PoolDeposit, ClaimsAgree, MirrorsAgree, OpenWithinClaim,
                GlobalWithinClaims
  <2>. QED  BY <1>1, <1>4, <2>1, DepositIsPegStep, DepositAttributed
<1>5. ASSUME NEW o \in Owners, NEW a \in Nat, PoolMintWwart(o, a)
      PROVE  PegStep /\ Attributed' /\ ClaimsAgree'
  <2>1. \A v \in Owners : v # o => poolL1WwartClaim'[v] <= poolL1WwartClaim[v]
    BY <1>5, ClaimTypes DEF PoolMintWwart
  <2>2. Attributed'
    BY <1>2, <1>5, <2>1, ClaimsOnlyAttributed DEF PoolMintWwart
  <2>. QED  BY <1>1, <1>5, <2>2, MintIsPegStep, MintClaims
<1>6. ASSUME NEW o \in Owners, NEW a \in Nat, NEW ok \in BOOLEAN,
             PoolWithdrawWwart(o, a, ok)
      PROVE  PegStep /\ Attributed' /\ ClaimsAgree'
  <2>1. \A v \in Owners : v # o => poolL1WwartClaim'[v] <= poolL1WwartClaim[v]
    BY <1>6, ClaimTypes DEF PoolWithdrawWwart
  <2>2. Attributed'
    BY <1>2, <1>6, <2>1, ClaimsOnlyAttributed DEF PoolWithdrawWwart, poolVars
  <2>3. PegStep
    BY <1>6, UnchangedIsPegStep DEF PoolWithdrawWwart, poolVars
  <2>. QED  BY <1>6, <2>2, <2>3, WithdrawClaims
<1>7. ASSUME NEW o \in Owners, NEW a \in Nat, NEW auto \in BOOLEAN,
             HolderBurn(o, a, auto)
      PROVE  PegStep /\ Attributed' /\ ClaimsAgree'
  BY <1>1, <1>7, HolderBurnRetires, RetiresIsPegStep, HolderBurnAttributed,
     HolderBurnClaims
<1>8. ASSUME NEW o \in Owners, NEW a \in Nat, NEW auto \in BOOLEAN,
             OwnerBurn(o, a, auto)
      PROVE  PegStep /\ Attributed' /\ ClaimsAgree'
  BY <1>1, <1>8, OwnerBurnRetires, RetiresIsPegStep, OwnerBurnAttributed,
     OwnerBurnClaims
<1>9. ASSUME NEW o \in Owners, NEW a \in Nat,
             PoolUnlock(o, a) \/ RedeemFreeDeposit(o, a)
      PROVE  PegStep /\ Attributed' /\ ClaimsAgree'
  <2>1. ClaimsAgree'
    BY <1>9 DEF PoolUnlock, RedeemFreeDeposit, vaultVars, ClaimsAgree,
                MirrorsAgree, OpenWithinClaim, GlobalWithinClaims
  <2>. QED  BY <1>1, <1>9, <2>1, FreeDepositRetires, RetiresIsPegStep,
               RedeemAttributed
<1>10. ASSUME NEW o \in Owners, NEW a \in Nat, RedeemOpenClaim(o, a)
       PROVE  PegStep /\ Attributed' /\ ClaimsAgree'
  BY <1>1, <1>10, RedeemOpenRetires, RetiresIsPegStep, RedeemAttributed,
     RedeemOpenClaims
<1>. QED  BY <1>3, <1>4, <1>5, <1>6, <1>7, <1>8, <1>9, <1>10, StepCases

(* What is claimed was minted on collateral the pool had, and the pool     *)
(* never had more than was deposited.                                      *)
ClaimsOnDeposits ==
  /\ lockedE8 + redeemedE8 <= MaxDepositE8
  /\ claimed18 <= U * (lockedE8 + redeemedE8)

(* Only a deposit raises what the pool ever had.                           *)
LEMMA PegKeepsDeposits ==
  ASSUME PoolInv, PoolInv', PegStep, lockedE8' <= lockedE8, ClaimsOnDeposits
  PROVE  ClaimsOnDeposits'
<1>. DEFINE had == lockedE8 + redeemedE8
<1>1. /\ lockedE8 \in Nat /\ claimed18 \in Nat /\ redeemedE8 \in Nat
      /\ lockedE8' \in Nat /\ redeemedE8' \in Nat
  BY PegTypes DEF PoolInv, TypeOK, PoolType
<1>2. /\ lockedE8' + redeemedE8' = had
      /\ claimed18' <= claimed18 \/ claimed18' <= lockedE8 * U
  <2>1. CASE Peg!Deposit
    BY <1>1, <2>1 DEF Peg!Deposit
  <2>2. CASE Peg!Mint
    BY <1>1, <2>2 DEF Peg!Mint
  <2>3. CASE Peg!Retire
    <3>1. claimed18' <= claimed18
      BY <2>3 DEF Peg!Retire
    <3>2. redeemedE8' = redeemedE8 + (lockedE8 - lockedE8')
      BY <2>3 DEF Peg!Retire
    <3>. DEFINE left == lockedE8'
                paid == redeemedE8'
    <3>3. left \in Nat /\ paid = redeemedE8 + (lockedE8 - left)
      BY <1>1, <3>2
    <3>. HIDE DEF left, paid
    <3>4. left + paid = had
      BY <1>1, <3>3
    <3>. QED  BY <3>1, <3>4 DEF left, paid
  <2>4. CASE UNCHANGED Peg!vars
    BY <1>1, <2>4 DEF Peg!vars
  <2>. QED  BY <2>1, <2>2, <2>3, <2>4 DEF PegStep, Peg!Next
<1>3. lockedE8 * U <= U * had
  BY <1>1, UnitAssumption
<1>. DEFINE cap == U * had
            now == lockedE8 * U
<1>4. /\ claimed18' \in Nat /\ cap \in Nat /\ now \in Nat
      /\ claimed18 <= cap /\ had <= MaxDepositE8
  BY <1>1, UnitAssumption DEF PoolInv, TypeOK, PoolType, ClaimsOnDeposits
<1>. HIDE DEF cap, now
<1>5. claimed18' <= cap
  BY <1>1, <1>2, <1>3, <1>4 DEF cap, now
<1>. QED  BY <1>2, <1>4, <1>5 DEF cap, ClaimsOnDeposits

(* Every step keeps it.                                                    *)
LEMMA DepositsNext ==
  ASSUME PoolInv, ClaimsOnDeposits, [Next]_vars
  PROVE  ClaimsOnDeposits'
<1>1. PoolInv' /\ PegStep /\ TypeOK /\ TypeOK'
  BY InvNext DEF PoolInv
<1>2. PegSolvent
  BY DEF PoolInv
<1>3. lockedE8 \in Nat /\ lockedE8' \in Nat
  BY <1>1 DEF TypeOK, PoolType
<1>4. ASSUME NEW o \in Owners, NEW e8 \in AmountsE8, PoolDeposit(o, e8)
      PROVE  ClaimsOnDeposits'
  <2>. DEFINE had == lockedE8 + redeemedE8
  <2>1. /\ had \in Nat /\ e8 \in Nat /\ claimed18 \in Nat
        /\ had + e8 <= MaxDepositE8 /\ claimed18 <= U * had
        /\ lockedE8' + redeemedE8' = had + e8 /\ claimed18' = claimed18
    BY <1>1, <1>4, AmountsE8Assumption
       DEF TypeOK, PoolType, PoolDeposit, ClaimsOnDeposits
  <2>. HIDE DEF had
  <2>2. U * (had + e8) = U * had + U * e8 /\ U * e8 \in Nat /\ U * had \in Nat
    BY <2>1, UnitAssumption
  <2>3. claimed18' <= U * (had + e8)
    BY <2>1, <2>2
  <2>. QED  BY <2>1, <2>3 DEF ClaimsOnDeposits
<1>5. ASSUME Retires PROVE ClaimsOnDeposits'
  BY <1>1, <1>5, PegKeepsDeposits DEF Retires
<1>6. ASSUME UNCHANGED <<lockedE8, claimed18, redeemedE8>>
      PROVE  ClaimsOnDeposits'
  BY <1>6 DEF ClaimsOnDeposits
<1>7. ASSUME NEW o \in Owners, NEW a \in Nat, PoolMintWwart(o, a)
      PROVE  ClaimsOnDeposits'
  BY <1>1, <1>3, <1>7, PegKeepsDeposits DEF PoolMintWwart
<1>8. ASSUME NEW o \in Owners, NEW a \in Nat,
             \/ \E ok \in BOOLEAN : PoolWithdrawWwart(o, a, ok)
             \/ \E auto \in BOOLEAN : HolderBurn(o, a, auto)
             \/ \E auto \in BOOLEAN : OwnerBurn(o, a, auto)
             \/ PoolUnlock(o, a) \/ RedeemFreeDeposit(o, a)
             \/ RedeemOpenClaim(o, a)
      PROVE  ClaimsOnDeposits'
  <2>1. ASSUME NEW ok \in BOOLEAN, PoolWithdrawWwart(o, a, ok)
        PROVE  ClaimsOnDeposits'
    BY <1>6, <2>1 DEF PoolWithdrawWwart, poolVars
  <2>. QED  BY <1>1, <1>2, <1>5, <1>8, <2>1, HolderBurnRetires, OwnerBurnRetires,
               FreeDepositRetires, RedeemOpenRetires
<1>. QED  BY <1>1, <1>4, <1>6, <1>7, <1>8, StepCases DEF BalancesUnchanged

-----------------------------------------------------------------------------
(* Theorems.                                                               *)

(* The inductive invariant, from which the theorems below follow.          *)
THEOREM InvHolds == Spec => []PoolInv
<1>1. PoolInv /\ [Next]_vars => PoolInv'
  BY InvNext
<1>2. Init => PoolInv
  BY InvInit
<1>. QED  BY <1>1, <1>2, PTL DEF Spec

(* Whatever mix of burns, unlocks and redeems releases collateral, every   *)
(* whole E8 of open claims keeps an E8 of collateral.                      *)
THEOREM Solvency == Spec => []PegSolvent
<1>1. PoolInv => PegSolvent
  BY DEF PoolInv
<1>. QED  BY <1>1, InvHolds, PTL

(* The collateral is what the depositors are credited with, and what was   *)
(* paid is what the users' records say, so that no ticket handlers have    *)
(* checked fails half-way.                                                 *)
THEOREM CollateralIsAttributed == Spec => []Attributed
<1>1. PoolInv => Attributed
  BY DEF PoolInv, Attributed
<1>. QED  BY <1>1, InvHolds, PTL

(* The copies of an owner's claims stay equal under their different        *)
(* debits, the open part stays within the claim, and the global claim      *)
(* within the owners' claims.                                              *)
THEOREM ClaimCopies == Spec => []ClaimsAgree
<1>1. PoolInv => ClaimsAgree
  BY DEF PoolInv, ClaimsAgree
<1>. QED  BY <1>1, InvHolds, PTL

(* The pool implements PegLedger: collateral leaves only as a payout,      *)
(* claims open only against capacity, and payouts leave open claims        *)
(* covered.                                                                *)
THEOREM PegRefinement == Spec => KeepsPeg
<1>1. PoolInv /\ [Next]_vars => [Peg!Next]_(Peg!vars)
  BY InvNext DEF PegStep
<1>2. Init => Peg!Init
  BY InvInit
<1>. QED  BY <1>1, <1>2, InvHolds, PTL DEF Spec, KeepsPeg, Peg!Spec

(* A holder's burn with autoUnlock is paid in full in the step that takes  *)
(* the tokens: the error it would swallow cannot happen.                   *)
LEMMA HolderBurnPays ==
  ASSUME PoolInv, NEW o \in Owners, NEW a \in Nat, HolderBurn(o, a, TRUE)
  PROVE  lockedE8' + ClaimedToE8(a) = lockedE8
<1>1. ClaimedToE8(a) \in Nat /\ ClaimedToE8(a) <= lockedE8 /\ lockedE8 \in Nat
  BY ClaimWithinLocked, PegTypes DEF PoolInv, HolderBurn, IsHolderBurn
<1>2. PICK order \in UsersAfterWalk(WithUser(users, o), vaults \cup {o},
                                    FilledClaimsOf, a) :
        IF ClaimedToE8(a) > 0 THEN Release(o, order, ClaimedToE8(a)) ELSE NoRelease
  BY DEF HolderBurn
<1>3. CASE ClaimedToE8(a) = 0
  BY <1>1, <1>2, <1>3 DEF NoRelease
<1>4. CASE ClaimedToE8(a) > 0
  <2>1. order \in Seq(Owners) /\ Range(users) \subseteq Range(order)
    <3>1. /\ order \in Seq(Owners)
          /\ Range(WithUser(users, o)) \subseteq Range(order)
      BY KnownOwners, UsersAfterWalkProperties DEF PoolInv, TypeOK, VaultType
    <3>. QED  BY <3>1, KnownOwners
  <2>2. Release(o, order, ClaimedToE8(a))
    BY <1>2, <1>4
  <2>3. lockedE8' = lockedE8 - ClaimedToE8(a)
    BY <1>1, <2>1, <2>2, ReleaseExact
  <2>. QED  BY <1>1, <2>3
<1>. QED  BY <1>1, <1>3, <1>4

(* Every holder's burn with autoUnlock releases the whole of the burn.     *)
THEOREM HolderBurnIsPaid == Spec => HolderBurnPaid
<1>1. PoolInv => \A o \in Owners, amount \in Amounts18 :
                   HolderBurn(o, amount, TRUE) =>
                     lockedE8' + ClaimedToE8(amount) = lockedE8
  BY HolderBurnPays, Amounts18Assumption
<1>. QED  BY <1>1, InvHolds, PTL DEF HolderBurnPaid

(* A handler that ends in reject has put back all it debited.              *)
LEMMA RejectKeeps ==
  ASSUME PoolInv, [Next]_vars, status' = "reject"
  PROVE  UNCHANGED <<poolVars, depositedE8, claim18, portable18, userRedeemedE8,
                     poolL1WwartClaim, poolWwartPortable, poolPortalWwart>>
<1>. DEFINE Kept ==
       UNCHANGED <<poolVars, depositedE8, claim18, portable18, userRedeemedE8,
                   poolL1WwartClaim, poolWwartPortable, poolPortalWwart>>
<1>1. ASSUME NEW newUsers, NEW newVaults, RejectWith(newUsers, newVaults)
      PROVE  Kept
  BY <1>1 DEF RejectWith
<1>2. ASSUME NEW o \in Owners, NEW a \in Amounts18,
             \/ PoolWithdrawRejected(o, a) \/ BurnRejected(o, a)
             \/ PoolUnlockRejected(o, a) \/ RedeemRejected(o, a)
      PROVE  Kept
  <2>. HIDE DEF Kept
  <2>. QED  BY <1>1, <1>2
            DEF PoolWithdrawRejected, BurnRejected, PoolUnlockRejected,
                RedeemRejected
<1>3. ASSUME NEW o \in Owners, NEW a \in Amounts18, NEW ok \in BOOLEAN,
             PoolWithdrawWwart(o, a, ok)
      PROVE  Kept
  <2>1. ~ok
    BY <1>3 DEF PoolWithdrawWwart
  <2>2. UNCHANGED <<portable18, poolWwartPortable>>
    BY <1>3, <2>1, WithdrawClaims, Amounts18Assumption
  <2>. QED  BY <1>3, <2>2 DEF PoolWithdrawWwart
<1>4. ASSUME NEW o \in Owners, NEW a \in Amounts18,
             \/ PoolUnlock(o, a) \/ RedeemFreeDeposit(o, a)
             \/ RedeemOpenClaim(o, a)
      PROVE  FALSE
  <2>1. a \in Nat /\ ClaimedToE8(a) \in Nat
    BY Amounts18Assumption, DivType DEF ClaimedToE8
  <2>2. /\ UserFreeableE8(o, claimed18) \in Nat /\ lockedE8 \in Nat
        /\ UserFreeableE8(o, claimed18) <= lockedE8
    BY FreeableWithinLocked, PegTypes DEF PoolInv
  <2>3. \/ ClaimedToE8(a) <= UserFreeableE8(o, claimed18)
        \/ ClaimedToE8(a) <= lockedE8
    BY <1>4 DEF PoolUnlock, RedeemFreeDeposit, RedeemOpenClaim
  <2>4. ClaimedToE8(a) <= lockedE8
    BY <2>1, <2>2, <2>3
  <2>5. Covered(ClaimedToE8(a))
    BY <2>4 DEF Covered, PoolInv, CollateralAttributed
  <2>. QED  BY <1>4, <2>5 DEF PoolUnlock, RedeemFreeDeposit, RedeemOpenClaim
<1>5. ASSUME NEW o \in Owners, NEW a \in Amounts18,
             \/ PoolMintWwart(o, a)
             \/ \E hint \in Hints, personalFilled \in BOOLEAN :
                  PortalDepositWwart(o, a, hint, personalFilled)
             \/ \E auto \in BOOLEAN : HolderBurn(o, a, auto) \/ OwnerBurn(o, a, auto)
      PROVE  FALSE
  BY <1>5 DEF PoolMintWwart, PortalDepositWwart, HolderBurn, OwnerBurn, Accept
<1>6. ASSUME NEW o \in Owners,
             \/ \E e8 \in AmountsE8 : PoolDeposit(o, e8)
             \/ InspectPool(o)
      PROVE  FALSE
  BY <1>6 DEF PoolDeposit, InspectPool, Accept
<1>7. ASSUME \/ \E from, to \in Owners, a \in Amounts18 : L1Transfer(from, to, a)
             \/ \E o \in Owners, a \in Amounts18 : PathBRelease(o, a)
             \/ \E o \in Owners : OtherInput({}) \/ OtherInput({o})
             \/ UNCHANGED vars
      PROVE  Kept
  BY <1>7 DEF L1Transfer, PathBRelease, OtherInput, vars, userVars, vaultVars
<1>. HIDE DEF Kept
<1>8. ASSUME PoolMintRejected \/ \E a \in Amounts18 : TooSmallRejected(a)
      PROVE  Kept
  BY <1>1, <1>8 DEF PoolMintRejected, TooSmallRejected
<1>9. ASSUME NEW o \in Owners, NEW a \in Amounts18, Handler(o, a)
      PROVE  Kept
  BY <1>2, <1>3, <1>4, <1>5, <1>9 DEF Handler, PoolInput
<1>10. Kept
  BY <1>6, <1>7, <1>8, <1>9 DEF Next
<1>. QED  BY <1>10 DEF Kept

(* No rejected input of the pool's handlers leaves a balance changed.      *)
THEOREM RejectsKeepBalances == Spec => RejectKeepsBalances
<1>1. PoolInv /\ [Next]_vars /\ status' = "reject" =>
        UNCHANGED <<poolVars, depositedE8, claim18, portable18, userRedeemedE8,
                    poolL1WwartClaim, poolWwartPortable, poolPortalWwart>>
  BY RejectKeeps
<1>. QED  BY <1>1, InvHolds, PTL DEF Spec, RejectKeepsBalances

-----------------------------------------------------------------------------
(* The supply of tokens, and the shortfall of soft debits.                 *)

(* wWART that exists as tokens or can still be withdrawn.                  *)
Tokens   == TokenSupply + OpenClaims
ClaimSum == SumFunction(poolL1WwartClaim)

(* No more of it than is claimed, but for what came from elsewhere: this   *)
(* is inductive, and so is the bound on the shortfall with it.             *)
SupplyInv == Tokens <= claimed18 + ForeignSupply /\ ShortfallIsForeign

TokenInv == PoolInv /\ SupplyInv

(* Giving one owner n more gives all n more.                               *)
LEMMA OwnerSumRaised ==
  ASSUME NEW f \in [Owners -> Nat], NEW g \in [Owners -> Nat], NEW o \in Owners,
         NEW n \in Nat, g[o] = f[o] + n, \A v \in Owners : v # o => g[v] = f[v]
  PROVE  SumFunction(g) = SumFunction(f) + n
<1>1. \A v \in Owners \ {o} : g[v] = f[v]
  OBVIOUS
<1>2. SumFunctionOnSet(g, Owners) = SumFunctionOnSet(f, Owners) + n
  BY <1>1, OwnersAssumption, SumRaised
<1>. QED  BY <1>2, OwnerSum

(* The parts of the supply are natural numbers.                            *)
LEMMA TokenTypes ==
  ASSUME TypeOK
  PROVE  /\ SumFunction(l1Wwart) \in Nat /\ SumFunction(poolPortalWwart) \in Nat
         /\ OpenClaims \in Nat /\ ClaimSum \in Nat
         /\ pathB \in Nat /\ claimed18 \in Nat /\ ForeignSupply \in Nat
         /\ l1Wwart \in [Owners -> Nat] /\ poolPortalWwart \in [Owners -> Nat]
         /\ poolWwartPortable \in [Owners -> Nat]
         /\ poolL1WwartClaim \in [Owners -> Nat]
<1>1. /\ l1Wwart \in [Owners -> Nat] /\ poolPortalWwart \in [Owners -> Nat]
      /\ poolWwartPortable \in [Owners -> Nat]
      /\ poolL1WwartClaim \in [Owners -> Nat]
      /\ pathB \in Nat /\ claimed18 \in Nat
  BY DEF TypeOK, L1Type, VaultType, PoolType
<1>2. SumFunction(l1Wwart) \in Nat /\ SumFunction(poolPortalWwart) \in Nat
  BY <1>1, OwnerSum
<1>3. OpenClaims \in Nat /\ ClaimSum \in Nat
  BY <1>1, OwnerSum DEF OpenClaims, ClaimSum
<1>. QED  BY <1>1, <1>2, <1>3, ForeignAssumption

LEMMA TokenTypesAfter ==
  ASSUME TypeOK'
  PROVE  /\ SumFunction(l1Wwart') \in Nat /\ SumFunction(poolPortalWwart') \in Nat
         /\ OpenClaims' \in Nat /\ ClaimSum' \in Nat
         /\ pathB' \in Nat /\ claimed18' \in Nat
         /\ l1Wwart' \in [Owners -> Nat] /\ poolPortalWwart' \in [Owners -> Nat]
         /\ poolWwartPortable' \in [Owners -> Nat]
         /\ poolL1WwartClaim' \in [Owners -> Nat]
<1>1. /\ l1Wwart' \in [Owners -> Nat] /\ poolPortalWwart' \in [Owners -> Nat]
      /\ poolWwartPortable' \in [Owners -> Nat]
      /\ poolL1WwartClaim' \in [Owners -> Nat]
      /\ pathB' \in Nat /\ claimed18' \in Nat
  BY DEF TypeOK, L1Type, VaultType, PoolType
<1>2. SumFunction(l1Wwart') \in Nat /\ SumFunction(poolPortalWwart') \in Nat
  BY <1>1, OwnerSum
<1>3. OpenClaims' \in Nat /\ ClaimSum' \in Nat
  BY <1>1, OwnerSum DEF OpenClaims, ClaimSum
<1>. QED  BY <1>1, <1>2, <1>3

(* How a step may change tokens and claims.                                *)
TokensKept ==
  /\ Tokens' = Tokens
  /\ UNCHANGED <<claimed18, poolL1WwartClaim>>

TokensMinted(m) ==
  /\ Tokens' = Tokens + m /\ claimed18' = claimed18 + m
  /\ ClaimSum' = ClaimSum + m

(* a of an owner's claim is closed, and as many tokens are gone.           *)
TokensRetired(a) ==
  /\ Tokens' + a = Tokens /\ claimed18' = Monus(claimed18, a)
  /\ ClaimSum' + a = ClaimSum

(* a of anybody's claims is closed, as far as there are filled ones.       *)
TokensBurned(a) ==
  /\ Tokens' + a <= Tokens /\ claimed18' + a = claimed18
  /\ \/ ClaimSum' + a = ClaimSum
     \/ ClaimSum' = OpenClaims'

(* Each of them keeps the supply within bounds.                            *)
LEMMA SupplyKept ==
  ASSUME TypeOK, TypeOK', SupplyInv,
         \/ TokensKept
         \/ \E a \in Nat : TokensMinted(a) \/ TokensRetired(a) \/ TokensBurned(a)
  PROVE  SupplyInv'
<1>. DEFINE C == ClaimSum
            D == ClaimSum'
            T == Tokens
            S == Tokens'
            O == OpenClaims'
            G == claimed18
            H == claimed18'
            F == ForeignSupply
<1>1. /\ C \in Nat /\ D \in Nat /\ T \in Nat /\ S \in Nat /\ O \in Nat
      /\ G \in Nat /\ H \in Nat /\ F \in Nat /\ O <= S
  BY TokenTypes, TokenTypesAfter DEF Tokens, TokenSupply
<1>2. T <= G + F /\ C <= G + F
  BY DEF SupplyInv, ShortfallIsForeign, ClaimSum
<1>3. TokensKept => S = T /\ H = G /\ D = C
  BY DEF TokensKept, ClaimSum
<1>4. \A a : TokensMinted(a) => S = T + a /\ H = G + a /\ D = C + a
  BY DEF TokensMinted
<1>5. \A a : TokensRetired(a) => S + a = T /\ H = Monus(G, a) /\ D + a = C
  BY DEF TokensRetired
<1>6. \A a : TokensBurned(a) => S + a <= T /\ H + a = G /\ (D + a = C \/ D = O)
  BY DEF TokensBurned
<1>7. S <= H + F /\ D <= H + F => SupplyInv'
  BY DEF SupplyInv, ShortfallIsForeign, ClaimSum
<1>. HIDE DEF C, D, T, S, O, G, H, F
<1>8. CASE TokensKept
  BY <1>2, <1>3, <1>7, <1>8
<1>9. ASSUME NEW a \in Nat, TokensMinted(a) PROVE SupplyInv'
  BY <1>1, <1>2, <1>4, <1>7, <1>9
<1>10. ASSUME NEW a \in Nat, TokensRetired(a) PROVE SupplyInv'
  BY <1>1, <1>2, <1>5, <1>7, <1>10 DEF Monus
<1>11. ASSUME NEW a \in Nat, TokensBurned(a) PROVE SupplyInv'
  BY <1>1, <1>2, <1>6, <1>7, <1>11
<1>. QED  BY <1>8, <1>9, <1>10, <1>11

(* A mint opens as much as it claims.                                      *)
LEMMA MintTokens ==
  ASSUME PoolInv, TypeOK', NEW o \in Owners, NEW a \in Nat, PoolMintWwart(o, a)
  PROVE  \E m \in Nat : TokensMinted(m)
<1>. DEFINE m == Least(a, PoolAvailable18)
<1>1. m \in Nat
  BY UnitAssumption
     DEF PoolInv, TypeOK, PoolType, Least, PoolAvailable18, PoolCapacity18, Monus
<1>2. /\ claimed18' = claimed18 + m
      /\ poolL1WwartClaim' = [poolL1WwartClaim EXCEPT ![o] = @ + m]
      /\ poolWwartPortable' = [poolWwartPortable EXCEPT ![o] = @ + m]
      /\ UNCHANGED <<poolPortalWwart, l1Wwart, pathB>>
  BY DEF PoolMintWwart, l1Vars
<1>. HIDE DEF m
<1>3. /\ poolL1WwartClaim \in [Owners -> Nat] /\ poolL1WwartClaim' \in [Owners -> Nat]
      /\ poolWwartPortable \in [Owners -> Nat] /\ poolWwartPortable' \in [Owners -> Nat]
  BY TokenTypes, TokenTypesAfter DEF PoolInv
<1>4. /\ poolL1WwartClaim'[o] = poolL1WwartClaim[o] + m
      /\ \A v \in Owners : v # o => poolL1WwartClaim'[v] = poolL1WwartClaim[v]
      /\ poolWwartPortable'[o] = poolWwartPortable[o] + m
      /\ \A v \in Owners : v # o => poolWwartPortable'[v] = poolWwartPortable[v]
  BY <1>2, <1>3
<1>5. ClaimSum' = ClaimSum + m
  BY <1>1, <1>3, <1>4, OwnerSumRaised DEF ClaimSum
<1>6. OpenClaims' = OpenClaims + m
  BY <1>1, <1>3, <1>4, OwnerSumRaised DEF OpenClaims
<1>7. Tokens' = Tokens + m
  BY <1>1, <1>2, <1>6, TokenTypes DEF PoolInv, Tokens, TokenSupply
<1>. QED  BY <1>1, <1>2, <1>5, <1>7 DEF TokensMinted

(* A withdrawal turns open claims into tokens on L1.                       *)
LEMMA WithdrawTokens ==
  ASSUME PoolInv, TypeOK', NEW o \in Owners, NEW a \in Nat, NEW ok \in BOOLEAN,
         PoolWithdrawWwart(o, a, ok)
  PROVE  TokensKept
<1>1. /\ poolWwartPortable[o] >= a
      /\ poolWwartPortable' =
           [poolWwartPortable EXCEPT ![o] = (@ - a) + PutBack(ok, a)]
      /\ l1Wwart' = IF ok THEN [l1Wwart EXCEPT ![o] = @ + a] ELSE l1Wwart
      /\ UNCHANGED <<claimed18, poolL1WwartClaim, poolPortalWwart, pathB>>
  BY DEF PoolWithdrawWwart, poolVars
<1>2. /\ poolWwartPortable \in [Owners -> Nat] /\ poolWwartPortable' \in [Owners -> Nat]
      /\ l1Wwart \in [Owners -> Nat] /\ l1Wwart' \in [Owners -> Nat]
      /\ OpenClaims \in Nat /\ OpenClaims' \in Nat
      /\ SumFunction(l1Wwart) \in Nat /\ SumFunction(l1Wwart') \in Nat
      /\ SumFunction(poolPortalWwart) \in Nat /\ pathB \in Nat
  BY TokenTypes, TokenTypesAfter DEF PoolInv
<1>3. CASE ok
  <2>1. /\ poolWwartPortable[o] = poolWwartPortable'[o] + a
        /\ \A v \in Owners : v # o => poolWwartPortable[v] = poolWwartPortable'[v]
        /\ l1Wwart'[o] = l1Wwart[o] + a
        /\ \A v \in Owners : v # o => l1Wwart'[v] = l1Wwart[v]
    BY <1>1, <1>2, <1>3 DEF PutBack
  <2>2. OpenClaims = OpenClaims' + a
    BY <1>2, <2>1, OwnerSumRaised DEF OpenClaims
  <2>3. SumFunction(l1Wwart') = SumFunction(l1Wwart) + a
    BY <1>2, <2>1, OwnerSumRaised
  <2>4. Tokens' = Tokens
    BY <1>1, <1>2, <2>2, <2>3 DEF Tokens, TokenSupply
  <2>. QED  BY <1>1, <2>4 DEF TokensKept
<1>4. CASE ~ok
  <2>1. poolWwartPortable' = poolWwartPortable
    BY <1>4, WithdrawClaims
  <2>. QED  BY <1>1, <1>4, <2>1 DEF TokensKept, Tokens, TokenSupply, OpenClaims
<1>. QED  BY <1>3, <1>4

(* The portal moves tokens from L1 into the two inventories.               *)
LEMMA PortalTokens ==
  ASSUME TypeOK, TypeOK', NEW o \in Owners, NEW a \in Nat, NEW hint \in Hints,
         NEW personalFilled \in BOOLEAN,
         PortalDepositWwart(o, a, hint, personalFilled)
  PROVE  TokensKept
<1>. DEFINE s == PoolShare(a, hint, Filled(o), personalFilled, claimed18)
<1>1. /\ l1Wwart[o] >= a
      /\ l1Wwart' = [l1Wwart EXCEPT ![o] = @ - a]
      /\ poolPortalWwart' = [poolPortalWwart EXCEPT ![o] = @ + s]
      /\ pathB' = pathB + (a - s)
      /\ UNCHANGED <<claimed18, poolL1WwartClaim, poolWwartPortable>>
  BY DEF PortalDepositWwart, poolVars
<1>2. s \in 0 .. a
  <2>1. Filled(o) \in Nat
    BY TokenTypes DEF Filled, FilledClaim18, Monus
  <2>. QED  BY <2>1, TokenTypes, PoolShareBound
<1>. HIDE DEF s
<1>3. /\ poolPortalWwart \in [Owners -> Nat] /\ poolPortalWwart' \in [Owners -> Nat]
      /\ l1Wwart \in [Owners -> Nat] /\ l1Wwart' \in [Owners -> Nat]
      /\ SumFunction(l1Wwart) \in Nat /\ SumFunction(l1Wwart') \in Nat
      /\ SumFunction(poolPortalWwart) \in Nat
      /\ SumFunction(poolPortalWwart') \in Nat
      /\ OpenClaims \in Nat /\ pathB \in Nat
  BY TokenTypes, TokenTypesAfter
<1>4. /\ l1Wwart[o] = l1Wwart'[o] + a
      /\ \A v \in Owners : v # o => l1Wwart[v] = l1Wwart'[v]
      /\ poolPortalWwart'[o] = poolPortalWwart[o] + s
      /\ \A v \in Owners : v # o => poolPortalWwart'[v] = poolPortalWwart[v]
  BY <1>1, <1>2, <1>3
<1>5. SumFunction(l1Wwart) = SumFunction(l1Wwart') + a
  BY <1>3, <1>4, OwnerSumRaised
<1>6. SumFunction(poolPortalWwart') = SumFunction(poolPortalWwart) + s
  BY <1>2, <1>3, <1>4, OwnerSumRaised
<1>7. OpenClaims' = OpenClaims
  BY <1>1 DEF OpenClaims
<1>8. Tokens' = Tokens
  BY <1>1, <1>2, <1>3, <1>5, <1>6, <1>7 DEF Tokens, TokenSupply
<1>. QED  BY <1>1, <1>8 DEF TokensKept

(* Tokens move on L1 or out of Path B, but there are as many.              *)
LEMMA TransferTokens ==
  ASSUME TypeOK, TypeOK', NEW from \in Owners, NEW to \in Owners, NEW a \in Nat,
         L1Transfer(from, to, a)
  PROVE  TokensKept
<1>. DEFINE h == [l1Wwart EXCEPT ![from] = @ - a]
<1>1. /\ from # to /\ l1Wwart[from] >= a
      /\ l1Wwart' = [l1Wwart EXCEPT ![from] = @ - a, ![to] = @ + a]
      /\ UNCHANGED <<claimed18, poolL1WwartClaim, poolWwartPortable,
                     poolPortalWwart, pathB>>
  BY DEF L1Transfer, poolVars, vaultVars
<1>2. /\ l1Wwart \in [Owners -> Nat] /\ l1Wwart' \in [Owners -> Nat]
      /\ SumFunction(l1Wwart) \in Nat /\ SumFunction(l1Wwart') \in Nat
  BY TokenTypes, TokenTypesAfter
<1>3. /\ h \in [Owners -> Nat]
      /\ l1Wwart[from] = h[from] + a
      /\ \A v \in Owners : v # from => l1Wwart[v] = h[v]
      /\ l1Wwart'[to] = h[to] + a
      /\ \A v \in Owners : v # to => l1Wwart'[v] = h[v]
  BY <1>1, <1>2
<1>. HIDE DEF h
<1>4. SumFunction(l1Wwart) = SumFunction(h) + a
  BY <1>2, <1>3, OwnerSumRaised
<1>5. SumFunction(l1Wwart') = SumFunction(h) + a
  BY <1>2, <1>3, OwnerSumRaised
<1>. QED  BY <1>1, <1>4, <1>5 DEF TokensKept, Tokens, TokenSupply, OpenClaims

LEMMA PathBTokens ==
  ASSUME TypeOK, TypeOK', NEW o \in Owners, NEW a \in Nat, PathBRelease(o, a)
  PROVE  TokensKept
<1>1. /\ a <= pathB /\ pathB' = pathB - a
      /\ l1Wwart' = [l1Wwart EXCEPT ![o] = @ + a]
      /\ UNCHANGED <<claimed18, poolL1WwartClaim, poolWwartPortable,
                     poolPortalWwart>>
  BY DEF PathBRelease, poolVars, vaultVars
<1>2. /\ l1Wwart \in [Owners -> Nat] /\ l1Wwart' \in [Owners -> Nat]
      /\ SumFunction(l1Wwart) \in Nat /\ SumFunction(poolPortalWwart) \in Nat
      /\ OpenClaims \in Nat /\ pathB \in Nat
  BY TokenTypes, TokenTypesAfter
<1>3. /\ l1Wwart'[o] = l1Wwart[o] + a
      /\ \A v \in Owners : v # o => l1Wwart'[v] = l1Wwart[v]
  BY <1>1, <1>2
<1>4. SumFunction(l1Wwart') = SumFunction(l1Wwart) + a
  BY <1>2, <1>3, OwnerSumRaised
<1>5. OpenClaims' = OpenClaims
  BY <1>1 DEF OpenClaims
<1>6. Tokens' = Tokens
  BY <1>1, <1>2, <1>4, <1>5 DEF Tokens, TokenSupply
<1>. QED  BY <1>1, <1>6 DEF TokensKept

(* What is filled of all claims is what is not open.                       *)
LEMMA FilledSum ==
  ASSUME PoolInv
  PROVE  /\ SumFunction(FilledClaimsOf) \in Nat
         /\ SumFunction(FilledClaimsOf) + OpenClaims = ClaimSum
<1>1. /\ FilledClaimsOf \in [Owners -> Nat]
      /\ \A v \in Owners :
           FilledClaimsOf[v] = poolL1WwartClaim[v] - poolWwartPortable[v]
  BY FilledType, ClaimTypes DEF PoolInv
<1>2. FilledClaimsOf = [v \in Owners |-> poolL1WwartClaim[v] - poolWwartPortable[v]]
  BY <1>1
<1>3. SumFunction([v \in Owners |-> poolL1WwartClaim[v] - poolWwartPortable[v]])
        + SumFunction(poolWwartPortable) = SumFunction(poolL1WwartClaim)
  BY ClaimTypes, OwnerSumDebit
<1>4. SumFunction(FilledClaimsOf) \in Nat
  BY <1>1, OwnerSum
<1>. QED  BY <1>2, <1>3, <1>4 DEF OpenClaims, ClaimSum

(* A holder's burn takes the tokens from the portal, and closes filled     *)
(* claims for them as far as there are any.                                *)
LEMMA HolderBurnTokens ==
  ASSUME PoolInv, TypeOK', NEW o \in Owners, NEW a \in Nat, NEW auto \in BOOLEAN,
         HolderBurn(o, a, auto)
  PROVE  TokensBurned(a)
<1>1. PICK order \in UsersAfterWalk(WithUser(users, o), vaults \cup {o},
                                    FilledClaimsOf, a) :
        DebitFilledClaims(o, order, a)
  BY DEF HolderBurn
<1>2. /\ a <= claimed18 /\ claimed18' = claimed18 - a
      /\ Portal(o) >= a
      /\ poolPortalWwart' = [poolPortalWwart EXCEPT ![o] = Portal(o) - a]
      /\ UNCHANGED <<poolWwartPortable, l1Wwart, pathB>>
  BY DEF HolderBurn, IsHolderBurn, l1Vars
<1>3. PICK d \in FifoDebits(order, o, FilledClaimsOf, a) :
        poolL1WwartClaim' = [v \in Owners |-> poolL1WwartClaim[v] - d[v]]
  BY <1>1 DEF DebitFilledClaims
<1>4. /\ FilledClaimsOf \in [Owners -> Nat]
      /\ \A v \in Owners :
           FilledClaimsOf[v] = poolL1WwartClaim[v] - poolWwartPortable[v]
  BY FilledType, ClaimTypes DEF PoolInv
<1>5. /\ d \in [Owners -> Nat]
      /\ \A v \in Owners : d[v] <= poolL1WwartClaim[v]
  <2>1. d \in [Owners -> Nat] /\ \A v \in Owners : d[v] <= FilledClaimsOf[v]
    BY <1>4, DebitProperties
  <2>. QED  BY <1>4, <2>1, ClaimTypes
<1>6. /\ order \in Seq(Owners)
      /\ Range(WithUser(users, o)) \subseteq Range(order)
  <2>1. WithUser(users, o) \in Seq(Owners) /\ vaults \cup {o} \in SUBSET Owners
    BY KnownOwners DEF PoolInv, TypeOK, VaultType
  <2>. QED  BY <1>1, <2>1, UsersAfterWalkProperties
<1>7. \A v \in Owners \ Range(order) : FilledClaimsOf[v] = 0
  <2>. TAKE v \in Owners \ Range(order)
  <2>1. poolL1WwartClaim[v] = 0
    BY <1>6, KnownOwners
  <2>. QED  BY <1>4, <2>1, ClaimTypes
<1>8. SumFunction(d) = Least(a, SumFunction(FilledClaimsOf))
  BY <1>4, <1>6, <1>7, DebitSum
<1>9. ClaimSum' + SumFunction(d) = ClaimSum
  BY <1>3, <1>5, ClaimTypes, OwnerSumDebit DEF ClaimSum
<1>10. /\ ClaimSum \in Nat /\ ClaimSum' \in Nat /\ OpenClaims \in Nat
       /\ SumFunction(l1Wwart) \in Nat /\ pathB \in Nat
       /\ SumFunction(poolPortalWwart) \in Nat
       /\ SumFunction(poolPortalWwart') \in Nat
       /\ poolPortalWwart \in [Owners -> Nat]
       /\ poolPortalWwart' \in [Owners -> Nat] /\ claimed18 \in Nat
  BY TokenTypes, TokenTypesAfter DEF PoolInv
<1>11. ClaimSum' + a = ClaimSum \/ ClaimSum' = OpenClaims
  <2>1. /\ SumFunction(FilledClaimsOf) \in Nat
        /\ SumFunction(FilledClaimsOf) + OpenClaims = ClaimSum
    BY FilledSum
  <2>2. CASE a <= SumFunction(FilledClaimsOf)
    BY <1>8, <1>9, <2>1, <2>2 DEF Least
  <2>3. CASE ~(a <= SumFunction(FilledClaimsOf))
    <3>1. SumFunction(d) = SumFunction(FilledClaimsOf)
      BY <1>8, <2>1, <2>3 DEF Least
    <3>2. \A x, y, z, w \in Nat : x + y = z /\ y + w = z => x = w
      OBVIOUS
    <3>. QED  BY <1>9, <1>10, <2>1, <3>1, <3>2
  <2>. QED  BY <2>2, <2>3
<1>12. OpenClaims' = OpenClaims
  BY <1>2 DEF OpenClaims
<1>13. SumFunction(poolPortalWwart') + a <= SumFunction(poolPortalWwart)
  <2>. DEFINE n == poolPortalWwart[o] - poolPortalWwart'[o]
  <2>1. /\ poolPortalWwart[o] \in Nat /\ Portal(o) <= poolPortalWwart[o]
        /\ Portal(o) \in Nat
    BY <1>10 DEF Portal, PortalWwart18Of
  <2>2. poolPortalWwart'[o] = Portal(o) - a
    BY <1>2, <1>10
  <2>3. n \in Nat /\ a <= n /\ poolPortalWwart[o] = poolPortalWwart'[o] + n
    <3>1. \A x, p, y \in Nat : p <= x /\ p >= a /\ y = p - a =>
            x - y \in Nat /\ a <= x - y /\ x = y + (x - y)
      OBVIOUS
    <3>2. poolPortalWwart'[o] \in Nat /\ Portal(o) >= a
      BY <1>2, <1>10
    <3>. QED  BY <2>1, <2>2, <3>1, <3>2
  <2>4. \A v \in Owners : v # o => poolPortalWwart[v] = poolPortalWwart'[v]
    BY <1>2, <1>10
  <2>. HIDE DEF n
  <2>5. SumFunction(poolPortalWwart) = SumFunction(poolPortalWwart') + n
    BY <1>10, <2>3, <2>4, OwnerSumRaised
  <2>. QED  BY <1>10, <2>3, <2>5
<1>14. Tokens' + a <= Tokens
  BY <1>2, <1>10, <1>12, <1>13 DEF Tokens, TokenSupply
<1>15. claimed18' + a = claimed18
  BY <1>2, <1>10
<1>. QED  BY <1>11, <1>12, <1>14, <1>15 DEF TokensBurned

(* An owner's burn takes as much from the open part and the portal as it   *)
(* closes of the claim.                                                    *)
LEMMA OwnerBurnTokens ==
  ASSUME PoolInv, TypeOK', NEW o \in Owners, NEW a \in Nat, NEW auto \in BOOLEAN,
         OwnerBurn(o, a, auto)
  PROVE  TokensRetired(a)
<1>. DEFINE fromOpen   == Least(poolWwartPortable[o], a)
            fromPortal == a - fromOpen
<1>1. /\ a <= Burnable(o)
      /\ poolL1WwartClaim' = [poolL1WwartClaim EXCEPT ![o] = @ - a]
      /\ poolWwartPortable' = [poolWwartPortable EXCEPT ![o] = @ - fromOpen]
      /\ poolPortalWwart' =
           [poolPortalWwart EXCEPT ![o] =
              IF fromPortal > 0 THEN Portal(o) - fromPortal ELSE @]
      /\ claimed18' = Monus(claimed18, a)
      /\ UNCHANGED <<l1Wwart, pathB>>
  BY DEF OwnerBurn, l1Vars
<1>2. /\ ClaimSum \in Nat /\ ClaimSum' \in Nat
      /\ OpenClaims \in Nat /\ OpenClaims' \in Nat
      /\ SumFunction(l1Wwart) \in Nat /\ pathB \in Nat
      /\ SumFunction(poolPortalWwart) \in Nat
      /\ SumFunction(poolPortalWwart') \in Nat
  BY TokenTypes, TokenTypesAfter DEF PoolInv
<1>3. /\ poolPortalWwart \in [Owners -> Nat] /\ poolPortalWwart' \in [Owners -> Nat]
      /\ poolWwartPortable \in [Owners -> Nat]
      /\ poolWwartPortable' \in [Owners -> Nat]
      /\ poolL1WwartClaim \in [Owners -> Nat]
      /\ poolL1WwartClaim' \in [Owners -> Nat]
  BY TokenTypes, TokenTypesAfter DEF PoolInv
<1>4. /\ Portal(o) \in Nat
      /\ Portal(o) > 0 => Portal(o) = poolPortalWwart[o]
      /\ poolWwartPortable[o] \in Nat /\ poolL1WwartClaim[o] \in Nat
      /\ poolPortalWwart[o] \in Nat
  BY <1>3 DEF Portal, PortalWwart18Of
<1>5. /\ a <= poolL1WwartClaim[o] /\ a <= poolWwartPortable[o] + Portal(o)
  BY <1>1, <1>4 DEF Burnable, Least
<1>6. /\ fromOpen \in Nat /\ fromPortal \in Nat
      /\ fromOpen <= poolWwartPortable[o] /\ fromPortal <= Portal(o)
      /\ fromOpen + fromPortal = a
  BY <1>4, <1>5 DEF Least
<1>. HIDE DEF fromOpen, fromPortal
<1>7. /\ poolL1WwartClaim[o] = poolL1WwartClaim'[o] + a
      /\ \A v \in Owners : v # o => poolL1WwartClaim[v] = poolL1WwartClaim'[v]
  BY <1>1, <1>3, <1>4, <1>5
<1>8. /\ poolWwartPortable[o] = poolWwartPortable'[o] + fromOpen
      /\ \A v \in Owners : v # o => poolWwartPortable[v] = poolWwartPortable'[v]
  BY <1>1, <1>3, <1>4, <1>6
<1>9. /\ poolPortalWwart[o] = poolPortalWwart'[o] + fromPortal
      /\ \A v \in Owners : v # o => poolPortalWwart[v] = poolPortalWwart'[v]
  BY <1>1, <1>3, <1>4, <1>6
<1>10. ClaimSum = ClaimSum' + a
  BY <1>3, <1>7, OwnerSumRaised DEF ClaimSum
<1>11. OpenClaims = OpenClaims' + fromOpen
  BY SMTT(30), <1>3, <1>6, <1>8, OwnerSumRaised DEF OpenClaims
<1>12. SumFunction(poolPortalWwart) = SumFunction(poolPortalWwart') + fromPortal
  <2>1. fromPortal \in Nat
    BY <1>6
  <2>2. /\ poolPortalWwart \in [Owners -> Nat]
        /\ poolPortalWwart' \in [Owners -> Nat]
    BY <1>3
  <2>. QED  BY <1>9, <2>1, <2>2, OwnerSumRaised
<1>13. Tokens' + a = Tokens
  <2>1. fromOpen \in Nat /\ fromPortal \in Nat /\ fromOpen + fromPortal = a
    BY <1>6
  <2>2. l1Wwart' = l1Wwart /\ pathB' = pathB
    BY <1>1
  <2>. QED  BY <1>2, <1>11, <1>12, <2>1, <2>2 DEF Tokens, TokenSupply
<1>. QED  BY <1>1, <1>10, <1>13 DEF TokensRetired

(* Redeeming an open claim takes it from the open part.                    *)
LEMMA RedeemOpenTokens ==
  ASSUME PoolInv, TypeOK', NEW o \in Owners, NEW a \in Nat, RedeemOpenClaim(o, a)
  PROVE  TokensRetired(a)
<1>1. PutBack(Covered(ClaimedToE8(a)), a) = 0
  BY RedeemOpenRetires
<1>2. /\ a <= poolL1WwartClaim[o] /\ a <= poolWwartPortable[o]
      /\ poolL1WwartClaim' = [poolL1WwartClaim EXCEPT ![o] = (@ - a) + 0]
      /\ poolWwartPortable' = [poolWwartPortable EXCEPT ![o] = (@ - a) + 0]
      /\ claimed18' = Monus(claimed18, a) + 0
      /\ UNCHANGED <<poolPortalWwart, l1Wwart, pathB>>
  BY <1>1, ClaimTypes DEF RedeemOpenClaim, HasOpenClaim, l1Vars
<1>3. /\ ClaimSum \in Nat /\ ClaimSum' \in Nat
      /\ OpenClaims \in Nat /\ OpenClaims' \in Nat
      /\ SumFunction(l1Wwart) \in Nat /\ pathB \in Nat
      /\ SumFunction(poolPortalWwart) \in Nat
      /\ poolWwartPortable \in [Owners -> Nat]
      /\ poolWwartPortable' \in [Owners -> Nat]
      /\ poolL1WwartClaim \in [Owners -> Nat]
      /\ poolL1WwartClaim' \in [Owners -> Nat] /\ claimed18 \in Nat
  BY TokenTypes, TokenTypesAfter DEF PoolInv
<1>4. /\ poolL1WwartClaim[o] = poolL1WwartClaim'[o] + a
      /\ \A v \in Owners : v # o => poolL1WwartClaim[v] = poolL1WwartClaim'[v]
      /\ poolWwartPortable[o] = poolWwartPortable'[o] + a
      /\ \A v \in Owners : v # o => poolWwartPortable[v] = poolWwartPortable'[v]
  BY <1>2, <1>3
<1>5. ClaimSum = ClaimSum' + a
  BY <1>3, <1>4, OwnerSumRaised DEF ClaimSum
<1>6. OpenClaims = OpenClaims' + a
  BY <1>3, <1>4, OwnerSumRaised DEF OpenClaims
<1>7. Tokens' + a = Tokens
  BY <1>2, <1>3, <1>6 DEF Tokens, TokenSupply
<1>8. claimed18' = Monus(claimed18, a)
  BY <1>2, <1>3 DEF Monus
<1>. QED  BY <1>5, <1>7, <1>8 DEF TokensRetired

(* Every step is one of these.                                             *)
LEMMA TokenSteps ==
  ASSUME PoolInv, TypeOK', [Next]_vars
  PROVE  \/ TokensKept
         \/ \E a \in Nat : TokensMinted(a) \/ TokensRetired(a) \/ TokensBurned(a)
<1>1. ASSUME UNCHANGED <<claimed18, poolL1WwartClaim, poolWwartPortable,
                         poolPortalWwart, l1Wwart, pathB>>
      PROVE  TokensKept
  BY <1>1 DEF TokensKept, Tokens, TokenSupply, OpenClaims
<1>2. ASSUME NEW newUsers, NEW newVaults, RejectWith(newUsers, newVaults)
      PROVE  TokensKept
  BY <1>1, <1>2 DEF RejectWith, poolVars, l1Vars
<1>3. ASSUME NEW o \in Owners, NEW a \in Amounts18, PoolInput(o, a)
      PROVE  \/ TokensKept
             \/ \E n \in Nat : TokensMinted(n) \/ TokensRetired(n) \/ TokensBurned(n)
  <2>1. a \in Nat
    BY Amounts18Assumption
  <2>2. CASE PoolMintWwart(o, a)
    BY <2>1, <2>2, MintTokens
  <2>3. CASE \E voucherOk \in BOOLEAN : PoolWithdrawWwart(o, a, voucherOk)
    BY <2>1, <2>3, WithdrawTokens
  <2>4. CASE \E autoUnlock \in BOOLEAN : HolderBurn(o, a, autoUnlock)
    BY <2>1, <2>4, HolderBurnTokens
  <2>5. CASE \E autoUnlock \in BOOLEAN : OwnerBurn(o, a, autoUnlock)
    BY <2>1, <2>5, OwnerBurnTokens
  <2>6. CASE RedeemOpenClaim(o, a)
    BY <2>1, <2>6, RedeemOpenTokens
  <2>7. CASE PoolUnlock(o, a) \/ RedeemFreeDeposit(o, a)
    BY <1>1, <2>7 DEF PoolUnlock, RedeemFreeDeposit, vaultVars, l1Vars
  <2>8. CASE \/ PoolWithdrawRejected(o, a) \/ BurnRejected(o, a)
             \/ PoolUnlockRejected(o, a) \/ RedeemRejected(o, a)
    BY <1>2, <2>8 DEF PoolWithdrawRejected, BurnRejected, PoolUnlockRejected,
                      RedeemRejected
  <2>. QED  BY <1>3, <2>2, <2>3, <2>4, <2>5, <2>6, <2>7, <2>8 DEF PoolInput
<1>4. ASSUME NEW o \in Owners, NEW a \in Amounts18, NEW hint \in Hints,
             NEW personalFilled \in BOOLEAN,
             PortalDepositWwart(o, a, hint, personalFilled)
      PROVE  TokensKept
  BY <1>4, PortalTokens, Amounts18Assumption DEF PoolInv
<1>5. ASSUME \/ \E from, to \in Owners, a \in Amounts18 : L1Transfer(from, to, a)
             \/ \E o \in Owners, a \in Amounts18 : PathBRelease(o, a)
      PROVE  TokensKept
  BY <1>5, TransferTokens, PathBTokens, Amounts18Assumption DEF PoolInv
<1>6. ASSUME \/ \E o \in Owners : OtherInput({}) \/ OtherInput({o})
             \/ \E o \in Owners, e8 \in AmountsE8 : PoolDeposit(o, e8)
             \/ \E o \in Owners : InspectPool(o)
             \/ UNCHANGED vars
      PROVE  TokensKept
  BY <1>1, <1>6 DEF OtherInput, PoolDeposit, InspectPool, vars, poolVars,
                    vaultVars, l1Vars
<1>7. ASSUME PoolMintRejected \/ \E a \in Amounts18 : TooSmallRejected(a)
      PROVE  TokensKept
  BY <1>2, <1>7 DEF PoolMintRejected, TooSmallRejected
<1>. QED  BY <1>3, <1>4, <1>5, <1>6, <1>7 DEF Next, Handler

LEMMA TokenInit == Init => TokenInv
<1>. SUFFICES ASSUME Init PROVE TokenInv
  OBVIOUS
<1>1. NoE8 \in [Owners -> Nat] /\ \A v \in Owners : NoE8[v] = 0
  BY DEF NoE8
<1>2. SumFunction(NoE8) = 0
  <2>1. SumFunctionOnSet(NoE8, Owners) = 0
    BY <1>1, OwnersAssumption, SumOfZero
  <2>. QED  BY <1>1, <2>1, OwnerSum
<1>. HIDE DEF NoE8
<1>. QED  BY <1>2, InvInit, ForeignAssumption
          DEF Init, TokenInv, SupplyInv, Tokens, TokenSupply, OpenClaims,
              ShortfallIsForeign

(* Every step keeps it.                                                    *)
LEMMA TokenNext == ASSUME TokenInv, [Next]_vars PROVE TokenInv'
<1>1. PoolInv' /\ TypeOK /\ TypeOK'
  BY InvNext DEF TokenInv, PoolInv
<1>. QED  BY <1>1, TokenSteps, SupplyKept DEF TokenInv

THEOREM TokenInvHolds == Spec => []TokenInv
<1>1. TokenInv /\ [Next]_vars => TokenInv'
  BY TokenNext
<1>. QED  BY <1>1, TokenInit, PTL DEF Spec

(* Without wWART from elsewhere, the global claim is the sum of the        *)
(* owners' claims; otherwise it is short by no more than that.             *)
THEOREM ShortfallIsBounded == Spec => []ShortfallIsForeign
<1>1. TokenInv => ShortfallIsForeign
  BY DEF TokenInv, SupplyInv
<1>. QED  BY <1>1, TokenInvHolds, PTL

(* Collateral covers the wWART that exists or can still be withdrawn, but  *)
(* for as much as came from elsewhere.                                     *)
THEOREM SupplyIsBacked == Spec => []SupplyBacked
<1>1. TokenInv => SupplyBacked
  <2>. SUFFICES ASSUME TokenInv PROVE SupplyBacked
    OBVIOUS
  <2>. DEFINE owed == Monus(Tokens, ForeignSupply)
  <2>1. /\ Tokens \in Nat /\ ForeignSupply \in Nat /\ claimed18 \in Nat
        /\ Tokens <= claimed18 + ForeignSupply
    BY TokenTypes DEF TokenInv, PoolInv, SupplyInv, Tokens, TokenSupply
  <2>2. owed \in Nat /\ owed <= claimed18
    BY <2>1 DEF Monus
  <2>3. SupplyBacked <=> ClaimedToE8(owed) <= lockedE8
    BY DEF SupplyBacked, Tokens
  <2>. HIDE DEF owed
  <2>. QED  BY <2>2, <2>3, ClaimWithinLocked DEF TokenInv, PoolInv
<1>. QED  BY <1>1, TokenInvHolds, PTL

(* Whoever returns tokens to the portal can burn them, but for as many as  *)
(* came from elsewhere.                                                    *)
THEOREM ReturnedIsBurnable == Spec => []PortalBurnable
<1>1. TokenInv => PortalBurnable
  <2>. SUFFICES ASSUME TokenInv, NEW o \in Owners, NEW amount \in Amounts18,
                       Portal(o) >= amount + ForeignSupply
                PROVE  IsHolderBurn(o, amount) \/ amount <= Burnable(o)
    BY DEF PortalBurnable
  <2>1. /\ amount \in Nat /\ ForeignSupply \in Nat /\ claimed18 \in Nat
        /\ poolPortalWwart \in [Owners -> Nat]
        /\ poolL1WwartClaim[o] \in Nat /\ poolWwartPortable[o] \in Nat
        /\ SumFunction(poolPortalWwart) \in Nat
        /\ Tokens <= claimed18 + ForeignSupply
    BY TokenTypes, Amounts18Assumption DEF TokenInv, PoolInv, SupplyInv
  <2>2. SumFunction(poolPortalWwart) <= Tokens
    BY TokenTypes DEF TokenInv, PoolInv, Tokens, TokenSupply
  <2>3. Portal(o) \in Nat /\ Portal(o) <= poolPortalWwart[o]
    BY <2>1 DEF Portal, PortalWwart18Of
  <2>4. poolPortalWwart[o] <= SumFunction(poolPortalWwart)
    <3>1. /\ Owners \in SUBSET Owners /\ IsFiniteSet(Owners)
          /\ Owners \ {o} \in SUBSET Owners /\ IsFiniteSet(Owners \ {o})
      BY OwnersAssumption, FS_Subset
    <3>2. SumFunctionOnSet(poolPortalWwart, Owners) =
            poolPortalWwart[o] + SumFunctionOnSet(poolPortalWwart, Owners \ {o})
      BY <2>1, <3>1, SumRemove
    <3>3. SumFunctionOnSet(poolPortalWwart, Owners \ {o}) \in Nat
      BY <2>1, <3>1, SumType
    <3>4. SumFunction(poolPortalWwart) = SumFunctionOnSet(poolPortalWwart, Owners)
      BY <2>1, OwnerSum
    <3>. QED  BY <2>1, <3>2, <3>3, <3>4
  <2>5. Tokens \in Nat
    BY TokenTypes DEF TokenInv, PoolInv, Tokens, TokenSupply
  <2>6. Portal(o) >= amount /\ amount <= claimed18
    BY <2>1, <2>2, <2>3, <2>4, <2>5
  <2>7. CASE poolL1WwartClaim[o] < amount
    BY <2>6, <2>7 DEF IsHolderBurn
  <2>8. CASE ~(poolL1WwartClaim[o] < amount)
    BY <2>1, <2>3, <2>6, <2>8 DEF Burnable, Least
  <2>. QED  BY <2>7, <2>8
<1>. QED  BY <1>1, TokenInvHolds, PTL

-----------------------------------------------------------------------------
(* The log of tickets.                                                     *)

(* A log without room has lost a ticket by the next one, so that the sum   *)
(* is only of a log that has all of them.                                  *)
TicketInv ==
  /\ Len(tickets) <= TicketLog
  /\ Len(tickets) < nextNonce
  /\ TicketLogIsTail

(* How a step may change the log.                                          *)
LogKept == UNCHANGED <<tickets, nextNonce, redeemedE8>>

Issues(o, e8) ==
  /\ redeemedE8' = redeemedE8 + e8
  /\ nextNonce' = nextNonce + 1
  /\ tickets' = Logged([nonce |-> nextNonce, owner |-> o, amountE8 |-> e8])

(* The sum of a sequence's amounts grows by that of the ticket appended.   *)
LEMMA AmountsAppended ==
  ASSUME NEW s \in Seq(Ticket), NEW t \in Ticket
  PROVE  LET r == Append(s, t)
         IN  SumFunction([i \in DOMAIN r |-> r[i].amountE8]) =
               SumFunction([i \in DOMAIN s |-> s[i].amountE8]) + t.amountE8
<1>. DEFINE n == Len(s)
            r == Append(s, t)
            R == 1 .. n + 1
            g == [i \in DOMAIN r |-> r[i].amountE8]
            f == [i \in DOMAIN s |-> s[i].amountE8]
<1>1. /\ n \in Nat /\ DOMAIN s = 1 .. n
      /\ \A i \in 1 .. n : s[i] \in Ticket
  OBVIOUS
<1>2. /\ DOMAIN r = R /\ r[n + 1] = t
      /\ \A i \in 1 .. n : r[i] = s[i]
  BY <1>1
<1>3. \A x \in Ticket : x.amountE8 \in Nat
  BY DEF Ticket
<1>4. /\ g \in [R -> Nat] /\ f \in [1 .. n -> Nat]
      /\ g[n + 1] = t.amountE8
      /\ \A i \in 1 .. n : g[i] = f[i]
  BY <1>1, <1>2, <1>3
<1>5. IsFiniteSet(R) /\ IsFiniteSet(1 .. n)
  BY <1>1, FS_Interval
<1>. HIDE DEF g, f, r
<1>6. R \ {n + 1} = 1 .. n /\ n + 1 \in R
  BY <1>1
<1>7. SumFunctionOnSet(g, R) = g[n + 1] + SumFunctionOnSet(g, R \ {n + 1})
  BY <1>4, <1>5, <1>6, SumRemove
<1>8. SumFunctionOnSet(g, 1 .. n) = SumFunctionOnSet(f, 1 .. n)
  BY <1>1, <1>4, <1>5, SumAgree
<1>9. /\ SumFunction(g) = SumFunctionOnSet(g, R)
      /\ SumFunction(f) = SumFunctionOnSet(f, 1 .. n)
  BY <1>4 DEF SumFunction
<1>10. SumFunctionOnSet(f, 1 .. n) \in Nat /\ t.amountE8 \in Nat
  BY <1>3, <1>4, <1>5, SumType
<1>11. SumFunction(g) = SumFunction(f) + t.amountE8
  <2>1. /\ SumFunction(g) = t.amountE8 + SumFunctionOnSet(f, 1 .. n)
        /\ SumFunction(f) = SumFunctionOnSet(f, 1 .. n)
    BY <1>4, <1>6, <1>7, <1>8, <1>9, Zenon
  <2>. QED  BY <1>10, <2>1
<1>. QED  BY <1>11 DEF g, f, r

(* The next ticket keeps the log in order.                                 *)
LEMMA IssueKeepsLog ==
  ASSUME TypeOK, TicketInv, NEW o \in Owners, NEW e8 \in Nat, Issues(o, e8)
  PROVE  TicketInv'
<1>. DEFINE t   == [nonce |-> nextNonce, owner |-> o, amountE8 |-> e8]
            all == Append(tickets, t)
            n   == Len(tickets)
<1>1. /\ tickets \in Seq(Ticket) /\ nextNonce \in Nat /\ t \in Ticket
      /\ n \in Nat /\ DOMAIN tickets = 1 .. n
      /\ redeemedE8 \in Nat
  BY DEF TypeOK, PoolType, Ticket
<1>2. /\ n <= TicketLog /\ n < nextNonce
      /\ \A i \in 1 .. n : tickets[i].nonce + (n - i) + 1 = nextNonce
      /\ nextNonce = n + 1 =>
           redeemedE8 = SumFunction([i \in DOMAIN tickets |-> tickets[i].amountE8])
  BY <1>1 DEF TicketInv, TicketLogIsTail
<1>3. /\ all \in Seq(Ticket) /\ Len(all) = n + 1 /\ DOMAIN all = 1 .. n + 1
      /\ all[n + 1] = t /\ \A i \in 1 .. n : all[i] = tickets[i]
  BY <1>1
<1>4. /\ t.nonce = nextNonce /\ t.amountE8 = e8
      /\ \A i \in 1 .. n : tickets[i].nonce \in Nat
  <2>1. \A i \in 1 .. n : tickets[i] \in Ticket
    BY <1>1
  <2>2. \A x \in Ticket : x.nonce \in Nat
    BY DEF Ticket
  <2>. QED  BY <2>1, <2>2
<1>5. /\ tickets' = IF n + 1 > TicketLog THEN Tail(all) ELSE all
      /\ nextNonce' = nextNonce + 1 /\ redeemedE8' = redeemedE8 + e8
  BY <1>3 DEF Issues, Logged
<1>6. SumFunction([i \in DOMAIN all |-> all[i].amountE8]) =
        SumFunction([i \in DOMAIN tickets |-> tickets[i].amountE8]) + e8
  BY <1>1, <1>4, AmountsAppended
<1>. HIDE DEF t, all, n
<1>7. \A i \in 1 .. n + 1 : all[i].nonce + ((n + 1) - i) + 1 = nextNonce + 1
  <2>. TAKE i \in 1 .. n + 1
  <2>1. CASE i = n + 1
    BY <1>1, <1>3, <1>4, <2>1
  <2>2. CASE i \in 1 .. n
    <3>1. all[i].nonce \in Nat /\ all[i].nonce + (n - i) + 1 = nextNonce
      BY <1>2, <1>3, <1>4, <2>2
    <3>2. \A x, y \in Nat, j \in 1 .. n :
            x + (n - j) + 1 = y => x + ((n + 1) - j) + 1 = y + 1
      BY <1>1
    <3>. QED  BY <1>1, <2>2, <3>1, <3>2
  <2>. QED  BY <1>1, <2>1, <2>2
<1>8. ASSUME NEW k \in Nat, Len(tickets') = k, DOMAIN tickets' = 1 .. k,
             k <= TicketLog, k < nextNonce',
             \A i \in 1 .. k : tickets'[i].nonce + (k - i) + 1 = nextNonce',
             nextNonce' = k + 1 =>
               redeemedE8' = SumFunction([i \in DOMAIN tickets' |->
                                            tickets'[i].amountE8])
      PROVE  TicketInv'
  BY <1>8 DEF TicketInv, TicketLogIsTail
<1>9. CASE n + 1 <= TicketLog
  <2>1. tickets' = all /\ n + 1 < nextNonce' /\ n + 1 \in Nat
    BY <1>1, <1>2, <1>5, <1>9, TicketLogAssumption
  <2>2. nextNonce' = (n + 1) + 1 => nextNonce = n + 1
    BY <1>1, <1>5
  <2>3. nextNonce' = (n + 1) + 1 =>
          redeemedE8' = SumFunction([i \in DOMAIN all |-> all[i].amountE8])
    BY <1>2, <1>5, <1>6, <2>2
  <2>4. \A i \in 1 .. n + 1 : tickets'[i].nonce + ((n + 1) - i) + 1 = nextNonce'
    <3>1. ASSUME NEW i \in 1 .. n + 1
          PROVE  tickets'[i].nonce + ((n + 1) - i) + 1 = nextNonce'
      <4>1. all[i].nonce + ((n + 1) - i) + 1 = nextNonce + 1
        BY <1>7
      <4>2. tickets' = all
        BY <2>1
      <4>. QED  BY <1>5, <4>1, <4>2
    <3>. QED  BY <3>1
  <2>. QED  BY <1>3, <1>8, <1>9, <2>1, <2>3, <2>4
<1>10. CASE ~(n + 1 <= TicketLog)
  <2>1. n + 1 > TicketLog /\ n = TicketLog
    BY <1>1, <1>2, <1>10, TicketLogAssumption
  <2>2. tickets' = Tail(all)
    BY <1>5, <2>1
  <2>3. /\ Len(tickets') = n /\ DOMAIN tickets' = 1 .. n
        /\ \A i \in 1 .. n : tickets'[i] = all[i + 1]
    BY <1>1, <1>3, <2>2, HeadTailProperties
  <2>4. n <= TicketLog /\ n < nextNonce' /\ nextNonce' # n + 1
    BY <1>1, <1>2, <1>5, <2>1, TicketLogAssumption
  <2>5. ASSUME NEW i \in 1 .. n
        PROVE  tickets'[i].nonce + (n - i) + 1 = nextNonce'
    <3>1. i + 1 \in 1 .. n + 1 /\ (n + 1) - (i + 1) = n - i
      BY <1>1
    <3>2. all[i + 1].nonce + ((n + 1) - (i + 1)) + 1 = nextNonce + 1
      BY <1>7, <3>1
    <3>. QED  BY <1>5, <2>3, <3>1, <3>2
  <2>. QED  BY <1>1, <1>8, <2>3, <2>4, <2>5
<1>. QED  BY <1>9, <1>10

(* A release issues one ticket or none.                                    *)
LEMMA ReleaseIssues ==
  ASSUME NEW o, NEW order, NEW e8, Release(o, order, e8) \/ NoRelease
  PROVE  LogKept \/ Issues(o, e8)
BY DEF Release, NoRelease, LogKept, Issues

(* Every step does.                                                        *)
LEMMA TicketSteps ==
  ASSUME TypeOK, [Next]_vars
  PROVE  LogKept \/ \E o \in Owners, e8 \in Nat : Issues(o, e8)
<1>. DEFINE Good == LogKept \/ \E o \in Owners, e8 \in Nat : Issues(o, e8)
<1>1. ASSUME NEW o \in Owners, NEW order, NEW e8 \in Nat,
             Release(o, order, e8) \/ NoRelease
      PROVE  Good
  BY <1>1, ReleaseIssues
<1>2. ASSUME NEW newUsers, NEW newVaults, RejectWith(newUsers, newVaults)
      PROVE  Good
  BY <1>2 DEF RejectWith, poolVars, LogKept
<1>3. ASSUME NEW o \in Owners, NEW a \in Amounts18, PoolInput(o, a)
      PROVE  Good
  <2>1. a \in Nat /\ ClaimedToE8(a) \in Nat
    BY Amounts18Assumption, DivType DEF ClaimedToE8
  <2>2. CASE \E autoUnlock \in BOOLEAN : HolderBurn(o, a, autoUnlock)
    BY <1>1, <2>1, <2>2 DEF HolderBurn
  <2>3. CASE \E autoUnlock \in BOOLEAN : OwnerBurn(o, a, autoUnlock)
    <3>. DEFINE unlockE8 == Least(ClaimedToE8(a), UserFreeableE8(o, Monus(claimed18, a)))
    <3>1. unlockE8 \in Nat
      <4>1. Monus(claimed18, a) \in Nat
        BY <2>1 DEF Monus, TypeOK, PoolType
      <4>2. /\ ClaimedToE8(Monus(claimed18, a)) \in Nat
            /\ lockedE8 \in Nat /\ depositedE8[o] \in Nat
        BY <4>1, DivType DEF ClaimedToE8, TypeOK, PoolType, UserType
      <4>3. PoolFreeableE8(Monus(claimed18, a)) \in Nat
        BY <4>2 DEF PoolFreeableE8, Monus
      <4>4. UserFreeableE8(o, Monus(claimed18, a)) \in Nat
        BY <4>2, <4>3 DEF UserFreeableE8, Least
      <4>. QED  BY <2>1, <4>4 DEF Least
    <3>2. \E order : Release(o, order, unlockE8) \/ NoRelease
      BY <2>3 DEF OwnerBurn
    <3>. QED  BY <1>1, <3>1, <3>2
  <2>4. CASE PoolUnlock(o, a) \/ RedeemOpenClaim(o, a) \/ RedeemFreeDeposit(o, a)
    BY <1>1, <2>1, <2>4 DEF PoolUnlock, RedeemOpenClaim, RedeemFreeDeposit
  <2>5. CASE \/ PoolMintWwart(o, a)
             \/ \E ok \in BOOLEAN : PoolWithdrawWwart(o, a, ok)
    BY <2>5 DEF PoolMintWwart, PoolWithdrawWwart, poolVars, LogKept
  <2>6. CASE \/ PoolWithdrawRejected(o, a) \/ BurnRejected(o, a)
             \/ PoolUnlockRejected(o, a) \/ RedeemRejected(o, a)
    BY <1>2, <2>6 DEF PoolWithdrawRejected, BurnRejected, PoolUnlockRejected,
                      RedeemRejected
  <2>. QED  BY <1>3, <2>2, <2>3, <2>4, <2>5, <2>6 DEF PoolInput
<1>4. ASSUME PoolMintRejected \/ \E a \in Amounts18 : TooSmallRejected(a)
      PROVE  Good
  BY <1>2, <1>4 DEF PoolMintRejected, TooSmallRejected
<1>5. ASSUME \/ \E o \in Owners : OtherInput({}) \/ OtherInput({o}) \/ InspectPool(o)
             \/ \E o \in Owners, e8 \in AmountsE8 : PoolDeposit(o, e8)
             \/ \E o \in Owners, a \in Amounts18 : PathBRelease(o, a)
             \/ \E from, to \in Owners, a \in Amounts18 : L1Transfer(from, to, a)
             \/ UNCHANGED vars
      PROVE  LogKept
  BY <1>5 DEF OtherInput, InspectPool, PoolDeposit, PathBRelease, L1Transfer,
              vars, poolVars, LogKept
<1>6. ASSUME NEW o \in Owners, NEW a \in Amounts18, NEW hint \in Hints,
             NEW personalFilled \in BOOLEAN,
             PortalDepositWwart(o, a, hint, personalFilled)
      PROVE  LogKept
  BY <1>6 DEF PortalDepositWwart, poolVars, LogKept
<1>. QED  BY <1>3, <1>4, <1>5, <1>6 DEF Next, Handler

(* The log holds the last tickets issued without a gap, and as long as it  *)
(* holds all of them, they account for all that was redeemed.              *)
THEOREM LogIsComplete == Spec => []TicketLogIsTail
<1>1. Init => TicketInv
  <2>. SUFFICES ASSUME Init PROVE TicketInv
    OBVIOUS
  <2>1. tickets = <<>> /\ nextNonce = 1 /\ redeemedE8 = 0
    BY DEF Init
  <2>. DEFINE f == [i \in DOMAIN tickets |-> tickets[i].amountE8]
  <2>2. DOMAIN f = {}
    BY <2>1
  <2>3. SumFunction(f) = 0
    BY <2>2, SumEmpty DEF SumFunction
  <2>. QED  BY <2>1, <2>3, TicketLogAssumption DEF TicketInv, TicketLogIsTail
<1>2. TypeOK /\ TicketInv /\ [Next]_vars => TicketInv'
  <2>. SUFFICES ASSUME TypeOK, TicketInv, [Next]_vars PROVE TicketInv'
    OBVIOUS
  <2>1. CASE LogKept
    BY <2>1 DEF LogKept, TicketInv, TicketLogIsTail
  <2>. QED  BY <2>1, TicketSteps, IssueKeepsLog
<1>3. TicketInv => TicketLogIsTail
  BY DEF TicketInv
<1>. QED  BY <1>1, <1>2, <1>3, TypeCorrect, PTL DEF Spec
=============================================================================
