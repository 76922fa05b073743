-------------------------- MODULE RollupLoopProofs --------------------------
(***************************************************************************)
(* Proofs about RollupLoop and the two components it runs, EthVaults and   *)
(* Inventory, for any finite set of owners, vaults and addresses and any   *)
(* amounts: whatever inputs come, and however posts of "finish" fail.      *)
(***************************************************************************)
EXTENDS RollupLoop, SumTheorems

-----------------------------------------------------------------------------
(* The cosigner vaults: types.                                             *)

(* What is left of one amount after another.                               *)
LEMMA AboveProperties ==
  ASSUME NEW a \in Nat, NEW b \in Nat
  PROVE  /\ V!Above(a, b) \in Nat
         /\ b <= a => V!Above(a, b) = a - b
         /\ V!Above(a, b) + b >= a
         /\ V!Above(a, b) <= a
BY DEF V!Above

(* The smaller of two amounts.                                             *)
LEMMA LeastOfProperties ==
  ASSUME NEW a \in Nat, NEW b \in Nat
  PROVE  V!LeastOf(a, b) \in Nat /\ V!LeastOf(a, b) <= a /\ V!LeastOf(a, b) <= b
BY DEF V!LeastOf

(* What the vaults and the inventory assume of the constants.              *)
LEMMA ConstantsType ==
  /\ IsFiniteSet(Owners) /\ NoOwner \notin Owners
  /\ IsFiniteSet(EthVaultAddresses) /\ LockAmounts \subseteq Nat \ {0}
  /\ IsFiniteSet(Addresses) /\ NoAddress \notin Addresses
  /\ Registrants \subseteq Addresses /\ SubAddresses \subseteq Addresses
  /\ IsFiniteSet(Indexes) /\ I!ETH \notin Tokens
  /\ DepositAmounts \subseteq Nat \ {0} /\ WithdrawAmounts \subseteq Int
<1>1. /\ \A S : V!IsFiniteSet(S) = IsFiniteSet(S)
      /\ \A S : I!IsFiniteSet(S) = IsFiniteSet(S)
  BY DEF V!IsFiniteSet, I!IsFiniteSet, IsFiniteSet
<1>. QED  BY <1>1, VaultsAssumption, InventoryAssumption
          DEF V!Parameters, I!Parameters

(* The variables of the vaults, without what a handler returns.            *)
VaultTypes ==
  /\ ethVaultByAddress \in [EthVaultAddresses ->
       [owner : Owners \cup {NoOwner}, lockedMinted : Nat, lockedBurned : Nat]]
  /\ ethVaultReleaseState \in [EthVaultAddresses ->
       [nextNonce : Nat \ {0}, cumulativeBurnedWei : Nat]]
  /\ ethLockedMinted \in [Owners -> Nat] /\ ethLockedBurned \in [Owners -> Nat]
  /\ l1WethClaim \in [Owners -> Nat] /\ wethPortable \in [Owners -> Nat]

(* What an owner may mint and burn are amounts.                            *)
LEMMA ClaimAmounts ==
  ASSUME VaultTypes, NEW o \in Owners
  PROVE  /\ V!EthLockedOutstandingWei(o) \in Nat
         /\ V!Mintable(o) \in Nat /\ V!BurnableWeth(o) \in Nat
         /\ V!BurnableWeth(o) <= l1WethClaim[o]
<1>1. /\ ethLockedMinted[o] \in Nat /\ ethLockedBurned[o] \in Nat
      /\ l1WethClaim[o] \in Nat /\ wethPortable[o] \in Nat
  BY DEF VaultTypes
<1>2. V!EthLockedOutstandingWei(o) \in Nat
  BY <1>1, AboveProperties DEF V!EthLockedOutstandingWei
<1>3. V!Mintable(o) \in Nat
  BY <1>1, <1>2, AboveProperties DEF V!Mintable
<1>4. V!BurnableWeth(o) \in Nat /\ V!BurnableWeth(o) <= l1WethClaim[o]
  BY <1>1, LeastOfProperties DEF V!BurnableWeth
<1>. QED  BY <1>2, <1>3, <1>4

(* A vault's record with one field changed.                                *)
LEMMA VaultRecord ==
  ASSUME NEW r \in [owner : Owners \cup {NoOwner}, lockedMinted : Nat,
                    lockedBurned : Nat],
         NEW o \in Owners, NEW n \in Nat
  PROVE  /\ [r EXCEPT !.owner = o] =
              [owner |-> o, lockedMinted |-> r.lockedMinted,
               lockedBurned |-> r.lockedBurned]
         /\ [r EXCEPT !.lockedMinted = n] =
              [owner |-> r.owner, lockedMinted |-> n,
               lockedBurned |-> r.lockedBurned]
         /\ [r EXCEPT !.lockedBurned = n] =
              [owner |-> r.owner, lockedMinted |-> r.lockedMinted,
               lockedBurned |-> n]
OBVIOUS

(* What each handler does to the vault it names.                           *)
LEMMA CreateEffect ==
  ASSUME VaultTypes, NEW o \in Owners, NEW v \in EthVaultAddresses,
         V!CreateEthVault(o, v)
  PROVE  ethVaultByAddress' = [ethVaultByAddress EXCEPT ![v] =
           [owner |-> o, lockedMinted |-> ethVaultByAddress[v].lockedMinted,
            lockedBurned |-> ethVaultByAddress[v].lockedBurned]]
<1>. DEFINE r == ethVaultByAddress[v]
<1>1. r \in [owner : Owners \cup {NoOwner}, lockedMinted : Nat,
             lockedBurned : Nat]
  BY DEF VaultTypes
<1>2. ethVaultByAddress' = [ethVaultByAddress EXCEPT ![v] = [r EXCEPT !.owner = o]]
  BY DEF V!CreateEthVault, V!Record
<1>. HIDE DEF r
<1>3. [r EXCEPT !.owner = o] =
        [owner |-> o, lockedMinted |-> r.lockedMinted,
         lockedBurned |-> r.lockedBurned]
  BY <1>1, VaultRecord
<1>. QED  BY <1>2, <1>3 DEF r

LEMMA LockEffect ==
  ASSUME VaultTypes, NEW o \in Owners, NEW v \in EthVaultAddresses,
         NEW wei \in Nat, V!EthVaultLock(o, v, wei)
  PROVE  ethVaultByAddress' = [ethVaultByAddress EXCEPT ![v] =
           [owner |-> o,
            lockedMinted |-> ethVaultByAddress[v].lockedMinted + wei,
            lockedBurned |-> ethVaultByAddress[v].lockedBurned]]
<1>. DEFINE r == ethVaultByAddress[v]
            n == r.lockedMinted + wei
<1>1. r \in [owner : Owners \cup {NoOwner}, lockedMinted : Nat,
             lockedBurned : Nat]
  BY DEF VaultTypes
<1>2. n \in Nat
  BY <1>1
<1>3. r.owner = o
  BY DEF V!EthVaultLock, V!IsOwn
<1>4. ethVaultByAddress' =
        [ethVaultByAddress EXCEPT ![v] = [r EXCEPT !.lockedMinted = n]]
  BY DEF V!EthVaultLock, VaultTypes
<1>. HIDE DEF r, n
<1>5. [r EXCEPT !.lockedMinted = n] =
        [owner |-> o, lockedMinted |-> n, lockedBurned |-> r.lockedBurned]
  BY <1>1, <1>2, <1>3, VaultRecord
<1>. QED  BY <1>4, <1>5 DEF r, n

LEMMA UnlockEffect ==
  ASSUME VaultTypes, NEW o \in Owners, NEW v \in EthVaultAddresses,
         NEW wei \in Nat, V!EthVaultUnlock(o, v, wei)
  PROVE  ethVaultByAddress' = [ethVaultByAddress EXCEPT ![v] =
           [owner |-> o,
            lockedMinted |-> ethVaultByAddress[v].lockedMinted,
            lockedBurned |-> ethVaultByAddress[v].lockedBurned + wei]]
<1>. DEFINE r == ethVaultByAddress[v]
            n == r.lockedBurned + wei
<1>1. r \in [owner : Owners \cup {NoOwner}, lockedMinted : Nat,
             lockedBurned : Nat]
  BY DEF VaultTypes
<1>2. n \in Nat
  BY <1>1
<1>3. r.owner = o
  BY DEF V!EthVaultUnlock, V!IsOwn
<1>4. ethVaultByAddress' =
        [ethVaultByAddress EXCEPT ![v] = [r EXCEPT !.lockedBurned = n]]
  BY DEF V!EthVaultUnlock, VaultTypes
<1>. HIDE DEF r, n
<1>5. [r EXCEPT !.lockedBurned = n] =
        [owner |-> o, lockedMinted |-> r.lockedMinted, lockedBurned |-> n]
  BY <1>1, <1>2, <1>3, VaultRecord
<1>. QED  BY <1>4, <1>5 DEF r, n

(* The vaults' variables keep their types.                                 *)
LEMMA VaultsKeepTypes ==
  ASSUME VaultTypes, V!Next
  PROVE  VaultTypes' /\ returned' \in {"accept", "reject"}
<1>1. LockAmounts \subseteq Nat
  BY ConstantsType
<1>2. CASE V!Reject
  BY <1>2 DEF V!Reject, V!lockVars, V!claimVars, VaultTypes
<1>3. ASSUME NEW o \in Owners, NEW v \in EthVaultAddresses, V!CreateEthVault(o, v)
      PROVE  VaultTypes' /\ returned' = "accept"
  <2>1. /\ ethVaultByAddress[v].lockedMinted \in Nat
        /\ ethVaultByAddress[v].lockedBurned \in Nat
    BY DEF VaultTypes
  <2>2. ethVaultByAddress' \in [EthVaultAddresses ->
          [owner : Owners \cup {NoOwner}, lockedMinted : Nat, lockedBurned : Nat]]
    BY <1>3, <2>1, CreateEffect DEF VaultTypes
  <2>. QED  BY <1>3, <2>2 DEF V!CreateEthVault, V!Accept, V!claimVars, VaultTypes
<1>4. ASSUME NEW o \in Owners, NEW v \in EthVaultAddresses, NEW wei \in Nat,
             V!EthVaultLock(o, v, wei)
      PROVE  VaultTypes' /\ returned' = "accept"
  <2>1. /\ ethVaultByAddress[v].lockedMinted \in Nat
        /\ ethVaultByAddress[v].lockedBurned \in Nat
    BY DEF VaultTypes
  <2>2. ethVaultByAddress' \in [EthVaultAddresses ->
          [owner : Owners \cup {NoOwner}, lockedMinted : Nat, lockedBurned : Nat]]
    <3>. DEFINE n == ethVaultByAddress[v].lockedMinted + wei
    <3>1. n \in Nat
      BY <2>1
    <3>2. ethVaultByAddress' = [ethVaultByAddress EXCEPT ![v] =
            [owner |-> o, lockedMinted |-> n,
             lockedBurned |-> ethVaultByAddress[v].lockedBurned]]
      BY <1>4, LockEffect
    <3>. HIDE DEF n
    <3>. QED  BY <2>1, <3>1, <3>2 DEF VaultTypes
  <2>3. ethLockedMinted' \in [Owners -> Nat]
    BY <1>4 DEF V!EthVaultLock, VaultTypes
  <2>. QED  BY <1>4, <2>2, <2>3 DEF V!EthVaultLock, V!Accept, V!claimVars, VaultTypes
<1>5. ASSUME NEW o \in Owners, NEW v \in EthVaultAddresses, NEW wei \in Nat,
             V!EthVaultUnlock(o, v, wei)
      PROVE  VaultTypes' /\ returned' = "accept"
  <2>1. /\ ethVaultByAddress[v].lockedMinted \in Nat
        /\ ethVaultByAddress[v].lockedBurned \in Nat
    BY DEF VaultTypes
  <2>2. ethVaultByAddress' \in [EthVaultAddresses ->
          [owner : Owners \cup {NoOwner}, lockedMinted : Nat, lockedBurned : Nat]]
    <3>. DEFINE n == ethVaultByAddress[v].lockedBurned + wei
    <3>1. n \in Nat
      BY <2>1
    <3>2. ethVaultByAddress' = [ethVaultByAddress EXCEPT ![v] =
            [owner |-> o, lockedMinted |-> ethVaultByAddress[v].lockedMinted,
             lockedBurned |-> n]]
      BY <1>5, UnlockEffect
    <3>. HIDE DEF n
    <3>. QED  BY <2>1, <3>1, <3>2 DEF VaultTypes
  <2>3. V!Ticket(ethVaultReleaseState[v], wei) \in
          [nextNonce : Nat \ {0}, cumulativeBurnedWei : Nat]
    BY DEF V!Ticket, VaultTypes
  <2>. QED  BY <1>5, <2>2, <2>3
            DEF V!EthVaultUnlock, V!Accept, V!claimVars, VaultTypes
<1>6. ASSUME NEW o \in Owners, NEW wei \in Nat, V!MintWethClaim(o, wei)
      PROVE  VaultTypes' /\ returned' = "accept"
  <2>1. V!LeastOf(wei, V!Mintable(o)) \in Nat
    BY ClaimAmounts, LeastOfProperties
  <2>. QED  BY <1>6, <2>1 DEF V!MintWethClaim, V!Accept, V!lockVars, VaultTypes
<1>7. ASSUME NEW o \in Owners, NEW wei \in Nat, V!BurnWethClaim(o, wei)
      PROVE  VaultTypes' /\ returned' = "accept"
  <2>. DEFINE b == V!LeastOf(wei, V!BurnableWeth(o))
  <2>1. b \in Nat /\ b <= l1WethClaim[o]
    <3>1. /\ V!BurnableWeth(o) \in Nat /\ V!BurnableWeth(o) <= l1WethClaim[o]
          /\ l1WethClaim[o] \in Nat
      BY ClaimAmounts DEF VaultTypes
    <3>2. b \in Nat /\ b <= V!BurnableWeth(o)
      BY <3>1, LeastOfProperties
    <3>. HIDE DEF b
    <3>. QED  BY <3>1, <3>2
  <2>2. l1WethClaim[o] - b \in Nat /\ V!Above(wethPortable[o], b) \in Nat
    <3>1. l1WethClaim[o] \in Nat /\ wethPortable[o] \in Nat
      BY DEF VaultTypes
    <3>. HIDE DEF b
    <3>2. l1WethClaim[o] - b \in Nat
      BY <2>1, <3>1
    <3>. QED  BY <2>1, <3>1, <3>2, AboveProperties
  <2>3. /\ l1WethClaim' = [l1WethClaim EXCEPT ![o] = l1WethClaim[o] - b]
        /\ wethPortable' = [wethPortable EXCEPT ![o] = V!Above(wethPortable[o], b)]
    BY <1>7 DEF V!BurnWethClaim, VaultTypes
  <2>. HIDE DEF b
  <2>. QED  BY <1>7, <2>2, <2>3 DEF V!BurnWethClaim, V!Accept, V!lockVars, VaultTypes
<1>. QED  BY <1>1, <1>2, <1>3, <1>4, <1>5, <1>6, <1>7
          DEF V!Next, V!CreateEthVaultRefused, V!NotTheOwner,
              V!EthVaultUnlockRefused, V!MintWethRefused, V!BurnWethRefused,
              V!AmountRefused, V!Reject

-----------------------------------------------------------------------------
(* The cosigner vaults: claims within what is locked, and equal books.     *)

(* Locking more leaves more outstanding.                                   *)
LEMMA ClaimsStayCovered ==
  ASSUME VaultTypes, V!WethCovered, V!Next
  PROVE  V!WethCovered'
<1>1. LockAmounts \subseteq Nat \ {0}
  BY ConstantsType
<1>2. CASE UNCHANGED <<ethLockedMinted, ethLockedBurned, l1WethClaim, wethPortable>>
  BY <1>2 DEF V!WethCovered, V!EthLockedOutstandingWei
<1>3. ASSUME NEW o \in Owners, NEW v, NEW wei \in Nat, V!EthVaultLock(o, v, wei)
      PROVE  V!WethCovered'
  <2>1. /\ ethLockedMinted' = [ethLockedMinted EXCEPT ![o] = @ + wei]
        /\ UNCHANGED <<ethLockedBurned, l1WethClaim, wethPortable>>
    BY <1>3 DEF V!EthVaultLock, V!claimVars
  <2>. QED  BY <2>1 DEF VaultTypes, V!WethCovered, V!EthLockedOutstandingWei, V!Above
<1>4. ASSUME NEW o \in Owners, NEW v, NEW wei \in Nat \ {0},
             V!EthVaultUnlock(o, v, wei)
      PROVE  V!WethCovered'
  <2>1. /\ ethLockedBurned' = [ethLockedBurned EXCEPT ![o] = @ + wei]
        /\ UNCHANGED <<ethLockedMinted, l1WethClaim, wethPortable>>
        /\ wei <= V!Above(ethLockedMinted[o], ethLockedBurned[o])
        /\ l1WethClaim[o] <= V!Above(ethLockedMinted[o], ethLockedBurned[o]) - wei
    BY <1>4 DEF V!EthVaultUnlock, V!claimVars, V!CanUnlock, V!EthLockedOutstandingWei
  <2>. QED  BY <2>1 DEF VaultTypes, V!WethCovered, V!EthLockedOutstandingWei, V!Above
<1>5. ASSUME NEW o \in Owners, NEW wei \in Nat, V!MintWethClaim(o, wei)
      PROVE  V!WethCovered'
  <2>. DEFINE m == V!LeastOf(wei, V!Mintable(o))
  <2>1. /\ m \in Nat /\ m <= V!Mintable(o) /\ V!Mintable(o) > 0
        /\ V!EthLockedOutstandingWei(o) \in Nat
    BY <1>5, ClaimAmounts, LeastOfProperties DEF V!MintWethClaim
  <2>2. l1WethClaim[o] + m <= V!EthLockedOutstandingWei(o)
    BY <2>1 DEF VaultTypes, V!Mintable, V!Above
  <2>3. /\ l1WethClaim' = [l1WethClaim EXCEPT ![o] = @ + m]
        /\ wethPortable' = [wethPortable EXCEPT ![o] = @ + m]
        /\ UNCHANGED <<ethLockedMinted, ethLockedBurned>>
    BY <1>5 DEF V!MintWethClaim, V!lockVars
  <2>4. \A p \in Owners :
          V!EthLockedOutstandingWei(p)' = V!EthLockedOutstandingWei(p)
    BY <2>3 DEF V!EthLockedOutstandingWei
  <2>. HIDE DEF m
  <2>. QED  BY <2>2, <2>3, <2>4 DEF VaultTypes, V!WethCovered
<1>6. ASSUME NEW o \in Owners, NEW wei \in Nat, V!BurnWethClaim(o, wei)
      PROVE  V!WethCovered'
  <2>. DEFINE b == V!LeastOf(wei, V!BurnableWeth(o))
  <2>1. b \in Nat /\ b <= l1WethClaim[o]
    <3>1. /\ V!BurnableWeth(o) \in Nat /\ V!BurnableWeth(o) <= l1WethClaim[o]
          /\ l1WethClaim[o] \in Nat
      BY ClaimAmounts DEF VaultTypes
    <3>2. b \in Nat /\ b <= V!BurnableWeth(o)
      BY <3>1, LeastOfProperties
    <3>. HIDE DEF b
    <3>. QED  BY <3>1, <3>2
  <2>2. V!Above(wethPortable[o], b) = l1WethClaim[o] - b
    BY <2>1, AboveProperties DEF VaultTypes, V!WethCovered
  <2>3. /\ l1WethClaim' = [l1WethClaim EXCEPT ![o] = l1WethClaim[o] - b]
        /\ wethPortable' = [wethPortable EXCEPT ![o] = l1WethClaim[o] - b]
        /\ UNCHANGED <<ethLockedMinted, ethLockedBurned>>
    BY <1>6, <2>2 DEF V!BurnWethClaim, V!lockVars, VaultTypes
  <2>4. \A p \in Owners :
          /\ V!EthLockedOutstandingWei(p)' = V!EthLockedOutstandingWei(p)
          /\ V!EthLockedOutstandingWei(p) \in Nat
    BY <2>3, ClaimAmounts DEF V!EthLockedOutstandingWei
  <2>. HIDE DEF b
  <2>. QED  BY <2>1, <2>3, <2>4 DEF VaultTypes, V!WethCovered
<1>. QED  BY <1>1, <1>2, <1>3, <1>4, <1>5, <1>6
          DEF V!Next, V!Reject, V!CreateEthVault, V!CreateEthVaultRefused,
              V!NotTheOwner, V!EthVaultUnlockRefused, V!MintWethRefused,
              V!BurnWethRefused, V!AmountRefused, V!lockVars, V!claimVars

(* A sum in either component is a sum.                                     *)
LEMMA SumsAreSums ==
  /\ \A f, S : V!SumFunctionOnSet(f, S) = SumFunctionOnSet(f, S)
  /\ \A f : I!SumFunction(f) = SumFunctionOnSet(f, DOMAIN f)
<1>1. \A f, S : V!SumFunctionOnSet(f, S) = SumFunctionOnSet(f, S)
  BY DEF V!SumFunctionOnSet, V!FoldFunctionOnSet, V!MapThenFoldSet,
         SumFunctionOnSet, FoldFunctionOnSet, MapThenFoldSet
<1>2. \A f : I!SumFunction(f) = SumFunctionOnSet(f, DOMAIN f)
  BY DEF I!SumFunction, I!SumFunctionOnSet, I!FoldFunctionOnSet, I!MapThenFoldSet,
         SumFunctionOnSet, FoldFunctionOnSet, MapThenFoldSet
<1>. QED  BY <1>1, <1>2

(* What is locked in a vault if it is o's, and what of it is unlocked.     *)
OwnMinted(o) == [v \in EthVaultAddresses |->
  IF ethVaultByAddress[v].owner = o THEN ethVaultByAddress[v].lockedMinted ELSE 0]
OwnBurned(o) == [v \in EthVaultAddresses |->
  IF ethVaultByAddress[v].owner = o THEN ethVaultByAddress[v].lockedBurned ELSE 0]

(* The owner's books are the sums over its vaults, a vault nobody          *)
(* registered has no ETH, and tickets are what was unlocked.               *)
BooksInv ==
  /\ \A o \in Owners :
       /\ ethLockedMinted[o] = SumFunctionOnSet(OwnMinted(o), EthVaultAddresses)
       /\ ethLockedBurned[o] = SumFunctionOnSet(OwnBurned(o), EthVaultAddresses)
       /\ ethLockedBurned[o] <= ethLockedMinted[o]
  /\ \A v \in EthVaultAddresses :
       /\ ethVaultByAddress[v].owner = NoOwner =>
            /\ ethVaultByAddress[v].lockedMinted = 0
            /\ ethVaultByAddress[v].lockedBurned = 0
       /\ ethVaultReleaseState[v].cumulativeBurnedWei =
            ethVaultByAddress[v].lockedBurned

(* What is in the vaults are amounts.                                      *)
LEMMA OwnTypes ==
  ASSUME VaultTypes, NEW o \in Owners
  PROVE  /\ OwnMinted(o) \in [EthVaultAddresses -> Nat]
         /\ OwnBurned(o) \in [EthVaultAddresses -> Nat]
BY DEF VaultTypes, OwnMinted, OwnBurned

(* This is what LockBooksAgree says.                                       *)
LEMMA BooksInvAgrees ==
  ASSUME VaultTypes, BooksInv
  PROVE  V!LockBooksAgree
<1>1. IsFiniteSet(EthVaultAddresses)
  BY ConstantsType
<1>2. V!MintedIn \in [EthVaultAddresses -> Nat] /\ V!BurnedIn \in [EthVaultAddresses -> Nat]
  BY DEF VaultTypes, V!MintedIn, V!BurnedIn
<1>3. ASSUME NEW o \in Owners
      PROVE  /\ ethLockedMinted[o] = V!SumFunctionOnSet(V!MintedIn, V!VaultsOf(o))
             /\ ethLockedBurned[o] = V!SumFunctionOnSet(V!BurnedIn, V!VaultsOf(o))
  <2>. DEFINE T == V!VaultsOf(o)
  <2>1. T \in SUBSET EthVaultAddresses
    BY DEF V!VaultsOf
  <2>2. /\ OwnMinted(o) = [v \in EthVaultAddresses |-> IF v \in T THEN V!MintedIn[v] ELSE 0]
        /\ OwnBurned(o) = [v \in EthVaultAddresses |-> IF v \in T THEN V!BurnedIn[v] ELSE 0]
    BY DEF OwnMinted, OwnBurned, V!MintedIn, V!BurnedIn, V!VaultsOf, V!IsOwn
  <2>. HIDE DEF T
  <2>3. /\ SumFunctionOnSet(V!MintedIn, T) = SumFunctionOnSet(OwnMinted(o), EthVaultAddresses)
        /\ SumFunctionOnSet(V!BurnedIn, T) = SumFunctionOnSet(OwnBurned(o), EthVaultAddresses)
    BY <1>1, <1>2, <2>1, <2>2, SumOfPart
  <2>. QED  BY <2>3, SumsAreSums DEF BooksInv, T
<1>. QED  BY <1>3 DEF BooksInv, V!LockBooksAgree

(* Registering a vault moves no ETH: one that is new has none.             *)
LEMMA CreateKeepsBooks ==
  ASSUME VaultTypes, BooksInv, NEW o \in Owners, NEW v \in EthVaultAddresses,
         V!CreateEthVault(o, v)
  PROVE  BooksInv'
<1>1. /\ \A w \in EthVaultAddresses :
           /\ ethVaultByAddress'[w].lockedMinted = ethVaultByAddress[w].lockedMinted
           /\ ethVaultByAddress'[w].lockedBurned = ethVaultByAddress[w].lockedBurned
           /\ w # v => ethVaultByAddress'[w].owner = ethVaultByAddress[w].owner
      /\ ethVaultByAddress'[v].owner = o
  BY CreateEffect DEF VaultTypes
<1>2. ethVaultByAddress[v].owner \in {NoOwner, o} /\ o # NoOwner
  BY ConstantsType DEF V!CreateEthVault
<1>3. UNCHANGED <<ethVaultReleaseState, ethLockedMinted, ethLockedBurned>>
  BY DEF V!CreateEthVault
<1>4. \A p \in Owners : OwnMinted(p)' = OwnMinted(p) /\ OwnBurned(p)' = OwnBurned(p)
  <2>1. ASSUME NEW p \in Owners, NEW w \in EthVaultAddresses
        PROVE  /\ (IF ethVaultByAddress'[w].owner = p
                   THEN ethVaultByAddress'[w].lockedMinted ELSE 0) =
                  (IF ethVaultByAddress[w].owner = p
                   THEN ethVaultByAddress[w].lockedMinted ELSE 0)
               /\ (IF ethVaultByAddress'[w].owner = p
                   THEN ethVaultByAddress'[w].lockedBurned ELSE 0) =
                  (IF ethVaultByAddress[w].owner = p
                   THEN ethVaultByAddress[w].lockedBurned ELSE 0)
    BY <1>1, <1>2 DEF BooksInv
  <2>. QED  BY <2>1 DEF OwnMinted, OwnBurned
<1>5. \A w \in EthVaultAddresses :
        /\ ethVaultByAddress'[w].owner = NoOwner =>
             /\ ethVaultByAddress'[w].lockedMinted = 0
             /\ ethVaultByAddress'[w].lockedBurned = 0
        /\ ethVaultReleaseState'[w].cumulativeBurnedWei =
             ethVaultByAddress'[w].lockedBurned
  BY <1>1, <1>2, <1>3 DEF BooksInv
<1>. QED  BY <1>3, <1>4, <1>5 DEF BooksInv

(* Locking adds the same to the owner's book and to the vault.             *)
LEMMA LockKeepsBooks ==
  ASSUME VaultTypes, VaultTypes', BooksInv, NEW o \in Owners,
         NEW v \in EthVaultAddresses, NEW wei \in Nat, V!EthVaultLock(o, v, wei)
  PROVE  BooksInv'
<1>. DEFINE S == EthVaultAddresses
<1>1. /\ IsFiniteSet(S) /\ o # NoOwner
  BY ConstantsType
<1>2. /\ \A w \in S :
           /\ w # v => ethVaultByAddress'[w] = ethVaultByAddress[w]
           /\ ethVaultByAddress'[w].owner = ethVaultByAddress[w].owner
           /\ ethVaultByAddress'[w].lockedBurned = ethVaultByAddress[w].lockedBurned
      /\ ethVaultByAddress'[v].lockedMinted = ethVaultByAddress[v].lockedMinted + wei
      /\ ethVaultByAddress[v].owner = o
  BY LockEffect DEF VaultTypes, V!EthVaultLock, V!IsOwn
<1>3. /\ ethLockedMinted' = [ethLockedMinted EXCEPT ![o] = @ + wei]
      /\ UNCHANGED <<ethVaultReleaseState, ethLockedBurned>>
  BY DEF V!EthVaultLock
<1>4. /\ \A p \in Owners : OwnMinted(p) \in [S -> Nat] /\ OwnMinted(p)' \in [S -> Nat]
      /\ \A p \in Owners : OwnBurned(p)' = OwnBurned(p)
      /\ \A p \in Owners \ {o} : OwnMinted(p)' = OwnMinted(p)
      /\ OwnMinted(o)'[v] = OwnMinted(o)[v] + wei
      /\ \A w \in S \ {v} : OwnMinted(o)'[w] = OwnMinted(o)[w]
  <2>1. \A p \in Owners : OwnMinted(p) \in [S -> Nat] /\ OwnMinted(p)' \in [S -> Nat]
    BY DEF VaultTypes, OwnMinted
  <2>2. \A p \in Owners : OwnBurned(p)' = OwnBurned(p)
    BY <1>2 DEF OwnBurned
  <2>3. \A p \in Owners \ {o} : OwnMinted(p)' = OwnMinted(p)
    BY <1>2 DEF OwnMinted
  <2>4. OwnMinted(o)'[v] = OwnMinted(o)[v] + wei
    BY <1>2 DEF OwnMinted
  <2>5. \A w \in S \ {v} : OwnMinted(o)'[w] = OwnMinted(o)[w]
    BY <1>2 DEF OwnMinted
  <2>. QED  BY <2>1, <2>2, <2>3, <2>4, <2>5
<1>5. SumFunctionOnSet(OwnMinted(o)', S) = SumFunctionOnSet(OwnMinted(o), S) + wei
  <2>. DEFINE f == OwnMinted(o)
              g == OwnMinted(o)'
  <2>1. /\ f \in [S -> Nat] /\ g \in [S -> Nat] /\ g[v] = f[v] + wei
        /\ \A w \in S \ {v} : g[w] = f[w]
    BY <1>4
  <2>. HIDE DEF f, g
  <2>2. SumFunctionOnSet(g, S) = SumFunctionOnSet(f, S) + wei
    BY <1>1, <2>1, SumRaised
  <2>. QED  BY <2>2 DEF f, g
<1>6. ASSUME NEW p \in Owners
      PROVE  /\ ethLockedMinted'[p] = SumFunctionOnSet(OwnMinted(p)', S)
             /\ ethLockedBurned'[p] = SumFunctionOnSet(OwnBurned(p)', S)
             /\ ethLockedBurned'[p] <= ethLockedMinted'[p]
  <2>1. CASE p = o
    BY <1>3, <1>4, <1>5, <2>1 DEF BooksInv, VaultTypes
  <2>2. CASE p # o
    BY <1>3, <1>4, <2>2 DEF BooksInv, VaultTypes
  <2>. QED  BY <2>1, <2>2
<1>7. ASSUME NEW w \in S
      PROVE  /\ ethVaultByAddress'[w].owner = NoOwner =>
                  /\ ethVaultByAddress'[w].lockedMinted = 0
                  /\ ethVaultByAddress'[w].lockedBurned = 0
             /\ ethVaultReleaseState'[w].cumulativeBurnedWei =
                  ethVaultByAddress'[w].lockedBurned
  BY <1>1, <1>2, <1>3 DEF BooksInv
<1>. QED  BY <1>6, <1>7 DEF BooksInv

(* Unlocking adds the same to the owner's book, to the vault and to its    *)
(* tickets, and no more than is outstanding.                               *)
LEMMA UnlockKeepsBooks ==
  ASSUME VaultTypes, VaultTypes', BooksInv, NEW o \in Owners,
         NEW v \in EthVaultAddresses, NEW wei \in Nat \ {0},
         V!EthVaultUnlock(o, v, wei)
  PROVE  BooksInv'
<1>. DEFINE S == EthVaultAddresses
<1>1. /\ IsFiniteSet(S) /\ o # NoOwner
  BY ConstantsType
<1>2. /\ \A w \in S :
           /\ w # v => ethVaultByAddress'[w] = ethVaultByAddress[w]
           /\ ethVaultByAddress'[w].owner = ethVaultByAddress[w].owner
           /\ ethVaultByAddress'[w].lockedMinted = ethVaultByAddress[w].lockedMinted
      /\ ethVaultByAddress'[v].lockedBurned = ethVaultByAddress[v].lockedBurned + wei
      /\ ethVaultByAddress[v].owner = o
  BY UnlockEffect DEF VaultTypes, V!EthVaultUnlock, V!IsOwn
<1>3. /\ ethLockedBurned' = [ethLockedBurned EXCEPT ![o] = @ + wei]
      /\ ethVaultReleaseState' = [ethVaultReleaseState EXCEPT ![v] = V!Ticket(@, wei)]
      /\ UNCHANGED ethLockedMinted
      /\ wei <= V!Above(ethLockedMinted[o], ethLockedBurned[o])
  BY DEF V!EthVaultUnlock, V!CanUnlock, V!EthLockedOutstandingWei
<1>4. /\ \A p \in Owners : OwnBurned(p) \in [S -> Nat] /\ OwnBurned(p)' \in [S -> Nat]
      /\ \A p \in Owners : OwnMinted(p)' = OwnMinted(p)
      /\ \A p \in Owners \ {o} : OwnBurned(p)' = OwnBurned(p)
      /\ OwnBurned(o)'[v] = OwnBurned(o)[v] + wei
      /\ \A w \in S \ {v} : OwnBurned(o)'[w] = OwnBurned(o)[w]
  <2>1. \A p \in Owners : OwnBurned(p) \in [S -> Nat] /\ OwnBurned(p)' \in [S -> Nat]
    BY DEF VaultTypes, OwnBurned
  <2>2. \A p \in Owners : OwnMinted(p)' = OwnMinted(p)
    BY <1>2 DEF OwnMinted
  <2>3. \A p \in Owners \ {o} : OwnBurned(p)' = OwnBurned(p)
    BY <1>2 DEF OwnBurned
  <2>4. OwnBurned(o)'[v] = OwnBurned(o)[v] + wei
    BY <1>2 DEF OwnBurned
  <2>5. \A w \in S \ {v} : OwnBurned(o)'[w] = OwnBurned(o)[w]
    BY <1>2 DEF OwnBurned
  <2>. QED  BY <2>1, <2>2, <2>3, <2>4, <2>5
<1>5. SumFunctionOnSet(OwnBurned(o)', S) = SumFunctionOnSet(OwnBurned(o), S) + wei
  <2>. DEFINE f == OwnBurned(o)
              g == OwnBurned(o)'
  <2>1. /\ f \in [S -> Nat] /\ g \in [S -> Nat] /\ g[v] = f[v] + wei
        /\ \A w \in S \ {v} : g[w] = f[w]
    BY <1>4
  <2>. HIDE DEF f, g
  <2>2. SumFunctionOnSet(g, S) = SumFunctionOnSet(f, S) + wei
    BY <1>1, <2>1, SumRaised
  <2>. QED  BY <2>2 DEF f, g
<1>6. ASSUME NEW p \in Owners
      PROVE  /\ ethLockedMinted'[p] = SumFunctionOnSet(OwnMinted(p)', S)
             /\ ethLockedBurned'[p] = SumFunctionOnSet(OwnBurned(p)', S)
             /\ ethLockedBurned'[p] <= ethLockedMinted'[p]
  <2>1. CASE p = o
    <3>1. ethLockedBurned[o] + wei <= ethLockedMinted[o]
      BY <1>3 DEF VaultTypes, V!Above
    <3>. QED  BY <1>3, <1>4, <1>5, <2>1, <3>1 DEF BooksInv, VaultTypes
  <2>2. CASE p # o
    BY <1>3, <1>4, <2>2 DEF BooksInv, VaultTypes
  <2>. QED  BY <2>1, <2>2
<1>7. ASSUME NEW w \in S
      PROVE  /\ ethVaultByAddress'[w].owner = NoOwner =>
                  /\ ethVaultByAddress'[w].lockedMinted = 0
                  /\ ethVaultByAddress'[w].lockedBurned = 0
             /\ ethVaultReleaseState'[w].cumulativeBurnedWei =
                  ethVaultByAddress'[w].lockedBurned
  <2>1. CASE w = v
    BY <1>1, <1>2, <1>3, <2>1 DEF BooksInv, VaultTypes, V!Ticket
  <2>2. CASE w # v
    BY <1>1, <1>2, <1>3, <2>2 DEF BooksInv, VaultTypes
  <2>. QED  BY <2>1, <2>2
<1>. QED  BY <1>6, <1>7 DEF BooksInv

(* So every handler keeps the books equal.                                 *)
LEMMA VaultsKeepBooks ==
  ASSUME VaultTypes, BooksInv, V!Next
  PROVE  BooksInv'
<1>1. LockAmounts \subseteq Nat \ {0} /\ VaultTypes'
  BY ConstantsType, VaultsKeepTypes
<1>2. CASE UNCHANGED <<ethVaultByAddress, ethVaultReleaseState, ethLockedMinted,
                       ethLockedBurned>>
  BY <1>2 DEF BooksInv, OwnMinted, OwnBurned
<1>. QED  BY <1>1, <1>2, CreateKeepsBooks, LockKeepsBooks, UnlockKeepsBooks
          DEF V!Next, V!CreateEthVaultRefused, V!NotTheOwner,
              V!EthVaultUnlockRefused, V!MintWethClaim, V!BurnWethClaim,
              V!MintWethRefused, V!BurnWethRefused, V!AmountRefused, V!Reject,
              V!lockVars

(* The invariant of the vaults.                                            *)
VaultInv == VaultTypes /\ V!WethCovered /\ BooksInv

LEMMA InitVaultInv == V!Init => VaultInv
<1>. SUFFICES ASSUME V!Init PROVE VaultInv
  OBVIOUS
<1>1. VaultTypes
  BY DEF V!Init, VaultTypes, V!Unregistered, V!NoTickets
<1>2. V!WethCovered
  BY DEF V!Init, V!WethCovered, V!EthLockedOutstandingWei, V!Above
<1>3. ASSUME NEW o \in Owners
      PROVE  /\ SumFunctionOnSet(OwnMinted(o), EthVaultAddresses) = 0
             /\ SumFunctionOnSet(OwnBurned(o), EthVaultAddresses) = 0
  <2>1. \A v \in EthVaultAddresses : OwnMinted(o)[v] = 0 /\ OwnBurned(o)[v] = 0
    BY DEF V!Init, V!Unregistered, OwnMinted, OwnBurned
  <2>2. /\ OwnMinted(o) \in [EthVaultAddresses -> Nat]
        /\ OwnBurned(o) \in [EthVaultAddresses -> Nat]
    BY <1>1, OwnTypes
  <2>. QED  BY <2>1, <2>2, ConstantsType, SumOfZero
<1>4. BooksInv
  BY <1>3 DEF V!Init, BooksInv, V!Unregistered, V!NoTickets
<1>. QED  BY <1>1, <1>2, <1>4 DEF VaultInv

LEMMA NextVaultInv ==
  ASSUME VaultInv, V!Next \/ UNCHANGED vaultState
  PROVE  VaultInv'
<1>1. CASE V!Next
  BY <1>1, VaultsKeepTypes, ClaimsStayCovered, VaultsKeepBooks DEF VaultInv
<1>2. CASE UNCHANGED vaultState
  BY <1>2 DEF vaultState, VaultInv, VaultTypes, V!WethCovered,
     V!EthLockedOutstandingWei, BooksInv, OwnMinted, OwnBurned
<1>. QED  BY <1>1, <1>2

-----------------------------------------------------------------------------
(* The inventory: types and bindings.                                      *)

(* The variables of the inventory, without what a handler returns.         *)
InventoryTypes ==
  /\ dAppAddress \in BOOLEAN
  /\ ethSubByAddress \in [Addresses ->
       [owner : Registrants, index : Indexes] \cup {I!NoBinding}]
  /\ ethSubsByOwner \in [Registrants \X Indexes ->
       [address : SubAddresses, ethWei : Nat] \cup {I!NoEntry}]
  /\ balance \in [I!Assets \X Addresses -> Nat]
  /\ onL1 \in [I!Assets -> Int] /\ deposited \in [I!Assets -> Nat]
  /\ withdrawn \in [Addresses -> Nat] /\ raised \in [Tokens -> Nat]

(* No binding is one, and what is not listed has no wei.                   *)
LEMMA NoBindingIsNone ==
  /\ \A b \in [owner : Registrants, index : Indexes] : b # I!NoBinding
  /\ I!NoEntry.address = NoAddress /\ I!NoEntry.ethWei = 0
<1>1. \A b \in [owner : Registrants, index : Indexes] : b.owner # NoAddress
  BY ConstantsType
<1>2. I!NoBinding.owner = NoAddress
  BY DEF I!NoBinding
<1>3. I!NoEntry.address = NoAddress /\ I!NoEntry.ethWei = 0
  BY DEF I!NoEntry
<1>. QED  BY <1>1, <1>2, <1>3

(* A bound address is one that somebody registered.                        *)
LEMMA BoundType ==
  ASSUME InventoryTypes, I!BoundIsListed, NEW a \in Addresses,
         ethSubByAddress[a] # I!NoBinding
  PROVE  /\ ethSubByAddress[a].owner \in Registrants
         /\ ethSubByAddress[a].index \in Indexes
         /\ a \in SubAddresses
<1>1. /\ ethSubByAddress[a].owner \in Registrants
      /\ ethSubByAddress[a].index \in Indexes
  BY DEF InventoryTypes
<1>. DEFINE e == ethSubsByOwner[<<ethSubByAddress[a].owner, ethSubByAddress[a].index>>]
<1>2. e.address = a
  BY DEF I!BoundIsListed
<1>3. e \in [address : SubAddresses, ethWei : Nat] \cup {I!NoEntry}
  BY <1>1 DEF InventoryTypes
<1>. HIDE DEF e
<1>4. a \in SubAddresses
  BY <1>2, <1>3, NoBindingIsNone, ConstantsType
<1>. QED  BY <1>1, <1>4

(* The entry at an index, and one whose address or wei changed.            *)
LEMMA EntryType ==
  ASSUME InventoryTypes, NEW owner \in Registrants, NEW i \in Indexes,
         NEW a \in SubAddresses
  PROVE  /\ ethSubsByOwner[<<owner, i>>].ethWei \in Nat
         /\ [ethSubsByOwner[<<owner, i>>] EXCEPT !.address = a] =
              [address |-> a, ethWei |-> ethSubsByOwner[<<owner, i>>].ethWei]
<1>. DEFINE e == ethSubsByOwner[<<owner, i>>]
<1>1. e \in [address : SubAddresses, ethWei : Nat] \cup {I!NoEntry}
  BY DEF InventoryTypes
<1>2. e \in [address : SubAddresses \cup {NoAddress}, ethWei : Nat]
  BY <1>1 DEF I!NoEntry
<1>. HIDE DEF e
<1>3. e.ethWei \in Nat /\ [e EXCEPT !.address = a] = [address |-> a, ethWei |-> e.ethWei]
  BY <1>2
<1>. QED  BY <1>3 DEF e

(* What is shown at any index is an amount.                                *)
LEMMA EntryTypes ==
  ASSUME InventoryTypes
  PROVE  \A owner \in Registrants, i \in Indexes :
           ethSubsByOwner[<<owner, i>>].ethWei \in Nat
<1>1. \A e \in [address : SubAddresses, ethWei : Nat] \cup {I!NoEntry} :
        e.ethWei \in Nat
  BY NoBindingIsNone
<1>. QED  BY <1>1 DEF InventoryTypes

(* What registering does.                                                  *)
LEMMA RegisterEffect ==
  ASSUME InventoryTypes, NEW owner \in Registrants, NEW i \in Indexes,
         NEW a \in SubAddresses, I!RegisterEthSub(owner, i, a)
  PROVE  ethSubsByOwner' = [ethSubsByOwner EXCEPT ![<<owner, i>>] =
           [address |-> a, ethWei |-> ethSubsByOwner[<<owner, i>>].ethWei]]
<1>1. ethSubsByOwner' = [ethSubsByOwner EXCEPT ![<<owner, i>>] =
        [ethSubsByOwner[<<owner, i>>] EXCEPT !.address = a]]
  BY DEF I!RegisterEthSub
<1>. QED  BY <1>1, EntryType

(* Whom a deposit is credited to, and where it is shown.                   *)
LEMMA DepositEffect ==
  ASSUME InventoryTypes, I!BoundIsListed, NEW a \in Addresses, NEW wei \in Nat,
         I!EthPortalDeposit(a, wei)
  PROVE  \E c \in Addresses :
           /\ balance' = [balance EXCEPT ![<<I!ETH, c>>] = balance[<<I!ETH, c>>] + wei]
           /\ \/ ethSubsByOwner' = ethSubsByOwner
              \/ \E i \in Indexes :
                   /\ c \in Registrants /\ a \in SubAddresses
                   /\ ethSubByAddress[a] = [owner |-> c, index |-> i]
                   /\ ethSubsByOwner' = [ethSubsByOwner EXCEPT ![<<c, i>>] =
                        [address |-> a,
                         ethWei |-> ethSubsByOwner[<<c, i>>].ethWei + wei]]
<1>. DEFINE Raised(c) ==
       balance' = [balance EXCEPT ![<<I!ETH, c>>] = balance[<<I!ETH, c>>] + wei]
<1>1. ASSUME NEW c \in Addresses, I!Credited(a) = {c} PROVE Raised(c)
  <2>1. balance' = [h \in I!Assets \X Addresses |->
          IF h[1] = I!ETH /\ h[2] = c THEN balance[h] + wei ELSE balance[h]]
    BY <1>1 DEF I!EthPortalDeposit, InventoryTypes
  <2>2. \A h \in I!Assets \X Addresses :
          (h[1] = I!ETH /\ h[2] = c) <=> h = <<I!ETH, c>>
    OBVIOUS
  <2>3. balance' = [h \in I!Assets \X Addresses |->
          IF h = <<I!ETH, c>> THEN balance[<<I!ETH, c>>] + wei ELSE balance[h]]
    BY <2>1, <2>2
  <2>. QED  BY <2>3 DEF InventoryTypes
<1>2. CASE ethSubByAddress[a] = I!NoBinding
  <2>1. I!Credited(a) = {a}
    BY <1>2 DEF I!Credited
  <2>2. Raised(a)
    BY <1>1, <2>1
  <2>3. ethSubsByOwner' = ethSubsByOwner
    BY <1>2 DEF I!EthPortalDeposit
  <2>. QED  BY <2>2, <2>3
<1>3. CASE ethSubByAddress[a] # I!NoBinding
  <2>. DEFINE c == ethSubByAddress[a].owner
              i == ethSubByAddress[a].index
  <2>1. /\ c \in Registrants /\ c \in Addresses /\ i \in Indexes
        /\ a \in SubAddresses
    BY <1>3, BoundType, ConstantsType
  <2>2. ethSubByAddress[a] = [owner |-> c, index |-> i]
    BY <1>3 DEF InventoryTypes
  <2>3. Raised(c)
    <3>1. I!Credited(a) = {c}
      BY <1>3 DEF I!Credited
    <3>. QED  BY <1>1, <2>1, <3>1
  <2>4. ethSubsByOwner' = [ethSubsByOwner EXCEPT ![<<c, i>>] =
          [address |-> a, ethWei |-> ethSubsByOwner[<<c, i>>].ethWei + wei]]
    BY <1>3 DEF I!EthPortalDeposit
  <2>. QED  BY <2>1, <2>2, <2>3, <2>4
<1>. QED  BY <1>2, <1>3

(* What withdrawals of negative amounts added of an asset.                 *)
Extra(asset) == IF asset \in Tokens THEN raised[asset] ELSE 0

(* What a withdrawal takes from a balance is what its voucher gives out    *)
(* less what it adds, which is nothing for ETH.                            *)
LEMMA WithdrawEffect ==
  ASSUME InventoryTypes, NEW asset \in I!Assets, NEW a \in Addresses,
         NEW amount \in Int, NEW voucherOk \in BOOLEAN,
         I!Withdraw(asset, a, amount, voucherOk)
  PROVE  \E paid \in {0, amount}, out \in Nat, more \in Nat :
           /\ paid <= balance[<<asset, a>>] /\ paid = out - more
           /\ asset = I!ETH => more = 0
           /\ balance' = [balance EXCEPT ![<<asset, a>>] = balance[<<asset, a>>] - paid]
           /\ onL1' = [onL1 EXCEPT ![asset] = onL1[asset] - out]
           /\ withdrawn' = IF asset = I!ETH
                          THEN [withdrawn EXCEPT ![a] = withdrawn[a] + paid]
                          ELSE withdrawn
           /\ raised' = IF more > 0 THEN [raised EXCEPT ![asset] = raised[asset] + more]
                       ELSE raised
<1>. DEFINE paid == amount - I!PutBack(voucherOk, amount)
            out  == IF voucherOk THEN I!Transferred(amount) ELSE 0
            more == IF voucherOk /\ amount < 0 THEN 0 - amount ELSE 0
<1>1. /\ paid = IF voucherOk THEN amount ELSE 0
      /\ out \in Nat /\ more \in Nat /\ paid = out - more
  BY DEF I!PutBack, I!Transferred
<1>2. paid <= balance[<<asset, a>>]
  BY <1>1 DEF I!Withdraw, I!MayWithdraw, InventoryTypes
<1>3. balance' = [balance EXCEPT ![<<asset, a>>] = balance[<<asset, a>>] - paid]
  BY DEF I!Withdraw
<1>4. onL1' = [onL1 EXCEPT ![asset] = onL1[asset] - out]
  <2>1. CASE voucherOk
    <3>1. onL1' = [onL1 EXCEPT ![asset] = onL1[asset] - I!Transferred(amount)]
      BY <2>1 DEF I!Withdraw
    <3>. QED  BY <2>1, <3>1
  <2>2. CASE ~ voucherOk
    <3>1. onL1' = onL1 /\ out = 0
      BY <2>2 DEF I!Withdraw
    <3>2. onL1[asset] - 0 = onL1[asset]
      BY DEF InventoryTypes
    <3>. HIDE DEF out
    <3>. QED  BY <3>1, <3>2 DEF InventoryTypes
  <2>. QED  BY <2>1, <2>2
<1>5. withdrawn' = IF asset = I!ETH
                   THEN [withdrawn EXCEPT ![a] = withdrawn[a] + paid]
                   ELSE withdrawn
  BY DEF I!Withdraw
<1>6. asset = I!ETH => more = 0
  BY DEF I!Withdraw, I!MayWithdraw
<1>7. raised' = IF more > 0 THEN [raised EXCEPT ![asset] = raised[asset] + more]
                ELSE raised
  <2>1. CASE voucherOk /\ amount < 0
    <3>1. raised' = [raised EXCEPT ![asset] = raised[asset] - amount]
      BY <2>1 DEF I!Withdraw
    <3>2. more > 0 /\ more = 0 - amount
      BY <2>1
    <3>3. asset \in Tokens
      BY <1>6, <3>2 DEF I!Assets
    <3>4. raised[asset] - amount = raised[asset] + more
      BY <3>2, <3>3 DEF InventoryTypes
    <3>. HIDE DEF more
    <3>. QED  BY <3>1, <3>2, <3>4
  <2>2. CASE ~ (voucherOk /\ amount < 0)
    BY <2>2 DEF I!Withdraw
  <2>. QED  BY <2>1, <2>2
<1>8. paid \in {0, amount}
  BY <1>1
<1>. HIDE DEF paid, out, more
<1>. QED  BY <1>1, <1>2, <1>3, <1>4, <1>5, <1>6, <1>7, <1>8

(* All of an asset that the rollup owes, and an address's part of it.      *)
Balances(asset) == [a \in Addresses |-> balance[<<asset, a>>]]

(* The ETH shown for an owner's sub-wallets.                               *)
Shown(owner) == [i \in Indexes |-> ethSubsByOwner[<<owner, i>>].ethWei]

(* What is owed is what is held for it and what was added, and what is     *)
(* shown for sub-wallets is in their owner's balance or was withdrawn from *)
(* it.                                                                     *)
BackedInv ==
  /\ \A asset \in I!Assets :
       SumFunctionOnSet(Balances(asset), Addresses) = onL1[asset] + Extra(asset)
  /\ \A owner \in Registrants :
       SumFunctionOnSet(Shown(owner), Indexes)
         <= balance[<<I!ETH, owner>>] + withdrawn[owner]

(* The inventory's variables keep their types.                             *)
LEMMA InventoryKeepsTypes ==
  ASSUME InventoryTypes, I!BoundIsListed, I!Next
  PROVE  InventoryTypes' /\ returned' \in {"accept", "reject"}
<1>1. /\ DepositAmounts \subseteq Nat /\ Registrants \subseteq Addresses
      /\ WithdrawAmounts \subseteq Int
  BY ConstantsType
<1>2. CASE /\ UNCHANGED <<ethSubByAddress, ethSubsByOwner, balance, onL1,
                          deposited, withdrawn, raised>>
           /\ dAppAddress' \in BOOLEAN /\ returned' \in {"accept", "reject"}
  BY <1>2 DEF InventoryTypes
<1>3. ASSUME NEW owner \in Registrants, NEW i \in Indexes, NEW a \in SubAddresses,
             I!RegisterEthSub(owner, i, a)
      PROVE  InventoryTypes' /\ returned' = "accept"
  <2>1. ethSubByAddress' \in [Addresses ->
          [owner : Registrants, index : Indexes] \cup {I!NoBinding}]
    BY <1>3 DEF I!RegisterEthSub, I!WithBinding, InventoryTypes
  <2>2. ethSubsByOwner' \in [Registrants \X Indexes ->
          [address : SubAddresses, ethWei : Nat] \cup {I!NoEntry}]
    <3>. DEFINE n == ethSubsByOwner[<<owner, i>>].ethWei
    <3>1. ethSubsByOwner' = [ethSubsByOwner EXCEPT ![<<owner, i>>] =
            [address |-> a, ethWei |-> n]]
      BY <1>3, RegisterEffect
    <3>2. n \in Nat
      BY EntryType
    <3>. HIDE DEF n
    <3>. QED  BY <3>1, <3>2 DEF InventoryTypes
  <2>. QED  BY <1>3, <2>1, <2>2
            DEF I!RegisterEthSub, I!Accept, I!historyVars, InventoryTypes
<1>4. ASSUME NEW a \in Addresses, NEW wei \in Nat, I!EthPortalDeposit(a, wei)
      PROVE  InventoryTypes' /\ returned' = "accept"
  <2>1. PICK c \in Addresses :
          /\ balance' = [balance EXCEPT ![<<I!ETH, c>>] = balance[<<I!ETH, c>>] + wei]
          /\ \/ ethSubsByOwner' = ethSubsByOwner
             \/ \E i \in Indexes :
                  /\ c \in Registrants /\ a \in SubAddresses
                  /\ ethSubByAddress[a] = [owner |-> c, index |-> i]
                  /\ ethSubsByOwner' = [ethSubsByOwner EXCEPT ![<<c, i>>] =
                       [address |-> a,
                        ethWei |-> ethSubsByOwner[<<c, i>>].ethWei + wei]]
    BY <1>4, DepositEffect
  <2>2. I!ETH \in I!Assets
    BY DEF I!Assets
  <2>3. balance' \in [I!Assets \X Addresses -> Nat]
    BY <2>1, <2>2 DEF InventoryTypes
  <2>4. ethSubsByOwner' \in [Registrants \X Indexes ->
          [address : SubAddresses, ethWei : Nat] \cup {I!NoEntry}]
    <3>1. CASE ethSubsByOwner' = ethSubsByOwner
      BY <3>1 DEF InventoryTypes
    <3>2. ASSUME NEW i \in Indexes, c \in Registrants, a \in SubAddresses,
                 ethSubsByOwner' = [ethSubsByOwner EXCEPT ![<<c, i>>] =
                   [address |-> a,
                    ethWei |-> ethSubsByOwner[<<c, i>>].ethWei + wei]]
          PROVE  ethSubsByOwner' \in [Registrants \X Indexes ->
                   [address : SubAddresses, ethWei : Nat] \cup {I!NoEntry}]
      <4>. DEFINE n == ethSubsByOwner[<<c, i>>].ethWei + wei
      <4>1. ethSubsByOwner[<<c, i>>].ethWei \in Nat
        BY <3>2, EntryType
      <4>2. n \in Nat
        BY <4>1
      <4>. HIDE DEF n
      <4>. QED  BY <3>2, <4>2 DEF InventoryTypes, n
    <3>. QED  BY <2>1, <3>1, <3>2
  <2>5. onL1' \in [I!Assets -> Int] /\ deposited' \in [I!Assets -> Nat]
    BY <1>4, <2>2 DEF I!EthPortalDeposit, I!TakeIn, InventoryTypes
  <2>. QED  BY <1>4, <2>3, <2>4, <2>5 DEF I!EthPortalDeposit, I!Accept, InventoryTypes
<1>5. ASSUME NEW token \in Tokens, NEW a \in Addresses, NEW amount \in Nat,
             I!Erc20PortalDeposit(token, a, amount)
      PROVE  InventoryTypes' /\ returned' = "accept"
  <2>1. token \in I!Assets
    BY DEF I!Assets
  <2>2. balance' \in [I!Assets \X Addresses -> Nat]
    BY <1>5, <2>1 DEF I!Erc20PortalDeposit, InventoryTypes
  <2>3. onL1' \in [I!Assets -> Int] /\ deposited' \in [I!Assets -> Nat]
    BY <1>5, <2>1 DEF I!Erc20PortalDeposit, I!TakeIn, InventoryTypes
  <2>. QED  BY <1>5, <2>2, <2>3
            DEF I!Erc20PortalDeposit, I!Accept, I!subVars, InventoryTypes
<1>6. ASSUME NEW asset \in I!Assets, NEW a \in Addresses, NEW amount \in Int,
             NEW voucherOk \in BOOLEAN, I!Withdraw(asset, a, amount, voucherOk)
      PROVE  InventoryTypes' /\ returned' \in {"accept", "reject"}
  <2>1. PICK paid \in {0, amount}, out \in Nat, more \in Nat :
          /\ paid <= balance[<<asset, a>>] /\ paid = out - more
          /\ asset = I!ETH => more = 0
          /\ balance' = [balance EXCEPT ![<<asset, a>>] = balance[<<asset, a>>] - paid]
          /\ onL1' = [onL1 EXCEPT ![asset] = onL1[asset] - out]
          /\ withdrawn' = IF asset = I!ETH
                         THEN [withdrawn EXCEPT ![a] = withdrawn[a] + paid]
                         ELSE withdrawn
          /\ raised' = IF more > 0 THEN [raised EXCEPT ![asset] = raised[asset] + more]
                      ELSE raised
    BY <1>6, WithdrawEffect
  <2>2. balance' \in [I!Assets \X Addresses -> Nat]
    BY <2>1 DEF InventoryTypes
  <2>3. onL1' \in [I!Assets -> Int]
    BY <2>1 DEF InventoryTypes
  <2>4. withdrawn' \in [Addresses -> Nat]
    BY <2>1 DEF InventoryTypes
  <2>5. raised' \in [Tokens -> Nat]
    <3>1. more > 0 => asset \in Tokens
      BY <2>1 DEF I!Assets
    <3>. QED  BY <2>1, <3>1 DEF InventoryTypes
  <2>. QED  BY <1>6, <2>2, <2>3, <2>4, <2>5 DEF I!Withdraw, I!subVars, InventoryTypes
<1>7. ASSUME I!RelayDAppAddress \/ I!Ignored \/ I!Reject
      PROVE  InventoryTypes' /\ returned' \in {"accept", "reject"}
  BY <1>2, <1>7 DEF I!RelayDAppAddress, I!Ignored, I!Accept, I!Reject, I!subVars,
     I!historyVars, InventoryTypes
<1>. QED  BY <1>1, <1>3, <1>4, <1>5, <1>6, <1>7
          DEF I!Next, I!MalformedRefused, I!RegisterEthSubRefused, I!WithdrawRefused

(* The two tables of sub-wallets keep agreeing: an address that another    *)
(* one replaces at its index is unbound.                                   *)
LEMMA BindingsStayListed ==
  ASSUME InventoryTypes, I!BoundIsListed, I!Next
  PROVE  I!BoundIsListed'
<1>1. DepositAmounts \subseteq Nat
  BY ConstantsType
<1>2. CASE UNCHANGED <<ethSubByAddress, ethSubsByOwner>>
  BY <1>2 DEF I!BoundIsListed
<1>3. ASSUME NEW owner \in Registrants, NEW i \in Indexes, NEW a \in SubAddresses,
             I!RegisterEthSub(owner, i, a)
      PROVE  I!BoundIsListed'
  <2>. DEFINE e == ethSubsByOwner[<<owner, i>>]
  <2>1. ethSubsByOwner' = [ethSubsByOwner EXCEPT ![<<owner, i>>] =
          [address |-> a, ethWei |-> e.ethWei]]
    BY <1>3, RegisterEffect
  <2>2. ethSubByAddress' =
          [b \in Addresses |->
             IF b = a THEN [owner |-> owner, index |-> i]
             ELSE IF b = e.address THEN I!NoBinding ELSE ethSubByAddress[b]]
    BY <1>3 DEF I!RegisterEthSub, I!WithBinding
  <2>. SUFFICES ASSUME NEW b \in Addresses, ethSubByAddress'[b] # I!NoBinding
                PROVE  ethSubsByOwner'[<<ethSubByAddress'[b].owner,
                                         ethSubByAddress'[b].index>>].address = b
    BY DEF I!BoundIsListed
  <2>3. CASE b = a
    <3>1. ethSubByAddress'[b] = [owner |-> owner, index |-> i]
      BY <2>2, <2>3
    <3>2. ethSubsByOwner'[<<owner, i>>].address = a
      BY <2>1 DEF InventoryTypes
    <3>. QED  BY <2>3, <3>1, <3>2
  <2>4. CASE b # a
    <3>1. b # e.address /\ ethSubByAddress'[b] = ethSubByAddress[b]
      BY <2>2, <2>4
    <3>. DEFINE c == ethSubByAddress[b].owner
                j == ethSubByAddress[b].index
    <3>2. /\ c \in Registrants /\ j \in Indexes
          /\ ethSubsByOwner[<<c, j>>].address = b
      BY <3>1, BoundType DEF I!BoundIsListed
    <3>3. <<c, j>> # <<owner, i>>
      BY <3>1, <3>2
    <3>. HIDE DEF c, j, e
    <3>4. ethSubsByOwner'[<<c, j>>] = ethSubsByOwner[<<c, j>>]
      BY <2>1, <3>2, <3>3 DEF InventoryTypes
    <3>. QED  BY <3>1, <3>2, <3>4 DEF c, j
  <2>. QED  BY <2>3, <2>4
<1>4. ASSUME NEW a \in Addresses, NEW wei \in Nat, I!EthPortalDeposit(a, wei)
      PROVE  I!BoundIsListed'
  <2>1. UNCHANGED ethSubByAddress
    BY <1>4 DEF I!EthPortalDeposit
  <2>2. CASE ethSubsByOwner' = ethSubsByOwner
    BY <1>2, <2>1, <2>2
  <2>3. ASSUME NEW c \in Registrants, NEW i \in Indexes, NEW n,
               ethSubByAddress[a] = [owner |-> c, index |-> i],
               ethSubsByOwner' = [ethSubsByOwner EXCEPT ![<<c, i>>] =
                 [address |-> a, ethWei |-> n]]
        PROVE  I!BoundIsListed'
    <3>. SUFFICES ASSUME NEW b \in Addresses, ethSubByAddress[b] # I!NoBinding
                  PROVE  ethSubsByOwner'[<<ethSubByAddress[b].owner,
                                           ethSubByAddress[b].index>>].address = b
      BY <2>1 DEF I!BoundIsListed
    <3>. DEFINE d == ethSubByAddress[b].owner
                j == ethSubByAddress[b].index
    <3>1. /\ d \in Registrants /\ j \in Indexes
          /\ ethSubsByOwner[<<d, j>>].address = b
      BY BoundType DEF I!BoundIsListed
    <3>2. ethSubsByOwner[<<c, i>>].address = a
      <4>1. ethSubByAddress[a] # I!NoBinding
        BY <2>3, NoBindingIsNone
      <4>2. ethSubByAddress[a].owner = c /\ ethSubByAddress[a].index = i
        BY <2>3
      <4>. QED  BY <4>1, <4>2 DEF I!BoundIsListed
    <3>. HIDE DEF d, j
    <3>3. ethSubsByOwner'[<<d, j>>].address = b
      <4>1. CASE <<d, j>> = <<c, i>>
        BY <2>3, <3>1, <3>2, <4>1 DEF InventoryTypes
      <4>2. CASE <<d, j>> # <<c, i>>
        BY <2>3, <3>1, <4>2 DEF InventoryTypes
      <4>. QED  BY <4>1, <4>2
    <3>. QED  BY <3>3 DEF d, j
  <2>4. \/ ethSubsByOwner' = ethSubsByOwner
        \/ \E c \in Registrants, i \in Indexes :
             /\ ethSubByAddress[a] = [owner |-> c, index |-> i]
             /\ ethSubsByOwner' = [ethSubsByOwner EXCEPT ![<<c, i>>] =
                  [address |-> a,
                   ethWei |-> ethSubsByOwner[<<c, i>>].ethWei + wei]]
    <3>1. PICK c \in Addresses :
            /\ balance' = [balance EXCEPT ![<<I!ETH, c>>] = balance[<<I!ETH, c>>] + wei]
            /\ \/ ethSubsByOwner' = ethSubsByOwner
               \/ \E i \in Indexes :
                    /\ c \in Registrants /\ a \in SubAddresses
                    /\ ethSubByAddress[a] = [owner |-> c, index |-> i]
                    /\ ethSubsByOwner' = [ethSubsByOwner EXCEPT ![<<c, i>>] =
                         [address |-> a,
                          ethWei |-> ethSubsByOwner[<<c, i>>].ethWei + wei]]
      <4>1. I!EthPortalDeposit(a, wei) /\ a \in Addresses /\ wei \in Nat
        BY <1>4
      <4>2. InventoryTypes /\ I!BoundIsListed
        OBVIOUS
      <4>. QED  BY <4>1, <4>2, DepositEffect
    <3>. QED  BY <3>1
  <2>. QED  BY <2>2, <2>3, <2>4
<1>. QED  BY <1>1, <1>2, <1>3, <1>4
          DEF I!Next, I!RelayDAppAddress, I!Ignored, I!MalformedRefused,
              I!RegisterEthSubRefused, I!Erc20PortalDeposit, I!Withdraw,
              I!WithdrawRefused, I!Reject, I!subVars

-----------------------------------------------------------------------------
(* The inventory: what is owed is held.                                    *)

(* A change of one balance that onL1, or what was added, follows.          *)
LEMMA BalanceAtOne ==
  ASSUME InventoryTypes, InventoryTypes', BackedInv,
         NEW asset \in I!Assets, NEW c \in Addresses, NEW n \in Nat, NEW m \in Int,
         balance' = [balance EXCEPT ![<<asset, c>>] = n],
         onL1' = [onL1 EXCEPT ![asset] = m],
         \A other \in I!Assets \ {asset} : Extra(other)' = Extra(other),
         n + (onL1[asset] + Extra(asset))
           = balance[<<asset, c>>] + (m + Extra(asset)')
  PROVE  \A other \in I!Assets :
           SumFunctionOnSet(Balances(other)', Addresses) = onL1'[other] + Extra(other)'
<1>. SUFFICES ASSUME NEW other \in I!Assets
              PROVE  SumFunctionOnSet(Balances(other)', Addresses)
                       = onL1'[other] + Extra(other)'
  OBVIOUS
<1>1. SumFunctionOnSet(Balances(other), Addresses) = onL1[other] + Extra(other)
  BY DEF BackedInv
<1>2. CASE other # asset
  <2>1. Balances(other)' = Balances(other)
    BY <1>2 DEF Balances, InventoryTypes
  <2>2. onL1'[other] = onL1[other] /\ Extra(other)' = Extra(other)
    BY <1>2 DEF InventoryTypes
  <2>. QED  BY <1>1, <2>1, <2>2
<1>3. CASE other = asset
  <2>. DEFINE f == Balances(asset)
              g == Balances(asset)'
              e == Extra(asset)
              d == Extra(asset)'
              l == onL1[asset]
  <2>1. /\ f \in [Addresses -> Nat] /\ g \in [Addresses -> Nat]
        /\ f[c] = balance[<<asset, c>>] /\ g[c] = n
        /\ \A a \in Addresses \ {c} : g[a] = f[a]
    BY DEF Balances, InventoryTypes
  <2>2. IsFiniteSet(Addresses) /\ Addresses \in SUBSET Addresses
    BY ConstantsType
  <2>. HIDE DEF f, g
  <2>3. SumFunctionOnSet(g, Addresses) + f[c] = SumFunctionOnSet(f, Addresses) + g[c]
    BY <2>1, <2>2, SumAtOne
  <2>4. SumFunctionOnSet(g, Addresses) \in Nat
    BY <2>1, <2>2, SumType
  <2>5. onL1'[asset] = m /\ l \in Int /\ e \in Nat /\ d \in Nat
    BY DEF Extra, InventoryTypes
  <2>6. SumFunctionOnSet(f, Addresses) = l + e /\ f[c] \in Nat
    BY <1>1, <1>3, <2>1 DEF f
  <2>7. n + (l + e) = f[c] + (m + d)
    BY <2>1
  <2>. HIDE DEF e, d, l
  <2>8. SumFunctionOnSet(g, Addresses) = m + d
    BY <2>1, <2>3, <2>4, <2>5, <2>6, <2>7
  <2>. QED  BY <1>3, <2>5, <2>8 DEF g, d
<1>. QED  BY <1>2, <1>3

(* A change of one balance leaves what is shown covered when what is shown *)
(* rises by no more than the owner's balance and withdrawals.              *)
LEMMA ShownAtOne ==
  ASSUME InventoryTypes, InventoryTypes', BackedInv,
         NEW owner \in Registrants, NEW i \in Indexes, NEW n \in Nat,
         Shown(owner)' = [Shown(owner) EXCEPT ![i] = Shown(owner)[i] + n],
         balance'[<<I!ETH, owner>>] + withdrawn'[owner]
           = balance[<<I!ETH, owner>>] + withdrawn[owner] + n
  PROVE  SumFunctionOnSet(Shown(owner)', Indexes)
           <= balance'[<<I!ETH, owner>>] + withdrawn'[owner]
<1>. DEFINE f == Shown(owner)
            g == Shown(owner)'
<1>1. f \in [Indexes -> Nat]
  BY EntryTypes DEF Shown
<1>2. g \in [Indexes -> Nat] /\ g[i] = f[i] + n /\ \A j \in Indexes \ {i} : g[j] = f[j]
  BY <1>1
<1>3. IsFiniteSet(Indexes) /\ Indexes \in SUBSET Indexes
  BY ConstantsType
<1>4. SumFunctionOnSet(f, Indexes) <= balance[<<I!ETH, owner>>] + withdrawn[owner]
  BY DEF BackedInv
<1>. HIDE DEF f, g
<1>5. SumFunctionOnSet(g, Indexes) = SumFunctionOnSet(f, Indexes) + n
  BY <1>1, <1>2, <1>3, SumRaised
<1>6. SumFunctionOnSet(f, Indexes) \in Nat
  BY <1>1, <1>3, SumType
<1>7. balance[<<I!ETH, owner>>] \in Nat /\ withdrawn[owner] \in Nat
  <2>1. I!ETH \in I!Assets /\ owner \in Addresses
    BY ConstantsType DEF I!Assets
  <2>. QED  BY <2>1 DEF InventoryTypes
<1>8. SumFunctionOnSet(g, Indexes) <= balance'[<<I!ETH, owner>>] + withdrawn'[owner]
  BY <1>4, <1>5, <1>6, <1>7
<1>. QED  BY <1>8 DEF g

(* What is owed stays held, whichever address a deposit is credited to and *)
(* whether a voucher was emitted or not.                                   *)
LEMMA InventoryStaysBacked ==
  ASSUME InventoryTypes, InventoryTypes', I!BoundIsListed, BackedInv, I!Next
  PROVE  BackedInv'
<1>1. /\ DepositAmounts \subseteq Nat /\ Registrants \subseteq Addresses
      /\ WithdrawAmounts \subseteq Int
  BY ConstantsType
<1>2. CASE UNCHANGED <<ethSubsByOwner, balance, onL1, withdrawn, raised>>
  BY <1>2 DEF BackedInv, Balances, Shown, Extra
<1>3. ASSUME NEW owner \in Registrants, NEW i \in Indexes, NEW a \in SubAddresses,
             I!RegisterEthSub(owner, i, a)
      PROVE  BackedInv'
  <2>1. UNCHANGED <<balance, onL1, withdrawn, raised>>
    BY <1>3 DEF I!RegisterEthSub, I!historyVars
  <2>2. \A p \in Registrants, j \in Indexes :
          ethSubsByOwner'[<<p, j>>].ethWei = ethSubsByOwner[<<p, j>>].ethWei
    <3>. SUFFICES ASSUME NEW p \in Registrants, NEW j \in Indexes
                  PROVE  ethSubsByOwner'[<<p, j>>].ethWei = ethSubsByOwner[<<p, j>>].ethWei
      OBVIOUS
    <3>1. ethSubsByOwner' = [ethSubsByOwner EXCEPT ![<<owner, i>>] =
            [address |-> a, ethWei |-> ethSubsByOwner[<<owner, i>>].ethWei]]
      BY <1>3, RegisterEffect
    <3>2. CASE <<p, j>> = <<owner, i>>
      BY <3>1, <3>2 DEF InventoryTypes
    <3>3. CASE <<p, j>> # <<owner, i>>
      BY <3>1, <3>3 DEF InventoryTypes
    <3>. QED  BY <3>2, <3>3
  <2>. QED  BY <2>1, <2>2 DEF BackedInv, Balances, Shown, Extra
<1>4. ASSUME NEW a \in Addresses, NEW wei \in Nat, I!EthPortalDeposit(a, wei)
      PROVE  BackedInv'
  <2>1. PICK c \in Addresses :
          /\ balance' = [balance EXCEPT ![<<I!ETH, c>>] = balance[<<I!ETH, c>>] + wei]
          /\ \/ ethSubsByOwner' = ethSubsByOwner
             \/ \E i \in Indexes :
                  /\ c \in Registrants /\ a \in SubAddresses
                  /\ ethSubByAddress[a] = [owner |-> c, index |-> i]
                  /\ ethSubsByOwner' = [ethSubsByOwner EXCEPT ![<<c, i>>] =
                       [address |-> a,
                        ethWei |-> ethSubsByOwner[<<c, i>>].ethWei + wei]]
    BY <1>4, DepositEffect
  <2>2. /\ I!ETH \in I!Assets
        /\ onL1' = [onL1 EXCEPT ![I!ETH] = onL1[I!ETH] + wei]
        /\ UNCHANGED <<withdrawn, raised>>
    BY <1>4 DEF I!EthPortalDeposit, I!TakeIn, I!Assets
  <2>3. \A other \in I!Assets :
          SumFunctionOnSet(Balances(other)', Addresses) = onL1'[other] + Extra(other)'
    <3>. DEFINE n == balance[<<I!ETH, c>>] + wei
                m == onL1[I!ETH] + wei
    <3>0. \A other \in I!Assets : Extra(other)' = Extra(other) /\ Extra(other) \in Nat
      BY <2>2 DEF Extra, InventoryTypes
    <3>1. /\ n \in Nat /\ m \in Int
          /\ n + (onL1[I!ETH] + Extra(I!ETH))
               = balance[<<I!ETH, c>>] + (m + Extra(I!ETH)')
      BY <2>2, <3>0 DEF InventoryTypes
    <3>2. balance' = [balance EXCEPT ![<<I!ETH, c>>] = n] /\ onL1' = [onL1 EXCEPT ![I!ETH] = m]
      BY <2>1, <2>2
    <3>. HIDE DEF n, m
    <3>. QED  BY <2>2, <3>0, <3>1, <3>2, BalanceAtOne
  <2>4. ASSUME NEW owner \in Registrants
        PROVE  SumFunctionOnSet(Shown(owner)', Indexes)
                 <= balance'[<<I!ETH, owner>>] + withdrawn'[owner]
    <3>1. /\ owner # c => balance'[<<I!ETH, owner>>] = balance[<<I!ETH, owner>>]
          /\ balance'[<<I!ETH, c>>] = balance[<<I!ETH, c>>] + wei
          /\ balance[<<I!ETH, owner>>] \in Nat /\ withdrawn[owner] \in Nat
      BY <1>1, <2>1, <2>2 DEF InventoryTypes
    <3>2. CASE Shown(owner)' = Shown(owner)
      <4>1. SumFunctionOnSet(Shown(owner), Indexes)
              <= balance[<<I!ETH, owner>>] + withdrawn[owner]
        BY DEF BackedInv
      <4>2. SumFunctionOnSet(Shown(owner), Indexes) \in Nat
        <5>1. Shown(owner) \in [Indexes -> Nat]
          BY EntryTypes DEF Shown
        <5>. QED  BY <5>1, ConstantsType, SumType
      <4>3. balance[<<I!ETH, owner>>] <= balance'[<<I!ETH, owner>>]
            /\ balance'[<<I!ETH, owner>>] \in Nat
        BY <3>1
      <4>. QED  BY <2>2, <3>1, <3>2, <4>1, <4>2, <4>3
    <3>3. CASE Shown(owner)' # Shown(owner)
      <4>1. PICK i \in Indexes :
              /\ c \in Registrants /\ a \in SubAddresses
              /\ ethSubsByOwner' = [ethSubsByOwner EXCEPT ![<<c, i>>] =
                   [address |-> a, ethWei |-> ethSubsByOwner[<<c, i>>].ethWei + wei]]
        BY <2>1, <3>3 DEF Shown
      <4>2. \A j \in Indexes : /\ j # i \/ owner # c =>
                                   ethSubsByOwner'[<<owner, j>>] = ethSubsByOwner[<<owner, j>>]
                               /\ ethSubsByOwner'[<<c, i>>].ethWei =
                                   ethSubsByOwner[<<c, i>>].ethWei + wei
        BY <4>1 DEF InventoryTypes
      <4>3. owner = c
        BY <3>3, <4>2 DEF Shown
      <4>4. Shown(owner)' = [Shown(owner) EXCEPT ![i] = Shown(owner)[i] + wei]
        BY <4>2, <4>3 DEF Shown
      <4>5. balance'[<<I!ETH, owner>>] + withdrawn'[owner]
              = balance[<<I!ETH, owner>>] + withdrawn[owner] + wei
        BY <2>2, <3>1, <4>3
      <4>. QED  BY <4>4, <4>5, ShownAtOne
    <3>. QED  BY <3>2, <3>3
  <2>. QED  BY <2>3, <2>4 DEF BackedInv
<1>5. ASSUME NEW token \in Tokens, NEW a \in Addresses, NEW amount \in Nat,
             I!Erc20PortalDeposit(token, a, amount)
      PROVE  BackedInv'
  <2>1. token \in I!Assets /\ token # I!ETH
    BY ConstantsType DEF I!Assets
  <2>2. \A other \in I!Assets :
          SumFunctionOnSet(Balances(other)', Addresses) = onL1'[other] + Extra(other)'
    <3>. DEFINE n == balance[<<token, a>>] + amount
                m == onL1[token] + amount
    <3>0. \A other \in I!Assets : Extra(other)' = Extra(other) /\ Extra(other) \in Nat
      BY <1>5 DEF Extra, I!Erc20PortalDeposit, InventoryTypes
    <3>1. /\ n \in Nat /\ m \in Int
          /\ n + (onL1[token] + Extra(token))
               = balance[<<token, a>>] + (m + Extra(token)')
      BY <2>1, <3>0 DEF InventoryTypes
    <3>2. balance' = [balance EXCEPT ![<<token, a>>] = n] /\ onL1' = [onL1 EXCEPT ![token] = m]
      BY <1>5 DEF I!Erc20PortalDeposit, I!TakeIn
    <3>. HIDE DEF n, m
    <3>. QED  BY <2>1, <3>0, <3>1, <3>2, BalanceAtOne
  <2>3. /\ UNCHANGED <<ethSubsByOwner, withdrawn>>
        /\ \A owner \in Registrants : balance'[<<I!ETH, owner>>] = balance[<<I!ETH, owner>>]
    BY <1>1, <1>5, <2>1 DEF I!Erc20PortalDeposit, I!subVars, InventoryTypes, I!Assets
  <2>. QED  BY <2>2, <2>3 DEF BackedInv, Shown
<1>6. ASSUME NEW asset \in I!Assets, NEW a \in Addresses, NEW amount \in Int,
             NEW voucherOk \in BOOLEAN, I!Withdraw(asset, a, amount, voucherOk)
      PROVE  BackedInv'
  <2>1. PICK paid \in {0, amount}, out \in Nat, more \in Nat :
          /\ paid <= balance[<<asset, a>>] /\ paid = out - more
          /\ asset = I!ETH => more = 0
          /\ balance' = [balance EXCEPT ![<<asset, a>>] = balance[<<asset, a>>] - paid]
          /\ onL1' = [onL1 EXCEPT ![asset] = onL1[asset] - out]
          /\ withdrawn' = IF asset = I!ETH
                         THEN [withdrawn EXCEPT ![a] = withdrawn[a] + paid]
                         ELSE withdrawn
          /\ raised' = IF more > 0 THEN [raised EXCEPT ![asset] = raised[asset] + more]
                      ELSE raised
    BY <1>6, WithdrawEffect
  <2>2. \A other \in I!Assets :
          SumFunctionOnSet(Balances(other)', Addresses) = onL1'[other] + Extra(other)'
    <3>. DEFINE n == balance[<<asset, a>>] - paid
                m == onL1[asset] - out
    <3>0. \A other \in I!Assets \ {asset} : Extra(other)' = Extra(other)
      BY <2>1 DEF Extra, InventoryTypes
    <3>1. Extra(asset)' = Extra(asset) + more /\ Extra(asset) \in Nat
      <4>1. CASE asset \in Tokens
        BY <2>1, <4>1 DEF Extra, InventoryTypes
      <4>2. CASE asset \notin Tokens
        <5>1. asset = I!ETH
          BY <4>2 DEF I!Assets
        <5>. QED  BY <2>1, <4>2, <5>1 DEF Extra
      <4>. QED  BY <4>1, <4>2
    <3>2. /\ n \in Nat /\ m \in Int
          /\ n + (onL1[asset] + Extra(asset))
               = balance[<<asset, a>>] + (m + Extra(asset)')
      <4>1. balance[<<asset, a>>] \in Nat /\ onL1[asset] \in Int /\ paid \in Int
        BY DEF InventoryTypes
      <4>. QED  BY <2>1, <3>1, <4>1
    <3>3. balance' = [balance EXCEPT ![<<asset, a>>] = n] /\ onL1' = [onL1 EXCEPT ![asset] = m]
      BY <2>1
    <3>. HIDE DEF n, m
    <3>. QED  BY <3>0, <3>2, <3>3, BalanceAtOne
  <2>3. ASSUME NEW owner \in Registrants
        PROVE  balance'[<<I!ETH, owner>>] + withdrawn'[owner]
                 = balance[<<I!ETH, owner>>] + withdrawn[owner]
    <3>1. I!ETH \in I!Assets
      BY DEF I!Assets
    <3>2. CASE asset = I!ETH /\ owner = a
      <4>1. /\ balance'[<<I!ETH, owner>>] = balance[<<I!ETH, owner>>] - paid
            /\ withdrawn'[owner] = withdrawn[owner] + paid
            /\ balance[<<I!ETH, owner>>] \in Nat /\ withdrawn[owner] \in Nat
        BY <2>1, <3>1, <3>2 DEF InventoryTypes
      <4>. QED  BY <2>1, <3>2, <4>1
    <3>3. CASE ~ (asset = I!ETH /\ owner = a)
      BY <1>1, <2>1, <3>1, <3>3 DEF InventoryTypes
    <3>. QED  BY <3>2, <3>3
  <2>4. UNCHANGED ethSubsByOwner
    BY <1>6 DEF I!Withdraw, I!subVars
  <2>. QED  BY <2>2, <2>3, <2>4 DEF BackedInv, Shown
<1>. QED  BY <1>1, <1>2, <1>3, <1>4, <1>5, <1>6
          DEF I!Next, I!RelayDAppAddress, I!Ignored, I!MalformedRefused,
              I!RegisterEthSubRefused, I!WithdrawRefused, I!Reject, I!subVars,
              I!historyVars

(* The invariant of the inventory.                                         *)
InventoryInv == InventoryTypes /\ I!BoundIsListed /\ BackedInv

LEMMA InitInventoryInv == I!Init => InventoryInv
<1>. SUFFICES ASSUME I!Init PROVE InventoryInv
  OBVIOUS
<1>1. InventoryTypes
  <2>1. /\ dAppAddress \in BOOLEAN
        /\ ethSubByAddress \in [Addresses ->
             [owner : Registrants, index : Indexes] \cup {I!NoBinding}]
        /\ ethSubsByOwner \in [Registrants \X Indexes ->
             [address : SubAddresses, ethWei : Nat] \cup {I!NoEntry}]
    BY DEF I!Init
  <2>2. /\ balance \in [I!Assets \X Addresses -> Nat]
        /\ onL1 \in [I!Assets -> Int] /\ deposited \in [I!Assets -> Nat]
        /\ withdrawn \in [Addresses -> Nat] /\ raised \in [Tokens -> Nat]
    BY DEF I!Init
  <2>. QED  BY <2>1, <2>2 DEF InventoryTypes
<1>2. I!BoundIsListed
  BY DEF I!Init, I!BoundIsListed
<1>3. ASSUME NEW asset \in I!Assets
      PROVE  SumFunctionOnSet(Balances(asset), Addresses) = onL1[asset] + Extra(asset)
  <2>1. /\ Balances(asset) \in [Addresses -> Nat]
        /\ \A a \in Addresses : Balances(asset)[a] = 0
        /\ onL1[asset] = 0 /\ Extra(asset) = 0
    BY DEF I!Init, Balances, Extra
  <2>. QED  BY <2>1, ConstantsType, SumOfZero
<1>4. ASSUME NEW owner \in Registrants
      PROVE  SumFunctionOnSet(Shown(owner), Indexes)
               <= balance[<<I!ETH, owner>>] + withdrawn[owner]
  <2>1. /\ Shown(owner) \in [Indexes -> Nat]
        /\ \A i \in Indexes : Shown(owner)[i] = 0
    BY NoBindingIsNone DEF I!Init, Shown
  <2>2. balance[<<I!ETH, owner>>] = 0 /\ withdrawn[owner] = 0
    BY ConstantsType DEF I!Init, I!Assets
  <2>. QED  BY <2>1, <2>2, ConstantsType, SumOfZero
<1>. QED  BY <1>1, <1>2, <1>3, <1>4 DEF InventoryInv, BackedInv

LEMMA NextInventoryInv ==
  ASSUME InventoryInv, I!Next \/ UNCHANGED inventoryState
  PROVE  InventoryInv'
<1>1. CASE I!Next
  BY <1>1, InventoryKeepsTypes, BindingsStayListed, InventoryStaysBacked
     DEF InventoryInv
<1>2. CASE UNCHANGED inventoryState
  BY <1>2 DEF inventoryState, InventoryInv, InventoryTypes, I!BoundIsListed,
     BackedInv, Balances, Shown, Extra
<1>. QED  BY <1>1, <1>2

(* It is what InventoryBacked says.                                        *)
LEMMA InventoryInvBacks ==
  ASSUME InventoryInv
  PROVE  I!InventoryBacked
<1>1. \A asset \in I!Assets :
        I!HeldBy(asset) = SumFunctionOnSet(Balances(asset), Addresses)
  BY SumsAreSums DEF I!HeldBy, Balances
<1>2. \A owner \in Registrants :
        I!ShownFor(owner) = SumFunctionOnSet(Shown(owner), Indexes)
  BY SumsAreSums DEF I!ShownFor, Shown
<1>3. /\ I!ETH \in I!Assets /\ Extra(I!ETH) = 0 /\ onL1[I!ETH] \in Int
      /\ \A token \in Tokens : token \in I!Assets /\ Extra(token) = raised[token]
  BY ConstantsType DEF I!Assets, Extra, InventoryInv, InventoryTypes
<1>4. onL1[I!ETH] + Extra(I!ETH) = onL1[I!ETH]
  BY <1>3
<1>. QED  BY <1>1, <1>2, <1>3, <1>4 DEF InventoryInv, BackedInv, I!InventoryBacked

-----------------------------------------------------------------------------
(* The loop.                                                               *)

(* Where the process is, and what the server may take as an answer: a      *)
(* status that is posted while the server waits on an input that reached   *)
(* the process is the result of that input.                                *)
LoopInv ==
  /\ status \in {"accept", "reject"} /\ returned \in {"accept", "reject"}
  /\ serves \in {"vaults", "inventory"}
  /\ phase \in {"finish", "wait", "handle", "end"}
  /\ pending \in Kinds \cup {Nothing, Unseen} /\ handled \in {0, 1}
  /\ pending \notin Kinds => handled = 0
  /\ phase = "handle" => pending \in Kinds /\ handled = 0
  /\ phase \in {"finish", "wait"} /\ pending \in Kinds
       => handled = 1 /\ status = returned

(* The invariant of the loop and what runs in it.                          *)
RollupInv == LoopInv /\ VaultInv /\ InventoryInv

LEMMA InitRollupInv == Init => RollupInv
<1>1. Init => LoopInv
  BY DEF Init, LoopInv, V!Init, Kinds, Nothing, Unseen
<1>. QED  BY <1>1, InitVaultInv, InitInventoryInv DEF Init, RollupInv

LEMMA NextRollupInv == RollupInv /\ [Next]_vars => RollupInv'
<1>. SUFFICES ASSUME RollupInv, [Next]_vars PROVE RollupInv'
  OBVIOUS
<1>. USE DEF RollupInv
<1>1. ASSUME UNCHANGED <<vaultState, inventoryState>>, LoopInv'
      PROVE  RollupInv'
  BY <1>1, NextVaultInv, NextInventoryInv
<1>2. ASSUME NEW kind \in Kinds, FinishNext(kind) PROVE RollupInv'
  BY <1>1, <1>2 DEF FinishNext, LoopInv
<1>3. CASE FinishElse \/ FinishLost
  <2>1. Nothing \notin Kinds /\ Unseen \notin Kinds
    BY DEF Kinds, Nothing, Unseen
  <2>. QED  BY <1>1, <1>3, <2>1 DEF FinishElse, FinishLost, MaybeTaken, Taken, LoopInv
<1>4. CASE WaitOver
  BY <1>1, <1>4 DEF WaitOver, LoopInv
<1>5. CASE HandleAdvance
  <2>1. /\ \/ V!Next /\ UNCHANGED inventoryState
           \/ I!Next /\ UNCHANGED vaultState
        /\ Handled /\ phase = "handle"
    BY <1>5 DEF HandleAdvance
  <2>2. VaultInv' /\ InventoryInv'
    BY <2>1, NextVaultInv, NextInventoryInv
  <2>3. returned' \in {"accept", "reject"}
    BY <2>1, VaultsKeepTypes, InventoryKeepsTypes DEF VaultInv, InventoryInv
  <2>4. LoopInv'
    BY <2>1, <2>3 DEF LoopInv, Handled, StatusAfter
  <2>. QED  BY <2>2, <2>4
<1>6. CASE HandleInspect
  BY <1>1, <1>6 DEF HandleInspect, Handled, StatusAfter, LoopInv
<1>7. CASE HandlerThrows
  BY <1>1, <1>7 DEF HandlerThrows, LoopInv
<1>8. CASE UNCHANGED vars
  BY <1>1, <1>8 DEF vars, LoopInv
<1>. QED  BY <1>2, <1>3, <1>4, <1>5, <1>6, <1>7, <1>8 DEF Next

(* So it always holds.                                                     *)
LEMMA RollupInvHolds == Spec => []RollupInv
BY InitRollupInv, NextRollupInv, PTL DEF Spec

(* The loop's variables and those of both components have their types.     *)
THEOREM TypeCorrect == Spec => []TypeOK
<1>1. RollupInv => TypeOK
  BY DEF RollupInv, LoopInv, VaultInv, InventoryInv, VaultTypes, InventoryTypes,
     TypeOK, V!TypeOK, I!TypeOK
<1>. QED  BY <1>1, RollupInvHolds, PTL

(* An owner's wETH claims stay within the ETH it has locked in all of its  *)
(* vaults, in every order of locks, mints, burns and unlocks.              *)
THEOREM WethIsCovered == Spec => []WethCovered
<1>1. RollupInv => WethCovered
  BY DEF RollupInv, VaultInv, WethCovered
<1>. QED  BY <1>1, RollupInvHolds, PTL

(* The owners' books, the vaults' and the tickets agree, also when vaults  *)
(* are registered again or change hands from nobody to an owner.           *)
THEOREM LockBooksAlwaysAgree == Spec => []LockBooksAgree
<1>1. RollupInv => LockBooksAgree
  BY BooksInvAgrees DEF RollupInv, VaultInv, LockBooksAgree
<1>. QED  BY <1>1, RollupInvHolds, PTL

(* What the rollup owes of ETH is what the portals took in less what       *)
(* vouchers give out; of CTSI and USDC that and what withdrawals of        *)
(* negative amounts added.  What is shown for sub-wallets is in their      *)
(* owner's inventory or was withdrawn from it.                             *)
THEOREM InventoryIsBacked == Spec => []InventoryBacked
<1>1. RollupInv => InventoryBacked
  BY InventoryInvBacks DEF RollupInv, InventoryBacked
<1>. QED  BY <1>1, RollupInvHolds, PTL

(* A bound address is listed at its owner's index, whatever is registered  *)
(* over whatever.                                                          *)
THEOREM BoundIsAlwaysListed == Spec => []BoundIsListed
<1>1. RollupInv => BoundIsListed
  BY DEF RollupInv, InventoryInv, BoundIsListed
<1>. QED  BY <1>1, RollupInvHolds, PTL

(* A status that the server takes as the answer to an input that reached   *)
(* the process is the result of the one time it was handled, however often *)
(* posts are repeated and whatever became of other responses.              *)
THEOREM AnswersAreTheirOwn == Spec => AnswersAreOwn
<1>1. RollupInv /\ [Next]_vars =>
        [phase = "finish" /\ pending \in Kinds /\ handled' = 0
         => status = returned /\ handled = 1]_vars
  BY DEF RollupInv, LoopInv
<1>. QED  BY <1>1, RollupInvHolds, PTL DEF Spec, AnswersAreOwn

=============================================================================
