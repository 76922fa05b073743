----------------------------- MODULE LoopProofs -----------------------------
(***************************************************************************)
(* Proofs about the loops that run inside a function: the walk over the    *)
(* pool's users, which debits what FifoDebits says, and those of the       *)
(* native verifier: its keyed loop, the writes to its two hashers, the     *)
(* shifts of its floats, from which its verdict follows, and the windows   *)
(* and tables of its arithmetic.                                           *)
(***************************************************************************)
EXTENDS FifoLoop, ClHash, VerusHasher, Sha256, JanusCheck, Clmul, SumTheorems,
        SequenceTheorems, WellFoundedInduction

-----------------------------------------------------------------------------
(* The walk over the users: its invariant.                                 *)

(* The users Map during the walk over it.                                  *)
Order == WithUser(known, first)

Distinct(order) == \A i, j \in DOMAIN order : order[i] = order[j] => i = j

(* Entries of a Map before the n-th, and whom the walk has been at then.   *)
Before(order, n) == {order[i] : i \in {j \in DOMAIN order : j < n}}
Visited(n) == {first} \cup Before(Order, n)

(* Nobody has anything left.                                               *)
Broke == \A o \in Owners : balance[o] = 0

(* Of the owners in S, the walk has entered those whom Order did not have. *)
Entered(S) ==
  \E more \in Seq(Owners) : /\ Distinct(more)
                            /\ Range(more) = S \ Range(Order)
                            /\ users = Order \o more

InputInv ==
  /\ goesToVaults \in BOOLEAN /\ first \in Owners /\ amount \in Nat \ {0}
  /\ known \in Seq(Owners) /\ vaultOrder \in Seq(Owners)
  /\ Distinct(known)
  /\ had \in [Owners -> Nat]
  /\ \A o \in Owners \ Range(known) : had[o] = 0

DebitInv ==
  /\ balance \in [Owners -> Nat] /\ left \in Nat
  /\ \A o \in Owners : balance[o] <= had[o]
  /\ SumFunction(balance) + amount = SumFunction(had) + left
  /\ \A a, b \in Owners :
       Ahead(Order, first, a, b) /\ balance[b] < had[b] => balance[a] = 0

(* While something is left, who was visited has nothing and who was not    *)
(* has all; the walk goes to the vaults only when nobody has anything.     *)
PlaceInv ==
  \/ pc = "first" /\ users = known /\ balance = had /\ left = amount
  \/ /\ pc = "users" /\ users = Order /\ pos \in Nat \ {0}
     /\ left > 0 => \A o \in Owners :
          balance[o] = IF o \in Visited(pos) THEN 0 ELSE had[o]
  \/ /\ pc = "vaults" /\ goesToVaults /\ left > 0 /\ Broke
     /\ pos \in Nat \ {0}
     /\ Entered(Before(vaultOrder, pos))
  \/ pc = "done" /\ left = 0 /\ users = Order
  \/ /\ pc = "done" /\ left > 0 /\ Broke
     /\ Entered(IF goesToVaults THEN Range(vaultOrder) ELSE {})

WalkInv == InputInv /\ DebitInv /\ PlaceInv

-----------------------------------------------------------------------------
(* Orders.                                                                 *)

(* An entry more.                                                          *)
LEMMA AppendOne ==
  ASSUME NEW order \in Seq(Owners), NEW o \in Owners, Distinct(order),
         o \notin Range(order)
  PROVE  /\ Append(order, o) \in Seq(Owners)
         /\ Distinct(Append(order, o))
         /\ Range(Append(order, o)) = Range(order) \cup {o}
<1>. DEFINE more == Append(order, o)
<1>1. /\ more \in Seq(Owners) /\ Len(order) \in Nat
      /\ Len(more) = Len(order) + 1
      /\ \A i \in 1 .. Len(order) : more[i] = order[i]
      /\ more[Len(order) + 1] = o
  BY AppendProperties, LenProperties
<1>2. /\ Range(more) = {more[i] : i \in 1 .. Len(order) + 1}
      /\ Range(order) = {order[i] : i \in 1 .. Len(order)}
      /\ DOMAIN more = 1 .. Len(order) + 1 /\ DOMAIN order = 1 .. Len(order)
  BY <1>1, RangeEquality, LenProperties
<1>. HIDE DEF more
<1>3. Range(more) = Range(order) \cup {o}
  BY <1>1, <1>2
<1>4. Distinct(more)
  <2>. SUFFICES ASSUME NEW i \in 1 .. Len(order) + 1,
                       NEW j \in 1 .. Len(order) + 1, more[i] = more[j]
                PROVE  i = j
    BY <1>2 DEF Distinct
  <2>1. CASE i \in 1 .. Len(order) /\ j \in 1 .. Len(order)
    BY <1>1, <1>2, <2>1 DEF Distinct
  <2>2. CASE ~ (i \in 1 .. Len(order) /\ j \in 1 .. Len(order))
    BY <1>1, <1>2, <2>2
  <2>. QED  BY <2>1, <2>2
<1>. QED  BY <1>1, <1>3, <1>4 DEF more

(* The users Map has the preferred owner and those who were known.         *)
LEMMA OrderProperties ==
  ASSUME InputInv
  PROVE  /\ Order \in Seq(Owners) /\ Distinct(Order)
         /\ Range(Order) = Range(known) \cup {first}
         /\ Range(Order) \subseteq Owners
<1>1. /\ Order \in Seq(Owners) /\ Distinct(Order)
      /\ Range(Order) = Range(known) \cup {first}
  <2>1. CASE first \in Range(known)
    BY <2>1 DEF Order, WithUser, InputInv
  <2>2. CASE first \notin Range(known)
    BY <2>2, AppendOne DEF Order, WithUser, InputInv
  <2>. QED  BY <2>1, <2>2
<1>. QED  BY <1>1, RangeOfSeq

(* A turn of a loop is at one entry more.                                  *)
LEMMA BeforeNext ==
  ASSUME NEW order \in Seq(Owners), NEW n \in Nat \ {0}
  PROVE  /\ Before(order, 1) = {}
         /\ n <= Len(order) =>
              /\ n \in DOMAIN order /\ order[n] \in Owners
              /\ Before(order, n + 1) = Before(order, n) \cup {order[n]}
         /\ n > Len(order) => Before(order, n) = Range(order)
<1>1. /\ DOMAIN order = 1 .. Len(order) /\ Len(order) \in Nat
      /\ \A i \in 1 .. Len(order) : order[i] \in Owners
  BY LenProperties, ElementOfSeq
<1>2. Range(order) = {order[i] : i \in 1 .. Len(order)}
  BY RangeEquality
<1>3. Before(order, 1) = {}
  BY <1>1 DEF Before
<1>4. ASSUME n <= Len(order)
      PROVE  Before(order, n + 1) = Before(order, n) \cup {order[n]}
  BY <1>1, <1>4 DEF Before
<1>5. ASSUME n > Len(order) PROVE Before(order, n) = Range(order)
  BY <1>1, <1>2, <1>5 DEF Before
<1>. QED  BY <1>1, <1>3, <1>4, <1>5

(* Who is ahead of a visited owner was visited, and who is ahead of the    *)
(* next one to visit, too.                                                 *)
LEMMA AheadIsVisited ==
  ASSUME InputInv, NEW n \in Nat \ {0}, NEW a \in Owners, NEW b \in Owners,
         Ahead(Order, first, a, b),
         b \in Visited(n) \/ (n \in DOMAIN Order /\ b = Order[n])
  PROVE  a \in Visited(n)
<1>1. Order \in Seq(Owners) /\ Distinct(Order)
  BY OrderProperties
<1>2. DOMAIN Order = 1 .. Len(Order) /\ Len(Order) \in Nat
  BY <1>1, LenProperties
<1>3. CASE a = first
  BY <1>3 DEF Visited
<1>4. CASE a # first
  <2>1. PICK i \in DOMAIN Order, j \in DOMAIN Order :
          i < j /\ Order[i] = a /\ Order[j] = b
    BY <1>4 DEF Ahead
  <2>2. PICK k \in DOMAIN Order : k <= n /\ Order[k] = b
    <3>1. b # first
      BY DEF Ahead
    <3>2. n \in DOMAIN Order /\ b = Order[n] => n <= n
      OBVIOUS
    <3>. QED  BY <1>2, <3>1, <3>2 DEF Visited, Before
  <2>3. j = k
    BY <1>1, <2>1, <2>2 DEF Distinct
  <2>4. i < n
    BY <1>2, <2>1, <2>2, <2>3
  <2>. QED  BY <2>1, <2>4 DEF Visited, Before
<1>. QED  BY <1>3, <1>4

(* Of two users one is ahead.                                              *)
LEMMA AheadIsTotal ==
  ASSUME NEW order \in Seq(Owners), NEW o, NEW a \in Range(order),
         NEW b \in Range(order), a # b
  PROVE  Ahead(order, o, a, b) \/ Ahead(order, o, b, a)
<1>1. Range(order) = {order[i] : i \in 1 .. Len(order)}
      /\ DOMAIN order = 1 .. Len(order) /\ Len(order) \in Nat
  BY RangeEquality, LenProperties
<1>2. PICK i \in DOMAIN order, j \in DOMAIN order :
        order[i] = a /\ order[j] = b
  BY <1>1
<1>3. i < j \/ j < i
  BY <1>1, <1>2
<1>. QED  BY <1>2, <1>3 DEF Ahead

-----------------------------------------------------------------------------
(* Debits.                                                                 *)

(* The sum over an owner and the others.                                   *)
LEMMA OwnerSum ==
  ASSUME NEW f \in [Owners -> Nat]
  PROVE  /\ SumFunction(f) = SumFunctionOnSet(f, Owners)
         /\ SumFunction(f) \in Nat
<1>1. DOMAIN f = Owners
  OBVIOUS
<1>2. SumFunctionOnSet(f, Owners) \in Nat
  BY OwnersAssumption, SumType
<1>. QED  BY <1>1, <1>2 DEF SumFunction

(* The sum of a sum.                                                       *)
LEMMA OwnerSumOfSum ==
  ASSUME NEW h \in [Owners -> Nat], NEW f \in [Owners -> Nat],
         NEW g \in [Owners -> Nat], \A o \in Owners : h[o] = f[o] + g[o]
  PROVE  SumFunction(h) = SumFunction(f) + SumFunction(g)
<1>1. IsFiniteSet(Owners) /\ Owners \in SUBSET Owners
  BY OwnersAssumption
<1>2. SumFunctionOnSet(h, Owners) =
        SumFunctionOnSet(f, Owners) + SumFunctionOnSet(g, Owners)
  BY <1>1, SumOfSum
<1>. QED  BY <1>2, OwnerSum

(* A function that is smaller somewhere has a smaller sum.                 *)
LEMMA SmallerSum ==
  ASSUME NEW d \in [Owners -> Nat], NEW e \in [Owners -> Nat], NEW o \in Owners,
         \A a \in Owners : d[a] <= e[a], d[o] < e[o]
  PROVE  SumFunction(d) < SumFunction(e)
<1>. DEFINE R == Owners \ {o}
<1>1. R \in SUBSET Owners /\ IsFiniteSet(R)
  BY OwnersAssumption, FS_Subset
<1>2. /\ SumFunctionOnSet(d, Owners) = d[o] + SumFunctionOnSet(d, R)
      /\ SumFunctionOnSet(e, Owners) = e[o] + SumFunctionOnSet(e, R)
  <2>1. Owners \in SUBSET Owners
    OBVIOUS
  <2>. QED  BY <2>1, OwnersAssumption, SumRemove
<1>3. \A x \in R : d[x] <= e[x]
  OBVIOUS
<1>. HIDE DEF R
<1>4. SumFunctionOnSet(d, R) <= SumFunctionOnSet(e, R)
  BY <1>1, <1>3, SumMonotonic
<1>5. SumFunctionOnSet(d, R) \in Nat /\ SumFunctionOnSet(e, R) \in Nat
  BY <1>1, SumType
<1>6. d[o] \in Nat /\ e[o] \in Nat
  OBVIOUS
<1>. QED  BY <1>2, <1>4, <1>5, <1>6, OwnerSum

(* Of two debits in the order of the Map neither takes less anywhere.      *)
LEMMA NoSmallerDebit ==
  ASSUME NEW order \in Seq(Owners), NEW o \in Owners, NEW f \in [Owners -> Nat],
         NEW n \in Nat, NEW d \in FifoDebits(order, o, f, n),
         NEW e \in FifoDebits(order, o, f, n), NEW x \in Owners
  PROVE  e[x] <= d[x]
<1>1. /\ d \in [Owners -> Nat] /\ e \in [Owners -> Nat]
      /\ \A a \in Owners : d[a] <= f[a] /\ e[a] <= f[a]
      /\ \A a \in Owners : a \notin Range(order) => d[a] = 0 /\ e[a] = 0
      /\ SumFunction(d) = SumFunction(e)
      /\ \A a, b \in Owners : Ahead(order, o, a, b) =>
           (d[b] > 0 => d[a] = f[a]) /\ (e[b] > 0 => e[a] = f[a])
  BY DEF FifoDebits
<1>. SUFFICES ASSUME d[x] < e[x] PROVE FALSE
  BY <1>1
<1>2. /\ d[x] \in Nat /\ e[x] \in Nat /\ f[x] \in Nat /\ e[x] <= f[x]
      /\ x \in Range(order)
  BY <1>1
<1>3. ASSUME NEW a \in Owners PROVE d[a] <= e[a]
  <2>1. d[a] \in Nat /\ e[a] \in Nat /\ f[a] \in Nat /\ d[a] <= f[a]
    BY <1>1
  <2>2. CASE a = x \/ a \notin Range(order)
    BY <1>1, <1>2, <2>1, <2>2
  <2>3. CASE Ahead(order, o, a, x)
    BY <1>1, <1>2, <2>1, <2>3
  <2>4. CASE Ahead(order, o, x, a)
    <3>1. d[a] = 0
      BY <1>1, <1>2, <2>1, <2>4
    <3>. QED  BY <2>1, <3>1
  <2>. QED  BY <1>2, <2>2, <2>3, <2>4, AheadIsTotal
<1>4. SumFunction(d) < SumFunction(e)
  BY <1>1, <1>3, SmallerSum
<1>. QED  BY <1>1, <1>4, OwnerSum

(* So there is one debit that goes by the Map's order.                     *)
LEMMA DebitIsUnique ==
  ASSUME NEW order \in Seq(Owners), NEW o \in Owners, NEW f \in [Owners -> Nat],
         NEW n \in Nat, NEW d \in FifoDebits(order, o, f, n),
         NEW e \in FifoDebits(order, o, f, n)
  PROVE  d = e
<1>1. d \in [Owners -> Nat] /\ e \in [Owners -> Nat]
  BY DEF FifoDebits
<1>2. \A x \in Owners : e[x] <= d[x] /\ d[x] <= e[x]
  BY NoSmallerDebit
<1>3. \A x \in Owners : d[x] = e[x]
  BY <1>1, <1>2
<1>. QED  BY <1>1, <1>3

(* What take() does to the balances.                                       *)
LEMMA TakeEffect ==
  ASSUME balance \in [Owners -> Nat], left \in Nat, NEW o \in Owners, Take(o)
  PROVE  /\ balance' \in [Owners -> Nat] /\ left' \in Nat /\ left' <= left
         /\ balance'[o] <= balance[o]
         /\ \A a \in Owners \ {o} : balance'[a] = balance[a]
         /\ left' > 0 => balance'[o] = 0
         /\ SumFunction(balance') + left = SumFunction(balance) + left'
         /\ users' = IF left > 0 THEN WithUser(users, o) ELSE users
<1>. DEFINE d == Least(balance[o], left)
            g == [balance EXCEPT ![o] = @ - d]
            l == left - d
<1>1. /\ balance' = g /\ left' = l
      /\ users' = IF left > 0 THEN WithUser(users, o) ELSE users
  BY DEF Take
<1>2. /\ balance[o] \in Nat /\ d \in Nat /\ d <= balance[o] /\ d <= left
      /\ d < left => d = balance[o]
  BY DEF Least
<1>3. g \in [Owners -> Nat] /\ g[o] = balance[o] - d
      /\ \A a \in Owners \ {o} : g[a] = balance[a]
  BY <1>2
<1>. HIDE DEF d, g
<1>4. SumFunctionOnSet(g, Owners) + balance[o] = SumFunctionOnSet(balance, Owners) + g[o]
  BY <1>3, OwnersAssumption, SumAtOne
<1>5. SumFunction(g) = SumFunctionOnSet(g, Owners) /\ SumFunction(g) \in Nat
      /\ SumFunction(balance) = SumFunctionOnSet(balance, Owners)
      /\ SumFunction(balance) \in Nat
  BY <1>3, OwnerSum
<1>6. SumFunction(g) + left = SumFunction(balance) + l
  BY <1>2, <1>3, <1>4, <1>5
<1>7. /\ l \in Nat /\ l <= left /\ g[o] <= balance[o]
      /\ l > 0 => g[o] = 0
  BY <1>2, <1>3
<1>. HIDE DEF l
<1>. QED  BY <1>1, <1>3, <1>6, <1>7

(* A visit keeps the debits in order when those ahead have nothing left.   *)
LEMMA TakeKeepsDebits ==
  ASSUME InputInv, DebitInv, UNCHANGED input, NEW o \in Owners, Take(o),
         \A a \in Owners : Ahead(Order, first, a, o) => balance[a] = 0
  PROVE  DebitInv'
<1>1. /\ balance' \in [Owners -> Nat] /\ left' \in Nat
      /\ balance'[o] <= balance[o]
      /\ \A a \in Owners \ {o} : balance'[a] = balance[a]
      /\ SumFunction(balance') + left = SumFunction(balance) + left'
  BY TakeEffect DEF DebitInv
<1>2. /\ balance \in [Owners -> Nat] /\ left \in Nat /\ had \in [Owners -> Nat]
      /\ amount \in Nat
      /\ \A a \in Owners : balance[a] <= had[a]
      /\ SumFunction(balance) + amount = SumFunction(had) + left
      /\ \A a, b \in Owners :
           Ahead(Order, first, a, b) /\ balance[b] < had[b] => balance[a] = 0
  BY DEF DebitInv, InputInv
<1>3. UNCHANGED <<had, amount, Order, first>>
  BY DEF input, Order
<1>4. \A a \in Owners : balance'[a] <= balance[a] /\ balance'[a] \in Nat
  BY <1>1, <1>2
<1>5. \A a \in Owners : balance'[a] <= had[a]
  BY <1>2, <1>4
<1>6. SumFunction(balance') + amount = SumFunction(had) + left'
  <2>. DEFINE s == SumFunction(balance')
              l == left'
  <2>1. s \in Nat /\ SumFunction(balance) \in Nat /\ SumFunction(had) \in Nat
    BY <1>1, <1>2, OwnerSum
  <2>2. l \in Nat /\ s + left = SumFunction(balance) + l
    BY <1>1
  <2>. HIDE DEF s, l
  <2>3. s + amount = SumFunction(had) + l
    BY <1>2, <2>1, <2>2
  <2>. QED  BY <2>3 DEF s, l
<1>7. ASSUME NEW a \in Owners, NEW b \in Owners, Ahead(Order, first, a, b),
             balance'[b] < had[b]
      PROVE  balance'[a] = 0
  <2>1. balance[a] = 0
    <3>1. CASE b = o
      BY <1>7, <3>1
    <3>2. CASE b # o
      <4>1. balance[b] < had[b]
        BY <1>1, <1>7, <3>2
      <4>. QED  BY <1>2, <1>7, <4>1
    <3>. QED  BY <3>1, <3>2
  <2>. QED  BY <1>4, <2>1
<1>8. DebitInv' <=>
        /\ balance' \in [Owners -> Nat] /\ left' \in Nat
        /\ \A a \in Owners : balance'[a] <= had[a]
        /\ SumFunction(balance') + amount = SumFunction(had) + left'
        /\ \A a, b \in Owners :
             Ahead(Order, first, a, b) /\ balance'[b] < had[b] => balance'[a] = 0
  BY <1>3 DEF DebitInv, Ahead
<1>. QED  BY <1>1, <1>5, <1>6, <1>7, <1>8

-----------------------------------------------------------------------------
(* The walk keeps its invariant.                                           *)

(* The start of a walk.                                                    *)
LEMMA WalkInit == Init => WalkInv
<1>. SUFFICES ASSUME Init PROVE WalkInv
  OBVIOUS
<1>1. ASSUME NEW m \in MapOrders PROVE m \in Seq(Owners) /\ Distinct(m)
  <2>1. PICK S \in SUBSET Owners : m \in SetToSeqs(S)
    BY <1>1 DEF MapOrders
  <2>. DEFINE n == Cardinality(S)
  <2>2. n \in Nat
    BY OwnersAssumption, FS_Subset, FS_CardinalityType
  <2>3. m \in [1 .. n -> S] /\ \A i, j \in 1 .. n : i # j => m[i] # m[j]
    BY <2>1 DEF SetToSeqs
  <2>. HIDE DEF n
  <2>4. m \in [1 .. n -> Owners]
    BY <2>3
  <2>. QED  BY <2>2, <2>3, <2>4, SeqDef DEF Distinct
<1>2. InputInv
  BY <1>1, WalkBounds DEF Init, InputInv
<1>3. DebitInv
  <2>1. had \in [Owners -> Nat] /\ amount \in Nat /\ balance = had /\ left = amount
    BY <1>2 DEF Init, InputInv
  <2>2. \A o \in Owners : had[o] <= had[o] /\ ~ had[o] < had[o]
    BY <2>1
  <2>. QED  BY <2>1, <2>2 DEF DebitInv
<1>4. PlaceInv
  BY DEF Init, PlaceInv
<1>. QED  BY <1>2, <1>3, <1>4 DEF WalkInv

(* What is given never changes.                                            *)
LEMMA InputKept ==
  ASSUME InputInv, UNCHANGED input
  PROVE  /\ InputInv'
         /\ Order' = Order
         /\ \A n : Visited(n)' = Visited(n)
BY DEF InputInv, input, Order, Visited, Before

(* The preferred owner is debited first and entered.                       *)
LEMMA FirstKeeps ==
  ASSUME WalkInv, TakeFirst
  PROVE  WalkInv'
<1>1. /\ InputInv /\ DebitInv /\ UNCHANGED input /\ first \in Owners
      /\ users = known /\ balance = had /\ left = amount
      /\ amount \in Nat \ {0} /\ had \in [Owners -> Nat]
      /\ Take(first) /\ pc' = "users" /\ pos' = 1
  BY DEF WalkInv, PlaceInv, TakeFirst, InputInv
<1>2. InputInv' /\ Order' = Order /\ \A n : Visited(n)' = Visited(n)
  BY <1>1, InputKept
<1>3. DebitInv'
  <2>1. \A a \in Owners : ~ Ahead(Order, first, a, first)
    BY DEF Ahead
  <2>. QED  BY <1>1, <2>1, TakeKeepsDebits
<1>4. /\ users' = Order
      /\ left' > 0 => balance'[first] = 0
      /\ \A a \in Owners \ {first} : balance'[a] = had[a]
  <2>1. users' = IF left > 0 THEN WithUser(users, first) ELSE users
    BY <1>1, TakeEffect
  <2>2. left > 0
    BY <1>1
  <2>3. users' = Order
    BY <1>1, <2>1, <2>2 DEF Order
  <2>. QED  BY <1>1, <2>3, TakeEffect
<1>5. Visited(1) = {first}
  BY <1>1, OrderProperties, BeforeNext DEF Visited
<1>6. left' > 0 => \A o \in Owners :
        balance'[o] = IF o \in Visited(1) THEN 0 ELSE had[o]
  BY <1>4, <1>5
<1>7. PlaceInv'
  <2>1. had' = had
    BY <1>1 DEF input
  <2>. QED  BY <1>1, <1>2, <1>4, <1>6, <2>1 DEF PlaceInv
<1>. QED  BY <1>2, <1>3, <1>7 DEF WalkInv

(* A user is debited when all who are ahead have nothing left.             *)
LEMMA UserKeeps ==
  ASSUME WalkInv, VisitUser
  PROVE  WalkInv'
<1>. DEFINE o == Order[pos]
<1>1. /\ InputInv /\ DebitInv /\ UNCHANGED <<input, pc>>
      /\ pc = "users" /\ users = Order /\ pos \in Nat \ {0} /\ left > 0
      /\ pos <= Len(Order) /\ pos' = pos + 1
      /\ \A a \in Owners :
           balance[a] = IF a \in Visited(pos) THEN 0 ELSE had[a]
      /\ IF o = first THEN UNCHANGED <<users, balance, left>> ELSE Take(o)
  BY DEF WalkInv, PlaceInv, VisitUser, Visit
<1>2. /\ InputInv' /\ Order' = Order /\ (\A n : Visited(n)' = Visited(n))
      /\ had' = had /\ left \in Nat /\ balance \in [Owners -> Nat]
  BY <1>1, InputKept DEF input, DebitInv
<1>3. /\ Order \in Seq(Owners) /\ o \in Owners /\ pos \in DOMAIN Order
      /\ Visited(pos + 1) = Visited(pos) \cup {o}
      /\ first \in Visited(pos)
  BY <1>1, OrderProperties, BeforeNext DEF Visited
<1>. HIDE DEF o
<1>4. CASE o = first
  <2>1. UNCHANGED <<users, balance, left>> /\ Visited(pos + 1) = Visited(pos)
    BY <1>1, <1>3, <1>4
  <2>2. DebitInv'
    BY <1>1, <1>2, <2>1 DEF DebitInv, Ahead, input
  <2>3. PlaceInv'
    BY <1>1, <1>2, <2>1 DEF PlaceInv
  <2>. QED  BY <1>2, <2>2, <2>3 DEF WalkInv
<1>5. CASE o # first
  <2>1. Take(o)
    BY <1>1, <1>5
  <2>2. ASSUME NEW a \in Owners, Ahead(Order, first, a, o) PROVE balance[a] = 0
    <3>1. a \in Visited(pos)
      BY <1>1, <1>3, <2>2, AheadIsVisited DEF o
    <3>. QED  BY <1>1, <3>1
  <2>3. DebitInv'
    BY <1>1, <1>3, <2>1, <2>2, TakeKeepsDebits
  <2>4. /\ left' > 0 => balance'[o] = 0
        /\ balance'[o] <= balance[o] /\ balance' \in [Owners -> Nat]
        /\ \A a \in Owners \ {o} : balance'[a] = balance[a]
        /\ users' = IF left > 0 THEN WithUser(users, o) ELSE users
    BY <1>2, <1>3, <2>1, TakeEffect
  <2>5. users' = Order
    <3>1. o \in Range(Order)
      BY <1>3, RangeEquality, LenProperties DEF o
    <3>. QED  BY <1>1, <2>4, <3>1 DEF WithUser
  <2>6. ASSUME left' > 0, NEW a \in Owners
        PROVE  balance'[a] = IF a \in Visited(pos + 1) THEN 0 ELSE had[a]
    <3>1. CASE a = o
      BY <1>3, <2>4, <2>6, <3>1
    <3>2. CASE a # o
      BY <1>1, <1>3, <2>4, <3>2
    <3>. QED  BY <3>1, <3>2
  <2>7. PlaceInv'
    BY <1>1, <1>2, <2>5, <2>6 DEF PlaceInv
  <2>. QED  BY <1>2, <2>3, <2>7 DEF WalkInv
<1>. QED  BY <1>4, <1>5

(* After all users nobody has anything, and the walk goes on or ends.      *)
LEMMA LeaveUsersKeeps ==
  ASSUME WalkInv, LeaveUsers
  PROVE  WalkInv'
<1>1. /\ InputInv /\ DebitInv /\ UNCHANGED <<input, left, users, balance>>
      /\ users = Order /\ pos \in Nat \ {0} /\ left \in Nat
      /\ left > 0 => \A a \in Owners :
           balance[a] = IF a \in Visited(pos) THEN 0 ELSE had[a]
      /\ left = 0 \/ pos > Len(Order)
      /\ pos' = 1
      /\ pc' = IF left > 0 /\ goesToVaults THEN "vaults" ELSE "done"
  BY DEF WalkInv, PlaceInv, LeaveUsers, DebitInv
<1>2. InputInv' /\ Order' = Order /\ had' = had
  BY <1>1, InputKept DEF input
<1>3. DebitInv'
  BY <1>1, <1>2 DEF DebitInv, Ahead, input
<1>4. CASE left = 0
  BY <1>1, <1>2, <1>3, <1>4 DEF WalkInv, PlaceInv
<1>5. CASE left > 0
  <2>1. /\ Order \in Seq(Owners) /\ Range(known) \subseteq Range(Order)
        /\ Before(Order, pos) = Range(Order)
    BY <1>1, <1>5, OrderProperties, BeforeNext
  <2>2. Broke
    <3>. SUFFICES ASSUME NEW a \in Owners PROVE balance[a] = 0
      BY DEF Broke
    <3>1. CASE a \in Range(Order)
      BY <1>1, <1>5, <2>1, <3>1 DEF Visited
    <3>2. CASE a \notin Range(Order)
      <4>1. had[a] = 0
        BY <1>1, <2>1, <3>2 DEF InputInv
      <4>. QED  BY <1>1, <1>5, <4>1
    <3>. QED  BY <3>1, <3>2
  <2>3. Entered({})
    <3>1. << >> \in Seq(Owners) /\ Distinct(<< >>) /\ Range(<< >>) = {}
      BY DEF Distinct, Range
    <3>2. users = Order \o << >>
      BY <1>1, <2>1, ConcatEmptySeq
    <3>. QED  BY <3>1, <3>2 DEF Entered
  <2>4. Before(vaultOrder, 1) = {}
    BY <1>1, BeforeNext DEF InputInv
  <2>5. Broke' /\ left' > 0 /\ goesToVaults' = goesToVaults
    BY <1>1, <1>5, <2>2 DEF Broke, input
  <2>6. ASSUME goesToVaults PROVE PlaceInv'
    <3>1. Entered(Before(vaultOrder, pos))'
      <4>1. vaultOrder' = vaultOrder /\ users' = users /\ pos' = 1
        BY <1>1 DEF input
      <4>2. Before(vaultOrder, pos)' = {}
        BY <2>4, <4>1 DEF Before
      <4>3. Entered({})'
        BY <1>2, <2>3, <4>1 DEF Entered
      <4>. QED  BY <4>2, <4>3 DEF Entered
    <3>. QED  BY <1>1, <1>5, <2>5, <2>6, <3>1 DEF PlaceInv
  <2>7. ASSUME ~ goesToVaults PROVE PlaceInv'
    <3>1. Entered(IF goesToVaults THEN Range(vaultOrder) ELSE {})'
      BY <1>1, <1>2, <2>3, <2>5, <2>7 DEF Entered
    <3>. QED  BY <1>1, <1>5, <2>5, <2>7, <3>1 DEF PlaceInv
  <2>. QED  BY <1>2, <1>3, <2>6, <2>7 DEF WalkInv
<1>. QED  BY <1>1, <1>4, <1>5

(* The claims of userVaults can pay nothing, but their owners are entered. *)
LEMMA VaultKeeps ==
  ASSUME WalkInv, VisitVault
  PROVE  WalkInv'
<1>. DEFINE o == vaultOrder[pos]
            S == Before(vaultOrder, pos)
            T == Before(vaultOrder, pos + 1)
<1>1. /\ InputInv /\ DebitInv /\ UNCHANGED <<input, pc>>
      /\ pc = "vaults" /\ goesToVaults /\ pos \in Nat \ {0} /\ left > 0
      /\ Broke /\ Entered(S)
      /\ pos <= Len(vaultOrder) /\ pos' = pos + 1
      /\ IF o = first THEN UNCHANGED <<users, balance, left>> ELSE Take(o)
  BY DEF WalkInv, PlaceInv, VisitVault, Visit
<1>2. /\ InputInv' /\ Order' = Order
      /\ left \in Nat /\ balance \in [Owners -> Nat]
  BY <1>1, InputKept DEF DebitInv
<1>3. /\ o \in Owners /\ T = S \cup {o}
      /\ Order \in Seq(Owners) /\ first \in Range(Order)
  BY <1>1, OrderProperties, BeforeNext DEF InputInv
<1>4. PICK more \in Seq(Owners) : /\ Distinct(more)
                                  /\ Range(more) = S \ Range(Order)
                                  /\ users = Order \o more
  BY <1>1 DEF Entered
<1>5. T = Before(vaultOrder, pos)'
  BY <1>1 DEF Before, input
<1>. HIDE DEF o, S, T
<1>6. ASSUME UNCHANGED <<balance, left>>,
             NEW m \in Seq(Owners), Distinct(m), Range(m) = T \ Range(Order),
             users' = Order \o m
      PROVE  WalkInv'
  <2>1. Entered(Before(vaultOrder, pos))'
    BY <1>2, <1>5, <1>6 DEF Entered
  <2>2. DebitInv'
    BY <1>1, <1>2, <1>6 DEF DebitInv, Ahead, input
  <2>3. PlaceInv'
    BY <1>1, <1>6, <2>1 DEF PlaceInv, Broke, input
  <2>. QED  BY <1>2, <2>2, <2>3 DEF WalkInv
<1>7. CASE o = first
  <2>1. T \ Range(Order) = S \ Range(Order)
    BY <1>3, <1>7
  <2>. QED  BY <1>1, <1>4, <1>6, <1>7, <2>1
<1>8. CASE o # first
  <2>1. Take(o)
    BY <1>1, <1>8
  <2>2. UNCHANGED <<balance, left>>
    <3>1. balance[o] = 0
      BY <1>1, <1>3 DEF Broke
    <3>2. balance' = [balance EXCEPT ![o] = @ - 0] /\ left' = left - 0
      BY <1>1, <1>2, <2>1, <3>1 DEF Take, Least
    <3>. QED  BY <1>2, <1>3, <3>1, <3>2
  <2>3. users' = WithUser(users, o)
    BY <1>1, <2>1 DEF Take
  <2>4. Range(users) = Range(Order) \cup Range(more)
    BY <1>3, <1>4, RangeConcatenation
  <2>5. CASE o \in Range(users)
    <3>1. T \ Range(Order) = S \ Range(Order)
      BY <1>3, <1>4, <2>4, <2>5
    <3>2. users' = users
      BY <2>3, <2>5 DEF WithUser
    <3>. QED  BY <1>4, <1>6, <2>2, <3>1, <3>2
  <2>6. CASE o \notin Range(users)
    <3>. DEFINE m == Append(more, o)
    <3>1. /\ m \in Seq(Owners) /\ Distinct(m)
          /\ Range(m) = Range(more) \cup {o}
      BY <1>3, <1>4, <2>4, <2>6, AppendOne
    <3>2. Range(m) = T \ Range(Order)
      BY <1>3, <1>4, <2>4, <2>6, <3>1
    <3>3. users' = Order \o m
      <4>1. Append(users, o) = (Order \o more) \o <<o>>
        BY <1>3, <1>4, ConcatProperties, AppendIsConcat
      <4>2. m = more \o <<o>> /\ <<o>> \in Seq(Owners)
        BY <1>3, <1>4, AppendIsConcat
      <4>3. (Order \o more) \o <<o>> = Order \o (more \o <<o>>)
        BY <1>3, <1>4, <4>2, ConcatAssociative
      <4>. QED  BY <2>3, <2>6, <4>1, <4>2, <4>3 DEF WithUser
    <3>. HIDE DEF m
    <3>. QED  BY <1>6, <2>2, <3>1, <3>2, <3>3
  <2>. QED  BY <2>5, <2>6
<1>. QED  BY <1>7, <1>8

(* A walk that goes on to the deposits, or ends.                           *)
LEMMA LeaveVaultsKeeps ==
  ASSUME WalkInv, LeaveVaults
  PROVE  WalkInv'
<1>1. /\ InputInv /\ DebitInv /\ UNCHANGED <<input, left, users, balance>>
      /\ goesToVaults /\ pos \in Nat \ {0} /\ left > 0 /\ left \in Nat
      /\ Broke /\ Entered(Before(vaultOrder, pos))
      /\ pos > Len(vaultOrder) /\ pc' = "done"
  BY DEF WalkInv, PlaceInv, LeaveVaults, DebitInv
<1>2. InputInv' /\ Order' = Order
  BY <1>1, InputKept
<1>3. DebitInv'
  BY <1>1, <1>2 DEF DebitInv, Ahead, input
<1>4. Entered(Range(vaultOrder))
  BY <1>1, BeforeNext DEF InputInv
<1>5. Entered(IF goesToVaults THEN Range(vaultOrder) ELSE {})'
  BY <1>1, <1>2, <1>4 DEF Entered, input
<1>6. PlaceInv'
  BY <1>1, <1>5 DEF PlaceInv, Broke
<1>. QED  BY <1>2, <1>3, <1>6 DEF WalkInv

(* Every step of a walk.                                                   *)
LEMMA WalkNext == WalkInv /\ [Next]_vars => WalkInv'
<1>. SUFFICES ASSUME WalkInv, [Next]_vars PROVE WalkInv'
  OBVIOUS
<1>1. CASE UNCHANGED vars
  <2>1. /\ UNCHANGED <<input, left, users, balance, pc, pos>>
        /\ InputInv /\ DebitInv /\ PlaceInv
    BY <1>1 DEF vars, WalkInv
  <2>2. InputInv' /\ Order' = Order /\ \A n : Visited(n)' = Visited(n)
    BY <2>1, InputKept
  <2>3. DebitInv'
    BY <2>1, <2>2 DEF DebitInv, Ahead, input
  <2>4. PlaceInv'
    BY <2>1, <2>2 DEF PlaceInv, Broke, Entered, Before, input
  <2>. QED  BY <2>2, <2>3, <2>4 DEF WalkInv
<1>. QED  BY <1>1, FirstKeeps, UserKeeps, LeaveUsersKeeps, VaultKeeps,
             LeaveVaultsKeeps DEF Next

-----------------------------------------------------------------------------
(* What the walk has done when it ends.                                    *)

(* An enumeration of a set without repetition is one of SetToSeqs.         *)
LEMMA Enumerates ==
  ASSUME NEW m \in Seq(Owners), Distinct(m)
  PROVE  m \in SetToSeqs(Range(m))
<1>. DEFINE n == Len(m)
            S == Range(m)
<1>1. /\ n \in Nat /\ DOMAIN m = 1 .. n /\ S = {m[i] : i \in 1 .. n}
  BY LenProperties, RangeEquality
<1>2. m \in [1 .. n -> S]
  BY <1>1, LenProperties
<1>. HIDE DEF n, S
<1>3. \A i, j \in 1 .. n : m[i] = m[j] => i = j
  BY <1>1 DEF Distinct
<1>4. m \in Bijection(1 .. n, S)
  BY <1>1, <1>2, <1>3 DEF Bijection, Injection, Surjection, IsInjective
<1>5. Cardinality(S) = n
  BY <1>1, <1>4, FS_CountingElements DEF ExistsBijection
<1>. QED  BY <1>2, <1>3, <1>5 DEF SetToSeqs, S

(* Who has nothing was debited all there was.                              *)
LEMMA BrokeSum ==
  ASSUME balance \in [Owners -> Nat], Broke
  PROVE  SumFunction(balance) = 0
BY OwnersAssumption, OwnerSum, SumOfZero DEF Broke

(* The walk is the debit that goes by the Map's order, short by what the   *)
(* users do not have, and enters the owners of userVaults in that case.    *)
LEMMA DoneIsDebit ==
  ASSUME WalkInv, pc = "done"
  PROVE  /\ FifoDebits(Order, first, had, amount) = {Debits}
         /\ left = Monus(amount, SumFunction(had))
         /\ users \in UsersAfterWalk(Order,
                        IF goesToVaults THEN Range(vaultOrder) ELSE {},
                        had, amount)
<1>. DEFINE V == IF goesToVaults THEN Range(vaultOrder) ELSE {}
            total == SumFunction(had)
            rest == SumFunction(balance)
<1>1. /\ InputInv /\ DebitInv
      /\ \/ left = 0 /\ users = Order
         \/ left > 0 /\ Broke /\ Entered(V)
  BY DEF WalkInv, PlaceInv
<1>2. /\ had \in [Owners -> Nat] /\ balance \in [Owners -> Nat]
      /\ amount \in Nat \ {0} /\ left \in Nat
      /\ \A o \in Owners : balance[o] <= had[o]
      /\ rest + amount = total + left
      /\ Order \in Seq(Owners) /\ Range(Order) \subseteq Owners
      /\ \A o \in Owners \ Range(Order) : had[o] = 0
  BY <1>1, OrderProperties DEF InputInv, DebitInv
<1>3. /\ total \in Nat /\ rest \in Nat
      /\ left > 0 => rest = 0
  BY <1>1, <1>2, OwnerSum, BrokeSum
<1>4. SumFunctionOnSet(had, Range(Order)) = total
  <2>1. \A o \in Owners : o \notin Range(Order) => had[o] = 0
    BY <1>2
  <2>2. SumFunctionOnSet(had, Owners) = SumFunctionOnSet(had, Range(Order))
    BY <1>2, <2>1, OwnersAssumption, SumOverSupport
  <2>. QED  BY <1>2, <2>2, OwnerSum
<1>5. /\ Debits \in [Owners -> Nat]
      /\ \A o \in Owners : Debits[o] = had[o] - balance[o] /\ Debits[o] <= had[o]
                           /\ had[o] = balance[o] + Debits[o]
  BY <1>2 DEF Debits
<1>6. SumFunction(Debits) + rest = total
  <2>1. \A o \in Owners : had[o] = balance[o] + Debits[o]
    BY <1>5
  <2>2. SumFunction(had) = SumFunction(balance) + SumFunction(Debits)
    BY <1>2, <1>5, <2>1, OwnerSumOfSum
  <2>3. SumFunction(Debits) \in Nat
    BY <1>5, OwnerSum
  <2>. QED  BY <1>3, <2>2, <2>3
<1>7. SumFunction(Debits) \in Nat
  BY <1>5, OwnerSum
<1>. HIDE DEF total, rest
<1>8. left = Monus(amount, total)
  BY <1>1, <1>2, <1>3 DEF Monus
<1>9. SumFunction(Debits) = Least(amount, total)
  <2>. DEFINE s == SumFunction(Debits)
  <2>1. s \in Nat /\ s + rest = total
    BY <1>6, <1>7
  <2>. HIDE DEF s
  <2>2. s = Least(amount, total)
    BY <1>1, <1>2, <1>3, <2>1 DEF Least
  <2>. QED  BY <2>2 DEF s
<1>10. Debits \in FifoDebits(Order, first, had, amount)
  <2>1. Debits \in [Owners -> 0 .. amount]
    <3>1. ASSUME NEW o \in Owners PROVE Debits[o] <= amount
      <4>1. Debits[o] <= SumFunction(Debits)
        <5>1. SumFunctionOnSet(Debits, Owners)
                = Debits[o] + SumFunctionOnSet(Debits, Owners \ {o})
          <6>1. Owners \in SUBSET Owners
            OBVIOUS
          <6>. QED  BY <1>5, <6>1, OwnersAssumption, SumRemove
        <5>2. SumFunctionOnSet(Debits, Owners \ {o}) \in Nat
          <6>1. IsFiniteSet(Owners \ {o}) /\ Owners \ {o} \in SUBSET Owners
            BY OwnersAssumption, FS_Subset
          <6>. QED  BY <1>5, <6>1, SumType
        <5>3. Debits[o] \in Nat
          BY <1>5
        <5>. QED  BY <1>5, <5>1, <5>2, <5>3, OwnerSum
      <4>2. Debits[o] \in Nat
        BY <1>5
      <4>. QED  BY <1>2, <1>3, <1>7, <1>9, <4>1, <4>2 DEF Least
    <3>. QED  BY <1>5, <3>1
  <2>2. \A o \in Owners : /\ Debits[o] <= had[o]
                          /\ o \notin Range(Order) => Debits[o] = 0
    BY <1>2, <1>5
  <2>3. ASSUME NEW a \in Owners, NEW b \in Owners, Ahead(Order, first, a, b),
               Debits[b] > 0
        PROVE  Debits[a] = had[a]
    <3>1. balance[b] < had[b]
      BY <1>2, <1>5, <2>3
    <3>2. balance[a] = 0
      BY <1>1, <2>3, <3>1 DEF DebitInv
    <3>. QED  BY <1>2, <1>5, <3>2
  <2>. QED  BY <1>4, <1>9, <2>1, <2>2, <2>3 DEF FifoDebits
<1>11. FifoDebits(Order, first, had, amount) = {Debits}
  <2>1. ASSUME NEW d \in FifoDebits(Order, first, had, amount) PROVE d = Debits
    <3>1. /\ Order \in Seq(Owners) /\ had \in [Owners -> Nat]
          /\ amount \in Nat /\ first \in Owners
      BY <1>1, <1>2 DEF InputInv
    <3>. QED  BY <1>10, <3>1, DebitIsUnique
  <2>. QED  BY <1>10, <2>1
<1>12. users \in UsersAfterWalk(Order, V, had, amount)
  <2>1. CASE left = 0
    <3>1. ~ (total < amount) /\ users = Order
      BY <1>1, <1>2, <1>3, <2>1
    <3>. QED  BY <1>4, <3>1 DEF UsersAfterWalk
  <2>2. CASE left > 0
    <3>1. total < amount
      BY <1>2, <1>3, <2>2
    <3>2. PICK more \in Seq(Owners) : /\ Distinct(more)
                                      /\ Range(more) = V \ Range(Order)
                                      /\ users = Order \o more
      BY <1>1, <2>2 DEF Entered
    <3>3. more \in SetToSeqs(V \ Range(Order))
      BY <3>2, Enumerates
    <3>. QED  BY <1>4, <3>1, <3>2, <3>3 DEF UsersAfterWalk
  <2>. QED  BY <1>2, <2>1, <2>2
<1>. QED  BY <1>8, <1>11, <1>12 DEF total

(* The loops of debitDepositsFifo and debitFilledClaimsFifo do what the    *)
(* pool's actions do in one step, for any owners, balances and orders.     *)
THEOREM WalkIsTheDebit == Spec => []WalkIsFifoDebit
<1>1. WalkInv => WalkIsFifoDebit
  BY DoneIsDebit DEF WalkIsFifoDebit, Order
<1>. QED  BY <1>1, WalkInit, WalkNext, PTL DEF Spec

-----------------------------------------------------------------------------
(* The keyed loop: for every selector it can take from its accumulator, it *)
(* stays within the key and the buffer and divides by what can be divided  *)
(* by.                                                                     *)

(* The size of verus_constants.hpp, in slots.                              *)
LEMMA Sizes == KeySlots = 552
BY DEF KeySlots

(* The fields that a selector is cut into.                                 *)
LEMMA SelectorTypes ==
  ASSUME NEW s \in Selectors
  PROVE  /\ s.prand \in 0 .. 511 /\ s.prandex \in 0 .. 511
         /\ s.low2 \in 0 .. 3
         /\ s.rounds \in 0 .. 7
<1>1. /\ s.prand \in Picks /\ s.prandex \in Picks
      /\ s.low2 \in 0 .. 3
      /\ s.rounds \in RoundCounts
  BY DEF Selectors
<1>2. s.prand \in 0 .. 511 /\ s.prandex \in 0 .. 511
  <2>1. KeyMask = 511
    BY DEF KeyMask
  <2>2. s.prand \in 0 .. KeyMask /\ s.prandex \in 0 .. KeyMask
    BY <1>1, PicksAssumption
  <2>. QED  BY <2>1, <2>2
<1>3. s.rounds \in 0 .. 7
  BY <1>1, RoundsAssumption
<1>. QED  BY <1>1, <1>2, <1>3

(* A round counts no more AES rounds before it than rounds.                *)
LEMMA RoundsBefore ==
  ASSUME NEW i \in Nat, NEW S \in SUBSET (0 .. i - 1)
  PROVE  Cardinality(S) \in 0 .. i
<1>1. IsFiniteSet(0 .. i - 1) /\ Cardinality(0 .. i - 1) = i
  BY FS_Interval
<1>2. IsFiniteSet(S) /\ Cardinality(S) <= i
  BY <1>1, FS_Subset
<1> QED
  BY <1>2, FS_CardinalityType

(* The inner loop of case 0x14 reads no further than 39 slots from prand:  *)
(* eight rounds, each of four AES keys.                                    *)
LEMMA MonkinsBound ==
  ASSUME NEW s \in Selectors
  PROVE  MonkinsSlots(s) \subseteq s.prand .. s.prand + 39
<1> DEFINE Clear(i) == ~ IsSet(s, s.rounds - i)
           AesRound(i) == Cardinality({h \in 0 .. i - 1 : Clear(h)})
           From(i) == s.prand + i + 1 + 4 * AesRound(i)
           Aes == UNION {From(i) .. From(i) + 3 : i \in {h \in 0 .. s.rounds : Clear(h)}}
<1>1. s.prand \in 0 .. 511 /\ s.rounds \in 0 .. 7
  BY SelectorTypes
<1>2. MonkinsSlots(s) = (s.prand .. s.prand + s.rounds) \cup Aes
  BY DEF MonkinsSlots
<1>3. ASSUME NEW i \in 0 .. s.rounds
      PROVE  From(i) \in Int /\ From(i) > s.prand /\ From(i) + 3 <= s.prand + 39
  <2>1. i \in Nat /\ i <= 7
    BY <1>1
  <2>2. {h \in 0 .. i - 1 : Clear(h)} \in SUBSET (0 .. i - 1)
    OBVIOUS
  <2>3. AesRound(i) \in 0 .. i
    <3> HIDE DEF Clear
    <3> QED BY <2>1, <2>2, RoundsBefore
  <2> HIDE DEF AesRound
  <2> QED
    BY <1>1, <2>1, <2>3
<1> HIDE DEF From
<1>4. Aes \subseteq s.prand .. s.prand + 39
  BY <1>1, <1>3
<1>5. ASSUME NEW x \in s.prand .. s.prand + s.rounds
      PROVE  x \in s.prand .. s.prand + 39
  BY SMTT(30), <1>1
<1> HIDE DEF Aes
<1> QED
  BY <1>2, <1>4, <1>5

(* The slots of the key that a turn reads.                                 *)
LEMMA SlotsBound ==
  ASSUME NEW s \in Selectors
  PROVE  SlotsRead(s) \subseteq 0 .. KeySlots - 1
<1>1. s.prand \in 0 .. 511 /\ s.prandex \in 0 .. 511 /\ s.rounds \in 0 .. 7
  BY SelectorTypes
<1>2. SwappedSlots(s) \subseteq 0 .. 551
  BY <1>1 DEF SwappedSlots
<1>3. AesSlots(s) \subseteq 0 .. 551
  BY <1>1 DEF AesSlots
<1>4. MonkinsSlots(s) \subseteq 0 .. 551
  BY <1>1, MonkinsBound
<1>5. DividedSlots(s) \subseteq 0 .. 551
  BY SMTT(30), <1>1 DEF DividedSlots
<1> QED
  BY <1>2, <1>3, <1>4, <1>5, Sizes DEF SlotsRead

(* The lanes of the buffer and the divisors of a turn.                     *)
LEMMA LanesAndDivisors ==
  ASSUME NEW s \in Selectors
  PROVE  /\ {Pbuf(s), Other(s)} \subseteq 0 .. 3
         /\ Divisors(s) \cap {0, 31} = {}
<1>1. s.low2 \in 0 .. 3
  BY SelectorTypes
<1>2. s.low2 = 0 \/ s.low2 = 1 \/ s.low2 = 2 \/ s.low2 = 3
  BY <1>1
<1>3. Other(s) \in 0 .. 3
  BY <1>2 DEF Other
<1>4. Divisors(s) \subseteq {12 + s.low2, 24 + s.low2}
  BY DEF Divisors
<1> QED
  BY <1>1, <1>3, <1>4 DEF Pbuf

-----------------------------------------------------------------------------
(* Every access of the loop and of the last Haraka is within the key and   *)
(* the buffer, and every division is defined: the selectors come from the  *)
(* hashed data, so no test can go through them (the loop of                *)
(* __verusclmulwithoutreduction64alignedrepeat_sv2_2_port).                *)
THEOREM AccessesInBounds == KeySpec => []StaysInKey
<1>1. KeyInit => StaysInKey
  BY DEF KeyInit, StaysInKey, Reads
<1>2. StaysInKey /\ [KeyNext]_keyVars => StaysInKey'
  <2> SUFFICES ASSUME StaysInKey, [KeyNext]_keyVars
               PROVE  StaysInKey'
    OBVIOUS
  <2>1. CASE Seed
    BY <2>1, Sizes DEF Seed, Reads, KeyMask, StaysInKey
  <2>2. CASE Turn
    <3>1. PICK s \in Selectors :
            reads' = Reads(SlotsRead(s), {Pbuf(s), Other(s)}, Divisors(s))
      BY <2>2 DEF Turn
    <3>2. /\ reads'.slots = SlotsRead(s)
          /\ reads'.lanes = {Pbuf(s), Other(s)}
          /\ reads'.divisor = Divisors(s)
      BY <3>1 DEF Reads
    <3> QED
      BY <3>2, SlotsBound, LanesAndDivisors DEF StaysInKey
  <2>3. CASE ApplyKey
    <3>1. PICK slot \in Picks : reads' = Reads(slot .. slot + 39, {}, {})
      BY <2>3 DEF ApplyKey
    <3>2. slot \in 0 .. 511
      BY PicksAssumption DEF KeyMask
    <3>3. slot .. slot + 39 \subseteq 0 .. KeySlots - 1
      BY <3>2, Sizes
    <3> QED
      BY <3>1, <3>3 DEF Reads, StaysInKey
  <2>4. CASE UNCHANGED keyVars
    BY <2>4 DEF keyVars, StaysInKey
  <2> QED
    BY <2>1, <2>2, <2>3, <2>4 DEF KeyNext
<1> QED
  BY <1>1, <1>2, PTL DEF KeySpec

-----------------------------------------------------------------------------
(* The writes to the Verus hasher: bytes, rounds and blocks.                *)

(* Four equal words.                                                       *)
Even(a) == <<a, a, a, a>>

(* All that a lane of a state depends on.                                  *)
LaneOf(s, l) == UNION {s[l][w] : w \in 1 .. 4}

(* A round on four lanes.                                                  *)
Round512(s) == Mix512(<<aesenc(aesenc(s[1])), aesenc(aesenc(s[2])),
                        aesenc(aesenc(s[3])), aesenc(aesenc(s[4]))>>)

(* Two AES rounds mix the words of a lane.                                 *)
LEMMA AesTwice ==
  ASSUME NEW lane
  PROVE  aesenc(aesenc(lane)) = Even(UNION {lane[w] : w \in 1 .. 4})
<1>. DEFINE a == UNION {lane[w] : w \in 1 .. 4}
<1>1. aesenc(lane) = Even(a)
  BY DEF aesenc, Even
<1>. HIDE DEF a
<1>2. UNION {Even(a)[w] : w \in 1 .. 4} = a
  <2>1. \A w \in 1 .. 4 : Even(a)[w] = a
    BY DEF Even
  <2>. QED  BY <2>1
<1>3. aesenc(Even(a)) = Even(a)
  BY <1>2 DEF aesenc, Even
<1>. QED  BY <1>1, <1>3 DEF a

(* After a round each lane has a word of each lane before.                 *)
LEMMA RoundMixes ==
  ASSUME NEW s
  PROVE  Round512(s) =
           <<<<LaneOf(s, 1), LaneOf(s, 3), LaneOf(s, 2), LaneOf(s, 4)>>,
             <<LaneOf(s, 3), LaneOf(s, 1), LaneOf(s, 4), LaneOf(s, 2)>>,
             <<LaneOf(s, 3), LaneOf(s, 1), LaneOf(s, 4), LaneOf(s, 2)>>,
             <<LaneOf(s, 1), LaneOf(s, 3), LaneOf(s, 2), LaneOf(s, 4)>>>>
<1>. DEFINE a == LaneOf(s, 1)
            b == LaneOf(s, 2)
            c == LaneOf(s, 3)
            d == LaneOf(s, 4)
<1>1. Round512(s) = Mix512(<<Even(a), Even(b), Even(c), Even(d)>>)
  BY AesTwice DEF Round512, LaneOf
<1>. HIDE DEF a, b, c, d
<1>2. /\ unpacklo32(Even(a), Even(b)) = <<a, b, a, b>>
      /\ unpackhi32(Even(a), Even(b)) = <<a, b, a, b>>
      /\ unpacklo32(Even(c), Even(d)) = <<c, d, c, d>>
      /\ unpackhi32(Even(c), Even(d)) = <<c, d, c, d>>
  BY DEF unpacklo32, unpackhi32, Even
<1>3. /\ unpackhi32(<<a, b, a, b>>, <<c, d, c, d>>) = <<a, c, b, d>>
      /\ unpacklo32(<<a, b, a, b>>, <<c, d, c, d>>) = <<a, c, b, d>>
      /\ unpackhi32(<<c, d, c, d>>, <<a, b, a, b>>) = <<c, a, d, b>>
      /\ unpacklo32(<<c, d, c, d>>, <<a, b, a, b>>) = <<c, a, d, b>>
  BY DEF unpacklo32, unpackhi32
<1>4. Mix512(<<Even(a), Even(b), Even(c), Even(d)>>)
        = <<<<a, c, b, d>>, <<c, a, d, b>>, <<c, a, d, b>>, <<a, c, b, d>>>>
  BY <1>2, <1>3 DEF Mix512
<1>. QED  BY <1>1, <1>4 DEF a, b, c, d

(* A state whose words all depend on the same.                             *)
Even512(a) == <<Even(a), Even(a), Even(a), Even(a)>>

(* Two rounds on four lanes mix the whole state.                           *)
LEMMA TwoRoundsMixAll ==
  ASSUME NEW s
  PROVE  LET all == LaneOf(s, 1) \cup LaneOf(s, 2) \cup LaneOf(s, 3) \cup LaneOf(s, 4)
         IN  /\ Round512(Round512(s)) = Even512(all)
             /\ Round512(Even512(all)) = Even512(all)
<1>. DEFINE a == LaneOf(s, 1)
            b == LaneOf(s, 2)
            c == LaneOf(s, 3)
            d == LaneOf(s, 4)
            all == a \cup b \cup c \cup d
            t == <<<<a, c, b, d>>, <<c, a, d, b>>, <<c, a, d, b>>, <<a, c, b, d>>>>
<1>1. Round512(s) = t
  BY RoundMixes
<1>2. LaneOf(t, 1) = all /\ LaneOf(t, 2) = all /\ LaneOf(t, 3) = all /\ LaneOf(t, 4) = all
  <2>. HIDE DEF a, b, c, d
  <2>1. ASSUME NEW x, NEW y, NEW z, NEW v
        PROVE  UNION {<<x, y, z, v>>[w] : w \in 1 .. 4} = x \cup y \cup z \cup v
    <3>. DEFINE q == <<x, y, z, v>>
    <3>1. q[1] = x /\ q[2] = y /\ q[3] = z /\ q[4] = v
      OBVIOUS
    <3>2. 1 .. 4 = {1, 2, 3, 4}
      OBVIOUS
    <3>. HIDE DEF q
    <3>3. UNION {q[w] : w \in {1, 2, 3, 4}} = q[1] \cup q[2] \cup q[3] \cup q[4]
      OBVIOUS
    <3>. QED  BY <3>1, <3>2, <3>3 DEF q
  <2>2. t[1] = <<a, c, b, d>> /\ t[2] = <<c, a, d, b>> /\ t[3] = <<c, a, d, b>>
        /\ t[4] = <<a, c, b, d>>
    OBVIOUS
  <2>3. a \cup c \cup b \cup d = all /\ c \cup a \cup d \cup b = all
    OBVIOUS
  <2>. HIDE DEF t, all
  <2>. QED  BY <2>1, <2>2, <2>3 DEF LaneOf
<1>. HIDE DEF a, b, c, d, t, all
<1>3. Round512(t) = Even512(all)
  BY <1>2, RoundMixes DEF Even512, Even
<1>4. Round512(Even512(all)) = Even512(all)
  <2>1. \A l \in 1 .. 4 : Even512(all)[l] = Even(all)
    BY DEF Even512
  <2>2. \A w \in 1 .. 4 : Even(all)[w] = all
    BY DEF Even
  <2>3. UNION {Even(all)[w] : w \in 1 .. 4} = all
    BY <2>2
  <2>4. \A l \in 1 .. 4 : LaneOf(Even512(all), l) = all
    BY <2>1, <2>3 DEF LaneOf
  <2>. QED  BY <2>4, RoundMixes DEF Even512, Even
<1>. QED  BY <1>1, <1>3, <1>4 DEF a, b, c, d, all

(* The lanes of an input, and the table of the rounds.                     *)
Lanes512(in) == <<SubSeq(in, 1, 4), SubSeq(in, 5, 8), SubSeq(in, 9, 12),
                  SubSeq(in, 13, 16)>>

IsRounds512(t, in) ==
  t = [i \in 0 .. Rounds |-> IF i = 0 THEN Lanes512(in) ELSE Round512(t[i - 1])]

Rounds512(in) == CHOOSE t : IsRounds512(t, in)

(* The permutation is five rounds.                                         *)
LEMMA PermByRounds ==
  ASSUME NEW in
  PROVE  haraka512_perm(in) =
           Rounds512(in)[Rounds][1] \o Rounds512(in)[Rounds][2]
             \o Rounds512(in)[Rounds][3] \o Rounds512(in)[Rounds][4]
BY DEF haraka512_perm, Rounds512, IsRounds512, Round512, Lanes512

(* Five rounds are a mixing of everything.                                 *)
LEMMA FiveRounds ==
  ASSUME NEW in
  PROVE  LET s == Lanes512(in)
         IN  Rounds512(in)[Rounds]
               = Even512(LaneOf(s, 1) \cup LaneOf(s, 2) \cup LaneOf(s, 3) \cup LaneOf(s, 4))
<1>. DEFINE s == Lanes512(in)
            all == LaneOf(s, 1) \cup LaneOf(s, 2) \cup LaneOf(s, 3) \cup LaneOf(s, 4)
            r == Round512(s)
            e == Even512(all)
            t == [i \in 0 .. 5 |-> IF i = 0 THEN s ELSE IF i = 1 THEN r ELSE e]
<1>1. Round512(r) = e /\ Round512(e) = e
  BY TwoRoundsMixAll
<1>2. \A i \in 0 .. 5 : t[i] = IF i = 0 THEN s ELSE Round512(t[i - 1])
  <2>. SUFFICES ASSUME NEW i \in 0 .. 5 
                PROVE  t[i] = IF i = 0 THEN s ELSE Round512(t[i - 1])
    OBVIOUS
  <2>1. /\ t[0] = s /\ t[1] = r /\ t[2] = e /\ t[3] = e /\ t[4] = e /\ t[5] = e
    OBVIOUS
  <2>2. r = Round512(s)
    OBVIOUS
  <2>3. i \in {0, 1, 2, 3, 4, 5}
    OBVIOUS
  <2>. HIDE DEF t, s, r, e
  <2>4. CASE i = 0
    BY <2>1, <2>4
  <2>5. CASE i = 1
    <3>1. i - 1 = 0 
      BY <2>5
    <3>. QED  BY <2>1, <2>2, <2>5, <3>1
  <2>6. CASE i \in {2, 3, 4, 5}
    <3>1. (t[i - 1] = r \/ t[i - 1] = e) /\ t[i] = e
      BY <2>1, <2>6
    <3>. QED  BY <1>1, <2>6, <3>1
  <2>. QED  BY <2>3, <2>4, <2>5, <2>6
<1>3. IsRounds512(t, in)
  <2>1. t = [i \in 0 .. 5 |-> t[i]]
    OBVIOUS
  <2>. HIDE DEF t, s, r, e
  <2>2. [i \in 0 .. 5 |-> t[i]] = [i \in 0 .. 5 |-> IF i = 0 THEN s ELSE Round512(t[i - 1])]
    BY <1>2
  <2>. QED  BY <2>1, <2>2 DEF IsRounds512, s, Rounds
<1>4. IsRounds512(Rounds512(in), in)
  BY <1>3 DEF Rounds512
<1>. DEFINE T == Rounds512(in)
<1>5. \A i \in 0 .. 5 : T[i] = IF i = 0 THEN s ELSE Round512(T[i - 1])
  <2>. HIDE DEF s
  <2>1. T = [i \in 0 .. 5 |-> IF i = 0 THEN s ELSE Round512(T[i - 1])]
    BY <1>4 DEF IsRounds512, s, Rounds
  <2>. HIDE DEF T
  <2>. QED  BY <2>1
<1>. HIDE DEF s, all, t, T
<1>6. T[0] = s /\ T[1] = Round512(T[0]) /\ T[2] = Round512(T[1])
      /\ T[3] = Round512(T[2]) /\ T[4] = Round512(T[3]) /\ T[5] = Round512(T[4])
  BY <1>5
<1>7. T[5] = e
  <2>. HIDE DEF e
  <2>. QED  BY <1>1, <1>6
<1>. QED  BY <1>7 DEF s, all, T, Rounds

(* Each word of a hash depends on all that any word of the input does.     *)
LEMMA HashMixesAll ==
  ASSUME NEW in
  PROVE  haraka512_port(in) = [w \in 1 .. 8 |-> UNION {in[v] : v \in 1 .. 16}]
<1>. DEFINE s == Lanes512(in)
            a == LaneOf(s, 1) \cup LaneOf(s, 2) \cup LaneOf(s, 3) \cup LaneOf(s, 4)
            every == UNION {in[v] : v \in 1 .. 16}
<1>1. a = every
  <2>1. ASSUME NEW m \in {1, 5, 9, 13}
        PROVE  \A w \in 1 .. 4 : SubSeq(in, m, m + 3)[w] = in[m + w - 1]
    <3>. DEFINE S == {in[i] : i \in m .. m + 3}
    <3>1. \A i \in m .. m + 3 : in[i] \in S
      OBVIOUS
    <3>. HIDE DEF S
    <3>2. \A i \in 1 .. (m + 3) - m + 1 : SubSeq(in, m, m + 3)[i] = in[m + i - 1]
      <4>1. m \in Int /\ m + 3 \in Int
        OBVIOUS
      <4>. QED  BY <3>1, <4>1, SubSeqProperties
    <3>. QED  BY <3>2
  <2>2. /\ \A w \in 1 .. 4 : s[1][w] = in[w]
        /\ \A w \in 1 .. 4 : s[2][w] = in[w + 4]
        /\ \A w \in 1 .. 4 : s[3][w] = in[w + 8]
        /\ \A w \in 1 .. 4 : s[4][w] = in[w + 12]
    <3>1. /\ s[1] = SubSeq(in, 1, 1 + 3) /\ s[2] = SubSeq(in, 5, 5 + 3)
          /\ s[3] = SubSeq(in, 9, 9 + 3) /\ s[4] = SubSeq(in, 13, 13 + 3)
      BY DEF Lanes512
    <3>. HIDE DEF s
    <3>2. \A w \in 1 .. 4 : /\ SubSeq(in, 1, 1 + 3)[w] = in[1 + w - 1]
                            /\ SubSeq(in, 5, 5 + 3)[w] = in[5 + w - 1]
                            /\ SubSeq(in, 9, 9 + 3)[w] = in[9 + w - 1]
                            /\ SubSeq(in, 13, 13 + 3)[w] = in[13 + w - 1]
      BY <2>1
    <3>3. \A w \in 1 .. 4 : 1 + w - 1 = w /\ 5 + w - 1 = w + 4 /\ 9 + w - 1 = w + 8
                            /\ 13 + w - 1 = w + 12
      OBVIOUS
    <3>. QED  BY <3>1, <3>2, <3>3
  <2>. HIDE DEF s
  <2>3. ASSUME NEW x, x \in a PROVE x \in every
    BY <2>2, <2>3 DEF LaneOf
  <2>4. ASSUME NEW x, x \in every PROVE x \in a
    <3>1. PICK v \in 1 .. 16 : x \in in[v]
      BY <2>4
    <3>. DEFINE l == (v - 1) \div 4 + 1
                w == v - 4 * (l - 1)
    <3>2. CASE v \in 1 .. 4
      <4>1. x \in s[1][v]
        BY <2>2, <3>1, <3>2
      <4>. QED  BY <3>2, <4>1 DEF LaneOf
    <3>3. CASE v \in 5 .. 8
      <4>1. v - 4 \in 1 .. 4 /\ x \in s[2][v - 4]
        BY <2>2, <3>1, <3>3
      <4>. QED  BY <4>1 DEF LaneOf
    <3>4. CASE v \in 9 .. 12
      <4>1. v - 8 \in 1 .. 4 /\ x \in s[3][v - 8]
        BY <2>2, <3>1, <3>4
      <4>. QED  BY <4>1 DEF LaneOf
    <3>5. CASE v \in 13 .. 16
      <4>1. v - 12 \in 1 .. 4 /\ x \in s[4][v - 12]
        BY <2>2, <3>1, <3>5
      <4>. QED  BY <4>1 DEF LaneOf
    <3>. QED  BY <3>2, <3>3, <3>4, <3>5
  <2>. QED  BY <2>3, <2>4
<1>2. Rounds512(in)[Rounds] = Even512(a)
  BY FiveRounds
<1>. HIDE DEF s, a
<1>3. \A w \in 1 .. 16 : haraka512_perm(in)[w] = a
  <2>. DEFINE e == Even(a)
              two == e \o e
              three == two \o e
              four == three \o e
  <2>1. e \in Seq({a}) /\ Len(e) = 4
    BY DEF Even
  <2>2. haraka512_perm(in) = four
    <3>. DEFINE last == Rounds512(in)[Rounds]
    <3>1. last[1] = e /\ last[2] = e /\ last[3] = e /\ last[4] = e
      <4>1. last = <<e, e, e, e>>
        BY <1>2 DEF Even512
      <4>. HIDE DEF last, e
      <4>. QED  BY <4>1
    <3>2. haraka512_perm(in) = last[1] \o last[2] \o last[3] \o last[4]
      BY PermByRounds
    <3>. HIDE DEF last, e
    <3>. QED  BY <3>1, <3>2
  <2>. HIDE DEF e
  <2>3. \A x, y \in Seq({a}) :
          x \o y \in Seq({a}) /\ Len(x \o y) = Len(x) + Len(y)
    <3>. SUFFICES ASSUME NEW x \in Seq({a}), NEW y \in Seq({a})
                  PROVE  x \o y \in Seq({a}) /\ Len(x \o y) = Len(x) + Len(y)
      OBVIOUS
    <3>. DEFINE S == {a}
    <3>. HIDE DEF S
    <3>1. x \in Seq(S) /\ y \in Seq(S)
      BY DEF S
    <3>2. x \o y \in Seq(S) /\ Len(x \o y) = Len(x) + Len(y)
      BY <3>1, ConcatProperties
    <3>. QED  BY <3>2 DEF S
  <2>4. two \in Seq({a}) /\ Len(two) = 8
    <3>1. two \in Seq({a}) /\ Len(two) = Len(e) + Len(e)
      BY <2>1, <2>3, Zenon
    <3>. HIDE DEF two
    <3>2. Len(two) = 8
      BY <2>1, <3>1
    <3>. QED  BY <3>1, <3>2
  <2>5. three \in Seq({a}) /\ Len(three) = 12
    <3>1. three \in Seq({a}) /\ Len(three) = Len(two) + Len(e)
      BY <2>1, <2>3, <2>4, Zenon
    <3>. HIDE DEF three
    <3>2. Len(three) = 12
      BY <2>1, <2>4, <3>1
    <3>. QED  BY <3>1, <3>2
  <2>6. four \in Seq({a}) /\ Len(four) = 16
    <3>1. four \in Seq({a}) /\ Len(four) = Len(three) + Len(e)
      BY <2>1, <2>3, <2>5, Zenon
    <3>. HIDE DEF four
    <3>2. Len(four) = 16
      BY <2>1, <2>5, <3>1
    <3>. QED  BY <3>1, <3>2
  <2>. HIDE DEF four
  <2>7. \A w \in 1 .. 16 : four[w] \in {a}
    BY <2>6, ElementOfSeq
  <2>. QED  BY <2>2, <2>7
<1>4. \A w \in 1 .. 8 : Truncated[w] \in 1 .. 16
  <2>1. /\ Truncated[1] = 3 /\ Truncated[2] = 4 /\ Truncated[3] = 7
        /\ Truncated[4] = 8 /\ Truncated[5] = 9 /\ Truncated[6] = 10
        /\ Truncated[7] = 13 /\ Truncated[8] = 14
    BY DEF Truncated
  <2>2. 1 .. 8 = {1, 2, 3, 4, 5, 6, 7, 8}
    OBVIOUS
  <2>. QED  BY <2>1, <2>2
<1>5. \A w \in 1 .. 8 : haraka512_perm(in)[Truncated[w]] \cup in[Truncated[w]] = every
  <2>1. \A v \in 1 .. 16 : in[v] \subseteq every
    OBVIOUS
  <2>. HIDE DEF every
  <2>. QED  BY <1>1, <1>3, <1>4, <2>1
<1>. HIDE DEF every
<1>6. haraka512_port(in) = [w \in 1 .. 8 |-> every]
  BY <1>5 DEF haraka512_port
<1>. QED  BY <1>6 DEF every

-----------------------------------------------------------------------------
(* A round on two lanes, the lanes of an input, and the table.             *)
Round256(s) == Mix256(<<aesenc(aesenc(s[1])), aesenc(aesenc(s[2]))>>)

Lanes256(in) == <<SubSeq(in, 1, 4), SubSeq(in, 5, 8)>>

IsRounds256(t, in) ==
  t = [i \in 0 .. Rounds |-> IF i = 0 THEN Lanes256(in) ELSE Round256(t[i - 1])]

Rounds256(in) == CHOOSE t : IsRounds256(t, in)

Even256(a) == <<Even(a), Even(a)>>

(* Two rounds on two lanes mix both.                                       *)
LEMMA TwoRoundsMixBoth ==
  ASSUME NEW s
  PROVE  LET all == LaneOf(s, 1) \cup LaneOf(s, 2)
         IN  /\ Round256(Round256(s)) = Even256(all)
             /\ Round256(Even256(all)) = Even256(all)
<1>1. ASSUME NEW q
      PROVE  Round256(q) = <<<<LaneOf(q, 1), LaneOf(q, 2), LaneOf(q, 1), LaneOf(q, 2)>>,
                             <<LaneOf(q, 1), LaneOf(q, 2), LaneOf(q, 1), LaneOf(q, 2)>>>>
  <2>. DEFINE a == LaneOf(q, 1)
              b == LaneOf(q, 2)
  <2>1. Round256(q) = Mix256(<<Even(a), Even(b)>>)
    BY AesTwice DEF Round256, LaneOf
  <2>. HIDE DEF a, b
  <2>2. /\ unpacklo32(Even(a), Even(b)) = <<a, b, a, b>>
        /\ unpackhi32(Even(a), Even(b)) = <<a, b, a, b>>
    BY DEF unpacklo32, unpackhi32, Even
  <2>3. Mix256(<<Even(a), Even(b)>>) = <<<<a, b, a, b>>, <<a, b, a, b>>>>
    BY <2>2 DEF Mix256
  <2>. QED  BY <2>1, <2>3 DEF a, b
<1>. DEFINE a == LaneOf(s, 1)
            b == LaneOf(s, 2)
            all == a \cup b
            v == <<a, b, a, b>>
            t == <<v, v>>
<1>2. Round256(s) = t
  BY <1>1
<1>. HIDE DEF a, b
<1>3. UNION {v[w] : w \in 1 .. 4} = all
  <2>1. v[1] = a /\ v[2] = b /\ v[3] = a /\ v[4] = b
    OBVIOUS
  <2>2. 1 .. 4 = {1, 2, 3, 4}
    OBVIOUS
  <2>. HIDE DEF v
  <2>3. UNION {v[w] : w \in {1, 2, 3, 4}} = v[1] \cup v[2] \cup v[3] \cup v[4]
    OBVIOUS
  <2>. QED  BY <2>1, <2>2, <2>3
<1>4. LaneOf(t, 1) = all /\ LaneOf(t, 2) = all
  <2>. HIDE DEF v, all
  <2>1. t[1] = v /\ t[2] = v
    OBVIOUS
  <2>. QED  BY <1>3, <2>1 DEF LaneOf
<1>. HIDE DEF t, all
<1>5. Round256(t) = Even256(all)
  BY <1>1, <1>4 DEF Even256, Even
<1>6. Round256(Even256(all)) = Even256(all)
  <2>1. \A w \in 1 .. 4 : Even(all)[w] = all
    BY DEF Even
  <2>2. UNION {Even(all)[w] : w \in 1 .. 4} = all
    BY <2>1
  <2>3. LaneOf(Even256(all), 1) = all /\ LaneOf(Even256(all), 2) = all
    <3>1. Even256(all)[1] = Even(all) /\ Even256(all)[2] = Even(all)
      BY DEF Even256
    <3>. QED  BY <2>2, <3>1 DEF LaneOf
  <2>. QED  BY <1>1, <2>3 DEF Even256, Even
<1>. QED  BY <1>2, <1>5, <1>6 DEF all, a, b

(* The permutation of a key block is five rounds.                          *)
LEMMA FiveKeyRounds ==
  ASSUME NEW in
  PROVE  LET s == Lanes256(in)
         IN  Rounds256(in)[Rounds] = Even256(LaneOf(s, 1) \cup LaneOf(s, 2))
<1>. DEFINE s == Lanes256(in)
            all == LaneOf(s, 1) \cup LaneOf(s, 2)
            r == Round256(s)
            e == Even256(all)
            t == [i \in 0 .. 5 |-> IF i = 0 THEN s ELSE IF i = 1 THEN r ELSE e]
<1>1. Round256(r) = e /\ Round256(e) = e
  BY TwoRoundsMixBoth
<1>2. \A i \in 0 .. 5 : t[i] = IF i = 0 THEN s ELSE Round256(t[i - 1])
  <2>. SUFFICES ASSUME NEW i \in 0 .. 5
                PROVE  t[i] = IF i = 0 THEN s ELSE Round256(t[i - 1])
    OBVIOUS
  <2>1. /\ t[0] = s /\ t[1] = r /\ t[2] = e /\ t[3] = e /\ t[4] = e /\ t[5] = e
    OBVIOUS
  <2>2. r = Round256(s)
    OBVIOUS
  <2>3. i \in {0, 1, 2, 3, 4, 5}
    OBVIOUS
  <2>. HIDE DEF t, s, r, e
  <2>4. CASE i = 0
    BY <2>1, <2>4
  <2>5. CASE i = 1
    <3>1. i - 1 = 0
      BY <2>5
    <3>. QED  BY <2>1, <2>2, <2>5, <3>1
  <2>6. CASE i \in {2, 3, 4, 5}
    <3>1. (t[i - 1] = r \/ t[i - 1] = e) /\ t[i] = e
      BY <2>1, <2>6
    <3>. QED  BY <1>1, <2>6, <3>1
  <2>. QED  BY <2>3, <2>4, <2>5, <2>6
<1>3. IsRounds256(t, in)
  <2>1. t = [i \in 0 .. 5 |-> t[i]]
    OBVIOUS
  <2>. HIDE DEF t, s, r, e
  <2>2. [i \in 0 .. 5 |-> t[i]] = [i \in 0 .. 5 |-> IF i = 0 THEN s ELSE Round256(t[i - 1])]
    BY <1>2
  <2>. QED  BY <2>1, <2>2 DEF IsRounds256, s, Rounds
<1>4. IsRounds256(Rounds256(in), in)
  BY <1>3 DEF Rounds256
<1>. DEFINE T == Rounds256(in)
<1>5. \A i \in 0 .. 5 : T[i] = IF i = 0 THEN s ELSE Round256(T[i - 1])
  <2>. HIDE DEF s
  <2>1. T = [i \in 0 .. 5 |-> IF i = 0 THEN s ELSE Round256(T[i - 1])]
    BY <1>4 DEF IsRounds256, s, Rounds
  <2>. HIDE DEF T
  <2>. QED  BY <2>1
<1>. HIDE DEF s, all, t, T
<1>6. T[0] = s /\ T[1] = Round256(T[0]) /\ T[2] = Round256(T[1])
      /\ T[3] = Round256(T[2]) /\ T[4] = Round256(T[3]) /\ T[5] = Round256(T[4])
  BY <1>5
<1>7. T[5] = e
  <2>. HIDE DEF e
  <2>. QED  BY <1>1, <1>6
<1>. QED  BY <1>7 DEF s, all, T, Rounds

(* Each half of a key block depends on all of the block before it.         *)
LEMMA KeyBlocksMix == KeyBlocksDiffuse
<1>. DEFINE in == [v \in 1 .. 8 |-> {v}]
            s == Lanes256(in)
            e == Even(1 .. 8)
<1>1. LaneOf(s, 1) \cup LaneOf(s, 2) = 1 .. 8
  <2>1. /\ SubSeq(in, 1, 4) = [i \in 1 .. 4 |-> {i}]
        /\ SubSeq(in, 5, 8) = [i \in 1 .. 4 |-> {i + 4}]
    OBVIOUS
  <2>2. \A w \in 1 .. 4 : s[1][w] = {w} /\ s[2][w] = {w + 4}
    BY <2>1 DEF Lanes256
  <2>. HIDE DEF s
  <2>3. LaneOf(s, 1) = 1 .. 4 /\ LaneOf(s, 2) = 5 .. 8
    <3>1. UNION {{w} : w \in 1 .. 4} = 1 .. 4
      OBVIOUS
    <3>2. UNION {{w + 4} : w \in 1 .. 4} = 5 .. 8
      <4>1. \A x \in 5 .. 8 : x - 4 \in 1 .. 4 /\ x = (x - 4) + 4
        OBVIOUS
      <4>. QED  BY <4>1
    <3>. QED  BY <2>2, <3>1, <3>2 DEF LaneOf
  <2>. QED  BY <2>3
<1>. HIDE DEF s
<1>2. Rounds256(in)[Rounds] = <<e, e>>
  BY <1>1, FiveKeyRounds DEF s, Even256
<1>3. haraka256_perm(in) = e \o e
  <2>. DEFINE last == Rounds256(in)[Rounds]
  <2>1. haraka256_perm(in) = last[1] \o last[2]
    BY DEF haraka256_perm, Rounds256, IsRounds256, Round256, Lanes256
  <2>2. last[1] = e /\ last[2] = e
    <3>. HIDE DEF e, last
    <3>. QED  BY <1>2 DEF last
  <2>. QED  BY <2>1, <2>2
<1>4. \A w \in 1 .. 8 : (e \o e)[w] = 1 .. 8
  <2>. DEFINE S == {1 .. 8}
  <2>1. e \in Seq(S) /\ Len(e) = 4
    BY DEF Even
  <2>. HIDE DEF S, e
  <2>2. e \o e \in Seq(S) /\ Len(e \o e) = Len(e) + Len(e)
    BY <2>1, ConcatProperties
  <2>. DEFINE q == e \o e
  <2>. HIDE DEF q
  <2>3. q \in Seq(S) /\ Len(q) = 8
    BY <2>1, <2>2 DEF q
  <2>4. \A w \in 1 .. 8 : q[w] \in S
    BY <2>3, ElementOfSeq
  <2>. QED  BY <2>4 DEF q, S
<1>5. \A w \in 1 .. 8 : haraka256_port(in)[w] = 1 .. 8
  <2>1. \A w \in 1 .. 8 : in[w] \subseteq 1 .. 8
    OBVIOUS
  <2>. DEFINE q == e \o e
  <2>2. haraka256_port(in) = [w \in 1 .. 8 |-> in[w] \cup q[w]]
    BY <1>3 DEF haraka256_port
  <2>3. \A w \in 1 .. 8 : q[w] = 1 .. 8
    BY <1>4
  <2>. HIDE DEF q, in
  <2>. QED  BY <2>1, <2>2, <2>3
<1>. QED  BY <1>5 DEF KeyBlocksDiffuse

(* No word is lost: lane l of the mixed state has a word of each place.    *)
LEMMA MixingsKeepWords == MixLosesNothing
<1>. DEFINE W(l) == [w \in 1 .. 4 |-> <<l, w>>]
            Held(lanes) == UNION {{lanes[l][w] : w \in 1 .. 4} : l \in DOMAIN lanes}
            m == Mix512(<<W(1), W(2), W(3), W(4)>>)
            n == Mix256(<<W(1), W(2)>>)
<1>1. m = <<<< <<1, 4>>, <<3, 4>>, <<2, 4>>, <<4, 4>> >>,
            << <<3, 1>>, <<1, 1>>, <<4, 1>>, <<2, 1>> >>,
            << <<3, 2>>, <<1, 2>>, <<4, 2>>, <<2, 2>> >>,
            << <<1, 3>>, <<3, 3>>, <<2, 3>>, <<4, 3>> >> >>
  BY DEF Mix512, unpacklo32, unpackhi32
<1>2. n = <<<< <<1, 1>>, <<2, 1>>, <<1, 2>>, <<2, 2>> >>,
            << <<1, 3>>, <<2, 3>>, <<1, 4>>, <<2, 4>> >> >>
  BY DEF Mix256, unpacklo32, unpackhi32
<1>3. DOMAIN m = 1 .. 4 /\ DOMAIN n = 1 .. 2
  BY <1>1, <1>2
<1>4. Held(m) = (1 .. 4) \X (1 .. 4)
  <2>1. /\ m[1][1] = <<1, 4>> /\ m[1][2] = <<3, 4>> /\ m[1][3] = <<2, 4>>
        /\ m[1][4] = <<4, 4>> /\ m[2][1] = <<3, 1>> /\ m[2][2] = <<1, 1>>
        /\ m[2][3] = <<4, 1>> /\ m[2][4] = <<2, 1>> /\ m[3][1] = <<3, 2>>
        /\ m[3][2] = <<1, 2>> /\ m[3][3] = <<4, 2>> /\ m[3][4] = <<2, 2>>
        /\ m[4][1] = <<1, 3>> /\ m[4][2] = <<3, 3>> /\ m[4][3] = <<2, 3>>
        /\ m[4][4] = <<4, 3>>
    BY <1>1
  <2>2. 1 .. 4 = {1, 2, 3, 4}
    OBVIOUS
  <2>. HIDE DEF m
  <2>3. \A l, w \in {1, 2, 3, 4} : m[l][w] \in {1, 2, 3, 4} \X {1, 2, 3, 4}
    <3>. DEFINE S == {1, 2, 3, 4} \X {1, 2, 3, 4}
    <3>1. \A k \in {1, 2, 3, 4}, v \in {1, 2, 3, 4} : <<k, v>> \in S
      OBVIOUS
    <3>. HIDE DEF S
    <3>2. \A l, w \in {1, 2, 3, 4} : m[l][w] \in S
      BY <2>1, <3>1
    <3>. QED  BY <3>2 DEF S
  <2>4. \A k, v \in {1, 2, 3, 4} : \E l, w \in {1, 2, 3, 4} : m[l][w] = <<k, v>>
    BY <2>1
  <2>5. Held(m) = UNION {{m[l][w] : w \in {1, 2, 3, 4}} : l \in {1, 2, 3, 4}}
    BY <1>3, <2>2
  <2>6. ASSUME NEW x \in {1, 2, 3, 4} \X {1, 2, 3, 4} PROVE x \in Held(m)
    <3>1. PICK k \in {1, 2, 3, 4}, v \in {1, 2, 3, 4} : x = <<k, v>>
      OBVIOUS
    <3>2. PICK l, w \in {1, 2, 3, 4} : m[l][w] = <<k, v>>
      <4>. DEFINE F == {1, 2, 3, 4}
      <4>1. k \in F /\ v \in F /\ \A i, j \in F : \E l, w \in F : m[l][w] = <<i, j>>
        BY <2>4
      <4>. HIDE DEF F
      <4>2. \E l, w \in F : m[l][w] = <<k, v>>
        BY <4>1
      <4>. QED  BY <4>2 DEF F
    <3>. HIDE DEF Held
    <3>. QED  BY <2>5, <3>1, <3>2
  <2>7. ASSUME NEW x \in Held(m) PROVE x \in {1, 2, 3, 4} \X {1, 2, 3, 4}
    <3>. HIDE DEF Held
    <3>1. PICK l, w \in {1, 2, 3, 4} : x = m[l][w]
      BY <2>5
    <3>. QED  BY <2>3, <3>1
  <2>. HIDE DEF Held
  <2>. QED  BY <2>2, <2>6, <2>7
<1>5. Held(n) = (1 .. 2) \X (1 .. 4)
  <2>1. /\ n[1][1] = <<1, 1>> /\ n[1][2] = <<2, 1>> /\ n[1][3] = <<1, 2>>
        /\ n[1][4] = <<2, 2>> /\ n[2][1] = <<1, 3>> /\ n[2][2] = <<2, 3>>
        /\ n[2][3] = <<1, 4>> /\ n[2][4] = <<2, 4>>
    BY <1>2
  <2>2. 1 .. 4 = {1, 2, 3, 4} /\ 1 .. 2 = {1, 2}
    OBVIOUS
  <2>. HIDE DEF n
  <2>3. \A l \in {1, 2}, w \in {1, 2, 3, 4} : n[l][w] \in {1, 2} \X {1, 2, 3, 4}
    <3>. DEFINE S == {1, 2} \X {1, 2, 3, 4}
    <3>1. \A k \in {1, 2}, v \in {1, 2, 3, 4} : <<k, v>> \in S
      OBVIOUS
    <3>. HIDE DEF S
    <3>2. \A l \in {1, 2}, w \in {1, 2, 3, 4} : n[l][w] \in S
      BY <2>1, <3>1
    <3>. QED  BY <3>2 DEF S
  <2>4. \A k \in {1, 2}, v \in {1, 2, 3, 4} :
          \E l \in {1, 2}, w \in {1, 2, 3, 4} : n[l][w] = <<k, v>>
    BY <2>1
  <2>5. Held(n) = UNION {{n[l][w] : w \in {1, 2, 3, 4}} : l \in {1, 2}}
    BY <1>3, <2>2
  <2>6. ASSUME NEW x \in {1, 2} \X {1, 2, 3, 4} PROVE x \in Held(n)
    <3>1. PICK k \in {1, 2}, v \in {1, 2, 3, 4} : x = <<k, v>>
      OBVIOUS
    <3>2. PICK l \in {1, 2}, w \in {1, 2, 3, 4} : n[l][w] = <<k, v>>
      BY <2>4, ZenonT(20)
    <3>. HIDE DEF Held
    <3>. QED  BY <2>5, <3>1, <3>2
  <2>7. ASSUME NEW x \in Held(n) PROVE x \in {1, 2} \X {1, 2, 3, 4}
    <3>. HIDE DEF Held
    <3>1. PICK l \in {1, 2}, w \in {1, 2, 3, 4} : x = n[l][w]
      BY <2>5
    <3>. QED  BY <2>3, <3>1
  <2>. HIDE DEF Held
  <2>. QED  BY <2>2, <2>6, <2>7
<1>. QED  BY <1>4, <1>5 DEF MixLosesNothing

-----------------------------------------------------------------------------
(* Byte j of block k, in front of the filling.                             *)
Taken(k, j) == IF j < 32 THEN Out(k, j) ELSE Msg(32 * k + j - 32)

HasherType ==
  /\ writes \in Seq(Nat)
  /\ calls \in Nat /\ read \in Nat /\ curPos \in 0 .. 31
  /\ phase \in {"writing", "filled", "sealed"}

BytesInv ==
  /\ read = 32 * calls + curPos
  /\ calls > 0 => result = [j \in 0 .. 63 |-> Taken(calls - 1, j)]
  /\ phase # "sealed" => \A j \in 0 .. 31 + curPos : curBuf[j] = Taken(calls, j)
  /\ phase = "filled" =>
       curBuf = [j \in 0 .. 63 |-> IF j < 32 + curPos THEN Taken(calls, j)
                                   ELSE Out(calls, (j - 32 - curPos) % 16)]
  /\ phase = "sealed" =>
       curBuf = [j \in 0 .. 63 |-> IF j < 32 + curPos THEN Taken(calls, j)
                                   ELSE Mid((j - 32 - curPos) % 8)]

ChainInv ==
  chain = [w \in 1 .. 8 |->
             0 .. (IF phase = "sealed" THEN read ELSE 32 * calls) - 1]

HasherInv == HasherType /\ BytesInv /\ ChainInv

(* Where the bytes are is where the property wants them.                   *)
LEMMA BytesFollow == ASSUME HasherType, BytesInv PROVE BlocksFollowMessage
<1>1. calls > 0 => result = ExpectedBlock(calls - 1, 32, LAMBDA j : Junk)
  BY DEF HasherType, BytesInv, Taken, ExpectedBlock
<1>2. ASSUME phase = "writing", NEW j \in 0 .. 31 + curPos
      PROVE  curBuf[j] = ExpectedBlock(calls, curPos, LAMBDA i : Junk)[j]
  <2>1. curBuf[j] = Taken(calls, j)
    BY <1>2 DEF BytesInv
  <2>2. j \in 0 .. 63 /\ j < 32 + curPos
    BY DEF HasherType
  <2>. QED  BY <2>1, <2>2 DEF Taken, ExpectedBlock
<1>3. ASSUME phase = "filled"
      PROVE  curBuf = ExpectedBlock(calls, curPos, LAMBDA j : Out(calls, j % U128Bytes))
  <2>1. curBuf = [j \in 0 .. 63 |-> IF j < 32 + curPos THEN Taken(calls, j)
                                    ELSE Out(calls, (j - 32 - curPos) % U128Bytes)]
    BY <1>3 DEF BytesInv, U128Bytes
  <2>2. \A j \in 0 .. 63 :
          (IF j < 32 + curPos THEN Taken(calls, j)
           ELSE Out(calls, (j - 32 - curPos) % U128Bytes))
            = IF j < 32 THEN Out(calls, j)
              ELSE IF j < 32 + curPos THEN Msg(32 * calls + j - 32)
              ELSE Out(calls, (j - 32 - curPos) % U128Bytes)
    BY DEF Taken, HasherType
  <2>. QED  BY <2>1, <2>2 DEF ExpectedBlock
<1>4. ASSUME phase = "sealed"
      PROVE  curBuf = ExpectedBlock(calls, curPos, LAMBDA j : Mid(j % U64Bytes))
  <2>1. curBuf = [j \in 0 .. 63 |-> IF j < 32 + curPos THEN Taken(calls, j)
                                    ELSE Mid((j - 32 - curPos) % U64Bytes)]
    BY <1>4 DEF BytesInv, U64Bytes
  <2>2. \A j \in 0 .. 63 :
          (IF j < 32 + curPos THEN Taken(calls, j)
           ELSE Mid((j - 32 - curPos) % U64Bytes))
            = IF j < 32 THEN Out(calls, j)
              ELSE IF j < 32 + curPos THEN Msg(32 * calls + j - 32)
              ELSE Mid((j - 32 - curPos) % U64Bytes)
    BY DEF Taken, HasherType
  <2>. QED  BY <2>1, <2>2 DEF ExpectedBlock
<1>. QED  BY <1>1, <1>2, <1>3, <1>4 DEF BytesInv, BlocksFollowMessage

(* An empty hasher.                                                        *)
LEMMA HasherStart == HasherInit => HasherInv
<1>. SUFFICES ASSUME HasherInit PROVE HasherInv
  OBVIOUS
<1>1. HasherType
  BY ChunkingsAssumption DEF HasherInit, HasherType
<1>2. BytesInv
  BY DEF HasherInit, BytesInv, Taken, Out
<1>3. ChainInv
  <2>1. 0 .. 32 * calls - 1 = {}
    BY DEF HasherInit
  <2>. QED  BY <2>1 DEF HasherInit, ChainInv
<1>. QED  BY <1>1, <1>2, <1>3 DEF HasherInv

(* The block in a buffer and the hash so far depend on all of the message  *)
(* up to the block's end.                                                  *)
LEMMA BlockSources ==
  ASSUME HasherType, ChainInv, phase # "sealed", NEW buf, NEW n \in 0 .. 32,
         \A j \in 0 .. 31 + n : buf[j] = Taken(calls, j),
         32 * calls + n = read \/ n = 32,
         \A j \in 32 + n .. 63 : \E i : buf[j] = Mid(i)
  PROVE  UNION {Sources(buf)[v] : v \in 1 .. 16} = 0 .. 32 * calls + n - 1
<1>. DEFINE Of(b) == CASE b[1] = "msg"  -> {b[2]}
                       [] b[1] = "hash" -> chain[1 + b[3] \div 4]
                       [] b[1] = "mid"  -> 0 .. read - 1
                       [] OTHER         -> {}
<1>1. Sources(buf) = [w \in 1 .. 16 |-> UNION {Of(buf[4 * w - b]) : b \in 1 .. 4}]
  BY DEF Sources
<1>2. \A i : Of(Msg(i)) = {i}
  BY DEF Msg
<1>3. \A i : Of(Mid(i)) = 0 .. read - 1
  BY DEF Mid
<1>4. Of(Zero) = {}
  BY DEF Zero
<1>5. \A k, j : Of(<<"hash", k, j>>) = chain[1 + j \div 4]
  OBVIOUS
<1>. HIDE DEF Of
<1>6. /\ calls \in Nat /\ read \in Nat
      /\ \A w \in 1 .. 8 : chain[w] = 0 .. 32 * calls - 1
  BY DEF HasherType, ChainInv
<1>7. \A j \in 0 .. 31 : Of(buf[j]) = 0 .. 32 * calls - 1
  <2>. SUFFICES ASSUME NEW j \in 0 .. 31
                PROVE  Of(buf[j]) = 0 .. 32 * calls - 1
    OBVIOUS
  <2>1. buf[j] = Out(calls, j)
    <3>1. j \in 0 .. 31 + n /\ j < 32
      OBVIOUS
    <3>. QED  BY <3>1 DEF Taken
  <2>2. CASE calls = 0
    <3>1. 0 .. 32 * calls - 1 = {}
      BY <2>2
    <3>. QED  BY <1>4, <2>1, <2>2, <3>1 DEF Out
  <2>3. CASE calls # 0
    <3>1. buf[j] = <<"hash", calls, j>>
      BY <2>1, <2>3 DEF Out
    <3>2. 1 + j \div 4 \in 1 .. 8
      OBVIOUS
    <3>. QED  BY <1>5, <1>6, <3>1, <3>2
  <2>. QED  BY <2>2, <2>3
<1>8. \A j \in 32 .. 31 + n : Of(buf[j]) = {32 * calls + j - 32}
  <2>. SUFFICES ASSUME NEW j \in 32 .. 31 + n
                PROVE  Of(buf[j]) = {32 * calls + j - 32}
    OBVIOUS
  <2>1. j \in 0 .. 31 + n /\ ~ (j < 32)
    OBVIOUS
  <2>2. buf[j] = Msg(32 * calls + j - 32)
    BY <2>1 DEF Taken
  <2>. QED  BY <1>2, <2>2
<1>9. \A j \in 32 + n .. 63 : Of(buf[j]) = 0 .. read - 1 /\ read = 32 * calls + n
  <2>. SUFFICES ASSUME NEW j \in 32 + n .. 63
                PROVE  Of(buf[j]) = 0 .. read - 1 /\ read = 32 * calls + n
    OBVIOUS
  <2>1. n # 32
    OBVIOUS
  <2>2. PICK i : buf[j] = Mid(i)
    OBVIOUS
  <2>. QED  BY <1>3, <2>1, <2>2
<1>. DEFINE all == 0 .. 32 * calls + n - 1
<1>10. \A j \in 0 .. 63 : Of(buf[j]) \subseteq all
  <2>. SUFFICES ASSUME NEW j \in 0 .. 63 PROVE Of(buf[j]) \subseteq all
    OBVIOUS
  <2>1. CASE j \in 0 .. 31
    <3>. DEFINE k == 32 * calls
    <3>0. k \in Nat
      BY <1>6
    <3>1. 0 .. k - 1 \subseteq all
      <4>. HIDE DEF k
      <4>1. \A x \in 0 .. k - 1 : x \in 0 .. k + n - 1
        BY <3>0
      <4>. QED  BY <4>1 DEF k
    <3>. QED  BY <1>7, <2>1, <3>1
  <2>2. CASE j \in 32 .. 31 + n
    <3>1. 32 * calls + j - 32 \in all
      BY <1>6, <2>2
    <3>. QED  BY <1>8, <2>2, <3>1
  <2>3. CASE j \in 32 + n .. 63
    <3>1. Of(buf[j]) = 0 .. read - 1 /\ read = 32 * calls + n
      BY <1>9, <2>3, Zenon
    <3>2. all = 0 .. read - 1
      BY <1>6, <3>1
    <3>. HIDE DEF all
    <3>. QED  BY <3>1, <3>2
  <2>. QED  BY <2>1, <2>2, <2>3
<1>11. \A w \in 1 .. 16, b \in 1 .. 4 : 4 * w - b \in 0 .. 63
  OBVIOUS
<1>12. \A v \in 1 .. 16 : Sources(buf)[v] \subseteq all
  <2>. HIDE DEF all
  <2>. QED  BY <1>1, <1>10, <1>11
<1>13. ASSUME NEW x \in all
       PROVE  \E v \in 1 .. 16 : x \in Sources(buf)[v]
  <2>1. PICK j \in 0 .. 63 : x \in Of(buf[j])
    <3>1. CASE x < 32 * calls
      <4>1. x \in 0 .. 32 * calls - 1
        BY <1>6, <3>1
      <4>2. 0 \in 0 .. 31 /\ 0 \in 0 .. 63
        OBVIOUS
      <4>3. x \in Of(buf[0])
        BY <1>7, <4>1, <4>2
      <4>. QED  BY <4>2, <4>3
    <3>2. CASE x >= 32 * calls
      <4>. DEFINE j == x - 32 * calls + 32
      <4>1. j \in 32 .. 31 + n /\ j \in 0 .. 63 /\ 32 * calls + j - 32 = x
        BY <1>6, <3>2
      <4>. HIDE DEF j
      <4>. QED  BY <1>8, <4>1
    <3>. QED  BY <1>6, <3>1, <3>2
  <2>. DEFINE w == j \div 4 + 1
              b == 4 * w - j
  <2>2. w \in 1 .. 16 /\ b \in 1 .. 4 /\ 4 * w - b = j
    OBVIOUS
  <2>. HIDE DEF w, b, all
  <2>3. x \in Of(buf[4 * w - b])
    BY <2>1, <2>2
  <2>4. x \in UNION {Of(buf[4 * w - c]) : c \in 1 .. 4}
    BY <2>2, <2>3
  <2>. QED  BY <1>1, <2>2, <2>4
<1>. HIDE DEF all
<1>. QED  BY <1>12, <1>13 DEF all

(* A block is complete and hashed.                                         *)
LEMMA DigestKeeps == ASSUME HasherInv, Digest PROVE HasherInv'
<1>. DEFINE in == WithMessage(Room)
<1>1. /\ writes \in Seq(Nat) /\ writes # <<>> /\ Head(writes) \in Nat
      /\ Tail(writes) \in Seq(Nat) /\ Head(writes) >= Room
      /\ calls \in Nat /\ read \in Nat /\ curPos \in 0 .. 31
      /\ Room \in Nat /\ Room = 32 - curPos /\ read = 32 * calls + curPos
      /\ phase = "writing"
      /\ \A j \in 0 .. 31 + curPos : curBuf[j] = Taken(calls, j)
  <2>. HIDE DEF in
  <2>1. HasherType /\ BytesInv
    BY DEF HasherInv
  <2>2. writes # <<>> /\ Head(writes) >= Room /\ phase = "writing"
    BY DEF Digest
  <2>3. Head(writes) \in Nat /\ Tail(writes) \in Seq(Nat)
    BY <2>1, <2>2, HeadTailProperties DEF HasherType
  <2>. QED  BY <2>1, <2>2, <2>3 DEF HasherType, BytesInv, Room
<1>2. HasherType'
  <2>1. writes' \in Seq(Nat)
    <3>1. Head(writes) - Room \in Nat
      BY <1>1
    <3>2. <<Head(writes) - Room>> \in Seq(Nat)
      BY <3>1
    <3>. QED  BY <1>1, <3>2, ConcatProperties DEF Digest
  <2>. QED  BY <1>1, <2>1 DEF HasherType, Digest
<1>3. \A j \in 0 .. 63 : in[j] = Taken(calls, j)
  <2>. SUFFICES ASSUME NEW j \in 0 .. 63 PROVE in[j] = Taken(calls, j)
    OBVIOUS
  <2>1. CASE j < 32 + curPos
    <3>1. in[j] = curBuf[j]
      BY <1>1, <2>1 DEF WithMessage
    <3>2. j \in 0 .. 31 + curPos
      BY <1>1, <2>1
    <3>3. curBuf[j] = Taken(calls, j)
      BY <1>1, <3>2
    <3>. HIDE DEF in
    <3>. QED  BY <3>1, <3>3
  <2>2. CASE j >= 32 + curPos
    <3>1. in[j] = Msg(read + j - 32 - curPos)
      BY <1>1, <2>2 DEF WithMessage
    <3>2. read + j - 32 - curPos = 32 * calls + j - 32
      BY <1>1
    <3>3. ~ (j < 32)
      BY <1>1, <2>2
    <3>4. Taken(calls, j) = Msg(32 * calls + j - 32)
      BY <3>3 DEF Taken
    <3>. HIDE DEF in
    <3>. QED  BY <3>1, <3>2, <3>4
  <2>. QED  BY <1>1, <2>1, <2>2
<1>. HIDE DEF in
<1>4. BytesInv'
  <2>1. read' = 32 * calls' + curPos'
    <3>1. read' = read + Room /\ calls' = calls + 1 /\ curPos' = 0
      BY DEF Digest
    <3>. QED  BY <1>1, <3>1
  <2>2. (calls > 0 => result = [j \in 0 .. 63 |-> Taken(calls - 1, j)])'
    <3>1. result' = in /\ calls' - 1 = calls
      BY <1>1 DEF Digest, in
    <3>2. in = [j \in 0 .. 63 |-> in[j]]
      BY DEF in, WithMessage
    <3>3. in = [j \in 0 .. 63 |-> Taken(calls, j)]
      BY <1>3, <3>2
    <3>. QED  BY <3>1, <3>3 DEF Taken, Out, Msg, Zero
  <2>3. (\A j \in 0 .. 31 + curPos : curBuf[j] = Taken(calls, j))'
    <3>1. curPos' = 0 /\ calls' = calls + 1
          /\ \A j \in 0 .. 31 : curBuf'[j] = Out(calls + 1, j)
      BY DEF Digest, KeptBytes
    <3>2. \A j \in 0 .. 31 : curBuf'[j] = Taken(calls + 1, j)
      BY <3>1 DEF Taken
    <3>3. 0 .. 31 + curPos' = 0 .. 31
      BY <3>1
    <3>. QED  BY <3>1, <3>2, <3>3 DEF Taken, Out, Msg, Zero
  <2>4. phase' = "writing"
    BY <1>1 DEF Digest
  <2>. QED  BY <2>1, <2>2, <2>3, <2>4 DEF BytesInv
<1>5. ChainInv'
  <2>1. UNION {Sources(in)[v] : v \in 1 .. 16} = 0 .. 32 * calls + 32 - 1
    <3>. DEFINE n == 32
    <3>1. /\ \A j \in 0 .. 31 + n : in[j] = Taken(calls, j)
          /\ n \in 0 .. 32 /\ (32 * calls + n = read \/ n = 32)
      BY <1>3
    <3>2. \A j \in 32 + n .. 63 : \E i : in[j] = Mid(i)
      OBVIOUS
    <3>3. HasherType /\ ChainInv /\ phase # "sealed"
      BY <1>1 DEF HasherInv
    <3>. HIDE DEF n
    <3>4. UNION {Sources(in)[v] : v \in 1 .. 16} = 0 .. 32 * calls + n - 1
      BY <3>1, <3>2, <3>3, BlockSources
    <3>. QED  BY <3>4 DEF n
  <2>2. chain' = [w \in 1 .. 8 |-> 0 .. 32 * calls + 32 - 1]
    BY <2>1, HashMixesAll DEF Digest, in
  <2>3. phase' = "writing" /\ calls' = calls + 1
        /\ 32 * calls + 32 - 1 = 32 * (calls + 1) - 1
    BY <1>1 DEF Digest
  <2>. QED  BY <2>2, <2>3 DEF ChainInv
<1>. QED  BY <1>2, <1>4, <1>5 DEF HasherInv

(* The left-overs of a write are kept.                                     *)
LEMMA KeepKeeps == ASSUME HasherInv, Keep PROVE HasherInv'
<1>. DEFINE n == Head(writes)
            in == WithMessage(n)
<1>1. /\ writes \in Seq(Nat) /\ writes # <<>> /\ n \in 1 .. 31 - curPos
      /\ Tail(writes) \in Seq(Nat)
      /\ calls \in Nat /\ read \in Nat /\ curPos \in 0 .. 31
      /\ read = 32 * calls + curPos
      /\ phase = "writing"
      /\ \A j \in 0 .. 31 + curPos : curBuf[j] = Taken(calls, j)
  <2>. HIDE DEF in
  <2>1. HasherType /\ BytesInv
    BY DEF HasherInv
  <2>2. writes # <<>> /\ Head(writes) \in 1 .. Room - 1 /\ phase = "writing"
    BY DEF Keep
  <2>3. Tail(writes) \in Seq(Nat)
    BY <2>1, <2>2, HeadTailProperties DEF HasherType
  <2>. QED  BY <2>1, <2>2, <2>3 DEF HasherType, BytesInv, Room
<1>2. /\ phase' = phase /\ calls' = calls /\ result' = result
      /\ chain' = chain /\ curPos' = curPos + n /\ read' = read + n
      /\ writes' = <<0>> \o Tail(writes) /\ curBuf' = in
  BY DEF Keep
<1>. HIDE DEF n
<1>3. HasherType'
  <2>1. writes' \in Seq(Nat)
    <3>1. <<0>> \in Seq(Nat)
      OBVIOUS
    <3>. QED  BY <1>1, <1>2, <3>1, ConcatProperties
  <2>. QED  BY <1>1, <1>2, <2>1 DEF HasherType
<1>4. BytesInv'
  <2>1. ASSUME NEW j \in 0 .. 31 + (curPos + n) PROVE in[j] = Taken(calls, j)
    <3>1. CASE j < 32 + curPos
      <4>1. in[j] = curBuf[j]
        BY <1>1, <3>1 DEF WithMessage
      <4>2. j \in 0 .. 31 + curPos
        BY <1>1, <3>1
      <4>. QED  BY <1>1, <4>1, <4>2
    <3>2. CASE j >= 32 + curPos
      <4>1. in[j] = Msg(read + j - 32 - curPos)
        BY <1>1, <3>2 DEF WithMessage
      <4>2. read + j - 32 - curPos = 32 * calls + j - 32
        BY <1>1
      <4>. QED  BY <1>1, <3>2, <4>1, <4>2 DEF Taken
    <3>. QED  BY <1>1, <3>1, <3>2
  <2>. HIDE DEF in
  <2>2. (\A j \in 0 .. 31 + curPos : curBuf[j] = Taken(calls, j))'
    BY <1>2, <2>1 DEF Taken, Out, Msg, Zero
  <2>3. (read = 32 * calls + curPos)'
    BY <1>1, <1>2
  <2>4. (calls > 0 => result = [j \in 0 .. 63 |-> Taken(calls - 1, j)])'
    BY <1>2 DEF HasherInv, BytesInv, Taken, Out, Msg, Zero
  <2>. QED  BY <1>1, <1>2, <2>2, <2>3, <2>4 DEF BytesInv
<1>5. ChainInv'
  BY <1>1, <1>2 DEF HasherInv, ChainInv
<1>. QED  BY <1>3, <1>4, <1>5 DEF HasherInv

(* A write is done.                                                        *)
LEMMA ReturnKeeps == ASSUME HasherInv, Return PROVE HasherInv'
<1>1. /\ curBuf' = curBuf /\ result' = result /\ curPos' = curPos
      /\ read' = read /\ calls' = calls /\ chain' = chain /\ phase' = phase
      /\ writes' = Tail(writes) /\ writes # <<>>
  BY DEF Return
<1>2. HasherType'
  <2>1. writes' \in Seq(Nat)
    BY <1>1, HeadTailProperties DEF HasherInv, HasherType
  <2>. QED  BY <1>1, <2>1 DEF HasherInv, HasherType
<1>3. BytesInv'
  BY <1>1 DEF HasherInv, BytesInv, Taken, Out, Msg, Zero, Mid
<1>4. ChainInv'
  BY <1>1 DEF HasherInv, ChainInv
<1>. QED  BY <1>2, <1>3, <1>4 DEF HasherInv

(* The free bytes of the buffer are filled.                                *)
LEMMA FillKeeps == ASSUME HasherInv, Fill PROVE HasherInv'
<1>. DEFINE buf == FillExtra(curBuf, U128Bytes)
<1>1. /\ curBuf' = buf /\ result' = result /\ curPos' = curPos
      /\ read' = read /\ calls' = calls /\ chain' = chain
      /\ phase = "writing" /\ phase' = "filled" /\ writes' = writes
  BY DEF Fill
<1>2. /\ HasherType /\ curPos \in 0 .. 31 /\ calls \in Nat
      /\ \A j \in 0 .. 31 + curPos : curBuf[j] = Taken(calls, j)
  BY <1>1 DEF HasherInv, HasherType, BytesInv
<1>3. HasherType'
  BY <1>1, <1>2 DEF HasherType
<1>4. buf = [j \in 0 .. 63 |-> IF j < 32 + curPos THEN Taken(calls, j)
                               ELSE Out(calls, (j - 32 - curPos) % 16)]
  <2>1. ASSUME NEW j \in 0 .. 63
        PROVE  (IF j < 32 + curPos THEN curBuf[j]
                ELSE curBuf[(j - 32 - curPos) % 16])
                 = IF j < 32 + curPos THEN Taken(calls, j)
                   ELSE Out(calls, (j - 32 - curPos) % 16)
    <3>1. CASE j < 32 + curPos
      BY <1>2, <3>1
    <3>2. CASE j >= 32 + curPos
      <4>. DEFINE i == (j - 32 - curPos) % 16
      <4>1. i \in 0 .. 15
        BY <1>2, <3>2
      <4>. HIDE DEF i
      <4>2. curBuf[i] = Out(calls, i)
        BY <1>2, <4>1 DEF Taken
      <4>3. ~ (j < 32 + curPos)
        BY <1>2, <3>2
      <4>. QED  BY <4>2, <4>3 DEF i
    <3>. QED  BY <1>2, <3>1, <3>2
  <2>. QED  BY <2>1 DEF FillExtra, U128Bytes
<1>. HIDE DEF buf
<1>5. BytesInv'
  <2>1. (\A j \in 0 .. 31 + curPos : curBuf[j] = Taken(calls, j))'
    <3>1. \A j \in 0 .. 31 + curPos : buf[j] = Taken(calls, j)
      BY <1>2, <1>4
    <3>. QED  BY <1>1, <3>1 DEF Taken, Out, Msg, Zero
  <2>2. (curBuf = [j \in 0 .. 63 |-> IF j < 32 + curPos THEN Taken(calls, j)
                                     ELSE Out(calls, (j - 32 - curPos) % 16)])'
    BY <1>1, <1>4 DEF Taken, Out, Msg, Zero
  <2>3. (read = 32 * calls + curPos)'
        /\ (calls > 0 => result = [j \in 0 .. 63 |-> Taken(calls - 1, j)])'
    BY <1>1 DEF HasherInv, BytesInv, Taken, Out, Msg, Zero
  <2>. QED  BY <1>1, <2>1, <2>2, <2>3 DEF BytesInv
<1>6. ChainInv'
  BY <1>1 DEF HasherInv, ChainInv
<1>. QED  BY <1>3, <1>5, <1>6 DEF HasherInv

(* The last, keyed hash.                                                   *)
LEMMA SealKeeps == ASSUME HasherInv, Seal PROVE HasherInv'
<1>. DEFINE mids == [j \in 0 .. U64Bytes - 1 |-> Mid(j)]
            buf == FillExtra(mids, U64Bytes)
<1>1. /\ curBuf' = buf /\ result' = result /\ curPos' = curPos
      /\ read' = read /\ calls' = calls /\ writes' = writes
      /\ chain' = haraka512_port(Sources(buf))
      /\ phase = "filled" /\ phase' = "sealed"
  BY DEF Seal, haraka512_port_keyed
<1>2. /\ HasherType /\ ChainInv /\ curPos \in 0 .. 31 /\ calls \in Nat
      /\ read = 32 * calls + curPos
      /\ \A j \in 0 .. 31 + curPos : curBuf[j] = Taken(calls, j)
  BY <1>1 DEF HasherInv, HasherType, BytesInv
<1>3. HasherType'
  BY <1>1, <1>2 DEF HasherType
<1>4. buf = [j \in 0 .. 63 |-> IF j < 32 + curPos THEN Taken(calls, j)
                               ELSE Mid((j - 32 - curPos) % 8)]
  <2>1. ASSUME NEW j \in 0 .. 63
        PROVE  (IF j < 32 + curPos THEN curBuf[j]
                ELSE mids[(j - 32 - curPos) % 8])
                 = IF j < 32 + curPos THEN Taken(calls, j)
                   ELSE Mid((j - 32 - curPos) % 8)
    <3>1. CASE j < 32 + curPos
      BY <1>2, <3>1
    <3>2. CASE j >= 32 + curPos
      <4>. DEFINE i == (j - 32 - curPos) % 8
      <4>1. i \in 0 .. 7
        BY <1>2, <3>2
      <4>. HIDE DEF i
      <4>2. mids[i] = Mid(i)
        BY <4>1 DEF U64Bytes
      <4>3. ~ (j < 32 + curPos)
        BY <1>2, <3>2
      <4>. HIDE DEF mids
      <4>. QED  BY <4>2, <4>3 DEF i
    <3>. QED  BY <1>2, <3>1, <3>2
  <2>. HIDE DEF mids
  <2>. QED  BY <2>1 DEF FillExtra, U64Bytes
<1>. HIDE DEF buf
<1>5. BytesInv'
  <2>1. (curBuf = [j \in 0 .. 63 |-> IF j < 32 + curPos THEN Taken(calls, j)
                                     ELSE Mid((j - 32 - curPos) % 8)])'
    BY <1>1, <1>4 DEF Taken, Out, Msg, Zero, Mid
  <2>2. (read = 32 * calls + curPos)'
        /\ (calls > 0 => result = [j \in 0 .. 63 |-> Taken(calls - 1, j)])'
    BY <1>1 DEF HasherInv, BytesInv, Taken, Out, Msg, Zero
  <2>. QED  BY <1>1, <2>1, <2>2 DEF BytesInv
<1>6. ChainInv'
  <2>1. /\ \A j \in 0 .. 31 + curPos : buf[j] = Taken(calls, j)
        /\ \A j \in 32 + curPos .. 63 : \E i : buf[j] = Mid(i)
    BY <1>2, <1>4
  <2>2. curPos \in 0 .. 32 /\ phase # "sealed"
    BY <1>1, <1>2
  <2>3. UNION {Sources(buf)[v] : v \in 1 .. 16} = 0 .. 32 * calls + curPos - 1
    BY <1>2, <2>1, <2>2, BlockSources
  <2>4. chain' = [w \in 1 .. 8 |-> 0 .. read - 1]
    <3>1. 32 * calls + curPos - 1 = read - 1
      BY <1>2
    <3>2. UNION {Sources(buf)[v] : v \in 1 .. 16} = 0 .. read - 1
      BY <2>3, <3>1
    <3>. QED  BY <1>1, <3>2, HashMixesAll
  <2>. QED  BY <1>1, <2>4 DEF ChainInv
<1>. QED  BY <1>3, <1>5, <1>6 DEF HasherInv

(* Every step of the hasher.                                               *)
LEMMA HasherStep == ASSUME HasherInv, [HasherNext]_hasherVars PROVE HasherInv'
<1>1. CASE UNCHANGED hasherVars
  <2>1. /\ curBuf' = curBuf /\ result' = result /\ curPos' = curPos
        /\ read' = read /\ calls' = calls /\ chain' = chain /\ phase' = phase
        /\ writes' = writes
    BY <1>1 DEF hasherVars
  <2>. QED  BY <2>1 DEF HasherInv, HasherType, ChainInv, BytesInv, Taken, Out,
                        Msg, Zero, Mid
<1>. QED  BY <1>1, DigestKeeps, KeepKeeps, ReturnKeeps, FillKeeps, SealKeeps
          DEF HasherNext

(* However a message is cut, the buffers hold its blocks in order.         *)
THEOREM BlocksInOrder == HasherSpec => []BlocksFollowMessage
<1>1. HasherInv => BlocksFollowMessage
  BY BytesFollow DEF HasherInv
<1>. QED  BY <1>1, HasherStart, HasherStep, PTL DEF HasherSpec

(* However a message is cut, no word of a hash misses a byte of it.        *)
THEOREM NoByteIsLost == HasherSpec => []EveryByteCounts
<1>1. HasherInv => EveryByteCounts
  BY MixingsKeepWords, KeyBlocksMix DEF HasherInv, ChainInv, EveryByteCounts
<1>. QED  BY <1>1, HasherStart, HasherStep, PTL DEF HasherSpec

-----------------------------------------------------------------------------
(* The writes to the SHA-256 hasher: buffer, padding and rounds.            *)

(* Two sequences given by their entries.                                   *)
LEMMA ConcatAt ==
  ASSUME NEW m \in Nat, NEW n \in Nat, NEW a, NEW b,
         a = [i \in 1 .. m |-> a[i]], b = [i \in 1 .. n |-> b[i]]
  PROVE  a \o b = [i \in 1 .. m + n |-> IF i <= m THEN a[i] ELSE b[i - m]]
<1>. DEFINE S == {a[i] : i \in 1 .. m} \cup {b[i] : i \in 1 .. n}
<1>1. a \in [1 .. m -> S] /\ b \in [1 .. n -> S]
  OBVIOUS
<1>. HIDE DEF S
<1>2. a \in Seq(S) /\ b \in Seq(S)
  BY <1>1, SeqDef
<1>3. Len(a) = m /\ Len(b) = n
  BY <1>1, <1>2, LenProperties
<1>4. /\ a \o b \in Seq(S)
      /\ Len(a \o b) = Len(a) + Len(b)
      /\ \A i \in 1 .. Len(a) + Len(b) :
           (a \o b)[i] = IF i <= Len(a) THEN a[i] ELSE b[i - Len(a)]
  BY <1>2, ConcatProperties
<1>5. Len(a \o b) = m + n
  BY <1>3, <1>4
<1>6. \A i \in 1 .. m + n : (a \o b)[i] = IF i <= m THEN a[i] ELSE b[i - m]
  BY <1>3, <1>4
<1>7. a \o b = [i \in 1 .. m + n |-> (a \o b)[i]]
  BY <1>4, <1>5, LenProperties
<1>. QED  BY <1>6, <1>7

(* Where the zeros end that fill up the message.                           *)
ZeroFill(n) == (2 * BlockBytes - 9 - (n % BlockBytes)) % BlockBytes

LengthAt(n, k) == Value(IF k < 5 THEN 0 ELSE ((8 * n) \div (256 ^ (8 - k))) % 256)

(* Byte i of the padded message.                                           *)
PaddedAt(n, i) ==
  IF i <= n THEN MessageByte(i - 1)
  ELSE IF i = n + 1 THEN Value(128)
  ELSE IF i <= n + 1 + ZeroFill(n) THEN Value(0)
  ELSE LengthAt(n, i - (n + 1 + ZeroFill(n)))

(* The zeros fill the message up to 56 bytes of a block.                   *)
LEMMA ZeroFillIs ==
  ASSUME NEW n \in Nat
  PROVE  /\ n \div 64 \in Nat /\ n % 64 \in 0 .. 63
         /\ n = 64 * (n \div 64) + (n % 64)
         /\ ZeroFill(n) = IF n % 64 < 56 THEN 55 - (n % 64) ELSE 119 - (n % 64)
         /\ ZeroFill(n) \in Nat
BY DEF ZeroFill, BlockBytes

(* The padded message, byte by byte.                                       *)
LEMMA PaddedIsAt ==
  ASSUME NEW n \in Nat
  PROVE  PaddedMessage(n) = [i \in 1 .. n + 9 + ZeroFill(n) |-> PaddedAt(n, i)]
<1>. DEFINE z == ZeroFill(n)
            a == [i \in 1 .. n |-> MessageByte(i - 1)]
            b == <<Value(128)>>
            c == [i \in 1 .. z |-> Value(0)]
            d == [i \in 1 .. 8 |-> LengthAt(n, i)]
            ab == a \o b
            abc == ab \o c
            abcd == abc \o d
<1>1. PaddedMessage(n) = abcd
  BY DEF PaddedMessage, LengthAt, ZeroFill
<1>2. z \in Nat
  BY ZeroFillIs
<1>. HIDE DEF z
<1>3. /\ a = [i \in 1 .. n |-> a[i]] /\ b = [i \in 1 .. 1 |-> b[i]]
      /\ c = [i \in 1 .. z |-> c[i]] /\ d = [i \in 1 .. 8 |-> d[i]]
  OBVIOUS
<1>4. /\ \A i \in 1 .. n : a[i] = MessageByte(i - 1)
      /\ b[1] = Value(128)
      /\ \A i \in 1 .. z : c[i] = Value(0)
      /\ \A i \in 1 .. 8 : d[i] = LengthAt(n, i)
  OBVIOUS
<1>. HIDE DEF a, b, c, d
<1>5. ab = [i \in 1 .. n + 1 |-> IF i <= n THEN a[i] ELSE b[i - n]]
  BY <1>3, ConcatAt
<1>. HIDE DEF ab
<1>6. ab = [i \in 1 .. n + 1 |-> ab[i]]
  BY <1>5
<1>7. abc = [i \in 1 .. (n + 1) + z |-> IF i <= n + 1 THEN ab[i] ELSE c[i - (n + 1)]]
  BY <1>2, <1>3, <1>6, ConcatAt
<1>. HIDE DEF abc
<1>8. abc = [i \in 1 .. (n + 1) + z |-> abc[i]]
  BY <1>7
<1>9. abcd = [i \in 1 .. ((n + 1) + z) + 8 |->
                IF i <= (n + 1) + z THEN abc[i] ELSE d[i - ((n + 1) + z)]]
  <2>. DEFINE m == (n + 1) + z
              e == 8
  <2>1. m \in Nat /\ e \in Nat
    BY <1>2
  <2>2. abc = [i \in 1 .. m |-> abc[i]] /\ d = [i \in 1 .. e |-> d[i]]
    BY <1>3, <1>8
  <2>. HIDE DEF m, e
  <2>3. abc \o d = [i \in 1 .. m + e |-> IF i <= m THEN abc[i] ELSE d[i - m]]
    BY <2>1, <2>2, ConcatAt
  <2>. QED  BY <2>3 DEF m, e, abcd
<1>. HIDE DEF abcd
<1>10. ASSUME NEW i \in 1 .. ((n + 1) + z) + 8 PROVE abcd[i] = PaddedAt(n, i)
  <2>1. CASE i <= n
    BY <1>2, <1>4, <1>5, <1>7, <1>9, <2>1 DEF PaddedAt
  <2>2. CASE i = n + 1
    <3>1. i - n = 1
      BY <2>2
    <3>. QED  BY <1>2, <1>4, <1>5, <1>7, <1>9, <2>2, <3>1 DEF PaddedAt
  <2>3. CASE i > n + 1 /\ i <= (n + 1) + z
    <3>1. i - (n + 1) \in 1 .. z
      BY <1>2, <2>3
    <3>. QED  BY <1>2, <1>4, <1>7, <1>9, <2>3, <3>1 DEF PaddedAt, z
  <2>4. CASE i > (n + 1) + z
    <3>1. i - ((n + 1) + z) \in 1 .. 8
      BY <1>2, <2>4
    <3>2. abcd[i] = LengthAt(n, i - ((n + 1) + z))
      BY <1>2, <1>4, <1>9, <2>4, <3>1
    <3>. QED  BY <1>2, <2>4, <3>2 DEF PaddedAt, z
  <2>. QED  BY <1>2, <2>1, <2>2, <2>3, <2>4
<1>11. ((n + 1) + z) + 8 = n + 9 + z
  BY <1>2
<1>12. abcd = [i \in 1 .. n + 9 + z |-> abcd[i]]
  BY <1>9, <1>11
<1>. QED  BY <1>1, <1>10, <1>11, <1>12 DEF z

(* The word order of memory, there and back.                               *)
Rev(j) == 4 * (j \div 4) + 3 - (j % 4)

(* Reversing twice gives back the place, within its word.                  *)
LEMMA RevTwice ==
  /\ \A j \in 0 .. 63 : /\ Rev(j) \in 0 .. 63 /\ Rev(Rev(j)) = j
                        /\ Rev(j) \div 4 = j \div 4
  /\ \A j \in 0 .. 55 : Rev(j) \in 0 .. 55
  /\ \A j \in 56 .. 59 : Rev(j) \in 56 .. 59
  /\ \A j \in 60 .. 63 : Rev(j) = 123 - j
BY DEF Rev

(* Words of the schedule.                                                  *)
LEMMA ScheduleIsStandard ==
  \A t \in 16 .. 63 : ScheduleReads(t) = <<t - 2, t - 7, t - 15, t - 16>>
<1>1. ASSUME NEW t \in 16 .. 63, NEW d \in 1 .. 16
      PROVE  WrittenBy((t + (16 - d)) % 16, t) = t - d
  <2>1. t - d \in t - 16 .. t - 1 /\ (t - d) % 16 = (t + (16 - d)) % 16
    OBVIOUS
  <2>2. \A i \in t - 16 .. t - 1 : i % 16 = (t + (16 - d)) % 16 => i = t - d
    OBVIOUS
  <2>. QED  BY <2>1, <2>2 DEF WrittenBy
<1>2. ASSUME NEW t \in 16 .. 63
      PROVE  ScheduleReads(t) = <<t - 2, t - 7, t - 15, t - 16>>
  <2>1. /\ WrittenBy((t + (16 - 2)) % 16, t) = t - 2
        /\ WrittenBy((t + (16 - 7)) % 16, t) = t - 7
        /\ WrittenBy((t + (16 - 15)) % 16, t) = t - 15
        /\ WrittenBy((t + (16 - 16)) % 16, t) = t - 16
    BY <1>1
  <2>2. /\ t + (16 - 2) = t + 14 /\ t + (16 - 7) = t + 9
        /\ t + (16 - 15) = t + 1 /\ t + (16 - 16) = t
    OBVIOUS
  <2>. QED  BY <2>1, <2>2 DEF ScheduleReads
<1>. QED  BY <1>2

-----------------------------------------------------------------------------
(* The bytes taken, and those of them that are compressed.                 *)
Bytes == bitcount \div 8
Whole == 64 * (Bytes \div 64)

ShaType ==
  /\ updates \in Seq(Nat) /\ bitcount \in Nat /\ bitcount = 8 * Bytes
  /\ stage \in {"update", "spilled", "hashed"}

StreamInv ==
  /\ stage = "update" =>
       /\ stream = [i \in 1 .. Whole |-> MessageByte(i - 1)]
       /\ \A j \in 0 .. Used - 1 : buffer[j] = MessageByte(Whole + j)
  /\ stage = "spilled" =>
       /\ updates = <<>> /\ Used >= 56
       /\ stream = [i \in 1 .. Whole + 64 |-> PaddedAt(Bytes, i)]
  /\ stage = "hashed" =>
       updates = <<>> /\ stream = PaddedMessage(Bytes)

ShaInv == ShaType /\ StreamInv

(* Whole blocks and the bytes used of the next one.                         *)
LEMMA BytesAndFull ==
  ASSUME ShaType
  PROVE  /\ Bytes \in Nat /\ Used \in 0 .. 63 /\ Whole \in Nat
         /\ Bytes = Whole + Used /\ Used = Bytes % 64
BY DEF ShaType, Bytes, Whole, Used, BlockBytes

(* Positions of a block, and of the stream after k bytes.                  *)
LEMMA BlockPositions ==
  /\ \A r \in 0 .. 63 : r \div 4 < 16
  /\ \A k \in Nat : \A i \in 1 .. k + 64 :
       ~ (i <= k) => (i - k) - 1 \in 0 .. 63 /\ k + ((i - k) - 1) = i - 1
<1>1. \A r \in 0 .. 63 : r \div 4 < 16
  OBVIOUS
<1>2. \A k \in Nat : \A i \in 1 .. k + 64 :
        ~ (i <= k) => (i - k) - 1 \in 0 .. 63 /\ k + ((i - k) - 1) = i - 1
  OBVIOUS
<1>. QED  BY <1>1, <1>2

(* Positions in a block as positions of the stream.                        *)
LEMMA AfterBlocks ==
  \A k \in Nat : \A i \in 1 .. k + 64 : ~ (i <= k) =>
    /\ i \in Nat /\ (k + ((i - k) - 1)) + 1 = i
    /\ IF (i - k) - 1 < 56 THEN (i - k) - 1 \in 0 .. 55
       ELSE i > k + 56 /\ ((i - k) - 1) - 55 = i - (k + 56)
OBVIOUS

(* What the rounds take of a memory: a block after what they took.          *)
LEMMA TransformAt ==
  ASSUME NEW mem, NEW k \in Nat, stream = [i \in 1 .. k |-> stream[i]]
  PROVE  sha256_Transform(mem)
           = [i \in 1 .. k + 64 |-> IF i <= k THEN stream[i] ELSE mem[Rev((i - k) - 1)]]
<1>. DEFINE n == 64
            a == stream
            b == [j \in 1 .. n |-> mem[Rev(j - 1)]]
<1>1. sha256_Transform(mem) = a \o b
  BY DEF sha256_Transform, BlockBytes, Rev
<1>2. a = [i \in 1 .. k |-> a[i]] /\ b = [j \in 1 .. n |-> b[j]] /\ n \in Nat
  OBVIOUS
<1>3. \A j \in 1 .. n : b[j] = mem[Rev(j - 1)]
  OBVIOUS
<1>. HIDE DEF a, b
<1>4. a \o b = [i \in 1 .. k + n |-> IF i <= k THEN a[i] ELSE b[i - k]]
  <2>. HIDE DEF n
  <2>. QED  BY <1>2, ConcatAt
<1>5. \A i \in 1 .. k + n : ~ (i <= k) => b[i - k] = mem[Rev((i - k) - 1)]
  <2>1. \A i \in 1 .. k + n : ~ (i <= k) => i - k \in 1 .. n
    <3>. HIDE DEF n
    <3>. QED  BY <1>2
  <2>. QED  BY <1>3, <2>1
<1>. QED  BY <1>1, <1>4, <1>5 DEF a

(* What they take of a memory whose words were all reversed.               *)
LEMMA TransformReversed ==
  ASSUME NEW mem, NEW k \in Nat, stream = [i \in 1 .. k |-> stream[i]]
  PROVE  sha256_Transform(REVERSE32(mem, 16))
           = [i \in 1 .. k + 64 |-> IF i <= k THEN stream[i] ELSE mem[(i - k) - 1]]
<1>. DEFINE rev == REVERSE32(mem, 16)
<1>1. ASSUME NEW j \in 0 .. 63 PROVE rev[Rev(j)] = mem[j]
  <2>. DEFINE r == Rev(j)
  <2>1. r \in 0 .. 63 /\ Rev(r) = j
    BY RevTwice
  <2>. HIDE DEF r
  <2>2. r \div 4 < 16
    BY <2>1, BlockPositions
  <2>3. rev[r] = mem[Rev(r)]
    BY <2>1, <2>2 DEF REVERSE32, BlockBytes, Rev
  <2>. QED  BY <2>1, <2>3 DEF r
<1>. HIDE DEF rev
<1>2. sha256_Transform(rev)
        = [i \in 1 .. k + 64 |-> IF i <= k THEN stream[i] ELSE rev[Rev((i - k) - 1)]]
  BY TransformAt
<1>3. \A i \in 1 .. k + 64 : ~ (i <= k) => (i - k) - 1 \in 0 .. 63
  BY BlockPositions
<1>4. \A i \in 1 .. k + 64 : ~ (i <= k) => rev[Rev((i - k) - 1)] = mem[(i - k) - 1]
  BY <1>1, <1>3
<1>5. sha256_Transform(rev)
        = [i \in 1 .. k + 64 |-> IF i <= k THEN stream[i] ELSE mem[(i - k) - 1]]
  BY <1>2, <1>4
<1>. QED  BY <1>5 DEF rev

(* Nothing is written yet.                                                 *)
LEMMA ShaStart == ShaInit => ShaInv
<1>. SUFFICES ASSUME ShaInit PROVE ShaInv
  OBVIOUS
<1>1. bitcount = 0 /\ stream = <<>> /\ stage = "update" /\ updates \in Seq(Nat)
  BY WritingsAssumption DEF ShaInit
<1>2. Bytes = 0 /\ Whole = 0 /\ Used = 0
  BY <1>1 DEF Bytes, Whole, Used, BlockBytes
<1>3. ShaType
  BY <1>1, <1>2 DEF ShaType
<1>4. StreamInv
  <2>1. [i \in 1 .. 0 |-> MessageByte(i - 1)] = <<>>
    OBVIOUS
  <2>2. 0 .. Used - 1 = {}
    BY <1>2
  <2>. QED  BY <1>1, <1>2, <2>1, <2>2 DEF StreamInv
<1>. QED  BY <1>3, <1>4 DEF ShaInv

(* A buffer with the next bytes of the message.                            *)
LEMMA CopiedAt ==
  ASSUME ShaInv, stage = "update", NEW n \in Nat, n <= 64 - Used
  PROVE  \A j \in 0 .. Used + n - 1 : Copied(n)[j] = MessageByte(Whole + j)
<1>1. /\ Bytes \in Nat /\ Used \in 0 .. 63 /\ Whole \in Nat
      /\ Bytes = Whole + Used
      /\ \A j \in 0 .. Used - 1 : buffer[j] = MessageByte(Whole + j)
  BY BytesAndFull DEF ShaInv, StreamInv
<1>. SUFFICES ASSUME NEW j \in 0 .. Used + n - 1
              PROVE  Copied(n)[j] = MessageByte(Whole + j)
  OBVIOUS
<1>2. j \in 0 .. BlockBytes - 1
  BY <1>1 DEF BlockBytes
<1>3. CASE j < Used
  <2>1. j \in 0 .. Used - 1 /\ j \notin Used .. Used + n - 1
    BY <1>1, <1>3
  <2>. QED  BY <1>1, <1>2, <2>1 DEF Copied
<1>4. CASE j >= Used
  <2>1. j \in Used .. Used + n - 1 /\ Bytes + j - Used = Whole + j
    BY <1>1, <1>4
  <2>2. Copied(n)[j] = MessageByte(Bytes + j - Used)
    BY <1>2, <2>1 DEF Copied, Bytes
  <2>. QED  BY <2>1, <2>2
<1>. QED  BY <1>1, <1>2, <1>3, <1>4 DEF BlockBytes

(* A block is complete and compressed.                                     *)
LEMMA UpdateBlockKeeps == ASSUME ShaInv, UpdateBlock PROVE ShaInv'
<1>. DEFINE n == 64 - Used
            mem == Copied(n)
            h == Head(updates)
<1>1. /\ stage = "update" /\ stage' = stage /\ updates # <<>>
      /\ Head(updates) >= n
      /\ stream' = sha256_Transform(REVERSE32(mem, 16))
      /\ bitcount' = bitcount + 8 * n
      /\ updates' = <<Head(updates) - n>> \o Tail(updates)
  BY DEF UpdateBlock, BlockBytes
<1>2. /\ Bytes \in Nat /\ Used \in 0 .. 63 /\ Whole \in Nat
      /\ Bytes = Whole + Used /\ bitcount = 8 * Bytes
      /\ stream = [i \in 1 .. Whole |-> MessageByte(i - 1)]
      /\ updates \in Seq(Nat)
  BY <1>1, BytesAndFull DEF ShaInv, ShaType, StreamInv
<1>3. n \in 1 .. 64 /\ Used + n - 1 = 63
  BY <1>2
<1>4. \A j \in 0 .. 63 : mem[j] = MessageByte(Whole + j)
  <2>1. n \in Nat /\ n <= 64 - Used /\ 0 .. Used + n - 1 = 0 .. 63
    BY <1>2, <1>3
  <2>. HIDE DEF n
  <2>2. \A j \in 0 .. Used + n - 1 : Copied(n)[j] = MessageByte(Whole + j)
    BY <1>1, <2>1, CopiedAt
  <2>. QED  BY <2>1, <2>2 DEF mem
<1>. HIDE DEF mem
<1>5. updates' \in Seq(Nat)
  <2>1. Head(updates) \in Nat /\ Tail(updates) \in Seq(Nat)
    BY <1>1, <1>2, HeadTailProperties
  <2>2. h - n \in Nat
    <3>1. h \in Nat /\ h >= n
      BY <1>1, <2>1
    <3>2. n \in Nat
      BY <1>3
    <3>. HIDE DEF h, n
    <3>. QED  BY <3>1, <3>2
  <2>3. <<h - n>> \in Seq(Nat)
    BY <2>2
  <2>. QED  BY <1>1, <2>1, <2>3, ConcatProperties
<1>6. bitcount' = 8 * (Whole + 64)
  BY <1>1, <1>2
<1>7. Bytes' = Whole + 64 /\ Whole' = Whole + 64 /\ Used' = 0
  <2>1. PICK q \in Nat : Whole = 64 * q
    BY <1>2 DEF Whole
  <2>. DEFINE b == bitcount'
  <2>2. b = 8 * (64 * q + 64)
    BY <1>6, <2>1
  <2>. HIDE DEF b
  <2>3. b \div 8 = 64 * q + 64 /\ (b \div 8) \div 64 = q + 1 /\ (b \div 8) % 64 = 0
    BY <2>2
  <2>4. Bytes' = 64 * q + 64
    BY <2>3 DEF b, Bytes
  <2>5. Whole' = 64 * (q + 1)
    BY <2>3 DEF b, Bytes, Whole
  <2>6. Used' = 0
    BY <2>3 DEF b, Used, BlockBytes
  <2>. QED  BY <2>1, <2>4, <2>5, <2>6
<1>8. ShaType'
  <2>1. bitcount' \in Nat /\ bitcount' = 8 * Bytes'
    BY <1>2, <1>6, <1>7
  <2>. QED  BY <1>1, <1>5, <2>1 DEF ShaType
<1>9. stream' = [i \in 1 .. Whole + 64 |-> MessageByte(i - 1)]
  <2>. DEFINE k == Whole
  <2>1. k \in Nat /\ stream = [i \in 1 .. k |-> stream[i]]
    BY <1>2
  <2>2. stream' = [i \in 1 .. k + 64 |-> IF i <= k THEN stream[i] ELSE mem[(i - k) - 1]]
    <3>. HIDE DEF k
    <3>. QED  BY <1>1, <2>1, TransformReversed
  <2>3. ASSUME NEW i \in 1 .. k + 64
        PROVE  (IF i <= k THEN stream[i] ELSE mem[(i - k) - 1]) = MessageByte(i - 1)
    <3>1. CASE i <= k
      <4>1. i \in 1 .. k
        BY <2>1, <3>1
      <4>. QED  BY <1>2, <3>1, <4>1
    <3>2. CASE ~ (i <= k)
      <4>1. k \in Nat
        BY <2>1
      <4>2. (i - k) - 1 \in 0 .. 63 /\ k + ((i - k) - 1) = i - 1
        <5>. HIDE DEF k
        <5>. QED  BY <3>2, <4>1
      <4>. QED  BY <1>4, <3>2, <4>2
    <3>. QED  BY <3>1, <3>2
  <2>. QED  BY <2>2, <2>3
<1>10. StreamInv'
  <2>1. (stream = [i \in 1 .. Whole |-> MessageByte(i - 1)])'
    BY <1>7, <1>9 DEF MessageByte
  <2>2. (\A j \in 0 .. Used - 1 : buffer[j] = MessageByte(Whole + j))'
    BY <1>7
  <2>. QED  BY <1>1, <2>1, <2>2 DEF StreamInv
<1>. QED  BY <1>8, <1>10 DEF ShaInv

(* The count of the bytes when n more are saved in the buffer.             *)
LEMMA BytesAfter ==
  ASSUME ShaType, NEW n \in Nat, Used + n <= 63, bitcount' = bitcount + 8 * n
  PROVE  Bytes' = Bytes + n /\ Whole' = Whole /\ Used' = Used + n
<1>. DEFINE c == bitcount
            d == bitcount'
            q == Bytes \div 64
            u == Used
<1>1. /\ Bytes \in Nat /\ q \in Nat /\ u \in 0 .. 63
      /\ c = 8 * (64 * q + u) /\ Whole = 64 * q /\ Bytes = 64 * q + u
  <2>1. Bytes \in Nat /\ u \in 0 .. 63 /\ Bytes = Whole + u
    BY BytesAndFull
  <2>2. Whole = 64 * q
    BY DEF Whole
  <2>3. q \in Nat
    BY <2>1
  <2>4. c = 8 * Bytes
    BY DEF ShaType
  <2>. HIDE DEF c, q, u
  <2>. QED  BY <2>1, <2>2, <2>3, <2>4
<1>2. d = c + 8 * n /\ u + n <= 63
  OBVIOUS
<1>. HIDE DEF c, d, q, u
<1>3. d = 8 * (64 * q + (u + n)) /\ u + n \in 0 .. 63
  BY <1>1, <1>2
<1>4. /\ d \div 8 = 64 * q + (u + n) /\ (d \div 8) \div 64 = q
      /\ (d \div 8) % 64 = u + n
  BY <1>1, <1>3
<1>5. Bytes' = 64 * q + (u + n)
  BY <1>4 DEF d, Bytes
<1>6. Whole' = 64 * q
  BY <1>4 DEF d, Bytes, Whole
<1>7. Used' = u + n
  BY <1>4 DEF d, Used, BlockBytes
<1>. QED
  <2>1. 64 * q + (u + n) = Bytes + n
    BY <1>1
  <2>. QED  BY <1>1, <1>5, <1>6, <1>7, <2>1 DEF u

(* The left-overs of a write are saved.                                    *)
LEMMA UpdateRestKeeps == ASSUME ShaInv, UpdateRest PROVE ShaInv'
<1>. DEFINE n == Head(updates)
<1>1. /\ stage = "update" /\ stage' = stage /\ stream' = stream /\ updates # <<>>
      /\ n \in 1 .. BlockBytes - Used - 1
      /\ buffer' = Copied(n)
      /\ bitcount' = bitcount + 8 * n
      /\ updates' = <<0>> \o Tail(updates)
  BY DEF UpdateRest
<1>2. /\ Bytes \in Nat /\ Used \in 0 .. 63 /\ Whole \in Nat
      /\ Bytes = Whole + Used /\ bitcount = 8 * Bytes
      /\ stream = [i \in 1 .. Whole |-> MessageByte(i - 1)]
      /\ updates \in Seq(Nat)
  BY <1>1, BytesAndFull DEF ShaInv, ShaType, StreamInv
<1>. HIDE DEF n
<1>3. n \in Nat /\ Used + n <= 63 /\ n <= 64 - Used
  BY <1>1, <1>2 DEF BlockBytes
<1>4. Bytes' = Bytes + n /\ Whole' = Whole /\ Used' = Used + n
  BY <1>1, <1>3, BytesAfter DEF ShaInv
<1>5. \A j \in 0 .. Used + n - 1 : Copied(n)[j] = MessageByte(Whole + j)
  BY <1>1, <1>3, CopiedAt
<1>6. updates' \in Seq(Nat)
  <2>1. Tail(updates) \in Seq(Nat)
    BY <1>1, <1>2, HeadTailProperties
  <2>2. <<0>> \in Seq(Nat)
    OBVIOUS
  <2>. QED  BY <1>1, <2>1, <2>2, ConcatProperties
<1>7. ShaType'
  <2>1. bitcount' \in Nat /\ bitcount' = 8 * Bytes'
    BY <1>1, <1>2, <1>3, <1>4
  <2>. QED  BY <1>1, <1>6, <2>1 DEF ShaType
<1>8. StreamInv'
  <2>1. (stream = [i \in 1 .. Whole |-> MessageByte(i - 1)])'
    BY <1>1, <1>2, <1>4 DEF MessageByte
  <2>2. ASSUME NEW j \in 0 .. Used' - 1 PROVE buffer'[j] = MessageByte(Whole + j)
    <3>. DEFINE u == Used
                w == Used'
    <3>1. j \in 0 .. u + n - 1
      <4>1. u \in 0 .. 63 /\ w = u + n
        BY <1>2, <1>4
      <4>. HIDE DEF u, w
      <4>2. j \in 0 .. w - 1 => j \in 0 .. u + n - 1
        BY <1>3, <4>1
      <4>. QED  BY <4>2 DEF w
    <3>2. Copied(n)[j] = MessageByte(Whole + j)
      BY <1>5, <3>1
    <3>. QED  BY <1>1, <3>2
  <2>3. (\A j \in 0 .. Used - 1 : buffer[j] = MessageByte(Whole + j))'
    BY <1>4, <2>2 DEF MessageByte
  <2>. QED  BY <1>1, <2>1, <2>3 DEF StreamInv
<1>. QED  BY <1>7, <1>8 DEF ShaInv

(* A step that counts no byte.                                             *)
LEMMA CountKept ==
  bitcount' = bitcount => Bytes' = Bytes /\ Whole' = Whole /\ Used' = Used
BY DEF Bytes, Whole, Used

(* A write is done.                                                        *)
LEMMA UpdateReturnsKeeps == ASSUME ShaInv, UpdateReturns PROVE ShaInv'
<1>1. /\ stage = "update" /\ stage' = stage /\ updates # <<>> /\ updates' = Tail(updates)
      /\ buffer' = buffer /\ bitcount' = bitcount /\ stream' = stream
  BY DEF UpdateReturns
<1>2. Bytes' = Bytes /\ Whole' = Whole /\ Used' = Used
  BY <1>1, CountKept
<1>3. updates' \in Seq(Nat)
  BY <1>1, HeadTailProperties DEF ShaInv, ShaType
<1>4. ShaType'
  BY <1>1, <1>2, <1>3 DEF ShaInv, ShaType
<1>5. StreamInv'
  BY <1>1, <1>2 DEF ShaInv, StreamInv, MessageByte
<1>. QED  BY <1>4, <1>5 DEF ShaInv

-----------------------------------------------------------------------------
(* The parts of the padded message, the full blocks holding F bytes.       *)
PaddedFrom(n, F, u) ==
  /\ \A i \in Nat : i <= n => PaddedAt(n, i) = MessageByte(i - 1)
  /\ PaddedAt(n, n + 1) = Value(128)
  /\ u < 56 =>
       /\ n + 9 + ZeroFill(n) = F + 64
       /\ \A i \in Nat : n + 1 < i /\ i <= F + 56 => PaddedAt(n, i) = Value(0)
       /\ \A i \in Nat : i > F + 56 => PaddedAt(n, i) = LengthAt(n, i - (F + 56))
  /\ u >= 56 =>
       /\ n + 9 + ZeroFill(n) = F + 128
       /\ \A i \in Nat : n + 1 < i /\ i <= F + 120 => PaddedAt(n, i) = Value(0)
       /\ \A i \in Nat : i > F + 120 => PaddedAt(n, i) = LengthAt(n, i - (F + 120))

(* Every padded message has these parts.                                   *)
LEMMA PaddedParts ==
  ASSUME NEW n \in Nat, NEW F \in Nat, NEW u \in 0 .. 63, u = n % 64, n = F + u
  PROVE  PaddedFrom(n, F, u)
<1>. DEFINE z == ZeroFill(n)
<1>1. z = IF u < 56 THEN 55 - u ELSE 119 - u
  BY ZeroFillIs
<1>. HIDE DEF z
<1>2. u < 56 => n + 1 + z = F + 56 /\ n + 9 + z = F + 64
  BY <1>1
<1>3. u >= 56 => n + 1 + z = F + 120 /\ n + 9 + z = F + 128
  BY <1>1
<1>4. \A i \in Nat : PaddedAt(n, i) =
        IF i <= n THEN MessageByte(i - 1)
        ELSE IF i = n + 1 THEN Value(128)
        ELSE IF i <= n + 1 + z THEN Value(0)
        ELSE LengthAt(n, i - (n + 1 + z))
  BY DEF PaddedAt, z
<1>5. \A i \in Nat : i <= n => PaddedAt(n, i) = MessageByte(i - 1)
  BY <1>4
<1>6. PaddedAt(n, n + 1) = Value(128)
  BY <1>4
<1>7. ASSUME u < 56
      PROVE  /\ n + 9 + ZeroFill(n) = F + 64
             /\ \A i \in Nat : n + 1 < i /\ i <= F + 56 => PaddedAt(n, i) = Value(0)
             /\ \A i \in Nat : i > F + 56 => PaddedAt(n, i) = LengthAt(n, i - (F + 56))
  <2>1. n + 1 + z = F + 56 /\ n + 9 + z = F + 64
    BY <1>2, <1>7
  <2>2. ASSUME NEW i \in Nat, n + 1 < i, i <= F + 56 PROVE PaddedAt(n, i) = Value(0)
    BY <1>4, <2>1, <2>2
  <2>3. ASSUME NEW i \in Nat, i > F + 56 PROVE PaddedAt(n, i) = LengthAt(n, i - (F + 56))
    <3>1. ~ (i <= n) /\ i # n + 1 /\ ~ (i <= F + 56)
      BY <1>7, <2>3
    <3>. QED  BY <1>4, <2>1, <3>1
  <2>. QED  BY <2>1, <2>2, <2>3 DEF z
<1>8. ASSUME u >= 56
      PROVE  /\ n + 9 + ZeroFill(n) = F + 128
             /\ \A i \in Nat : n + 1 < i /\ i <= F + 120 => PaddedAt(n, i) = Value(0)
             /\ \A i \in Nat : i > F + 120 => PaddedAt(n, i) = LengthAt(n, i - (F + 120))
  <2>1. n + 1 + z = F + 120 /\ n + 9 + z = F + 128
    BY <1>3, <1>8
  <2>2. ASSUME NEW i \in Nat, n + 1 < i, i <= F + 120 PROVE PaddedAt(n, i) = Value(0)
    BY <1>4, <2>1, <2>2
  <2>3. ASSUME NEW i \in Nat, i > F + 120 PROVE PaddedAt(n, i) = LengthAt(n, i - (F + 120))
    <3>1. ~ (i <= n) /\ i # n + 1 /\ ~ (i <= F + 120)
      BY <1>8, <2>3
    <3>. QED  BY <1>4, <2>1, <3>1
  <2>. QED  BY <2>1, <2>2, <2>3 DEF z
<1>. QED  BY <1>5, <1>6, <1>7, <1>8 DEF PaddedFrom

(* That of the bytes written, by the buffer's use.                         *)
LEMMA PaddedBytes == ASSUME ShaType PROVE PaddedFrom(Bytes, Whole, Used)
<1>. DEFINE n == Bytes
            F == Whole
            u == Used
<1>1. n \in Nat /\ F \in Nat /\ u \in 0 .. 63 /\ u = n % 64 /\ n = F + u
  BY BytesAndFull
<1>. HIDE DEF n, F, u
<1>2. PaddedFrom(n, F, u)
  BY <1>1, PaddedParts
<1>. QED  BY <1>2 DEF n, F, u

(* The 1 bit leaves no room for the length.                                *)
LEMMA FinalSpillKeeps == ASSUME ShaInv, FinalSpill PROVE ShaInv'
<1>. DEFINE mem == Padded(64)
<1>1. /\ stage = "update" /\ stage' = "spilled" /\ updates = <<>> /\ updates' = updates
      /\ bitcount' = bitcount /\ Spills
      /\ stream' = sha256_Transform(REVERSE32(mem, 16))
  BY DEF FinalSpill, BlockBytes
<1>2. /\ Bytes \in Nat /\ Used \in 0 .. 63 /\ Whole \in Nat
      /\ Bytes = Whole + Used
      /\ stream = [i \in 1 .. Whole |-> MessageByte(i - 1)]
      /\ \A j \in 0 .. Used - 1 : buffer[j] = MessageByte(Whole + j)
  BY <1>1, BytesAndFull DEF ShaInv, StreamInv
<1>3. Used >= 56
  BY <1>1, <1>2 DEF Spills, ShortBlockBytes
<1>4. Bytes' = Bytes /\ Whole' = Whole /\ Used' = Used
  BY <1>1, CountKept
<1>5. /\ \A i \in Nat : i <= Bytes => PaddedAt(Bytes, i) = MessageByte(i - 1)
      /\ PaddedAt(Bytes, Bytes + 1) = Value(128)
      /\ \A i \in Nat : Bytes + 1 < i /\ i <= Whole + 120 => PaddedAt(Bytes, i) = Value(0)
  BY <1>3, PaddedBytes DEF ShaInv, PaddedFrom
<1>6. ASSUME NEW j \in 0 .. 63 PROVE mem[j] = PaddedAt(Bytes, (Whole + j) + 1)
  <2>0. j \in 0 .. BlockBytes - 1
    BY DEF BlockBytes
  <2>1. CASE j < Used
    <3>1. j \in 0 .. Used - 1 /\ j # Used /\ ~ (j > Used)
      BY <1>2, <2>1
    <3>2. (Whole + j) + 1 \in Nat /\ (Whole + j) + 1 <= Bytes /\ ((Whole + j) + 1) - 1 = Whole + j
      BY <1>2, <2>1
    <3>3. mem[j] = buffer[j]
      BY <1>1, <2>0, <3>1 DEF Padded
    <3>4. PaddedAt(Bytes, (Whole + j) + 1) = MessageByte(Whole + j)
      BY <1>5, <3>2
    <3>. QED  BY <1>2, <3>1, <3>3, <3>4
  <2>2. CASE j = Used
    <3>1. (Whole + j) + 1 = Bytes + 1
      BY <1>2, <2>2
    <3>. QED  BY <1>1, <1>5, <2>0, <2>2, <3>1 DEF Padded
  <2>3. CASE j > Used
    <3>1. j # Used /\ j < 64
      BY <1>2, <2>3
    <3>2. (Whole + j) + 1 \in Nat /\ Bytes + 1 < (Whole + j) + 1 /\ (Whole + j) + 1 <= Whole + 120
      BY <1>2, <2>3
    <3>. QED  BY <1>1, <1>5, <2>0, <2>3, <3>1, <3>2 DEF Padded
  <2>. QED  BY <1>2, <2>1, <2>2, <2>3
<1>. HIDE DEF mem
<1>7. stream' = [i \in 1 .. Whole + 64 |-> PaddedAt(Bytes, i)]
  <2>. DEFINE k == Whole
  <2>1. k \in Nat /\ stream = [i \in 1 .. k |-> stream[i]]
    BY <1>2
  <2>2. stream' = [i \in 1 .. k + 64 |-> IF i <= k THEN stream[i] ELSE mem[(i - k) - 1]]
    <3>. HIDE DEF k
    <3>. QED  BY <1>1, <2>1, TransformReversed
  <2>3. ASSUME NEW i \in 1 .. k + 64
        PROVE  (IF i <= k THEN stream[i] ELSE mem[(i - k) - 1]) = PaddedAt(Bytes, i)
    <3>1. CASE i <= k
      <4>1. i \in 1 .. k /\ i \in Nat /\ i <= Bytes
        BY <1>2, <2>1, <3>1
      <4>. QED  BY <1>2, <1>5, <3>1, <4>1
    <3>2. CASE ~ (i <= k)
      <4>1. (i - k) - 1 \in 0 .. 63 /\ k + ((i - k) - 1) = i - 1
        <5>1. k \in Nat
          BY <2>1
        <5>. HIDE DEF k
        <5>. QED  BY <3>2, <5>1, BlockPositions
      <4>2. (i - 1) + 1 = i
        OBVIOUS
      <4>. QED  BY <1>6, <3>2, <4>1, <4>2
    <3>. QED  BY <3>1, <3>2
  <2>. QED  BY <2>2, <2>3
<1>8. ShaType'
  BY <1>1, <1>4 DEF ShaInv, ShaType
<1>9. StreamInv'
  <2>1. (stream = [i \in 1 .. Whole + 64 |-> PaddedAt(Bytes, i)])'
    BY <1>4, <1>7 DEF PaddedAt, LengthAt, ZeroFill, BlockBytes, MessageByte, Value
  <2>. QED  BY <1>1, <1>3, <1>4, <2>1 DEF StreamInv
<1>. QED  BY <1>8, <1>9 DEF ShaInv

(* The order of the words in the last block.                               *)
LEMMA LastOrder ==
  \A j \in 0 .. 63 :
    IF j < 56 THEN Rev(j) \in 0 .. 55 /\ Rev(j) \div 4 < 14 /\ Rev(Rev(j)) = j
    ELSE Rev(j) \in 56 .. 63 /\ (IF j < 60 THEN Rev(j) < 60 ELSE Rev(j) = 123 - j)
<1>1. \A j \in 0 .. 63 : j < 56 => j \in 0 .. 55
  OBVIOUS
<1>2. \A r \in 0 .. 55 : r \div 4 < 14 /\ r \in 0 .. 63
  OBVIOUS
<1>3. \A j \in 0 .. 63 : ~ (j < 56) => j \in 56 .. 59 \/ j \in 60 .. 63
  OBVIOUS
<1>4. \A j \in 0 .. 63 : j < 56 => /\ Rev(j) \in 0 .. 55 /\ Rev(j) \div 4 < 14
                                  /\ Rev(Rev(j)) = j
  BY <1>1, <1>2, RevTwice
<1>5. \A j \in 56 .. 59 : Rev(j) \in 56 .. 63 /\ Rev(j) < 60 /\ ~ (j >= 60)
  <2>1. \A r \in 56 .. 59 : r \in 56 .. 63 /\ r < 60 /\ ~ (r >= 60)
    OBVIOUS
  <2>. QED  BY <2>1, RevTwice
<1>6. \A j \in 60 .. 63 : Rev(j) \in 56 .. 63 /\ Rev(j) = 123 - j /\ ~ (j < 60)
  BY RevTwice
<1>. QED  BY <1>3, <1>4, <1>5, <1>6

(* The bytes of the length, in the order the rounds take them.             *)
LEMMA LengthBytes ==
  ASSUME ShaType, NEW j \in 0 .. 63, ~ (j < 56)
  PROVE  LengthByte(Rev(j)) = LengthAt(Bytes, j - 55)
<1>. DEFINE r == Rev(j)
<1>1. r \in 56 .. 63 /\ (IF j < 60 THEN r < 60 ELSE r = 123 - j)
  BY LastOrder
<1>. HIDE DEF r
<1>2. CASE j < 60
  <2>1. LengthByte(r) = Value(0)
    BY <1>1, <1>2 DEF LengthByte
  <2>2. j - 55 < 5
    BY <1>2
  <2>3. LengthAt(Bytes, j - 55) = Value(0)
    BY <2>2 DEF LengthAt
  <2>. QED  BY <2>1, <2>3 DEF r
<1>3. CASE j >= 60
  <2>1. r - 60 = 8 - (j - 55) /\ ~ (r < 60) /\ ~ (j - 55 < 5)
    BY <1>1, <1>3
  <2>2. LengthByte(r) = Value((bitcount \div (256 ^ (r - 60))) % 256)
    BY <2>1 DEF LengthByte
  <2>3. LengthAt(Bytes, j - 55) = Value(((8 * Bytes) \div (256 ^ (8 - (j - 55)))) % 256)
    BY <2>1 DEF LengthAt
  <2>4. bitcount = 8 * Bytes
    BY DEF ShaType
  <2>. QED  BY <2>1, <2>2, <2>3, <2>4 DEF r
<1>. QED  BY <1>2, <1>3

(* What the rounds take of the last block, k bytes being taken before.     *)
WithLast(mem, k) ==
  [i \in 1 .. k + 64 |->
     IF i <= k THEN stream[i]
     ELSE IF (i - k) - 1 < 56 THEN mem[(i - k) - 1]
          ELSE LengthAt(Bytes, ((i - k) - 1) - 55)]

(* The last block has the length in its last words.                        *)
LEMMA LastBlock ==
  ASSUME ShaType, NEW k \in Nat, stream = [i \in 1 .. k |-> stream[i]], NEW mem, NEW buf,
         \A j \in 0 .. 55 : buf[j] = REVERSE32(mem, 14)[j],
         \A j \in 56 .. 63 : buf[j] = LengthByte(j)
  PROVE  sha256_Transform(buf) = WithLast(mem, k)
<1>1. sha256_Transform(buf)
        = [i \in 1 .. k + 64 |-> IF i <= k THEN stream[i] ELSE buf[Rev((i - k) - 1)]]
  BY TransformAt
<1>2. ASSUME NEW j \in 0 .. 63, j < 56 PROVE buf[Rev(j)] = mem[j]
  <2>. DEFINE r == Rev(j)
  <2>1. r \in 0 .. 55 /\ r \div 4 < 14 /\ Rev(r) = j
    BY <1>2, LastOrder
  <2>. HIDE DEF r
  <2>2. buf[r] = REVERSE32(mem, 14)[r]
    BY <2>1
  <2>3. r \in 0 .. BlockBytes - 1
    BY <2>1 DEF BlockBytes
  <2>4. REVERSE32(mem, 14)[r] = mem[Rev(r)]
    BY <2>1, <2>3 DEF REVERSE32, Rev
  <2>. QED  BY <2>1, <2>2, <2>4 DEF r
<1>3. ASSUME NEW j \in 0 .. 63, ~ (j < 56) PROVE buf[Rev(j)] = LengthAt(Bytes, j - 55)
  <2>1. Rev(j) \in 56 .. 63
    BY <1>3, LastOrder
  <2>2. LengthByte(Rev(j)) = LengthAt(Bytes, j - 55)
    BY <1>3, LengthBytes
  <2>. QED  BY <2>1, <2>2
<1>4. \A i \in 1 .. k + 64 : ~ (i <= k) => (i - k) - 1 \in 0 .. 63
  BY BlockPositions
<1>5. \A i \in 1 .. k + 64 : ~ (i <= k) =>
         buf[Rev((i - k) - 1)] = IF (i - k) - 1 < 56 THEN mem[(i - k) - 1]
                                 ELSE LengthAt(Bytes, ((i - k) - 1) - 55)
  BY <1>2, <1>3, <1>4
<1>. QED  BY <1>1, <1>5 DEF WithLast

(* The last block ends the padded message.                                 *)
LEMMA FinalBlockKeeps == ASSUME ShaInv, FinalBlock PROVE ShaInv'
<1>. DEFINE mem == Padded(56)
            buf == buffer'
            n == Bytes
            F == Whole
            u == Used
<1>1. /\ stage' = "hashed" /\ updates = <<>> /\ updates' = updates
      /\ bitcount' = bitcount
      /\ stage \in {"update", "spilled"}
      /\ stage = "update" => ~ Spills
      /\ stream' = sha256_Transform(buf)
      /\ buf = [j \in 0 .. 63 |-> IF j < 56 THEN REVERSE32(mem, 14)[j] ELSE LengthByte(j)]
  <2>1. /\ stage' = "hashed" /\ updates' = updates /\ bitcount' = bitcount
        /\ stream' = sha256_Transform(buf)
    BY DEF FinalBlock
  <2>2. /\ stage \in {"update", "spilled"}
        /\ stage = "update" => updates = <<>> /\ ~ Spills
    BY DEF FinalBlock
  <2>3. stage = "spilled" => updates = <<>>
    BY DEF ShaInv, StreamInv
  <2>4. buf = [j \in 0 .. 64 - 1 |-> IF j < 56 THEN REVERSE32(mem, 14)[j] ELSE LengthByte(j)]
    BY DEF FinalBlock, BlockBytes, ShortBlockBytes
  <2>5. 0 .. 64 - 1 = 0 .. 63
    OBVIOUS
  <2>. QED  BY <2>1, <2>2, <2>3, <2>4, <2>5
<1>2. n \in Nat /\ F \in Nat /\ u \in 0 .. 63 /\ n = F + u
  BY BytesAndFull DEF ShaInv
<1>3. n' = n
  BY <1>1, CountKept
<1>4. /\ \A j \in 0 .. 55 : buf[j] = REVERSE32(mem, 14)[j]
      /\ \A j \in 56 .. 63 : buf[j] = LengthByte(j)
  <2>1. \A j \in 0 .. 55 : j \in 0 .. 63 /\ j < 56
    OBVIOUS
  <2>2. \A j \in 56 .. 63 : j \in 0 .. 63 /\ ~ (j < 56)
    OBVIOUS
  <2>. HIDE DEF mem, buf
  <2>3. \A j \in 0 .. 63 : buf[j] = IF j < 56 THEN REVERSE32(mem, 14)[j] ELSE LengthByte(j)
    BY <1>1
  <2>. QED  BY <2>1, <2>2, <2>3
<1>. HIDE DEF buf
<1>5. PaddedFrom(n, F, u)
  BY PaddedBytes DEF ShaInv
<1>6. PaddedMessage(n) = [i \in 1 .. n + 9 + ZeroFill(n) |-> PaddedAt(n, i)]
  BY <1>2, PaddedIsAt
<1>7. ASSUME NEW k \in Nat, stream = [i \in 1 .. k |-> PaddedAt(n, i)],
             n + 9 + ZeroFill(n) = k + 64,
             \A j \in 0 .. 55 : mem[j] = PaddedAt(n, (k + j) + 1),
             \A i \in Nat : i > k + 56 => PaddedAt(n, i) = LengthAt(n, i - (k + 56))
      PROVE  stream' = PaddedMessage(n)
  <2>. HIDE DEF mem
  <2>1. \A i \in 1 .. k : stream[i] = PaddedAt(n, i)
    BY <1>7
  <2>2. stream = [i \in 1 .. k |-> stream[i]]
    BY <1>7
  <2>3. stream' = [i \in 1 .. k + 64 |->
                     IF i <= k THEN stream[i]
                     ELSE IF (i - k) - 1 < 56 THEN mem[(i - k) - 1]
                          ELSE LengthAt(n, ((i - k) - 1) - 55)]
    <3>. HIDE DEF buf, n
    <3>1. ShaType
      BY DEF ShaInv
    <3>2. /\ \A j \in 0 .. 55 : buf[j] = REVERSE32(mem, 14)[j]
          /\ \A j \in 56 .. 63 : buf[j] = LengthByte(j)
      BY <1>4
    <3>3. sha256_Transform(buf) = WithLast(mem, k)
      <4>1. k \in Nat
        OBVIOUS
      <4>. QED  BY <2>2, <3>1, <3>2, <4>1, LastBlock
    <3>4. stream' = sha256_Transform(buf)
      BY <1>1
    <3>. QED  BY <3>3, <3>4 DEF n, WithLast
  <2>4. ASSUME NEW i \in 1 .. k + 64
        PROVE  (IF i <= k THEN stream[i]
                ELSE IF (i - k) - 1 < 56 THEN mem[(i - k) - 1]
                     ELSE LengthAt(n, ((i - k) - 1) - 55)) = PaddedAt(n, i)
    <3>1. ASSUME i <= k PROVE stream[i] = PaddedAt(n, i)
      BY <2>1, <3>1
    <3>2. ASSUME ~ (i <= k), (i - k) - 1 < 56 PROVE mem[(i - k) - 1] = PaddedAt(n, i)
      <4>1. (i - k) - 1 \in 0 .. 55 /\ (k + ((i - k) - 1)) + 1 = i
        BY <3>2, AfterBlocks
      <4>. QED  BY <1>7, <4>1
    <3>3. ASSUME ~ (i <= k), ~ ((i - k) - 1 < 56)
          PROVE  LengthAt(n, ((i - k) - 1) - 55) = PaddedAt(n, i)
      <4>1. i \in Nat /\ i > k + 56 /\ ((i - k) - 1) - 55 = i - (k + 56)
        BY <3>3, AfterBlocks
      <4>. QED  BY <1>7, <4>1
    <3>. QED  BY <3>1, <3>2, <3>3
  <2>. QED  BY <1>6, <1>7, <2>3, <2>4
<1>8. stream' = PaddedMessage(n)
  <2>1. CASE stage = "update"
    <3>1. u < 56
      <4>1. ~ (u + 1 > 56)
        BY <1>1, <2>1 DEF Spills, ShortBlockBytes
      <4>. HIDE DEF u
      <4>. QED  BY <1>2, <4>1
    <3>2. /\ stream = [i \in 1 .. F |-> MessageByte(i - 1)]
          /\ \A j \in 0 .. u - 1 : buffer[j] = MessageByte(F + j)
      BY <2>1 DEF ShaInv, StreamInv
    <3>3. /\ \A i \in Nat : i <= n => PaddedAt(n, i) = MessageByte(i - 1)
          /\ PaddedAt(n, n + 1) = Value(128)
          /\ n + 9 + ZeroFill(n) = F + 64
          /\ \A i \in Nat : n + 1 < i /\ i <= F + 56 => PaddedAt(n, i) = Value(0)
          /\ \A i \in Nat : i > F + 56 => PaddedAt(n, i) = LengthAt(n, i - (F + 56))
      BY <1>5, <3>1 DEF PaddedFrom
    <3>4. ASSUME NEW j \in 0 .. 55
          PROVE  mem[j] = IF j = u THEN Value(128) ELSE IF j > u THEN Value(0) ELSE buffer[j]
      <4>1. j \in 0 .. BlockBytes - 1 /\ j < 56
        BY DEF BlockBytes
      <4>. QED  BY <2>1, <4>1 DEF Padded
    <3>. HIDE DEF mem, n, F, u
    <3>5. ASSUME NEW j \in 0 .. 55 PROVE mem[j] = PaddedAt(n, (F + j) + 1)
      <4>1. ASSUME j < u PROVE mem[j] = PaddedAt(n, (F + j) + 1)
        <5>1. /\ j \in 0 .. u - 1 /\ j # u /\ ~ (j > u)
              /\ (F + j) + 1 \in Nat /\ (F + j) + 1 <= n /\ ((F + j) + 1) - 1 = F + j
          BY <1>2, <4>1
        <5>2. PaddedAt(n, (F + j) + 1) = MessageByte(F + j)
          BY <3>3, <5>1
        <5>. QED  BY <3>2, <3>4, <5>1, <5>2
      <4>2. ASSUME j = u PROVE mem[j] = PaddedAt(n, (F + j) + 1)
        <5>1. (F + j) + 1 = n + 1
          BY <1>2, <4>2
        <5>. QED  BY <3>3, <3>4, <4>2, <5>1
      <4>3. ASSUME j > u PROVE mem[j] = PaddedAt(n, (F + j) + 1)
        <5>1. /\ j # u
              /\ (F + j) + 1 \in Nat /\ n + 1 < (F + j) + 1 /\ (F + j) + 1 <= F + 56
          BY <1>2, <4>3
        <5>. QED  BY <3>3, <3>4, <4>3, <5>1
      <4>. QED  BY <1>2, <4>1, <4>2, <4>3
    <3>6. stream = [i \in 1 .. F |-> PaddedAt(n, i)]
      <4>1. \A i \in 1 .. F : i \in Nat /\ i <= n
        BY <1>2
      <4>. QED  BY <3>2, <3>3, <4>1
    <3>. QED  BY <1>2, <1>7, <3>3, <3>5, <3>6
  <2>2. CASE stage = "spilled"
    <3>. DEFINE k == F + 64
    <3>1. u >= 56 /\ stream = [i \in 1 .. k |-> PaddedAt(n, i)]
      BY <2>2 DEF ShaInv, StreamInv
    <3>2. /\ n + 9 + ZeroFill(n) = F + 128
          /\ \A i \in Nat : n + 1 < i /\ i <= F + 120 => PaddedAt(n, i) = Value(0)
          /\ \A i \in Nat : i > F + 120 => PaddedAt(n, i) = LengthAt(n, i - (F + 120))
      BY <1>5, <3>1 DEF PaddedFrom
    <3>3. ASSUME NEW j \in 0 .. 55 PROVE mem[j] = Value(0)
      <4>1. j \in 0 .. BlockBytes - 1 /\ j < 56
        BY DEF BlockBytes
      <4>. QED  BY <2>2, <4>1 DEF Padded
    <3>. HIDE DEF mem, n, F, u
    <3>4. k \in Nat /\ k + 64 = F + 128 /\ k + 56 = F + 120
      BY <1>2
    <3>5. ASSUME NEW j \in 0 .. 55 PROVE mem[j] = PaddedAt(n, (k + j) + 1)
      <4>1. (k + j) + 1 \in Nat /\ n + 1 < (k + j) + 1 /\ (k + j) + 1 <= F + 120
        BY <1>2
      <4>. QED  BY <3>2, <3>3, <4>1
    <3>6. \A i \in Nat : i > k + 56 => PaddedAt(n, i) = LengthAt(n, i - (k + 56))
      <4>. HIDE DEF k
      <4>. QED  BY <3>2, <3>4
    <3>7. n + 9 + ZeroFill(n) = k + 64
      <4>. HIDE DEF k
      <4>. QED  BY <3>2, <3>4
    <3>. HIDE DEF k
    <3>. QED  BY <1>7, <3>1, <3>4, <3>5, <3>6, <3>7
  <2>. QED  BY <1>1, <2>1, <2>2
<1>9. ShaType'
  BY <1>1, <1>3 DEF ShaInv, ShaType
<1>10. StreamInv'
  <2>1. (stream = PaddedMessage(Bytes))'
    BY <1>3, <1>8 DEF PaddedMessage, BlockBytes, MessageByte, Value
  <2>. QED  BY <1>1, <2>1 DEF StreamInv
<1>. QED  BY <1>9, <1>10 DEF ShaInv

(* Every step of the hasher.                                               *)
LEMMA ShaStep == ShaInv /\ [ShaNext]_shaVars => ShaInv'
<1>. SUFFICES ASSUME ShaInv, [ShaNext]_shaVars PROVE ShaInv'
  OBVIOUS
<1>1. CASE UpdateBlock
  BY <1>1, UpdateBlockKeeps
<1>2. CASE UpdateRest
  BY <1>2, UpdateRestKeeps
<1>3. CASE UpdateReturns
  BY <1>3, UpdateReturnsKeeps
<1>4. CASE FinalSpill
  BY <1>4, FinalSpillKeeps
<1>5. CASE FinalBlock
  BY <1>5, FinalBlockKeeps
<1>6. CASE UNCHANGED shaVars
  <2>1. /\ buffer' = buffer /\ bitcount' = bitcount /\ updates' = updates
        /\ stream' = stream /\ stage' = stage
    BY <1>6 DEF shaVars
  <2>2. Bytes' = Bytes /\ Whole' = Whole /\ Used' = Used
    BY <2>1, CountKept
  <2>3. ShaType'
    BY <2>1, <2>2 DEF ShaInv, ShaType
  <2>4. (PaddedMessage(Bytes))' = PaddedMessage(Bytes)
    BY <2>2 DEF PaddedMessage, MessageByte, Value, BlockBytes
  <2>5. ([i \in 1 .. Whole + 64 |-> PaddedAt(Bytes, i)])'
          = [i \in 1 .. Whole + 64 |-> PaddedAt(Bytes, i)]
    BY <2>2 DEF PaddedAt, LengthAt, ZeroFill, BlockBytes, MessageByte, Value
  <2>6. ([i \in 1 .. Whole |-> MessageByte(i - 1)])' = [i \in 1 .. Whole |-> MessageByte(i - 1)]
    BY <2>2 DEF MessageByte
  <2>7. (\A j \in 0 .. Used - 1 : buffer[j] = MessageByte(Whole + j))'
          = (\A j \in 0 .. Used - 1 : buffer[j] = MessageByte(Whole + j))
    BY <2>1, <2>2 DEF MessageByte
  <2>8. StreamInv'
    BY <2>1, <2>2, <2>4, <2>5, <2>6, <2>7 DEF ShaInv, StreamInv
  <2>. QED  BY <2>3, <2>8 DEF ShaInv
<1>. QED  BY <1>1, <1>2, <1>3, <1>4, <1>5, <1>6 DEF ShaNext

(* A sequence that agrees with the start of another is that start.         *)
LEMMA StartOf ==
  ASSUME NEW k \in Nat, NEW m \in Nat, k <= m, NEW s, NEW full,
         s = [i \in 1 .. k |-> s[i]], full = [i \in 1 .. m |-> full[i]],
         \A i \in 1 .. k : s[i] = full[i]
  PROVE  s = SubSeq(full, 1, Len(s))
<1>. DEFINE S == {full[i] : i \in 1 .. m}
<1>1. full \in [1 .. m -> S]
  OBVIOUS
<1>. HIDE DEF S
<1>2. full \in Seq(S) /\ Len(full) = m
  BY <1>1, SeqDef, LenProperties
<1>3. Len(s) = k
  OBVIOUS
<1>4. SubSeq(full, 1, k) = [i \in 1 .. k |-> full[i]]
  BY <1>2, SubSeqProperties
<1>. QED  BY <1>3, <1>4

(* What the rounds took is the start of the padded message.                *)
LEMMA ShaInvTakes == ShaInv => TakesPaddedMessage
<1>. SUFFICES ASSUME ShaInv PROVE TakesPaddedMessage
  OBVIOUS
<1>. DEFINE n == Bytes
            F == Whole
            t == Total
            message == PaddedMessage(t)
<1>1. n \in Nat /\ F \in Nat /\ F <= n
  BY BytesAndFull DEF ShaInv
<1>2. t \in Nat /\ n <= t /\ (updates = <<>> => t = n)
  <2>. DEFINE sum == SumFunction(updates)
  <2>1. updates \in Seq(Nat)
    BY DEF ShaInv, ShaType
  <2>2. sum \in Nat
    <3>. DEFINE S == 1 .. Len(updates)
                f == updates
    <3>1. f \in [S -> Nat] /\ IsFiniteSet(S) /\ S \in SUBSET S /\ DOMAIN f = S
      BY <2>1, FS_Interval
    <3>2. sum = SumFunctionOnSet(f, DOMAIN f)
      BY DEF SumFunction, SumFunctionOnSet, FoldFunction
    <3>. HIDE DEF S, f, sum
    <3>. QED  BY <3>1, <3>2, SumType
  <2>3. updates = <<>> => sum = 0
    <3>1. sum = SumFunctionOnSet(updates, DOMAIN updates)
      BY DEF SumFunction, SumFunctionOnSet, FoldFunction
    <3>2. updates = <<>> => DOMAIN updates = {}
      OBVIOUS
    <3>. HIDE DEF sum
    <3>. QED  BY <3>1, <3>2, SumEmpty
  <2>4. t = n + sum
    BY DEF Total, Bytes
  <2>. HIDE DEF sum, n, t
  <2>. QED  BY <1>1, <2>2, <2>3, <2>4
<1>3. stage = "hashed" => stream = message
  BY <1>2 DEF ShaInv, StreamInv
<1>4. stream = SubSeq(message, 1, Len(stream))
  <2>. DEFINE m == t + 9 + ZeroFill(t)
  <2>1. message = [i \in 1 .. m |-> PaddedAt(t, i)] /\ m \in Nat /\ t <= m
    <3>. DEFINE z == ZeroFill(t)
    <3>. HIDE DEF t
    <3>1. z \in Nat
      BY <1>2, ZeroFillIs
    <3>2. message = [i \in 1 .. m |-> PaddedAt(t, i)]
      BY <1>2, PaddedIsAt
    <3>. HIDE DEF z, message
    <3>3. m = t + 9 + z
      BY DEF z
    <3>. HIDE DEF m
    <3>. QED  BY <1>2, <3>1, <3>2, <3>3
  <2>. HIDE DEF m, message, t
  <2>2. message = [i \in 1 .. m |-> message[i]]
    BY <2>1
  <2>3. \A i \in 1 .. m : message[i] = PaddedAt(t, i)
    BY <2>1
  <2>4. ASSUME NEW k \in Nat, k <= m, stream = [i \in 1 .. k |-> PaddedAt(t, i)]
        PROVE  stream = SubSeq(message, 1, Len(stream))
    <3>1. stream = [i \in 1 .. k |-> stream[i]]
      BY <2>4
    <3>2. \A i \in 1 .. k : stream[i] = message[i]
      BY <2>1, <2>3, <2>4
    <3>. QED  BY <2>1, <2>2, <2>4, <3>1, <3>2, StartOf
  <2>5. CASE stage = "update"
    <3>1. stream = [i \in 1 .. F |-> MessageByte(i - 1)]
      BY <2>5 DEF ShaInv, StreamInv
    <3>. HIDE DEF F, n
    <3>2. F <= m /\ F <= t
      BY <1>1, <1>2, <2>1
    <3>3. \A i \in 1 .. F : PaddedAt(t, i) = MessageByte(i - 1)
      <4>1. \A i \in 1 .. F : i <= t
        BY <1>1, <1>2, <3>2
      <4>. QED  BY <4>1 DEF PaddedAt
    <3>4. stream = [i \in 1 .. F |-> PaddedAt(t, i)]
      BY <3>1, <3>3
    <3>. QED  BY <1>1, <2>4, <3>2, <3>4
  <2>6. CASE stage = "spilled"
    <3>. DEFINE k == F + 64
    <3>1. updates = <<>> /\ Used >= 56 /\ stream = [i \in 1 .. k |-> PaddedAt(n, i)]
      BY <2>6 DEF ShaInv, StreamInv
    <3>2. n + 9 + ZeroFill(n) = F + 128
      BY <3>1, PaddedBytes DEF ShaInv, PaddedFrom
    <3>. HIDE DEF F, n
    <3>3. t = n
      BY <1>2, <3>1
    <3>4. k \in Nat /\ k <= m
      BY <1>1, <3>2, <3>3 DEF m
    <3>. HIDE DEF k
    <3>. QED  BY <2>4, <3>1, <3>3, <3>4
  <2>7. CASE stage = "hashed"
    <3>1. stream = message
      BY <1>3, <2>7 DEF message
    <3>2. stream = [i \in 1 .. m |-> PaddedAt(t, i)]
      BY <2>1, <3>1
    <3>. QED  BY <2>1, <2>4, <3>2
  <2>. QED  BY <2>5, <2>6, <2>7 DEF ShaInv, ShaType
<1>. QED  BY <1>3, <1>4, ScheduleIsStandard DEF TakesPaddedMessage

(* However a message is cut into writes, and wherever its length falls in  *)
(* a block, the rounds take the padded message of the standard in its byte *)
(* order (sha256_Update, sha256_Final), and the ring holds the words each  *)
(* round combines.                                                         *)
THEOREM PaddedMessageIsTaken == ShaSpec => []TakesPaddedMessage
<1>1. ShaInit => ShaInv
  BY ShaStart
<1>2. ShaInv /\ [ShaNext]_shaVars => ShaInv'
  BY ShaStep
<1>3. ShaInv => TakesPaddedMessage
  BY ShaInvTakes
<1>. QED  BY <1>1, <1>2, <1>3, PTL DEF ShaSpec
-----------------------------------------------------------------------------
(* The verdict.                                                            *)

(* What functions on 0 .. N with values in X are built by.                 *)
Steps(N, X) == [1 .. N -> [X -> X]]
Iteration(f, N, X, x0, turns) == /\ f \in [0 .. N -> X]
                                /\ f[0] = x0
                                /\ \A i \in 1 .. N : f[i] = turns[i][f[i - 1]]

(* A function defined by its first value and by steps exists.              *)
LEMMA Iterates ==
  ASSUME NEW N \in Nat, NEW X, NEW x0 \in X, NEW turns \in Steps(N, X)
  PROVE  \E f : Iteration(f, N, X, x0, turns)
<1>. USE DEF Steps
<1>. DEFINE Upto(n, f) == /\ f \in [0 .. n -> X]
                          /\ f[0] = x0
                          /\ \A i \in 1 .. n : f[i] = turns[i][f[i - 1]]
            S == {n \in Nat : n <= N /\ ~ \E f : Upto(n, f)}
<1>1. ASSUME S # {} PROVE FALSE
  <2>1. PICK m \in S : \A k \in Nat : k < m => k \notin S
    BY <1>1, LeastOf
  <2>2. Upto(0, [i \in 0 .. 0 |-> x0])
    OBVIOUS
  <2>3. m # 0
    <3>. HIDE DEF Upto
    <3>1. ~ \E f : Upto(m, f)
      BY <2>1
    <3>. QED  BY <2>2, <3>1
  <2>. DEFINE l == m - 1
  <2>4. l \in Nat /\ l < m /\ l <= N /\ m \in 1 .. N /\ l + 1 = m
    <3>1. m \in Nat /\ m <= N
      BY <2>1
    <3>. HIDE DEF S
    <3>. QED  BY <2>3, <3>1
  <2>5. PICK g : Upto(l, g)
    BY <2>1, <2>4
  <2>. DEFINE f == [i \in 0 .. m |-> IF i <= l THEN g[i] ELSE turns[m][g[l]]]
  <2>6. g \in [0 .. l -> X] /\ g[l] \in X
    BY <2>4, <2>5
  <2>7. turns[m][g[l]] \in X
    BY <2>4, <2>6
  <2>8. f \in [0 .. m -> X]
    <3>1. \A i \in 0 .. m : i <= l => i \in 0 .. l
      BY <2>4
    <3>. QED  BY <2>6, <2>7, <3>1
  <2>9. f[0] = x0
    BY <2>4, <2>5
  <2>10. ASSUME NEW i \in 1 .. m PROVE f[i] = turns[i][f[i - 1]]
    <3>1. i - 1 \in 0 .. m /\ i \in 0 .. m /\ i - 1 <= l
      BY <2>4
    <3>2. f[i - 1] = g[i - 1]
      BY <3>1
    <3>3. CASE i <= l
      <4>1. i \in 1 .. l
        BY <2>4, <3>3
      <4>2. f[i] = g[i]
        BY <3>1, <3>3
      <4>. QED  BY <2>5, <3>2, <4>1, <4>2
    <3>4. CASE ~ (i <= l)
      <4>1. i = m /\ i - 1 = l
        BY <2>4, <3>4
      <4>. QED  BY <3>1, <3>2, <3>4, <4>1
    <3>. QED  BY <3>3, <3>4
  <2>. QED  BY <2>1, <2>8, <2>9, <2>10
<1>2. PICK f : Upto(N, f)
  <2>1. N \notin S
    BY <1>1
  <2>2. \E f : Upto(N, f)
    <3>. HIDE DEF Upto
    <3>. QED  BY <2>1
  <2>. QED  BY <2>2
<1>3. Iteration(f, N, X, x0, turns)
  BY <1>2 DEF Iteration
<1>. QED  BY <1>3

-----------------------------------------------------------------------------
(* The sizes of mantissas.                                                 *)
LEMMA Mantissas ==
  /\ M \in Nat /\ M >= 1 /\ M - 1 \in Nat
  /\ ByteBits \in Nat /\ ByteBits >= 1 /\ ByteBits <= M /\ M - ByteBits \in Nat
  /\ Full = Pow(M) /\ Half = Pow(M - 1) /\ Full = 2 * Half
  /\ Full \in Nat /\ Half \in Nat /\ Half >= 1
<1>1. /\ ByteBits \in Nat /\ ByteBits >= 1
      /\ MantissaBytes \in Nat /\ MantissaBytes >= 1
  BY SizesAssumption
<1>2. \A a, b \in Nat : a >= 1 /\ b >= 1 => a * b \in Nat /\ a <= a * b
  OBVIOUS
<1>3. M \in Nat /\ ByteBits <= M
  BY <1>1, <1>2 DEF M
<1>4. M >= 1 /\ M - 1 \in Nat /\ M - ByteBits \in Nat /\ (M - 1) + 1 = M
  BY <1>1, <1>3
<1>5. Full = Pow(M) /\ Half = Pow(M - 1)
  BY DEF Full, Half, Pow
<1>6. Pow(M) = 2 * Pow(M - 1) /\ Pow(M - 1) \in Nat /\ Pow(M - 1) >= 1
  BY <1>4, PowNext, PowPositive
<1>. QED  BY <1>1, <1>3, <1>4, <1>5, <1>6

(* Floats while they are shifted.                                          *)
Shifts == [m : Nat, e : Int]

UpTable(m, e) ==
  CHOOSE f : f = [k \in 0 .. M |-> IF k = 0 THEN [m |-> m, e |-> e]
                                   ELSE IF f[k - 1].m >= Half THEN f[k - 1]
                                   ELSE [m |-> 2 * f[k - 1].m, e |-> f[k - 1].e - 1]]

(* The turns of Up, one after the other.                                   *)
LEMMA UpTurns ==
  ASSUME NEW m \in Nat, NEW e \in Int
  PROVE  \E f \in [0 .. M -> Shifts] :
           /\ Up(m, e) = f[M]
           /\ f[0] = [m |-> m, e |-> e]
           /\ \A k \in 1 .. M :
                f[k] = IF f[k - 1].m >= Half THEN f[k - 1]
                       ELSE [m |-> 2 * f[k - 1].m, e |-> f[k - 1].e - 1]
<1>. DEFINE Shifted(x) == IF x.m >= Half THEN x ELSE [m |-> 2 * x.m, e |-> x.e - 1]
            turns == [i \in 1 .. M |-> [x \in Shifts |-> Shifted(x)]]
            x0 == [m |-> m, e |-> e]
            t == UpTable(m, e)
            Is(f) == f = [k \in 0 .. M |-> IF k = 0 THEN x0 ELSE Shifted(f[k - 1])]
<1>1. M \in Nat /\ x0 \in Shifts
  BY Mantissas DEF Shifts
<1>2. \A x \in Shifts : Shifted(x) \in Shifts
  BY DEF Shifts
<1>. HIDE DEF Shifted, x0
<1>3. turns \in Steps(M, Shifts)
  BY <1>2 DEF Steps
<1>4. \A i \in 1 .. M, x \in Shifts : turns[i][x] = Shifted(x)
  OBVIOUS
<1>. HIDE DEF turns
<1>5. PICK f \in [0 .. M -> Shifts] :
        f[0] = x0 /\ \A i \in 1 .. M : f[i] = turns[i][f[i - 1]]
  <2>1. \E f : Iteration(f, M, Shifts, x0, turns)
    BY <1>1, <1>3, Iterates
  <2>. QED  BY <2>1 DEF Iteration
<1>6. \A i \in 1 .. M : i - 1 \in 0 .. M
  BY <1>1
<1>7. \A i \in 1 .. M : f[i] = Shifted(f[i - 1])
  BY <1>4, <1>5, <1>6
<1>8. Is(f)
  <2>1. \A i \in 0 .. M : i # 0 => i \in 1 .. M
    BY <1>1
  <2>2. \A i \in 0 .. M : f[i] = IF i = 0 THEN x0 ELSE Shifted(f[i - 1])
    BY <1>5, <1>7, <2>1
  <2>. QED  BY <1>5, <2>2
<1>9. t = CHOOSE g : Is(g)
  BY DEF UpTable, Shifted, x0
<1>. HIDE DEF t
<1>10. Is(t)
  <2>. HIDE DEF Is
  <2>. QED  BY <1>8, <1>9
<1>11. \A i \in 0 .. M : t[i] = IF i = 0 THEN x0 ELSE Shifted(t[i - 1])
  BY <1>10
<1>12. t[0] = x0 /\ \A i \in 1 .. M : t[i] = Shifted(t[i - 1])
  <2>1. 0 \in 0 .. M /\ \A i \in 1 .. M : i \in 0 .. M /\ i # 0
    BY <1>1
  <2>. QED  BY <1>11, <2>1
<1>13. t \in [0 .. M -> Shifts]
  <2>1. \A i \in 0 .. M : i \in {k \in 0 .. M : t[k] \in Shifts}
    <3>. DEFINE S == {k \in 0 .. M : t[k] \in Shifts}
    <3>1. 0 \in S
      BY <1>1, <1>12
    <3>2. ASSUME NEW k \in 1 .. M, k - 1 \in S PROVE k \in S
      <4>1. k \in 0 .. M
        BY <1>1
      <4>. QED  BY <1>2, <1>12, <3>2, <4>1
    <3>. HIDE DEF S
    <3>3. \A k \in 0 .. M : k \in S
      BY <1>1, <3>1, <3>2, Inductive
    <3>. QED  BY <3>3 DEF S
  <2>2. t = [i \in 0 .. M |-> t[i]]
    BY <1>10
  <2>. QED  BY <2>1, <2>2
<1>14. Up(m, e) = t[M]
  BY DEF Up, t, UpTable
<1>. QED  BY <1>12, <1>13, <1>14 DEF Shifted, x0

DownTable(m, e) ==
  CHOOSE f : f = [k \in 0 .. M |-> IF k = 0 THEN [m |-> m, e |-> e]
                                   ELSE IF f[k - 1].m < Full THEN f[k - 1]
                                   ELSE [m |-> f[k - 1].m \div 2, e |-> f[k - 1].e + 1]]

(* The turns of Down, one after the other.                                 *)
LEMMA DownTurns ==
  ASSUME NEW m \in Nat, NEW e \in Int
  PROVE  \E f \in [0 .. M -> Shifts] :
           /\ Down(m, e) = f[M]
           /\ f[0] = [m |-> m, e |-> e]
           /\ \A k \in 1 .. M :
                f[k] = IF f[k - 1].m < Full THEN f[k - 1]
                       ELSE [m |-> f[k - 1].m \div 2, e |-> f[k - 1].e + 1]
<1>. DEFINE Shifted(x) == IF x.m < Full THEN x ELSE [m |-> x.m \div 2, e |-> x.e + 1]
            turns == [i \in 1 .. M |-> [x \in Shifts |-> Shifted(x)]]
            x0 == [m |-> m, e |-> e]
            t == DownTable(m, e)
            Is(f) == f = [k \in 0 .. M |-> IF k = 0 THEN x0 ELSE Shifted(f[k - 1])]
<1>1. M \in Nat /\ x0 \in Shifts
  BY Mantissas DEF Shifts
<1>2. \A x \in Shifts : Shifted(x) \in Shifts
  BY DEF Shifts
<1>. HIDE DEF Shifted, x0
<1>3. turns \in Steps(M, Shifts)
  BY <1>2 DEF Steps
<1>4. \A i \in 1 .. M, x \in Shifts : turns[i][x] = Shifted(x)
  OBVIOUS
<1>. HIDE DEF turns
<1>5. PICK f \in [0 .. M -> Shifts] :
        f[0] = x0 /\ \A i \in 1 .. M : f[i] = turns[i][f[i - 1]]
  <2>1. \E f : Iteration(f, M, Shifts, x0, turns)
    BY <1>1, <1>3, Iterates
  <2>. QED  BY <2>1 DEF Iteration
<1>6. \A i \in 1 .. M : i - 1 \in 0 .. M
  BY <1>1
<1>7. \A i \in 1 .. M : f[i] = Shifted(f[i - 1])
  BY <1>4, <1>5, <1>6
<1>8. Is(f)
  <2>1. \A i \in 0 .. M : i # 0 => i \in 1 .. M
    BY <1>1
  <2>2. \A i \in 0 .. M : f[i] = IF i = 0 THEN x0 ELSE Shifted(f[i - 1])
    BY <1>5, <1>7, <2>1
  <2>. QED  BY <1>5, <2>2
<1>9. t = CHOOSE g : Is(g)
  BY DEF DownTable, Shifted, x0
<1>. HIDE DEF t
<1>10. Is(t)
  <2>. HIDE DEF Is
  <2>. QED  BY <1>8, <1>9
<1>11. \A i \in 0 .. M : t[i] = IF i = 0 THEN x0 ELSE Shifted(t[i - 1])
  BY <1>10
<1>12. t[0] = x0 /\ \A i \in 1 .. M : t[i] = Shifted(t[i - 1])
  <2>1. 0 \in 0 .. M /\ \A i \in 1 .. M : i \in 0 .. M /\ i # 0
    BY <1>1
  <2>. QED  BY <1>11, <2>1
<1>13. t \in [0 .. M -> Shifts]
  <2>1. \A i \in 0 .. M : i \in {k \in 0 .. M : t[k] \in Shifts}
    <3>. DEFINE S == {k \in 0 .. M : t[k] \in Shifts}
    <3>1. 0 \in S
      BY <1>1, <1>12
    <3>2. ASSUME NEW k \in 1 .. M, k - 1 \in S PROVE k \in S
      <4>1. k \in 0 .. M
        BY <1>1
      <4>. QED  BY <1>2, <1>12, <3>2, <4>1
    <3>. HIDE DEF S
    <3>3. \A k \in 0 .. M : k \in S
      BY <1>1, <3>1, <3>2, Inductive
    <3>. QED  BY <3>3 DEF S
  <2>2. t = [i \in 0 .. M |-> t[i]]
    BY <1>10
  <2>. QED  BY <2>1, <2>2
<1>14. Down(m, e) = t[M]
  BY DEF Down, t, DownTable
<1>. QED  BY <1>12, <1>13, <1>14 DEF Shifted, x0

(* A positive mantissa is shifted up to its highest bit.                   *)
LEMMA UpIs ==
  ASSUME NEW m \in Nat, NEW e \in Int, 1 <= m, m < Full
  PROVE  \E s \in Nat : /\ Up(m, e) = [m |-> m * Pow(s), e |-> e - s]
                        /\ m * Pow(s) \in Nat
                        /\ Half <= m * Pow(s) /\ m * Pow(s) < Full
<1>1. PICK f \in [0 .. M -> Shifts] :
        /\ Up(m, e) = f[M]
        /\ f[0] = [m |-> m, e |-> e]
        /\ \A k \in 1 .. M :
             f[k] = IF f[k - 1].m >= Half THEN f[k - 1]
                    ELSE [m |-> 2 * f[k - 1].m, e |-> f[k - 1].e - 1]
  BY UpTurns
<1>. DEFINE Val(s) == m * Pow(s)
            Is(k, s) == /\ f[k] = [m |-> Val(s), e |-> e - s]
                        /\ Val(s) < Full
                        /\ Val(s) >= Half \/ s = k
            S == {k \in 0 .. M : \E s \in Nat : Is(k, s)}
<1>2. \A s \in Nat : Val(s) \in Nat /\ Val(s + 1) = 2 * Val(s) /\ Pow(s) <= Val(s)
  <2>. SUFFICES ASSUME NEW s \in Nat
                PROVE  Val(s) \in Nat /\ Val(s + 1) = 2 * Val(s) /\ Pow(s) <= Val(s)
    OBVIOUS
  <2>1. Pow(s) \in Nat /\ Pow(s + 1) = 2 * Pow(s)
    BY PowNext
  <2>2. \A a, b \in Nat : a * b \in Nat /\ a * (2 * b) = 2 * (a * b) /\ (1 <= a => b <= a * b)
    OBVIOUS
  <2>. QED  BY <2>1, <2>2
<1>3. Val(0) = m
  <2>1. m * 1 = m
    OBVIOUS
  <2>. QED  BY <2>1, PowNext
<1>. HIDE DEF Val
<1>4. 0 \in S
  <2>1. e - 0 = e
    OBVIOUS
  <2>2. Is(0, 0)
    BY <1>1, <1>3, <2>1
  <2>3. 0 \in 0 .. M
    BY Mantissas
  <2>. QED  BY <2>2, <2>3
<1>5. ASSUME NEW k \in 1 .. M, k - 1 \in S PROVE k \in S
  <2>1. k \in 0 .. M
    BY Mantissas
  <2>2. PICK s \in Nat : Is(k - 1, s)
    BY <1>5
  <2>3. f[k] = IF f[k - 1].m >= Half THEN f[k - 1]
               ELSE [m |-> 2 * f[k - 1].m, e |-> f[k - 1].e - 1]
    BY <1>1
  <2>4. f[k - 1].m = Val(s) /\ f[k - 1].e = e - s
    BY <2>2
  <2>5. CASE Val(s) >= Half
    <3>1. Is(k, s)
      BY <2>2, <2>3, <2>4, <2>5
    <3>. QED  BY <2>1, <3>1
  <2>6. CASE ~ (Val(s) >= Half)
    <3>1. s + 1 \in Nat /\ s = k - 1 /\ s + 1 = k
      BY <2>2, <2>6
    <3>2. 2 * Val(s) = Val(s + 1) /\ Val(s + 1) < Full
      <4>. DEFINE a == Val(s)
                  b == Val(s + 1)
      <4>1. a \in Nat /\ b = 2 * a /\ ~ (a >= Half)
        BY <1>2, <2>6
      <4>. HIDE DEF a, b
      <4>2. Half \in Nat /\ Full = 2 * Half
        BY Mantissas
      <4>3. 2 * a = b /\ b < Full
        BY <4>1, <4>2
      <4>. QED  BY <4>3 DEF a, b
    <3>3. (e - s) - 1 = e - (s + 1)
      OBVIOUS
    <3>4. f[k] = [m |-> Val(s + 1), e |-> e - (s + 1)]
      BY <2>3, <2>4, <2>6, <3>2, <3>3
    <3>5. Is(k, s + 1)
      BY <3>1, <3>2, <3>4
    <3>. QED  BY <2>1, <3>1, <3>5
  <2>. QED  BY <2>5, <2>6
<1>6. M \in S
  <2>. HIDE DEF S
  <2>1. M \in Nat /\ M \in 0 .. M
    BY Mantissas
  <2>2. \A k \in 0 .. M : k \in S
    BY <1>4, <1>5, <2>1, Inductive
  <2>. QED  BY <2>1, <2>2
<1>7. PICK s \in Nat : Is(M, s)
  BY <1>6
<1>8. Val(s) >= Half
  <2>1. ASSUME ~ (Val(s) >= Half) PROVE FALSE
    <3>1. s = M
      BY <1>7, <2>1
    <3>2. Full <= Val(s)
      BY <1>2, <3>1, Mantissas
    <3>3. Val(s) < Full /\ Val(s) \in Nat /\ Full \in Nat
      BY <1>2, <1>7, Mantissas
    <3>. QED  BY <3>2, <3>3
  <2>. QED  BY <2>1
<1>9. /\ Up(m, e) = [m |-> Val(s), e |-> e - s]
      /\ Val(s) \in Nat /\ Half <= Val(s) /\ Val(s) < Full
  BY <1>1, <1>2, <1>7, <1>8, Mantissas
<1>. QED  BY <1>9 DEF Val

(* A product is shifted down to the width of a mantissa and cut off.       *)
LEMMA DownIs ==
  ASSUME NEW x \in Nat, NEW e \in Int, Half <= x, x < Full * Full
  PROVE  \E d \in Nat, y \in Nat :
           /\ Down(x, e) = [m |-> y, e |-> e + d]
           /\ y * Pow(d) <= x /\ x < (y + 1) * Pow(d)
           /\ Half <= y /\ y < Full
<1>1. PICK f \in [0 .. M -> Shifts] :
        /\ Down(x, e) = f[M]
        /\ f[0] = [m |-> x, e |-> e]
        /\ \A k \in 1 .. M :
             f[k] = IF f[k - 1].m < Full THEN f[k - 1]
                    ELSE [m |-> f[k - 1].m \div 2, e |-> f[k - 1].e + 1]
  BY DownTurns
<1>. DEFINE Within(y, d) == y * Pow(d) <= x /\ x < (y + 1) * Pow(d)
            Is(k, y, d) == /\ f[k] = [m |-> y, e |-> e + d]
                           /\ Within(y, d)
                           /\ Half <= y
                           /\ y < Full \/ d = k
            S == {k \in 0 .. M : \E d \in Nat, y \in Nat : Is(k, y, d)}
<1>2. Within(x, 0)
  <2>1. x * 1 = x /\ (x + 1) * 1 = x + 1 /\ x <= x /\ x < x + 1
    OBVIOUS
  <2>2. Pow(0) = 1
    BY PowNext
  <2>. QED  BY ONLY <2>1, <2>2
<1>3. ASSUME NEW y \in Nat, NEW d \in Nat, Within(y, d) PROVE Within(y \div 2, d + 1)
  <2>. DEFINE p == Pow(d)
              h == y \div 2
  <2>1. p \in Nat /\ Pow(d + 1) = 2 * p
    BY PowNext
  <2>2. y * p <= x /\ x < (y + 1) * p
    BY <1>3
  <2>3. h \in Nat /\ 2 * h <= y /\ y + 1 <= 2 * (h + 1)
    OBVIOUS
  <2>. HIDE DEF p, h
  <2>4. \A a, b, c \in Nat : a <= b => a * c <= b * c
    OBVIOUS
  <2>5. (2 * h) * p <= y * p /\ (y + 1) * p <= (2 * (h + 1)) * p
    <3>1. 2 * h \in Nat /\ y + 1 \in Nat /\ 2 * (h + 1) \in Nat
      BY <2>3
    <3>. QED  BY <2>1, <2>3, <2>4, <3>1
  <2>6. h * (2 * p) = (2 * h) * p /\ (h + 1) * (2 * p) = (2 * (h + 1)) * p
    BY <2>1, <2>3
  <2>7. h * (2 * p) <= x /\ x < (h + 1) * (2 * p)
    <3>. DEFINE a == (2 * h) * p
                b == y * p
                c == (y + 1) * p
                g == (2 * (h + 1)) * p
    <3>1. a \in Int /\ b \in Int /\ c \in Int /\ g \in Int
      BY <2>1, <2>3
    <3>2. a <= b /\ b <= x /\ x < c /\ c <= g
      BY <2>2, <2>5
    <3>. HIDE DEF a, b, c, g
    <3>3. a <= x /\ x < g
      BY <3>1, <3>2
    <3>. QED  BY <2>6, <3>3 DEF a, g
  <2>. QED  BY <2>1, <2>7 DEF h
<1>. HIDE DEF Within
<1>4. 0 \in S
  <2>1. e + 0 = e
    OBVIOUS
  <2>2. Is(0, x, 0)
    BY <1>1, <1>2, <2>1
  <2>3. 0 \in 0 .. M
    BY Mantissas
  <2>. QED  BY <2>2, <2>3
<1>5. ASSUME NEW k \in 1 .. M, k - 1 \in S PROVE k \in S
  <2>1. k \in 0 .. M
    BY Mantissas
  <2>2. PICK d \in Nat, y \in Nat : Is(k - 1, y, d)
    BY <1>5
  <2>3. f[k] = IF f[k - 1].m < Full THEN f[k - 1]
               ELSE [m |-> f[k - 1].m \div 2, e |-> f[k - 1].e + 1]
    BY <1>1
  <2>4. f[k - 1].m = y /\ f[k - 1].e = e + d
    BY <2>2
  <2>5. CASE y < Full
    <3>1. Is(k, y, d)
      BY <2>2, <2>3, <2>4, <2>5
    <3>. QED  BY <2>1, <3>1
  <2>6. CASE ~ (y < Full)
    <3>1. d + 1 \in Nat /\ d + 1 = k
      BY <2>2, <2>6
    <3>2. y \div 2 \in Nat /\ Half <= y \div 2
      <4>1. Half \in Nat /\ Full = 2 * Half /\ Full \in Nat
        BY Mantissas
      <4>2. 2 * Half <= y
        BY <2>6, <4>1
      <4>3. \A i, j \in Nat : 2 * i <= j => j \div 2 \in Nat /\ i <= j \div 2
        OBVIOUS
      <4>. QED  BY <4>1, <4>2, <4>3
    <3>3. (e + d) + 1 = e + (d + 1)
      OBVIOUS
    <3>4. f[k] = [m |-> y \div 2, e |-> e + (d + 1)]
      BY <2>3, <2>4, <2>6, <3>3
    <3>5. Within(y \div 2, d + 1)
      BY <1>3, <2>2
    <3>6. Is(k, y \div 2, d + 1)
      BY <3>1, <3>2, <3>4, <3>5
    <3>. QED  BY <2>1, <3>1, <3>2, <3>6
  <2>. QED  BY <2>5, <2>6
<1>6. M \in S
  <2>. HIDE DEF S
  <2>1. M \in Nat /\ M \in 0 .. M
    BY Mantissas
  <2>2. \A k \in 0 .. M : k \in S
    BY <1>4, <1>5, <2>1, Inductive
  <2>. QED  BY <2>1, <2>2
<1>7. PICK d \in Nat, y \in Nat : Is(M, y, d)
  BY <1>6
<1>8. y < Full
  <2>1. ASSUME ~ (y < Full) PROVE FALSE
    <3>1. d = M /\ y >= Full
      BY <1>7, <2>1, Mantissas
    <3>2. y * Full <= x
      BY <1>7, <3>1, Mantissas DEF Within
    <3>3. \A a, b, c \in Nat : a <= b => a * c <= b * c
      OBVIOUS
    <3>4. Full * Full <= y * Full
      BY <3>1, <3>3, Mantissas
    <3>. DEFINE a == Full * Full
                b == y * Full
    <3>5. a \in Int /\ b \in Int
      <4>1. \A i, j \in Nat : i * j \in Int
        OBVIOUS
      <4>2. Full \in Nat /\ y \in Nat
        BY Mantissas
      <4>. QED  BY ONLY <4>1, <4>2
    <3>6. a <= b /\ b <= x /\ x < a
      BY <3>2, <3>4
    <3>. HIDE DEF a, b
    <3>. QED  BY <3>5, <3>6
  <2>. QED  BY <2>1
<1>. QED  BY <1>1, <1>7, <1>8 DEF Within

(* Normalised floats stay as they are.                                     *)
LEMMA UpStays ==
  ASSUME NEW m \in Nat, NEW e \in Int, Half <= m, m < Full
  PROVE  Up(m, e) = [m |-> m, e |-> e]
<1>1. 1 <= m
  BY Mantissas
<1>2. PICK s \in Nat : /\ Up(m, e) = [m |-> m * Pow(s), e |-> e - s]
                       /\ m * Pow(s) < Full
  BY <1>1, UpIs
<1>3. CASE s = 0
  <2>1. m * 1 = m /\ e - 0 = e
    OBVIOUS
  <2>. QED  BY <1>2, <1>3, <2>1, PowNext
<1>4. CASE s # 0
  <2>1. s >= 1 /\ 1 \in Nat
    BY <1>4
  <2>2. Pow(1) <= Pow(s) /\ Pow(s) \in Nat
    BY <2>1, PowMonotone, PowNext
  <2>3. Pow(1) = 2
    <3>1. Pow(0 + 1) = 2 * Pow(0) /\ Pow(0) = 1 /\ 0 + 1 = 1
      BY PowNext
    <3>. QED  BY <3>1
  <2>4. \A a, b \in Nat : 2 <= b => 2 * a <= a * b
    OBVIOUS
  <2>. DEFINE a == m * Pow(s)
  <2>5. a \in Int /\ 2 * m <= a /\ a < Full
    BY <1>2, <2>2, <2>3, <2>4
  <2>. HIDE DEF a
  <2>. QED  BY <2>5, Mantissas
<1>. QED  BY <1>3, <1>4

-----------------------------------------------------------------------------
(* Products of naturals are naturals and keep order.                       *)
LEMMA Scale == \A a, b, c \in Nat : a * c \in Nat /\ (a <= b => a * c <= b * c)
OBVIOUS

(* Products with a positive number keep strict order.                      *)
LEMMA ScaleLess == \A a, b, c \in Nat : a < b /\ c >= 1 => a * c < b * c
<1>1. ASSUME NEW a \in Nat, NEW b \in Nat, NEW c \in Nat, a < b, c >= 1
      PROVE  a * c < b * c
  <2>1. a + 1 <= b /\ a + 1 \in Nat
    BY <1>1
  <2>2. (a + 1) * c <= b * c
    BY <2>1, Scale
  <2>3. (a + 1) * c = a * c + c
    OBVIOUS
  <2>4. a * c \in Nat /\ b * c \in Nat
    BY Scale
  <2>. QED  BY <1>1, <2>2, <2>3, <2>4
<1>. QED  BY <1>1

(* A product, the float it is cut off to, and a target, all scaled: the    *)
(* exponents decide first, then the mantissas.                             *)
LEMMA ExactCompare ==
  ASSUME NEW x \in Nat, NEW y \in Nat, NEW t \in Nat, NEW d \in Nat, NEW z \in Nat, NEW w \in Nat,
         y * Pow(d) <= x, x < (y + 1) * Pow(d),
         Half <= y, y < Full, Half <= t, t < Full
  PROVE  x * Pow(z) < t * Pow(w) <=> z < w - d \/ (z = w - d /\ y < t)
<1>. DEFINE u == d + z
            xz == x * Pow(z)
            tw == t * Pow(w)
<1>1. u \in Nat /\ u + 1 \in Nat /\ w + 1 \in Nat /\ y + 1 \in Nat /\ y + 1 <= Full
  BY Mantissas
<1>2. Pow(u) = Pow(d) * Pow(z) /\ Pow(d) \in Nat /\ Pow(z) \in Nat /\ Pow(z) >= 1
  BY PowSum, PowNext, PowPositive
<1>3. y * Pow(u) <= xz
  <2>1. (y * Pow(d)) * Pow(z) <= x * Pow(z)
    BY <1>2, Scale
  <2>2. (y * Pow(d)) * Pow(z) = y * (Pow(d) * Pow(z))
    BY <1>2
  <2>. QED  BY <1>2, <2>1, <2>2
<1>4. xz < (y + 1) * Pow(u)
  <2>1. (y + 1) * Pow(d) \in Nat
    BY <1>1, <1>2, Scale
  <2>2. x * Pow(z) < ((y + 1) * Pow(d)) * Pow(z)
    BY <1>2, <2>1, ScaleLess
  <2>3. ((y + 1) * Pow(d)) * Pow(z) = (y + 1) * (Pow(d) * Pow(z))
    BY <1>1, <1>2
  <2>. QED  BY <1>2, <2>2, <2>3
<1>5. /\ Pow(u) \in Nat /\ Pow(u) >= 1 /\ Pow(u + 1) = 2 * Pow(u)
      /\ Pow(w) \in Nat /\ Pow(w) >= 1 /\ Pow(w + 1) = 2 * Pow(w)
  BY <1>1, PowNext, PowPositive
<1>6. \A a, b, c \in Nat : a = 2 * b => a * c = b * (2 * c)
  OBVIOUS
<1>7. Full * Pow(u) = Half * Pow(u + 1) /\ Full * Pow(w) = Half * Pow(w + 1)
  BY <1>5, <1>6, Mantissas
<1>8. xz \in Nat /\ tw \in Nat
  BY <1>2, <1>5, Scale
<1>9. ASSUME z < w - d PROVE xz < tw
  <2>1. u + 1 <= w
    BY <1>9
  <2>2. Pow(u + 1) <= Pow(w) /\ Pow(u + 1) \in Nat
    BY <1>1, <2>1, PowMonotone, PowNext
  <2>3. (y + 1) * Pow(u) <= Full * Pow(u)
    BY <1>1, <1>5, Scale, Mantissas
  <2>4. Half * Pow(u + 1) <= Half * Pow(w)
    <3>1. Pow(u + 1) * Half <= Pow(w) * Half
      BY <1>5, <2>2, Scale, Mantissas
    <3>2. \A a, b \in Nat : a * b = b * a
      OBVIOUS
    <3>. QED  BY <1>5, <2>2, <3>1, <3>2, Mantissas
  <2>5. Half * Pow(w) <= tw
    BY <1>5, Scale, Mantissas
  <2>. DEFINE a == (y + 1) * Pow(u)
              b == Full * Pow(u)
              c == Half * Pow(w)
  <2>6. a \in Nat /\ b \in Nat /\ c \in Nat
    BY <1>1, <1>5, Scale, Mantissas
  <2>7. xz < a /\ a <= b /\ b <= c /\ c <= tw
    BY <1>4, <1>7, <2>3, <2>4, <2>5
  <2>. HIDE DEF a, b, c, xz, tw
  <2>. QED  BY <1>8, <2>6, <2>7
<1>10. ASSUME z > w - d PROVE ~ (xz < tw)
  <2>1. w + 1 <= u
    BY <1>10
  <2>2. Pow(w + 1) <= Pow(u) /\ Pow(w + 1) \in Nat
    BY <1>1, <2>1, PowMonotone, PowNext
  <2>3. Half * Pow(u) <= y * Pow(u)
    BY <1>5, Scale, Mantissas
  <2>4. Half * Pow(w + 1) <= Half * Pow(u)
    <3>1. Pow(w + 1) * Half <= Pow(u) * Half
      BY <1>5, <2>2, Scale, Mantissas
    <3>2. \A a, b \in Nat : a * b = b * a
      OBVIOUS
    <3>. QED  BY <1>5, <2>2, <3>1, <3>2, Mantissas
  <2>5. tw <= Full * Pow(w)
    <3>1. t <= Full
      BY Mantissas
    <3>. QED  BY <1>5, <3>1, Scale, Mantissas
  <2>. DEFINE a == y * Pow(u)
              b == Half * Pow(u)
              c == Full * Pow(w)
  <2>6. a \in Nat /\ b \in Nat /\ c \in Nat
    BY <1>1, <1>5, Scale, Mantissas
  <2>7. tw <= c /\ c <= b /\ b <= a /\ a <= xz
    BY <1>3, <1>7, <2>3, <2>4, <2>5
  <2>. HIDE DEF a, b, c, xz, tw
  <2>. QED  BY <1>8, <2>6, <2>7
<1>11. ASSUME z = w - d, y < t PROVE xz < tw
  <2>1. u = w
    BY <1>11
  <2>2. y + 1 <= t
    BY <1>11
  <2>3. (y + 1) * Pow(u) <= t * Pow(u)
    BY <1>1, <1>5, <2>2, Scale
  <2>. DEFINE a == (y + 1) * Pow(u)
  <2>4. a \in Nat /\ xz < a /\ a <= tw
    BY <1>1, <1>4, <1>5, <2>1, <2>3, Scale
  <2>. HIDE DEF a, xz, tw
  <2>. QED  BY <1>8, <2>4
<1>12. ASSUME z = w - d, ~ (y < t) PROVE ~ (xz < tw)
  <2>1. u = w
    BY <1>12
  <2>2. t <= y
    BY <1>12
  <2>3. t * Pow(u) <= y * Pow(u)
    BY <1>5, <2>2, Scale
  <2>. DEFINE a == y * Pow(u)
  <2>4. a \in Nat /\ a <= xz /\ tw <= a
    BY <1>3, <1>5, <2>1, <2>3, Scale
  <2>. HIDE DEF a, xz, tw
  <2>. QED  BY <1>8, <2>4
<1>13. z < w - d \/ z = w - d \/ z > w - d
  OBVIOUS
<1>14. xz < tw <=> z < w - d \/ (z = w - d /\ y < t)
  <2>. HIDE DEF xz, tw
  <2>. QED  BY <1>9, <1>10, <1>11, <1>12, <1>13
<1>. QED  BY <1>14 DEF xz, tw

(* The product of two floats, cut off to a mantissa.                       *)
LEMMA TimesIs ==
  ASSUME NEW a \in Floats, NEW b \in Floats
  PROVE  \E d \in Nat, y \in Nat :
           /\ Times(a, b) = [m |-> y, e |-> (a.e + b.e) + d]
           /\ y * Pow(d) <= a.m * b.m /\ a.m * b.m < (y + 1) * Pow(d)
           /\ Half <= y /\ y < Full
<1>. DEFINE x == a.m * b.m
            e == a.e + b.e
<1>1. /\ a.m \in Nat /\ Half <= a.m /\ a.m < Full /\ a.e \in Int
      /\ b.m \in Nat /\ Half <= b.m /\ b.m < Full /\ b.e \in Int
  BY Mantissas DEF Floats
<1>2. x \in Nat /\ e \in Int
  BY <1>1
<1>3. Half <= x
  <2>1. 1 <= b.m
    BY <1>1, Mantissas
  <2>2. \A i, j \in Nat : 1 <= j => i <= i * j
    OBVIOUS
  <2>3. a.m <= a.m * b.m
    BY <1>1, <2>1, <2>2
  <2>. HIDE DEF x
  <2>4. a.m <= x
    BY <2>3 DEF x
  <2>. QED  BY <1>1, <1>2, <2>4, Mantissas
<1>4. x < Full * Full
  <2>1. b.m >= 1 /\ b.m <= Full
    BY <1>1, Mantissas
  <2>2. a.m * b.m < Full * b.m
    BY <1>1, <2>1, ScaleLess, Mantissas
  <2>3. b.m * Full <= Full * Full
    BY <1>1, <2>1, Scale, Mantissas
  <2>4. Full * b.m = b.m * Full
    BY <1>1, Mantissas
  <2>. DEFINE f == Full * b.m
              g == Full * Full
  <2>5. f \in Nat /\ g \in Nat
    BY <1>1, Mantissas, Scale
  <2>6. x < f /\ f <= g
    BY <2>2, <2>3, <2>4
  <2>. HIDE DEF f, g, x
  <2>7. x < g
    BY <1>2, <2>5, <2>6
  <2>. QED  BY <2>7 DEF g
<1>. HIDE DEF x, e
<1>5. PICK d \in Nat, y \in Nat :
        /\ Down(x, e) = [m |-> y, e |-> e + d]
        /\ y * Pow(d) <= x /\ x < (y + 1) * Pow(d)
        /\ Half <= y /\ y < Full
  BY <1>2, <1>3, <1>4, DownIs
<1>6. e + d \in Int
  BY <1>2
<1>7. Up(y, e + d) = [m |-> y, e |-> e + d]
  BY <1>5, <1>6, UpStays
<1>8. Times(a, b) = [m |-> y, e |-> e + d]
  BY <1>5, <1>7 DEF Times, x, e
<1>. QED  BY <1>5, <1>8 DEF x, e

(* A canonical target's bits, as wide as a mantissa.                       *)
LEMMA TargetsAreMantissas ==
  ASSUME NEW t \in Targets
  PROVE  /\ t.zeros \in Nat
         /\ t.bits * 2 ^ (M - TargetBits) \in Nat
         /\ Half <= t.bits * 2 ^ (M - TargetBits)
         /\ t.bits * 2 ^ (M - TargetBits) < Full
<1>. DEFINE k == M - TargetBits
            p == Pow(k)
            b == t.bits
<1>1. TargetBits \in Nat /\ TargetBits >= 1 /\ TargetBits <= M
  BY SizesAssumption
<1>2. k \in Nat /\ TargetBits - 1 \in Nat /\ TargetBits + k = M /\ (TargetBits - 1) + k = M - 1
  BY <1>1, Mantissas
<1>3. /\ Pow(TargetBits) \in Nat /\ Pow(TargetBits - 1) \in Nat
      /\ p \in Nat /\ p >= 1
  BY <1>1, <1>2, PowNext, PowPositive
<1>4. Full = Pow(TargetBits) * p /\ Half = Pow(TargetBits - 1) * p
  <2>. HIDE DEF k
  <2>1. Pow(TargetBits + k) = Pow(TargetBits) * Pow(k)
    BY <1>1, <1>2, PowSum
  <2>2. Pow((TargetBits - 1) + k) = Pow(TargetBits - 1) * Pow(k)
    BY <1>2, PowSum
  <2>. QED  BY <1>2, <2>1, <2>2, Mantissas
<1>5. t.zeros \in Nat /\ b \in Pow(TargetBits - 1) .. Pow(TargetBits) - 1
  BY ZerosAssumption DEF Targets, Pow
<1>6. b \in Nat /\ Pow(TargetBits - 1) <= b /\ b < Pow(TargetBits)
  BY <1>3, <1>5
<1>7. b * p \in Nat /\ Half <= b * p /\ b * p < Full
  BY <1>3, <1>4, <1>6, Scale, ScaleLess
<1>8. t.bits * 2 ^ (M - TargetBits) = b * p
  BY DEF Pow
<1>. QED  BY <1>5, <1>7, <1>8

(* The comparison with a target is that of exact numbers.                  *)
LEMMA ComparesExactly ==
  ASSUME NEW v \in Floats, NEW p \in Floats, v.e <= 0, p.e <= 0, NEW t \in Targets
  PROVE  product_lt_target(Times(v, p), t)
           <=> v.m * p.m * 2 ^ t.zeros
                 < t.bits * 2 ^ (M - TargetBits) * 2 ^ (- v.e - p.e)
<1>. DEFINE x == v.m * p.m
            w == - v.e - p.e
            b == t.bits * 2 ^ (M - TargetBits)
            z == t.zeros
<1>1. v.m \in Nat /\ v.e \in Int /\ p.m \in Nat /\ p.e \in Int
  BY Mantissas DEF Floats
<1>2. x \in Nat /\ w \in Nat
  BY <1>1
<1>3. z \in Nat /\ b \in Nat /\ Half <= b /\ b < Full
  BY TargetsAreMantissas
<1>4. PICK d \in Nat, y \in Nat :
        /\ Times(v, p) = [m |-> y, e |-> (v.e + p.e) + d]
        /\ y * Pow(d) <= x /\ x < (y + 1) * Pow(d)
        /\ Half <= y /\ y < Full
  BY TimesIs
<1>. DEFINE q == (v.e + p.e) + d
<1>5. q \in Int /\ - q = w - d
  BY <1>1
<1>6. product_lt_target(Times(v, p), t)
        <=> q <= 0 /\ z <= - q /\ (z < - q \/ y < b)
  BY <1>4 DEF product_lt_target
<1>. HIDE DEF q, x, w, b, z
<1>7. q <= 0 /\ z <= - q /\ (z < - q \/ y < b) <=> z < w - d \/ (z = w - d /\ y < b)
  BY <1>2, <1>3, <1>5
<1>8. x * Pow(z) < b * Pow(w) <=> z < w - d \/ (z = w - d /\ y < b)
  BY <1>2, <1>3, <1>4, ExactCompare
<1>. QED  BY <1>6, <1>7, <1>8 DEF x, w, b, z, Pow

-----------------------------------------------------------------------------
(* Bytes read one after another into a number.                             *)
Base == Pow(ByteBits)

(* A byte has at least one value.                                          *)
LEMMA BaseIs == Base \in Nat /\ Base >= 1
BY Mantissas, PowNext, PowPositive DEF Base

ReadOut(f, N, b) == /\ f \in [0 .. N -> Nat]
                  /\ f[0] = 0
                  /\ \A j \in 1 .. N : f[j] = f[j - 1] * Base + b[j]

(* Bytes can be read.                                                      *)
LEMMA ReadsExist ==
  ASSUME NEW N \in Nat, NEW b \in [1 .. N -> Nat]
  PROVE  \E f : ReadOut(f, N, b)
<1>. DEFINE turns == [j \in 1 .. N |-> [x \in Nat |-> x * Base + b[j]]]
<1>1. turns \in Steps(N, Nat)
  <2>1. \A j \in 1 .. N, x \in Nat : x * Base + b[j] \in Nat
    <3>1. \A j \in 1 .. N, x \in Nat : x * Base \in Nat /\ b[j] \in Nat
      BY BaseIs, Scale
    <3>2. \A i, j \in Nat : i + j \in Nat
      OBVIOUS
    <3>. QED  BY <3>1, <3>2
  <2>. QED  BY <2>1 DEF Steps
<1>2. \A j \in 1 .. N, x \in Nat : turns[j][x] = x * Base + b[j]
  OBVIOUS
<1>. HIDE DEF turns
<1>3. PICK f \in [0 .. N -> Nat] : f[0] = 0 /\ \A j \in 1 .. N : f[j] = turns[j][f[j - 1]]
  <2>1. \E f : Iteration(f, N, Nat, 0, turns)
    BY <1>1, Iterates
  <2>. QED  BY <2>1 DEF Iteration
<1>4. \A j \in 1 .. N : f[j - 1] \in Nat
  <2>1. \A j \in 1 .. N : j - 1 \in 0 .. N
    OBVIOUS
  <2>. QED  BY <2>1
<1>5. \A j \in 1 .. N : f[j] = f[j - 1] * Base + b[j]
  BY <1>2, <1>3, <1>4
<1>6. ReadOut(f, N, b)
  BY <1>3, <1>5 DEF ReadOut
<1>. QED  BY <1>6

(* The table of a number's prefixes is such a reading.                     *)
NumberTable(h) ==
  CHOOSE n : n = [i \in 0 .. HashBytes |-> IF i = 0 THEN 0 ELSE n[i - 1] * 2 ^ ByteBits + h[i]]

(* A hash's number is what reading all its bytes gives.                    *)
LEMMA NumberReads ==
  ASSUME NEW h \in Hashes
  PROVE  \E n : ReadOut(n, HashBytes, h) /\ Number(h) = n[HashBytes]
<1>. DEFINE t == NumberTable(h)
            Is(f) == f = [i \in 0 .. HashBytes |->
                            IF i = 0 THEN 0 ELSE f[i - 1] * 2 ^ ByteBits + h[i]]
<1>1. HashBytes \in Nat /\ Base = 2 ^ ByteBits
  BY SizesAssumption DEF Base, Pow
<1>2. h \in [1 .. HashBytes -> Nat]
  BY BaseIs DEF Hashes, Base, Pow
<1>3. PICK f : ReadOut(f, HashBytes, h)
  BY <1>1, <1>2, ReadsExist
<1>4. Is(f)
  <2>1. \A i \in 0 .. HashBytes : i # 0 => i \in 1 .. HashBytes
    BY <1>1
  <2>2. \A i \in 0 .. HashBytes : f[i] = IF i = 0 THEN 0 ELSE f[i - 1] * 2 ^ ByteBits + h[i]
    BY <1>1, <1>3, <2>1 DEF ReadOut
  <2>3. f = [i \in 0 .. HashBytes |-> f[i]]
    BY <1>3 DEF ReadOut
  <2>. QED  BY <2>2, <2>3
<1>5. t = CHOOSE n : Is(n)
  BY DEF NumberTable
<1>. HIDE DEF t
<1>6. Is(t)
  <2>. HIDE DEF Is
  <2>. QED  BY <1>4, <1>5
<1>7. \A i \in 0 .. HashBytes : t[i] = IF i = 0 THEN 0 ELSE t[i - 1] * 2 ^ ByteBits + h[i]
  BY <1>6
<1>8. t[0] = 0 /\ \A i \in 1 .. HashBytes : t[i] = t[i - 1] * Base + h[i]
  <2>1. 0 \in 0 .. HashBytes /\ \A i \in 1 .. HashBytes : i \in 0 .. HashBytes /\ i # 0
    BY <1>1
  <2>. QED  BY <1>1, <1>7, <2>1
<1>9. t \in [0 .. HashBytes -> Nat]
  <2>1. \A i \in 0 .. HashBytes : t[i] \in Nat
    <3>. DEFINE S == {k \in 0 .. HashBytes : t[k] \in Nat}
    <3>1. 0 \in S
      BY <1>1, <1>8
    <3>2. ASSUME NEW k \in 1 .. HashBytes, k - 1 \in S PROVE k \in S
      <4>1. k \in 0 .. HashBytes /\ h[k] \in Nat /\ t[k - 1] \in Nat
        BY <1>1, <1>2, <3>2
      <4>2. t[k - 1] * Base \in Nat
        BY <4>1, BaseIs, Scale
      <4>3. \A i, j \in Nat : i + j \in Nat
        OBVIOUS
      <4>. QED  BY <1>8, <4>1, <4>2, <4>3
    <3>. HIDE DEF S
    <3>3. \A k \in 0 .. HashBytes : k \in S
      BY <1>1, <3>1, <3>2, Inductive
    <3>. QED  BY <3>3 DEF S
  <2>2. t = [i \in 0 .. HashBytes |-> t[i]]
    BY <1>6
  <2>. QED  BY <2>1, <2>2
<1>10. Number(h) = t[HashBytes]
  BY DEF Number, t, NumberTable
<1>. QED  BY <1>8, <1>9, <1>10 DEF ReadOut

(* The zero bytes of a hash, and the bytes its float is made of.           *)
LeadsBy(h, z) == (\A i \in 1 .. z : h[i] = 0) /\ (z = HashBytes \/ h[z + 1] # 0)
Lead(h) == CHOOSE z \in 0 .. HashBytes :
             (\A i \in 1 .. z : h[i] = 0) /\ (z = HashBytes \/ h[z + 1] # 0)

(* The zero bytes of a hash end somewhere.                                 *)
LEMMA LeadIs ==
  ASSUME NEW h \in Hashes
  PROVE  Lead(h) \in 0 .. HashBytes /\ LeadsBy(h, Lead(h))
<1>. DEFINE S == {z \in Nat : z = HashBytes \/ (z < HashBytes /\ h[z + 1] # 0)}
<1>1. HashBytes \in Nat
  BY SizesAssumption
<1>2. PICK z \in S : \A k \in Nat : k < z => k \notin S
  <2>1. HashBytes \in S
    BY <1>1
  <2>. HIDE DEF S
  <2>2. S \subseteq Nat
    BY DEF S
  <2>. QED  BY <2>1, <2>2, LeastOf
<1>3. z \in 0 .. HashBytes
  BY <1>1, <1>2
<1>4. ASSUME NEW i \in 1 .. z PROVE h[i] = 0
  <2>1. i - 1 \in Nat /\ i - 1 < z /\ i - 1 < HashBytes /\ (i - 1) + 1 = i
    BY <1>1, <1>3
  <2>2. i - 1 \notin S
    BY <1>2, <2>1
  <2>. QED  BY <2>1, <2>2
<1>5. LeadsBy(h, z)
  BY <1>2, <1>4 DEF LeadsBy
<1>. QED  BY <1>3, <1>5 DEF Lead, LeadsBy

(* Behind the end of a hash there are ones.                                *)
BytesTaken(h) == [j \in 1 .. MantissaBytes |->
               IF Lead(h) + j <= HashBytes THEN h[Lead(h) + j] ELSE 2 ^ ByteBits - 1]

(* The bytes taken are bytes, the first of them not zero.                  *)
LEMMA TakenIs ==
  ASSUME NEW h \in Hashes
  PROVE  /\ BytesTaken(h) \in [1 .. MantissaBytes -> Nat]
         /\ \A j \in 1 .. MantissaBytes : BytesTaken(h)[j] < Base
         /\ BytesTaken(h)[1] >= 1
<1>1. /\ HashBytes \in Nat /\ HashBytes >= 1 /\ MantissaBytes \in Nat /\ MantissaBytes >= 1
      /\ Base = 2 ^ ByteBits
  BY SizesAssumption DEF Base, Pow
<1>2. Lead(h) \in 0 .. HashBytes /\ LeadsBy(h, Lead(h))
  BY LeadIs
<1>3. \A i \in 1 .. HashBytes : h[i] \in Nat /\ h[i] < Base
  BY <1>1, BaseIs DEF Hashes
<1>4. ASSUME NEW j \in 1 .. MantissaBytes
      PROVE  BytesTaken(h)[j] \in Nat /\ BytesTaken(h)[j] < Base
  <2>1. CASE Lead(h) + j <= HashBytes
    <3>1. Lead(h) + j \in 1 .. HashBytes
      BY <1>1, <1>2, <2>1
    <3>. QED  BY <1>3, <2>1, <3>1 DEF BytesTaken
  <2>2. CASE ~ (Lead(h) + j <= HashBytes)
    <3>1. BytesTaken(h)[j] = Base - 1
      BY <1>1, <2>2 DEF BytesTaken
    <3>. QED  BY <3>1, BaseIs
  <2>. QED  BY <2>1, <2>2
<1>5. Base >= 2
  <2>1. Pow(0 + 1) = 2 * Pow(0) /\ Pow(0) = 1 /\ 0 + 1 = 1
    BY PowNext
  <2>2. Pow(1) <= Pow(ByteBits)
    BY PowMonotone, Mantissas
  <2>. QED  BY <2>1, <2>2 DEF Base
<1>6. BytesTaken(h)[1] >= 1
  <2>1. 1 \in 1 .. MantissaBytes
    BY <1>1
  <2>2. CASE Lead(h) = HashBytes
    <3>1. ~ (Lead(h) + 1 <= HashBytes)
      BY <1>1, <2>2
    <3>2. BytesTaken(h)[1] = Base - 1
      BY <1>1, <2>1, <3>1 DEF BytesTaken
    <3>. QED  BY <1>5, <3>2, BaseIs
  <2>3. CASE Lead(h) # HashBytes
    <3>1. Lead(h) + 1 <= HashBytes /\ Lead(h) + 1 \in 1 .. HashBytes
      BY <1>1, <1>2, <2>3
    <3>2. BytesTaken(h)[1] = h[Lead(h) + 1]
      BY <2>1, <3>1 DEF BytesTaken
    <3>3. h[Lead(h) + 1] # 0
      BY <1>2, <2>3 DEF LeadsBy
    <3>. QED  BY <1>3, <3>1, <3>2, <3>3
  <2>. QED  BY <2>2, <2>3
<1>. QED  BY <1>4, <1>6 DEF BytesTaken

TakenTable(h) ==
  CHOOSE tmp : tmp = [j \in 0 .. MantissaBytes |->
    IF j = 0 THEN 0
    ELSE tmp[j - 1] * 2 ^ ByteBits
         + (IF Lead(h) + j <= HashBytes THEN h[Lead(h) + j] ELSE 2 ^ ByteBits - 1)]

(* The float of a hash is what reading the bytes taken gives, shifted up.  *)
LEMMA CFReads ==
  ASSUME NEW h \in Hashes
  PROVE  \E n : /\ ReadOut(n, MantissaBytes, BytesTaken(h))
                /\ CF(h) = Up(n[MantissaBytes], - ByteBits * Lead(h))
<1>. DEFINE b(j) == IF Lead(h) + j <= HashBytes THEN h[Lead(h) + j] ELSE 2 ^ ByteBits - 1
            t == TakenTable(h)
            Is(f) == f = [j \in 0 .. MantissaBytes |->
                            IF j = 0 THEN 0 ELSE f[j - 1] * 2 ^ ByteBits + b(j)]
<1>1. MantissaBytes \in Nat /\ Base = 2 ^ ByteBits
  BY SizesAssumption DEF Base, Pow
<1>2. BytesTaken(h) \in [1 .. MantissaBytes -> Nat]
  BY TakenIs
<1>3. PICK f : ReadOut(f, MantissaBytes, BytesTaken(h))
  BY <1>1, <1>2, ReadsExist
<1>4. t = CHOOSE n : Is(n)
  BY DEF TakenTable
<1>5. \A j \in 1 .. MantissaBytes : BytesTaken(h)[j] = b(j)
  BY DEF BytesTaken
<1>6. CF(h) = Up(t[MantissaBytes], - ByteBits * Lead(h))
  BY DEF CF, Lead, TakenTable
<1>. HIDE DEF t, b
<1>7. Is(f)
  <2>1. \A i \in 0 .. MantissaBytes : i # 0 => i \in 1 .. MantissaBytes
    BY <1>1
  <2>2. \A i \in 0 .. MantissaBytes : f[i] = IF i = 0 THEN 0 ELSE f[i - 1] * 2 ^ ByteBits + b(i)
    BY <1>1, <1>3, <1>5, <2>1 DEF ReadOut
  <2>3. f = [i \in 0 .. MantissaBytes |-> f[i]]
    BY <1>3 DEF ReadOut
  <2>. QED  BY <2>2, <2>3
<1>8. Is(t)
  <2>. HIDE DEF Is
  <2>. QED  BY <1>4, <1>7
<1>9. \A i \in 0 .. MantissaBytes : t[i] = IF i = 0 THEN 0 ELSE t[i - 1] * 2 ^ ByteBits + b(i)
  BY <1>8
<1>10. t[0] = 0 /\ \A i \in 1 .. MantissaBytes : t[i] = t[i - 1] * Base + BytesTaken(h)[i]
  <2>1. 0 \in 0 .. MantissaBytes /\ \A i \in 1 .. MantissaBytes : i \in 0 .. MantissaBytes /\ i # 0
    BY <1>1
  <2>. QED  BY <1>1, <1>5, <1>9, <2>1
<1>11. t \in [0 .. MantissaBytes -> Nat]
  <2>1. \A i \in 0 .. MantissaBytes : t[i] \in Nat
    <3>. DEFINE S == {k \in 0 .. MantissaBytes : t[k] \in Nat}
    <3>1. 0 \in S
      BY <1>1, <1>10
    <3>2. ASSUME NEW k \in 1 .. MantissaBytes, k - 1 \in S PROVE k \in S
      <4>1. k \in 0 .. MantissaBytes /\ BytesTaken(h)[k] \in Nat /\ t[k - 1] \in Nat
        BY <1>1, <1>2, <3>2
      <4>2. t[k - 1] * Base \in Nat
        BY <4>1, BaseIs, Scale
      <4>3. \A i, j \in Nat : i + j \in Nat
        OBVIOUS
      <4>. QED  BY <1>10, <4>1, <4>2, <4>3
    <3>. HIDE DEF S
    <3>3. \A k \in 0 .. MantissaBytes : k \in S
      BY <1>1, <3>1, <3>2, Inductive
    <3>. QED  BY <3>3 DEF S
  <2>2. t = [i \in 0 .. MantissaBytes |-> t[i]]
    BY <1>8
  <2>. QED  BY <2>1, <2>2
<1>. QED  BY <1>6, <1>10, <1>11 DEF ReadOut

-----------------------------------------------------------------------------
(* The float of a hash: the number its bytes make, whose first one is not  *)
(* zero, shifted up by less than a byte.                                   *)
Widths(j) == Pow(ByteBits * j)

(* The numbers of 0, 1, 2, ... bytes, up to the width of a mantissa.       *)
LEMMA WidthsAre ==
  /\ Widths(0) = 1
  /\ \A j \in Nat : Widths(j) \in Nat /\ Widths(j) >= 1 /\ Widths(j + 1) = Widths(j) * Base
  /\ Widths(MantissaBytes) = Full
<1>1. ByteBits * 0 = 0 /\ Pow(0) = 1
  BY Mantissas, PowNext
<1>2. ASSUME NEW j \in Nat
      PROVE  Widths(j) \in Nat /\ Widths(j) >= 1 /\ Widths(j + 1) = Widths(j) * Base
  <2>1. ByteBits * j \in Nat /\ ByteBits * (j + 1) = ByteBits * j + ByteBits
    BY Mantissas
  <2>2. Pow(ByteBits * j + ByteBits) = Pow(ByteBits * j) * Pow(ByteBits)
    BY <2>1, PowSum, Mantissas
  <2>. QED  BY <2>1, <2>2, PowNext, PowPositive DEF Widths, Base
<1>3. Widths(MantissaBytes) = Full
  BY Mantissas DEF Widths, M
<1>. QED  BY <1>1, <1>2, <1>3 DEF Widths

(* As the first byte taken is not zero, a mantissa lacks less than a byte. *)
LEMMA ReadBounds ==
  ASSUME NEW h \in Hashes, NEW n, ReadOut(n, MantissaBytes, BytesTaken(h))
  PROVE  /\ n[MantissaBytes] \in Nat
         /\ n[MantissaBytes] < Full
         /\ Widths(MantissaBytes - 1) <= n[MantissaBytes]
<1>. DEFINE S == {k \in 0 .. MantissaBytes :
                    /\ n[k] < Widths(k)
                    /\ k >= 1 => Widths(k - 1) <= n[k]}
<1>1. MantissaBytes \in Nat /\ MantissaBytes >= 1
  BY SizesAssumption
<1>2. n \in [0 .. MantissaBytes -> Nat] /\ n[0] = 0
  BY DEF ReadOut
<1>3. 0 \in S
  BY <1>1, <1>2, WidthsAre
<1>4. ASSUME NEW k \in 1 .. MantissaBytes, k - 1 \in S PROVE k \in S
  <2>. DEFINE l == k - 1
              a == n[l]
              c == BytesTaken(h)[k]
              w == Widths(l)
  <2>1. l \in Nat /\ l \in 0 .. MantissaBytes /\ k \in 0 .. MantissaBytes /\ l + 1 = k
    BY <1>1
  <2>2. a \in Nat /\ a < w /\ w \in Nat /\ w >= 1 /\ Widths(l + 1) = w * Base
    BY <1>2, <1>4, <2>1, WidthsAre
  <2>3. c \in Nat /\ c < Base /\ (k = 1 => c >= 1)
    BY TakenIs
  <2>4. n[k] = a * Base + c
    BY DEF ReadOut
  <2>5. Widths(k) = w * Base
    BY <2>1, <2>2
  <2>. HIDE DEF a, c, w
  <2>6. (a + 1) * Base <= w * Base /\ (a + 1) * Base = a * Base + Base /\ a * Base \in Nat
    <3>1. a + 1 \in Nat /\ a + 1 <= w
      BY <2>2
    <3>2. (a + 1) * Base <= w * Base /\ a * Base \in Nat
      BY <2>2, <3>1, BaseIs, Scale
    <3>. QED  BY <2>2, <3>2, BaseIs
  <2>7. w * Base \in Nat
    BY <2>2, BaseIs, Scale
  <2>8. a * Base + c < w * Base
    BY <2>3, <2>6, <2>7, BaseIs
  <2>9. Widths(k - 1) <= n[k]
    <3>1. CASE k = 1
      <4>1. l = 0 /\ w = 1
        BY <3>1, WidthsAre DEF w
      <4>2. Widths(k - 1) = 1
        BY <4>1 DEF w
      <4>. QED  BY <2>3, <2>4, <2>6, <3>1, <4>2
    <3>2. CASE k # 1
      <4>. DEFINE i == l - 1
                  u == Widths(i)
      <4>1. i \in Nat /\ i + 1 = l /\ l >= 1
        BY <2>1, <3>2
      <4>2. u \in Nat /\ w = u * Base
        BY <4>1, WidthsAre DEF w
      <4>3. u <= a
        BY <1>4, <4>1 DEF a
      <4>4. u * Base <= a * Base
        BY <2>2, <4>2, <4>3, BaseIs, Scale
      <4>5. w <= a * Base
        BY <4>2, <4>4
      <4>6. w <= a * Base + c
        BY <2>2, <2>3, <2>6, <4>5
      <4>. QED  BY <2>4, <4>6 DEF w
    <3>. QED  BY <3>1, <3>2
  <2>. QED  BY <2>1, <2>4, <2>5, <2>8, <2>9
<1>. HIDE DEF S
<1>5. \A k \in 0 .. MantissaBytes : k \in S
  BY <1>1, <1>3, <1>4, Inductive
<1>6. MantissaBytes \in S /\ MantissaBytes \in 0 .. MantissaBytes
  BY <1>1, <1>5
<1>. QED  BY <1>1, <1>2, <1>6, WidthsAre DEF S

(* n reads the bytes taken of h, and s bits shift what they write up.      *)
IsFloatOf(h, n, s) ==
  /\ ReadOut(n, MantissaBytes, BytesTaken(h))
  /\ n[MantissaBytes] \in Nat
  /\ CF(h) = [m |-> n[MantissaBytes] * Pow(s), e |-> - ByteBits * Lead(h) - s]
  /\ Half <= n[MantissaBytes] * Pow(s) /\ n[MantissaBytes] * Pow(s) < Full
  /\ s < ByteBits

(* Every hash has its float, shifted up by less than a byte.               *)
LEMMA CFIs ==
  ASSUME NEW h \in Hashes
  PROVE  \E n : \E s \in Nat : IsFloatOf(h, n, s)
<1>1. PICK n : /\ ReadOut(n, MantissaBytes, BytesTaken(h))
               /\ CF(h) = Up(n[MantissaBytes], - ByteBits * Lead(h))
  BY CFReads
<1>. DEFINE x == n[MantissaBytes]
            e == - ByteBits * Lead(h)
            l == MantissaBytes - 1
<1>2. x \in Nat /\ x < Full /\ Widths(l) <= x
  BY <1>1, ReadBounds
<1>3. HashBytes \in Nat /\ Lead(h) \in Nat /\ e \in Int
  <2>1. HashBytes \in Nat /\ Lead(h) \in 0 .. HashBytes /\ ByteBits \in Nat
    BY LeadIs, SizesAssumption
  <2>2. Lead(h) \in Nat
    BY <2>1
  <2>. QED  BY <2>1, <2>2
<1>4. l \in Nat /\ l + 1 = MantissaBytes
  BY SizesAssumption
<1>5. Widths(l) \in Nat /\ Widths(l) >= 1 /\ Widths(l) * Base = Full
  <2>1. Widths(l + 1) = Widths(l) * Base
    BY <1>4, WidthsAre
  <2>. QED  BY <1>4, <2>1, WidthsAre
<1>. HIDE DEF x, e, l
<1>6. 1 <= x
  BY <1>2, <1>5
<1>7. PICK s \in Nat : /\ Up(x, e) = [m |-> x * Pow(s), e |-> e - s]
                       /\ x * Pow(s) \in Nat
                       /\ Half <= x * Pow(s) /\ x * Pow(s) < Full
  BY <1>2, <1>3, <1>6, UpIs
<1>8. s < ByteBits
  <2>1. ASSUME ~ (s < ByteBits) PROVE FALSE
    <3>1. Base <= Pow(s) /\ Pow(s) \in Nat
      <4>1. ByteBits \in Nat /\ ByteBits <= s
        BY <2>1, Mantissas
      <4>2. Pow(ByteBits) <= Pow(s)
        BY <4>1, PowMonotone
      <4>. QED  BY <4>2, PowNext DEF Base
    <3>2. Widths(l) * Base <= x * Base
      BY <1>2, <1>5, BaseIs, Scale
    <3>3. Base * x <= Pow(s) * x
      BY <1>2, <3>1, BaseIs, Scale
    <3>4. x * Base = Base * x /\ x * Pow(s) = Pow(s) * x
      BY <1>2, <3>1, BaseIs
    <3>. DEFINE a == x * Base
                b == x * Pow(s)
    <3>5. a \in Nat /\ b \in Nat
      BY <1>2, <3>1, BaseIs, Scale
    <3>6. Full <= a /\ a <= b /\ b < Full
      BY <1>5, <1>7, <3>2, <3>3, <3>4
    <3>. HIDE DEF a, b
    <3>. QED  BY <3>5, <3>6, Mantissas
  <2>. QED  BY <2>1
<1>9. IsFloatOf(h, n, s)
  BY <1>1, <1>2, <1>7, <1>8 DEF IsFloatOf, x, e
<1>. QED  BY <1>9

(* A hash's float is normalised and below one.                             *)
LEMMA CFIsFloat ==
  ASSUME NEW h \in Hashes
  PROVE  CF(h) \in Floats /\ CF(h).e <= 0
<1>1. PICK n : \E s \in Nat : IsFloatOf(h, n, s)
  BY CFIs
<1>2. PICK s \in Nat : IsFloatOf(h, n, s)
  BY <1>1
<1>. DEFINE y == n[MantissaBytes] * Pow(s)
            e == - ByteBits * Lead(h) - s
<1>3. CF(h) = [m |-> y, e |-> e] /\ Half <= y /\ y < Full
  BY <1>2 DEF IsFloatOf
<1>4. y \in Nat
  <2>1. n[MantissaBytes] \in Nat /\ Pow(s) \in Nat
    BY <1>2, PowNext DEF IsFloatOf
  <2>. QED  BY <2>1, Scale
<1>5. e \in Int /\ e <= 0
  <2>1. HashBytes \in Nat /\ Lead(h) \in 0 .. HashBytes /\ ByteBits \in Nat
    BY LeadIs, SizesAssumption
  <2>2. Lead(h) \in Nat
    BY <2>1
  <2>. DEFINE g == ByteBits * Lead(h)
  <2>3. g \in Nat
    BY <2>1, <2>2, Scale
  <2>4. - ByteBits * Lead(h) = - g
    BY <2>1, <2>2
  <2>. HIDE DEF g
  <2>. QED  BY <2>3, <2>4
<1>. HIDE DEF y, e
<1>. QED  BY <1>3, <1>4, <1>5, Mantissas DEF Floats

-----------------------------------------------------------------------------
(* All prefixes of a hash that is not larger are not larger.               *)
LEMMA PrefixesKeepOrder ==
  ASSUME NEW g \in Hashes, NEW h \in Hashes, NEW p, NEW q,
         ReadOut(p, HashBytes, g), ReadOut(q, HashBytes, h), p[HashBytes] <= q[HashBytes]
  PROVE  \A i \in 0 .. HashBytes : p[i] <= q[i]
<1>1. HashBytes \in Nat
  BY SizesAssumption
<1>2. p \in [0 .. HashBytes -> Nat] /\ q \in [0 .. HashBytes -> Nat]
  BY DEF ReadOut
<1>3. SUFFICES ASSUME NEW i \in 0 .. HashBytes, ~ (p[i] <= q[i]) PROVE FALSE
  OBVIOUS
<1>. DEFINE S == {k \in 0 .. HashBytes : i <= k => q[k] < p[k]}
<1>4. q[i] < p[i]
  BY <1>2, <1>3
<1>5. 0 \in S
  <2>1. i <= 0 => i = 0
    BY <1>1
  <2>. QED  BY <1>1, <1>4, <2>1
<1>6. ASSUME NEW k \in 1 .. HashBytes, k - 1 \in S PROVE k \in S
  <2>1. k \in 0 .. HashBytes /\ k - 1 \in 0 .. HashBytes
    BY <1>1
  <2>2. CASE i <= k - 1
    <3>. DEFINE a == p[k - 1]
                b == q[k - 1]
                c == g[k]
                d == h[k]
    <3>1. a \in Nat /\ b \in Nat /\ b + 1 <= a /\ b + 1 \in Nat
      BY <1>2, <1>6, <2>1, <2>2
    <3>2. c \in Nat /\ d \in Nat /\ d < Base
      BY BaseIs DEF Hashes, Base, Pow
    <3>3. p[k] = a * Base + c /\ q[k] = b * Base + d
      BY DEF ReadOut
    <3>. HIDE DEF a, b, c, d
    <3>4. (b + 1) * Base <= a * Base /\ (b + 1) * Base = b * Base + Base
          /\ a * Base \in Nat /\ b * Base \in Nat
      <4>1. (b + 1) * Base <= a * Base /\ a * Base \in Nat /\ b * Base \in Nat
        BY <3>1, BaseIs, Scale
      <4>. QED  BY <3>1, <4>1, BaseIs
    <3>5. b * Base + d < a * Base + c
      BY <3>2, <3>4, BaseIs
    <3>. QED  BY <2>1, <3>3, <3>5
  <2>3. CASE ~ (i <= k - 1)
    <3>1. i <= k => i = k
      BY <1>1, <2>3
    <3>. QED  BY <1>4, <2>1, <3>1
  <2>. QED  BY <2>2, <2>3
<1>7. HashBytes \in S
  <2>. HIDE DEF S
  <2>1. \A k \in 0 .. HashBytes : k \in S
    BY <1>1, <1>5, <1>6, Inductive
  <2>. QED  BY <1>1, <2>1
<1>8. i <= HashBytes /\ p[HashBytes] \in Nat /\ q[HashBytes] \in Nat
  BY <1>1, <1>2
<1>. QED  BY <1>7, <1>8

(* The zero bytes of a hash write 0.                                       *)
LEMMA ZeroPrefix ==
  ASSUME NEW h \in Hashes, NEW n, ReadOut(n, HashBytes, h)
  PROVE  \A i \in 0 .. HashBytes : i <= Lead(h) => n[i] = 0
<1>. DEFINE S == {k \in 0 .. HashBytes : k <= Lead(h) => n[k] = 0}
<1>1. HashBytes \in Nat /\ Lead(h) \in 0 .. HashBytes
  BY SizesAssumption, LeadIs
<1>2. 0 \in S
  BY <1>1 DEF ReadOut
<1>3. ASSUME NEW k \in 1 .. HashBytes, k - 1 \in S PROVE k \in S
  <2>1. k \in 0 .. HashBytes
    BY <1>1
  <2>2. ASSUME k <= Lead(h) PROVE n[k] = 0
    <3>1. k - 1 <= Lead(h) /\ k \in 1 .. Lead(h)
      BY <1>1, <2>2
    <3>2. n[k - 1] = 0 /\ h[k] = 0
      BY <1>3, <3>1, LeadIs DEF LeadsBy
    <3>3. n[k] = n[k - 1] * Base + h[k]
      BY DEF ReadOut
    <3>4. 0 * Base + 0 = 0
      BY BaseIs
    <3>. QED  BY <3>2, <3>3, <3>4
  <2>. QED  BY <2>1, <2>2
<1>. HIDE DEF S
<1>4. \A k \in 0 .. HashBytes : k \in S
  BY <1>1, <1>2, <1>3, Inductive
<1>. QED  BY <1>4 DEF S

(* A hash that is not larger has at least as many zero bytes.              *)
LEMMA ZerosKeepOrder ==
  ASSUME NEW g \in Hashes, NEW h \in Hashes, NEW p, NEW q,
         ReadOut(p, HashBytes, g), ReadOut(q, HashBytes, h), p[HashBytes] <= q[HashBytes]
  PROVE  Lead(h) <= Lead(g)
<1>1. /\ HashBytes \in Nat
      /\ Lead(g) \in 0 .. HashBytes /\ Lead(h) \in 0 .. HashBytes
  BY SizesAssumption, LeadIs
<1>2. SUFFICES ASSUME ~ (Lead(h) <= Lead(g)) PROVE FALSE
  OBVIOUS
<1>. DEFINE i == Lead(g) + 1
<1>3. i \in 1 .. HashBytes /\ i \in 0 .. HashBytes /\ i <= Lead(h) /\ Lead(g) # HashBytes
      /\ Lead(g) \in 0 .. HashBytes /\ i - 1 = Lead(g)
  BY <1>1, <1>2
<1>4. g[i] # 0 /\ g[i] \in Nat
  <2>1. g[Lead(g) + 1] # 0
    BY <1>3, LeadIs DEF LeadsBy
  <2>2. \A j \in 1 .. HashBytes : g[j] \in Nat
    BY BaseIs DEF Hashes, Base, Pow
  <2>. QED  BY <1>3, <2>1, <2>2
<1>5. q[i] = 0
  BY <1>3, ZeroPrefix
<1>6. p[i - 1] = 0
  <2>1. Lead(g) <= Lead(g)
    BY <1>1
  <2>2. p[Lead(g)] = 0
    BY <1>3, <2>1, ZeroPrefix
  <2>. QED  BY <1>3, <2>2
<1>7. p[i] = p[i - 1] * Base + g[i]
  BY <1>3 DEF ReadOut
<1>8. p[i] <= q[i]
  BY <1>3, PrefixesKeepOrder
<1>. HIDE DEF i
<1>9. p[i] = g[i]
  <2>1. 0 * Base + g[i] = g[i]
    BY <1>4, BaseIs
  <2>. QED  BY <1>6, <1>7, <2>1
<1>. QED  BY <1>4, <1>5, <1>8, <1>9

(* With as many zeros, the bytes taken keep the order of the hashes.       *)
LEMMA TakenKeepOrder ==
  ASSUME NEW g \in Hashes, NEW h \in Hashes, NEW p, NEW q, NEW a, NEW b,
         ReadOut(p, HashBytes, g), ReadOut(q, HashBytes, h), p[HashBytes] <= q[HashBytes],
         ReadOut(a, MantissaBytes, BytesTaken(g)), ReadOut(b, MantissaBytes, BytesTaken(h)),
         Lead(g) = Lead(h)
  PROVE  a[MantissaBytes] <= b[MantissaBytes]
<1>. DEFINE z == Lead(h)
            S == {k \in 0 .. MantissaBytes :
                    /\ a[k] <= b[k]
                    /\ z + k <= HashBytes => a[k] = p[z + k] /\ b[k] = q[z + k]}
<1>1. /\ HashBytes \in Nat /\ MantissaBytes \in Nat /\ z \in 0 .. HashBytes /\ z \in Nat
      /\ z + 0 = z
  <2>1. HashBytes \in Nat /\ MantissaBytes \in Nat /\ z \in 0 .. HashBytes
    BY SizesAssumption, LeadIs
  <2>. QED  BY <2>1
<1>2. \A i \in 0 .. HashBytes : p[i] <= q[i]
  BY PrefixesKeepOrder
<1>3. a \in [0 .. MantissaBytes -> Nat] /\ b \in [0 .. MantissaBytes -> Nat]
  BY DEF ReadOut
<1>. HIDE DEF z
<1>4. 0 \in S
  <2>1. z <= Lead(g) /\ z <= Lead(h)
    BY <1>1 DEF z
  <2>2. p[z] = 0 /\ q[z] = 0
    BY <1>1, <2>1, ZeroPrefix
  <2>3. a[0] = 0 /\ b[0] = 0
    BY DEF ReadOut
  <2>. QED  BY <1>1, <2>2, <2>3
<1>5. ASSUME NEW k \in 1 .. MantissaBytes, k - 1 \in S PROVE k \in S
  <2>. DEFINE c == BytesTaken(g)[k]
              d == BytesTaken(h)[k]
              i == z + k
  <2>1. k \in 0 .. MantissaBytes /\ k - 1 \in 0 .. MantissaBytes
    BY <1>1
  <2>2. a[k] = a[k - 1] * Base + c /\ b[k] = b[k - 1] * Base + d
    BY DEF ReadOut
  <2>3. a[k - 1] \in Nat /\ b[k - 1] \in Nat /\ a[k - 1] <= b[k - 1]
    BY <1>3, <1>5, <2>1
  <2>4. c \in Nat /\ d \in Nat
    BY TakenIs
  <2>5. CASE i <= HashBytes
    <3>1. /\ i \in 1 .. HashBytes /\ i \in 0 .. HashBytes
          /\ z + (k - 1) = i - 1 /\ z + (k - 1) <= HashBytes
      BY <1>1, <2>5
    <3>2. a[k - 1] = p[i - 1] /\ b[k - 1] = q[i - 1]
      BY <1>5, <3>1
    <3>3. c = g[i] /\ d = h[i]
      BY <2>5 DEF BytesTaken, z
    <3>4. p[i] = p[i - 1] * Base + g[i] /\ q[i] = q[i - 1] * Base + h[i]
      BY <3>1 DEF ReadOut
    <3>5. a[k] = p[i] /\ b[k] = q[i]
      BY <2>2, <3>2, <3>3, <3>4
    <3>6. p[i] <= q[i]
      BY <1>2, <3>1
    <3>. QED  BY <2>1, <3>5, <3>6
  <2>6. CASE ~ (i <= HashBytes)
    <3>1. c = d
      BY <2>6 DEF BytesTaken, z
    <3>. DEFINE u == a[k - 1] * Base
                v == b[k - 1] * Base
    <3>2. u \in Nat /\ v \in Nat /\ u <= v
      BY <2>3, BaseIs, Scale
    <3>. HIDE DEF u, v, c, d
    <3>3. u + c <= v + d
      BY <2>4, <3>1, <3>2
    <3>4. a[k] <= b[k]
      BY <2>2, <3>3 DEF u, v
    <3>. QED  BY <2>1, <2>6, <3>4
  <2>. QED  BY <2>5, <2>6
<1>. HIDE DEF S
<1>6. \A k \in 0 .. MantissaBytes : k \in S
  BY <1>1, <1>4, <1>5, Inductive
<1>7. MantissaBytes \in S
  BY <1>1, <1>6
<1>. QED  BY <1>7 DEF S

(* A smaller hash never gets a larger float, for all widths of bytes,      *)
(* mantissas and hashes (CF of main.cpp).                                  *)
THEOREM OrderIsKept == HashesKeepOrder
<1>. SUFFICES ASSUME NEW g \in Hashes, NEW h \in Hashes, Number(g) <= Number(h)
              PROVE  ~ Less(CF(h), CF(g))
  BY DEF HashesKeepOrder
<1>1. PICK p : ReadOut(p, HashBytes, g) /\ Number(g) = p[HashBytes]
  BY NumberReads
<1>2. PICK q : ReadOut(q, HashBytes, h) /\ Number(h) = q[HashBytes]
  BY NumberReads
<1>3. p[HashBytes] <= q[HashBytes]
  BY <1>1, <1>2
<1>4. PICK a : \E s \in Nat : IsFloatOf(g, a, s)
  BY CFIs
<1>5. PICK s \in Nat : IsFloatOf(g, a, s)
  BY <1>4
<1>6. PICK b : \E r \in Nat : IsFloatOf(h, b, r)
  BY CFIs
<1>7. PICK r \in Nat : IsFloatOf(h, b, r)
  BY <1>6
<1>. DEFINE x == a[MantissaBytes]
            y == b[MantissaBytes]
            xs == x * Pow(s)
            yr == y * Pow(r)
            i == ByteBits * Lead(g)
            k == ByteBits * Lead(h)
<1>8. /\ x \in Nat /\ xs \in Nat /\ Half <= xs /\ xs < Full
      /\ y \in Nat /\ yr \in Nat /\ Half <= yr /\ yr < Full
      /\ s < ByteBits /\ r < ByteBits /\ ByteBits \in Nat
      /\ Pow(s) \in Nat /\ Pow(r) \in Nat
  <2>1. /\ x \in Nat /\ Half <= xs /\ xs < Full
        /\ y \in Nat /\ Half <= yr /\ yr < Full
        /\ s < ByteBits /\ r < ByteBits
    BY <1>5, <1>7 DEF IsFloatOf
  <2>2. Pow(s) \in Nat /\ Pow(r) \in Nat
    BY PowNext
  <2>3. xs \in Nat /\ yr \in Nat
    BY <2>1, <2>2, Scale
  <2>. QED  BY <2>1, <2>2, <2>3, Mantissas
<1>9. /\ HashBytes \in Nat /\ Lead(g) \in Nat /\ Lead(h) \in Nat
      /\ Lead(h) <= Lead(g)
  <2>1. /\ HashBytes \in Nat /\ Lead(g) \in 0 .. HashBytes /\ Lead(h) \in 0 .. HashBytes
    BY SizesAssumption, LeadIs
  <2>2. Lead(h) <= Lead(g)
    BY <1>1, <1>2, <1>3, ZerosKeepOrder
  <2>. QED  BY <2>1, <2>2
<1>10. i \in Nat /\ k \in Nat /\ - ByteBits * Lead(g) = - i /\ - ByteBits * Lead(h) = - k
  BY <1>8, <1>9
<1>11. CF(g) = [m |-> xs, e |-> - i - s] /\ CF(h) = [m |-> yr, e |-> - k - r]
  BY <1>5, <1>7, <1>10 DEF IsFloatOf
<1>12. CASE Lead(g) = Lead(h)
  <2>1. x <= y
    BY <1>1, <1>2, <1>3, <1>5, <1>7, <1>12, TakenKeepOrder DEF IsFloatOf
  <2>2. i = k
    BY <1>12
  <2>3. r <= s
    <3>1. ASSUME ~ (r <= s) PROVE FALSE
      <4>1. s + 1 <= r /\ s + 1 \in Nat
        BY <3>1
      <4>2. Pow(s + 1) <= Pow(r) /\ Pow(s + 1) = 2 * Pow(s)
        BY <4>1, PowMonotone, PowNext
      <4>. DEFINE u == 2 * Pow(s)
      <4>3. u \in Nat /\ u <= Pow(r)
        BY <1>8, <4>2
      <4>4. u * x <= Pow(r) * x
        BY <1>8, <4>3, Scale
      <4>5. x * Pow(r) <= yr
        BY <1>8, <2>1, Scale
      <4>6. u * x = 2 * xs /\ Pow(r) * x = x * Pow(r) /\ x * Pow(r) \in Nat
        <5>1. \A c, d \in Nat : (2 * d) * c = 2 * (c * d) /\ d * c = c * d /\ c * d \in Nat
          OBVIOUS
        <5>. QED  BY <1>8, <5>1
      <4>. DEFINE v == x * Pow(r)
      <4>7. v \in Nat /\ 2 * xs <= v /\ v <= yr
        BY <4>4, <4>5, <4>6
      <4>. HIDE DEF v, xs, yr
      <4>. QED  BY <1>8, <4>7, Mantissas
    <3>. QED  BY <3>1
  <2>4. CASE r = s
    <3>1. xs <= yr
      BY <1>8, <2>1, <2>4, Scale
    <3>. HIDE DEF xs, yr, i, k
    <3>. QED  BY <1>8, <1>11, <2>2, <2>4, <3>1 DEF Less
  <2>5. CASE r # s
    <3>1. r < s
      BY <2>3, <2>5
    <3>. HIDE DEF xs, yr, i, k
    <3>2. - i - s < - k - r
      BY <1>10, <2>2, <3>1
    <3>. DEFINE eg == - i - s
                eh == - k - r
    <3>3. eg < eh /\ eg \in Int /\ eh \in Int
      BY <1>10, <3>2
    <3>4. CF(g).e = eg /\ CF(h).e = eh
      BY <1>11
    <3>. HIDE DEF eg, eh
    <3>. QED  BY <3>3, <3>4 DEF Less
  <2>. QED  BY <2>4, <2>5
<1>13. CASE Lead(g) # Lead(h)
  <2>1. Lead(h) + 1 <= Lead(g) /\ Lead(h) + 1 \in Nat
    BY <1>9, <1>13
  <2>2. k + ByteBits <= i
    <3>1. (Lead(h) + 1) * ByteBits <= Lead(g) * ByteBits
      BY <1>8, <1>9, <2>1, Scale
    <3>2. (Lead(h) + 1) * ByteBits = k + ByteBits /\ Lead(g) * ByteBits = i
      BY <1>8, <1>9
    <3>. QED  BY <3>1, <3>2
  <2>. HIDE DEF xs, yr, i, k
  <2>. DEFINE eg == - i - s
              eh == - k - r
  <2>3. eg < eh /\ eg \in Int /\ eh \in Int
    BY <1>8, <1>10, <2>2
  <2>4. CF(g).e = eg /\ CF(h).e = eh
    BY <1>11
  <2>. HIDE DEF eg, eh
  <2>. QED  BY <2>3, <2>4 DEF Less
<1>. QED  BY <1>12, <1>13

(* What was judged are inputs, and ok is their verdict.                    *)
JudgedInv ==
  judged # <<>> =>
    /\ judged.verus \in Hashes /\ judged.power \in Powers /\ judged.target \in Targets
    /\ judged.ok = ( /\ ~ Less(CF(judged.sha), Threshold)
                     /\ product_lt_target(Times(CF(judged.verus), judged.power), judged.target))

(* The verdict is that of exact numbers, for all widths and whatever the   *)
(* power is: the float of a hash keeps the order of hashes, and cutting off *)
(* the product never changes its comparison with a canonical target (main  *)
(* of main.cpp).                                                           *)
THEOREM VerdictHolds == VerdictSpec => []VerdictIsExact
<1>1. VerdictInit => JudgedInv
  BY DEF VerdictInit, JudgedInv
<1>2. JudgedInv /\ [Judge]_judged => JudgedInv'
  <2>. SUFFICES ASSUME JudgedInv, [Judge]_judged PROVE JudgedInv'
    OBVIOUS
  <2>1. CASE Judge
    <3>1. PICK verus \in Hashes, sha \in ShaHashes, power \in Powers, target \in Targets :
            judged' = [verus |-> verus, sha |-> sha, power |-> power, target |-> target,
                       ok |-> /\ ~ Less(CF(sha), Threshold)
                              /\ product_lt_target(Times(CF(verus), power), target)]
      BY <2>1 DEF Judge
    <3>2. /\ judged'.verus = verus /\ judged'.sha = sha /\ judged'.power = power
          /\ judged'.target = target
          /\ judged'.ok = ( /\ ~ Less(CF(sha), Threshold)
                            /\ product_lt_target(Times(CF(verus), power), target))
      BY <3>1
    <3>. QED  BY <3>2 DEF JudgedInv
  <2>2. CASE UNCHANGED judged
    BY <2>2 DEF JudgedInv
  <2>. QED  BY <2>1, <2>2
<1>3. JudgedInv => VerdictIsExact
  <2>. SUFFICES ASSUME JudgedInv, judged # <<>>
                PROVE  LET v == CF(judged.verus)
                           t == judged.target
                       IN  judged.ok <=>
                             /\ ~ Less(CF(judged.sha), Threshold)
                             /\ v.m * judged.power.m * 2 ^ t.zeros
                                  < t.bits * 2 ^ (M - TargetBits) * 2 ^ (- v.e - judged.power.e)
    BY OrderIsKept DEF VerdictIsExact
  <2>. DEFINE v == CF(judged.verus)
              p == judged.power
              t == judged.target
  <2>1. v \in Floats /\ v.e <= 0
    BY CFIsFloat DEF JudgedInv
  <2>2. p \in Floats /\ p.e <= 0 /\ t \in Targets
    BY FloatsAssumption DEF JudgedInv
  <2>3. judged.ok = ( /\ ~ Less(CF(judged.sha), Threshold)
                      /\ product_lt_target(Times(v, p), t))
    BY DEF JudgedInv
  <2>. HIDE DEF v, p, t
  <2>4. product_lt_target(Times(v, p), t)
          <=> v.m * p.m * 2 ^ t.zeros
                < t.bits * 2 ^ (M - TargetBits) * 2 ^ (- v.e - p.e)
    BY <2>1, <2>2, ComparesExactly
  <2>. QED  BY <2>3, <2>4 DEF v, p, t
<1>. QED  BY <1>1, <1>2, <1>3, PTL DEF VerdictSpec
-----------------------------------------------------------------------------
(* The arithmetic of the keyed multiplication.                             *)

(* Sets of an odd number of elements.                                      *)
Odd(S) == Cardinality(S) % 2 = 1

(* The empty set does not have an odd number.                              *)
LEMMA OddEmpty == ~ Odd({})
BY FS_EmptySet DEF Odd

(* One element more turns odd to even and back.                            *)
LEMMA OddAdd ==
  ASSUME NEW S, IsFiniteSet(S), NEW x, x \notin S
  PROVE  Odd(S \cup {x}) <=> ~ Odd(S)
<1>1. Cardinality(S \cup {x}) = Cardinality(S) + 1 /\ Cardinality(S) \in Nat
  BY FS_AddElement, FS_CardinalityType
<1>2. \A n \in Nat : (n + 1) % 2 = 1 <=> ~ (n % 2 = 1)
  OBVIOUS
<1>. QED  BY <1>1, <1>2 DEF Odd

(* Xor has an odd number when just one of its two sets has.                *)
LEMMA OddXor ==
  ASSUME NEW A, NEW B, IsFiniteSet(A), IsFiniteSet(B)
  PROVE  IsFiniteSet(Xor(A, B)) /\ (Odd(Xor(A, B)) <=> ~ (Odd(A) <=> Odd(B)))
<1>. DEFINE P == A \ B
            Q == B \ A
            R == A \cap B
<1>1. IsFiniteSet(P) /\ IsFiniteSet(Q) /\ IsFiniteSet(R)
  BY FS_Subset
<1>2. /\ A = P \cup R /\ P \cap R = {} /\ B = Q \cup R /\ Q \cap R = {}
      /\ Xor(A, B) = P \cup Q /\ P \cap Q = {}
  BY DEF Xor
<1>. HIDE DEF P, Q, R
<1>3. /\ Cardinality(A) = Cardinality(P) + Cardinality(R) - Cardinality({})
      /\ Cardinality(B) = Cardinality(Q) + Cardinality(R) - Cardinality({})
      /\ Cardinality(Xor(A, B)) = Cardinality(P) + Cardinality(Q) - Cardinality({})
      /\ IsFiniteSet(Xor(A, B))
  <2>1. Cardinality(P \cup R) = Cardinality(P) + Cardinality(R) - Cardinality(P \cap R)
    BY <1>1, FS_Union
  <2>2. Cardinality(Q \cup R) = Cardinality(Q) + Cardinality(R) - Cardinality(Q \cap R)
    BY <1>1, FS_Union
  <2>3. /\ Cardinality(P \cup Q) = Cardinality(P) + Cardinality(Q) - Cardinality(P \cap Q)
        /\ IsFiniteSet(P \cup Q)
    BY <1>1, FS_Union
  <2>. QED  BY <1>2, <2>1, <2>2, <2>3
<1>4. /\ Cardinality(P) \in Nat /\ Cardinality(Q) \in Nat /\ Cardinality(R) \in Nat
      /\ Cardinality({}) = 0
  BY <1>1, FS_CardinalityType, FS_EmptySet
<1>5. \A p, q, r \in Nat : (p + q) % 2 = 1 <=> ~ ((p + r) % 2 = 1 <=> (q + r) % 2 = 1)
  OBVIOUS
<1>. DEFINE p == Cardinality(P)
            q == Cardinality(Q)
            r == Cardinality(R)
<1>6. Cardinality(A) = p + r /\ Cardinality(B) = q + r /\ Cardinality(Xor(A, B)) = p + q
  BY <1>3, <1>4
<1>. QED  BY <1>3, <1>4, <1>5, <1>6 DEF Odd

(* Sets that are disjoint count together.                                  *)
LEMMA OddDisjoint ==
  ASSUME NEW A, NEW B, IsFiniteSet(A), IsFiniteSet(B), A \cap B = {}
  PROVE  Odd(A \cup B) <=> ~ (Odd(A) <=> Odd(B))
<1>1. Xor(A, B) = A \cup B
  BY DEF Xor
<1>. QED  BY <1>1, OddXor

(* Moved sets have as many elements.                                       *)
LEMMA OddShift ==
  ASSUME NEW S, IsFiniteSet(S), S \subseteq Int, NEW i \in Int
  PROVE  Odd({x + i : x \in S}) <=> Odd(S)
<1>. DEFINE T == {x + i : x \in S}
            f == [x \in S |-> x + i]
<1>1. f \in Bijection(S, T)
  <2>1. f \in [S -> T] /\ DOMAIN f = S /\ \A x \in S : f[x] = x + i
    OBVIOUS
  <2>2. \A x, y \in S : x + i = y + i => x = y
    OBVIOUS
  <2>3. \A t \in T : \E x \in S : f[x] = t
    OBVIOUS
  <2>. HIDE DEF T, f
  <2>. QED  BY <2>1, <2>2, <2>3 DEF Bijection, Injection, Surjection, IsInjective
<1>2. Cardinality(T) = Cardinality(S)
  <2>1. ExistsBijection(S, T)
    BY <1>1 DEF ExistsBijection
  <2>. HIDE DEF T
  <2>. QED  BY <2>1, FS_Bijection
<1>. QED  BY <1>2 DEF Odd

(* Groups: an odd number of odd ones, when they are disjoint.              *)
LEMMA OddGroups ==
  ASSUME NEW S, IsFiniteSet(S), NEW G, \A i \in S : IsFiniteSet(G[i]),
         \A i, j \in S : i # j => G[i] \cap G[j] = {}
  PROVE  /\ IsFiniteSet(UNION {G[i] : i \in S})
         /\ Odd(UNION {G[i] : i \in S}) <=> Odd({i \in S : Odd(G[i])})
<1>. DEFINE All(T) == UNION {G[i] : i \in T}
            Odds(T) == {i \in T : Odd(G[i])}
            B == {T \in SUBSET S : ~ (IsFiniteSet(All(T)) /\ (Odd(All(T)) <=> Odd(Odds(T))))}
<1>1. ASSUME B # {} PROVE FALSE
  <2>1. PICK m \in B : \A t \in B : t \subseteq m => t = m
    <3>1. B \subseteq SUBSET S
      OBVIOUS
    <3>. HIDE DEF B
    <3>. QED  BY <1>1, <3>1, MinimalSubset
  <2>2. m # {}
    <3>1. All({}) = {} /\ Odds({}) = {}
      OBVIOUS
    <3>2. IsFiniteSet({})
      BY FS_EmptySet
    <3>. HIDE DEF All, Odds
    <3>. QED  BY <2>1, <3>1, <3>2
  <2>3. PICK x : x \in m
    BY <2>2
  <2>. DEFINE r == m \ {x}
  <2>4. x \in S /\ r \subseteq S /\ r \notin B /\ IsFiniteSet(r) /\ m = r \cup {x} /\ x \notin r
    <3>1. r \subseteq S /\ r # m
      BY <2>3
    <3>2. IsFiniteSet(r)
      BY <3>1, FS_Subset
    <3>3. r \notin B
      <4>. HIDE DEF B
      <4>. QED  BY <2>1, <3>1
    <3>4. x \in S /\ m = r \cup {x} /\ x \notin r
      BY <2>3
    <3>. QED  BY <3>1, <3>2, <3>3, <3>4
  <2>5. IsFiniteSet(All(r)) /\ (Odd(All(r)) <=> Odd(Odds(r)))
    <3>. HIDE DEF r, All, Odds
    <3>. QED  BY <2>4
  <2>6. All(m) = All(r) \cup G[x] /\ All(r) \cap G[x] = {}
    <3>1. \A i \in r : G[i] \cap G[x] = {}
      BY <2>4
    <3>. QED  BY <2>4, <3>1
  <2>7. IsFiniteSet(Odds(r)) /\ x \notin Odds(r)
        /\ Odds(m) = IF Odd(G[x]) THEN Odds(r) \cup {x} ELSE Odds(r)
    <3>1. Odds(r) \subseteq r
      OBVIOUS
    <3>2. IsFiniteSet(Odds(r))
      BY <2>4, <3>1, FS_Subset
    <3>. QED  BY <2>4, <3>2
  <2>8. IsFiniteSet(G[x])
    BY <2>4
  <2>. HIDE DEF r, All, Odds
  <2>9. IsFiniteSet(All(m)) /\ (Odd(All(m)) <=> ~ (Odd(All(r)) <=> Odd(G[x])))
    <3>1. IsFiniteSet(All(r) \cup G[x])
      BY <2>5, <2>8, FS_Union
    <3>2. Odd(All(r) \cup G[x]) <=> ~ (Odd(All(r)) <=> Odd(G[x]))
      BY <2>5, <2>6, <2>8, OddDisjoint
    <3>. QED  BY <2>6, <3>1, <3>2
  <2>10. Odd(Odds(m)) <=> ~ (Odd(Odds(r)) <=> Odd(G[x]))
    BY <2>7, OddAdd
  <2>. QED  BY <2>1, <2>5, <2>9, <2>10
<1>2. IsFiniteSet(All(S)) /\ (Odd(All(S)) <=> Odd(Odds(S)))
  BY <1>1
<1>. QED  BY <1>2

-----------------------------------------------------------------------------
IsXorTable(g, f) ==
  g = [s \in SUBSET (DOMAIN f) |-> IF s = {} THEN {} ELSE Xor(f[Pick(s)], g[s \ {Pick(s)}])]

(* Xor over a function: what an odd number of its values has.              *)
LEMMA XorOverIs ==
  ASSUME NEW f, IsFiniteSet(DOMAIN f)
  PROVE  \A k : k \in XorOver(f) <=> Odd({x \in DOMAIN f : k \in f[x]})
<1>. DEFINE S == DOMAIN f
            Some == UNION {f[x] : x \in S}
            Has(s, k) == {x \in s : k \in f[x]}
            g == [s \in SUBSET S |-> {k \in Some : Odd(Has(s, k))}]
            t == CHOOSE h : IsXorTable(h, f)
<1>1. ASSUME NEW s \in SUBSET S PROVE \A k : Odd(Has(s, k)) => k \in Some
  <2>. SUFFICES ASSUME NEW k, k \notin Some PROVE ~ Odd(Has(s, k))
    OBVIOUS
  <2>1. Has(s, k) = {}
    OBVIOUS
  <2>. QED  BY <2>1, OddEmpty
<1>2. ASSUME NEW s \in SUBSET S, s # {}, NEW k
      PROVE  Odd(Has(s, k)) <=> ~ (k \in f[Pick(s)] <=> Odd(Has(s \ {Pick(s)}, k)))
  <2>. DEFINE r == s \ {Pick(s)}
  <2>1. Pick(s) \in s
    BY <1>2, PickInSet
  <2>2. IsFiniteSet(Has(r, k))
    <3>1. Has(r, k) \subseteq S
      OBVIOUS
    <3>. QED  BY <3>1, FS_Subset
  <2>3. Pick(s) \notin Has(r, k)
    OBVIOUS
  <2>4. Has(s, k) = IF k \in f[Pick(s)] THEN Has(r, k) \cup {Pick(s)} ELSE Has(r, k)
    BY <2>1
  <2>. HIDE DEF r, Has
  <2>5. Odd(Has(s, k)) <=> ~ (k \in f[Pick(s)] <=> Odd(Has(r, k)))
    BY <2>2, <2>3, <2>4, OddAdd
  <2>. QED  BY <2>5 DEF r
<1>3. \A s \in SUBSET S : g[s] = IF s = {} THEN {} ELSE Xor(f[Pick(s)], g[s \ {Pick(s)}])
  <2>. SUFFICES ASSUME NEW s \in SUBSET S
                PROVE  g[s] = IF s = {} THEN {} ELSE Xor(f[Pick(s)], g[s \ {Pick(s)}])
    OBVIOUS
  <2>1. CASE s = {}
    <3>1. \A k : Has(s, k) = {}
      BY <2>1
    <3>2. \A k : ~ Odd(Has(s, k))
      <4>. HIDE DEF Has
      <4>. QED  BY <3>1, OddEmpty
    <3>. HIDE DEF Has
    <3>. QED  BY <2>1, <3>2
  <2>2. CASE s # {}
    <3>. DEFINE r == s \ {Pick(s)}
    <3>1. r \in SUBSET S /\ f[Pick(s)] \subseteq Some
      BY <2>2, PickInSet
    <3>2. g[s] = {k \in Some : Odd(Has(s, k))} /\ g[r] = {k \in Some : Odd(Has(r, k))}
      BY <3>1
    <3>3. \A k : Odd(Has(s, k)) <=> ~ (k \in f[Pick(s)] <=> Odd(Has(r, k)))
      BY <1>2, <2>2
    <3>. HIDE DEF g, Has, Some, r
    <3>4. g[s] = Xor(f[Pick(s)], g[r])
      BY <3>1, <3>2, <3>3 DEF Xor
    <3>. QED  BY <2>2, <3>4 DEF r
  <2>. QED  BY <2>1, <2>2
<1>4. IsXorTable(g, f)
  BY <1>3 DEF IsXorTable
<1>. HIDE DEF g, t
<1>5. IsXorTable(t, f)
  BY <1>4 DEF t
<1>6. t[S] = g[S]
  <2>. DEFINE B == {s \in SUBSET S : t[s] # g[s]}
  <2>1. ASSUME B # {} PROVE FALSE
    <3>1. PICK m \in B : \A s \in B : s \subseteq m => s = m
      <4>1. B \subseteq SUBSET S
        OBVIOUS
      <4>. HIDE DEF B
      <4>. QED  BY <2>1, <4>1, MinimalSubset
    <3>2. t[m] = IF m = {} THEN {} ELSE Xor(f[Pick(m)], t[m \ {Pick(m)}])
      BY <1>5 DEF IsXorTable
    <3>3. g[m] = IF m = {} THEN {} ELSE Xor(f[Pick(m)], g[m \ {Pick(m)}])
      BY <1>3
    <3>4. m # {} => m \ {Pick(m)} \notin B
      BY <3>1, PickInSet
    <3>5. m # {} => t[m \ {Pick(m)}] = g[m \ {Pick(m)}]
      BY <3>4
    <3>. QED  BY <3>1, <3>2, <3>3, <3>5
  <2>. QED  BY <2>1
<1>7. XorOver(f) = t[S]
  BY DEF XorOver, FoldFunction, FoldFunctionOnSet, MapThenFoldSet, t, IsXorTable, Pick
<1>8. g[S] = {k \in Some : Odd(Has(S, k))}
  BY DEF g
<1>. HIDE DEF Some
<1>. QED  BY <1>1, <1>6, <1>7, <1>8

-----------------------------------------------------------------------------
(* The multiples of b by windows.                                          *)
Nibbles == SUBSET (0 .. 3)

IsMultiples(u, b) ==
  u = [v \in SUBSET (0 .. 3) |-> IF v = {} THEN {}
                                 ELSE IF 0 \in v THEN Xor(u[v \ {0}], b)
                                 ELSE Shl(u[Shr(v, 1)], 1)]

(* Words have finitely many bits, at least eight.                          *)
LEMMA WidthIs == Width \in Nat /\ Width >= 8 /\ IsFiniteSet(Bits) /\ Bits \subseteq Nat
<1>1. Width \in Nat /\ Width >= 8 /\ 0 \in Int /\ Width - 1 \in Int
  BY WidthAssumption
<1>2. IsFiniteSet(0 .. Width - 1)
  BY <1>1, FS_Interval
<1>. QED  BY <1>1, <1>2 DEF Bits

(* The bits of a word shifted left.                                        *)
LEMMA ShlHas ==
  ASSUME NEW a \in SUBSET Bits, NEW i \in Nat
  PROVE  \A k \in Int : k \in Shl(a, i) <=> k \in Bits /\ k - i \in a
<1>. SUFFICES ASSUME NEW k \in Int PROVE k \in Shl(a, i) <=> k \in Bits /\ k - i \in a
  OBVIOUS
<1>1. a \subseteq Int
  BY WidthIs
<1>2. k \in Shl(a, i) <=> k \in Bits /\ \E x \in a : k = x + i
  BY DEF Shl
<1>3. \A x \in a : k = x + i <=> x = k - i
  BY <1>1
<1>. QED  BY <1>2, <1>3

(* The bits of a word shifted right.                                       *)
LEMMA ShrHas ==
  ASSUME NEW a \in SUBSET Bits, NEW i \in Nat
  PROVE  /\ Shr(a, i) \in SUBSET Bits
         /\ \A k \in Nat : k \in Shr(a, i) <=> k + i \in a
<1>1. a \subseteq Nat /\ Width \in Nat
  BY WidthIs
<1>2. \A x \in a : x >= i => x - i \in Bits
  BY <1>1 DEF Bits
<1>3. ASSUME NEW k \in Nat PROVE k \in Shr(a, i) <=> k + i \in a
  <2>1. k \in Shr(a, i) <=> \E x \in a : x >= i /\ k = x - i
    BY DEF Shr
  <2>2. \A x \in a : x >= i /\ k = x - i <=> x = k + i
    BY <1>1
  <2>. QED  BY <2>1, <2>2
<1>. QED  BY <1>2, <1>3 DEF Shr

(* A nibble without its lowest bit is a smaller one shifted.               *)
LEMMA NibblesDown ==
  ASSUME NEW v \in Nibbles, 0 \notin v
  PROVE  Shr(v, 1) \in Nibbles /\ Shr(v, 1) = {i - 1 : i \in v}
         /\ v = {x + 1 : x \in Shr(v, 1)}
<1>1. \A i \in v : i \in Nat /\ i >= 1 /\ i <= 3
  BY DEF Nibbles
<1>2. Shr(v, 1) = {i - 1 : i \in v}
  BY <1>1 DEF Shr
<1>3. \A i \in v : i - 1 \in 0 .. 3 /\ (i - 1) + 1 = i
  BY <1>1
<1>4. {i - 1 : i \in v} \in Nibbles
  BY <1>3 DEF Nibbles
<1>5. v = {x + 1 : x \in {i - 1 : i \in v}}
  <2>1. \A i \in v : i \in {x + 1 : x \in {j - 1 : j \in v}}
    BY <1>3
  <2>2. \A x \in {j - 1 : j \in v} : x + 1 \in v
    BY <1>3
  <2>. QED  BY <2>1, <2>2
<1>. QED  BY <1>2, <1>4, <1>5

(* The table that Multiples builds holds b's product with each nibble.     *)
LEMMA MultiplesAre ==
  ASSUME NEW b \in SUBSET Bits
  PROVE  \A v \in Nibbles : Multiples(b)[v] = {k \in Bits : Odd({i \in v : k - i \in b})}
<1>. DEFINE Hits(v, k) == {i \in v : k - i \in b}
            g == [v \in Nibbles |-> {k \in Bits : Odd(Hits(v, k))}]
            t == CHOOSE u : IsMultiples(u, b)
<1>1. \A v \in Nibbles, k \in Bits : IsFiniteSet(Hits(v, k))
  <2>1. IsFiniteSet(0 .. 3)
    <3>1. 0 \in Int /\ 3 \in Int
      OBVIOUS
    <3>. QED  BY <3>1, FS_Interval
  <2>2. \A v \in Nibbles, k \in Bits : Hits(v, k) \subseteq 0 .. 3
    BY DEF Nibbles
  <2>. HIDE DEF Hits
  <2>. QED  BY <2>1, <2>2, FS_Subset
<1>2. \A v \in Nibbles : g[v] = {k \in Bits : Odd(Hits(v, k))}
  OBVIOUS
<1>. HIDE DEF g
<1>3. g[{}] = {}
  <2>1. \A k : Hits({}, k) = {}
    OBVIOUS
  <2>2. \A k : ~ Odd(Hits({}, k))
    BY <2>1, OddEmpty
  <2>3. {} \in Nibbles
    BY DEF Nibbles
  <2>. HIDE DEF Hits
  <2>. QED  BY <1>2, <2>2, <2>3
<1>4. ASSUME NEW v \in Nibbles, 0 \in v PROVE g[v] = Xor(g[v \ {0}], b)
  <2>. DEFINE r == v \ {0}
  <2>1. r \in Nibbles
    BY DEF Nibbles
  <2>2. ASSUME NEW k \in Bits PROVE Odd(Hits(v, k)) <=> ~ (k \in b <=> Odd(Hits(r, k)))
    <3>1. k - 0 = k
      BY WidthIs
    <3>2. Hits(v, k) = IF k \in b THEN Hits(r, k) \cup {0} ELSE Hits(r, k)
      BY <1>4, <3>1
    <3>3. 0 \notin Hits(r, k) /\ IsFiniteSet(Hits(r, k))
      BY <1>1, <2>1
    <3>. HIDE DEF Hits, r
    <3>. QED  BY <3>2, <3>3, OddAdd
  <2>. HIDE DEF Hits, r
  <2>3. g[v] = {k \in Bits : Odd(Hits(v, k))} /\ g[r] = {k \in Bits : Odd(Hits(r, k))}
    BY <1>2, <2>1
  <2>4. g[v] = Xor(g[r], b)
    BY <2>2, <2>3 DEF Xor
  <2>. QED  BY <2>4 DEF r
<1>5. ASSUME NEW v \in Nibbles, 0 \notin v PROVE g[v] = Shl(g[Shr(v, 1)], 1)
  <2>. DEFINE w == Shr(v, 1)
  <2>1. w \in Nibbles /\ w = {i - 1 : i \in v} /\ v = {x + 1 : x \in w}
    BY <1>5, NibblesDown
  <2>2. \A i \in v : i \in Nat /\ i >= 1
    BY <1>5 DEF Nibbles
  <2>. HIDE DEF w
  <2>3. ASSUME NEW k \in Bits PROVE Odd(Hits(v, k)) <=> k - 1 \in Bits /\ Odd(Hits(w, k - 1))
    <3>1. k \in Nat /\ Width \in Nat
      BY WidthIs
    <3>2. CASE k = 0
      <4>1. \A i \in v : k - i \notin b
        BY <2>2, <3>2, WidthIs
      <4>2. Hits(v, k) = {}
        BY <4>1
      <4>3. k - 1 \notin Bits
        BY <3>2 DEF Bits
      <4>. QED  BY <4>2, <4>3, OddEmpty
    <3>3. CASE k # 0
      <4>1. k - 1 \in Bits
        BY <3>1, <3>3 DEF Bits
      <4>2. \A x \in w : x \in Int /\ k - (x + 1) = (k - 1) - x
        <5>1. \A x \in w : x \in Int
          BY <2>1 DEF Nibbles
        <5>. QED  BY <3>1, <5>1
      <4>3. Hits(v, k) = {x + 1 : x \in Hits(w, k - 1)}
        BY <2>1, <4>2
      <4>4. Hits(w, k - 1) \subseteq Int /\ IsFiniteSet(Hits(w, k - 1))
        BY <1>1, <2>1, <4>1, <4>2
      <4>. DEFINE H == Hits(w, k - 1)
      <4>5. Odd({x + 1 : x \in H}) <=> Odd(H)
        <5>. HIDE DEF H
        <5>. QED  BY <4>4, OddShift DEF H
      <4>. QED  BY <4>1, <4>3, <4>5
    <3>. QED  BY <3>2, <3>3
  <2>. HIDE DEF Hits
  <2>4. g[v] = {k \in Bits : Odd(Hits(v, k))} /\ g[w] = {k \in Bits : Odd(Hits(w, k))}
    BY <1>2, <2>1
  <2>5. g[w] \in SUBSET Bits /\ 1 \in Nat
    BY <2>4
  <2>6. \A k \in Int : k \in Shl(g[w], 1) <=> k \in Bits /\ k - 1 \in g[w]
    BY <2>5, ShlHas
  <2>7. \A k \in Shl(g[w], 1) : k \in Bits
    BY DEF Shl
  <2>8. \A k \in Bits : k \in Shl(g[w], 1) <=> k - 1 \in g[w]
    BY <2>6, WidthIs
  <2>9. \A k \in Bits : k \in g[v] <=> k \in Shl(g[w], 1)
    BY <2>3, <2>4, <2>8
  <2>10. g[v] = Shl(g[w], 1)
    BY <2>4, <2>7, <2>9
  <2>. QED  BY <2>10 DEF w
<1>6. IsMultiples(g, b)
  <2>1. \A v \in Nibbles : g[v] = IF v = {} THEN {}
                                  ELSE IF 0 \in v THEN Xor(g[v \ {0}], b)
                                  ELSE Shl(g[Shr(v, 1)], 1)
    BY <1>3, <1>4, <1>5
  <2>2. g = [v \in Nibbles |-> g[v]]
    BY DEF g
  <2>. QED  BY <2>1, <2>2 DEF IsMultiples, Nibbles
<1>. HIDE DEF t
<1>7. IsMultiples(t, b)
  BY <1>6 DEF t
<1>8. \A v \in Nibbles : t[v] = IF v = {} THEN {}
                                ELSE IF 0 \in v THEN Xor(t[v \ {0}], b)
                                ELSE Shl(t[Shr(v, 1)], 1)
  BY <1>7 DEF IsMultiples, Nibbles
<1>. DEFINE S == {n \in 0 .. 4 : \A v \in Nibbles : (\A i \in v : i < n) => t[v] = g[v]}
<1>9. 0 \in S
  <2>1. ASSUME NEW v \in Nibbles, \A i \in v : i < 0 PROVE v = {}
    BY <2>1 DEF Nibbles
  <2>2. {} \in Nibbles /\ t[{}] = {}
    BY <1>8 DEF Nibbles
  <2>3. 0 \in 0 .. 4
    OBVIOUS
  <2>. QED  BY <1>3, <2>1, <2>2, <2>3
<1>10. ASSUME NEW n \in 1 .. 4, n - 1 \in S PROVE n \in S
  <2>1. ASSUME NEW v \in Nibbles, 0 \notin v, \A i \in v : i < n PROVE t[v] = g[v]
    <3>1. CASE v = {}
      BY <1>3, <1>8, <3>1
    <3>2. CASE v # {}
      <4>. DEFINE w == Shr(v, 1)
      <4>1. w \in Nibbles /\ w = {i - 1 : i \in v}
        BY <2>1, NibblesDown
      <4>2. \A i \in w : i < n - 1
        <5>1. \A i \in v : i \in Int
          BY DEF Nibbles
        <5>. QED  BY <2>1, <4>1, <5>1
      <4>3. t[w] = g[w]
        BY <1>10, <4>1, <4>2
      <4>4. t[v] = Shl(t[w], 1)
        BY <1>8, <2>1, <3>2
      <4>5. g[v] = Shl(g[w], 1)
        BY <1>5, <2>1
      <4>. QED  BY <4>3, <4>4, <4>5
    <3>. QED  BY <3>1, <3>2
  <2>2. ASSUME NEW v \in Nibbles, 0 \in v, \A i \in v : i < n PROVE t[v] = g[v]
    <3>. DEFINE r == v \ {0}
    <3>1. r \in Nibbles /\ 0 \notin r /\ \A i \in r : i < n
      BY <2>2 DEF Nibbles
    <3>2. t[r] = g[r]
      BY <2>1, <3>1
    <3>3. t[v] = Xor(t[r], b) /\ g[v] = Xor(g[r], b)
      BY <1>4, <1>8, <2>2
    <3>. QED  BY <3>2, <3>3
  <2>3. n \in 0 .. 4
    OBVIOUS
  <2>. QED  BY <2>1, <2>2, <2>3
<1>11. 4 \in S
  <2>. HIDE DEF S
  <2>1. \A n \in 0 .. 4 : n \in S
    BY <1>9, <1>10, Inductive
  <2>. QED  BY <2>1
<1>12. Multiples(b) = t
  BY DEF Multiples, t, IsMultiples
<1>13. \A v \in Nibbles : \A i \in v : i < 4
  BY DEF Nibbles
<1>. QED  BY <1>2, <1>11, <1>12, <1>13

-----------------------------------------------------------------------------
(* The carry-less product by windows.                                      *)

(* The bits of a whose product with some bit of b is the k-th bit.         *)
Pairs(a, b, k) == {n \in a : k - n \in b}
Starts == {i \in Bits : i % Window = 0}
InWindow(X, i) == X \cap (i .. i + 3)

(* Pairs are counted window by window.                                     *)
LEMMA OddWindows ==
  ASSUME NEW X \in SUBSET Bits
  PROVE  Odd(X) <=> Odd({i \in Starts : Odd(InWindow(X, i))})
<1>. DEFINE G == [i \in Starts |-> InWindow(X, i)]
<1>1. X \subseteq Nat /\ IsFiniteSet(X) /\ IsFiniteSet(Starts) /\ Starts \subseteq Nat
  <2>1. Starts \subseteq Bits
    BY DEF Starts
  <2>. QED  BY <2>1, WidthIs, FS_Subset
<1>2. \A i \in Starts : G[i] = InWindow(X, i) /\ IsFiniteSet(G[i])
  <2>1. \A i \in Starts : InWindow(X, i) \subseteq X
    BY DEF InWindow
  <2>. QED  BY <1>1, <2>1, FS_Subset
<1>3. ASSUME NEW i \in Starts, NEW j \in Starts, i # j PROVE G[i] \cap G[j] = {}
  <2>1. i \in Nat /\ j \in Nat /\ i % 4 = 0 /\ j % 4 = 0
    BY <1>1 DEF Starts, Window
  <2>2. \A n \in Nat : ~ (i <= n /\ n <= i + 3 /\ j <= n /\ n <= j + 3)
    BY <1>3, <2>1
  <2>. QED  BY <1>1, <1>2, <2>1, <2>2 DEF InWindow
<1>4. UNION {G[i] : i \in Starts} = X
  <2>1. ASSUME NEW n \in X PROVE \E i \in Starts : n \in InWindow(X, i)
    <3>. DEFINE i == n - (n % 4)
    <3>1. n \in Nat /\ n \in Bits /\ Width \in Nat
      BY <1>1, WidthIs
    <3>2. i \in Nat /\ i <= n /\ n <= i + 3 /\ i % 4 = 0
      BY <3>1
    <3>. HIDE DEF i
    <3>3. i \in Starts /\ n \in i .. i + 3
      BY <3>1, <3>2 DEF Starts, Bits, Window
    <3>. QED  BY <3>3 DEF InWindow
  <2>. QED  BY <1>2, <2>1 DEF InWindow
<1>. HIDE DEF G
<1>5. Odd(UNION {G[i] : i \in Starts}) <=> Odd({i \in Starts : Odd(G[i])})
  BY <1>1, <1>2, <1>3, OddGroups
<1>6. {i \in Starts : Odd(G[i])} = {i \in Starts : Odd(InWindow(X, i))}
  BY <1>2
<1>. QED  BY <1>4, <1>5, <1>6

(* A window's multiple of b, looked up.                                    *)
Looked(a, b, i) == Multiples(b)[{k \in 0 .. Window - 1 : k + i \in a}]

(* A window's multiple, as far as it fits the word.                        *)
LEMMA LookedIs ==
  ASSUME NEW a \in SUBSET Bits, NEW b \in SUBSET Bits, NEW i \in Starts
  PROVE  /\ Looked(a, b, i) \in SUBSET Bits
         /\ \A k \in Bits : k \in Looked(a, b, i) <=> Odd(InWindow(Pairs(a, b, k + i), i))
<1>. DEFINE v == {k \in 0 .. Window - 1 : k + i \in a}
<1>1. v \in Nibbles /\ i \in Nat /\ a \subseteq Nat
  BY WidthIs DEF Nibbles, Window, Starts
<1>2. Looked(a, b, i) = {k \in Bits : Odd({j \in v : k - j \in b})}
  BY <1>1, MultiplesAre DEF Looked
<1>3. ASSUME NEW k \in Bits
      PROVE  Odd({j \in v : k - j \in b}) <=> Odd(InWindow(Pairs(a, b, k + i), i))
  <2>. DEFINE H == {j \in v : k - j \in b}
  <2>1. k \in Nat
    BY WidthIs
  <2>2. \A j \in v : j \in Nat /\ j <= 3 /\ j + i \in a /\ k - j = (k + i) - (j + i)
    BY <1>1, <2>1 DEF Window
  <2>3. {x + i : x \in H} = InWindow(Pairs(a, b, k + i), i)
    <3>1. ASSUME NEW x \in H PROVE x + i \in InWindow(Pairs(a, b, k + i), i)
      <4>1. x + i \in i .. i + 3
        BY <1>1, <2>2
      <4>. QED  BY <2>2, <4>1 DEF InWindow, Pairs
    <3>2. ASSUME NEW n \in InWindow(Pairs(a, b, k + i), i) PROVE \E x \in H : n = x + i
      <4>1. n \in a /\ n \in Nat /\ i <= n /\ n <= i + 3 /\ (k + i) - n \in b
        BY <1>1 DEF InWindow, Pairs
      <4>. DEFINE x == n - i
      <4>2. x \in 0 .. Window - 1 /\ n = x + i /\ k - x = (k + i) - n
        BY <1>1, <2>1, <4>1 DEF Window
      <4>3. x \in H
        BY <4>1, <4>2
      <4>. QED  BY <4>2, <4>3
    <3>. QED  BY <3>1, <3>2
  <2>4. H \subseteq Int /\ IsFiniteSet(H)
    <3>1. H \subseteq 0 .. 3
      BY <2>2
    <3>2. 0 \in Int /\ 3 \in Int /\ 0 .. 3 \subseteq Int
      OBVIOUS
    <3>3. IsFiniteSet(0 .. 3)
      BY <3>2, FS_Interval
    <3>. HIDE DEF H
    <3>. QED  BY <3>1, <3>2, <3>3, FS_Subset
  <2>5. Odd({x + i : x \in H}) <=> Odd(H)
    <3>1. i \in Int
      BY <1>1
    <3>. HIDE DEF H
    <3>. QED  BY <2>4, <3>1, OddShift
  <2>. QED  BY <2>3, <2>5
<1>. QED  BY <1>2, <1>3

(* The low word of the product.                                            *)
LEMMA LowWord ==
  ASSUME NEW a \in SUBSET Bits, NEW b \in SUBSET Bits
  PROVE  clmul64(a, b).lo = {k \in Bits : Odd(Pairs(a, b, k))}
<1>. DEFINE f == [i \in Starts |-> Shl(Looked(a, b, i), i)]
<1>1. clmul64(a, b).lo = XorOver(f)
  BY DEF clmul64, Starts, Looked
<1>2. DOMAIN f = Starts /\ IsFiniteSet(Starts) /\ Starts \subseteq Nat
  <2>1. Starts \subseteq Bits
    BY DEF Starts
  <2>. QED  BY <2>1, WidthIs, FS_Subset
<1>3. \A k : k \in XorOver(f) <=> Odd({i \in Starts : k \in f[i]})
  <2>. HIDE DEF f
  <2>. QED  BY <1>2, XorOverIs
<1>4. ASSUME NEW k, k \notin Bits PROVE k \notin XorOver(f)
  <2>1. {i \in Starts : k \in f[i]} = {}
    BY <1>4 DEF Shl
  <2>. QED  BY <1>3, <2>1, OddEmpty
<1>5. ASSUME NEW k \in Bits PROVE k \in XorOver(f) <=> Odd(Pairs(a, b, k))
  <2>1. k \in Nat /\ a \subseteq Nat /\ b \subseteq Nat /\ Width \in Nat
    BY WidthIs
  <2>2. ASSUME NEW i \in Starts PROVE k \in f[i] <=> Odd(InWindow(Pairs(a, b, k), i))
    <3>1. i \in Nat /\ Looked(a, b, i) \in SUBSET Bits
      BY <1>2, LookedIs
    <3>2. k \in f[i] <=> k - i \in Looked(a, b, i)
      <4>1. k \in Int /\ f[i] = Shl(Looked(a, b, i), i)
        BY <2>1
      <4>2. k \in Shl(Looked(a, b, i), i) <=> k \in Bits /\ k - i \in Looked(a, b, i)
        BY <3>1, <4>1, ShlHas
      <4>. QED  BY <4>1, <4>2
    <3>3. CASE i <= k
      <4>1. k - i \in Bits /\ (k - i) + i = k
        BY <2>1, <3>1, <3>3 DEF Bits
      <4>. QED  BY <3>2, <4>1, LookedIs
    <3>4. CASE ~ (i <= k)
      <4>1. k - i \notin Bits
        BY <2>1, <3>1, <3>4 DEF Bits
      <4>2. \A n \in a : i <= n => k - n \notin b
        BY <2>1, <3>1, <3>4
      <4>3. InWindow(Pairs(a, b, k), i) = {}
        BY <2>1, <3>1, <4>2 DEF InWindow, Pairs
      <4>. QED  BY <3>1, <3>2, <4>1, <4>3, OddEmpty
    <3>. QED  BY <3>3, <3>4
  <2>3. {i \in Starts : k \in f[i]} = {i \in Starts : Odd(InWindow(Pairs(a, b, k), i))}
    BY <2>2
  <2>4. Pairs(a, b, k) \in SUBSET Bits
    BY DEF Pairs
  <2>. QED  BY <1>3, <2>3, <2>4, OddWindows
<1>. HIDE DEF f
<1>. QED  BY <1>1, <1>4, <1>5

(* What the repair adds: the windows at or below the bit.                  *)
LEMMA RepairIs ==
  ASSUME NEW a \in SUBSET Bits, NEW b \in SUBSET Bits
  PROVE  /\ \A k \in Repair(a, b) : k \in Bits
         /\ \A k \in Bits : k \in Repair(a, b)
              <=> Odd({n \in Pairs(a, b, k + Width) : n - (n % 4) <= k})
<1>. DEFINE D == {i \in 1 .. 3 : Width - i \in b}
            A(i) == {j \in a : j % 4 >= i}
            f == [i \in D |-> Shr(A(i), i)]
<1>1. Repair(a, b) = XorOver(f)
  BY DEF Repair, Window
<1>2. DOMAIN f = D /\ IsFiniteSet(D) /\ D \subseteq Nat
  <2>1. 1 \in Int /\ 3 \in Int /\ D \subseteq 1 .. 3 /\ 1 .. 3 \subseteq Nat
    OBVIOUS
  <2>2. IsFiniteSet(1 .. 3)
    BY <2>1, FS_Interval
  <2>. HIDE DEF D
  <2>. QED  BY <2>1, <2>2, FS_Subset
<1>3. \A k : k \in XorOver(f) <=> Odd({i \in D : k \in f[i]})
  <2>. HIDE DEF f, D
  <2>. QED  BY <1>2, XorOverIs
<1>4. ASSUME NEW i \in D
      PROVE  f[i] \in SUBSET Bits /\ \A k \in Nat : k \in f[i] <=> k + i \in a /\ (k + i) % 4 >= i
  <2>1. A(i) \in SUBSET Bits /\ i \in Nat /\ f[i] = Shr(A(i), i)
    BY <1>2
  <2>2. Shr(A(i), i) \in SUBSET Bits /\ \A k \in Nat : k \in Shr(A(i), i) <=> k + i \in A(i)
    <3>. HIDE DEF A
    <3>. QED  BY <2>1, ShrHas
  <2>. QED  BY <2>1, <2>2
<1>5. ASSUME NEW k, k \notin Bits PROVE k \notin XorOver(f)
  <2>1. {i \in D : k \in f[i]} = {}
    BY <1>4, <1>5
  <2>. HIDE DEF f, D
  <2>. QED  BY <1>3, <2>1, OddEmpty
<1>6. ASSUME NEW k \in Bits
      PROVE  k \in XorOver(f) <=> Odd({n \in Pairs(a, b, k + Width) : n - (n % 4) <= k})
  <2>. DEFINE H == {i \in D : k \in f[i]}
              Q == {n \in Pairs(a, b, k + Width) : n - (n % 4) <= k}
  <2>1. k \in Nat /\ k \in Int /\ a \subseteq Nat /\ b \subseteq Nat /\ Width \in Nat
    BY WidthIs
  <2>2. \A i \in D : i \in Nat /\ i >= 1 /\ i <= 3 /\ Width - i \in b
    OBVIOUS
  <2>3. \A i \in D : k \in f[i] <=> k + i \in a /\ (k + i) % 4 >= i
    BY <1>4, <2>1
  <2>. HIDE DEF f
  <2>4. ASSUME NEW x \in H PROVE x + k \in Q
    <3>1. x \in Nat /\ x >= 1 /\ x <= 3 /\ Width - x \in b /\ k + x \in a /\ (k + x) % 4 >= x
      BY <2>2, <2>3
    <3>2. x + k = k + x /\ (k + Width) - (x + k) = Width - x
      BY <2>1, <3>1
    <3>3. (x + k) - ((x + k) % 4) <= k
      BY <2>1, <3>1
    <3>. QED  BY <3>1, <3>2, <3>3 DEF Pairs
  <2>5. ASSUME NEW n \in Q PROVE \E x \in H : n = x + k
    <3>. DEFINE x == n - k
    <3>1. n \in a /\ n \in Nat /\ (k + Width) - n \in b /\ n - (n % 4) <= k
      BY <2>1 DEF Pairs
    <3>2. \A y \in b : y \in Nat /\ y < Width
      BY WidthIs DEF Bits
    <3>3. x \in Nat /\ x >= 1 /\ x <= 3 /\ n % 4 >= x
      <4>1. (k + Width) - n < Width
        BY <3>1, <3>2
      <4>2. n > k
        BY <2>1, <3>1, <4>1
      <4>. QED  BY <2>1, <3>1, <4>2
    <3>4. k + x = n /\ n = x + k /\ Width - x = (k + Width) - n
      BY <2>1, <3>1
    <3>5. x \in D
      BY <3>1, <3>3, <3>4
    <3>6. k \in f[x]
      BY <2>3, <3>1, <3>3, <3>4, <3>5
    <3>. QED  BY <3>4, <3>5, <3>6
  <2>6. Q = {x + k : x \in H}
    BY <2>4, <2>5
  <2>7. H \subseteq Int /\ IsFiniteSet(H)
    <3>1. H \subseteq D
      OBVIOUS
    <3>2. D \subseteq Int
      OBVIOUS
    <3>. HIDE DEF H, D
    <3>3. IsFiniteSet(H)
      BY <1>2, <3>1, FS_Subset
    <3>. QED  BY <3>1, <3>2, <3>3
  <2>. HIDE DEF H, Q
  <2>8. Odd({x + k : x \in H}) <=> Odd(H)
    BY <2>1, <2>7, OddShift
  <2>. QED  BY <1>3, <2>6, <2>8 DEF H, Q
<1>. HIDE DEF f
<1>. QED  BY <1>1, <1>5, <1>6

(* The high word of the product.                                           *)
LEMMA HighWord ==
  ASSUME NEW a \in SUBSET Bits, NEW b \in SUBSET Bits
  PROVE  clmul64(a, b).hi = {k \in Bits : Odd(Pairs(a, b, k + Width))}
<1>. DEFINE D == Starts \ {0}
            f == [i \in D |-> Shr(Looked(a, b, i), Width - i)]
<1>1. clmul64(a, b).hi = Xor(XorOver(f), Repair(a, b))
  BY DEF clmul64, Starts, Looked
<1>2. DOMAIN f = D /\ IsFiniteSet(D) /\ D \subseteq Starts /\ Starts \subseteq Bits
  <2>1. Starts \subseteq Bits /\ D \subseteq Bits
    BY DEF Starts
  <2>2. IsFiniteSet(D)
    <3>. HIDE DEF D
    <3>. QED  BY <2>1, WidthIs, FS_Subset
  <2>. QED  BY <2>1, <2>2
<1>3. \A k : k \in XorOver(f) <=> Odd({i \in D : k \in f[i]})
  <2>. HIDE DEF f, D
  <2>. QED  BY <1>2, XorOverIs
<1>4. ASSUME NEW i \in D
      PROVE  /\ i \in Nat /\ i >= 1 /\ i < Width /\ Width - i \in Nat
             /\ f[i] \in SUBSET Bits
             /\ \A k \in Nat : k \in f[i] <=> k + (Width - i) \in Looked(a, b, i)
  <2>1. i \in Bits /\ i \in Starts /\ i # 0
    BY <1>2
  <2>2. i \in Nat /\ i >= 1 /\ i < Width /\ Width - i \in Nat
    BY <2>1, WidthIs DEF Bits
  <2>3. Looked(a, b, i) \in SUBSET Bits
    BY <2>1, LookedIs
  <2>. DEFINE w == Width - i
              l == Looked(a, b, i)
  <2>4. w \in Nat /\ l \in SUBSET Bits /\ f[i] = Shr(l, w)
    BY <2>2, <2>3
  <2>. HIDE DEF w, l, f
  <2>5. Shr(l, w) \in SUBSET Bits /\ \A k \in Nat : k \in Shr(l, w) <=> k + w \in l
    BY <2>4, ShrHas
  <2>. QED  BY <2>2, <2>4, <2>5 DEF w, l
<1>5. ASSUME NEW k, k \notin Bits PROVE k \notin XorOver(f)
  <2>1. {i \in D : k \in f[i]} = {}
    BY <1>4, <1>5
  <2>. HIDE DEF f, D
  <2>. QED  BY <1>3, <2>1, OddEmpty
<1>6. ASSUME NEW k \in Bits
      PROVE  k \in Xor(XorOver(f), Repair(a, b)) <=> Odd(Pairs(a, b, k + Width))
  <2>. DEFINE Q == Pairs(a, b, k + Width)
              Below == {n \in Q : n - (n % 4) <= k}
              Above == {n \in Q : ~ (n - (n % 4) <= k)}
  <2>1. k \in Nat /\ k < Width /\ a \subseteq Nat /\ b \subseteq Nat /\ Width \in Nat
    BY WidthIs DEF Bits
  <2>2. Q \in SUBSET Bits /\ Q \subseteq Nat
    BY <2>1 DEF Pairs
  <2>3. ASSUME NEW i \in Starts PROVE InWindow(Above, i) = IF i > k THEN InWindow(Q, i) ELSE {}
    <3>1. i \in Nat /\ i % 4 = 0
      BY <1>2, WidthIs DEF Starts, Window
    <3>2. ASSUME NEW n \in Q, n \in i .. i + 3 PROVE n - (n % 4) = i
      BY <2>2, <3>1, <3>2
    <3>3. \A n \in Q : n \in i .. i + 3 => (n \in Above <=> ~ (i <= k))
      BY <3>2
    <3>4. i > k <=> ~ (i <= k)
      BY <2>1, <3>1
    <3>5. Above \subseteq Q
      OBVIOUS
    <3>. HIDE DEF Above, Q
    <3>6. CASE i > k
      <4>1. InWindow(Above, i) = InWindow(Q, i)
        BY <3>3, <3>4, <3>5, <3>6 DEF InWindow
      <4>. QED  BY <3>6, <4>1
    <3>7. CASE ~ (i > k)
      <4>1. InWindow(Above, i) = {}
        BY <3>3, <3>4, <3>5, <3>7 DEF InWindow
      <4>. QED  BY <3>7, <4>1
    <3>. QED  BY <3>6, <3>7
  <2>4. ASSUME NEW i \in D PROVE k \in f[i] <=> Odd(InWindow(Above, i))
    <3>1. i \in Nat /\ i >= 1 /\ i < Width /\ i \in Starts
      BY <1>2, <1>4
    <3>2. k \in f[i] <=> k + (Width - i) \in Looked(a, b, i)
      BY <1>4, <2>1
    <3>3. CASE i > k
      <4>1. k + (Width - i) \in Bits /\ (k + (Width - i)) + i = k + Width
        BY <2>1, <3>1, <3>3 DEF Bits
      <4>2. k + (Width - i) \in Looked(a, b, i) <=> Odd(InWindow(Q, i))
        BY <3>1, <4>1, LookedIs
      <4>. QED  BY <2>3, <3>1, <3>2, <3>3, <4>2
    <3>4. CASE ~ (i > k)
      <4>1. k + (Width - i) \notin Bits
        BY <2>1, <3>1, <3>4 DEF Bits
      <4>2. Looked(a, b, i) \in SUBSET Bits
        BY <3>1, LookedIs
      <4>3. InWindow(Above, i) = {}
        BY <2>3, <3>1, <3>4
      <4>. HIDE DEF f, Above
      <4>. QED  BY <3>2, <4>1, <4>2, <4>3, OddEmpty
    <3>. QED  BY <3>3, <3>4
  <2>5. 0 \in Starts => ~ Odd(InWindow(Above, 0))
    <3>1. ~ (0 > k)
      BY <2>1
    <3>. HIDE DEF Above
    <3>. QED  BY <2>3, <3>1, OddEmpty
  <2>6. {i \in D : k \in f[i]} = {i \in Starts : Odd(InWindow(Above, i))}
    <3>. HIDE DEF f, Above, Q
    <3>. QED  BY <2>4, <2>5
  <2>7. Above \in SUBSET Bits /\ Below \in SUBSET Bits
    BY <2>2
  <2>8. k \in XorOver(f) <=> Odd(Above)
    <3>. HIDE DEF f, Above, D
    <3>. QED  BY <1>3, <2>6, <2>7, OddWindows
  <2>9. k \in Repair(a, b) <=> Odd(Below)
    BY RepairIs
  <2>10. Odd(Q) <=> ~ (Odd(Below) <=> Odd(Above))
    <3>1. Q = Below \cup Above /\ Below \cap Above = {}
      OBVIOUS
    <3>2. IsFiniteSet(Below) /\ IsFiniteSet(Above)
      <4>. HIDE DEF Below, Above
      <4>. QED  BY <2>7, WidthIs, FS_Subset
    <3>. HIDE DEF Q, Below, Above
    <3>. QED  BY <3>1, <3>2, OddDisjoint
  <2>. HIDE DEF f, Q, Below, Above
  <2>11. k \in Xor(XorOver(f), Repair(a, b)) <=> Odd(Q)
    BY <2>8, <2>9, <2>10 DEF Xor
  <2>. QED  BY <2>11 DEF Q
<1>. HIDE DEF f
<1>7. \A k \in Xor(XorOver(f), Repair(a, b)) : k \in Bits
  BY <1>5, RepairIs DEF Xor
<1>. QED  BY <1>1, <1>6, <1>7

(* A word product is that of the polynomials.                              *)
DoubleBits == 0 .. 2 * Width - 1

(* The topmost bit of two words is never in a product.                     *)
LEMMA NoTopPair ==
  ASSUME NEW a \in SUBSET Bits, NEW b \in SUBSET Bits, NEW k \in Nat, k > 2 * Width - 2
  PROVE  Pairs(a, b, k) = {}
<1>1. \A n \in a : n \in Nat /\ n <= Width - 1
  BY WidthIs DEF Bits
<1>2. \A n \in b : n \in Nat /\ n <= Width - 1
  BY WidthIs DEF Bits
<1>3. ASSUME NEW n \in a, k - n \in b PROVE FALSE
  BY <1>1, <1>2, <1>3, WidthIs
<1>. QED  BY <1>3 DEF Pairs

(* clmul64 is the product of the polynomials.                              *)
LEMMA ProductIs ==
  ASSUME NEW a \in SUBSET Bits, NEW b \in SUBSET Bits
  PROVE  /\ clmul64(a, b) \in [hi : SUBSET Bits, lo : SUBSET Bits]
         /\ Joined(clmul64(a, b)) = PolyProduct(a, b)
         /\ PolyProduct(a, b) = {k \in DoubleBits : Odd(Pairs(a, b, k))}
<1>. DEFINE w == clmul64(a, b)
            P(k) == Odd(Pairs(a, b, k))
<1>1. w.lo = {k \in Bits : P(k)} /\ w.hi = {k \in Bits : P(k + Width)}
  BY LowWord, HighWord
<1>2. w \in [hi : SUBSET Bits, lo : SUBSET Bits]
  <2>1. w = [hi |-> w.hi, lo |-> w.lo]
    BY DEF clmul64
  <2>2. w.hi \in SUBSET Bits /\ w.lo \in SUBSET Bits
    BY <1>1
  <2>. HIDE DEF w
  <2>. QED  BY <2>1, <2>2
<1>3. PolyProduct(a, b) = {k \in 0 .. 2 * Width - 2 : P(k)}
  BY DEF PolyProduct, Odd, Pairs
<1>4. \A k \in Nat : k > 2 * Width - 2 => ~ P(k)
  BY NoTopPair, OddEmpty
<1>. HIDE DEF P, w
<1>5. Width \in Nat /\ Width >= 8
  BY WidthIs
<1>6. \A k \in DoubleBits : k \in Nat /\ (k > 2 * Width - 2 \/ k \in 0 .. 2 * Width - 2)
  BY <1>5 DEF DoubleBits
<1>7. 0 .. 2 * Width - 2 \subseteq DoubleBits
  BY <1>5 DEF DoubleBits
<1>8. PolyProduct(a, b) = {k \in DoubleBits : P(k)}
  BY <1>3, <1>4, <1>6, <1>7
<1>9. Joined(w) = {k \in DoubleBits : P(k)}
  <2>1. ASSUME NEW k \in Joined(w) PROVE k \in DoubleBits /\ P(k)
    <3>1. CASE k \in w.lo
      <4>1. k \in Bits /\ P(k)
        BY <1>1, <3>1
      <4>. QED  BY <1>5, <4>1 DEF Bits, DoubleBits
    <3>2. CASE k \notin w.lo
      <4>1. PICK j \in w.hi : k = j + Width
        BY <3>2 DEF Joined
      <4>2. j \in Bits /\ P(j + Width)
        BY <1>1
      <4>. QED  BY <1>5, <4>1, <4>2 DEF Bits, DoubleBits
    <3>. QED  BY <3>1, <3>2
  <2>2. ASSUME NEW k \in DoubleBits, P(k) PROVE k \in Joined(w)
    <3>1. CASE k < Width
      <4>1. k \in Bits
        BY <1>5, <3>1 DEF Bits, DoubleBits
      <4>. QED  BY <1>1, <2>2, <4>1 DEF Joined
    <3>2. CASE ~ (k < Width)
      <4>. DEFINE j == k - Width
      <4>1. j \in Bits /\ k = j + Width
        BY <1>5, <3>2 DEF Bits, DoubleBits
      <4>. HIDE DEF j
      <4>2. j \in w.hi
        BY <1>1, <2>2, <4>1
      <4>. QED  BY <4>1, <4>2 DEF Joined
    <3>. QED  BY <3>1, <3>2
  <2>. QED  BY <2>1, <2>2
<1>. QED  BY <1>2, <1>8, <1>9 DEF w, P

-----------------------------------------------------------------------------
(* Xor of sets of bits, and products by C.                                 *)
LEMMA XorBits ==
  \A a, b \in SUBSET Bits : Xor(a, b) \in SUBSET Bits
BY DEF Xor

(* C is a word whose highest power is four.                                *)
LEMMA CIs == C \in SUBSET Bits /\ C \subseteq Nat /\ \A c \in C : c <= 4
BY WidthIs DEF C, Bits

TimesC(a) == PolyProduct(a, C)

(* A product by C, bit by bit.                                             *)
LEMMA TimesCIs ==
  ASSUME NEW a \in SUBSET Bits
  PROVE  TimesC(a) = {k \in DoubleBits : Odd(Pairs(a, C, k))}
BY CIs, ProductIs DEF TimesC

(* Products by C are linear.                                               *)
LEMMA TimesCLinear ==
  ASSUME NEW a \in SUBSET Bits, NEW b \in SUBSET Bits
  PROVE  TimesC(Xor(a, b)) = Xor(TimesC(a), TimesC(b))
<1>1. ASSUME NEW k
      PROVE  Odd(Pairs(Xor(a, b), C, k)) <=> ~ (Odd(Pairs(a, C, k)) <=> Odd(Pairs(b, C, k)))
  <2>1. Pairs(Xor(a, b), C, k) = Xor(Pairs(a, C, k), Pairs(b, C, k))
    BY DEF Pairs, Xor
  <2>2. Pairs(a, C, k) \in SUBSET Bits /\ Pairs(b, C, k) \in SUBSET Bits
    BY DEF Pairs
  <2>3. IsFiniteSet(Pairs(a, C, k)) /\ IsFiniteSet(Pairs(b, C, k))
    BY <2>2, WidthIs, FS_Subset
  <2>. QED  BY <2>1, <2>3, OddXor
<1>2. Xor(a, b) \in SUBSET Bits
  BY XorBits
<1>3. /\ TimesC(Xor(a, b)) = {k \in DoubleBits : Odd(Pairs(Xor(a, b), C, k))}
      /\ TimesC(a) = {k \in DoubleBits : Odd(Pairs(a, C, k))}
      /\ TimesC(b) = {k \in DoubleBits : Odd(Pairs(b, C, k))}
  BY <1>2, TimesCIs
<1>. DEFINE P(k) == Odd(Pairs(Xor(a, b), C, k))
            Q(k) == Odd(Pairs(a, C, k))
            R(k) == Odd(Pairs(b, C, k))
            t == TimesC(Xor(a, b))
<1>4. /\ \A k : P(k) <=> ~ (Q(k) <=> R(k))
      /\ t = {k \in DoubleBits : P(k)}
      /\ TimesC(a) = {k \in DoubleBits : Q(k)}
      /\ TimesC(b) = {k \in DoubleBits : R(k)}
  BY <1>1, <1>3
<1>. HIDE DEF P, Q, R, t
<1>5. t = Xor(TimesC(a), TimesC(b))
  BY <1>4 DEF Xor
<1>. QED  BY <1>5 DEF t

(* The product of nothing.                                                 *)
LEMMA TimesCNothing == TimesC({}) = {}
<1>1. \A k : Pairs({}, C, k) = {}
  BY DEF Pairs
<1>2. {} \in SUBSET Bits
  OBVIOUS
<1>. QED  BY <1>1, <1>2, TimesCIs, OddEmpty

(* The product of a power is C shifted.                                    *)
LEMMA TimesCOne ==
  ASSUME NEW s \in Bits
  PROVE  TimesC({s}) = {c + s : c \in C}
<1>1. s \in Nat /\ s < Width /\ Width \in Nat /\ Width >= 8
  BY WidthIs DEF Bits
<1>2. Odd({s})
  <2>1. IsFiniteSet({}) /\ s \notin {}
    BY FS_EmptySet
  <2>2. {} \cup {s} = {s}
    OBVIOUS
  <2>. QED  BY <2>1, <2>2, OddAdd, OddEmpty
<1>3. \A k : Pairs({s}, C, k) = IF k - s \in C THEN {s} ELSE {}
  BY DEF Pairs
<1>4. \A k : Odd(Pairs({s}, C, k)) <=> k - s \in C
  BY <1>2, <1>3, OddEmpty
<1>5. {s} \in SUBSET Bits
  OBVIOUS
<1>6. TimesC({s}) = {k \in DoubleBits : k - s \in C}
  BY <1>4, <1>5, TimesCIs
<1>7. ASSUME NEW c \in C PROVE c + s \in DoubleBits /\ (c + s) - s = c
  BY <1>1, CIs DEF DoubleBits
<1>8. \A k \in DoubleBits : k = (k - s) + s
  BY <1>1 DEF DoubleBits
<1>. QED  BY <1>6, <1>7, <1>8

(* A short factor has a short product.                                     *)
LEMMA TimesCShort ==
  ASSUME NEW a \in SUBSET (0 .. 3)
  PROVE  a \in SUBSET Bits /\ TimesC(a) \in SUBSET (0 .. 7) /\ TimesC(a) \in SUBSET Bits
<1>1. a \in SUBSET Bits /\ 0 .. 7 \subseteq Bits
  BY WidthIs DEF Bits
<1>2. ASSUME NEW k \in TimesC(a) PROVE k \in 0 .. 7
  <2>1. k \in DoubleBits /\ Pairs(a, C, k) # {}
    BY <1>1, TimesCIs, OddEmpty
  <2>2. PICK n \in a : k - n \in C
    BY <2>1 DEF Pairs
  <2>3. n \in 0 .. 3 /\ k \in Nat /\ k - n <= 4
    BY <2>1, <2>2, CIs, WidthIs DEF DoubleBits
  <2>. QED  BY <2>3
<1>. QED  BY <1>1, <1>2

-----------------------------------------------------------------------------
(* The reduction of two words, in three parts.                             *)
LowOf(p) == p \cap Bits
HighOf(p) == {k \in Bits : k + Width \in p}

Reduced(p) == Xor(TimesC(HighOf(TimesC(HighOf(p)))), Xor(LowOf(TimesC(HighOf(p))), LowOf(p)))

(* The two words of a polynomial are linear in it.                         *)
LEMMA PartsLinear ==
  ASSUME NEW p, NEW q
  PROVE  /\ LowOf(Xor(p, q)) = Xor(LowOf(p), LowOf(q))
         /\ HighOf(Xor(p, q)) = Xor(HighOf(p), HighOf(q))
BY DEF LowOf, HighOf, Xor

(* The two words of a polynomial are words.                                *)
LEMMA PartsAreBits ==
  ASSUME NEW p
  PROVE  LowOf(p) \in SUBSET Bits /\ HighOf(p) \in SUBSET Bits
BY DEF LowOf, HighOf

(* So is the reduction.                                                    *)
LEMMA ReducedLinear ==
  ASSUME NEW p, NEW q
  PROVE  Reduced(Xor(p, q)) = Xor(Reduced(p), Reduced(q))
<1>. DEFINE tp == TimesC(HighOf(p))
            tq == TimesC(HighOf(q))
            up == TimesC(HighOf(tp))
            uq == TimesC(HighOf(tq))
<1>1. TimesC(HighOf(Xor(p, q))) = Xor(tp, tq)
  BY PartsLinear, PartsAreBits, TimesCLinear
<1>2. TimesC(HighOf(Xor(tp, tq))) = Xor(up, uq)
  <2>. HIDE DEF tp, tq
  <2>1. HighOf(Xor(tp, tq)) = Xor(HighOf(tp), HighOf(tq))
    BY PartsLinear
  <2>2. HighOf(tp) \in SUBSET Bits /\ HighOf(tq) \in SUBSET Bits
    BY PartsAreBits
  <2>. QED  BY <2>1, <2>2, TimesCLinear
<1>3. Reduced(Xor(p, q)) = Xor(Xor(up, uq), Xor(LowOf(Xor(tp, tq)), LowOf(Xor(p, q))))
  BY <1>1, <1>2 DEF Reduced
<1>4. /\ Reduced(p) = Xor(up, Xor(LowOf(tp), LowOf(p)))
      /\ Reduced(q) = Xor(uq, Xor(LowOf(tq), LowOf(q)))
  BY DEF Reduced
<1>. HIDE DEF tp, tq, up, uq
<1>5. LowOf(Xor(tp, tq)) = Xor(LowOf(tp), LowOf(tq)) /\ LowOf(Xor(p, q)) = Xor(LowOf(p), LowOf(q))
  BY PartsLinear
<1>. DEFINE lp == LowOf(p)
            lq == LowOf(q)
            mp == LowOf(tp)
            mq == LowOf(tq)
<1>6. Xor(Xor(up, uq), Xor(Xor(mp, mq), Xor(lp, lq))) =
        Xor(Xor(up, Xor(mp, lp)), Xor(uq, Xor(mq, lq)))
  <2>. HIDE DEF lp, lq, mp, mq
  <2>. QED  BY DEF Xor
<1>. QED  BY <1>3, <1>4, <1>5, <1>6

(* A word is its own remainder.                                            *)
LEMMA ReducedWord ==
  ASSUME NEW p \in SUBSET Bits
  PROVE  Reduced(p) = p
<1>1. HighOf(p) = {}
  BY WidthIs DEF HighOf, Bits
<1>2. HighOf({}) = {} /\ LowOf({}) = {} /\ LowOf(p) = p
  BY DEF HighOf, LowOf
<1>3. Xor({}, Xor({}, p)) = p
  BY DEF Xor
<1>. QED  BY <1>1, <1>2, <1>3, TimesCNothing DEF Reduced

(* x^Width + C, shifted, leaves nothing.                                   *)
LEMMA ReducedDivisor ==
  ASSUME NEW s \in Bits
  PROVE  Reduced(Xor({s + Width}, {c + s : c \in C})) = {}
<1>. DEFINE D == {c + s : c \in C}
            e == HighOf(D)
            top == {s + Width}
<1>1. s \in Nat /\ s < Width /\ Width \in Nat /\ Width >= 8
  BY WidthIs DEF Bits
<1>2. TimesC({s}) = D
  BY TimesCOne
<1>3. HighOf(top) = {s} /\ LowOf(top) = {}
  <2>1. \A k \in Bits : k + Width = s + Width <=> k = s
    BY <1>1, WidthIs
  <2>2. s + Width \notin Bits
    BY <1>1 DEF Bits
  <2>. QED  BY <2>1, <2>2 DEF HighOf, LowOf
<1>4. e \in SUBSET (0 .. 3)
  <2>1. ASSUME NEW k \in e PROVE k \in 0 .. 3
    <3>1. k \in Bits /\ \E c \in C : k + Width = c + s
      BY DEF HighOf
    <3>2. PICK c \in C : k + Width = c + s
      BY <3>1
    <3>. QED  BY <1>1, <3>1, <3>2, CIs, WidthIs
  <2>. QED  BY <2>1
<1>5. TimesC(e) \in SUBSET Bits
  <2>. HIDE DEF e
  <2>. QED  BY <1>4, TimesCShort
<1>. HIDE DEF D, e, top
<1>6. Reduced(top) = Xor(TimesC(e), Xor(LowOf(D), {}))
  BY <1>2, <1>3 DEF Reduced, e
<1>7. HighOf(TimesC(e)) = {} /\ LowOf(TimesC(e)) = TimesC(e)
  BY <1>5, WidthIs DEF HighOf, LowOf, Bits
<1>8. Reduced(D) = Xor({}, Xor(TimesC(e), LowOf(D)))
  BY <1>7, TimesCNothing DEF Reduced, e
<1>9. Xor(Xor(TimesC(e), Xor(LowOf(D), {})), Xor({}, Xor(TimesC(e), LowOf(D)))) = {}
  BY DEF Xor
<1>10. Reduced(Xor(top, D)) = {}
  BY <1>6, <1>8, <1>9, ReducedLinear
<1>. QED  BY <1>10 DEF top, D

-----------------------------------------------------------------------------
(* The table of the multiples of C.                                        *)
LEMMA SmallPowers ==
  /\ 2 ^ 0 = 1 /\ 2 ^ 1 = 2 /\ 2 ^ 2 = 4 /\ 2 ^ 3 = 8
  /\ 2 ^ 4 = 16 /\ 2 ^ 5 = 32 /\ 2 ^ 6 = 64 /\ 2 ^ 7 = 128
<1>1. 2 ^ 0 = 1 /\ 0 + 1 = 1 /\ 2 ^ (0 + 1) = 2 * 2 ^ 0
  BY PowNext DEF Pow
<1>2. 2 ^ 1 = 2 /\ 1 + 1 = 2 /\ 2 ^ (1 + 1) = 2 * 2 ^ 1
  BY <1>1, PowNext DEF Pow
<1>3. 2 ^ 2 = 4 /\ 2 + 1 = 3 /\ 2 ^ (2 + 1) = 2 * 2 ^ 2
  BY <1>2, PowNext DEF Pow
<1>4. 2 ^ 3 = 8 /\ 3 + 1 = 4 /\ 2 ^ (3 + 1) = 2 * 2 ^ 3
  BY <1>3, PowNext DEF Pow
<1>5. 2 ^ 4 = 16 /\ 4 + 1 = 5 /\ 2 ^ (4 + 1) = 2 * 2 ^ 4
  BY <1>4, PowNext DEF Pow
<1>6. 2 ^ 5 = 32 /\ 5 + 1 = 6 /\ 2 ^ (5 + 1) = 2 * 2 ^ 5
  BY <1>5, PowNext DEF Pow
<1>7. 2 ^ 6 = 64 /\ 6 + 1 = 7 /\ 2 ^ (6 + 1) = 2 * 2 ^ 6
  BY <1>6, PowNext DEF Pow
<1>. QED  BY <1>1, <1>2, <1>3, <1>4, <1>5, <1>6, <1>7

(* The bits of a byte.                                                     *)
LEMMA FromByteIs ==
  ASSUME NEW n \in Nat
  PROVE  /\ FromByte(n) \subseteq {0, 1, 2, 3, 4, 5, 6, 7}
         /\ 0 \in FromByte(n) <=> n % 2 = 1
         /\ 1 \in FromByte(n) <=> (n \div 2) % 2 = 1
         /\ 2 \in FromByte(n) <=> (n \div 4) % 2 = 1
         /\ 3 \in FromByte(n) <=> (n \div 8) % 2 = 1
         /\ 4 \in FromByte(n) <=> (n \div 16) % 2 = 1
         /\ 5 \in FromByte(n) <=> (n \div 32) % 2 = 1
         /\ 6 \in FromByte(n) <=> (n \div 64) % 2 = 1
         /\ 7 \in FromByte(n) <=> (n \div 128) % 2 = 1
<1>1. 0 .. 7 = {0, 1, 2, 3, 4, 5, 6, 7}
  OBVIOUS
<1>2. n \div 1 = n
  OBVIOUS
<1>3. FromByte(n) \subseteq {0, 1, 2, 3, 4, 5, 6, 7}
  BY <1>1 DEF FromByte
<1>4. \A k \in {0, 1, 2, 3, 4, 5, 6, 7} : k \in FromByte(n) <=> (n \div 2 ^ k) % 2 = 1
  BY <1>1 DEF FromByte
<1>5. 0 \in FromByte(n) <=> n % 2 = 1
  BY <1>2, <1>4, SmallPowers
<1>6. 1 \in FromByte(n) <=> (n \div 2) % 2 = 1
  BY <1>4, SmallPowers
<1>7. 2 \in FromByte(n) <=> (n \div 4) % 2 = 1
  BY <1>4, SmallPowers
<1>8. 3 \in FromByte(n) <=> (n \div 8) % 2 = 1
  BY <1>4, SmallPowers
<1>9. 4 \in FromByte(n) <=> (n \div 16) % 2 = 1
  BY <1>4, SmallPowers
<1>10. 5 \in FromByte(n) <=> (n \div 32) % 2 = 1
  BY <1>4, SmallPowers
<1>11. 6 \in FromByte(n) <=> (n \div 64) % 2 = 1
  BY <1>4, SmallPowers
<1>12. 7 \in FromByte(n) <=> (n \div 128) % 2 = 1
  BY <1>4, SmallPowers
<1>. QED  BY <1>3, <1>5, <1>6, <1>7, <1>8, <1>9, <1>10, <1>11, <1>12

(* The bytes of the table and of its indices.                              *)
LEMMA TableBytes ==
  /\ FromByte(0) = {}
  /\ FromByte(1) = {0}
  /\ FromByte(2) = {1}
  /\ FromByte(3) = {0, 1}
  /\ FromByte(4) = {2}
  /\ FromByte(5) = {0, 2}
  /\ FromByte(6) = {1, 2}
  /\ FromByte(7) = {0, 1, 2}
  /\ FromByte(8) = {3}
  /\ FromByte(9) = {0, 3}
  /\ FromByte(10) = {1, 3}
  /\ FromByte(11) = {0, 1, 3}
  /\ FromByte(12) = {2, 3}
  /\ FromByte(13) = {0, 2, 3}
  /\ FromByte(14) = {1, 2, 3}
  /\ FromByte(15) = {0, 1, 2, 3}
  /\ FromByte(27) = {0, 1, 3, 4}
  /\ FromByte(45) = {0, 2, 3, 5}
  /\ FromByte(54) = {1, 2, 4, 5}
  /\ FromByte(65) = {0, 6}
  /\ FromByte(90) = {1, 3, 4, 6}
  /\ FromByte(108) = {2, 3, 5, 6}
  /\ FromByte(119) = {0, 1, 2, 4, 5, 6}
  /\ FromByte(130) = {1, 7}
  /\ FromByte(153) = {0, 3, 4, 7}
  /\ FromByte(175) = {0, 1, 2, 3, 5, 7}
  /\ FromByte(180) = {2, 4, 5, 7}
  /\ FromByte(195) = {0, 1, 6, 7}
  /\ FromByte(216) = {3, 4, 6, 7}
  /\ FromByte(238) = {1, 2, 3, 5, 6, 7}
  /\ FromByte(245) = {0, 2, 4, 5, 6, 7}
<1>1. FromByte(0) = {}
  BY FromByteIs
<1>2. FromByte(1) = {0}
  BY FromByteIs
<1>3. FromByte(2) = {1}
  BY FromByteIs
<1>4. FromByte(3) = {0, 1}
  BY FromByteIs
<1>5. FromByte(4) = {2}
  BY FromByteIs
<1>6. FromByte(5) = {0, 2}
  BY FromByteIs
<1>7. FromByte(6) = {1, 2}
  BY FromByteIs
<1>8. FromByte(7) = {0, 1, 2}
  BY FromByteIs
<1>9. FromByte(8) = {3}
  BY FromByteIs
<1>10. FromByte(9) = {0, 3}
  BY FromByteIs
<1>11. FromByte(10) = {1, 3}
  BY FromByteIs
<1>12. FromByte(11) = {0, 1, 3}
  BY FromByteIs
<1>13. FromByte(12) = {2, 3}
  BY FromByteIs
<1>14. FromByte(13) = {0, 2, 3}
  BY FromByteIs
<1>15. FromByte(14) = {1, 2, 3}
  BY FromByteIs
<1>16. FromByte(15) = {0, 1, 2, 3}
  BY FromByteIs
<1>17. FromByte(27) = {0, 1, 3, 4}
  BY FromByteIs
<1>18. FromByte(45) = {0, 2, 3, 5}
  BY FromByteIs
<1>19. FromByte(54) = {1, 2, 4, 5}
  BY FromByteIs
<1>20. FromByte(65) = {0, 6}
  BY FromByteIs
<1>21. FromByte(90) = {1, 3, 4, 6}
  BY FromByteIs
<1>22. FromByte(108) = {2, 3, 5, 6}
  BY FromByteIs
<1>23. FromByte(119) = {0, 1, 2, 4, 5, 6}
  BY FromByteIs
<1>24. FromByte(130) = {1, 7}
  BY FromByteIs
<1>25. FromByte(153) = {0, 3, 4, 7}
  BY FromByteIs
<1>26. FromByte(175) = {0, 1, 2, 3, 5, 7}
  BY FromByteIs
<1>27. FromByte(180) = {2, 4, 5, 7}
  BY FromByteIs
<1>28. FromByte(195) = {0, 1, 6, 7}
  BY FromByteIs
<1>29. FromByte(216) = {3, 4, 6, 7}
  BY FromByteIs
<1>30. FromByte(238) = {1, 2, 3, 5, 6, 7}
  BY FromByteIs
<1>31. FromByte(245) = {0, 2, 4, 5, 6, 7}
  BY FromByteIs
<1>. QED  BY <1>1, <1>2, <1>3, <1>4, <1>5, <1>6, <1>7, <1>8,
          <1>9, <1>10, <1>11, <1>12, <1>13, <1>14, <1>15, <1>16,
          <1>17, <1>18, <1>19, <1>20, <1>21, <1>22, <1>23, <1>24,
          <1>25, <1>26, <1>27, <1>28, <1>29, <1>30, <1>31

(* The products of all nibbles by C.                                       *)
LEMMA TimesCNibbles ==
  /\ TimesC({}) = {}
  /\ TimesC({0}) = {0, 1, 3, 4}
  /\ TimesC({1}) = {1, 2, 4, 5}
  /\ TimesC({0, 1}) = {0, 2, 3, 5}
  /\ TimesC({2}) = {2, 3, 5, 6}
  /\ TimesC({0, 2}) = {0, 1, 2, 4, 5, 6}
  /\ TimesC({1, 2}) = {1, 3, 4, 6}
  /\ TimesC({0, 1, 2}) = {0, 6}
  /\ TimesC({3}) = {3, 4, 6, 7}
  /\ TimesC({0, 3}) = {0, 1, 6, 7}
  /\ TimesC({1, 3}) = {1, 2, 3, 5, 6, 7}
  /\ TimesC({0, 1, 3}) = {0, 2, 4, 5, 6, 7}
  /\ TimesC({2, 3}) = {2, 4, 5, 7}
  /\ TimesC({0, 2, 3}) = {0, 1, 2, 3, 5, 7}
  /\ TimesC({1, 2, 3}) = {1, 7}
  /\ TimesC({0, 1, 2, 3}) = {0, 3, 4, 7}
<1>1. 0 \in Bits /\ 1 \in Bits /\ 2 \in Bits /\ 3 \in Bits
  BY WidthIs DEF Bits
<1>2. TimesC({0}) = {0, 1, 3, 4}
  <2>1. {c + 0 : c \in C} = {0, 1, 3, 4}
    BY DEF C
  <2>. QED  BY <1>1, <2>1, TimesCOne
<1>3. TimesC({1}) = {1, 2, 4, 5}
  <2>1. {c + 1 : c \in C} = {1, 2, 4, 5}
    BY DEF C
  <2>. QED  BY <1>1, <2>1, TimesCOne
<1>4. TimesC({2}) = {2, 3, 5, 6}
  <2>1. {c + 2 : c \in C} = {2, 3, 5, 6}
    BY DEF C
  <2>. QED  BY <1>1, <2>1, TimesCOne
<1>5. TimesC({3}) = {3, 4, 6, 7}
  <2>1. {c + 3 : c \in C} = {3, 4, 6, 7}
    BY DEF C
  <2>. QED  BY <1>1, <2>1, TimesCOne
<1>6. TimesC({0, 1}) = {0, 2, 3, 5}
  <2>1. {0, 1} = Xor({0}, {1}) /\ {0} \in SUBSET Bits /\ {1} \in SUBSET Bits
    BY <1>1 DEF Xor
  <2>2. Xor({0, 1, 3, 4}, {1, 2, 4, 5}) = {0, 2, 3, 5}
    BY DEF Xor
  <2>3. TimesC(Xor({0}, {1})) = Xor(TimesC({0}), TimesC({1}))
    BY <2>1, TimesCLinear
  <2>. QED  BY <1>2, <1>3, <2>1, <2>2, <2>3
<1>7. TimesC({0, 2}) = {0, 1, 2, 4, 5, 6}
  <2>1. {0, 2} = Xor({0}, {2}) /\ {0} \in SUBSET Bits /\ {2} \in SUBSET Bits
    BY <1>1 DEF Xor
  <2>2. Xor({0, 1, 3, 4}, {2, 3, 5, 6}) = {0, 1, 2, 4, 5, 6}
    BY DEF Xor
  <2>3. TimesC(Xor({0}, {2})) = Xor(TimesC({0}), TimesC({2}))
    BY <2>1, TimesCLinear
  <2>. QED  BY <1>2, <1>4, <2>1, <2>2, <2>3
<1>8. TimesC({1, 2}) = {1, 3, 4, 6}
  <2>1. {1, 2} = Xor({1}, {2}) /\ {1} \in SUBSET Bits /\ {2} \in SUBSET Bits
    BY <1>1 DEF Xor
  <2>2. Xor({1, 2, 4, 5}, {2, 3, 5, 6}) = {1, 3, 4, 6}
    BY DEF Xor
  <2>3. TimesC(Xor({1}, {2})) = Xor(TimesC({1}), TimesC({2}))
    BY <2>1, TimesCLinear
  <2>. QED  BY <1>3, <1>4, <2>1, <2>2, <2>3
<1>9. TimesC({0, 1, 2}) = {0, 6}
  <2>1. {0, 1, 2} = Xor({0, 1}, {2}) /\ {0, 1} \in SUBSET Bits /\ {2} \in SUBSET Bits
    BY <1>1 DEF Xor
  <2>2. Xor({0, 2, 3, 5}, {2, 3, 5, 6}) = {0, 6}
    BY DEF Xor
  <2>3. TimesC(Xor({0, 1}, {2})) = Xor(TimesC({0, 1}), TimesC({2}))
    BY <2>1, TimesCLinear
  <2>. QED  BY <1>6, <1>4, <2>1, <2>2, <2>3
<1>10. TimesC({0, 3}) = {0, 1, 6, 7}
  <2>1. {0, 3} = Xor({0}, {3}) /\ {0} \in SUBSET Bits /\ {3} \in SUBSET Bits
    BY <1>1 DEF Xor
  <2>2. Xor({0, 1, 3, 4}, {3, 4, 6, 7}) = {0, 1, 6, 7}
    BY DEF Xor
  <2>3. TimesC(Xor({0}, {3})) = Xor(TimesC({0}), TimesC({3}))
    BY <2>1, TimesCLinear
  <2>. QED  BY <1>2, <1>5, <2>1, <2>2, <2>3
<1>11. TimesC({1, 3}) = {1, 2, 3, 5, 6, 7}
  <2>1. {1, 3} = Xor({1}, {3}) /\ {1} \in SUBSET Bits /\ {3} \in SUBSET Bits
    BY <1>1 DEF Xor
  <2>2. Xor({1, 2, 4, 5}, {3, 4, 6, 7}) = {1, 2, 3, 5, 6, 7}
    BY DEF Xor
  <2>3. TimesC(Xor({1}, {3})) = Xor(TimesC({1}), TimesC({3}))
    BY <2>1, TimesCLinear
  <2>. QED  BY <1>3, <1>5, <2>1, <2>2, <2>3
<1>12. TimesC({0, 1, 3}) = {0, 2, 4, 5, 6, 7}
  <2>1. {0, 1, 3} = Xor({0, 1}, {3}) /\ {0, 1} \in SUBSET Bits /\ {3} \in SUBSET Bits
    BY <1>1 DEF Xor
  <2>2. Xor({0, 2, 3, 5}, {3, 4, 6, 7}) = {0, 2, 4, 5, 6, 7}
    BY DEF Xor
  <2>3. TimesC(Xor({0, 1}, {3})) = Xor(TimesC({0, 1}), TimesC({3}))
    BY <2>1, TimesCLinear
  <2>. QED  BY <1>6, <1>5, <2>1, <2>2, <2>3
<1>13. TimesC({2, 3}) = {2, 4, 5, 7}
  <2>1. {2, 3} = Xor({2}, {3}) /\ {2} \in SUBSET Bits /\ {3} \in SUBSET Bits
    BY <1>1 DEF Xor
  <2>2. Xor({2, 3, 5, 6}, {3, 4, 6, 7}) = {2, 4, 5, 7}
    BY DEF Xor
  <2>3. TimesC(Xor({2}, {3})) = Xor(TimesC({2}), TimesC({3}))
    BY <2>1, TimesCLinear
  <2>. QED  BY <1>4, <1>5, <2>1, <2>2, <2>3
<1>14. TimesC({0, 2, 3}) = {0, 1, 2, 3, 5, 7}
  <2>1. {0, 2, 3} = Xor({0, 2}, {3}) /\ {0, 2} \in SUBSET Bits /\ {3} \in SUBSET Bits
    BY <1>1 DEF Xor
  <2>2. Xor({0, 1, 2, 4, 5, 6}, {3, 4, 6, 7}) = {0, 1, 2, 3, 5, 7}
    BY DEF Xor
  <2>3. TimesC(Xor({0, 2}, {3})) = Xor(TimesC({0, 2}), TimesC({3}))
    BY <2>1, TimesCLinear
  <2>. QED  BY <1>7, <1>5, <2>1, <2>2, <2>3
<1>15. TimesC({1, 2, 3}) = {1, 7}
  <2>1. {1, 2, 3} = Xor({1, 2}, {3}) /\ {1, 2} \in SUBSET Bits /\ {3} \in SUBSET Bits
    BY <1>1 DEF Xor
  <2>2. Xor({1, 3, 4, 6}, {3, 4, 6, 7}) = {1, 7}
    BY DEF Xor
  <2>3. TimesC(Xor({1, 2}, {3})) = Xor(TimesC({1, 2}), TimesC({3}))
    BY <2>1, TimesCLinear
  <2>. QED  BY <1>8, <1>5, <2>1, <2>2, <2>3
<1>16. TimesC({0, 1, 2, 3}) = {0, 3, 4, 7}
  <2>1. {0, 1, 2, 3} = Xor({0, 1, 2}, {3}) /\ {0, 1, 2} \in SUBSET Bits /\ {3} \in SUBSET Bits
    BY <1>1 DEF Xor
  <2>2. Xor({0, 6}, {3, 4, 6, 7}) = {0, 3, 4, 7}
    BY DEF Xor
  <2>3. TimesC(Xor({0, 1, 2}, {3})) = Xor(TimesC({0, 1, 2}), TimesC({3}))
    BY <2>1, TimesCLinear
  <2>. QED  BY <1>9, <1>5, <2>1, <2>2, <2>3
<1>. QED  BY <1>2, <1>3, <1>4, <1>5, <1>6, <1>7, <1>8, <1>9,
          <1>10, <1>11, <1>12, <1>13, <1>14, <1>15, <1>16,
          TimesCNothing

(* Every multiple of four bits is found in the table.                      *)
LEMMA TableIs ==
  \A n \in 0 .. 15 : FromByte(Q3Table[n + 1]) = TimesC(FromByte(n))
<1>1. FromByte(Q3Table[0 + 1]) = TimesC(FromByte(0))
  <2>1. Q3Table[0 + 1] = 0
    BY DEF Q3Table
  <2>2. FromByte(0) = {}
    BY TableBytes
  <2>3. FromByte(0) = {}
    BY TableBytes
  <2>4. TimesC({}) = {}
    BY TimesCNibbles
  <2>. QED  BY <2>1, <2>2, <2>3, <2>4
<1>2. FromByte(Q3Table[1 + 1]) = TimesC(FromByte(1))
  <2>1. Q3Table[1 + 1] = 27
    BY DEF Q3Table
  <2>2. FromByte(27) = {0, 1, 3, 4}
    BY TableBytes
  <2>3. FromByte(1) = {0}
    BY TableBytes
  <2>4. TimesC({0}) = {0, 1, 3, 4}
    BY TimesCNibbles
  <2>. QED  BY <2>1, <2>2, <2>3, <2>4
<1>3. FromByte(Q3Table[2 + 1]) = TimesC(FromByte(2))
  <2>1. Q3Table[2 + 1] = 54
    BY DEF Q3Table
  <2>2. FromByte(54) = {1, 2, 4, 5}
    BY TableBytes
  <2>3. FromByte(2) = {1}
    BY TableBytes
  <2>4. TimesC({1}) = {1, 2, 4, 5}
    BY TimesCNibbles
  <2>. QED  BY <2>1, <2>2, <2>3, <2>4
<1>4. FromByte(Q3Table[3 + 1]) = TimesC(FromByte(3))
  <2>1. Q3Table[3 + 1] = 45
    BY DEF Q3Table
  <2>2. FromByte(45) = {0, 2, 3, 5}
    BY TableBytes
  <2>3. FromByte(3) = {0, 1}
    BY TableBytes
  <2>4. TimesC({0, 1}) = {0, 2, 3, 5}
    BY TimesCNibbles
  <2>. QED  BY <2>1, <2>2, <2>3, <2>4
<1>5. FromByte(Q3Table[4 + 1]) = TimesC(FromByte(4))
  <2>1. Q3Table[4 + 1] = 108
    BY DEF Q3Table
  <2>2. FromByte(108) = {2, 3, 5, 6}
    BY TableBytes
  <2>3. FromByte(4) = {2}
    BY TableBytes
  <2>4. TimesC({2}) = {2, 3, 5, 6}
    BY TimesCNibbles
  <2>. QED  BY <2>1, <2>2, <2>3, <2>4
<1>6. FromByte(Q3Table[5 + 1]) = TimesC(FromByte(5))
  <2>1. Q3Table[5 + 1] = 119
    BY DEF Q3Table
  <2>2. FromByte(119) = {0, 1, 2, 4, 5, 6}
    BY TableBytes
  <2>3. FromByte(5) = {0, 2}
    BY TableBytes
  <2>4. TimesC({0, 2}) = {0, 1, 2, 4, 5, 6}
    BY TimesCNibbles
  <2>. QED  BY <2>1, <2>2, <2>3, <2>4
<1>7. FromByte(Q3Table[6 + 1]) = TimesC(FromByte(6))
  <2>1. Q3Table[6 + 1] = 90
    BY DEF Q3Table
  <2>2. FromByte(90) = {1, 3, 4, 6}
    BY TableBytes
  <2>3. FromByte(6) = {1, 2}
    BY TableBytes
  <2>4. TimesC({1, 2}) = {1, 3, 4, 6}
    BY TimesCNibbles
  <2>. QED  BY <2>1, <2>2, <2>3, <2>4
<1>8. FromByte(Q3Table[7 + 1]) = TimesC(FromByte(7))
  <2>1. Q3Table[7 + 1] = 65
    BY DEF Q3Table
  <2>2. FromByte(65) = {0, 6}
    BY TableBytes
  <2>3. FromByte(7) = {0, 1, 2}
    BY TableBytes
  <2>4. TimesC({0, 1, 2}) = {0, 6}
    BY TimesCNibbles
  <2>. QED  BY <2>1, <2>2, <2>3, <2>4
<1>9. FromByte(Q3Table[8 + 1]) = TimesC(FromByte(8))
  <2>1. Q3Table[8 + 1] = 216
    BY DEF Q3Table
  <2>2. FromByte(216) = {3, 4, 6, 7}
    BY TableBytes
  <2>3. FromByte(8) = {3}
    BY TableBytes
  <2>4. TimesC({3}) = {3, 4, 6, 7}
    BY TimesCNibbles
  <2>. QED  BY <2>1, <2>2, <2>3, <2>4
<1>10. FromByte(Q3Table[9 + 1]) = TimesC(FromByte(9))
  <2>1. Q3Table[9 + 1] = 195
    BY DEF Q3Table
  <2>2. FromByte(195) = {0, 1, 6, 7}
    BY TableBytes
  <2>3. FromByte(9) = {0, 3}
    BY TableBytes
  <2>4. TimesC({0, 3}) = {0, 1, 6, 7}
    BY TimesCNibbles
  <2>. QED  BY <2>1, <2>2, <2>3, <2>4
<1>11. FromByte(Q3Table[10 + 1]) = TimesC(FromByte(10))
  <2>1. Q3Table[10 + 1] = 238
    BY DEF Q3Table
  <2>2. FromByte(238) = {1, 2, 3, 5, 6, 7}
    BY TableBytes
  <2>3. FromByte(10) = {1, 3}
    BY TableBytes
  <2>4. TimesC({1, 3}) = {1, 2, 3, 5, 6, 7}
    BY TimesCNibbles
  <2>. QED  BY <2>1, <2>2, <2>3, <2>4
<1>12. FromByte(Q3Table[11 + 1]) = TimesC(FromByte(11))
  <2>1. Q3Table[11 + 1] = 245
    BY DEF Q3Table
  <2>2. FromByte(245) = {0, 2, 4, 5, 6, 7}
    BY TableBytes
  <2>3. FromByte(11) = {0, 1, 3}
    BY TableBytes
  <2>4. TimesC({0, 1, 3}) = {0, 2, 4, 5, 6, 7}
    BY TimesCNibbles
  <2>. QED  BY <2>1, <2>2, <2>3, <2>4
<1>13. FromByte(Q3Table[12 + 1]) = TimesC(FromByte(12))
  <2>1. Q3Table[12 + 1] = 180
    BY DEF Q3Table
  <2>2. FromByte(180) = {2, 4, 5, 7}
    BY TableBytes
  <2>3. FromByte(12) = {2, 3}
    BY TableBytes
  <2>4. TimesC({2, 3}) = {2, 4, 5, 7}
    BY TimesCNibbles
  <2>. QED  BY <2>1, <2>2, <2>3, <2>4
<1>14. FromByte(Q3Table[13 + 1]) = TimesC(FromByte(13))
  <2>1. Q3Table[13 + 1] = 175
    BY DEF Q3Table
  <2>2. FromByte(175) = {0, 1, 2, 3, 5, 7}
    BY TableBytes
  <2>3. FromByte(13) = {0, 2, 3}
    BY TableBytes
  <2>4. TimesC({0, 2, 3}) = {0, 1, 2, 3, 5, 7}
    BY TimesCNibbles
  <2>. QED  BY <2>1, <2>2, <2>3, <2>4
<1>15. FromByte(Q3Table[14 + 1]) = TimesC(FromByte(14))
  <2>1. Q3Table[14 + 1] = 130
    BY DEF Q3Table
  <2>2. FromByte(130) = {1, 7}
    BY TableBytes
  <2>3. FromByte(14) = {1, 2, 3}
    BY TableBytes
  <2>4. TimesC({1, 2, 3}) = {1, 7}
    BY TimesCNibbles
  <2>. QED  BY <2>1, <2>2, <2>3, <2>4
<1>16. FromByte(Q3Table[15 + 1]) = TimesC(FromByte(15))
  <2>1. Q3Table[15 + 1] = 153
    BY DEF Q3Table
  <2>2. FromByte(153) = {0, 3, 4, 7}
    BY TableBytes
  <2>3. FromByte(15) = {0, 1, 2, 3}
    BY TableBytes
  <2>4. TimesC({0, 1, 2, 3}) = {0, 3, 4, 7}
    BY TimesCNibbles
  <2>. QED  BY <2>1, <2>2, <2>3, <2>4
<1>17. \A n \in 0 .. 15 :
          \/ n = 0 \/ n = 1 \/ n = 2 \/ n = 3 \/ n = 4 \/ n = 5 \/ n = 6 \/ n = 7
          \/ n = 8 \/ n = 9 \/ n = 10 \/ n = 11 \/ n = 12 \/ n = 13 \/ n = 14 \/ n = 15
  OBVIOUS
<1>. DEFINE Q(n) == FromByte(Q3Table[n + 1]) = TimesC(FromByte(n))
<1>18. Q(0) /\ Q(1) /\ Q(2) /\ Q(3) /\ Q(4) /\ Q(5) /\ Q(6) /\ Q(7)
  BY <1>1, <1>2, <1>3, <1>4, <1>5, <1>6, <1>7, <1>8
<1>19. Q(8) /\ Q(9) /\ Q(10) /\ Q(11) /\ Q(12) /\ Q(13) /\ Q(14) /\ Q(15)
  BY <1>9, <1>10, <1>11, <1>12, <1>13, <1>14, <1>15, <1>16
<1>20. ASSUME NEW n \in 0 .. 15 PROVE Q(n)
  <2>. HIDE DEF Q
  <2>. QED  BY <1>17, <1>18, <1>19
<1>. QED  BY <1>20

(* Every nibble is the index of an entry.                                  *)
LEMMA NibblesFound ==
  ASSUME NEW v \in SUBSET (0 .. 3)
  PROVE  \E n \in 0 .. 15 : FromByte(n) = v
<1>0. 0 .. 3 = {0, 1, 2, 3}
  OBVIOUS
<1>1. ASSUME 0 \notin v, 1 \notin v, 2 \notin v, 3 \notin v
      PROVE  \E n \in 0 .. 15 : FromByte(n) = v
  <2>1. v = {}
    BY <1>0, <1>1
  <2>2. 0 \in 0 .. 15
    OBVIOUS
  <2>. QED  BY <2>1, <2>2, TableBytes
<1>2. ASSUME 0 \in v, 1 \notin v, 2 \notin v, 3 \notin v
      PROVE  \E n \in 0 .. 15 : FromByte(n) = v
  <2>1. v = {0}
    BY <1>0, <1>2
  <2>2. 1 \in 0 .. 15
    OBVIOUS
  <2>. QED  BY <2>1, <2>2, TableBytes
<1>3. ASSUME 0 \notin v, 1 \in v, 2 \notin v, 3 \notin v
      PROVE  \E n \in 0 .. 15 : FromByte(n) = v
  <2>1. v = {1}
    BY <1>0, <1>3
  <2>2. 2 \in 0 .. 15
    OBVIOUS
  <2>. QED  BY <2>1, <2>2, TableBytes
<1>4. ASSUME 0 \in v, 1 \in v, 2 \notin v, 3 \notin v
      PROVE  \E n \in 0 .. 15 : FromByte(n) = v
  <2>1. v = {0, 1}
    BY <1>0, <1>4
  <2>2. 3 \in 0 .. 15
    OBVIOUS
  <2>. QED  BY <2>1, <2>2, TableBytes
<1>5. ASSUME 0 \notin v, 1 \notin v, 2 \in v, 3 \notin v
      PROVE  \E n \in 0 .. 15 : FromByte(n) = v
  <2>1. v = {2}
    BY <1>0, <1>5
  <2>2. 4 \in 0 .. 15
    OBVIOUS
  <2>. QED  BY <2>1, <2>2, TableBytes
<1>6. ASSUME 0 \in v, 1 \notin v, 2 \in v, 3 \notin v
      PROVE  \E n \in 0 .. 15 : FromByte(n) = v
  <2>1. v = {0, 2}
    BY <1>0, <1>6
  <2>2. 5 \in 0 .. 15
    OBVIOUS
  <2>. QED  BY <2>1, <2>2, TableBytes
<1>7. ASSUME 0 \notin v, 1 \in v, 2 \in v, 3 \notin v
      PROVE  \E n \in 0 .. 15 : FromByte(n) = v
  <2>1. v = {1, 2}
    BY <1>0, <1>7
  <2>2. 6 \in 0 .. 15
    OBVIOUS
  <2>. QED  BY <2>1, <2>2, TableBytes
<1>8. ASSUME 0 \in v, 1 \in v, 2 \in v, 3 \notin v
      PROVE  \E n \in 0 .. 15 : FromByte(n) = v
  <2>1. v = {0, 1, 2}
    BY <1>0, <1>8
  <2>2. 7 \in 0 .. 15
    OBVIOUS
  <2>. QED  BY <2>1, <2>2, TableBytes
<1>9. ASSUME 0 \notin v, 1 \notin v, 2 \notin v, 3 \in v
      PROVE  \E n \in 0 .. 15 : FromByte(n) = v
  <2>1. v = {3}
    BY <1>0, <1>9
  <2>2. 8 \in 0 .. 15
    OBVIOUS
  <2>. QED  BY <2>1, <2>2, TableBytes
<1>10. ASSUME 0 \in v, 1 \notin v, 2 \notin v, 3 \in v
      PROVE  \E n \in 0 .. 15 : FromByte(n) = v
  <2>1. v = {0, 3}
    BY <1>0, <1>10
  <2>2. 9 \in 0 .. 15
    OBVIOUS
  <2>. QED  BY <2>1, <2>2, TableBytes
<1>11. ASSUME 0 \notin v, 1 \in v, 2 \notin v, 3 \in v
      PROVE  \E n \in 0 .. 15 : FromByte(n) = v
  <2>1. v = {1, 3}
    BY <1>0, <1>11
  <2>2. 10 \in 0 .. 15
    OBVIOUS
  <2>. QED  BY <2>1, <2>2, TableBytes
<1>12. ASSUME 0 \in v, 1 \in v, 2 \notin v, 3 \in v
      PROVE  \E n \in 0 .. 15 : FromByte(n) = v
  <2>1. v = {0, 1, 3}
    BY <1>0, <1>12
  <2>2. 11 \in 0 .. 15
    OBVIOUS
  <2>. QED  BY <2>1, <2>2, TableBytes
<1>13. ASSUME 0 \notin v, 1 \notin v, 2 \in v, 3 \in v
      PROVE  \E n \in 0 .. 15 : FromByte(n) = v
  <2>1. v = {2, 3}
    BY <1>0, <1>13
  <2>2. 12 \in 0 .. 15
    OBVIOUS
  <2>. QED  BY <2>1, <2>2, TableBytes
<1>14. ASSUME 0 \in v, 1 \notin v, 2 \in v, 3 \in v
      PROVE  \E n \in 0 .. 15 : FromByte(n) = v
  <2>1. v = {0, 2, 3}
    BY <1>0, <1>14
  <2>2. 13 \in 0 .. 15
    OBVIOUS
  <2>. QED  BY <2>1, <2>2, TableBytes
<1>15. ASSUME 0 \notin v, 1 \in v, 2 \in v, 3 \in v
      PROVE  \E n \in 0 .. 15 : FromByte(n) = v
  <2>1. v = {1, 2, 3}
    BY <1>0, <1>15
  <2>2. 14 \in 0 .. 15
    OBVIOUS
  <2>. QED  BY <2>1, <2>2, TableBytes
<1>16. ASSUME 0 \in v, 1 \in v, 2 \in v, 3 \in v
      PROVE  \E n \in 0 .. 15 : FromByte(n) = v
  <2>1. v = {0, 1, 2, 3}
    BY <1>0, <1>16
  <2>2. 15 \in 0 .. 15
    OBVIOUS
  <2>. QED  BY <2>1, <2>2, TableBytes
<1>. QED  BY <1>1, <1>2, <1>3, <1>4, <1>5, <1>6, <1>7, <1>8,
             <1>9, <1>10, <1>11, <1>12, <1>13, <1>14, <1>15, <1>16

-----------------------------------------------------------------------------
(* The remainder, one power after the other.                               *)
DivisorAt(k) == {k} \cup {c + k - Width : c \in C}
Cleared(q, k) == IF k \in q THEN Xor(q, DivisorAt(k)) ELSE q
IsDivision(r, p) ==
  r = [k \in Width .. 2 * Width |-> IF k = 2 * Width THEN p ELSE Cleared(r[k + 1], k)]

(* What clears the k-th power leaves nothing when it is reduced.           *)
LEMMA DivisorIs ==
  ASSUME NEW k \in Width .. 2 * Width - 1
  PROVE  /\ DivisorAt(k) \in SUBSET (0 .. k)
         /\ k \in DivisorAt(k)
         /\ Reduced(DivisorAt(k)) = {}
<1>. DEFINE s == k - Width
            low == {c + s : c \in C}
<1>1. Width \in Nat /\ Width >= 8
  BY WidthIs
<1>2. s \in Bits /\ s \in Nat /\ k = s + Width
  BY <1>1 DEF Bits
<1>3. \A c \in C : c \in Nat /\ c <= 4
  BY CIs
<1>. HIDE DEF s
<1>4. \A c \in C : c + k - Width = c + s
  BY <1>1, <1>2, <1>3
<1>5. {c + k - Width : c \in C} = low
  BY <1>4
<1>6. \A j \in low : j \in Nat /\ j < k
  BY <1>1, <1>2, <1>3
<1>. HIDE DEF low
<1>7. DivisorAt(k) = Xor({s + Width}, low)
  BY <1>2, <1>5, <1>6 DEF DivisorAt, Xor
<1>8. Reduced(DivisorAt(k)) = {}
  BY <1>2, <1>7, ReducedDivisor DEF low
<1>9. DivisorAt(k) = {k} \cup low
  BY <1>5 DEF DivisorAt
<1>10. k \in Nat
  BY <1>1
<1>. QED  BY <1>6, <1>8, <1>9, <1>10

(* The powers can be cleared one after the other.                          *)
LEMMA DivisionExists ==
  ASSUME NEW p \in SUBSET Nat
  PROVE  \E r : IsDivision(r, p)
<1>. DEFINE turns == [i \in 1 .. Width |-> [q \in SUBSET Nat |-> Cleared(q, 2 * Width - i)]]
<1>1. Width \in Nat /\ Width >= 8
  BY WidthIs
<1>2. ASSUME NEW i \in 1 .. Width, NEW q \in SUBSET Nat
      PROVE  Cleared(q, 2 * Width - i) \in SUBSET Nat
  <2>1. 2 * Width - i \in Width .. 2 * Width - 1
    BY <1>1
  <2>2. DivisorAt(2 * Width - i) \in SUBSET Nat
    BY <1>1, <2>1, DivisorIs
  <2>. QED  BY <2>2 DEF Cleared, Xor
<1>3. turns \in Steps(Width, SUBSET Nat)
  BY <1>2 DEF Steps
<1>4. \E f : Iteration(f, Width, SUBSET Nat, p, turns)
  <2>. HIDE DEF turns
  <2>. QED  BY <1>1, <1>3, Iterates
<1>5. PICK f : Iteration(f, Width, SUBSET Nat, p, turns)
  BY <1>4
<1>6. /\ f[0] = p
      /\ f \in [0 .. Width -> SUBSET Nat]
      /\ \A i \in 1 .. Width : f[i] = turns[i][f[i - 1]]
  BY <1>5 DEF Iteration
<1>7. ASSUME NEW i \in 1 .. Width PROVE f[i] = Cleared(f[i - 1], 2 * Width - i)
  <2>1. i - 1 \in 0 .. Width
    BY <1>1
  <2>2. f[i - 1] \in SUBSET Nat
    BY <1>6, <2>1
  <2>3. turns[i][f[i - 1]] = Cleared(f[i - 1], 2 * Width - i)
    BY <2>2
  <2>. QED  BY <1>6, <2>3
<1>. DEFINE r == [k \in Width .. 2 * Width |-> f[2 * Width - k]]
<1>8. ASSUME NEW k \in Width .. 2 * Width
      PROVE  r[k] = IF k = 2 * Width THEN p ELSE Cleared(r[k + 1], k)
  <2>1. CASE k = 2 * Width
    <3>1. 2 * Width - k = 0
      BY <1>1, <2>1
    <3>. QED  BY <1>6, <2>1, <3>1
  <2>2. CASE k # 2 * Width
    <3>1. /\ 2 * Width - k \in 1 .. Width
          /\ (2 * Width - k) - 1 = 2 * Width - (k + 1)
          /\ 2 * Width - (2 * Width - k) = k
          /\ k + 1 \in Width .. 2 * Width
      BY <1>1, <2>2
    <3>2. r[k] = f[2 * Width - k] /\ r[k + 1] = f[2 * Width - (k + 1)]
      BY <3>1
    <3>. HIDE DEF r
    <3>. QED  BY <1>7, <2>2, <3>1, <3>2
  <2>. QED  BY <2>1, <2>2
<1>9. r = [k \in Width .. 2 * Width |-> r[k]]
  OBVIOUS
<1>. HIDE DEF r
<1>10. IsDivision(r, p)
  BY <1>8, <1>9 DEF IsDivision
<1>. QED  BY <1>10

(* The remainder is what the reduction in three parts gives.               *)
LEMMA RemainderIs ==
  ASSUME NEW p \in SUBSET DoubleBits
  PROVE  Remainder(p) = Reduced(p)
<1>1. Width \in Nat /\ Width >= 8
  BY WidthIs
<1>. DEFINE r == CHOOSE r : r = [k \in Width .. 2 * Width |->
                                   IF k = 2 * Width THEN p
                                   ELSE IF k \in r[k + 1]
                                        THEN Xor(r[k + 1], {k} \cup {c + k - Width : c \in C})
                                   ELSE r[k + 1]]
<1>2. Remainder(p) = r[Width]
  BY DEF Remainder
<1>3. r = CHOOSE q : IsDivision(q, p)
  BY DEF IsDivision, Cleared, DivisorAt
<1>4. p \in SUBSET Nat
  BY <1>1 DEF DoubleBits
<1>. HIDE DEF r
<1>5. IsDivision(r, p)
  <2>1. \E q : IsDivision(q, p)
    BY <1>4, DivisionExists
  <2>. QED  BY <1>3, <2>1, Zenon
<1>6. \A k \in Width .. 2 * Width :
         r[k] = IF k = 2 * Width THEN p ELSE Cleared(r[k + 1], k)
  BY <1>5, Zenon DEF IsDivision
<1>. DEFINE S == {i \in 0 .. Width : /\ r[2 * Width - i] \in SUBSET (0 .. 2 * Width - 1 - i)
                                     /\ Reduced(r[2 * Width - i]) = Reduced(p)}
<1>7. 0 \in S
  <2>1. /\ 2 * Width - 0 = 2 * Width
        /\ 2 * Width \in Width .. 2 * Width
        /\ 2 * Width - 1 - 0 = 2 * Width - 1
    BY <1>1
  <2>2. r[2 * Width] = p
    BY <1>6, <2>1
  <2>3. 0 \in 0 .. Width
    BY <1>1
  <2>. QED  BY <2>1, <2>2, <2>3 DEF DoubleBits
<1>8. ASSUME NEW i \in 1 .. Width, i - 1 \in S PROVE i \in S
  <2>. DEFINE k == 2 * Width - i
              q == r[k + 1]
  <2>1. /\ i \in 0 .. Width
        /\ k \in Width .. 2 * Width - 1
        /\ k \in Width .. 2 * Width
        /\ k # 2 * Width
        /\ 2 * Width - (i - 1) = k + 1
        /\ 2 * Width - 1 - (i - 1) = k
        /\ 2 * Width - 1 - i = k - 1
        /\ k \in Nat
    BY <1>1
  <2>2. q \in SUBSET (0 .. k) /\ Reduced(q) = Reduced(p)
    BY <1>8, <2>1
  <2>3. r[k] = Cleared(q, k)
    BY <1>6, <2>1
  <2>4. /\ DivisorAt(k) \in SUBSET (0 .. k)
        /\ k \in DivisorAt(k)
        /\ Reduced(DivisorAt(k)) = {}
    BY <2>1, DivisorIs
  <2>. HIDE DEF q, k
  <2>5. r[k] \in SUBSET (0 .. k) /\ k \notin r[k]
    BY <2>2, <2>3, <2>4 DEF Cleared, Xor
  <2>6. r[k] \in SUBSET (0 .. k - 1)
    <3>1. ASSUME NEW j \in 0 .. k, j # k PROVE j \in 0 .. k - 1
      BY <2>1, <3>1
    <3>. QED  BY <2>5, <3>1
  <2>7. Reduced(r[k]) = Reduced(p)
    <3>1. CASE k \in q
      <4>1. r[k] = Xor(q, DivisorAt(k))
        BY <2>3, <3>1 DEF Cleared
      <4>2. Reduced(r[k]) = Xor(Reduced(p), {})
        <5>1. Reduced(Xor(q, DivisorAt(k))) = Xor(Reduced(q), Reduced(DivisorAt(k)))
          BY ReducedLinear
        <5>. QED  BY <2>2, <2>4, <4>1, <5>1
      <4>3. Xor(Reduced(p), {}) = Reduced(p)
        BY DEF Xor
      <4>. QED  BY <4>2, <4>3
    <3>2. CASE k \notin q
      BY <2>2, <2>3, <3>2 DEF Cleared
    <3>. QED  BY <3>1, <3>2
  <2>8. /\ r[2 * Width - i] \in SUBSET (0 .. 2 * Width - 1 - i)
        /\ Reduced(r[2 * Width - i]) = Reduced(p)
    BY <2>1, <2>6, <2>7 DEF k
  <2>. QED  BY <2>1, <2>8
<1>9. Width \in S
  <2>. HIDE DEF S
  <2>1. \A j \in 0 .. Width : j \in S
    BY <1>1, <1>7, <1>8, Inductive
  <2>. QED  BY <1>1, <2>1
<1>10. 2 * Width - Width = Width /\ 2 * Width - 1 - Width = Width - 1
  BY <1>1
<1>11. r[Width] \in SUBSET Bits /\ Reduced(r[Width]) = Reduced(p)
  BY <1>9, <1>10 DEF Bits
<1>12. Reduced(r[Width]) = r[Width]
  BY <1>11, ReducedWord
<1>. QED  BY <1>2, <1>11, <1>12

-----------------------------------------------------------------------------
(* The two words of a joined one, and the table's way to the same remainder. *)
Words == [hi : SUBSET Bits, lo : SUBSET Bits]

(* Two words are the parts of their join.                                  *)
LEMMA JoinedParts ==
  ASSUME NEW w \in Words
  PROVE  /\ Joined(w) \in SUBSET DoubleBits
         /\ LowOf(Joined(w)) = w.lo
         /\ HighOf(Joined(w)) = w.hi
<1>1. Width \in Nat /\ Width >= 8
  BY WidthIs
<1>2. w.hi \in SUBSET Bits /\ w.lo \in SUBSET Bits
  BY DEF Words
<1>3. ASSUME NEW k \in Bits
      PROVE  k \in DoubleBits /\ k + Width \in DoubleBits /\ k + Width \notin Bits
  BY <1>1 DEF Bits, DoubleBits
<1>4. \A j, k \in Bits : j + Width = k + Width <=> j = k
  BY <1>1 DEF Bits
<1>5. Joined(w) \in SUBSET DoubleBits
  BY <1>2, <1>3 DEF Joined
<1>6. LowOf(Joined(w)) = w.lo
  BY <1>2, <1>3 DEF Joined, LowOf
<1>7. HighOf(Joined(w)) = w.hi
  BY <1>2, <1>3, <1>4 DEF Joined, HighOf
<1>. QED  BY <1>5, <1>6, <1>7

(* Words are joined bit by bit.                                            *)
LEMMA JoinedLinear ==
  ASSUME NEW v \in Words, NEW w \in Words
  PROVE  LET x == [hi |-> Xor(v.hi, w.hi), lo |-> Xor(v.lo, w.lo)]
         IN  x \in Words /\ Joined(x) = Xor(Joined(v), Joined(w))
<1>. DEFINE x == [hi |-> Xor(v.hi, w.hi), lo |-> Xor(v.lo, w.lo)]
            up(a) == {k + Width : k \in a}
<1>1. Width \in Nat /\ Width >= 8
  BY WidthIs
<1>2. /\ v.hi \in SUBSET Bits /\ v.lo \in SUBSET Bits
      /\ w.hi \in SUBSET Bits /\ w.lo \in SUBSET Bits
  BY DEF Words
<1>3. x \in Words
  BY <1>2, XorBits DEF Words
<1>4. \A j, k \in Bits : j + Width = k + Width => j = k
  BY <1>1 DEF Bits
<1>5. \A j \in Bits : j + Width \notin Bits
  BY <1>1 DEF Bits
<1>6. up(Xor(v.hi, w.hi)) = Xor(up(v.hi), up(w.hi))
  BY <1>2, <1>4 DEF Xor
<1>7. up(v.hi) \cap Bits = {} /\ up(w.hi) \cap Bits = {}
  BY <1>2, <1>5
<1>8. /\ Joined(x) = Xor(v.lo, w.lo) \cup up(Xor(v.hi, w.hi))
      /\ Joined(v) = v.lo \cup up(v.hi)
      /\ Joined(w) = w.lo \cup up(w.hi)
  BY DEF Joined
<1>9. Joined(x) = Xor(Joined(v), Joined(w))
  <2>. DEFINE a == up(v.hi)
              b == up(w.hi)
  <2>1. Joined(x) = Xor(v.lo, w.lo) \cup Xor(a, b)
    BY <1>6, <1>8
  <2>2. Joined(v) = v.lo \cup a /\ Joined(w) = w.lo \cup b
    BY <1>8
  <2>3. a \cap Bits = {} /\ b \cap Bits = {}
    BY <1>7
  <2>. HIDE DEF a, b, x
  <2>4. Xor(v.lo, w.lo) \cup Xor(a, b) = Xor(v.lo \cup a, w.lo \cup b)
    BY <1>2, <2>3 DEF Xor
  <2>. QED  BY <2>1, <2>2, <2>4
<1>. QED  BY <1>3, <1>9

(* precompReduction64 is the reduction: the table holds its first part.    *)
LEMMA PrecompIs ==
  ASSUME NEW w \in Words
  PROVE  precompReduction64(w) = Reduced(Joined(w))
<1>. DEFINE Q2 == clmul64(w.hi, C)
            P(k) == k \in 0 .. 15 /\ FromByte(k) = Q2.hi
            n == CHOOSE k \in 0 .. 15 : FromByte(k) = Q2.hi
<1>1. w.hi \in SUBSET Bits /\ w.lo \in SUBSET Bits
  BY DEF Words
<1>2. Q2 \in Words /\ Joined(Q2) = TimesC(w.hi)
  BY <1>1, CIs, ProductIs DEF Words, TimesC
<1>3. HighOf(TimesC(w.hi)) = Q2.hi /\ LowOf(TimesC(w.hi)) = Q2.lo
  BY <1>2, JoinedParts
<1>4. Q2.hi \in SUBSET (0 .. 3)
  <2>1. ASSUME NEW k \in HighOf(TimesC(w.hi)) PROVE k \in 0 .. 3
    <3>1. k \in Nat /\ k + Width \in TimesC(w.hi)
      BY WidthIs DEF HighOf, Bits
    <3>2. k + Width \in DoubleBits /\ Pairs(w.hi, C, k + Width) # {}
      BY <1>1, <3>1, TimesCIs, OddEmpty
    <3>3. PICK j \in w.hi : (k + Width) - j \in C
      BY <3>2 DEF Pairs
    <3>4. j \in Nat /\ j <= Width - 1
      BY <1>1, WidthIs DEF Bits
    <3>5. (k + Width) - j <= 4
      BY <3>3, CIs
    <3>. QED  BY <3>1, <3>4, <3>5, WidthIs
  <2>. QED  BY <1>3, <2>1
<1>5. n \in 0 .. 15 /\ FromByte(n) = Q2.hi
  <2>. HIDE DEF Q2
  <2>1. \E k \in 0 .. 15 : FromByte(k) = Q2.hi
    BY <1>4, NibblesFound
  <2>. QED  BY <2>1
<1>6. precompReduction64(w) = Xor(FromByte(Q3Table[n + 1]), Xor(Q2.lo, w.lo))
  BY DEF precompReduction64
<1>. HIDE DEF n, Q2
<1>7. FromByte(Q3Table[n + 1]) = TimesC(Q2.hi)
  BY <1>5, TableIs
<1>8. HighOf(Joined(w)) = w.hi /\ LowOf(Joined(w)) = w.lo
  BY JoinedParts
<1>9. Reduced(Joined(w)) = Xor(TimesC(Q2.hi), Xor(Q2.lo, w.lo))
  BY <1>3, <1>8 DEF Reduced
<1>. QED  BY <1>6, <1>7, <1>9

(* What verusclhash returns is the remainder of what was accumulated.      *)
LEMMA HashIs ==
  ASSUME acc \in Words
  PROVE  verusclhash = Remainder(Xor(Joined(acc), PolyProduct(Length, KeyLength)))
<1>. DEFINE v == lazyLengthHash
            x == [hi |-> Xor(acc.hi, v.hi), lo |-> Xor(acc.lo, v.lo)]
<1>1. v \in Words /\ Joined(v) = PolyProduct(Length, KeyLength)
  BY LengthsAssumption, ProductIs DEF lazyLengthHash, Words
<1>2. verusclhash = precompReduction64(x)
  BY DEF verusclhash
<1>. HIDE DEF v
<1>3. x \in Words /\ Joined(x) = Xor(Joined(acc), Joined(v))
  BY <1>1, JoinedLinear
<1>. HIDE DEF x
<1>4. precompReduction64(x) = Reduced(Joined(x))
  BY <1>3, PrecompIs
<1>5. Remainder(Joined(x)) = Reduced(Joined(x))
  BY <1>3, JoinedParts, RemainderIs
<1>. QED  BY <1>1, <1>2, <1>3, <1>4, <1>5

-----------------------------------------------------------------------------
(* Division of integers by any positive number.                            *)
LEMMA DivisionHolds ==
  ASSUME NEW x \in Int, NEW d \in Nat, d >= 1
  PROVE  /\ x \div d \in Int
         /\ x % d \in 0 .. d - 1
         /\ x = d * (x \div d) + (x % d)
OBVIOUS

(* Quotient and rest are the only ones.                                    *)
LEMMA DivisionIs ==
  ASSUME NEW x \in Int, NEW d \in Nat, d >= 1, NEW q \in Int, NEW r \in 0 .. d - 1,
         x = d * q + r
  PROVE  x \div d = q /\ x % d = r
<1>1. PICK p \in Int, s \in 0 .. d - 1 : p = x \div d /\ s = x % d /\ x = d * p + s
  BY DivisionHolds
<1>2. ASSUME NEW i \in Int, NEW j \in Int, NEW u \in 0 .. d - 1, NEW v \in 0 .. d - 1,
             d * i + u = d * j + v, i < j
      PROVE  FALSE
  <2>1. PICK e \in Nat : j = i + 1 + e
    <3>1. j - i - 1 \in Nat /\ j = i + 1 + (j - i - 1)
      BY <1>2
    <3>. QED  BY <3>1
  <2>2. d * j = d * i + d + d * e
    BY <2>1
  <2>3. d * e \in Nat
    BY <2>1
  <2>4. d * i \in Int /\ d * j \in Int
    OBVIOUS
  <2>. QED  BY <1>2, <2>2, <2>3, <2>4
<1>3. p = q
  BY <1>1, <1>2
<1>4. d * q \in Int
  OBVIOUS
<1>. QED  BY <1>1, <1>3, <1>4

(* Multiples of the divisor leave the rest alone.                          *)
LEMMA Wrapped ==
  ASSUME NEW x \in Int, NEW k \in Int, NEW d \in Nat, d >= 1
  PROVE  (x + d * k) % d = x % d
<1>1. PICK q \in Int, r \in 0 .. d - 1 : q = x \div d /\ r = x % d /\ x = d * q + r
  BY DivisionHolds
<1>2. x + d * k = d * (q + k) + r /\ x + d * k \in Int /\ q + k \in Int
  <2>1. d * (q + k) = d * q + d * k
    OBVIOUS
  <2>2. d * q \in Int /\ d * k \in Int
    OBVIOUS
  <2>. QED  BY <1>1, <2>1, <2>2
<1>3. (x + d * k) % d = r
  <2>. DEFINE y == x + d * k
              p == q + k
  <2>1. y \in Int /\ p \in Int /\ y = d * p + r
    BY <1>2
  <2>. HIDE DEF y, p
  <2>2. y % d = r
    BY <2>1, DivisionIs
  <2>. QED  BY <2>2 DEF y
<1>. QED  BY <1>1, <1>3

(* What a shift leaves of the low bits does not depend on the high ones.   *)
CutsOff(y, h, F, W) == ((y % W) \div h) % F = (y \div h) % F
HoldsBoth(W, h, F) == \E g \in Nat : g >= 1 /\ W = h * (F * g)

(* Lemma of the shift and the cut.                                         *)
LEMMA CutOff ==
  ASSUME NEW y \in Int, NEW h \in Nat, h >= 1, NEW F \in Nat, F >= 1,
         NEW W \in Nat, HoldsBoth(W, h, F)
  PROVE  CutsOff(y, h, F, W)
<1>. PICK g \in Nat : g >= 1 /\ W = h * (F * g)
  BY DEF HoldsBoth
<1>1. W >= 1
  <2>1. \A i, j \in Nat : i >= 1 /\ j >= 1 => i * j \in Nat /\ i * j >= 1
    OBVIOUS
  <2>. DEFINE k == F * g
  <2>2. k \in Nat /\ k >= 1 /\ W = h * k
    BY <2>1
  <2>. HIDE DEF k
  <2>. QED  BY <2>1, <2>2
<1>2. PICK t \in Int, m \in 0 .. W - 1 : m = y % W /\ y = W * t + m
  BY <1>1, DivisionHolds
<1>3. PICK u \in Int, v \in 0 .. h - 1 : u = m \div h /\ m = h * u + v
  <2>1. m \in Int
    OBVIOUS
  <2>2. m \div h \in Int /\ m % h \in 0 .. h - 1 /\ m = h * (m \div h) + (m % h)
    BY <2>1, DivisionHolds
  <2>. QED  BY <2>2
<1>4. y = h * (u + F * (g * t)) + v
  <2>1. W * t = h * (F * (g * t))
    <3>1. (h * (F * g)) * t = h * (F * (g * t))
      OBVIOUS
    <3>. QED  BY <3>1
  <2>. DEFINE k == F * (g * t)
  <2>2. k \in Int /\ W * t = h * k
    BY <2>1
  <2>. HIDE DEF k
  <2>. DEFINE p == h * u
              q == h * k
              o == W * t
  <2>3. h * (u + k) = p + q
    BY <2>2
  <2>4. p \in Int /\ q \in Int
    BY <2>2
  <2>5. o = q /\ y = o + m /\ m = p + v
    BY <1>2, <1>3, <2>2
  <2>. HIDE DEF p, q, o
  <2>6. y = (p + q) + v
    BY <2>4, <2>5
  <2>. QED  BY <2>3, <2>6 DEF k
<1>5. y \div h = u + F * (g * t)
  <2>. DEFINE q == u + F * (g * t)
  <2>1. q \in Int /\ y = h * q + v
    BY <1>4
  <2>. HIDE DEF q
  <2>2. y \div h = q
    BY <2>1, DivisionIs
  <2>. QED  BY <2>2 DEF q
<1>6. (u + F * (g * t)) % F = u % F
  <2>. DEFINE k == g * t
  <2>1. k \in Int
    OBVIOUS
  <2>. HIDE DEF k
  <2>2. (u + F * k) % F = u % F
    BY <2>1, Wrapped
  <2>. QED  BY <2>2 DEF k
<1>. QED  BY <1>2, <1>3, <1>5, <1>6 DEF CutsOff

(* Numbers that differ by multiples of W have products that do.            *)
SameWrapped(x, y, i, j, r, W) == (((x + W * i) * (y + W * j)) + r) % W = (x * y + r) % W

(* x and y may each be W too large.                                        *)
LEMMA ProductsWrap ==
  ASSUME NEW W \in Nat, W >= 1, NEW r \in Int,
         NEW x \in Int, NEW y \in Int, NEW i \in {0, 1}, NEW j \in {0, 1}
  PROVE  SameWrapped(x, y, i, j, r, W)
<1>. DEFINE k == j * x + i * y + W * (i * j)
            z == x * y + r
<1>1. k \in Int /\ z \in Int
  OBVIOUS
<1>2. ((x + W * i) * (y + W * j)) + r = z + W * k
  <2>1. ASSUME i = 0, j = 0 PROVE <1>2
    BY <2>1
  <2>2. ASSUME i = 0, j = 1 PROVE <1>2
    BY <2>2
  <2>3. ASSUME i = 1, j = 0 PROVE <1>2
    BY <2>3
  <2>4. ASSUME i = 1, j = 1 PROVE <1>2
    BY <2>4
  <2>. QED  BY <2>1, <2>2, <2>3, <2>4
<1>. HIDE DEF k, z
<1>3. (z + W * k) % W = z % W
  BY <1>1, Wrapped
<1>. QED  BY <1>2, <1>3 DEF z, SameWrapped

-----------------------------------------------------------------------------
(* Lanes.                                                                  *)
LEMMA LanePowers ==
  /\ LaneWidth \in Nat /\ LaneWidth >= 2
  /\ Pow(LaneWidth) \in Nat /\ Pow(LaneWidth) >= 1
  /\ Pow(LaneWidth - 1) \in Nat /\ Pow(LaneWidth - 1) >= 1
  /\ Pow(LaneWidth - 2) \in Nat
  /\ Pow(LaneWidth) = 2 * Pow(LaneWidth - 1)
  /\ Pow(2 * LaneWidth) = Pow(LaneWidth) * Pow(LaneWidth)
<1>1. LaneWidth \in Nat /\ LaneWidth - 1 \in Nat /\ LaneWidth - 2 \in Nat
      /\ (LaneWidth - 1) + 1 = LaneWidth /\ 2 * LaneWidth = LaneWidth + LaneWidth
  BY LaneAssumption
<1>2. /\ Pow(LaneWidth) \in Nat /\ Pow(LaneWidth) >= 1
      /\ Pow(LaneWidth - 1) \in Nat /\ Pow(LaneWidth - 1) >= 1
      /\ Pow(LaneWidth - 2) \in Nat
  BY <1>1, PowNext, PowPositive
<1>3. Pow((LaneWidth - 1) + 1) = 2 * Pow(LaneWidth - 1)
  BY <1>1, PowNext
<1>4. Pow(LaneWidth + LaneWidth) = Pow(LaneWidth) * Pow(LaneWidth)
  BY <1>1, PowSum
<1>. QED  BY <1>1, <1>2, <1>3, <1>4, LaneAssumption

(* Powers below the n-th add up to less than it.                           *)
LEMMA PowersBelow ==
  ASSUME NEW n \in Nat, NEW R \in SUBSET (0 .. n - 1)
  PROVE  /\ SumFunctionOnSet([k \in Nat |-> Pow(k)], R) \in Nat
         /\ SumFunctionOnSet([k \in Nat |-> Pow(k)], R) < Pow(n)
<1>. DEFINE f == [k \in Nat |-> Pow(k)]
            Sum(s) == SumFunctionOnSet(f, s)
            S == {i \in 0 .. n : \A s \in SUBSET (0 .. i - 1) : Sum(s) \in Nat /\ Sum(s) < Pow(i)}
<1>1. f \in [Nat -> Nat]
  BY PowNext
<1>2. 0 \in S
  <2>1. \A s \in SUBSET (0 .. 0 - 1) : s = {}
    OBVIOUS
  <2>2. Sum({}) = 0
    BY SumEmpty
  <2>3. 0 \in 0 .. n /\ Pow(0) = 1
    BY PowNext
  <2>4. \A s \in SUBSET (0 .. 0 - 1) : Sum(s) \in Nat /\ Sum(s) < Pow(0)
    <3>. DEFINE B == SUBSET (0 .. 0 - 1)
    <3>1. \A s \in B : s = {}
      BY <2>1
    <3>. HIDE DEF Sum, B
    <3>2. \A s \in B : Sum(s) = 0
      BY <2>2, <3>1
    <3>3. \A s \in B : Sum(s) \in Nat /\ Sum(s) < Pow(0)
      BY <2>3, <3>2
    <3>. QED  BY <3>3 DEF B
  <2>. HIDE DEF Sum
  <2>. QED  BY <2>3, <2>4
<1>3. ASSUME NEW i \in 1 .. n, i - 1 \in S PROVE i \in S
  <2>. DEFINE l == i - 1
  <2>1. l \in Nat /\ i = l + 1 /\ i \in 0 .. n
    OBVIOUS
  <2>2. \A s \in SUBSET (0 .. l - 1) : Sum(s) \in Nat /\ Sum(s) < Pow(l)
    BY <1>3
  <2>3. Pow(i) = 2 * Pow(l) /\ Pow(l) \in Nat /\ Pow(l) >= 1
    BY <2>1, PowNext, PowPositive
  <2>4. ASSUME NEW s \in SUBSET (0 .. i - 1) PROVE Sum(s) \in Nat /\ Sum(s) < Pow(i)
    <3>. DEFINE t == s \ {l}
    <3>1. t \in SUBSET (0 .. l - 1)
      BY <2>1
    <3>2. Sum(t) \in Nat /\ Sum(t) < Pow(l)
      BY <2>2, <3>1
    <3>3. CASE l \in s
      <4>1. s \in SUBSET Nat /\ IsFiniteSet(s)
        <5>1. 0 \in Int /\ i - 1 \in Int
          BY <2>1
        <5>2. IsFiniteSet(0 .. i - 1)
          BY <5>1, FS_Interval
        <5>3. IsFiniteSet(s)
          BY <5>2, FS_Subset
        <5>4. 0 .. i - 1 \subseteq Nat
          OBVIOUS
        <5>. QED  BY <5>3, <5>4
      <4>2. SumFunctionOnSet(f, s) = f[l] + SumFunctionOnSet(f, s \ {l})
        <5>. DEFINE N == Nat
                    u == s
        <5>1. f \in [N -> Nat] /\ u \in SUBSET N /\ IsFiniteSet(u) /\ l \in u
          BY <1>1, <3>3, <4>1
        <5>. HIDE DEF f, l, N, u
        <5>2. SumFunctionOnSet(f, u) = f[l] + SumFunctionOnSet(f, u \ {l})
          BY <5>1, SumRemove
        <5>. QED  BY <5>2 DEF u
      <4>3. f[l] = Pow(l)
        BY <2>1
      <4>4. Sum(s) = Pow(l) + Sum(t)
        BY <4>2, <4>3
      <4>. HIDE DEF Sum, l, t
      <4>. QED  BY <2>3, <3>2, <4>4
    <3>4. CASE l \notin s
      <4>1. t = s
        BY <3>4
      <4>. HIDE DEF Sum, l, t
      <4>. QED  BY <2>3, <3>2, <4>1
    <3>. QED  BY <3>3, <3>4
  <2>. QED  BY <2>1, <2>4
<1>4. n \in S
  <2>. HIDE DEF S
  <2>1. \A k \in 0 .. n : k \in S
    BY <1>2, <1>3, Inductive
  <2>. QED  BY <2>1
<1>5. \A s \in SUBSET (0 .. n - 1) : Sum(s) \in Nat /\ Sum(s) < Pow(n)
  BY <1>4
<1>. QED  BY <1>5

(* A lane is a number below 2^LaneWidth.                                   *)
LEMMA LaneIs ==
  ASSUME NEW w
  PROVE  Lane(w) \in Nat /\ Lane(w) < Pow(LaneWidth)
<1>. DEFINE R == w \cap (0 .. LaneWidth - 1)
            f == [k \in R |-> 2 ^ k]
            g == [k \in Nat |-> Pow(k)]
<1>1. LaneWidth \in Nat
  BY LanePowers
<1>2. 0 .. LaneWidth - 1 \subseteq Nat /\ IsFiniteSet(0 .. LaneWidth - 1)
  <2>1. 0 \in Int /\ LaneWidth - 1 \in Int
    BY <1>1
  <2>2. IsFiniteSet(0 .. LaneWidth - 1)
    BY <2>1, FS_Interval
  <2>. QED  BY <1>1, <2>2
<1>3. IsFiniteSet(R)
  BY <1>2, FS_Subset
<1>4. \A k \in Nat : 2 ^ k = Pow(k) /\ Pow(k) \in Nat
  BY PowNext DEF Pow
<1>5. f \in [R -> Nat] /\ g \in [Nat -> Nat] /\ R \subseteq Nat /\ \A k \in R : f[k] = g[k]
  BY <1>2, <1>4
<1>6. Lane(w) = SumFunctionOnSet(f, R)
  BY DEF Lane, SumFunction
<1>7. SumFunctionOnSet(g, R) \in Nat /\ SumFunctionOnSet(g, R) < Pow(LaneWidth)
  BY <1>1, PowersBelow
<1>8. SumFunctionOnSet(f, R) = SumFunctionOnSet(g, R)
  <2>. HIDE DEF f, g
  <2>. DEFINE N == Nat
  <2>1. f \in [R -> Nat] /\ g \in [N -> Nat] /\ R \subseteq N /\ R \subseteq R
    BY <1>5
  <2>2. \A k \in R : f[k] = g[k]
    BY <1>5
  <2>. HIDE DEF R, N
  <2>. QED  BY <1>3, <2>1, <2>2, SumAgree
<1>. QED  BY <1>6, <1>7, <1>8

(* A lane of mulhrs is the rounded product of the signed lanes.            *)
LEMMA RoundedIs ==
  ASSUME NEW a \in Nat, a < Pow(LaneWidth), NEW b \in Nat, b < Pow(LaneWidth)
  PROVE  mulhrs(a, b) = ((Signed(a) * Signed(b) + 2 ^ (LaneWidth - 2))
                            \div 2 ^ (LaneWidth - 1)) % (2 ^ LaneWidth)
<1>. DEFINE F == Pow(LaneWidth)
            h == Pow(LaneWidth - 1)
            r == Pow(LaneWidth - 2)
            W == Pow(2 * LaneWidth)
            E(x) == IF x < h THEN x ELSE x + W - F
            T(x) == IF x < h THEN x ELSE x - F
<1>1. /\ F \in Nat /\ F >= 1 /\ h \in Nat /\ h >= 1 /\ r \in Nat
      /\ F = 2 * h /\ W = F * F
  BY LanePowers
<1>2. mulhrs(a, b) = ((((E(a) * E(b)) + r) % W) \div h) % F
  BY DEF mulhrs, Pow
<1>3. Signed(a) = T(a) /\ Signed(b) = T(b)
  BY DEF Signed, Pow
<1>4. 2 ^ (LaneWidth - 2) = r /\ 2 ^ (LaneWidth - 1) = h /\ 2 ^ LaneWidth = F
  BY DEF Pow
<1>. HIDE DEF F, h, r, W
<1>5. W \in Nat /\ W >= 1 /\ HoldsBoth(W, h, F)
  <2>1. \A i, j \in Nat : i >= 1 /\ j >= 1 => i * j \in Nat /\ i * j >= 1
    OBVIOUS
  <2>2. W \in Nat /\ W >= 1
    BY <1>1, <2>1
  <2>3. (2 * h) * F = h * (F * 2)
    BY <1>1
  <2>4. HoldsBoth(W, h, F)
    BY <1>1, <2>3 DEF HoldsBoth
  <2>. QED  BY <2>2, <2>4
<1>6. ASSUME NEW x \in Nat
      PROVE  T(x) \in Int /\ \E i \in {0, 1} : E(x) = T(x) + W * i
  <2>1. CASE x < h
    <3>1. T(x) = x /\ E(x) = x + W * 0 /\ 0 \in {0, 1}
      BY <1>1, <1>5, <2>1
    <3>. QED  BY <3>1
  <2>2. CASE ~ (x < h)
    <3>1. T(x) = x - F /\ E(x) = (x - F) + W * 1 /\ 1 \in {0, 1}
      BY <1>1, <1>5, <2>2
    <3>. QED  BY <1>1, <3>1
  <2>. QED  BY <2>1, <2>2
<1>. HIDE DEF E, T
<1>7. PICK i \in {0, 1} : E(a) = T(a) + W * i
  BY <1>6
<1>8. PICK j \in {0, 1} : E(b) = T(b) + W * j
  BY <1>6
<1>. DEFINE y == T(a) * T(b) + r
<1>9. ((E(a) * E(b)) + r) % W = y % W
  <2>1. T(a) \in Int /\ T(b) \in Int /\ r \in Int
    BY <1>1, <1>6
  <2>2. SameWrapped(T(a), T(b), i, j, r, W)
    BY <1>5, <2>1, ProductsWrap
  <2>. QED  BY <1>7, <1>8, <2>2 DEF SameWrapped
<1>10. y \in Int
  BY <1>1, <1>6
<1>. HIDE DEF y
<1>11. ((y % W) \div h) % F = (y \div h) % F
  <2>1. CutsOff(y, h, F, W)
    BY <1>1, <1>5, <1>10, CutOff
  <2>. QED  BY <2>1 DEF CutsOff
<1>12. mulhrs(a, b) = (y \div h) % F
  BY <1>2, <1>9, <1>11
<1>. QED  BY <1>3, <1>4, <1>12 DEF y

-----------------------------------------------------------------------------
(* ArithmeticIsExact, for words and lanes of every width: with any         *)
(* accumulator the loop can leave, clmul64 gives the carry-less product,   *)
(* precompReduction64 the remainder and mulhrs the rounded signed product. *)
THEOREM ArithmeticHolds == ArithmeticSpec => []ArithmeticIsExact
<1>1. ArithmeticInit => acc \in Words
  BY DEF ArithmeticInit, Words
<1>2. acc \in Words /\ [Finish]_acc => (acc \in Words)'
  BY DEF Finish, Words
<1>3. acc \in Words => ArithmeticIsExact
  <2>. SUFFICES ASSUME acc \in Words PROVE ArithmeticIsExact
    OBVIOUS
  <2>1. Joined(clmul64(acc.hi, acc.lo)) = PolyProduct(acc.hi, acc.lo)
    BY ProductIs DEF Words
  <2>2. verusclhash = Remainder(Xor(Joined(acc), PolyProduct(Length, KeyLength)))
    BY HashIs
  <2>3. mulhrs(Lane(acc.hi), Lane(acc.lo)) =
          ((Signed(Lane(acc.hi)) * Signed(Lane(acc.lo)) + 2 ^ (LaneWidth - 2))
              \div 2 ^ (LaneWidth - 1)) % (2 ^ LaneWidth)
    BY LaneIs, RoundedIs
  <2>. QED  BY <2>1, <2>2, <2>3 DEF ArithmeticIsExact
<1>. QED  BY <1>1, <1>2, <1>3, PTL DEF ArithmeticSpec
=============================================================================
