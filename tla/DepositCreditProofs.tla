------------------------ MODULE DepositCreditProofs ------------------------
(***************************************************************************)
(* Theorems about DepositCredit, for every set of blocks, bodies, headers, *)
(* windows, owners and settings.  What is proved of credits and bindings   *)
(* does not depend on which claims the client accepts; that credited       *)
(* blocks stay rests on SpvLightClientProofs.                              *)
(***************************************************************************)
EXTENDS DepositCredit, SumTheorems, SequenceTheorems

-----------------------------------------------------------------------------
(* Roots of bodies.                                                        *)

(* f is a sequence of n.                                                   *)
IsSeq(f, n) == n \in Nat /\ f = [i \in 1 .. n |-> f[i]]

LEMMA LenIs ==
  ASSUME NEW f, NEW n, IsSeq(f, n)
  PROVE  Len(f) = n /\ DOMAIN f = 1 .. n
<1>. DEFINE S == {f[i] : i \in 1 .. n}
<1>1. n \in Nat /\ f \in [1 .. n -> S] /\ DOMAIN f = 1 .. n
  BY DEF IsSeq
<1>. HIDE DEF S
<1>2. f \in Seq(S)
  BY <1>1, SeqDef
<1>3. Len(f) \in Nat /\ DOMAIN f = 1 .. Len(f)
  BY <1>2, LenProperties
<1>. QED  BY <1>1, <1>3

(* Hashes and leaves tell what was hashed, and the leaf of what is not     *)
(* made of hashes is not a hash above the leaves.                          *)
LEMMA Injective ==
  /\ \A c, d, s : ~IsJoined(c) => Leaf(c) # Hash(d, s)
  /\ \A c, d : Leaf(c) = Leaf(d) => c = d
  /\ \A c, d, s, t : Hash(c, s) = Hash(d, t) => c = d /\ s = t
<1>1. ASSUME NEW c, NEW d, NEW s, ~IsJoined(c) PROVE Leaf(c) # Hash(d, s)
  <2>1. Leaf(c).sha256 = c /\ Hash(d, s).sha256 = Joined(d, s)
    BY DEF Leaf, Hash
  <2>2. IsJoined(Joined(d, s))
    BY DEF IsJoined, Joined
  <2>. QED  BY <1>1, <2>1, <2>2
<1>2. ASSUME NEW c, NEW d, Leaf(c) = Leaf(d) PROVE c = d
  <2>1. Leaf(c).sha256 = c /\ Leaf(d).sha256 = d
    BY DEF Leaf
  <2>. QED  BY <1>2, <2>1
<1>3. ASSUME NEW c, NEW d, NEW s, NEW t, Hash(c, s) = Hash(d, t)
      PROVE  c = d /\ s = t
  <2>1. Hash(c, s).sha256 = Joined(c, s) /\ Hash(d, t).sha256 = Joined(d, t)
    BY DEF Hash
  <2>2. /\ Joined(c, s).hashes = c /\ Joined(d, t).hashes = d
        /\ Joined(c, s).seed = s /\ Joined(d, t).seed = t
    BY DEF Joined
  <2>. QED  BY <1>3, <2>1, <2>2
<1>. QED  BY <1>1, <1>2, <1>3

(* The levels of a body.                                                   *)
LevelAfter(cur, k, seed) ==
  IF k > 1 /\ Len(cur) = 1 THEN cur ELSE NextLevel(cur, seed)

IsLevels(t, n, leaves, seed) ==
  /\ t = [k \in 0 .. n |-> t[k]]
  /\ t[0] = leaves
  /\ \A k \in 1 .. n : t[k] = LevelAfter(t[k - 1], k, seed)

LEMMA LevelsExist ==
  ASSUME NEW n \in Nat, NEW leaves, NEW seed
  PROVE  \E t : IsLevels(t, n, leaves, seed)
<1>. DEFINE S == {k \in Nat : \E t : IsLevels(t, k, leaves, seed)}
<1>1. 0 \in S
  <2>1. IsLevels([k \in 0 .. 0 |-> leaves], 0, leaves, seed)
    BY DEF IsLevels
  <2>. QED  BY <2>1
<1>2. ASSUME NEW m \in 1 .. n, m - 1 \in S PROVE m \in S
  <2>1. PICK t : IsLevels(t, m - 1, leaves, seed)
    BY <1>2
  <2>. DEFINE next == LevelAfter(t[m - 1], m, seed)
              u    == [k \in 0 .. m |-> IF k < m THEN t[k] ELSE next]
  <2>2. u = [k \in 0 .. m |-> u[k]] /\ u[0] = leaves /\ u[m] = next
    BY <2>1 DEF IsLevels
  <2>3. \A k \in 0 .. m - 1 : u[k] = t[k]
    OBVIOUS
  <2>4. \A k \in 1 .. m - 1 : t[k] = LevelAfter(t[k - 1], k, seed)
    BY <2>1 DEF IsLevels
  <2>. HIDE DEF u
  <2>5. ASSUME NEW k \in 1 .. m PROVE u[k] = LevelAfter(u[k - 1], k, seed)
    <3>1. k - 1 \in 0 .. m - 1 /\ (k = m \/ (k \in 1 .. m - 1 /\ k \in 0 .. m - 1))
      OBVIOUS
    <3>2. u[k - 1] = t[k - 1]
      BY <2>3, <3>1
    <3>. QED  BY <2>2, <2>3, <2>4, <3>1, <3>2
  <2>6. IsLevels(u, m, leaves, seed)
    BY <2>2, <2>5 DEF IsLevels
  <2>7. m \in Nat
    OBVIOUS
  <2>. QED  BY <2>6, <2>7
<1>. HIDE DEF S
<1>3. \A k \in 0 .. n : k \in S
  BY <1>1, <1>2, Inductive
<1>. QED  BY <1>3 DEF S

Levels(leaves, seed) ==
  CHOOSE level : level =
    [k \in 0 .. Len(leaves) |->
       IF k = 0 THEN leaves
       ELSE LET cur == level[k - 1]
            IN  IF k > 1 /\ Len(cur) = 1 THEN cur ELSE NextLevel(cur, seed)]

LEMMA RootOfLevels ==
  \A leaves, seed : merkleRootNew(leaves, seed) = Levels(leaves, seed)[Len(leaves)][1]
BY DEF merkleRootNew, Levels

LEMMA LevelsAre ==
  ASSUME NEW leaves, NEW seed, Len(leaves) \in Nat
  PROVE  IsLevels(Levels(leaves, seed), Len(leaves), leaves, seed)
<1>. DEFINE n == Len(leaves)
            Table(level) ==
              [k \in 0 .. n |->
                 IF k = 0 THEN leaves
                 ELSE LET cur == level[k - 1]
                      IN  IF k > 1 /\ Len(cur) = 1 THEN cur
                          ELSE NextLevel(cur, seed)]
            t == Levels(leaves, seed)
<1>1. PICK u : IsLevels(u, n, leaves, seed)
  BY LevelsExist
<1>2. u = Table(u)
  <2>1. DOMAIN u = 0 .. n /\ u[0] = leaves /\ u = [k \in 0 .. n |-> u[k]]
    BY <1>1 DEF IsLevels
  <2>2. \A k \in 0 .. n : k # 0 =>
           u[k] = LET cur == u[k - 1]
                  IN  IF k > 1 /\ Len(cur) = 1 THEN cur ELSE NextLevel(cur, seed)
    <3>1. \A k \in 0 .. n : k # 0 => k \in 1 .. n
      OBVIOUS
    <3>2. \A k \in 1 .. n : u[k] = LevelAfter(u[k - 1], k, seed)
      BY <1>1 DEF IsLevels
    <3>. HIDE DEF n
    <3>. QED  BY <3>1, <3>2 DEF LevelAfter
  <2>. HIDE DEF n
  <2>. QED  BY <2>1, <2>2
<1>3. t = Table(t)
  <2>1. \E level : level = Table(level)
    BY <1>2
  <2>2. t = CHOOSE level : level = Table(level)
    BY DEF Levels
  <2>. HIDE DEF Table, t
  <2>. QED  BY <2>1, <2>2
<1>. HIDE DEF t
<1>4. t = [k \in 0 .. n |-> t[k]] /\ t[0] = leaves
  BY <1>3
<1>5. \A k \in 1 .. n : t[k] = LevelAfter(t[k - 1], k, seed)
  BY <1>3 DEF LevelAfter
<1>. QED  BY <1>4, <1>5 DEF IsLevels, t

(* The height of the header's tree, and its rows.                          *)
Height(n) == CHOOSE k \in 1 .. n : 2 ^ k >= n /\ (k = 1 \/ 2 ^ (k - 1) < n)

LEMMA HeightIs ==
  ASSUME NEW n \in Nat, n >= 1
  PROVE  Height(n) \in 1 .. n /\ Pow(Height(n)) >= n
<1>. DEFINE S == {k \in Nat : k >= 1 /\ Pow(k) >= n}
<1>1. n \in S
  <2>. DEFINE T == {k \in Nat : Pow(k) >= k}
  <2>1. 0 \in T
    BY PowNext
  <2>2. ASSUME NEW k \in 1 .. n, k - 1 \in T PROVE k \in T
    <3>. DEFINE l == k - 1
    <3>1. l \in Nat /\ l + 1 = k /\ k \in Nat
      OBVIOUS
    <3>. HIDE DEF l
    <3>2. /\ Pow(k) = 2 * Pow(l) /\ Pow(l) >= 1 /\ Pow(l) \in Nat
      BY <3>1, PowNext, PowPositive
    <3>3. Pow(l) >= l
      BY <2>2 DEF l
    <3>. QED  BY <3>1, <3>2, <3>3
  <2>. HIDE DEF T
  <2>3. \A k \in 0 .. n : k \in T
    BY <2>1, <2>2, Inductive
  <2>. QED  BY <2>3 DEF T
<1>2. PICK m \in S : \A k \in Nat : k < m => k \notin S
  <2>. HIDE DEF S
  <2>1. S \subseteq Nat
    BY DEF S
  <2>. QED  BY <1>1, <2>1, LeastOf
<1>3. m \in 1 .. n
  BY <1>1, <1>2
<1>4. m = 1 \/ Pow(m - 1) < n
  <2>1. m # 1 => m - 1 \in Nat /\ m - 1 < m /\ m - 1 >= 1
    BY <1>3
  <2>2. ASSUME m # 1 PROVE Pow(m - 1) < n
    <3>1. Pow(m - 1) \in Nat
      BY <2>1, <2>2, PowNext
    <3>2. ~ (Pow(m - 1) >= n)
      BY <1>2, <2>1, <2>2
    <3>. QED  BY <3>1, <3>2
  <2>. QED  BY <2>2
<1>. DEFINE Fits(k) == 2 ^ k >= n /\ (k = 1 \/ 2 ^ (k - 1) < n)
<1>5. Fits(m)
  BY <1>2, <1>4 DEF Pow
<1>. DEFINE h == Height(n)
<1>6. h = CHOOSE k \in 1 .. n : Fits(k)
  BY DEF Height
<1>. HIDE DEF h, Fits
<1>7. h \in 1 .. n /\ Fits(h)
  BY <1>3, <1>5, <1>6
<1>8. 2 ^ h >= n
  BY <1>7 DEF Fits
<1>. QED  BY <1>7, <1>8 DEF h, Pow

RowSet(n, k) == { i \in 1 .. n : (i - 1) * 2 ^ k < n }

RowAfter(prev, k, n, height, seed) ==
  [i \in RowSet(n, k) |->
     Hash([j \in 1 .. (IF 2 * i \in DOMAIN prev THEN 2 ELSE 1) |->
             prev[2 * i - 2 + j]],
          IF k = height THEN <<seed>> ELSE <<>>)]

IsRows(r, m, n, height, leaves, seed) ==
  /\ r = [k \in 0 .. m |-> r[k]]
  /\ r[0] = leaves
  /\ \A k \in 1 .. m : r[k] = RowAfter(r[k - 1], k, n, height, seed)

LEMMA RowsExist ==
  ASSUME NEW n, NEW height \in Nat, NEW leaves, NEW seed
  PROVE  \E r : IsRows(r, height, n, height, leaves, seed)
<1>. DEFINE S == {m \in Nat : \E r : IsRows(r, m, n, height, leaves, seed)}
<1>1. 0 \in S
  <2>1. IsRows([k \in 0 .. 0 |-> leaves], 0, n, height, leaves, seed)
    BY DEF IsRows
  <2>. QED  BY <2>1
<1>2. ASSUME NEW m \in 1 .. height, m - 1 \in S PROVE m \in S
  <2>1. PICK r : IsRows(r, m - 1, n, height, leaves, seed)
    BY <1>2
  <2>. DEFINE next == RowAfter(r[m - 1], m, n, height, seed)
              u    == [k \in 0 .. m |-> IF k < m THEN r[k] ELSE next]
  <2>2. u = [k \in 0 .. m |-> u[k]] /\ u[0] = leaves /\ u[m] = next
    BY <2>1 DEF IsRows
  <2>3. \A k \in 0 .. m - 1 : u[k] = r[k]
    OBVIOUS
  <2>4. \A k \in 1 .. m - 1 : r[k] = RowAfter(r[k - 1], k, n, height, seed)
    BY <2>1 DEF IsRows
  <2>. HIDE DEF u
  <2>5. ASSUME NEW k \in 1 .. m
        PROVE  u[k] = RowAfter(u[k - 1], k, n, height, seed)
    <3>1. k - 1 \in 0 .. m - 1 /\ (k = m \/ (k \in 1 .. m - 1 /\ k \in 0 .. m - 1))
      OBVIOUS
    <3>2. u[k - 1] = r[k - 1]
      BY <2>3, <3>1
    <3>. QED  BY <2>2, <2>3, <2>4, <3>1, <3>2
  <2>6. IsRows(u, m, n, height, leaves, seed)
    BY <2>2, <2>5 DEF IsRows
  <2>7. m \in Nat
    OBVIOUS
  <2>. QED  BY <2>6, <2>7
<1>. HIDE DEF S
<1>3. \A k \in 0 .. height : k \in S
  BY <1>1, <1>2, Inductive
<1>. QED  BY <1>3 DEF S

Rows(leaves, seed) ==
  CHOOSE row : row =
    [k \in 0 .. Height(Len(leaves)) |->
       IF k = 0 THEN leaves
       ELSE [i \in { i \in 1 .. Len(leaves) : (i - 1) * 2 ^ k < Len(leaves) } |->
               Hash([j \in 1 .. (IF 2 * i \in DOMAIN row[k - 1] THEN 2 ELSE 1) |->
                       row[k - 1][2 * i - 2 + j]],
                    IF k = Height(Len(leaves)) THEN <<seed>> ELSE <<>>)]]

LEMMA RootOfRows ==
  \A body : HeaderRoot(body) =
              Rows(Leaves(body), body.seed)[Height(Len(Leaves(body)))][1]
BY DEF HeaderRoot, Rows, Height

LEMMA RowsAre ==
  ASSUME NEW leaves, NEW seed, NEW n \in Nat, n >= 1, Len(leaves) = n
  PROVE  IsRows(Rows(leaves, seed), Height(n), n, Height(n), leaves, seed)
<1>. DEFINE h == Height(n)
            Table(row) ==
              [k \in 0 .. h |->
                 IF k = 0 THEN leaves ELSE RowAfter(row[k - 1], k, n, h, seed)]
            r == Rows(leaves, seed)
<1>1. h \in Nat
  BY HeightIs
<1>2. r = CHOOSE row : row = Table(row)
  BY DEF Rows, RowAfter, RowSet
<1>. HIDE DEF h, r
<1>3. PICK u : IsRows(u, h, n, h, leaves, seed)
  BY <1>1, RowsExist
<1>4. u = Table(u)
  <2>1. DOMAIN u = 0 .. h /\ u[0] = leaves /\ u = [k \in 0 .. h |-> u[k]]
    BY <1>3 DEF IsRows
  <2>2. \A k \in 0 .. h : k # 0 => k \in 1 .. h
    BY <1>1
  <2>3. \A k \in 1 .. h : u[k] = RowAfter(u[k - 1], k, n, h, seed)
    BY <1>3 DEF IsRows
  <2>4. \A k \in 0 .. h : k # 0 => u[k] = RowAfter(u[k - 1], k, n, h, seed)
    BY <2>2, <2>3
  <2>. QED  BY <2>1, <2>4
<1>5. r = Table(r)
  <2>1. \E row : row = Table(row)
    BY <1>4
  <2>. HIDE DEF Table
  <2>. QED  BY <1>2, <2>1
<1>6. r = [k \in 0 .. h |-> r[k]] /\ r[0] = leaves
  BY <1>1, <1>5
<1>7. ASSUME NEW k \in 1 .. h PROVE r[k] = RowAfter(r[k - 1], k, n, h, seed)
  <2>1. k \in 0 .. h /\ k # 0
    BY <1>1
  <2>2. r[k] = Table(r)[k]
    BY <1>5
  <2>. QED  BY <2>1, <2>2
<1>8. IsRows(r, h, n, h, leaves, seed)
  BY <1>6, <1>7 DEF IsRows
<1>. QED  BY <1>8 DEF r, h

(* Which hashes a row has: one for each that has leaves below it, so that  *)
(* each has its first child and each child its parent.                     *)
LEMMA RowPlaces ==
  ASSUME NEW n \in Nat, n >= 1, NEW k \in Nat
  PROVE  /\ RowSet(n, 0) = 1 .. n
         /\ RowSet(n, k) \subseteq 1 .. n
         /\ 1 \in RowSet(n, k)
         /\ Pow(k) >= n => RowSet(n, k) = {1}
         /\ \A i \in RowSet(n, k + 1) : 2 * i - 1 \in RowSet(n, k)
         /\ \A x \in RowSet(n, k) : (x + 1) \div 2 \in RowSet(n, k + 1)
<1>. DEFINE p == Pow(k)
            q == Pow(k + 1)
<1>1. p \in Nat /\ p >= 1 /\ q = 2 * p /\ Pow(0) = 1
  BY PowNext, PowPositive
<1>2. /\ RowSet(n, k) = {i \in 1 .. n : (i - 1) * p < n}
      /\ RowSet(n, k + 1) = {i \in 1 .. n : (i - 1) * q < n}
      /\ RowSet(n, 0) = {i \in 1 .. n : (i - 1) * Pow(0) < n}
  BY DEF RowSet, Pow
<1>. HIDE DEF p, q
<1>3. \A a, b, c \in Nat : a <= b => a * c <= b * c
  OBVIOUS
<1>4. RowSet(n, 0) = 1 .. n
  <2>1. RowSet(n, 0) = {i \in 1 .. n : (i - 1) * 1 < n}
    BY <1>1, <1>2
  <2>2. \A i \in 1 .. n : (i - 1) * 1 < n
    OBVIOUS
  <2>. QED  BY <2>1, <2>2
<1>5. 1 \in RowSet(n, k)
  <2>1. (1 - 1) * p = 0
    BY <1>1
  <2>. QED  BY <1>2, <2>1
<1>6. ASSUME p >= n, NEW i \in RowSet(n, k) PROVE i = 1
  <2>1. i \in 1 .. n /\ (i - 1) * p < n
    BY <1>2
  <2>2. CASE i >= 2
    <3>. DEFINE a == i - 1
    <3>1. a \in Nat /\ 1 <= a
      BY <2>1, <2>2
    <3>2. 1 * p <= a * p
      BY <1>1, <1>3, <3>1
    <3>3. a * p \in Nat /\ a * p < n
      BY <1>1, <2>1, <3>1
    <3>. HIDE DEF a
    <3>. QED  BY <1>1, <1>6, <3>2, <3>3
  <2>. QED  BY <2>1, <2>2
<1>7. ASSUME NEW i \in RowSet(n, k + 1) PROVE 2 * i - 1 \in RowSet(n, k)
  <2>1. i \in 1 .. n /\ (i - 1) * q < n
    BY <1>2
  <2>. DEFINE a == i - 1
              b == 2 * a
  <2>2. a \in Nat /\ b \in Nat /\ (2 * i - 1) - 1 = b /\ 2 * i - 1 = b + 1
    BY <2>1
  <2>3. a * (2 * p) = b * p
    BY <1>1, <2>2
  <2>4. b * p < n /\ b * p \in Nat
    BY <1>1, <2>1, <2>2, <2>3
  <2>5. b * 1 <= b * p
    <3>1. \A c, d \in Nat : d >= 1 => c * 1 <= c * d
      OBVIOUS
    <3>. HIDE DEF b
    <3>. QED  BY <1>1, <2>2, <3>1
  <2>. HIDE DEF a, b
  <2>6. b + 1 \in 1 .. n
    BY <2>2, <2>4, <2>5
  <2>. QED  BY <1>2, <2>2, <2>4, <2>6
<1>8. ASSUME NEW x \in RowSet(n, k) PROVE (x + 1) \div 2 \in RowSet(n, k + 1)
  <2>. DEFINE i == (x + 1) \div 2
              a == i - 1
              b == 2 * a
              c == x - 1
  <2>1. x \in 1 .. n /\ c * p < n
    BY <1>2
  <2>2. i \in 1 .. n /\ a \in Nat /\ b \in Nat /\ c \in Nat /\ b <= c
    BY <2>1
  <2>. HIDE DEF c
  <2>3. a * (2 * p) = b * p
    BY <1>1, <2>2
  <2>. HIDE DEF b
  <2>4. b * p <= c * p /\ b * p \in Nat /\ c * p \in Nat
    BY <1>1, <1>3, <2>2
  <2>5. a * q < n
    BY <1>1, <2>1, <2>3, <2>4
  <2>. QED  BY <1>2, <2>2, <2>5
<1>9. p >= n => RowSet(n, k) = {1}
  BY <1>5, <1>6
<1>10. RowSet(n, k) \subseteq 1 .. n
  BY <1>2
<1>. QED  BY <1>4, <1>5, <1>7, <1>8, <1>9, <1>10 DEF p

(* The two numbers whose pair is the i-th.                                 *)
LEMMA Halves ==
  \A x \in Nat : x = 2 * ((x + 1) \div 2) - 1 \/ x = 2 * ((x + 1) \div 2)
OBVIOUS

(* Where the hashes of a level are those of a row, what they were made of  *)
(* is the same.                                                            *)
PairsAt(cur, size, prev, D) ==
  /\ D \subseteq Nat \ {0} /\ prev = [x \in D |-> prev[x]]
  /\ \A i \in 1 .. size : 2 * i - 1 \in D
  /\ \A x \in D : (x + 1) \div 2 \in 1 .. size
  /\ \A i \in 1 .. size :
       Pair(cur, i) = [j \in 1 .. (IF 2 * i \in D THEN 2 ELSE 1) |->
                         prev[2 * i - 2 + j]]

LEMMA SameBelow ==
  ASSUME NEW cur, NEW m \in Nat, IsSeq(cur, m), NEW prev, NEW D,
         PairsAt(cur, (m + 1) \div 2, prev, D)
  PROVE  cur = prev
<1>. DEFINE size == (m + 1) \div 2
<1>. USE DEF PairsAt
<1>1. Len(cur) = m
  BY LenIs
<1>2. ASSUME NEW i \in 1 .. size
      PROVE  /\ cur[2 * i - 1] = prev[2 * i - 1]
             /\ 2 * i <= m <=> 2 * i \in D
             /\ 2 * i <= m => cur[2 * i] = prev[2 * i]
  <2>. DEFINE P == [j \in 1 .. (IF 2 * i \in D THEN 2 ELSE 1) |-> prev[2 * i - 2 + j]]
  <2>1. Pair(cur, i) = P
    OBVIOUS
  <2>2. i \in Nat /\ i >= 1 /\ 2 * i - 2 + 1 = 2 * i - 1 /\ 2 * i - 2 + 2 = 2 * i
    OBVIOUS
  <2>3. P[1] = prev[2 * i - 1]
    <3>1. 1 \in 1 .. (IF 2 * i \in D THEN 2 ELSE 1)
      OBVIOUS
    <3>. QED  BY <2>2, <3>1
  <2>4. 2 * i \in D => P[2] = prev[2 * i]
    BY <2>2
  <2>5. /\ 2 * i \in D => DOMAIN P = 1 .. 2
        /\ 2 * i \notin D => DOMAIN P = 1 .. 1
    OBVIOUS
  <2>6. ASSUME 2 * i <= m
        PROVE  Pair(cur, i)[1] = cur[2 * i - 1] /\ Pair(cur, i)[2] = cur[2 * i]
               /\ DOMAIN Pair(cur, i) = 1 .. 2
    BY <1>1, <2>6 DEF Pair
  <2>7. ASSUME ~ (2 * i <= m)
        PROVE  Pair(cur, i)[1] = cur[2 * i - 1] /\ DOMAIN Pair(cur, i) = 1 .. 1
    BY <1>1, <2>7 DEF Pair
  <2>8. 2 \in 1 .. 2 /\ 2 \notin 1 .. 1
    OBVIOUS
  <2>. HIDE DEF P
  <2>9. 1 .. 2 # 1 .. 1
    BY <2>8
  <2>10. CASE 2 * i <= m
    BY <2>1, <2>3, <2>4, <2>5, <2>6, <2>9, <2>10
  <2>11. CASE ~ (2 * i <= m)
    BY <2>1, <2>3, <2>5, <2>7, <2>9, <2>11
  <2>. QED  BY <2>10, <2>11
<1>3. ASSUME NEW x \in 1 .. m PROVE x \in D /\ cur[x] = prev[x]
  <2>. DEFINE i == (x + 1) \div 2
  <2>1. i \in 1 .. size /\ (x = 2 * i - 1 \/ (x = 2 * i /\ 2 * i <= m))
    <3>1. x \in Nat /\ x >= 1 /\ x <= m
      OBVIOUS
    <3>2. i \in Int /\ (x = 2 * i - 1 \/ x = 2 * i)
      BY <3>1, Halves
    <3>. HIDE DEF i
    <3>3. m = 2 * size \/ m = 2 * size - 1
      BY Halves
    <3>. HIDE DEF size
    <3>4. size \in Int
      BY DEF size
    <3>. QED  BY <3>1, <3>2, <3>3, <3>4
  <2>. HIDE DEF i
  <2>2. CASE x = 2 * i - 1
    BY <1>2, <2>1, <2>2
  <2>3. CASE x = 2 * i /\ 2 * i <= m
    BY <1>2, <2>1, <2>3
  <2>. QED  BY <2>1, <2>2, <2>3
<1>4. ASSUME NEW x \in D PROVE x \in 1 .. m
  <2>. DEFINE i == (x + 1) \div 2
  <2>1. i \in 1 .. size /\ x \in Nat
    OBVIOUS
  <2>2. x = 2 * i - 1 \/ x = 2 * i
    BY <2>1, Halves
  <2>3. x = 2 * i - 1 => x \in 1 .. m
    BY <2>1
  <2>4. x = 2 * i => x \in 1 .. m
    <3>1. 2 * i \in D => 2 * i <= m
      BY <1>2, <2>1
    <3>. QED  BY <2>1, <3>1
  <2>. QED  BY <2>2, <2>3, <2>4
<1>5. D = 1 .. m
  BY <1>3, <1>4
<1>. QED  BY <1>3, <1>5 DEF IsSeq

LEMMA NextLevelIs ==
  ASSUME NEW cur, NEW m \in Nat, IsSeq(cur, m), NEW seed
  PROVE  /\ LevelSize(cur) = (m + 1) \div 2
         /\ IsSeq(NextLevel(cur, seed), (m + 1) \div 2)
         /\ \A i \in 1 .. (m + 1) \div 2 :
              NextLevel(cur, seed)[i] =
                Hash(Pair(cur, i), IF (m + 1) \div 2 = 1 THEN <<seed>> ELSE <<>>)
<1>1. Len(cur) = m
  BY LenIs
<1>2. LevelSize(cur) = (m + 1) \div 2 /\ (m + 1) \div 2 \in Nat
  BY <1>1 DEF LevelSize
<1>. DEFINE size == (m + 1) \div 2
<1>3. LevelSize(cur) = size /\ size \in Nat
  BY <1>2
<1>. HIDE DEF size
<1>4. NextLevel(cur, seed) =
        [i \in 1 .. size |-> Hash(Pair(cur, i), IF size = 1 THEN <<seed>> ELSE <<>>)]
  BY <1>3 DEF NextLevel
<1>5. /\ IsSeq(NextLevel(cur, seed), size)
      /\ \A i \in 1 .. size :
           NextLevel(cur, seed)[i] =
             Hash(Pair(cur, i), IF size = 1 THEN <<seed>> ELSE <<>>)
  BY <1>3, <1>4 DEF IsSeq
<1>. QED  BY <1>2, <1>5 DEF size

(* Levels shrink until there is one hash left.                             *)
LEMMA LevelLengths ==
  ASSUME NEW n \in Nat, n >= 1, NEW leaves, NEW seed, IsSeq(leaves, n),
         NEW t, IsLevels(t, n, leaves, seed)
  PROVE  /\ \A k \in 0 .. n : \E m \in Nat : m >= 1 /\ IsSeq(t[k], m)
         /\ IsSeq(t[n], 1)
<1>. DEFINE Small(k, m) == m >= 1 /\ (m = 1 \/ m <= n - k)
            S == {k \in Nat : \E m \in Nat : Small(k, m) /\ IsSeq(t[k], m)}
<1>1. 0 \in S
  <2>1. t[0] = leaves /\ Small(0, n)
    BY DEF IsLevels
  <2>. HIDE DEF Small
  <2>. QED  BY <2>1
<1>2. ASSUME NEW k \in 1 .. n, k - 1 \in S PROVE k \in S
  <2>1. PICK m \in Nat : Small(k - 1, m) /\ IsSeq(t[k - 1], m)
    BY <1>2
  <2>2. t[k] = LevelAfter(t[k - 1], k, seed)
    BY DEF IsLevels
  <2>3. Len(t[k - 1]) = m
    BY <2>1, LenIs
  <2>. DEFINE cur == t[k - 1]
  <2>4. CASE k > 1 /\ m = 1
    <3>1. t[k] = cur
      BY <2>2, <2>3, <2>4 DEF LevelAfter
    <3>2. Small(k, m)
      BY <2>4
    <3>. HIDE DEF Small
    <3>. QED  BY <2>1, <3>1, <3>2
  <2>5. CASE ~ (k > 1 /\ m = 1)
    <3>1. t[k] = NextLevel(cur, seed)
      BY <2>2, <2>3, <2>5 DEF LevelAfter
    <3>. DEFINE size == (m + 1) \div 2
    <3>2. IsSeq(NextLevel(cur, seed), size)
      BY <2>1, NextLevelIs
    <3>3. size \in Nat /\ Small(k, size)
      BY <2>1
    <3>. HIDE DEF Small, size
    <3>. QED  BY <3>1, <3>2, <3>3
  <2>. QED  BY <2>4, <2>5
<1>3. \A k \in 0 .. n : k \in S
  <2>. HIDE DEF S
  <2>. QED  BY <1>1, <1>2, Inductive
<1>4. \A k \in 0 .. n : \E m \in Nat : m >= 1 /\ IsSeq(t[k], m)
  BY <1>3
<1>5. IsSeq(t[n], 1)
  <2>1. PICK m \in Nat : Small(n, m) /\ IsSeq(t[n], m)
    BY <1>3
  <2>2. m = 1
    BY <2>1
  <2>. QED  BY <2>1, <2>2
<1>. QED  BY <1>4, <1>5

(* Above the leaves a level is made of hashes of some level.               *)
LEMMA LevelsAreHashes ==
  ASSUME NEW n \in Nat, n >= 1, NEW leaves, NEW seed, IsSeq(leaves, n),
         NEW t, IsLevels(t, n, leaves, seed), NEW a \in 1 .. n
  PROVE  \E c \in 1 .. n : t[a] = NextLevel(t[c - 1], seed)
<1>. DEFINE IsMade(k) == \E c \in 1 .. n : t[k] = NextLevel(t[c - 1], seed)
            S == {k \in Nat : k = 0 \/ IsMade(k)}
<1>1. ASSUME NEW k \in 1 .. n, k - 1 \in S PROVE k \in S
  <2>1. t[k] = LevelAfter(t[k - 1], k, seed)
    BY DEF IsLevels
  <2>2. CASE k > 1 /\ Len(t[k - 1]) = 1
    <3>1. t[k] = t[k - 1]
      BY <2>1, <2>2 DEF LevelAfter
    <3>2. IsMade(k - 1)
      <4>. HIDE DEF IsMade
      <4>. QED  BY <1>1, <2>2
    <3>. QED  BY <3>1, <3>2
  <2>3. CASE ~ (k > 1 /\ Len(t[k - 1]) = 1)
    <3>1. t[k] = NextLevel(t[k - 1], seed)
      BY <2>1, <2>3 DEF LevelAfter
    <3>. QED  BY <3>1
  <2>. QED  BY <2>2, <2>3
<1>2. \A k \in 0 .. n : k \in S
  <2>. HIDE DEF IsMade
  <2>1. 0 \in S
    OBVIOUS
  <2>. HIDE DEF S
  <2>. QED  BY <1>1, <2>1, Inductive
<1>3. IsMade(a)
  <2>. HIDE DEF IsMade
  <2>. QED  BY <1>2
<1>. QED  BY <1>3

(* Levels t over n leaves, some of which is not made of hashes, and rows r *)
(* over n leaves with the root at the height-th.                           *)
PlainAt(leaves, i) == \E c : ~IsJoined(c) /\ leaves[i] = Leaf(c)

IsLeaves(leaves, n) == n \in Nat /\ n >= 1 /\ IsSeq(leaves, n)

LevelsOver(t, n, leaves, seed) ==
  /\ IsLeaves(leaves, n) /\ \E i \in 1 .. n : PlainAt(leaves, i)
  /\ IsLevels(t, n, leaves, seed)

RowsOver(r, n, height, leaves, seed) ==
  /\ IsLeaves(leaves, n)
  /\ height \in 1 .. n /\ Pow(height) >= n
  /\ IsRows(r, height, n, height, leaves, seed)

LEMMA RowIs ==
  ASSUME NEW r, NEW n, NEW height, NEW leaves, NEW seed,
         RowsOver(r, n, height, leaves, seed), NEW k \in 0 .. height
  PROVE  r[k] = [x \in RowSet(n, k) |-> r[k][x]]
<1>1. n \in Nat /\ n >= 1 /\ height \in Nat
  BY DEF RowsOver, IsLeaves
<1>2. CASE k = 0
  <2>1. r[k] = leaves /\ IsSeq(leaves, n)
    BY <1>2 DEF RowsOver, IsLeaves, IsRows
  <2>2. RowSet(n, 0) = 1 .. n
    BY <1>1, RowPlaces
  <2>. QED  BY <1>2, <2>1, <2>2 DEF IsSeq
<1>3. CASE k # 0
  <2>1. k \in 1 .. height
    BY <1>1, <1>3
  <2>2. r[k] = RowAfter(r[k - 1], k, n, height, seed)
    BY <2>1 DEF RowsOver, IsRows
  <2>. QED  BY <2>2 DEF RowAfter
<1>. QED  BY <1>2, <1>3

(* A level that is a row above the leaves was made of one that is the row  *)
(* below it; and if it is the root, with the same seed.                    *)
LEMMA SameStep ==
  ASSUME NEW t, NEW n, NEW leaves, NEW seed, LevelsOver(t, n, leaves, seed),
         NEW r, NEW m, NEW height, NEW others, NEW other,
         RowsOver(r, m, height, others, other),
         NEW a \in 0 .. n, NEW b \in 1 .. height, t[a] = r[b]
  PROVE  /\ \E c \in 0 .. n : t[c] = r[b - 1]
         /\ b = height => seed = other
<1>1. /\ n \in Nat /\ n >= 1 /\ IsSeq(leaves, n) /\ IsLevels(t, n, leaves, seed)
      /\ m \in Nat /\ m >= 1 /\ height \in Nat
  BY DEF LevelsOver, RowsOver, IsLeaves
<1>. DEFINE l == b - 1
            D == RowSet(m, l)
            U == RowSet(m, b)
            prev == r[l]
<1>2. l \in Nat /\ l + 1 = b /\ l \in 0 .. height /\ b \in 0 .. height /\ b \in Nat
  BY <1>1
<1>3. /\ D \subseteq 1 .. m /\ 1 \in U
      /\ \A i \in U : 2 * i - 1 \in D
      /\ \A x \in D : (x + 1) \div 2 \in U
  <2>1. 1 \in U
    BY <1>1, <1>2, RowPlaces
  <2>2. /\ D \subseteq 1 .. m
        /\ \A i \in RowSet(m, l + 1) : 2 * i - 1 \in D
        /\ \A x \in D : (x + 1) \div 2 \in RowSet(m, l + 1)
    BY <1>1, <1>2, RowPlaces
  <2>. QED  BY <1>2, <2>1, <2>2
<1>4. prev = [x \in D |-> prev[x]] /\ DOMAIN prev = D
  <2>1. prev = [x \in D |-> prev[x]]
    BY <1>2, RowIs
  <2>. QED  BY <2>1
<1>. HIDE DEF D
<1>. DEFINE beside == IF b = height THEN <<other>> ELSE <<>>
            Children(i) == [j \in 1 .. (IF 2 * i \in D THEN 2 ELSE 1) |->
                              prev[2 * i - 2 + j]]
<1>5. r[b] = [i \in U |-> Hash(Children(i), beside)]
  <2>1. r[b] = RowAfter(r[b - 1], b, m, height, other)
    BY DEF RowsOver, IsRows
  <2>. QED  BY <1>4, <2>1 DEF RowAfter
<1>. HIDE DEF U, l
<1>. HIDE DEF prev, beside, Children
<1>6. DOMAIN r[b] = U
  BY <1>5
<1>7. a \in 1 .. n
  <2>1. a # 0
    <3>1. ASSUME a = 0 PROVE FALSE
      <4>1. t[a] = leaves
        BY <3>1 DEF LevelsOver, IsLevels
      <4>2. PICK i \in 1 .. n : PlainAt(leaves, i)
        BY DEF LevelsOver
      <4>3. PICK e : ~IsJoined(e) /\ leaves[i] = Leaf(e)
        BY <4>2 DEF PlainAt
      <4>4. i \in U
        <5>1. DOMAIN leaves = 1 .. n
          BY <1>1 DEF IsSeq
        <5>. QED  BY <1>6, <4>1, <5>1
      <4>5. \E c, s : r[b][i] = Hash(c, s)
        BY <1>5, <4>4
      <4>. QED  BY <4>1, <4>3, <4>5, Injective
    <3>. QED  BY <3>1
  <2>. QED  BY <1>1, <2>1
<1>8. PICK c \in 1 .. n : t[a] = NextLevel(t[c - 1], seed)
  BY <1>1, <1>7, LevelsAreHashes
<1>. DEFINE cur == t[c - 1]
<1>9. c - 1 \in 0 .. n
  BY <1>1
<1>10. PICK w \in Nat : w >= 1 /\ IsSeq(cur, w)
  BY <1>1, <1>9, LevelLengths
<1>. HIDE DEF cur
<1>. DEFINE size == (w + 1) \div 2
            below == IF size = 1 THEN <<seed>> ELSE <<>>
<1>11. /\ IsSeq(r[b], size)
       /\ \A i \in 1 .. size : r[b][i] = Hash(Pair(cur, i), below)
  <2>1. r[b] = NextLevel(cur, seed)
    BY <1>8 DEF cur
  <2>. QED  BY <1>10, <2>1, NextLevelIs
<1>12. DOMAIN r[b] = 1 .. size
  BY <1>11, LenIs
<1>13. U = 1 .. size
  BY <1>6, <1>12
<1>14. \A i \in 1 .. size : r[b][i] = Hash(Children(i), beside)
  BY <1>5, <1>13
<1>. HIDE DEF below
<1>15. ASSUME NEW i \in 1 .. size PROVE Pair(cur, i) = Children(i) /\ below = beside
  <2>1. Hash(Pair(cur, i), below) = Hash(Children(i), beside)
    BY <1>11, <1>14
  <2>. QED  BY <2>1, Injective
<1>16. cur = prev
  <2>1. \A i \in 1 .. size : Pair(cur, i) = [j \in 1 .. (IF 2 * i \in D THEN 2 ELSE 1) |->
                                               prev[2 * i - 2 + j]]
    BY <1>15 DEF Children
  <2>2. \A i \in 1 .. size : 2 * i - 1 \in D
    BY <1>3, <1>13
  <2>3. \A x \in D : (x + 1) \div 2 \in 1 .. size
    BY <1>3, <1>13
  <2>4. D \subseteq Nat \ {0}
    BY <1>1, <1>3
  <2>5. w \in Nat /\ IsSeq(cur, w) /\ prev = [x \in D |-> prev[x]] /\ size = (w + 1) \div 2
    BY <1>4, <1>10
  <2>6. PairsAt(cur, size, prev, D)
    <3>. HIDE DEF size
    <3>. QED  BY <2>1, <2>2, <2>3, <2>4, <2>5 DEF PairsAt
  <2>. QED  BY <2>5, <2>6, SameBelow
<1>17. ASSUME b = height PROVE seed = other
  <2>1. U = {1}
    <3>1. Pow(height) >= m
      BY DEF RowsOver
    <3>. QED  BY <1>1, <1>2, <1>17, <3>1, RowPlaces DEF U
  <2>2. size = 1
    <3>1. size \in Nat /\ size >= 1
      BY <1>10
    <3>. HIDE DEF size
    <3>2. size \in 1 .. size
      BY <3>1
    <3>. QED  BY <1>13, <2>1, <3>2
  <2>3. below = beside
    <3>1. 1 \in 1 .. size
      BY <2>2
    <3>. QED  BY <1>15, <3>1
  <2>4. <<seed>> = <<other>>
    BY <1>17, <2>2, <2>3 DEF below, beside
  <2>. QED  BY <2>4
<1>. QED  BY <1>9, <1>16, <1>17 DEF cur, prev, l

(* Above the leaves there are no leaves.                                   *)
LEMMA HashAtFirst ==
  ASSUME NEW t, NEW n, NEW leaves, NEW seed, LevelsOver(t, n, leaves, seed),
         NEW a \in 1 .. n
  PROVE  \E d, s : t[a][1] = Hash(d, s)
<1>1. n \in Nat /\ n >= 1 /\ IsSeq(leaves, n) /\ IsLevels(t, n, leaves, seed)
  BY DEF LevelsOver, IsLeaves
<1>2. PICK c \in 1 .. n : t[a] = NextLevel(t[c - 1], seed)
  BY <1>1, LevelsAreHashes
<1>. DEFINE cur == t[c - 1]
<1>3. c - 1 \in 0 .. n
  BY <1>1
<1>4. PICK w \in Nat : w >= 1 /\ IsSeq(cur, w)
  BY <1>1, <1>3, LevelLengths
<1>. DEFINE first == IF (w + 1) \div 2 = 1 THEN <<seed>> ELSE <<>>
<1>. HIDE DEF cur
<1>5. 1 \in 1 .. (w + 1) \div 2
  BY <1>4
<1>6. \A i \in 1 .. (w + 1) \div 2 :
        NextLevel(cur, seed)[i] = Hash(Pair(cur, i), first)
  BY <1>4, NextLevelIs
<1>. HIDE DEF first
<1>7. NextLevel(cur, seed)[1] = Hash(Pair(cur, 1), first)
  BY <1>5, <1>6
<1>. QED  BY <1>2, <1>7 DEF cur

(* What a body is, what of it is hashed, and whether some of that is not   *)
(* made of hashes.                                                         *)
IsBody(body) == \E S : body.leaves \in Seq(S)

ContentAt(body, i)    == body.leaves[i].content
SomePlain(body)       == \E i \in DOMAIN body.leaves : ~IsJoined(ContentAt(body, i))
SameContents(b, c) ==
  /\ b.seed = c.seed /\ DOMAIN b.leaves = DOMAIN c.leaves
  /\ \A i \in DOMAIN b.leaves : ContentAt(b, i) = ContentAt(c, i)

LEMMA LeavesAre ==
  ASSUME NEW body, IsBody(body), body.leaves # <<>>
  PROVE  /\ IsLeaves(Leaves(body), Len(body.leaves))
         /\ DOMAIN body.leaves = 1 .. Len(body.leaves)
         /\ \A i \in 1 .. Len(body.leaves) : Leaves(body)[i] = Leaf(ContentAt(body, i))
<1>. DEFINE s == body.leaves
            n == Len(s)
<1>1. PICK S : s \in Seq(S)
  BY DEF IsBody
<1>2. n \in Nat /\ DOMAIN s = 1 .. n
  BY <1>1, LenProperties
<1>3. n >= 1
  <2>1. n # 0
    BY <1>1, EmptySeq
  <2>. QED  BY <1>2, <2>1
<1>4. Leaves(body) = [i \in 1 .. n |-> Leaf(s[i].content)]
  BY <1>2 DEF Leaves
<1>. HIDE DEF s, n
<1>5. IsSeq(Leaves(body), n)
  BY <1>2, <1>4 DEF IsSeq
<1>6. \A i \in 1 .. n : Leaves(body)[i] = Leaf(s[i].content)
  BY <1>4
<1>. QED  BY <1>2, <1>3, <1>5, <1>6 DEF IsLeaves, ContentAt, s, n

(* What the root of a block commits to: verifyBodyMerkle takes no body for *)
(* the block's that has other leaves, more or fewer of them, or the same   *)
(* in another order, or another seed; unless the body is altogether made   *)
(* of hashes above the block's leaves.  Of the tags and offsets of the     *)
(* leaves and of what is below them nothing follows.                       *)
THEOREM OnlyOwnContentsProve ==
  ASSUME NEW body, NEW block, IsBody(body), IsBody(block), block.leaves # <<>>,
         \A i \in DOMAIN block.leaves : ~IsJoined(ContentAt(block, i)),
         SomePlain(body), BodyProves(body, HeaderRoot(block))
  PROVE  SameContents(body, block)
<1>. DEFINE n == Len(body.leaves)
            m == Len(block.leaves)
            leaves == Leaves(body)
            others == Leaves(block)
            seed   == body.seed
            other  == block.seed
            t      == Levels(leaves, seed)
            height == Height(m)
            r      == Rows(others, other)
<1>1. /\ IsLeaves(leaves, n) /\ IsLeaves(others, m)
      /\ DOMAIN body.leaves = 1 .. n /\ DOMAIN block.leaves = 1 .. m
      /\ \A i \in 1 .. n : leaves[i] = Leaf(ContentAt(body, i))
      /\ \A i \in 1 .. m : others[i] = Leaf(ContentAt(block, i))
      /\ \E i \in 1 .. n : PlainAt(leaves, i)
      /\ \A i \in 1 .. m : PlainAt(others, i)
  <2>1. /\ IsLeaves(leaves, n) /\ DOMAIN body.leaves = 1 .. n
        /\ \A i \in 1 .. n : leaves[i] = Leaf(ContentAt(body, i))
    BY LeavesAre DEF BodyProves
  <2>2. /\ IsLeaves(others, m) /\ DOMAIN block.leaves = 1 .. m
        /\ \A i \in 1 .. m : others[i] = Leaf(ContentAt(block, i))
    BY LeavesAre
  <2>. HIDE DEF leaves, others, n, m
  <2>3. \E i \in 1 .. n : PlainAt(leaves, i)
    BY <2>1 DEF SomePlain, PlainAt
  <2>4. \A i \in 1 .. m : PlainAt(others, i)
    BY <2>2 DEF PlainAt
  <2>. QED  BY <2>1, <2>2, <2>3, <2>4
<1>2. n \in Nat /\ n >= 1 /\ m \in Nat /\ m >= 1 /\ Len(leaves) = n /\ Len(others) = m
  BY <1>1, LenIs DEF IsLeaves
<1>3. t[n][1] = r[height][1]
  <2>1. merkleRootNew(leaves, seed) = HeaderRoot(block)
    BY DEF BodyProves
  <2>2. merkleRootNew(leaves, seed) = t[n][1]
    BY <1>2, RootOfLevels
  <2>3. HeaderRoot(block) = r[height][1]
    BY <1>2, RootOfRows
  <2>. QED  BY <2>1, <2>2, <2>3
<1>4. LevelsOver(t, n, leaves, seed)
  BY <1>1, <1>2, LevelsAre DEF LevelsOver
<1>5. height \in 1 .. m /\ Pow(height) >= m
  BY <1>2, HeightIs
<1>6. RowsOver(r, m, height, others, other)
  BY <1>1, <1>2, <1>5, RowsAre DEF RowsOver
<1>. HIDE DEF t, r, height, leaves, others, n, m
<1>7. t[n] = r[height]
  <2>1. IsSeq(t[n], 1)
    BY <1>1, <1>2, <1>4, LevelLengths DEF LevelsOver, IsLeaves
  <2>2. r[height] = [x \in RowSet(m, height) |-> r[height][x]]
    BY <1>5, <1>6, RowIs
  <2>3. RowSet(m, height) = {1} /\ 1 .. 1 = {1}
    BY <1>2, <1>5, RowPlaces
  <2>. QED  BY <1>3, <2>1, <2>2, <2>3 DEF IsSeq
<1>. DEFINE S == {j \in Nat : \E a \in 0 .. n : t[a] = r[height - j]}
<1>8. 0 \in S
  <2>1. n \in 0 .. n /\ height - 0 = height
    BY <1>2, <1>5
  <2>. QED  BY <1>7, <2>1
<1>9. ASSUME NEW j \in 1 .. height, j - 1 \in S PROVE j \in S
  <2>. DEFINE b == height - (j - 1)
  <2>1. b \in 1 .. height /\ b - 1 = height - j /\ j \in Nat
    BY <1>5
  <2>2. PICK a \in 0 .. n : t[a] = r[b]
    BY <1>9
  <2>. HIDE DEF b
  <2>3. \E c \in 0 .. n : t[c] = r[b - 1]
    BY <1>4, <1>6, <2>1, <2>2, SameStep
  <2>. QED  BY <2>1, <2>3
<1>10. PICK a \in 0 .. n : t[a] = others
  <2>1. height \in Nat /\ height \in 0 .. height /\ height - height = 0
    BY <1>5
  <2>2. height \in S
    <3>. HIDE DEF S
    <3>1. \A j \in 0 .. height : j \in S
      BY <1>8, <1>9, <2>1, Inductive
    <3>. QED  BY <2>1, <3>1
  <2>3. r[0] = others
    BY <1>6 DEF RowsOver, IsRows
  <2>. QED  BY <2>1, <2>2, <2>3
<1>11. seed = other
  <2>1. n \in 0 .. n /\ height \in 1 .. height
    BY <1>2, <1>5
  <2>. QED  BY <1>4, <1>6, <1>7, <2>1, SameStep
<1>12. a = 0
  <2>1. ASSUME a # 0 PROVE FALSE
    <3>1. a \in 1 .. n
      BY <1>2, <2>1
    <3>2. \E d, s : t[a][1] = Hash(d, s)
      BY <1>4, <3>1, HashAtFirst
    <3>3. PlainAt(others, 1)
      BY <1>1, <1>2
    <3>. QED  BY <1>10, <3>2, <3>3, Injective DEF PlainAt
  <2>. QED  BY <2>1
<1>13. leaves = others
  BY <1>4, <1>10, <1>12 DEF LevelsOver, IsLevels
<1>14. n = m
  BY <1>2, <1>13
<1>15. \A i \in 1 .. n : ContentAt(body, i) = ContentAt(block, i)
  BY <1>1, <1>13, <1>14, Injective
<1>. QED  BY <1>1, <1>11, <1>14, <1>15 DEF SameContents

-----------------------------------------------------------------------------
(* Credits and bindings.                                                   *)

Blocks == { h.hash : h \in Headers }
Bodies == UNION { BodiesIn(Worlds[w]) : w \in DOMAIN Worlds }

(* What a body says of a place, or a host of a transfer, and when that can *)
(* be credited.                                                            *)
PlacesOf(b) == UNION { { Transfer(b, body, p) : p \in Found(body) } : body \in Bodies }

Places ==
  (UNION { PlacesOf(b) : b \in Blocks }) \cup UNION { Worlds[w].attested : w \in DOMAIN Worlds }

Creditable == { t \in Places : t.amountE8 \in Nat }

Heights == { h.height : h \in Headers } \cup {0}

KeysAt(height) == { ClaimKey(NoText, height, t) : t \in Creditable }
Texted         == [prefix : {"", "0x"}, of : Creditable]

Keys == (UNION { KeysAt(height) : height \in Heights }) \cup Texted \cup {NoText}

CreditRecords ==
  [transfer : Creditable, owner : Owners, key : Keys, height : Heights,
   from : Addresses \cup {NoAddress}, genuine : BOOLEAN]

Bindings(S) == [S -> Owners \cup {NoOwner}]

TypeOK ==
  /\ setting \in Settings
  /\ usedDepositTxs \subseteq Keys
  /\ ownerByOriginAccountId \in Bindings(Accounts)
  /\ ownerByWartAddress \in Bindings(Addresses)
  /\ lockedE8 \in Nat /\ depositedE8 \in [Owners -> Nat]
  /\ credits \in Seq(CreditRecords)

-----------------------------------------------------------------------------
(* The bodies and what is found in them.                                   *)

(* A setting is one of Settings.                                           *)
LEMMA SettingFacts ==
  ASSUME NEW s \in Settings
  PROVE  /\ s.reverts \in BOOLEAN /\ s.byHash \in BOOLEAN
         /\ s.addresses \subseteq Addresses \cup {NoAddress}
         /\ s.claimHashes \subseteq {"own", "any", "0x", "none"}
         /\ s.depositHashes \subseteq {"own", "any", "0x", "none"}
         /\ s.world \in DOMAIN Worlds
BY SettingsAssumption

(* A claim's block is one of the blocks.                                   *)
LEMMA ClaimFacts ==
  ASSUME NEW claim \in LC!Claims
  PROVE  /\ claim.header \in Headers
         /\ claim.header.hash \in Blocks /\ claim.header.height \in Heights
BY DEF LC!Claims, Blocks, Heights

(* What is taken for a deposit is found in the body, and can be credited.  *)
LEMMA DepositFacts ==
  ASSUME NEW body \in Bodies, NEW account, NEW p \in Deposits(body, account)
  PROVE  /\ p \in Found(body) /\ LongEnough(NodeAt(body, p).content)
         /\ SentAt(body, p).to = account
         /\ SentAt(body, p).origin \in Accounts
         /\ SentAt(body, p).amountE8 \in Nat /\ SentAt(body, p).amountE8 > 0
<1>1. /\ p \in Found(body) /\ LongEnough(NodeAt(body, p).content)
      /\ SentAt(body, p).to = account /\ SentAt(body, p).amountE8 > 0
  BY DEF Deposits
<1>2. PICK w \in DOMAIN Worlds : body \in BodiesIn(Worlds[w])
  BY DEF Bodies
<1>3. SentAt(body, p).amountE8 \in Nat
  BY <1>1, <1>2, WorldsAssumption
<1>4. SentAt(body, p).origin \in Accounts
  BY <1>1, <1>2 DEF Accounts
<1>. QED  BY <1>1, <1>3, <1>4

(* What is at such a place can be credited.                                *)
LEMMA DepositIsCreditable ==
  ASSUME NEW b \in Blocks, NEW body \in Bodies, NEW account,
         NEW p \in Deposits(body, account)
  PROVE  Transfer(b, body, p) \in Creditable
<1>1. p \in Found(body) /\ SentAt(body, p).amountE8 \in Nat
  BY DepositFacts
<1>2. Transfer(b, body, p) \in { Transfer(b, body, q) : q \in Found(body) }
  BY <1>1
<1>3. Transfer(b, body, p) \in PlacesOf(b)
  BY <1>2 DEF PlacesOf
<1>4. Transfer(b, body, p) \in Places
  BY <1>3 DEF Places
<1>. QED  BY <1>1, <1>4 DEF Creditable, Transfer

(* The blocks' own bodies are bodies of the world.                         *)
LEMMA OwnBody ==
  ASSUME NEW w \in DOMAIN Worlds, NEW b \in Blocks
  PROVE  /\ b \in DOMAIN Worlds[w].blocks
         /\ Worlds[w].blocks[b] \in Range(Worlds[w].blocks)
         /\ Worlds[w].blocks[b] \in BodiesIn(Worlds[w])
         /\ Worlds[w].blocks[b] \in Bodies
<1>1. b \in DOMAIN Worlds[w].blocks
  BY WorldsAssumption DEF Blocks
<1>2. Worlds[w].blocks[b] \in Range(Worlds[w].blocks)
  BY <1>1 DEF Range
<1>. QED  BY <1>1, <1>2 DEF Bodies, BodiesIn

(* A transfer that is in a block can be credited.                          *)
LEMMA TransfersAreCreditable ==
  ASSUME NEW w \in DOMAIN Worlds, NEW t \in Transfers[w]
  PROVE  t \in Creditable
<1>1. PICK b \in DOMAIN Worlds[w].blocks :
        t \in TransfersOf(b, Worlds[w].blocks[b])
  BY DEF Transfers
<1>2. b \in Blocks
  BY WorldsAssumption DEF Blocks
<1>. DEFINE body == Worlds[w].blocks[b]
<1>3. body \in Bodies
  BY <1>2, OwnBody
<1>. HIDE DEF body
<1>4. PICK q \in Found(body) :
        \E p \in Deposits(body, SentAt(body, q).to) : t = Transfer(b, body, p)
  BY <1>1 DEF TransfersOf, body
<1>. QED  BY <1>2, <1>3, <1>4, DepositIsCreditable

(* So can what a host attests.                                             *)
LEMMA AttestedAreCreditable ==
  ASSUME NEW w \in DOMAIN Worlds, NEW t \in Transfers[w] \cup Worlds[w].attested
  PROVE  t \in Creditable
<1>1. CASE t \in Worlds[w].attested
  BY <1>1, WorldsAssumption DEF Creditable, Places
<1>. QED  BY <1>1, TransfersAreCreditable

(* What a claim can get.                                                   *)
LEMMA ClaimableFacts ==
  ASSUME NEW s \in Settings, NEW b \in Blocks, NEW found \in Claimable[s][b]
  PROVE  /\ found[1] \in Bodies /\ found[1] \in BodiesIn(Worlds[s.world])
         /\ BodyProves(found[1], HeaderRoot(Worlds[s.world].blocks[b]))
         /\ \E account : found[2] \in Deposits(found[1], account)
<1>1. s.world \in DOMAIN Worlds
  BY SettingFacts
<1>2. b \in DOMAIN Worlds[s.world].blocks
  BY <1>1, OwnBody
<1>. DEFINE Proving == { x \in Worlds[s.world].bodies :
                            BodyProves(x, HeaderRoot(Worlds[s.world].blocks[b])) }
<1>3. PICK body \in Proving, account \in s.claimAccounts :
        found \in {body} \X Choosable(body, account)
  BY <1>2 DEF Claimable
<1>4. found[1] = body /\ found[2] \in Choosable(body, account)
  BY <1>3
<1>5. found[2] \in Deposits(body, account)
  BY <1>4 DEF Choosable
<1>. QED  BY <1>1, <1>3, <1>4, <1>5 DEF BodiesIn, Bodies

(* What a proving body says of a leaf as the block does is in the block.   *)
LEMMA AsInBlockIsTransfer ==
  ASSUME NEW w \in DOMAIN Worlds, NEW b \in Blocks, NEW body \in BodiesIn(Worlds[w]),
         BodyProves(body, HeaderRoot(Worlds[w].blocks[b])),
         NEW account, NEW p \in Deposits(body, account),
         AsInBlock(Worlds[w].blocks[b], body, p)
  PROVE  Transfer(b, body, p) \in Transfers[w]
<1>. DEFINE own == Worlds[w].blocks[b]
            i   == p[1]
<1>1. /\ own \in Range(Worlds[w].blocks) /\ own \in BodiesIn(Worlds[w])
      /\ own \in Bodies /\ b \in DOMAIN Worlds[w].blocks
  BY OwnBody
<1>2. /\ BodyProves(body, HeaderRoot(own)) /\ AsInBlock(own, body, p)
  OBVIOUS
<1>. HIDE DEF own
<1>3. /\ own.leaves # <<>>
      /\ \A k \in DOMAIN own.leaves :
           /\ ~IsJoined(own.leaves[k].content) /\ own.leaves[k].below = <<>>
           /\ own.leaves[k].tag = "wartTransfer" => LongEnough(own.leaves[k].content)
  BY <1>1, WorldsAssumption
<1>4. body \in Bodies
  BY DEF Bodies
<1>5. /\ p \in Found(body) /\ LongEnough(NodeAt(body, p).content)
      /\ SentAt(body, p).to = account /\ SentAt(body, p).amountE8 > 0
  BY <1>4, DepositFacts
<1>6. /\ p[2] = 0 /\ ~IsJoined(body.leaves[i].content)
      /\ i \in DOMAIN own.leaves => /\ own.leaves[i].tag = body.leaves[i].tag
                                   /\ own.leaves[i].offset = body.leaves[i].offset
  BY <1>2 DEF AsInBlock
<1>7. p = <<i, 0>> /\ i \in DOMAIN body.leaves /\ body.leaves[i].tag = "wartTransfer"
  <2>1. CASE p \in { <<k, 0>> : k \in { j \in DOMAIN body.leaves :
                                       body.leaves[j].tag = "wartTransfer" } }
    BY <2>1
  <2>2. ASSUME NEW k \in DOMAIN body.leaves, p \in {k} \X DOMAIN body.leaves[k].below
        PROVE  FALSE
    <3>1. body.leaves[k].below \in Seq(Range(body.leaves[k].below))
      BY <2>2, WorldsAssumption
    <3>2. 0 \notin DOMAIN body.leaves[k].below
      BY <3>1, LenProperties
    <3>. QED  BY <1>6, <2>2, <3>2
  <2>. QED  BY <1>5, <2>1, <2>2 DEF Found
<1>8. i \in DOMAIN own.leaves /\ own.leaves[i].content = body.leaves[i].content
  <2>1. IsBody(body) /\ IsBody(own)
    BY <1>1, WorldsAssumption DEF IsBody
  <2>2. \A k \in DOMAIN own.leaves : ~IsJoined(ContentAt(own, k))
    BY <1>3 DEF ContentAt
  <2>3. SomePlain(body)
    BY <1>6, <1>7 DEF SomePlain, ContentAt
  <2>4. SameContents(body, own)
    BY <1>2, <1>3, <2>1, <2>2, <2>3, OnlyOwnContentsProve
  <2>. QED  BY <1>7, <2>4 DEF SameContents, ContentAt
<1>9. NodeAt(own, p) = own.leaves[i] /\ NodeAt(body, p) = body.leaves[i]
  BY <1>6 DEF NodeAt
<1>10. SentAt(own, p) = SentAt(body, p)
  BY <1>8, <1>9 DEF SentAt
<1>11. Transfer(b, body, p) = Transfer(b, own, p)
  BY <1>6, <1>8, <1>9, <1>10 DEF Transfer
<1>12. p \in Found(own)
  BY <1>6, <1>7, <1>8 DEF Found
<1>13. ASSUME NEW q \in Found(own) PROVE LongEnough(NodeAt(own, q).content)
  <2>1. CASE q \in { <<k, 0>> : k \in { j \in DOMAIN own.leaves :
                                      own.leaves[j].tag = "wartTransfer" } }
    <3>1. PICK k \in DOMAIN own.leaves : q = <<k, 0>> /\ own.leaves[k].tag = "wartTransfer"
      BY <2>1
    <3>2. NodeAt(own, q) = own.leaves[k]
      BY <3>1 DEF NodeAt
    <3>. QED  BY <1>3, <3>1, <3>2
  <2>2. ASSUME NEW k \in DOMAIN own.leaves, q \in {k} \X DOMAIN own.leaves[k].below
        PROVE  FALSE
    <3>1. own.leaves[k].below = <<>>
      BY <1>3
    <3>. QED  BY <2>2, <3>1
  <2>. QED  BY <2>1, <2>2 DEF Found
<1>14. p \in Deposits(own, SentAt(own, p).to)
  BY <1>5, <1>10, <1>12, <1>13 DEF Deposits
<1>15. Transfer(b, own, p) \in TransfersOf(b, own)
  BY <1>12, <1>14 DEF TransfersOf
<1>. QED  BY <1>1, <1>11, <1>15 DEF Transfers, own

(* The texts inputs give for a hash.                                       *)
LEMMA TextFacts ==
  ASSUME TypeOK, NEW t \in Creditable, NEW kinds, NEW hash \in Texts(kinds, t)
  PROVE  hash \in Texted \cup {NoText}
<1>1. Transfers[setting.world] \subseteq Creditable
  BY SettingFacts, TransfersAreCreditable DEF TypeOK
<1>2. hash \in {TxHash(t), NoText} \cup [prefix : {"", "0x"}, of : Transfers[setting.world]]
  BY DEF Texts
<1>3. TxHash(t) \in Texted
  BY DEF TxHash, Texted
<1>. QED  BY <1>1, <1>2, <1>3 DEF Texted

(* The keys of claims.                                                     *)
LEMMA ClaimKeyFacts ==
  ASSUME NEW t \in Creditable, NEW height \in Heights,
         NEW hash \in Texted \cup {NoText}
  PROVE  /\ ClaimKey(hash, height, t) \in Keys /\ ClaimKey(hash, height, t) # NoText
         /\ hash # NoText => ClaimKey(hash, height, t) = TxHash(hash.of)
<1>1. CASE hash = NoText
  <2>1. DOMAIN ClaimKey(hash, height, t) = {"height", "offset", "amountE8", "origin"}
    BY <1>1 DEF ClaimKey
  <2>2. DOMAIN NoText = {"text"}
    BY DEF NoText
  <2>3. "height" \notin {"text"}
    OBVIOUS
  <2>4. ClaimKey(hash, height, t) \in Keys
    <3>1. ClaimKey(hash, height, t) \in KeysAt(height)
      BY <1>1 DEF KeysAt
    <3>. QED  BY <3>1 DEF Keys
  <2>5. ClaimKey(hash, height, t) # NoText
    BY <2>1, <2>2, <2>3
  <2>. QED  BY <1>1, <2>4, <2>5
<1>2. CASE hash # NoText
  <2>1. hash \in Texted
    BY <1>2
  <2>3. ClaimKey(hash, height, t) = TxHash(hash.of)
    BY <1>2 DEF ClaimKey
  <2>4. TxHash(hash.of) \in Texted
    BY <2>1 DEF TxHash, Texted
  <2>5. DOMAIN TxHash(hash.of) = {"prefix", "of"} /\ DOMAIN NoText = {"text"}
    BY DEF TxHash, NoText
  <2>6. "prefix" \notin {"text"}
    OBVIOUS
  <2>7. TxHash(hash.of) # NoText
    BY <2>5, <2>6
  <2>8. TxHash(hash.of) \in Keys
    BY <2>4 DEF Keys
  <2>. QED  BY <2>3, <2>7, <2>8
<1>. QED  BY <1>1, <1>2

-----------------------------------------------------------------------------
(* What a step does to credits and bindings.                               *)

(* Nobody who is bound is bound to another.                                *)
Extends(S, b, c) ==
  c \in Bindings(S) /\ \A a \in S : b[a] # NoOwner => c[a] = b[a]

NothingCredited ==
  /\ UNCHANGED creditVars
  /\ setting.reverts => UNCHANGED bindVars
  /\ Extends(Accounts, ownerByOriginAccountId, ownerByOriginAccountId')
  /\ Extends(Addresses, ownerByWartAddress, ownerByWartAddress')

(* The key that genuine inputs give a transfer.                            *)
OwnKey(t, key) ==
  /\ key # NoText
  /\ setting.byHash => key = TxHash(t)
  /\ ~setting.byHash => \E h \in Headers :
                          h.hash = t.block /\ key = ClaimKey(NoText, h.height, t)

(* What a step that credits transfer t does.                               *)
NewCredit(owner, t, key, height, from, genuine) ==
  /\ Fresh(key) /\ Credit(TRUE, owner, t, key, height, from, genuine)
  /\ Extends(Accounts, ownerByOriginAccountId, ownerByOriginAccountId')
  /\ Extends(Addresses, ownerByWartAddress, ownerByWartAddress')
  /\ height > 0 => t.origin \in Accounts /\ ownerByOriginAccountId'[t.origin] = owner
  /\ \A a \in Accounts :
       ownerByOriginAccountId'[a] # ownerByOriginAccountId[a] =>
         height > 0 /\ a = t.origin
  /\ from # NoAddress => from \in Addresses /\ ownerByWartAddress'[from] = owner
  /\ \A a \in Addresses :
       ownerByWartAddress'[a] # ownerByWartAddress[a] => a = from
  /\ genuine => t \in Transfers[setting.world] /\ t.to = Pool /\ OwnKey(t, key)

SomeCredit ==
  \E owner \in Owners, t \in Creditable, key \in Keys, height \in Heights,
     from \in Addresses \cup {NoAddress}, genuine \in BOOLEAN :
    NewCredit(owner, t, key, height, from, genuine)

(* What holds after binding account a, if ok, where it may be bound.       *)
MayBindIf(S, b, a, owner, ok) == ok => a \in S /\ MayBind(b, a, owner)

BoundWell(S, b, a, owner, ok, c) ==
  /\ Extends(S, b, c)
  /\ ok => c[a] = owner
  /\ \A x \in S : c[x] # b[x] => ok /\ x = a

(* Binding an account that is not bound to another.                        *)
LEMMA BindingFacts ==
  ASSUME NEW S, NEW b \in Bindings(S), NEW a, NEW owner \in Owners, NEW ok,
         MayBindIf(S, b, a, owner, ok)
  PROVE  BoundWell(S, b, a, owner, ok, BoundIf(b, a, owner, ok))
<1>. USE DEF BoundWell, MayBindIf
<1>1. NoOwner \notin Owners
  BY OwnersAssumption
<1>2. CASE ok /\ b[a] = NoOwner
  <2>. DEFINE c == [b EXCEPT ![a] = owner]
  <2>1. BoundIf(b, a, owner, ok) = c
    BY <1>2 DEF BoundIf
  <2>2. a \in S
    BY <1>2
  <2>3. /\ c \in Bindings(S) /\ c[a] = owner
        /\ \A x \in S : x # a => c[x] = b[x]
    BY <2>2 DEF Bindings
  <2>. HIDE DEF c
  <2>. QED  BY <1>2, <2>1, <2>2, <2>3 DEF Extends
<1>3. CASE ~ (ok /\ b[a] = NoOwner)
  <2>1. BoundIf(b, a, owner, ok) = b
    BY <1>3 DEF BoundIf
  <2>. QED  BY <1>3, <2>1 DEF Extends, MayBind
<1>. QED  BY <1>2, <1>3

LEMMA NothingBound ==
  ASSUME NEW S, NEW b \in Bindings(S) PROVE Extends(S, b, b)
BY DEF Extends

(* A claim is credited or not.                                             *)
LEMMA ClaimCases ==
  ASSUME TypeOK, NEW owner \in Owners, NEW claim \in LC!Claims,
         NEW from \in setting.addresses,
         NEW found \in Claimable[setting][claim.header.hash],
         NEW hash \in Texts(setting.claimHashes,
                            Transfer(claim.header.hash, found[1], found[2])),
         WartDepositClaim(owner, claim, found[1], found[2], hash, from)
  PROVE  NothingCredited \/ SomeCredit
<1>. DEFINE block     == claim.header.hash
            height    == claim.header.height
            result    == LC!ClaimBlock(lc, claim)
            t         == Transfer(block, found[1], found[2])
            key       == ClaimKey(hash, height, t)
            verified  == result.ok /\ LC!Final(result.lc, claim)
            originOk  == verified /\ MayBind(ownerByOriginAccountId, t.origin, owner)
            named     == from # NoAddress
            addressOk == originOk /\ (named => MayBind(ownerByWartAddress, from, owner))
            ok        == addressOk /\ Fresh(key)
            genuine   == /\ t.to = Pool
                         /\ AsInBlock(Worlds[setting.world].blocks[block],
                                      found[1], found[2])
                         /\ IF setting.byHash THEN hash # NoText /\ hash.of = t
                            ELSE hash = NoText
<1>1. /\ IF Keeps(ok)
         THEN /\ ownerByOriginAccountId' =
                   BoundIf(ownerByOriginAccountId, t.origin, owner, originOk)
              /\ ownerByWartAddress' =
                   BoundIf(ownerByWartAddress, from, owner, named /\ addressOk)
         ELSE UNCHANGED bindVars
      /\ Credit(ok, owner, t, key, height, from, genuine)
  BY DEF WartDepositClaim
<1>2. /\ setting \in Settings /\ setting.world \in DOMAIN Worlds
      /\ setting.byHash \in BOOLEAN /\ setting.reverts \in BOOLEAN
      /\ claim.header \in Headers /\ block \in Blocks /\ height \in Heights
      /\ from \in Addresses \cup {NoAddress}
  BY ClaimFacts, SettingFacts DEF TypeOK
<1>3. /\ found[1] \in Bodies /\ found[1] \in BodiesIn(Worlds[setting.world])
      /\ BodyProves(found[1], HeaderRoot(Worlds[setting.world].blocks[block]))
      /\ \E account : found[2] \in Deposits(found[1], account)
  BY <1>2, ClaimableFacts
<1>4. PICK account : found[2] \in Deposits(found[1], account)
  BY <1>3
<1>5. t \in Creditable
  BY <1>2, <1>3, <1>4, DepositIsCreditable
<1>6. t.origin \in Accounts /\ t.block = block
  <2>1. SentAt(found[1], found[2]).origin \in Accounts
    BY <1>3, <1>4, DepositFacts
  <2>. QED  BY <2>1 DEF Transfer
<1>7. hash \in Texted \cup {NoText}
  BY <1>5, TextFacts
<1>8. key \in Keys /\ key # NoText /\ (hash # NoText => key = TxHash(hash.of))
  BY <1>2, <1>5, <1>7, ClaimKeyFacts
<1>9. genuine => t \in Transfers[setting.world] /\ t.to = Pool /\ OwnKey(t, key)
  <2>. SUFFICES ASSUME genuine
                PROVE  t \in Transfers[setting.world] /\ t.to = Pool /\ OwnKey(t, key)
    OBVIOUS
  <2>1. t \in Transfers[setting.world]
    <3>1. AsInBlock(Worlds[setting.world].blocks[block], found[1], found[2])
      OBVIOUS
    <3>. HIDE DEF block
    <3>. QED  BY <1>2, <1>3, <1>4, <3>1, AsInBlockIsTransfer
  <2>2. CASE setting.byHash
    <3>1. key = TxHash(t)
      BY <1>8, <2>2
    <3>. QED  BY <1>8, <2>1, <2>2, <3>1 DEF OwnKey
  <2>3. CASE ~setting.byHash
    <3>1. hash = NoText
      BY <2>3
    <3>2. key = ClaimKey(NoText, height, t)
      BY <3>1
    <3>. HIDE DEF key, t
    <3>. QED  BY <1>2, <1>6, <1>8, <2>1, <2>3, <3>2 DEF OwnKey
  <2>. QED  BY <2>2, <2>3
<1>10. /\ ownerByOriginAccountId \in Bindings(Accounts)
       /\ ownerByWartAddress \in Bindings(Addresses)
  BY DEF TypeOK
<1>11. /\ originOk \in BOOLEAN /\ (named /\ addressOk) \in BOOLEAN
       /\ ok \in BOOLEAN /\ genuine \in BOOLEAN
       /\ originOk => t.origin \in Accounts /\ MayBind(ownerByOriginAccountId, t.origin, owner)
       /\ named /\ addressOk => from \in Addresses /\ MayBind(ownerByWartAddress, from, owner)
       /\ ok => originOk /\ addressOk /\ Fresh(key)
  BY <1>2, <1>6
<1>12. height \in Nat /\ height > 0
  <2>1. LC!HeadersAssumption
    BY ClientAssumption
  <2>. QED  BY <1>2, <2>1 DEF LC!HeadersAssumption
<1>. HIDE DEF t, key, originOk, named, addressOk, ok, genuine, height
<1>. DEFINE nameOk    == named /\ addressOk
            origin    == t.origin
            origins   == BoundIf(ownerByOriginAccountId, origin, owner, originOk)
            addresses == BoundIf(ownerByWartAddress, from, owner, nameOk)
<1>13. /\ Extends(Accounts, ownerByOriginAccountId, origins)
       /\ originOk => origins[t.origin] = owner
       /\ \A x \in Accounts : origins[x] # ownerByOriginAccountId[x] => x = t.origin
  <2>1. MayBindIf(Accounts, ownerByOriginAccountId, origin, owner, originOk)
    BY <1>11 DEF MayBindIf
  <2>. HIDE DEF origin
  <2>2. BoundWell(Accounts, ownerByOriginAccountId, origin, owner, originOk, origins)
    BY ONLY <1>10, <2>1, owner \in Owners, BindingFacts, Zenon
  <2>3. /\ Extends(Accounts, ownerByOriginAccountId, origins)
        /\ originOk => origins[origin] = owner
        /\ \A x \in Accounts : origins[x] # ownerByOriginAccountId[x] => originOk /\ x = origin
    BY <2>2 DEF BoundWell
  <2>. QED  BY <2>3 DEF origin
<1>14. /\ Extends(Addresses, ownerByWartAddress, addresses)
       /\ nameOk => addresses[from] = owner
       /\ \A x \in Addresses : addresses[x] # ownerByWartAddress[x] => x = from
  <2>1. MayBindIf(Addresses, ownerByWartAddress, from, owner, nameOk)
    BY <1>11 DEF MayBindIf
  <2>. HIDE DEF nameOk
  <2>2. BoundWell(Addresses, ownerByWartAddress, from, owner, nameOk, addresses)
    BY ONLY <1>10, <2>1, owner \in Owners, BindingFacts, Zenon
  <2>. QED  BY <2>2 DEF BoundWell
<1>15. /\ Extends(Accounts, ownerByOriginAccountId, ownerByOriginAccountId)
       /\ Extends(Addresses, ownerByWartAddress, ownerByWartAddress)
  BY <1>10, NothingBound
<1>. HIDE DEF origins, addresses
<1>16. CASE ok
  <2>1. Keeps(ok)
    BY <1>16 DEF Keeps
  <2>2. ownerByOriginAccountId' = origins /\ ownerByWartAddress' = addresses
    BY <1>1, <2>1 DEF origins, addresses
  <2>3. Fresh(key) /\ Credit(TRUE, owner, t, key, height, from, genuine)
    BY <1>1, <1>11, <1>16 DEF Credit, Used
  <2>4. from # NoAddress => from \in Addresses /\ ownerByWartAddress'[from] = owner
    BY <1>11, <1>14, <1>16, <2>2 DEF named
  <2>5. NewCredit(owner, t, key, height, from, genuine)
    BY <1>6, <1>9, <1>11, <1>12, <1>13, <1>14, <1>16, <2>2, <2>3, <2>4 DEF NewCredit
  <2>. QED  BY <1>2, <1>5, <1>8, <1>11, <2>5 DEF SomeCredit, height
<1>17. CASE ~ok
  <2>1. UNCHANGED creditVars
    BY <1>1, <1>17 DEF Credit, Used, creditVars
  <2>2. setting.reverts => UNCHANGED bindVars
    BY <1>1, <1>17 DEF Keeps
  <2>3. \/ UNCHANGED bindVars
        \/ ownerByOriginAccountId' = origins /\ ownerByWartAddress' = addresses
    BY <1>1 DEF origins, addresses
  <2>. QED  BY <1>13, <1>14, <1>15, <2>1, <2>2, <2>3 DEF NothingCredited, bindVars
<1>. QED  BY <1>11, <1>16, <1>17

(* So is an attested deposit.                                              *)
LEMMA AttestationCases ==
  ASSUME TypeOK, NEW owner \in Owners, NEW from \in setting.addresses,
         NEW t \in Transfers[setting.world] \cup Worlds[setting.world].attested,
         NEW hash \in Texts(setting.depositHashes, t),
         PoolDeposit(owner, t, hash, from)
  PROVE  NothingCredited \/ SomeCredit
<1>. DEFINE key     == DepositKey(hash)
            named   == from # NoAddress
            ok      == /\ t.to = Pool
                       /\ Fresh(key)
                       /\ named => MayBind(ownerByWartAddress, from, owner)
            genuine == /\ t \in Transfers[setting.world]
                       /\ setting.byHash /\ hash = TxHash(t)
<1>1. /\ ownerByWartAddress' = BoundIf(ownerByWartAddress, from, owner, named /\ ok)
      /\ Credit(ok, owner, t, key, 0, from, genuine)
      /\ ownerByOriginAccountId' = ownerByOriginAccountId
  BY DEF PoolDeposit
<1>2. /\ setting \in Settings /\ setting.world \in DOMAIN Worlds
      /\ setting.byHash \in BOOLEAN /\ from \in Addresses \cup {NoAddress}
      /\ 0 \in Heights
  BY SettingFacts DEF TypeOK, Heights
<1>3. t \in Creditable
  BY <1>2, AttestedAreCreditable
<1>4. key \in Keys
  <2>1. hash \in Texted \cup {NoText}
    BY <1>3, TextFacts
  <2>. QED  BY <2>1 DEF DepositKey, Keys
<1>5. genuine /\ ok => t \in Transfers[setting.world] /\ t.to = Pool /\ OwnKey(t, key)
  <2>1. DOMAIN TxHash(t) = {"prefix", "of"} /\ DOMAIN NoText = {"text"}
    BY DEF TxHash, NoText
  <2>2. "prefix" \notin {"text"}
    OBVIOUS
  <2>3. TxHash(t) # NoText
    BY <2>1, <2>2
  <2>. QED  BY <1>2, <2>3 DEF OwnKey, DepositKey
<1>6. /\ ownerByOriginAccountId \in Bindings(Accounts)
      /\ ownerByWartAddress \in Bindings(Addresses)
  BY DEF TypeOK
<1>7. /\ (named /\ ok) \in BOOLEAN /\ ok \in BOOLEAN /\ genuine \in BOOLEAN
      /\ named /\ ok => from \in Addresses /\ MayBind(ownerByWartAddress, from, owner)
      /\ ok => Fresh(key)
  BY <1>2
<1>. HIDE DEF key, named, ok, genuine
<1>. DEFINE nameOk    == named /\ ok
            addresses == BoundIf(ownerByWartAddress, from, owner, nameOk)
<1>8. /\ Extends(Addresses, ownerByWartAddress, addresses)
      /\ nameOk => addresses[from] = owner
      /\ \A x \in Addresses : addresses[x] # ownerByWartAddress[x] => x = from
  <2>1. MayBindIf(Addresses, ownerByWartAddress, from, owner, nameOk)
    BY <1>7 DEF MayBindIf
  <2>. HIDE DEF nameOk
  <2>2. BoundWell(Addresses, ownerByWartAddress, from, owner, nameOk, addresses)
    BY ONLY <1>6, <2>1, owner \in Owners, BindingFacts, Zenon
  <2>. QED  BY <2>2 DEF BoundWell
<1>9. /\ Extends(Accounts, ownerByOriginAccountId, ownerByOriginAccountId)
      /\ Extends(Addresses, ownerByWartAddress, ownerByWartAddress)
  BY <1>6, NothingBound
<1>10. ownerByWartAddress' = addresses
  BY <1>1
<1>. HIDE DEF addresses
<1>11. CASE ok
  <2>1. Fresh(key) /\ Credit(TRUE, owner, t, key, 0, from, genuine)
    BY <1>1, <1>7, <1>11 DEF Credit, Used
  <2>2. from # NoAddress => from \in Addresses /\ ownerByWartAddress'[from] = owner
    BY <1>7, <1>8, <1>10, <1>11 DEF named
  <2>3. ~ (0 > 0)
    OBVIOUS
  <2>4. NewCredit(owner, t, key, 0, from, genuine)
    BY <1>1, <1>5, <1>8, <1>9, <1>10, <1>11, <2>1, <2>2, <2>3 DEF NewCredit
  <2>. QED  BY <1>2, <1>3, <1>4, <1>7, <2>4 DEF SomeCredit
<1>12. CASE ~ok
  <2>1. UNCHANGED creditVars
    BY <1>1, <1>12 DEF Credit, Used, creditVars
  <2>2. UNCHANGED bindVars
    BY <1>1, <1>12 DEF BoundIf, bindVars
  <2>. QED  BY <1>9, <2>1, <2>2 DEF NothingCredited, bindVars
<1>. QED  BY <1>7, <1>11, <1>12

(* The two handlers' part of a step, each with the inputs it takes.        *)
SomeClaim ==
  \E owner \in Owners, claim \in LC!Claims, from \in setting.addresses :
    \E found \in Claimable[setting][claim.header.hash] :
      \E hash \in Texts(setting.claimHashes,
                        Transfer(claim.header.hash, found[1], found[2])) :
        WartDepositClaim(owner, claim, found[1], found[2], hash, from)

SomeDeposit ==
  \E owner \in Owners, from \in setting.addresses,
     t \in Transfers[setting.world] \cup Worlds[setting.world].attested :
    \E hash \in Texts(setting.depositHashes, t) : PoolDeposit(owner, t, hash, from)

LEMMA NextIs ==
  Next <=> /\ UNCHANGED setting
           /\ \/ SomeClaim \/ SomeDeposit \/ PoolDepositRefused \/ ClientInput
              \/ \E claim \in LC!Claims : ClaimWithoutTransfer(claim)
BY DEF Next, SomeClaim, SomeDeposit

(* A step credits something or nothing.                                    *)
LEMMA StepCases ==
  ASSUME TypeOK, [Next]_vars
  PROVE  setting' = setting /\ (NothingCredited \/ SomeCredit)
<1>1. ASSUME UNCHANGED <<bindVars, creditVars>> PROVE NothingCredited
  BY <1>1, NothingBound DEF NothingCredited, bindVars, TypeOK
<1>2. CASE UNCHANGED vars
  BY <1>1, <1>2 DEF vars
<1>3. CASE Next
  <2>1. CASE SomeClaim
    <3>1. PICK owner \in Owners, claim \in LC!Claims, from \in setting.addresses :
            \E found \in Claimable[setting][claim.header.hash] :
              \E hash \in Texts(setting.claimHashes,
                                Transfer(claim.header.hash, found[1], found[2])) :
                WartDepositClaim(owner, claim, found[1], found[2], hash, from)
      BY <2>1 DEF SomeClaim
    <3>2. PICK found \in Claimable[setting][claim.header.hash] :
            \E hash \in Texts(setting.claimHashes,
                              Transfer(claim.header.hash, found[1], found[2])) :
              WartDepositClaim(owner, claim, found[1], found[2], hash, from)
      BY <3>1
    <3>3. PICK hash \in Texts(setting.claimHashes,
                              Transfer(claim.header.hash, found[1], found[2])) :
            WartDepositClaim(owner, claim, found[1], found[2], hash, from)
      BY <3>2
    <3>. QED  BY <1>3, <3>3, NextIs, ClaimCases
  <2>2. CASE SomeDeposit
    BY <1>3, <2>2, NextIs, AttestationCases DEF SomeDeposit
  <2>3. CASE \E claim \in LC!Claims : ClaimWithoutTransfer(claim)
    BY <1>1, <1>3, <2>3, NextIs DEF ClaimWithoutTransfer
  <2>4. CASE PoolDepositRefused \/ ClientInput
    BY <1>1, <1>3, <2>4, NextIs DEF PoolDepositRefused, ClientInput
  <2>. QED  BY <1>3, <2>1, <2>2, <2>3, <2>4, NextIs
<1>. QED  BY <1>2, <1>3


-----------------------------------------------------------------------------
(* What a credit changes.                                                  *)

Record(owner, t, key, height, from, genuine) ==
  [transfer |-> t, owner |-> owner, key |-> key, height |-> height,
   from |-> from, genuine |-> genuine]

(* A credit is appended; the rest is kept.                                 *)
LEMMA CreditEffect ==
  ASSUME TypeOK, NEW owner \in Owners, NEW t \in Creditable, NEW key \in Keys,
         NEW height \in Heights, NEW from \in Addresses \cup {NoAddress},
         NEW genuine \in BOOLEAN, NewCredit(owner, t, key, height, from, genuine)
  PROVE  /\ DOMAIN credits = 1 .. Len(credits) /\ Len(credits) \in Nat
         /\ DOMAIN credits' = 1 .. Len(credits) + 1
         /\ credits' \in Seq(CreditRecords)
         /\ \A i \in DOMAIN credits : credits'[i] = credits[i]
         /\ credits'[Len(credits) + 1] = Record(owner, t, key, height, from, genuine)
<1>. DEFINE record == Record(owner, t, key, height, from, genuine)
<1>1. credits \in Seq(CreditRecords)
  BY DEF TypeOK
<1>2. record \in CreditRecords
  BY DEF CreditRecords, Record
<1>3. credits' = Append(credits, record)
  BY DEF NewCredit, Credit, Record
<1>. HIDE DEF record
<1>4. /\ DOMAIN credits = 1 .. Len(credits) /\ Len(credits) \in Nat
      /\ DOMAIN credits' = 1 .. Len(credits) + 1
      /\ credits' \in Seq(CreditRecords)
      /\ \A i \in 1 .. Len(credits) : credits'[i] = credits[i]
      /\ credits'[Len(credits) + 1] = record
  BY <1>1, <1>2, <1>3
<1>. QED  BY <1>4 DEF record

(* A credit is one of before or the new one.                               *)
LEMMA CreditAppended ==
  ASSUME TypeOK, NEW owner \in Owners, NEW t \in Creditable, NEW key \in Keys,
         NEW height \in Heights, NEW from \in Addresses \cup {NoAddress},
         NEW genuine \in BOOLEAN, NewCredit(owner, t, key, height, from, genuine)
  PROVE  /\ \A i \in DOMAIN credits :
              i \in DOMAIN credits' /\ credits'[i] = credits[i]
         /\ \E i \in DOMAIN credits' :
              credits'[i] = Record(owner, t, key, height, from, genuine)
         /\ \A i \in DOMAIN credits' :
              \/ i \in DOMAIN credits /\ credits'[i] = credits[i]
              \/ credits'[i] = Record(owner, t, key, height, from, genuine)
<1>. DEFINE n == Len(credits)
<1>1. /\ DOMAIN credits = 1 .. n /\ n \in Nat
      /\ DOMAIN credits' = 1 .. n + 1
      /\ \A i \in DOMAIN credits : credits'[i] = credits[i]
      /\ credits'[n + 1] = Record(owner, t, key, height, from, genuine)
  BY CreditEffect
<1>. HIDE DEF n
<1>2. \A i \in 1 .. n + 1 : i \in 1 .. n \/ i = n + 1
  BY <1>1
<1>3. n + 1 \in 1 .. n + 1 /\ \A i \in 1 .. n : i \in 1 .. n + 1
  BY <1>1
<1>. QED  BY <1>1, <1>2, <1>3

(* A credit's fields are typed.                                            *)
LEMMA CreditFacts ==
  ASSUME TypeOK, NEW i \in DOMAIN credits
  PROVE  credits[i] \in CreditRecords
BY DEF TypeOK

(* The bindings stay typed, and nobody's changes.                          *)
LEMMA BindingsExtend ==
  ASSUME TypeOK, [Next]_vars
  PROVE  /\ Extends(Accounts, ownerByOriginAccountId, ownerByOriginAccountId')
         /\ Extends(Addresses, ownerByWartAddress, ownerByWartAddress')
<1>1. CASE NothingCredited
  BY <1>1 DEF NothingCredited
<1>2. CASE SomeCredit
  BY <1>2 DEF SomeCredit, NewCredit
<1>. QED  BY <1>1, <1>2, StepCases

(* Every variable keeps its type.                                          *)
LEMMA TypeStep == ASSUME TypeOK, [Next]_vars PROVE TypeOK'
<1>1. setting' \in Settings
  BY StepCases DEF TypeOK
<1>2. /\ ownerByOriginAccountId' \in Bindings(Accounts)
      /\ ownerByWartAddress' \in Bindings(Addresses)
  BY BindingsExtend DEF Extends
<1>3. CASE NothingCredited
  BY <1>1, <1>2, <1>3 DEF TypeOK, NothingCredited, creditVars
<1>4. CASE SomeCredit
  <2>1. PICK owner \in Owners, t \in Creditable, key \in Keys, height \in Heights,
             from \in Addresses \cup {NoAddress}, genuine \in BOOLEAN :
          NewCredit(owner, t, key, height, from, genuine)
    BY <1>4 DEF SomeCredit
  <2>2. credits' \in Seq(CreditRecords)
    BY <2>1, CreditEffect
  <2>3. usedDepositTxs' \subseteq Keys
    BY <2>1 DEF NewCredit, Credit, Used, TypeOK
  <2>4. t.amountE8 \in Nat
    BY DEF Creditable
  <2>5. lockedE8' \in Nat /\ depositedE8' \in [Owners -> Nat]
    BY <2>1, <2>4 DEF NewCredit, Credit, TypeOK
  <2>. QED  BY <1>1, <1>2, <2>2, <2>3, <2>5 DEF TypeOK
<1>. QED  BY <1>3, <1>4, StepCases

-----------------------------------------------------------------------------
(* What is attributed, keys and bindings.                                  *)

AttributedInv == lockedE8 = SumFunctionOnSet(depositedE8, Owners)

(* The keys of credits are used: the converse of UsedKeysAreCredited.      *)
KeysAreUsed ==
  \A i \in DOMAIN credits :
    credits[i].key # NoText => credits[i].key \in usedDepositTxs

(* The account of a claim that was credited, and the address an input      *)
(* gave, are bound to the owner that got it.                               *)
CreditBound(credit, origins, addresses) ==
  /\ credit.height > 0 =>
       /\ credit.transfer.origin \in Accounts
       /\ origins[credit.transfer.origin] = credit.owner
  /\ credit.from # NoAddress => addresses[credit.from] = credit.owner

CreditsBound ==
  \A i \in DOMAIN credits :
    CreditBound(credits[i], ownerByOriginAccountId, ownerByWartAddress)

CreditInv ==
  /\ TypeOK /\ AttributedInv /\ UsedKeysAreCredited /\ KeysAreUsed
  /\ CreditsBound /\ BindingsAreEarned

(* The collateral is what is attributed.                                   *)
LEMMA AttributedStep ==
  ASSUME TypeOK, [Next]_vars, AttributedInv
  PROVE  AttributedInv'
<1>1. CASE NothingCredited
  BY <1>1 DEF AttributedInv, NothingCredited, creditVars
<1>2. CASE SomeCredit
  <2>1. PICK owner \in Owners, t \in Creditable, key \in Keys, height \in Heights,
             from \in Addresses \cup {NoAddress}, genuine \in BOOLEAN :
          NewCredit(owner, t, key, height, from, genuine)
    BY <1>2 DEF SomeCredit
  <2>. DEFINE amount == t.amountE8
  <2>2. amount \in Nat /\ depositedE8 \in [Owners -> Nat] /\ IsFiniteSet(Owners)
    BY OwnersAssumption DEF Creditable, TypeOK
  <2>3. /\ lockedE8' = lockedE8 + amount
        /\ depositedE8' = [depositedE8 EXCEPT ![owner] = @ + amount]
    BY <2>1 DEF NewCredit, Credit
  <2>. HIDE DEF amount
  <2>4. /\ depositedE8' \in [Owners -> Nat]
        /\ depositedE8'[owner] = depositedE8[owner] + amount
        /\ \A o \in Owners \ {owner} : depositedE8'[o] = depositedE8[o]
    BY <2>2, <2>3
  <2>5. SumFunctionOnSet(depositedE8', Owners) =
          SumFunctionOnSet(depositedE8, Owners) + amount
    BY <2>2, <2>4, SumRaised
  <2>. QED  BY <2>3, <2>5 DEF AttributedInv
<1>. QED  BY <1>1, <1>2, StepCases

(* The keys used are those of the credits.                                 *)
LEMMA KeysStep ==
  ASSUME TypeOK, [Next]_vars, UsedKeysAreCredited, KeysAreUsed
  PROVE  UsedKeysAreCredited' /\ KeysAreUsed'
<1>1. CASE NothingCredited
  BY <1>1 DEF UsedKeysAreCredited, KeysAreUsed, NothingCredited, creditVars
<1>2. CASE SomeCredit
  <2>1. PICK owner \in Owners, t \in Creditable, key \in Keys, height \in Heights,
             from \in Addresses \cup {NoAddress}, genuine \in BOOLEAN :
          NewCredit(owner, t, key, height, from, genuine)
    BY <1>2 DEF SomeCredit
  <2>. DEFINE record == Record(owner, t, key, height, from, genuine)
  <2>2. /\ \A i \in DOMAIN credits :
             i \in DOMAIN credits' /\ credits'[i] = credits[i]
        /\ \E i \in DOMAIN credits' : credits'[i] = record
        /\ \A i \in DOMAIN credits' :
             (i \in DOMAIN credits /\ credits'[i] = credits[i]) \/ credits'[i] = record
    BY <2>1, CreditAppended
  <2>3. record.key = key
    BY DEF Record
  <2>4. usedDepositTxs' = IF key # NoText THEN usedDepositTxs \cup {key}
                          ELSE usedDepositTxs
    BY <2>1 DEF NewCredit, Credit, Used
  <2>. HIDE DEF record
  <2>5. UsedKeysAreCredited'
    BY <2>2, <2>3, <2>4 DEF UsedKeysAreCredited
  <2>6. KeysAreUsed'
    BY <2>2, <2>3, <2>4 DEF KeysAreUsed
  <2>. QED  BY <2>5, <2>6
<1>. QED  BY <1>1, <1>2, StepCases

(* Whoever was credited stays bound, and who is credited gets bound.       *)
LEMMA BoundStep ==
  ASSUME TypeOK, [Next]_vars, CreditsBound
  PROVE  CreditsBound'
<1>. SUFFICES ASSUME NEW i \in DOMAIN credits'
              PROVE  CreditBound(credits'[i], ownerByOriginAccountId',
                                 ownerByWartAddress')
  BY DEF CreditsBound
<1>1. ASSUME i \in DOMAIN credits, credits'[i] = credits[i]
      PROVE  CreditBound(credits'[i], ownerByOriginAccountId', ownerByWartAddress')
  <2>1. CreditBound(credits[i], ownerByOriginAccountId, ownerByWartAddress)
    BY <1>1 DEF CreditsBound
  <2>2. /\ credits[i].owner # NoOwner
        /\ credits[i].from # NoAddress => credits[i].from \in Addresses
    BY <1>1, CreditFacts, OwnersAssumption DEF CreditRecords
  <2>. QED  BY <1>1, <2>1, <2>2, BindingsExtend DEF Extends, CreditBound
<1>2. CASE NothingCredited
  BY <1>1, <1>2 DEF NothingCredited, creditVars
<1>3. CASE SomeCredit
  <2>1. PICK owner \in Owners, t \in Creditable, key \in Keys, height \in Heights,
             from \in Addresses \cup {NoAddress}, genuine \in BOOLEAN :
          NewCredit(owner, t, key, height, from, genuine)
    BY <1>3 DEF SomeCredit
  <2>. DEFINE record == Record(owner, t, key, height, from, genuine)
  <2>2. (i \in DOMAIN credits /\ credits'[i] = credits[i]) \/ credits'[i] = record
    BY <2>1, CreditAppended
  <2>3. CreditBound(record, ownerByOriginAccountId', ownerByWartAddress')
    BY <2>1 DEF NewCredit, CreditBound, Record
  <2>. QED  BY <1>1, <2>2, <2>3
<1>. QED  BY <1>2, <1>3, StepCases

(* Where rejected inputs are reverted, nobody is bound without a credit.   *)
LEMMA BindingsStep ==
  ASSUME TypeOK, [Next]_vars, BindingsAreEarned
  PROVE  BindingsAreEarned'
<1>. SUFFICES ASSUME setting.reverts PROVE BindingsAreEarned'
  BY StepCases DEF BindingsAreEarned
<1>. DEFINE Claimed(credit, a, owner) == /\ credit.height > 0
                                         /\ credit.transfer.origin = a
                                         /\ credit.owner = owner
            Named(credit, a, owner)   == credit.from = a /\ credit.owner = owner
<1>1. CASE NothingCredited
  BY <1>1, StepCases DEF NothingCredited, creditVars, bindVars, BindingsAreEarned
<1>2. CASE SomeCredit
  <2>1. PICK owner \in Owners, t \in Creditable, key \in Keys, height \in Heights,
             from \in Addresses \cup {NoAddress}, genuine \in BOOLEAN :
          NewCredit(owner, t, key, height, from, genuine)
    BY <1>2 DEF SomeCredit
  <2>. DEFINE record == Record(owner, t, key, height, from, genuine)
  <2>2. /\ \A i \in DOMAIN credits :
             i \in DOMAIN credits' /\ credits'[i] = credits[i]
        /\ \E i \in DOMAIN credits' : credits'[i] = record
    BY <2>1, CreditAppended
  <2>3. /\ record.height = height /\ record.transfer.origin = t.origin
        /\ record.owner = owner /\ record.from = from
    BY DEF Record
  <2>4. /\ height > 0 => ownerByOriginAccountId'[t.origin] = owner
        /\ \A a \in Accounts :
             ownerByOriginAccountId'[a] # ownerByOriginAccountId[a] =>
               height > 0 /\ a = t.origin
        /\ from # NoAddress => ownerByWartAddress'[from] = owner
        /\ \A a \in Addresses :
             ownerByWartAddress'[a] # ownerByWartAddress[a] => a = from
    BY <2>1 DEF NewCredit
  <2>. HIDE DEF record
  <2>5. ASSUME NEW a \in Accounts, ownerByOriginAccountId'[a] # NoOwner
        PROVE  \E i \in DOMAIN credits' :
                 Claimed(credits'[i], a, ownerByOriginAccountId'[a])
    <3>1. CASE ownerByOriginAccountId'[a] = ownerByOriginAccountId[a]
      <4>1. \E i \in DOMAIN credits : Claimed(credits[i], a, ownerByOriginAccountId[a])
        BY <2>5, <3>1 DEF BindingsAreEarned
      <4>. HIDE DEF Claimed
      <4>. QED  BY <2>2, <3>1, <4>1
    <3>2. CASE ownerByOriginAccountId'[a] # ownerByOriginAccountId[a]
      <4>1. Claimed(record, a, ownerByOriginAccountId'[a])
        BY <2>3, <2>4, <3>2
      <4>. HIDE DEF Claimed
      <4>. QED  BY <2>2, <4>1
    <3>. QED  BY <3>1, <3>2
  <2>6. ASSUME NEW a \in Addresses, ownerByWartAddress'[a] # NoOwner
        PROVE  \E i \in DOMAIN credits' :
                 Named(credits'[i], a, ownerByWartAddress'[a])
    <3>1. CASE ownerByWartAddress'[a] = ownerByWartAddress[a]
      <4>1. \E i \in DOMAIN credits : Named(credits[i], a, ownerByWartAddress[a])
        BY <2>6, <3>1 DEF BindingsAreEarned
      <4>. HIDE DEF Named
      <4>. QED  BY <2>2, <3>1, <4>1
    <3>2. CASE ownerByWartAddress'[a] # ownerByWartAddress[a]
      <4>1. from # NoAddress
        BY <2>4, <3>2, OwnersAssumption
      <4>2. Named(record, a, ownerByWartAddress'[a])
        BY <2>3, <2>4, <3>2, <4>1
      <4>. HIDE DEF Named
      <4>. QED  BY <2>2, <4>2
    <3>. QED  BY <3>1, <3>2
  <2>. QED  BY <2>5, <2>6 DEF BindingsAreEarned
<1>. QED  BY <1>1, <1>2, StepCases

-----------------------------------------------------------------------------
(* The invariant and what follows from it.                                 *)

LEMMA CreditInit == Init => CreditInv
<1>. SUFFICES ASSUME Init PROVE CreditInv
  OBVIOUS
<1>1. TypeOK
  BY DEF Init, TypeOK, Bindings
<1>2. SumFunctionOnSet(depositedE8, Owners) = 0
  <2>1. depositedE8 \in [Owners -> Nat] /\ \A o \in Owners : depositedE8[o] = 0
    BY DEF Init
  <2>. QED  BY <2>1, OwnersAssumption, SumOfZero
<1>3. DOMAIN credits = {}
  BY DEF Init
<1>4. BindingsAreEarned
  BY DEF Init, BindingsAreEarned
<1>. QED  BY <1>1, <1>2, <1>3, <1>4
          DEF Init, CreditInv, AttributedInv, UsedKeysAreCredited, KeysAreUsed,
              CreditsBound

LEMMA CreditStep == CreditInv /\ [Next]_vars => CreditInv'
BY TypeStep, AttributedStep, KeysStep, BoundStep, BindingsStep DEF CreditInv

THEOREM CreditInvHolds == Spec => []CreditInv
BY CreditInit, CreditStep, PTL DEF Spec

(* The variables are what index.js takes them for.                         *)
THEOREM TypeCorrect == Spec => []TypeOK
<1>1. CreditInv => TypeOK
  BY DEF CreditInv
<1>. QED  BY <1>1, CreditInvHolds, PTL

(* No input that is not credited uses up a key.                            *)
THEOREM OnlyCreditsUseKeys == Spec => []UsedKeysAreCredited
<1>1. CreditInv => UsedKeysAreCredited
  BY DEF CreditInv
<1>. QED  BY <1>1, CreditInvHolds, PTL

(* Claims of what one account number sent are credited to one owner, and   *)
(* so are all inputs that give the same address, whatever they say.        *)
THEOREM CreditIsNotStolen == Spec => []OneOwnerPerAccount
<1>1. CreditInv => OneOwnerPerAccount
  BY DEF CreditInv, CreditsBound, CreditBound, OneOwnerPerAccount
<1>. QED  BY <1>1, CreditInvHolds, PTL

(* Where rejected inputs are reverted, no account and no address is bound  *)
(* to an owner that was not credited for it.                               *)
THEOREM NobodyIsBoundForNothing == Spec => []BindingsAreEarned
<1>1. CreditInv => BindingsAreEarned
  BY DEF CreditInv
<1>. QED  BY <1>1, CreditInvHolds, PTL

-----------------------------------------------------------------------------
(* What the collateral is made of.                                         *)

(* A block is always claimed at the same height.                           *)
OneHeight == \A g, h \in Headers : g.hash = h.hash => g.height = h.height

(* Every transfer has one key that genuine inputs give it.                 *)
Keyed == setting.byHash \/ OneHeight

GenuineInv ==
  \A i \in Genuine :
    /\ credits[i].transfer \in Transfers[setting.world]
    /\ credits[i].transfer.to = Pool
    /\ OwnKey(credits[i].transfer, credits[i].key)

GenuineAmounts == [t \in GenuineTransfers |-> t.amountE8]
MadeAmounts    == [i \in Made |-> credits[i].transfer.amountE8]

CountedInv ==
  /\ IsFiniteSet(GenuineTransfers)
  /\ Keyed => lockedE8 = SumFunction(GenuineAmounts) + SumFunction(MadeAmounts)

CollateralInv == CreditInv /\ GenuineInv /\ CountedInv

(* A summand more.                                                         *)
LEMMA SumGrows ==
  ASSUME NEW S, IsFiniteSet(S), NEW x, x \notin S,
         NEW f \in [S -> Nat], NEW g \in [S \cup {x} -> Nat],
         \A s \in S : g[s] = f[s]
  PROVE  /\ SumFunction(f) \in Nat /\ g[x] \in Nat
         /\ SumFunction(g) = SumFunction(f) + g[x]
<1>. DEFINE T == S \cup {x}
<1>1. /\ S \in SUBSET T /\ T \in SUBSET T /\ S \in SUBSET S
      /\ x \in T /\ T \ {x} = S /\ S \subseteq T /\ S \subseteq S
      /\ IsFiniteSet(T)
  BY FS_AddElement
<1>2. /\ f \in [S -> Nat] /\ g \in [T -> Nat]
      /\ DOMAIN f = S /\ DOMAIN g = T /\ g[x] \in Nat
  OBVIOUS
<1>. HIDE DEF T
<1>3. SumFunctionOnSet(g, T) = g[x] + SumFunctionOnSet(g, T \ {x})
  BY <1>1, <1>2, SumRemove
<1>4. SumFunctionOnSet(g, S) = SumFunctionOnSet(f, S)
  BY <1>1, <1>2, SumAgree
<1>5. SumFunctionOnSet(f, S) \in Nat
  BY <1>1, <1>2, SumType
<1>. QED  BY <1>1, <1>2, <1>3, <1>4, <1>5 DEF SumFunction

(* A transfer that was credited to a genuine input has its key used.       *)
LEMMA NewTransfer ==
  ASSUME CollateralInv, Keyed, NEW t, NEW key, Fresh(key), OwnKey(t, key)
  PROVE  t \notin GenuineTransfers
<1>. SUFFICES ASSUME NEW i \in Genuine, credits[i].transfer = t PROVE FALSE
  BY DEF GenuineTransfers
<1>1. /\ i \in DOMAIN credits /\ OwnKey(t, credits[i].key)
      /\ credits[i].key # NoText => credits[i].key \in usedDepositTxs
  BY DEF CollateralInv, CreditInv, KeysAreUsed, GenuineInv, Genuine
<1>2. key # NoText /\ key \notin usedDepositTxs
  BY DEF Fresh, OwnKey
<1>3. credits[i].key # NoText
  BY <1>1 DEF OwnKey
<1>4. credits[i].key = key
  <2>1. CASE setting.byHash
    BY <1>1, <2>1 DEF OwnKey
  <2>2. CASE ~setting.byHash
    <3>1. OneHeight
      BY <2>2 DEF Keyed
    <3>2. PICK g \in Headers :
            g.hash = t.block /\ credits[i].key = ClaimKey(NoText, g.height, t)
      BY <1>1, <2>2 DEF OwnKey
    <3>3. PICK h \in Headers : h.hash = t.block /\ key = ClaimKey(NoText, h.height, t)
      BY <2>2 DEF OwnKey
    <3>4. g.height = h.height
      BY <3>1, <3>2, <3>3 DEF OneHeight
    <3>. QED  BY <3>2, <3>3, <3>4
  <2>. QED  BY <2>1, <2>2
<1>. QED  BY <1>1, <1>2, <1>3, <1>4

(* The sets of credits after one of transfer t, and its place.             *)
SetsGrow(t, genuine, n) ==
  /\ n \notin DOMAIN credits /\ DOMAIN credits' = DOMAIN credits \cup {n}
  /\ Genuine' = IF genuine THEN Genuine \cup {n} ELSE Genuine
  /\ Made' = IF genuine THEN Made ELSE Made \cup {n}
  /\ GenuineTransfers' =
       IF genuine THEN GenuineTransfers \cup {t} ELSE GenuineTransfers

LEMMA CreditGrows ==
  ASSUME TypeOK, NEW owner \in Owners, NEW t \in Creditable, NEW key \in Keys,
         NEW height \in Heights, NEW from \in Addresses \cup {NoAddress},
         NEW genuine \in BOOLEAN, NewCredit(owner, t, key, height, from, genuine)
  PROVE  SetsGrow(t, genuine, Len(credits) + 1)
<1>. DEFINE n == Len(credits) + 1
<1>1. /\ DOMAIN credits = 1 .. Len(credits) /\ Len(credits) \in Nat
      /\ DOMAIN credits' = 1 .. n
      /\ \A i \in DOMAIN credits : credits'[i] = credits[i]
      /\ credits'[n] = Record(owner, t, key, height, from, genuine)
  BY CreditEffect
<1>2. DOMAIN credits' = DOMAIN credits \cup {n} /\ n \notin DOMAIN credits
  BY <1>1
<1>3. credits'[n].genuine = genuine /\ credits'[n].transfer = t
  BY <1>1 DEF Record
<1>. HIDE DEF n
<1>4. Genuine' = { i \in DOMAIN credits \cup {n} : credits'[i].genuine }
  BY <1>2 DEF Genuine
<1>5. /\ \A i \in DOMAIN credits : credits'[i].genuine <=> credits[i].genuine
      /\ \A i \in DOMAIN credits : credits'[i].transfer = credits[i].transfer
  BY <1>1
<1>6. Genuine' = IF genuine THEN Genuine \cup {n} ELSE Genuine
  BY <1>2, <1>3, <1>4, <1>5, Zenon DEF Genuine
<1>7. Made' = IF genuine THEN Made ELSE Made \cup {n}
  <2>1. Genuine \subseteq DOMAIN credits
    BY DEF Genuine
  <2>. QED  BY <1>2, <1>6, <2>1 DEF Made
<1>8. GenuineTransfers' = IF genuine THEN GenuineTransfers \cup {t} ELSE GenuineTransfers
  <2>1. \A i \in Genuine : credits'[i].transfer = credits[i].transfer
    BY <1>5 DEF Genuine
  <2>2. GenuineTransfers' = { credits'[i].transfer : i \in Genuine' }
    BY DEF GenuineTransfers
  <2>3. CASE genuine
    BY <1>3, <1>6, <2>1, <2>2, <2>3 DEF GenuineTransfers
  <2>4. CASE ~genuine
    BY <1>6, <2>1, <2>2, <2>4 DEF GenuineTransfers
  <2>. QED  BY <2>3, <2>4
<1>. QED  BY <1>2, <1>6, <1>7, <1>8 DEF SetsGrow, n

LEMMA GenuineStep ==
  ASSUME TypeOK, [Next]_vars, GenuineInv
  PROVE  GenuineInv'
<1>1. setting' = setting
  BY StepCases
<1>2. CASE NothingCredited
  BY <1>1, <1>2 DEF GenuineInv, Genuine, OwnKey, NothingCredited, creditVars
<1>3. CASE SomeCredit
  <2>1. PICK owner \in Owners, t \in Creditable, key \in Keys, height \in Heights,
             from \in Addresses \cup {NoAddress}, genuine \in BOOLEAN :
          NewCredit(owner, t, key, height, from, genuine)
    BY <1>3 DEF SomeCredit
  <2>. DEFINE record == Record(owner, t, key, height, from, genuine)
  <2>2. \A i \in DOMAIN credits' :
          (i \in DOMAIN credits /\ credits'[i] = credits[i]) \/ credits'[i] = record
    BY <2>1, CreditAppended
  <2>3. record.genuine = genuine /\ record.transfer = t /\ record.key = key
    BY DEF Record
  <2>4. genuine => t \in Transfers[setting.world] /\ t.to = Pool /\ OwnKey(t, key)
    BY <2>1 DEF NewCredit
  <2>. HIDE DEF record
  <2>5. SUFFICES ASSUME NEW i \in DOMAIN credits', credits'[i].genuine
                 PROVE  /\ credits'[i].transfer \in Transfers[setting.world]
                        /\ credits'[i].transfer.to = Pool
                        /\ OwnKey(credits'[i].transfer, credits'[i].key)
    BY <1>1 DEF GenuineInv, Genuine, OwnKey
  <2>6. CASE i \in DOMAIN credits /\ credits'[i] = credits[i]
    BY <2>5, <2>6 DEF GenuineInv, Genuine
  <2>7. CASE credits'[i] = record
    BY <2>3, <2>4, <2>5, <2>7
  <2>. QED  BY <2>2, <2>6, <2>7
<1>. QED  BY <1>2, <1>3, StepCases

(* The amounts of credits are natural numbers.                             *)
AmountsAreTyped ==
  /\ GenuineAmounts \in [GenuineTransfers -> Nat]
  /\ MadeAmounts \in [Made -> Nat] /\ IsFiniteSet(Made)

LEMMA AmountsTyped == TypeOK => AmountsAreTyped
<1>. SUFFICES ASSUME TypeOK PROVE AmountsAreTyped
  OBVIOUS
<1>1. \A i \in DOMAIN credits : credits[i].transfer.amountE8 \in Nat
  BY CreditFacts DEF CreditRecords, Creditable
<1>2. GenuineAmounts \in [GenuineTransfers -> Nat]
  BY <1>1 DEF GenuineAmounts, GenuineTransfers, Genuine
<1>3. MadeAmounts \in [Made -> Nat]
  BY <1>1 DEF MadeAmounts, Made
<1>4. IsFiniteSet(Made)
  <2>1. credits \in Seq(CreditRecords)
    BY DEF TypeOK
  <2>2. Len(credits) \in Int /\ 1 \in Int /\ DOMAIN credits = 1 .. Len(credits)
    BY <2>1, LenProperties
  <2>3. IsFiniteSet(DOMAIN credits)
    BY <2>2, FS_Interval
  <2>. QED  BY <2>3, FS_Subset DEF Made
<1>. QED  BY <1>2, <1>3, <1>4 DEF AmountsAreTyped

LEMMA AmountsTypedNext == TypeOK' => AmountsAreTyped'
BY AmountsTyped, PTL

LEMMA CountedStep ==
  ASSUME CollateralInv, [Next]_vars
  PROVE  CountedInv'
<1>1. TypeOK /\ TypeOK' /\ setting' = setting /\ (Keyed' <=> Keyed)
  BY CreditStep, StepCases DEF CollateralInv, CreditInv, Keyed, OneHeight
<1>2. CASE NothingCredited
  <2>1. credits' = credits /\ lockedE8' = lockedE8
    BY <1>2 DEF NothingCredited, creditVars
  <2>2. /\ GenuineTransfers' = GenuineTransfers
        /\ GenuineAmounts' = GenuineAmounts /\ MadeAmounts' = MadeAmounts
    BY <2>1 DEF GenuineTransfers, GenuineAmounts, MadeAmounts, Genuine, Made
  <2>. QED  BY <1>1, <2>1, <2>2 DEF CollateralInv, CountedInv
<1>3. CASE SomeCredit
  <2>1. PICK owner \in Owners, t \in Creditable, key \in Keys, height \in Heights,
             from \in Addresses \cup {NoAddress}, genuine \in BOOLEAN :
          NewCredit(owner, t, key, height, from, genuine)
    BY <1>3 DEF SomeCredit
  <2>. DEFINE n == Len(credits) + 1
              amount == t.amountE8
  <2>2. SetsGrow(t, genuine, n)
    BY <1>1, <2>1, CreditGrows
  <2>3. /\ \A i \in DOMAIN credits : credits'[i] = credits[i]
        /\ credits'[n].transfer = t
    <3>1. /\ \A i \in DOMAIN credits : credits'[i] = credits[i]
          /\ credits'[n] = Record(owner, t, key, height, from, genuine)
      BY <1>1, <2>1, CreditEffect
    <3>2. Record(owner, t, key, height, from, genuine).transfer = t
      BY DEF Record
    <3>. QED  BY <3>1, <3>2
  <2>4. /\ Fresh(key) /\ lockedE8' = lockedE8 + amount
        /\ genuine => OwnKey(t, key)
    BY <2>1 DEF NewCredit, Credit
  <2>5. amount \in Nat
    BY DEF Creditable
  <2>. HIDE DEF n
  <2>6. /\ GenuineAmounts \in [GenuineTransfers -> Nat]
        /\ MadeAmounts \in [Made -> Nat] /\ IsFiniteSet(Made)
    BY <1>1, AmountsTyped DEF AmountsAreTyped
  <2>7. /\ GenuineAmounts' \in [GenuineTransfers' -> Nat]
        /\ MadeAmounts' \in [Made' -> Nat]
    BY <1>1, AmountsTypedNext DEF AmountsAreTyped
  <2>8. IsFiniteSet(GenuineTransfers) /\ IsFiniteSet(GenuineTransfers')
    BY <2>2, FS_AddElement DEF CollateralInv, CountedInv, SetsGrow
  <2>9. CASE genuine
    <3>1. /\ GenuineTransfers' = GenuineTransfers \cup {t} /\ Made' = Made
      BY <2>2, <2>9 DEF SetsGrow
    <3>2. MadeAmounts' = MadeAmounts
      BY <2>3, <3>1 DEF MadeAmounts, Made
    <3>3. ASSUME Keyed
          PROVE  lockedE8' = SumFunction(GenuineAmounts') + SumFunction(MadeAmounts')
      <4>1. t \notin GenuineTransfers
        BY <2>4, <2>9, <3>3, NewTransfer
      <4>2. /\ \A u \in GenuineTransfers : GenuineAmounts'[u] = GenuineAmounts[u]
            /\ GenuineAmounts'[t] = amount
        BY <3>1 DEF GenuineAmounts
      <4>. DEFINE f == GenuineAmounts
                  g == GenuineAmounts'
                  S == GenuineTransfers
      <4>3. /\ IsFiniteSet(S) /\ t \notin S /\ f \in [S -> Nat]
            /\ g \in [S \cup {t} -> Nat] /\ \A s \in S : g[s] = f[s]
            /\ g[t] = amount
        BY <2>6, <2>7, <2>8, <3>1, <4>1, <4>2
      <4>4. lockedE8 = SumFunction(f) + SumFunction(MadeAmounts)
        BY <3>3 DEF CollateralInv, CountedInv
      <4>. HIDE DEF f, g, S, amount
      <4>5. SumFunction(f) \in Nat /\ SumFunction(g) = SumFunction(f) + amount
        BY <4>3, SumGrows
      <4>6. SumFunction(MadeAmounts) \in Nat
        <5>1. Made \in SUBSET Made /\ DOMAIN MadeAmounts = Made
          BY <2>6
        <5>. QED  BY <2>6, <5>1, SumType DEF SumFunction
      <4>7. lockedE8' = SumFunction(g) + SumFunction(MadeAmounts)
        BY <2>4, <2>5, <4>4, <4>5, <4>6
      <4>. QED  BY <3>2, <4>7 DEF g
    <3>. QED  BY <1>1, <2>8, <3>3 DEF CountedInv
  <2>10. CASE ~genuine
    <3>1. /\ GenuineTransfers' = GenuineTransfers /\ Made' = Made \cup {n}
          /\ n \notin Made
      BY <2>2, <2>10 DEF SetsGrow, Made
    <3>2. GenuineAmounts' = GenuineAmounts
      BY <3>1 DEF GenuineAmounts
    <3>3. ASSUME Keyed
          PROVE  lockedE8' = SumFunction(GenuineAmounts') + SumFunction(MadeAmounts')
      <4>1. /\ \A i \in Made : MadeAmounts'[i] = MadeAmounts[i]
            /\ MadeAmounts'[n] = amount
        BY <2>3, <3>1 DEF MadeAmounts, Made
      <4>. DEFINE f == MadeAmounts
                  g == MadeAmounts'
                  S == Made
      <4>2. /\ IsFiniteSet(S) /\ n \notin S /\ f \in [S -> Nat]
            /\ g \in [S \cup {n} -> Nat] /\ \A s \in S : g[s] = f[s]
            /\ g[n] = amount
        BY <2>6, <2>7, <3>1, <4>1
      <4>3. lockedE8 = SumFunction(GenuineAmounts) + SumFunction(f)
        BY <3>3 DEF CollateralInv, CountedInv
      <4>. HIDE DEF f, g, S, amount
      <4>4. SumFunction(f) \in Nat /\ SumFunction(g) = SumFunction(f) + amount
        BY <4>2, SumGrows
      <4>5. SumFunction(GenuineAmounts) \in Nat
        <5>1. /\ GenuineTransfers \in SUBSET GenuineTransfers
              /\ DOMAIN GenuineAmounts = GenuineTransfers
          BY <2>6
        <5>. QED  BY <2>6, <2>8, <5>1, SumType DEF SumFunction
      <4>6. lockedE8' = SumFunction(GenuineAmounts) + SumFunction(g)
        BY <2>4, <2>5, <4>3, <4>4, <4>5
      <4>. QED  BY <3>2, <4>6 DEF g
    <3>. QED  BY <1>1, <2>8, <3>3 DEF CountedInv
  <2>. QED  BY <2>9, <2>10
<1>. QED  BY <1>2, <1>3, StepCases DEF CollateralInv, CreditInv

LEMMA CollateralStep == CollateralInv /\ [Next]_vars => CollateralInv'
BY CreditStep, GenuineStep, CountedStep DEF CollateralInv, CreditInv

(* What genuine inputs are credited for are distinct transfers that are in *)
(* their blocks and pay the pool; the collateral is those and what other   *)
(* inputs were credited with, and it is all attributed.                    *)
THEOREM CollateralIsNeverMadeUp ==
  Spec => [](setting.byHash \/ OneHeight => CollateralIsReal)
<1>1. Init => CollateralInv
  <2>. SUFFICES ASSUME Init PROVE CollateralInv
    OBVIOUS
  <2>1. DOMAIN credits = {} /\ lockedE8 = 0
    BY DEF Init
  <2>2. Genuine = {} /\ Made = {} /\ GenuineTransfers = {}
    BY <2>1 DEF Genuine, Made, GenuineTransfers
  <2>3. DOMAIN GenuineAmounts = {} /\ DOMAIN MadeAmounts = {}
    BY <2>2 DEF GenuineAmounts, MadeAmounts
  <2>4. SumFunction(GenuineAmounts) = 0 /\ SumFunction(MadeAmounts) = 0
    BY <2>3, SumEmpty DEF SumFunction
  <2>5. GenuineInv
    BY <2>2 DEF GenuineInv
  <2>. QED  BY <2>1, <2>2, <2>4, <2>5, CreditInit, FS_EmptySet
            DEF CollateralInv, CountedInv
<1>2. CollateralInv => (setting.byHash \/ OneHeight => CollateralIsReal)
  <2>. SUFFICES ASSUME CollateralInv, setting.byHash \/ OneHeight
                PROVE  CollateralIsReal
    OBVIOUS
  <2>1. GenuineTransfers \subseteq { t \in Transfers[setting.world] : t.to = Pool }
    BY DEF CollateralInv, GenuineInv, GenuineTransfers
  <2>2. lockedE8 = SumFunction(GenuineAmounts) + SumFunction(MadeAmounts)
    BY DEF CollateralInv, CountedInv, Keyed
  <2>3. DOMAIN depositedE8 = Owners /\ lockedE8 = SumFunctionOnSet(depositedE8, Owners)
    BY DEF CollateralInv, CreditInv, TypeOK, AttributedInv
  <2>. QED  BY <2>1, <2>2, <2>3
            DEF CollateralIsReal, GenuineAmounts, MadeAmounts, SumFunction
<1>. QED  BY <1>1, <1>2, CollateralStep, PTL DEF Spec

-----------------------------------------------------------------------------
(* The light client of the claims, and what is proved of it.               *)

LCP == INSTANCE SpvLightClientProofs
        WITH Reverting <- BOOLEAN, reverts <- setting.reverts

LEMMA ClientHolds ==
  /\ LCP!HeadersAssumption /\ LCP!WindowsAssumption /\ LCP!PinsAssumption
  /\ LCP!LimitsAssumption /\ LCP!FlagsAssumption
BY ClientAssumption
   DEF LC!HeadersAssumption, LC!WindowsAssumption, LC!PinsAssumption,
       LC!LimitsAssumption, LC!FlagsAssumption, LC!Hashes,
       LCP!HeadersAssumption, LCP!WindowsAssumption, LCP!PinsAssumption,
       LCP!LimitsAssumption, LCP!FlagsAssumption, LCP!Hashes

(* It is the same client: the instance has every definition once more.     *)
LEMMA SameCardinality == \A S : LC!Cardinality(S) = LCP!Cardinality(S)
BY Zenon DEF LC!Cardinality, LCP!Cardinality

LEMMA SameTrim == \A c : LC!Trim(c) = LCP!Trim(c)
BY SameCardinality, Zenon
   DEF LC!Trim, LCP!Trim, LC!Restrict, LCP!Restrict

LEMMA SameStore ==
  /\ \A c, h : LC!Put(c, h) = LCP!Put(c, h)
  /\ \A c, h : LC!Bootstrapped(c, h) = LCP!Bootstrapped(c, h)
  /\ \A c, pin : LC!RecordPin(c, pin) = LCP!RecordPin(c, pin)
BY Zenon
   DEF LC!Put, LCP!Put, LC!WithHeader, LCP!WithHeader, LC!Bootstrapped,
       LCP!Bootstrapped, LC!RecordPin, LCP!RecordPin, LC!Returns, LCP!Returns,
       LC!Throws, LCP!Throws, LC!Stored, LCP!Stored, LC!StoredSame,
       LCP!StoredSame

LEMMA SameFold ==
  ASSUME NEW r, NEW window
  PROVE  LC!FoldLeft(LC!ApplyOne, r, window) = LCP!FoldLeft(LCP!ApplyOne, r, window)
BY Zenon
   DEF LC!FoldLeft, LCP!FoldLeft, LC!MapThenFoldSet, LCP!MapThenFoldSet,
       LC!Max, LCP!Max, LC!ApplyOne, LCP!ApplyOne, LC!AppendOne, LCP!AppendOne,
       LC!Returns, LCP!Returns, LC!Throws, LCP!Throws, LC!Stored, LCP!Stored,
       LC!StoredSame, LCP!StoredSame, LC!ParentStored, LCP!ParentStored,
       LC!Put, LCP!Put, LC!WithHeader, LCP!WithHeader

LEMMA SameApply ==
  ASSUME NEW c, NEW window, NEW bootstrap, NEW pin
  PROVE  LC!ApplyHeaders(c, window, bootstrap, pin) =
           LCP!ApplyHeaders(c, window, bootstrap, pin)
BY SameFold, SameStore, SameTrim, Zenon
   DEF LC!ApplyHeaders, LCP!ApplyHeaders, LC!HeadersLinked, LCP!HeadersLinked,
       LC!Returns, LCP!Returns, LC!Throws, LCP!Throws

LEMMA SameClaim ==
  ASSUME NEW c, NEW claim
  PROVE  LC!ClaimBlock(c, claim) = LCP!ClaimBlock(c, claim)
BY SameApply, SameStore, Zenon
   DEF LC!ClaimBlock, LCP!ClaimBlock, LC!ClaimWindow, LCP!ClaimWindow,
       LC!AdoptBlock, LCP!AdoptBlock, LC!Returns, LCP!Returns, LC!Throws,
       LCP!Throws, LC!Stored, LCP!Stored, LC!StoredSame, LCP!StoredSame,
       LC!ParentStored, LCP!ParentStored

LEMMA SameEnds == ASSUME NEW result PROVE LC!Ends(result) <=> LCP!Ends(result)
BY DEF LC!Ends, LCP!Ends

LEMMA SameInputs ==
  /\ LC!BootstrapRejected <=> LCP!BootstrapRejected
  /\ \A h, pin : LC!WartCheckpoint(h, pin) <=> LCP!WartCheckpoint(h, pin)
  /\ \A window, pin :
       /\ LC!WartBootstrap(window, pin) <=> LCP!WartBootstrap(window, pin)
       /\ LC!WartHeaders(window, pin) <=> LCP!WartHeaders(window, pin)
BY SameEnds, SameStore, SameApply, Zenon
   DEF LC!BootstrapRejected, LCP!BootstrapRejected, LC!WartCheckpoint,
       LCP!WartCheckpoint, LC!WartBootstrap, LCP!WartBootstrap, LC!WartHeaders,
       LCP!WartHeaders, LC!MayBootstrap, LCP!MayBootstrap, LC!Returns,
       LCP!Returns, LC!Throws, LCP!Throws

LEMMA SameTypes ==
  /\ LC!Claims = LCP!Claims
  /\ LC!TipWindow = LCP!WindowOf(lc)
  /\ LC!NewClient = LCP!NewClient
BY DEF LC!Claims, LCP!Claims, LC!TipWindow, LCP!WindowOf, LC!NewClient,
       LCP!NewClient

-----------------------------------------------------------------------------
(* Blocks that were credited stay on the chain.                            *)

(* What a step may do to the client.                                       *)
ClientStep == LCP!Sound(lc') /\ LCP!Extends(lc, lc')

LEMMA ClientStays == ASSUME LCP!Sound(lc), lc' = lc PROVE ClientStep
<1>1. lc \in LCP!Clients
  BY DEF LCP!Sound
<1>. QED  BY <1>1, ClientHolds, LCP!ExtendsItself DEF ClientStep

(* The operation of a claim, whether it ends in a credit or not.           *)
LEMMA ClaimStep ==
  ASSUME LCP!Sound(lc), NEW claim \in LC!Claims, NEW ok,
         LC!Ends([LC!ClaimBlock(lc, claim) EXCEPT !.ok = ok])
  PROVE  ClientStep
<1>1. claim \in LCP!Claims
  BY SameTypes
<1>2. LCP!Ends([LCP!ClaimBlock(lc, claim) EXCEPT !.ok = ok])
  BY SameClaim, SameEnds
<1>. QED  BY <1>1, <1>2, ClientHolds, LCP!ClaimKeeps DEF ClientStep

LEMMA InputStep ==
  ASSUME ~AllowRebootstrap, LCP!Sound(lc), ClientInput
  PROVE  ClientStep
<1>1. \/ \E h \in Headers : LCP!WartCheckpoint(h, NoPin)
      \/ \E window \in Windows, pin \in Pins \cup {NoPin} :
           LCP!WartBootstrap(window, pin) \/ LCP!WartHeaders(window, pin)
      \/ LCP!BootstrapRejected
  BY SameInputs DEF ClientInput
<1>2. NoPin \in LCP!WholePins \cup {NoPin}
  OBVIOUS
<1>. QED  BY <1>1, <1>2, ClientHolds, LCP!ClientInputKeeps DEF ClientStep

LEMMA ClientSteps ==
  ASSUME ~AllowRebootstrap, LCP!Sound(lc), [Next]_vars
  PROVE  ClientStep
<1>1. CASE lc' = lc
  BY <1>1, ClientStays
<1>2. CASE SomeClaim
  BY <1>2, ClaimStep DEF SomeClaim, WartDepositClaim
<1>3. CASE \E claim \in LC!Claims : ClaimWithoutTransfer(claim)
  BY <1>3, ClaimStep DEF ClaimWithoutTransfer
<1>4. CASE ClientInput
  BY <1>4, InputStep
<1>5. CASE SomeDeposit
  BY <1>1, <1>5 DEF SomeDeposit, PoolDeposit
<1>6. CASE PoolDepositRefused
  BY <1>1, <1>6 DEF PoolDepositRefused
<1>7. CASE UNCHANGED vars
  BY <1>1, <1>7 DEF vars
<1>. QED  BY <1>2, <1>3, <1>4, <1>5, <1>6, <1>7, NextIs

(* The block of a credit that a claim gave is on the chain.                *)
CreditOnChain(c, credit) ==
  credit.height > 0 => LCP!OnChain(c, credit.height, credit.transfer.block)

ChainInv ==
  /\ LCP!Sound(lc)
  /\ \A i \in DOMAIN credits : CreditOnChain(lc, credits[i])

(* A claim is only credited when the client has its block.                 *)
LEMMA ClaimOnChain ==
  ASSUME LCP!Sound(lc), NEW owner, NEW claim \in LC!Claims, NEW body, NEW place,
         NEW hash, NEW from,
         WartDepositClaim(owner, claim, body, place, hash, from),
         credits' # credits
  PROVE  \E record :
           credits' = Append(credits, record) /\ CreditOnChain(lc', record)
<1>. DEFINE result == LC!ClaimBlock(lc, claim)
            t      == Transfer(claim.header.hash, body, place)
            height == claim.header.height
<1>1. PICK key, ok, genuine :
        /\ ok => result.ok
        /\ LC!Ends([result EXCEPT !.ok = ok])
        /\ Credit(ok, owner, t, key, height, from, genuine)
  BY DEF WartDepositClaim
<1>2. t.block = claim.header.hash
  BY DEF Transfer
<1>. DEFINE record == Record(owner, t, key, height, from, genuine)
<1>3. ok /\ credits' = Append(credits, record)
  BY <1>1 DEF Credit, Record
<1>4. record.transfer = t /\ record.height = height
  BY DEF Record
<1>5. claim \in LCP!Claims /\ result = LCP!ClaimBlock(lc, claim)
  BY SameTypes, SameClaim
<1>6. result \in LCP!Results
  BY <1>5, ClientHolds, LCP!ClaimBlockKeeps DEF LCP!Keeps
<1>7. lc' = result.lc
  <2>. HIDE DEF result
  <2>1. /\ [result EXCEPT !.ok = ok].lc = result.lc
        /\ [result EXCEPT !.ok = ok].ok = ok
    BY <1>6 DEF LCP!Results
  <2>. QED  BY <1>1, <1>3, <2>1 DEF LC!Ends
<1>8. LCP!OnChain(result.lc, height, claim.header.hash)
  BY <1>1, <1>3, <1>5, ClientHolds, LCP!ClaimedOnChain
<1>. HIDE DEF result, t, record, height
<1>. QED  BY <1>2, <1>3, <1>4, <1>7, <1>8 DEF CreditOnChain

(* And an attested deposit has no height.                                  *)
LEMMA NewOnChain ==
  ASSUME LCP!Sound(lc), [Next]_vars, credits' # credits
  PROVE  \E record :
           credits' = Append(credits, record) /\ CreditOnChain(lc', record)
<1>1. CASE SomeClaim
  BY <1>1, ClaimOnChain DEF SomeClaim
<1>2. ASSUME NEW owner, NEW t, NEW hash, NEW from, PoolDeposit(owner, t, hash, from)
      PROVE  \E record :
               credits' = Append(credits, record) /\ CreditOnChain(lc', record)
  <2>1. PICK key, ok, genuine : Credit(ok, owner, t, key, 0, from, genuine)
    BY <1>2 DEF PoolDeposit
  <2>. DEFINE record == Record(owner, t, key, 0, from, genuine)
  <2>2. credits' = Append(credits, record)
    BY <2>1 DEF Credit, Record
  <2>3. ~ (record.height > 0)
    BY DEF Record
  <2>. HIDE DEF record
  <2>. QED  BY <2>2, <2>3 DEF CreditOnChain
<1>3. CASE SomeDeposit
  BY <1>2, <1>3 DEF SomeDeposit
<1>4. CASE UNCHANGED credits
  BY <1>4
<1>. QED  BY <1>1, <1>3, <1>4, NextIs
          DEF vars, creditVars, ClaimWithoutTransfer, PoolDepositRefused,
              ClientInput

LEMMA ChainStep ==
  ASSUME ~AllowRebootstrap, TypeOK, ChainInv, [Next]_vars
  PROVE  ChainInv'
<1>1. LCP!Sound(lc) /\ LCP!Sound(lc') /\ LCP!Extends(lc, lc')
  BY ClientSteps DEF ChainInv, ClientStep
<1>2. lc \in LCP!Clients /\ lc' \in LCP!Clients
  BY <1>1 DEF LCP!Sound
<1>3. ASSUME NEW i \in DOMAIN credits PROVE CreditOnChain(lc', credits[i])
  <2>1. credits[i].height \in Nat
    <3>1. credits[i].height \in Heights
      BY CreditFacts DEF CreditRecords
    <3>. QED  BY <3>1, ClientHolds DEF Heights, LCP!HeadersAssumption
  <2>2. CreditOnChain(lc, credits[i])
    BY DEF ChainInv
  <2>. QED  BY <1>1, <1>2, <2>1, <2>2, ClientHolds, LCP!StaysOnChain
            DEF CreditOnChain
<1>4. CASE credits' = credits
  BY <1>1, <1>3, <1>4 DEF ChainInv
<1>5. CASE credits' # credits
  <2>1. PICK record :
          credits' = Append(credits, record) /\ CreditOnChain(lc', record)
    BY <1>1, <1>5, NewOnChain
  <2>2. credits \in Seq(CreditRecords)
    BY DEF TypeOK
  <2>3. \A i \in DOMAIN credits' :
          \/ i \in DOMAIN credits /\ credits'[i] = credits[i]
          \/ credits'[i] = record
    BY <2>1, <2>2
  <2>. QED  BY <1>1, <1>3, <2>1, <2>3 DEF ChainInv
<1>. QED  BY <1>4, <1>5

(* A block that was credited on the client's word stays on the chain that  *)
(* ends in the tip, if the client is never started again.                  *)
THEOREM CreditedBlocksStay ==
  ASSUME ~AllowRebootstrap
  PROVE  Spec => []CreditsStayOnChain
<1>1. Init => ChainInv
  <2>1. Init => lc = LCP!NewClient /\ credits = <<>>
    BY SameTypes DEF Init, LC!Init
  <2>2. lc = LCP!NewClient => LCP!Sound(lc)
    BY ClientHolds, LCP!NewIsSound
  <2>. QED  BY <2>1, <2>2 DEF ChainInv
<1>2. TypeOK /\ ChainInv /\ [Next]_vars => ChainInv'
  BY ChainStep
<1>3. ChainInv => CreditsStayOnChain
  BY SameTypes DEF ChainInv, CreditOnChain, LCP!OnChain, CreditsStayOnChain
<1>. QED  BY <1>1, <1>2, <1>3, TypeCorrect, PTL DEF Spec
=============================================================================
