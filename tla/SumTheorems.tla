---------------------------- MODULE SumTheorems ----------------------------
(***************************************************************************)
(* Facts about SumFunctionOnSet on finite sets, and about powers of two.   *)
(* The library's induction theorems cannot be instantiated here, so each   *)
(* induction is a smallest counterexample: a nonempty set of finite sets   *)
(* has a minimal element, and one of numbers a least.                      *)
(***************************************************************************)
EXTENDS Functions, FiniteSetTheorems, WellFoundedInduction, TLAPS

(* A nonempty set of subsets of a finite set has a minimal one.            *)
LEMMA MinimalSubset ==
  ASSUME NEW S, IsFiniteSet(S), NEW B, B \subseteq SUBSET S, B # {}
  PROVE  \E m \in B : \A t \in B : t \subseteq m => t = m
<1>1. FiniteSubsetsOf(S) = SUBSET S
  BY FS_FiniteSubsetsOfFinite
<1>2. IsWellFoundedOn(StrictSubsetOrdering(S), SUBSET S)
  BY <1>1, FS_StrictSubsetOrderingWellFounded
<1>3. PICK m \in B : \A t \in B : ~ (<<t, m>> \in StrictSubsetOrdering(S))
  BY <1>2, WFMin
<1>. QED  BY <1>3 DEF StrictSubsetOrdering

-----------------------------------------------------------------------------
(* The fold defines a table of sums.                                       *)

(* The element a fold over s takes first.                                  *)
Pick(s) == CHOOSE x \in s : TRUE

(* g is the table of the sums of f over the subsets of S.                  *)
IsSumTable(g, f, S) ==
  g = [s \in SUBSET S |->
         IF s = {} THEN 0 ELSE f[Pick(s)] + g[s \ {Pick(s)}]]

SumTable(f, S) == CHOOSE g : IsSumTable(g, f, S)

(* It is one of its elements.                                              *)
LEMMA PickInSet == ASSUME NEW s, s # {} PROVE Pick(s) \in s
BY DEF Pick

(* A sum is an entry of its table.                                         *)
LEMMA SumByTable ==
  ASSUME NEW f, NEW S
  PROVE  SumFunctionOnSet(f, S) = SumTable(f, S)[S]
BY DEF SumFunctionOnSet, FoldFunctionOnSet, MapThenFoldSet, SumTable,
       IsSumTable, Pick

(* Two tables agree where both are defined.                                *)
LEMMA SumTablesAgree ==
  ASSUME NEW f, NEW S, NEW T, NEW g, NEW h, NEW R, IsFiniteSet(R),
         IsSumTable(g, f, S), IsSumTable(h, f, T),
         R \subseteq S, R \subseteq T
  PROVE  g[R] = h[R]
<1>. DEFINE B == {s \in SUBSET R : g[s] # h[s]}
<1>. SUFFICES ASSUME B # {} PROVE FALSE
  OBVIOUS
<1>1. PICK m \in B : \A t \in B : t \subseteq m => t = m
  <2>1. B \subseteq SUBSET R
    OBVIOUS
  <2>. HIDE DEF B
  <2>. QED  BY <2>1, MinimalSubset
<1>2. /\ m \in SUBSET S /\ m \in SUBSET T
      /\ m \ {Pick(m)} \in SUBSET S /\ m \ {Pick(m)} \in SUBSET T
  OBVIOUS
<1>3. CASE m = {}
  <2>1. g[m] = 0 /\ h[m] = 0
    BY <1>2, <1>3 DEF IsSumTable
  <2>. QED  BY <2>1
<1>4. CASE m # {}
  <2>1. g[m] = f[Pick(m)] + g[m \ {Pick(m)}]
    BY <1>2, <1>4 DEF IsSumTable
  <2>2. h[m] = f[Pick(m)] + h[m \ {Pick(m)}]
    BY <1>2, <1>4 DEF IsSumTable
  <2>3. m \ {Pick(m)} \notin B
    BY <1>1, <1>4, PickInSet
  <2>4. g[m \ {Pick(m)}] = h[m \ {Pick(m)}]
    BY <2>3
  <2>. QED  BY <2>1, <2>2, <2>4
<1>. QED  BY <1>3, <1>4

(* Every finite set has a table.                                           *)
LEMMA SumTableExists ==
  ASSUME NEW f, NEW S, IsFiniteSet(S)
  PROVE  IsSumTable(SumTable(f, S), f, S)
<1>. DEFINE B == {s \in SUBSET S : ~ \E g : IsSumTable(g, f, s)}
<1>1. ASSUME B # {} PROVE FALSE
  <2>1. PICK m \in B : \A t \in B : t \subseteq m => t = m
    <3>1. B \subseteq SUBSET S
      OBVIOUS
    <3>. HIDE DEF B
    <3>. QED  BY <1>1, <3>1, MinimalSubset
  <2>2. \A t \in SUBSET m : t # m => IsSumTable(SumTable(f, t), f, t)
    BY <2>1 DEF SumTable
  <2>. DEFINE val(s) == SumTable(f, s)[s]
              g == [s \in SUBSET m |->
                      IF s = {} THEN 0
                      ELSE f[Pick(s)] + val(s \ {Pick(s)})]
  <2>3. ASSUME NEW s \in SUBSET m, s # {}
        PROVE  g[s \ {Pick(s)}] = val(s \ {Pick(s)})
    <3>. DEFINE t == s \ {Pick(s)}
    <3>1. t \in SUBSET m /\ t # m
      BY <2>3, PickInSet
    <3>2. IsSumTable(SumTable(f, t), f, t)
      BY <2>2, <3>1
    <3>3. CASE t = {}
      <4>1. SumTable(f, t)[t] = 0
        BY <3>2, <3>3 DEF IsSumTable
      <4>2. g[t] = 0
        BY <3>1, <3>3
      <4>. QED  BY <4>1, <4>2
    <3>4. CASE t # {}
      <4>. DEFINE r == t \ {Pick(t)}
      <4>1. r \in SUBSET m /\ r # m /\ r \in SUBSET t
        BY <3>1, <3>4, PickInSet
      <4>2. SumTable(f, t)[t] = f[Pick(t)] + SumTable(f, t)[r]
        BY <3>2, <3>4 DEF IsSumTable
      <4>3. IsSumTable(SumTable(f, r), f, r)
        BY <2>2, <4>1
      <4>4. SumTable(f, t)[r] = SumTable(f, r)[r]
        <5>1. IsFiniteSet(r)
          BY <4>1, FS_Subset
        <5>. HIDE DEF t, r
        <5>. QED  BY <3>2, <4>1, <4>3, <5>1, SumTablesAgree
      <4>5. g[t] = f[Pick(t)] + SumTable(f, r)[r]
        BY <3>1, <3>4
      <4>. QED  BY <4>2, <4>4, <4>5
    <3>. QED  BY <3>3, <3>4
  <2>4. g = [s \in SUBSET m |->
               IF s = {} THEN 0 ELSE f[Pick(s)] + g[s \ {Pick(s)}]]
    <3>1. \A s \in SUBSET m :
            g[s] = IF s = {} THEN 0 ELSE f[Pick(s)] + g[s \ {Pick(s)}]
      BY <2>3
    <3>. QED  BY <3>1
  <2>5. IsSumTable(g, f, m)
    BY <2>4 DEF IsSumTable
  <2>. QED  BY <2>1, <2>5
<1>2. \E g : IsSumTable(g, f, S)
  BY <1>1
<1>. QED  BY <1>2 DEF SumTable

-----------------------------------------------------------------------------
(* Sums of natural numbers, an element at a time.                          *)

(* Nothing sums to zero.                                                   *)
LEMMA SumEmpty == ASSUME NEW f PROVE SumFunctionOnSet(f, {}) = 0
<1>1. IsSumTable(SumTable(f, {}), f, {})
  BY SumTableExists, FS_EmptySet
<1>2. SumTable(f, {})[{}] = 0
  BY <1>1 DEF IsSumTable
<1>. QED  BY <1>2, SumByTable

(* The fold takes its own first element off.                               *)
LEMMA SumPick ==
  ASSUME NEW f, NEW s, IsFiniteSet(s), s # {}
  PROVE  SumFunctionOnSet(f, s) =
           f[Pick(s)] + SumFunctionOnSet(f, s \ {Pick(s)})
<1>. DEFINE t == s \ {Pick(s)}
<1>1. IsSumTable(SumTable(f, s), f, s)
  BY SumTableExists
<1>2. SumTable(f, s)[s] = f[Pick(s)] + SumTable(f, s)[t]
  BY <1>1 DEF IsSumTable
<1>3. IsFiniteSet(t)
  BY FS_Subset
<1>4. IsSumTable(SumTable(f, t), f, t)
  BY <1>3, SumTableExists
<1>5. SumTable(f, s)[t] = SumTable(f, t)[t]
  <2>1. t \subseteq s /\ t \subseteq t
    OBVIOUS
  <2>. HIDE DEF t
  <2>. QED  BY <1>1, <1>3, <1>4, <2>1, SumTablesAgree
<1>. QED  BY <1>2, <1>5, SumByTable

(* A sum of natural numbers is one.                                        *)
LEMMA SumType ==
  ASSUME NEW S, NEW f \in [S -> Nat], NEW R \in SUBSET S, IsFiniteSet(R)
  PROVE  SumFunctionOnSet(f, R) \in Nat
<1>. DEFINE B == {s \in SUBSET R : SumFunctionOnSet(f, s) \notin Nat}
<1>. SUFFICES ASSUME B # {} PROVE FALSE
  OBVIOUS
<1>1. PICK m \in B : \A t \in B : t \subseteq m => t = m
  <2>1. B \subseteq SUBSET R
    OBVIOUS
  <2>. HIDE DEF B
  <2>. QED  BY <2>1, MinimalSubset
<1>2. m # {}
  BY SumEmpty
<1>3. /\ Pick(m) \in m /\ f[Pick(m)] \in Nat
      /\ m \ {Pick(m)} \in SUBSET R
  BY <1>2, PickInSet
<1>4. SumFunctionOnSet(f, m \ {Pick(m)}) \in Nat
  BY <1>1, <1>3
<1>5. IsFiniteSet(m)
  BY FS_Subset
<1>6. SumFunctionOnSet(f, m) \in Nat
  BY <1>2, <1>3, <1>4, <1>5, SumPick
<1>. QED  BY <1>6

(* Any element can be taken off first.                                     *)
LEMMA SumRemove ==
  ASSUME NEW S, NEW f \in [S -> Nat], NEW R \in SUBSET S, IsFiniteSet(R),
         NEW x \in R
  PROVE  SumFunctionOnSet(f, R) = f[x] + SumFunctionOnSet(f, R \ {x})
<1>. DEFINE Off(s, y) ==
       SumFunctionOnSet(f, s) = f[y] + SumFunctionOnSet(f, s \ {y})
<1>. DEFINE B == {s \in SUBSET R : \E y \in s : ~ Off(s, y)}
<1>. SUFFICES ASSUME B # {} PROVE FALSE
  OBVIOUS
<1>1. PICK m \in B : \A t \in B : t \subseteq m => t = m
  <2>1. B \subseteq SUBSET R
    OBVIOUS
  <2>. HIDE DEF B
  <2>. QED  BY <2>1, MinimalSubset
<1>2. PICK y \in m : ~ Off(m, y)
  OBVIOUS
<1>3. \A s \in SUBSET m : s # m => \A z \in s : Off(s, z)
  BY <1>1
<1>. DEFINE c == Pick(m)
<1>4. m # {} /\ c \in m /\ IsFiniteSet(m) /\ m \in SUBSET S
  BY FS_Subset, PickInSet
<1>5. Off(m, c)
  BY <1>4, SumPick
<1>6. c # y
  BY <1>2, <1>5
<1>. HIDE DEF c
<1>7. Off(m \ {c}, y) /\ Off(m \ {y}, c)
  <2>1. /\ m \ {c} \in SUBSET m /\ m \ {c} # m /\ y \in m \ {c}
        /\ m \ {y} \in SUBSET m /\ m \ {y} # m /\ c \in m \ {y}
    BY <1>4, <1>6
  <2>. HIDE DEF Off
  <2>. QED  BY <1>3, <2>1
<1>8. (m \ {c}) \ {y} = (m \ {y}) \ {c}
  OBVIOUS
<1>9. /\ f[c] \in Nat /\ f[y] \in Nat
      /\ SumFunctionOnSet(f, (m \ {y}) \ {c}) \in Nat
  <2>1. IsFiniteSet((m \ {y}) \ {c})
    BY <1>4, FS_Subset
  <2>. QED  BY <1>4, <2>1, SumType
<1>10. Off(m, y)
  BY SMTT(30), <1>5, <1>7, <1>8, <1>9
<1>. QED  BY <1>2, <1>10

-----------------------------------------------------------------------------
(* Sums of related functions.                                              *)

(* Sums add up pointwise.                                                  *)
LEMMA SumOfSum ==
  ASSUME NEW S, NEW f \in [S -> Nat], NEW g \in [S -> Nat],
         NEW h \in [S -> Nat], NEW R \in SUBSET S, IsFiniteSet(R),
         \A x \in R : h[x] = f[x] + g[x]
  PROVE  SumFunctionOnSet(h, R) = SumFunctionOnSet(f, R) + SumFunctionOnSet(g, R)
<1>. DEFINE Adds(s) == SumFunctionOnSet(h, s) =
                         SumFunctionOnSet(f, s) + SumFunctionOnSet(g, s)
            B == {s \in SUBSET R : ~ Adds(s)}
<1>. SUFFICES ASSUME B # {} PROVE FALSE
  OBVIOUS
<1>1. PICK m \in B : \A t \in B : t \subseteq m => t = m
  <2>1. B \subseteq SUBSET R
    OBVIOUS
  <2>. HIDE DEF B
  <2>. QED  BY <2>1, MinimalSubset
<1>2. m # {}
  <2>1. Adds({})
    BY SumEmpty
  <2>. QED  BY <2>1
<1>3. PICK x : x \in m
  BY <1>2
<1>. DEFINE t == m \ {x}
<1>4. /\ m \in SUBSET S /\ IsFiniteSet(m)
      /\ t \in SUBSET S /\ IsFiniteSet(t)
  BY FS_Subset
<1>5. Adds(t)
  BY <1>1, <1>3
<1>6. /\ SumFunctionOnSet(f, m) = f[x] + SumFunctionOnSet(f, t)
      /\ SumFunctionOnSet(g, m) = g[x] + SumFunctionOnSet(g, t)
      /\ SumFunctionOnSet(h, m) = h[x] + SumFunctionOnSet(h, t)
  BY <1>3, <1>4, SumRemove
<1>7. /\ SumFunctionOnSet(f, t) \in Nat /\ SumFunctionOnSet(g, t) \in Nat
      /\ f[x] \in Nat /\ g[x] \in Nat /\ h[x] = f[x] + g[x]
  BY <1>3, <1>4, SumType
<1>8. Adds(m)
  BY <1>5, <1>6, <1>7
<1>. QED  BY <1>8

(* A larger function has no smaller sum.                                   *)
LEMMA SumMonotonic ==
  ASSUME NEW S, NEW f \in [S -> Nat], NEW g \in [S -> Nat],
         NEW R \in SUBSET S, IsFiniteSet(R), \A x \in R : f[x] <= g[x]
  PROVE  SumFunctionOnSet(f, R) <= SumFunctionOnSet(g, R)
<1>. DEFINE e == [x \in S |-> IF x \in R THEN g[x] - f[x] ELSE 0]
<1>1. e \in [S -> Nat] /\ \A x \in R : g[x] = f[x] + e[x]
  OBVIOUS
<1>. HIDE DEF e
<1>2. SumFunctionOnSet(g, R) = SumFunctionOnSet(f, R) + SumFunctionOnSet(e, R)
  BY <1>1, SumOfSum
<1>. QED  BY <1>1, <1>2, SumType

(* Functions that agree have the same sum.                                 *)
LEMMA SumCongruence ==
  ASSUME NEW S, NEW f \in [S -> Nat], NEW g \in [S -> Nat],
         NEW R \in SUBSET S, IsFiniteSet(R), \A x \in R : f[x] = g[x]
  PROVE  SumFunctionOnSet(f, R) = SumFunctionOnSet(g, R)
<1>1. (\A x \in R : f[x] <= g[x]) /\ (\A x \in R : g[x] <= f[x])
  OBVIOUS
<1>2. /\ SumFunctionOnSet(f, R) <= SumFunctionOnSet(g, R)
      /\ SumFunctionOnSet(g, R) <= SumFunctionOnSet(f, R)
  BY <1>1, SumMonotonic
<1>. QED  BY <1>2, SumType

(* The zero function sums to zero.                                         *)
LEMMA SumOfZero ==
  ASSUME NEW S, NEW f \in [S -> Nat], NEW R \in SUBSET S, IsFiniteSet(R),
         \A x \in R : f[x] = 0
  PROVE  SumFunctionOnSet(f, R) = 0
<1>1. SumFunctionOnSet(f, R) = SumFunctionOnSet(f, R) + SumFunctionOnSet(f, R)
  <2>1. \A x \in R : f[x] = f[x] + f[x]
    OBVIOUS
  <2>. QED  BY <2>1, SumOfSum
<1>. QED  BY <1>1, SumType

(* Elements that add nothing can be left out.                              *)
LEMMA SumOverSupport ==
  ASSUME NEW S, IsFiniteSet(S), NEW f \in [S -> Nat], NEW T \in SUBSET S,
         \A x \in S : x \notin T => f[x] = 0
  PROVE  SumFunctionOnSet(f, S) = SumFunctionOnSet(f, T)
<1>. DEFINE B == {s \in SUBSET S :
                    SumFunctionOnSet(f, s) # SumFunctionOnSet(f, s \cap T)}
<1>. SUFFICES ASSUME B # {} PROVE FALSE
  <2>1. S \notin B
    BY B = {}
  <2>2. S \cap T = T
    OBVIOUS
  <2>. QED  BY <2>1, <2>2
<1>1. PICK m \in B : \A t \in B : t \subseteq m => t = m
  <2>1. B \subseteq SUBSET S
    OBVIOUS
  <2>. HIDE DEF B
  <2>. QED  BY <2>1, MinimalSubset
<1>2. PICK x \in m : x \notin T
  <2>1. m # m \cap T
    OBVIOUS
  <2>. QED  BY <2>1
<1>3. m \in SUBSET S /\ IsFiniteSet(m)
  BY FS_Subset
<1>4. SumFunctionOnSet(f, m) = f[x] + SumFunctionOnSet(f, m \ {x})
  BY <1>2, <1>3, SumRemove
<1>5. SumFunctionOnSet(f, m \ {x}) = SumFunctionOnSet(f, (m \ {x}) \cap T)
  BY <1>1, <1>2
<1>6. SumFunctionOnSet(f, (m \ {x}) \cap T) = SumFunctionOnSet(f, m \cap T)
  <2>1. (m \ {x}) \cap T = m \cap T
    BY <1>2
  <2>. QED  BY <2>1
<1>7. f[x] = 0 /\ SumFunctionOnSet(f, m \ {x}) \in Nat
  <2>1. m \ {x} \in SUBSET S /\ IsFiniteSet(m \ {x})
    BY <1>3, FS_Subset
  <2>. QED  BY <1>2, <2>1, SumType
<1>8. SumFunctionOnSet(f, m) = SumFunctionOnSet(f, m \ {x})
  BY <1>4, <1>7
<1>. QED  BY <1>5, <1>6, <1>8

(* Changing one value changes the sum by as much.                          *)
LEMMA SumUpdate ==
  ASSUME NEW S, NEW f \in [S -> Nat], IsFiniteSet(S), NEW x \in S, NEW n \in Nat
  PROVE  SumFunctionOnSet([f EXCEPT ![x] = n], S) + f[x] =
           SumFunctionOnSet(f, S) + n
<1>. DEFINE g == [f EXCEPT ![x] = n]
            T == S \ {x}
<1>1. g \in [S -> Nat] /\ g[x] = n /\ \A y \in T : g[y] = f[y]
  OBVIOUS
<1>. HIDE DEF g
<1>2. IsFiniteSet(T) /\ T \in SUBSET S
  BY FS_Subset
<1>3. /\ SumFunctionOnSet(g, S) = g[x] + SumFunctionOnSet(g, T)
      /\ SumFunctionOnSet(f, S) = f[x] + SumFunctionOnSet(f, T)
  BY <1>1, SumRemove
<1>. HIDE DEF T
<1>4. SumFunctionOnSet(g, T) = SumFunctionOnSet(f, T)
  BY <1>1, <1>2, SumCongruence
<1>5. SumFunctionOnSet(f, T) \in Nat
  BY <1>2, SumType
<1>6. SumFunctionOnSet(g, S) + f[x] = SumFunctionOnSet(f, S) + n
  BY <1>1, <1>3, <1>4, <1>5
<1>. QED  BY <1>6 DEF g

(* Raising one value raises the sum by as much.                            *)
LEMMA SumRaised ==
  ASSUME NEW S, NEW f \in [S -> Nat], NEW g \in [S -> Nat],
         NEW R \in SUBSET S, IsFiniteSet(R), NEW x \in R, NEW n \in Nat,
         g[x] = f[x] + n, \A y \in R \ {x} : g[y] = f[y]
  PROVE  SumFunctionOnSet(g, R) = SumFunctionOnSet(f, R) + n
<1>. DEFINE T == R \ {x}
<1>1. T \in SUBSET S /\ x \in S
  OBVIOUS
<1>2. IsFiniteSet(T)
  BY FS_Subset
<1>3. /\ SumFunctionOnSet(f, R) = f[x] + SumFunctionOnSet(f, T)
      /\ SumFunctionOnSet(g, R) = g[x] + SumFunctionOnSet(g, T)
  BY SumRemove
<1>4. SumFunctionOnSet(g, T) = SumFunctionOnSet(f, T)
  BY <1>1, <1>2, SumCongruence
<1>5. SumFunctionOnSet(f, T) \in Nat /\ f[x] \in Nat
  BY <1>1, <1>2, SumType
<1>. QED  BY <1>3, <1>4, <1>5

(* Functions that differ at one element: the sums differ by as much.      *)
LEMMA SumAtOne ==
  ASSUME NEW S, IsFiniteSet(S), NEW f \in [S -> Nat], NEW g \in [S -> Nat],
         NEW x \in S, \A y \in S \ {x} : g[y] = f[y]
  PROVE  SumFunctionOnSet(g, S) + f[x] = SumFunctionOnSet(f, S) + g[x]
<1>1. g = [f EXCEPT ![x] = g[x]]
  OBVIOUS
<1>. QED  BY <1>1, SumUpdate

(* A sum over a part is one over the whole of what is zero elsewhere.      *)
LEMMA SumOfPart ==
  ASSUME NEW S, IsFiniteSet(S), NEW f \in [S -> Nat], NEW T \in SUBSET S
  PROVE  SumFunctionOnSet(f, T) =
           SumFunctionOnSet([x \in S |-> IF x \in T THEN f[x] ELSE 0], S)
<1>. DEFINE g == [x \in S |-> IF x \in T THEN f[x] ELSE 0]
<1>1. /\ g \in [S -> Nat]
      /\ \A x \in S : x \notin T => g[x] = 0
      /\ \A x \in T : f[x] = g[x]
  OBVIOUS
<1>2. IsFiniteSet(T)
  BY FS_Subset
<1>. HIDE DEF g
<1>3. SumFunctionOnSet(g, S) = SumFunctionOnSet(g, T)
  BY <1>1, SumOverSupport
<1>4. SumFunctionOnSet(f, T) = SumFunctionOnSet(g, T)
  BY <1>1, <1>2, SumCongruence
<1>. QED  BY <1>3, <1>4 DEF g

(* A sum asks only for the values on its set, wherever else the functions  *)
(* are defined.                                                            *)
LEMMA SumAgree ==
  ASSUME NEW S, NEW f \in [S -> Nat], NEW T, NEW g \in [T -> Nat],
         NEW R, R \subseteq S, R \subseteq T, IsFiniteSet(R),
         \A x \in R : f[x] = g[x]
  PROVE  SumFunctionOnSet(f, R) = SumFunctionOnSet(g, R)
<1>. DEFINE Same(s) == SumFunctionOnSet(f, s) = SumFunctionOnSet(g, s)
            B == {s \in SUBSET R : ~ Same(s)}
<1>. SUFFICES ASSUME B # {} PROVE FALSE
  OBVIOUS
<1>1. PICK m \in B : \A t \in B : t \subseteq m => t = m
  <2>1. B \subseteq SUBSET R
    OBVIOUS
  <2>. HIDE DEF B
  <2>. QED  BY <2>1, MinimalSubset
<1>2. m # {}
  <2>1. Same({})
    BY SumEmpty
  <2>. QED  BY <2>1
<1>3. PICK x : x \in m
  BY <1>2
<1>4. m \in SUBSET S /\ m \in SUBSET T /\ IsFiniteSet(m)
  BY FS_Subset
<1>5. Same(m \ {x})
  BY <1>1, <1>3
<1>6. /\ SumFunctionOnSet(f, m) = f[x] + SumFunctionOnSet(f, m \ {x})
      /\ SumFunctionOnSet(g, m) = g[x] + SumFunctionOnSet(g, m \ {x})
  BY <1>3, <1>4, SumRemove
<1>7. f[x] = g[x]
  BY <1>3
<1>. QED  BY <1>5, <1>6, <1>7

(* A common factor comes out.                                              *)
LEMMA SumScaled ==
  ASSUME NEW S, NEW f \in [S -> Nat], NEW g \in [S -> Nat], NEW c \in Nat,
         NEW R \in SUBSET S, IsFiniteSet(R), \A x \in R : g[x] = c * f[x]
  PROVE  SumFunctionOnSet(g, R) = c * SumFunctionOnSet(f, R)
<1>. DEFINE Scales(s) == SumFunctionOnSet(g, s) = c * SumFunctionOnSet(f, s)
            B == {s \in SUBSET R : ~ Scales(s)}
<1>. SUFFICES ASSUME B # {} PROVE FALSE
  OBVIOUS
<1>1. PICK m \in B : \A t \in B : t \subseteq m => t = m
  <2>1. B \subseteq SUBSET R
    OBVIOUS
  <2>. HIDE DEF B
  <2>. QED  BY <2>1, MinimalSubset
<1>2. m # {}
  <2>1. Scales({})
    BY SumEmpty
  <2>. QED  BY <2>1
<1>3. PICK x : x \in m
  BY <1>2
<1>. DEFINE t == m \ {x}
<1>4. /\ m \in SUBSET S /\ IsFiniteSet(m)
      /\ t \in SUBSET S /\ IsFiniteSet(t)
  BY FS_Subset
<1>5. Scales(t)
  BY <1>1, <1>3
<1>6. /\ SumFunctionOnSet(f, m) = f[x] + SumFunctionOnSet(f, t)
      /\ SumFunctionOnSet(g, m) = g[x] + SumFunctionOnSet(g, t)
  BY <1>3, <1>4, SumRemove
<1>7. SumFunctionOnSet(f, t) \in Nat /\ f[x] \in Nat /\ g[x] = c * f[x]
  BY <1>3, <1>4, SumType
<1>8. Scales(m)
  <2>1. \A a, b \in Nat : c * (a + b) = c * a + c * b
    OBVIOUS
  <2>. QED  BY <1>5, <1>6, <1>7, <2>1
<1>. QED  BY <1>8

-----------------------------------------------------------------------------
(* Numbers and powers of two.                                              *)

(* A set of naturals has a least one.                                      *)
LEMMA LeastOf ==
  ASSUME NEW S, S \subseteq Nat, S # {}
  PROVE  \E m \in S : \A k \in Nat : k < m => k \notin S
<1>1. PICK m \in S : \A k \in S : ~ (<<k, m>> \in OpToRel(<, Nat))
  BY NatLessThanWellFounded, WFMin, Zenon
<1>. QED  BY <1>1 DEF OpToRel

(* A set that has 0 and with each number the next has all up to N.         *)
LEMMA Inductive ==
  ASSUME NEW N \in Nat, NEW S, 0 \in S, \A k \in 1 .. N : k - 1 \in S => k \in S
  PROVE  \A k \in 0 .. N : k \in S
<1>. DEFINE Bad == {k \in Nat : k <= N /\ k \notin S}
<1>1. ASSUME Bad # {} PROVE FALSE
  <2>1. PICK m \in Bad : \A k \in Nat : k < m => k \notin Bad
    BY <1>1, LeastOf
  <2>2. m # 0 /\ m \in 1 .. N
    BY <2>1
  <2>3. m - 1 \in Nat /\ m - 1 < m /\ m - 1 <= N
    BY <2>2
  <2>. QED  BY <2>1, <2>2, <2>3
<1>. QED  BY <1>1

(* Powers of two double: the subsets of a set with one element more.       *)
LEMMA Doubles ==
  ASSUME NEW n \in Nat
  PROVE  2 ^ (n + 1) = 2 * 2 ^ n /\ 2 ^ n \in Nat
<1>. DEFINE A == SUBSET (1 .. n)
            B == {s \cup {n + 1} : s \in A}
            f == [s \in A |-> s \cup {n + 1}]
<1>1. /\ IsFiniteSet(1 .. n) /\ Cardinality(1 .. n) = n
      /\ IsFiniteSet(1 .. n + 1) /\ Cardinality(1 .. n + 1) = n + 1
  BY FS_Interval
<1>2. /\ IsFiniteSet(A) /\ Cardinality(A) = 2 ^ n
      /\ Cardinality(SUBSET (1 .. n + 1)) = 2 ^ (n + 1)
  BY <1>1, FS_SUBSET
<1>3. n + 1 \notin 1 .. n /\ 1 .. n + 1 = (1 .. n) \cup {n + 1}
  OBVIOUS
<1>4. SUBSET (1 .. n + 1) = A \cup B
  <2>1. ASSUME NEW s \in SUBSET (1 .. n + 1) PROVE s \in A \cup B
    <3>1. CASE n + 1 \in s
      <4>1. s \ {n + 1} \in A /\ s = (s \ {n + 1}) \cup {n + 1}
        BY <1>3, <3>1
      <4>. QED  BY <4>1
    <3>2. CASE n + 1 \notin s
      BY <1>3, <3>2
    <3>. QED  BY <3>1, <3>2
  <2>2. A \cup B \subseteq SUBSET (1 .. n + 1)
    BY <1>3
  <2>. QED  BY <2>1, <2>2
<1>5. A \cap B = {}
  BY <1>3
<1>6. ExistsBijection(A, B)
  <2>1. \A s, t \in A : s \cup {n + 1} = t \cup {n + 1} => s = t
    BY <1>3
  <2>2. f \in Bijection(A, B)
    <3>1. f \in [A -> B] /\ IsInjective(f)
      <4>1. f \in [A -> B] /\ DOMAIN f = A /\ \A s \in A : f[s] = s \cup {n + 1}
        OBVIOUS
      <4>. HIDE DEF A, B, f
      <4>. QED  BY <2>1, <4>1 DEF IsInjective
    <3>2. \A t \in B : \E s \in A : f[s] = t
      OBVIOUS
    <3>. HIDE DEF A, B, f
    <3>. QED  BY <3>1, <3>2 DEF Bijection, Injection, Surjection
  <2>. QED  BY <2>2 DEF ExistsBijection
<1>. HIDE DEF A, B, f
<1>7. IsFiniteSet(B) /\ Cardinality(B) = Cardinality(A)
  BY <1>2, <1>6, FS_Bijection
<1>8. Cardinality(A \cup B) = Cardinality(A) + Cardinality(B) - Cardinality(A \cap B)
  BY <1>2, <1>7, FS_Union
<1>9. Cardinality(A \cap B) = 0 /\ Cardinality(A) \in Nat
  BY <1>2, <1>5, FS_EmptySet, FS_CardinalityType
<1>. DEFINE p == 2 ^ n
            q == 2 ^ (n + 1)
<1>10. p = Cardinality(A) /\ q = Cardinality(A \cup B)
  BY <1>2, <1>4
<1>. HIDE DEF p, q
<1>11. q = 2 * p /\ p \in Nat
  BY <1>7, <1>8, <1>9, <1>10
<1>. QED  BY <1>11 DEF p, q

(* Written so, a power is a term like any other for the provers.           *)
Pow(n) == 2 ^ n

(* A power of two, its first one and the next one.                         *)
LEMMA PowNext ==
  /\ Pow(0) = 1
  /\ \A n \in Nat : Pow(n) \in Nat /\ Pow(n + 1) = 2 * Pow(n)
BY Doubles DEF Pow

(* Powers of two are positive.                                             *)
LEMMA PowPositive == \A n \in Nat : Pow(n) >= 1
<1>. DEFINE S == {n \in Nat : ~ (Pow(n) >= 1)}
<1>1. ASSUME S # {} PROVE FALSE
  <2>1. PICK m \in S : \A k \in Nat : k < m => k \notin S
    BY <1>1, LeastOf
  <2>2. m # 0
    BY PowNext
  <2>3. m - 1 \in Nat /\ m - 1 < m /\ (m - 1) + 1 = m
    BY <2>2
  <2>4. Pow(m - 1) >= 1
    BY <2>1, <2>3
  <2>. QED  BY <2>3, <2>4, PowNext
<1>. QED  BY <1>1

(* The power of a sum is the product of the powers.                        *)
LEMMA PowSum == \A a, b \in Nat : Pow(a + b) = Pow(a) * Pow(b)
<1>. SUFFICES ASSUME NEW a \in Nat PROVE \A b \in Nat : Pow(a + b) = Pow(a) * Pow(b)
  OBVIOUS
<1>. DEFINE S == {b \in Nat : Pow(a + b) # Pow(a) * Pow(b)}
<1>1. ASSUME S # {} PROVE FALSE
  <2>1. PICK m \in S : \A k \in Nat : k < m => k \notin S
    BY <1>1, LeastOf
  <2>2. Pow(a) * Pow(0) = Pow(a + 0)
    BY PowNext
  <2>3. m # 0
    BY <2>2
  <2>. DEFINE l == m - 1
  <2>4. l \in Nat /\ l < m /\ l + 1 = m /\ (a + l) + 1 = a + m /\ a + l \in Nat
    BY <2>3
  <2>5. Pow(a + l) = Pow(a) * Pow(l)
    BY <2>1, <2>4
  <2>. HIDE DEF l
  <2>6. Pow(m) = 2 * Pow(l) /\ Pow(a + m) = 2 * Pow(a + l)
    BY <2>4, PowNext
  <2>7. Pow(a) \in Nat /\ Pow(l) \in Nat
    BY <2>4, PowNext
  <2>8. Pow(a) * (2 * Pow(l)) = 2 * (Pow(a) * Pow(l))
    BY <2>7
  <2>. QED  BY <2>1, <2>5, <2>6, <2>8
<1>. QED  BY <1>1

(* A larger exponent gives a power that is not smaller.                    *)
LEMMA PowMonotone == \A a, b \in Nat : a <= b => Pow(a) <= Pow(b)
<1>. SUFFICES ASSUME NEW a \in Nat, NEW b \in Nat, a <= b PROVE Pow(a) <= Pow(b)
  OBVIOUS
<1>. DEFINE d == b - a
<1>1. d \in Nat /\ a + d = b
  OBVIOUS
<1>. HIDE DEF d
<1>2. Pow(b) = Pow(a) * Pow(d) /\ Pow(d) >= 1 /\ Pow(a) \in Nat /\ Pow(d) \in Nat
  BY <1>1, PowSum, PowPositive, PowNext
<1>3. \A x, y \in Nat : y >= 1 => x <= x * y
  OBVIOUS
<1>. QED  BY <1>2, <1>3
=============================================================================
