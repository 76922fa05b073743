--------------------------------- MODULE Clmul ---------------------------------
(***************************************************************************)
(* The portable arithmetic of the keyed multiplication                     *)
(* (verus_clhash_port.cpp): carry-less products by windows of four bits,   *)
(* their reduction to one word, and the rounded products of lanes. A word  *)
(* is the set of its one bits, a polynomial over GF(2); the program's are  *)
(* 64 bits wide and its lanes 16.                                          *)
(***************************************************************************)
EXTENDS Integers, FiniteSets, Sequences, Functions

CONSTANTS Width,                   \* of a word, in bits
          LaneWidth,               \* of a signed lane
          KeyLength, Length        \* the words that lazyLengthHash multiplies

Bits == 0 .. Width - 1
Window == 4

ASSUME WidthAssumption == Width \in Nat /\ Width % Window = 0 /\ Width >= 8
ASSUME LaneAssumption == LaneWidth \in Nat /\ LaneWidth >= 2
ASSUME LengthsAssumption == KeyLength \subseteq Bits /\ Length \subseteq Bits

VARIABLE acc                       \* the accumulator, [hi, lo], after the last turn

Xor(a, b) == (a \ b) \cup (b \ a)
XorOver(f) == FoldFunction(Xor, {}, f)
Shl(a, i) == {k + i : k \in a} \cap Bits
Shr(a, i) == {k - i : k \in {j \in a : j >= i}}
FromByte(n) == {k \in 0 .. 7 : (n \div 2 ^ k) % 2 = 1}

\* b times each four-bit word, as far as the product fits one word.
Multiples(b) ==
  LET u[v \in SUBSET (0 .. 3)] == IF v = {} THEN {}
                                  ELSE IF 0 \in v THEN Xor(u[v \ {0}], b)
                                  ELSE Shl(u[Shr(v, 1)], 1)
  IN  u

\* A mutant: the mask is not narrowed from one shift to the next.
RepairWide(a, b) ==
  XorOver([i \in {i \in 1 .. Window - 1 : Width - i \in b} |->
             Shr({j \in a : j % Window >= 1}, i)])

\* What the repair adds: the bits of b that left the word when u was made.
Repair(a, b) ==
  XorOver([i \in {i \in 1 .. Window - 1 : Width - i \in b} |->
             Shr({j \in a : j % Window >= i}, i)])

clmul64(a, b) ==
  LET u == Multiples(b)
      Starts == {i \in Bits : i % Window = 0}
      Of(i) == u[{k \in 0 .. Window - 1 : k + i \in a}]
  IN  [lo |-> XorOver([i \in Starts |-> Shl(Of(i), i)]),
       hi |-> Xor(XorOver([i \in Starts \ {0} |-> Shr(Of(i), Width - i)]), Repair(a, b))]

lazyLengthHash == clmul64(Length, KeyLength)

\* The irreducible polynomial without its highest power, and its four-bit multiples.
C == {0, 1, 3, 4}
Q3Table == <<0, 27, 54, 45, 108, 119, 90, 65, 216, 195, 238, 245, 180, 175, 130, 153>>

precompReduction64(A) ==
  LET Q2 == clmul64(A.hi, C)
      n == CHOOSE k \in 0 .. 15 : FromByte(k) = Q2.hi
  IN  Xor(FromByte(Q3Table[n + 1]), Xor(Q2.lo, A.lo))

\* A lane of mulhrs: the product of two sign-extended lanes, unsigned and twice as wide, is
\* rounded, shifted and cut off.
mulhrs(a, b) ==
  LET Wide == 2 ^ (2 * LaneWidth)
      Extended(x) == IF x < 2 ^ (LaneWidth - 1) THEN x ELSE x + Wide - 2 ^ LaneWidth
      Rounded == ((Extended(a) * Extended(b)) + 2 ^ (LaneWidth - 2)) % Wide
  IN  (Rounded \div 2 ^ (LaneWidth - 1)) % (2 ^ LaneWidth)

\* What verusclhash returns.
verusclhash == precompReduction64([hi |-> Xor(acc.hi, lazyLengthHash.hi),
                                   lo |-> Xor(acc.lo, lazyLengthHash.lo)])

ArithmeticInit == acc = [hi |-> {}, lo |-> {}]

\* The end of the loop, whatever the turns leave in the accumulator.
Finish == acc' \in [hi : SUBSET Bits, lo : SUBSET Bits]

ArithmeticSpec == ArithmeticInit /\ [][Finish]_acc

-----------------------------------------------------------------------------
\* The product of two polynomials, and the remainder of one by x^Width + C.
PolyProduct(a, b) ==
  {k \in 0 .. 2 * Width - 2 : Cardinality({i \in a : k - i \in b}) % 2 = 1}

Remainder(p) ==
  LET r[k \in Width .. 2 * Width] ==
        IF k = 2 * Width THEN p
        ELSE IF k \in r[k + 1] THEN Xor(r[k + 1], {k} \cup {c + k - Width : c \in C})
        ELSE r[k + 1]
  IN  r[Width]

Joined(w) == w.lo \cup {k + Width : k \in w.hi}

\* A signed lane, and the number a word's low bits stand for.
Signed(x) == IF x < 2 ^ (LaneWidth - 1) THEN x ELSE x - 2 ^ LaneWidth
Lane(w) == SumFunction([k \in w \cap (0 .. LaneWidth - 1) |-> 2 ^ k])

(***************************************************************************)
(* The portable arithmetic is the arithmetic of the instructions it stands *)
(* for, on which every verifier of a block must agree: windows and repair  *)
(* give the carry-less product, the tables give the remainder of the       *)
(* accumulator and the length, and unsigned products that wrap around      *)
(* round like signed ones.                                                 *)
(***************************************************************************)
ArithmeticIsExact ==
  /\ Joined(clmul64(acc.hi, acc.lo)) = PolyProduct(acc.hi, acc.lo)
  /\ verusclhash = Remainder(Xor(Joined(acc), PolyProduct(Length, KeyLength)))
  /\ mulhrs(Lane(acc.hi), Lane(acc.lo)) =
       ((Signed(Lane(acc.hi)) * Signed(Lane(acc.lo)) + 2 ^ (LaneWidth - 2))
           \div 2 ^ (LaneWidth - 1)) % (2 ^ LaneWidth)
===============================================================================
