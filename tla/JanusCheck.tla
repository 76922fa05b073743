------------------------------ MODULE JanusCheck ------------------------------
(***************************************************************************)
(* The verdict of janushash-check (main.cpp): the Verus hash times a power *)
(* of the triple SHA-256, both as floats of 32 bits, against the target of *)
(* the header. Numbers are exact here, with narrower mantissas, bytes and  *)
(* targets than the program's. The power itself is pow of the C library:   *)
(* any normalised float.                                                   *)
(***************************************************************************)
EXTENDS Integers, Sequences

CONSTANTS ByteBits,                \* 8 in the program
          MantissaBytes,           \* 4 in the program
          HashBytes,               \* 32 in the program
          TargetBits,              \* of a target's mantissa, 22 in the program
          Threshold,               \* c, as a float
          ShaHashes,               \* hashes, bytes first to last
          Powers,                  \* what cf_pow returns
          Zeros                    \* the zeros of targets

M == ByteBits * MantissaBytes
Full == 2 ^ M
Half == 2 ^ (M - 1)

Floats == [m : Half .. Full - 1, e : Int]

ASSUME SizesAssumption == /\ {ByteBits, MantissaBytes, HashBytes, TargetBits} \subseteq Nat \ {0}
                          /\ TargetBits <= M
ASSUME FloatsAssumption == /\ Powers \cup {Threshold} \subseteq Floats
                           /\ \A p \in Powers : p.e <= 0
ASSUME ZerosAssumption == Zeros \subseteq Nat

Hashes == [1 .. HashBytes -> 0 .. 2 ^ ByteBits - 1]

\* Canonical targets, whose mantissa has its highest bit.
Targets == [zeros : Zeros, bits : 2 ^ (TargetBits - 1) .. 2 ^ TargetBits - 1]

VARIABLE judged                    \* the last input and its verdict

\* A float normalised up or down, a bit at a time, and cut off.
Up(m, e) ==
  LET f[k \in 0 .. M] == IF k = 0 THEN [m |-> m, e |-> e]
                         ELSE IF f[k - 1].m >= Half THEN f[k - 1]
                         ELSE [m |-> 2 * f[k - 1].m, e |-> f[k - 1].e - 1]
  IN  f[M]

\* A mutant: the bits cut off round up.
DownRounded(m, e) ==
  LET f[k \in 0 .. M] == IF k = 0 THEN [m |-> m, e |-> e]
                         ELSE IF f[k - 1].m < Full THEN f[k - 1]
                         ELSE [m |-> (f[k - 1].m + 1) \div 2, e |-> f[k - 1].e + 1]
  IN  f[M]

Down(m, e) ==
  LET f[k \in 0 .. M] == IF k = 0 THEN [m |-> m, e |-> e]
                         ELSE IF f[k - 1].m < Full THEN f[k - 1]
                         ELSE [m |-> f[k - 1].m \div 2, e |-> f[k - 1].e + 1]
  IN  f[M]

\* CF(const Hash&): zero bytes go to the exponent, the next ones to the mantissa, and behind the
\* end of the hash there are ones.
CF(h) ==
  LET Leading == CHOOSE z \in 0 .. HashBytes :
                   (\A i \in 1 .. z : h[i] = 0) /\ (z = HashBytes \/ h[z + 1] # 0)
      At(i) == IF i <= HashBytes THEN h[i] ELSE 2 ^ ByteBits - 1
      tmp[j \in 0 .. MantissaBytes] ==
        IF j = 0 THEN 0 ELSE tmp[j - 1] * 2 ^ ByteBits + At(Leading + j)
  IN  Up(tmp[MantissaBytes], - ByteBits * Leading)

Less(a, b) == IF a.e # b.e THEN a.e < b.e ELSE a.m < b.m

Times(a, b) == LET down == Down(a.m * b.m, a.e + b.e) IN Up(down.m, down.e)

product_lt_target(hp, target) ==
  /\ hp.e <= 0
  /\ target.zeros <= - hp.e
  /\ \/ target.zeros < - hp.e
     \/ hp.m < target.bits * 2 ^ (M - TargetBits)

VerdictInit == judged = <<>>

\* main, after the hashes.
Judge ==
  \E verus \in Hashes, sha \in ShaHashes, power \in Powers, target \in Targets :
     judged' = [verus |-> verus, sha |-> sha, power |-> power, target |-> target,
                ok |-> /\ ~ Less(CF(sha), Threshold)
                       /\ product_lt_target(Times(CF(verus), power), target)]

VerdictSpec == VerdictInit /\ [][Judge]_judged

-----------------------------------------------------------------------------
\* A hash as the number its bytes write.
Number(h) == LET n[i \in 0 .. HashBytes] == IF i = 0 THEN 0 ELSE n[i - 1] * 2 ^ ByteBits + h[i]
             IN  n[HashBytes]

HashesKeepOrder ==
  \A g, h \in Hashes : Number(g) <= Number(h) => ~ Less(CF(h), CF(g))

(***************************************************************************)
(* The verdict is that of exact numbers: although floats of hashes and     *)
(* products are cut off to the width of a mantissa, a smaller hash never   *)
(* gets a larger float, and a header whose target is canonical is accepted *)
(* exactly when its float times the power is below the target's fraction   *)
(* and its SHA hash is not below the threshold. A hash's m, e stand for    *)
(* m * 2^(e - M), a power's for m * 2^e, a target's for the fraction its   *)
(* bits write behind its zeros.                                            *)
(***************************************************************************)
VerdictIsExact ==
  /\ HashesKeepOrder
  /\ judged # <<>> =>
       LET v == CF(judged.verus)
           t == judged.target
       IN  judged.ok <=>
             /\ ~ Less(CF(judged.sha), Threshold)
             /\ v.m * judged.power.m * 2 ^ t.zeros
                  < t.bits * 2 ^ (M - TargetBits) * 2 ^ (- v.e - judged.power.e)
===============================================================================
