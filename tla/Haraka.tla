-------------------------------- MODULE Haraka --------------------------------
(***************************************************************************)
(* The wiring of the Haraka permutations (verus_clhash_port.cpp): which    *)
(* input words each word of the state is computed from. A lane is 16       *)
(* bytes, a tuple of four words; a word is the set of the sources it       *)
(* depends on. S-boxes, field arithmetic and round constants only decide   *)
(* values and are left out.                                                *)
(***************************************************************************)
EXTENDS Naturals, Sequences

Rounds == 5

\* Each of y0..y3 takes one byte of each of the lane's words.
aesenc(lane) == LET all == UNION {lane[w] : w \in 1 .. 4} IN <<all, all, all, all>>

unpacklo32(a, b) == <<a[1], b[1], a[2], b[2]>>
unpackhi32(a, b) == <<a[3], b[3], a[4], b[4]>>

\* A mutant: without tmp, the lane is overwritten before it is used again.
Mix512NoTmp(s) ==
  LET s1 == unpackhi32(s[1], s[2])
      s2 == unpacklo32(s[3], s[4])
      s3 == unpackhi32(s[3], s[4])
  IN  <<unpackhi32(s1, s3), unpacklo32(s2, s1), unpackhi32(s2, s1), unpacklo32(s1, s3)>>

\* The in-place mixing of four lanes; each name is what a lane holds on the way.
Mix512(s) ==
  LET tmp == unpacklo32(s[1], s[2])
      s1  == unpackhi32(s[1], s[2])
      s2  == unpacklo32(s[3], s[4])
      s3  == unpackhi32(s[3], s[4])
  IN  <<unpackhi32(s1, s3), unpacklo32(s2, tmp), unpackhi32(s2, tmp), unpacklo32(s1, s3)>>

Mix256(s) == <<unpacklo32(s[1], s[2]), unpackhi32(s[1], s[2])>>

\* Five rounds on four or two lanes, each of two AES rounds on every lane and a mixing.
haraka512_perm(in) ==
  LET Aes(s) == <<aesenc(aesenc(s[1])), aesenc(aesenc(s[2])),
                  aesenc(aesenc(s[3])), aesenc(aesenc(s[4]))>>
      s[i \in 0 .. Rounds] ==
        IF i = 0 THEN <<SubSeq(in, 1, 4), SubSeq(in, 5, 8), SubSeq(in, 9, 12), SubSeq(in, 13, 16)>>
        ELSE LET aes == Aes(s[i - 1]) IN Mix512(aes)
      out == s[Rounds]
  IN  out[1] \o out[2] \o out[3] \o out[4]

haraka256_perm(in) ==
  LET s[i \in 0 .. Rounds] ==
        IF i = 0 THEN <<SubSeq(in, 1, 4), SubSeq(in, 5, 8)>>
        ELSE LET prev == s[i - 1] IN Mix256(<<aesenc(aesenc(prev[1])), aesenc(aesenc(prev[2]))>>)
      out == s[Rounds]
  IN  out[1] \o out[2]

\* The words haraka512 keeps of the permuted state, in the order of its output.
Truncated == <<3, 4, 7, 8, 9, 10, 13, 14>>

haraka512_port(in) ==
  LET buf == haraka512_perm(in)
  IN  [w \in 1 .. 8 |-> buf[Truncated[w]] \cup in[Truncated[w]]]

\* The keyed copy has the same wiring; its round keys are 40 slots of the key.
haraka512_port_keyed(in) == haraka512_port(in)

haraka256_port(in) == LET s == haraka256_perm(in) IN [w \in 1 .. 8 |-> in[w] \cup s[w]]

\* Both mixings move words and lose none.
MixLosesNothing ==
  LET Words(l) == [w \in 1 .. 4 |-> <<l, w>>]
      Held(lanes) == UNION {{lanes[l][w] : w \in 1 .. 4} : l \in DOMAIN lanes}
  IN  /\ Held(Mix512(<<Words(1), Words(2), Words(3), Words(4)>>)) = (1 .. 4) \X (1 .. 4)
      /\ Held(Mix256(<<Words(1), Words(2)>>)) = (1 .. 2) \X (1 .. 4)

\* Each half of a key block depends on all of the block before it.
KeyBlocksDiffuse == \A w \in 1 .. 8 : haraka256_port([v \in 1 .. 8 |-> {v}])[w] = 1 .. 8
===============================================================================
