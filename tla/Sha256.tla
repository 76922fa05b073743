-------------------------------- MODULE Sha256 --------------------------------
(***************************************************************************)
(* SHA-256 over writes of any length (sha2.cpp, hasher_sha256.hpp): the    *)
(* buffer, its conversions between byte orders, the padding, and the ring  *)
(* of the message schedule. The memory of the buffer is in bytes, on a     *)
(* little-endian host as the build has; a byte is one of the message or a  *)
(* value. What a block does to the hash state is left out.                 *)
(***************************************************************************)
EXTENDS Naturals, SequencesExt

CONSTANT Writings                  \* the lengths of the writes of each message

\* Bound: bit counts of messages have 31 bits, and LengthByte no higher ones.
ASSUME WritingsAssumption ==
  /\ Writings \subseteq Seq(Nat)
  /\ \A lengths \in Writings : SumFunction(lengths) < 2 ^ 28

VARIABLES buffer,
          bitcount,
          updates,                 \* what is left of the current and the later writes
          stream,                  \* the bytes compressed, as the rounds take them
          stage                    \* "update", "spilled", "hashed"

shaVars == <<buffer, bitcount, updates, stream, stage>>

BlockBytes == 64
ShortBlockBytes == 56
MessageByte(i) == <<"msg", i>>
Value(v) == <<"val", v>>

ShaInit == /\ buffer = [j \in 0 .. BlockBytes - 1 |-> Value(0)]
        /\ bitcount = 0
        /\ updates \in Writings
        /\ stream = <<>>
        /\ stage = "update"

Used == (bitcount \div 8) % BlockBytes

\* The first n words in host order, or back.
REVERSE32(mem, n) ==
  [j \in 0 .. BlockBytes - 1 |-> IF j \div 4 < n THEN mem[4 * (j \div 4) + 3 - (j % 4)] ELSE mem[j]]

\* The rounds take a word of the memory from its most significant byte, its last, on.
sha256_Transform(mem) ==
  stream \o [j \in 1 .. BlockBytes |-> mem[4 * ((j - 1) \div 4) + 3 - ((j - 1) % 4)]]

\* The buffer with the next n bytes of the message after those it holds.
Copied(n) ==
  [j \in 0 .. BlockBytes - 1 |-> IF j \in Used .. Used + n - 1 THEN MessageByte(bitcount \div 8 + j - Used)
                            ELSE buffer[j]]

\* sha256_Update: a block is complete, from what was left over or at once.
UpdateBlock ==
  /\ stage = "update"
  /\ updates # <<>>
  /\ Head(updates) >= BlockBytes - Used
  /\ buffer' = REVERSE32(Copied(BlockBytes - Used), 16)
  /\ stream' = sha256_Transform(buffer')
  /\ bitcount' = bitcount + 8 * (BlockBytes - Used)
  /\ updates' = <<Head(updates) - (BlockBytes - Used)>> \o Tail(updates)
  /\ UNCHANGED stage

\* The left-overs are saved.
UpdateRest ==
  /\ stage = "update"
  /\ updates # <<>>
  /\ Head(updates) \in 1 .. BlockBytes - Used - 1
  /\ buffer' = Copied(Head(updates))
  /\ bitcount' = bitcount + 8 * Head(updates)
  /\ updates' = <<0>> \o Tail(updates)
  /\ UNCHANGED <<stream, stage>>

UpdateReturns ==
  /\ stage = "update"
  /\ updates # <<>>
  /\ Head(updates) = 0
  /\ updates' = Tail(updates)
  /\ UNCHANGED <<buffer, bitcount, stream, stage>>

\* The memory after the 1 bit and zeros up to the given end.
Padded(end) ==
  [j \in 0 .. BlockBytes - 1 |-> IF stage = "update" /\ j = Used THEN Value(128)
                            ELSE IF j < end /\ (stage = "spilled" \/ j > Used) THEN Value(0)
                            ELSE buffer[j]]

\* A mutant: the 1 bit is not counted.
SpillsWithoutBit == Used > ShortBlockBytes

\* The length fits this block only if no more than 56 bytes are used with the 1 bit.
Spills == Used + 1 > ShortBlockBytes

\* sha256_Final: the second-to-last block.
FinalSpill ==
  /\ stage = "update"
  /\ updates = <<>>
  /\ Spills
  /\ buffer' = REVERSE32(Padded(BlockBytes), 16)
  /\ stream' = sha256_Transform(buffer')
  /\ stage' = "spilled"
  /\ UNCHANGED <<bitcount, updates>>

\* The two last words, set in host order; the bit counts here need one of them only.
LengthByte(j) == Value(IF j < 60 THEN 0 ELSE (bitcount \div (256 ^ (j - 60))) % 256)

\* sha256_Final: the last block.
FinalBlock ==
  /\ \/ stage = "spilled"
     \/ stage = "update" /\ updates = <<>> /\ ~ Spills
  /\ buffer' = [j \in 0 .. BlockBytes - 1 |-> IF j < ShortBlockBytes THEN REVERSE32(Padded(ShortBlockBytes), 14)[j]
                                         ELSE LengthByte(j)]
  /\ stream' = sha256_Transform(buffer')
  /\ stage' = "hashed"
  /\ UNCHANGED <<bitcount, updates>>

ShaNext == UpdateBlock \/ UpdateRest \/ UpdateReturns \/ FinalSpill \/ FinalBlock

ShaSpec == ShaInit /\ [][ShaNext]_shaVars

\* The round that wrote a slot of the ring W256 last before round j.
WrittenBy(slot, j) == CHOOSE i \in j - 16 .. j - 1 : i % 16 = slot

\* The words a round from 16 on combines, s1 and s0 among them.
ScheduleReads(j) ==
  <<WrittenBy((j + 14) % 16, j), WrittenBy((j + 9) % 16, j),
    WrittenBy((j + 1) % 16, j), WrittenBy(j % 16, j)>>

-----------------------------------------------------------------------------
\* FIPS 180-4, 5.1.1: the message, a 1 bit, the fewest zeros, and the length in 64 bits.
PaddedMessage(n) ==
  LET zeros == (2 * BlockBytes - 9 - (n % BlockBytes)) % BlockBytes
  IN  [i \in 1 .. n |-> MessageByte(i - 1)] \o <<Value(128)>> \o [i \in 1 .. zeros |-> Value(0)]
        \o [i \in 1 .. 8 |-> Value(IF i < 5 THEN 0 ELSE ((8 * n) \div (256 ^ (8 - i))) % 256)]

\* The length of the message.
Total == bitcount \div 8 + SumFunction(updates)

(***************************************************************************)
(* However a message is cut into writes, and wherever its length falls in  *)
(* a block, the rounds take exactly the padded message of the standard, in *)
(* its byte order, and round t combines words t-2, t-7, t-15 and t-16.     *)
(***************************************************************************)
TakesPaddedMessage ==
  LET message == PaddedMessage(Total)
  IN  /\ stream = SubSeq(message, 1, Len(stream))
      /\ stage = "hashed" => stream = message
      /\ \A t \in 16 .. 63 : ScheduleReads(t) = <<t - 2, t - 7, t - 15, t - 16>>
===============================================================================
