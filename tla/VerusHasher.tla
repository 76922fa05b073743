------------------------------ MODULE VerusHasher ------------------------------
(***************************************************************************)
(* VerusHasher (verushash.hpp, verushash.cpp): a message that arrives in   *)
(* writes of any length is cut into blocks of 32 bytes, each hashed        *)
(* together with the hash so far; finalize fills up the last block, first  *)
(* for the keyed multiplication, then with its result for the last Haraka. *)
(* A byte is where it comes from: the message, a hash of a call, the       *)
(* multiplication's result, the initial zeros, or memory never written.    *)
(***************************************************************************)
EXTENDS Naturals, Sequences, Haraka

CONSTANT Chunkings                 \* the lengths of the writes of each message

ASSUME ChunkingsAssumption == Chunkings \subseteq Seq(Nat)

VARIABLES curBuf, result,          \* the two buffers, as curBuf and result point to them
          curPos,                  \* bytes of the next block that are in curBuf
          writes,                  \* what is left of the current and the later writes
          read,                    \* bytes of the message consumed
          calls,                   \* calls of haraka512
          chain,                   \* the message bytes each word of the last hash depends on
          phase

hasherVars == <<curBuf, result, curPos, writes, read, calls, chain, phase>>

Zero == <<"zero">>
Junk == <<"junk">>
Msg(i) == <<"msg", i>>
Out(k, j) == IF k = 0 THEN Zero ELSE <<"hash", k, j>>
Mid(j) == <<"mid", j>>

KeptBytes == 32
U128Bytes == 16
U64Bytes == 8

HasherInit == /\ curBuf = [j \in 0 .. 63 |-> Zero]
        /\ result = [j \in 0 .. 63 |-> Junk]
        /\ curPos = 0
        /\ writes \in Chunkings
        /\ read = 0
        /\ calls = 0
        /\ chain = [w \in 1 .. 8 |-> {}]
        /\ phase = "writing"

\* A mutant: a write starts its block anew.
WithMessageAtStart(n) ==
  [j \in 0 .. 63 |-> IF j \in 32 .. 31 + n THEN Msg(read + j - 32) ELSE curBuf[j]]

\* curBuf with the next n bytes of the message after the curPos it holds.
WithMessage(n) ==
  [j \in 0 .. 63 |-> IF j \in 32 + curPos .. 31 + curPos + n THEN Msg(read + j - 32 - curPos)
                     ELSE curBuf[j]]

\* The sources of the 16 words of a buffer; mid is computed from all of it and from the hash.
Sources(buf) ==
  LET Of(b) == CASE b[1] = "msg"  -> {b[2]}
                 [] b[1] = "hash" -> chain[1 + b[3] \div 4]
                 [] b[1] = "mid"  -> 0 .. read - 1
                 [] OTHER         -> {}
  IN  [w \in 1 .. 16 |-> UNION {Of(buf[4 * w - b]) : b \in 1 .. 4}]

Room == 32 - curPos

\* One turn of write's loop: a block is complete, is hashed, and the buffers are swapped.
Digest ==
  /\ phase = "writing"
  /\ writes # <<>>
  /\ Head(writes) >= Room
  /\ LET in == WithMessage(Room)
     IN  /\ curBuf' = [j \in 0 .. 63 |-> IF j < KeptBytes THEN Out(calls + 1, j) ELSE result[j]]
         /\ result' = in
         /\ chain' = haraka512_port(Sources(in))
  /\ writes' = <<Head(writes) - Room>> \o Tail(writes)
  /\ read' = read + Room
  /\ curPos' = 0
  /\ calls' = calls + 1
  /\ UNCHANGED phase

\* The other branch: the rest of the write does not complete a block.
Keep ==
  /\ phase = "writing"
  /\ writes # <<>>
  /\ Head(writes) \in 1 .. Room - 1
  /\ curBuf' = WithMessage(Head(writes))
  /\ curPos' = curPos + Head(writes)
  /\ read' = read + Head(writes)
  /\ writes' = <<0>> \o Tail(writes)
  /\ UNCHANGED <<result, calls, chain, phase>>

\* write returns.
Return ==
  /\ phase = "writing"
  /\ writes # <<>>
  /\ Head(writes) = 0
  /\ writes' = Tail(writes)
  /\ UNCHANGED <<curBuf, result, curPos, read, calls, chain, phase>>

\* The rest of the block is filled with the first size bytes of data, over and over.
FillExtra(data, size) ==
  [j \in 0 .. 63 |-> IF j < 32 + curPos THEN curBuf[j] ELSE data[(j - 32 - curPos) % size]]

\* finalize, up to the keyed multiplication, which reads all of curBuf.
Fill ==
  /\ phase = "writing"
  /\ writes = <<>>
  /\ curBuf' = FillExtra(curBuf, U128Bytes)
  /\ phase' = "filled"
  /\ UNCHANGED <<result, curPos, writes, read, calls, chain>>

\* The rest of finalize; what reaches the hash through the key is not followed.
Seal ==
  /\ phase = "filled"
  /\ curBuf' = FillExtra([j \in 0 .. U64Bytes - 1 |-> Mid(j)], U64Bytes)
  /\ chain' = haraka512_port_keyed(Sources(curBuf'))
  /\ phase' = "sealed"
  /\ UNCHANGED <<result, curPos, writes, read, calls>>

HasherNext == Digest \/ Keep \/ Return \/ Fill \/ Seal

HasherSpec == HasherInit /\ [][HasherNext]_hasherVars

-----------------------------------------------------------------------------
\* The hash so far, then the message from where that hash ended, then the filling.
ExpectedBlock(k, len, fill(_)) ==
  [j \in 0 .. 63 |-> IF j < 32 THEN Out(k, j)
                     ELSE IF j < 32 + len THEN Msg(32 * k + j - 32)
                     ELSE fill(j - 32 - len)]

(***************************************************************************)
(* However the message is cut into writes, the buffers hold its blocks of  *)
(* 32 in order, each behind the hash of the ones before it, and the last   *)
(* is filled up with the hash for the key and with the result at the end:  *)
(* never a byte of an earlier block, of the swapped buffer or of buf2,     *)
(* which is not initialised.                                               *)
(***************************************************************************)
BlocksFollowMessage ==
  /\ read = 32 * calls + curPos
  /\ calls > 0 => result = ExpectedBlock(calls - 1, 32, LAMBDA j : Junk)
  /\ phase = "writing" =>
       \A j \in 0 .. 31 + curPos : curBuf[j] = ExpectedBlock(calls, curPos, LAMBDA i : Junk)[j]
  /\ phase = "filled" => curBuf = ExpectedBlock(calls, curPos, LAMBDA j : Out(calls, j % U128Bytes))
  /\ phase = "sealed" => curBuf = ExpectedBlock(calls, curPos, LAMBDA j : Mid(j % U64Bytes))

(***************************************************************************)
(* Every word of every hash depends on every byte of the message so far,   *)
(* through the five rounds of mixing, the feed-forward and the truncation: *)
(* no byte of a header is left out of a part of its Verus hash, even where *)
(* the key does not follow it. A key block depends on all of the one       *)
(* before it.                                                              *)
(***************************************************************************)
EveryByteCounts ==
  /\ MixLosesNothing
  /\ KeyBlocksDiffuse
  /\ \A w \in 1 .. 8 : chain[w] = 0 .. (IF phase = "sealed" THEN read ELSE 32 * calls) - 1
===============================================================================
