-------------------------------- MODULE ClHash --------------------------------
(***************************************************************************)
(* The keyed multiplication of Verus (verus_clhash_port.cpp) on a HashKey  *)
(* (verushash.cpp): 32 turns, each steered by a selector taken from the    *)
(* accumulator, read the key and the buffer and change the two slots of    *)
(* the key that they swap. A slot is 16 bytes; sizes are the program's. Of *)
(* the values only what chooses an address, a branch or a divisor is kept. *)
(* The turns also log which slots they change, behind the key; nothing     *)
(* reads the log, as every hash makes a key of its own.                    *)
(***************************************************************************)
EXTENDS Integers, Sequences, FiniteSets

CONSTANTS Turns,                   \* turns of the loop, 32 in the program
          Picks,                   \* the slots that selectors choose
          RoundCounts,             \* what selectors have in their top three bits
          LowBits                  \* the rounds below 4 whose bits selectors set

KeySlots == (1024 * 8 + 40 * 16) \div 16
KeyMask == 511                     \* the program's keyMask >> 4

ASSUME TurnsAssumption == Turns \in Nat
ASSUME PicksAssumption == Picks \subseteq 0 .. KeyMask
ASSUME RoundsAssumption == RoundCounts \subseteq 0 .. 7 /\ LowBits \subseteq SUBSET (0 .. 3)

VARIABLES turn,                    \* turns taken
          reads,                   \* what was read last
          step

keyVars == <<turn, reads, step>>

\* Slots of the key, lanes of the buffer, and the low five bits of a divisor, or none.
Reads(slots, lanes, divisor) == [slots |-> slots, lanes |-> lanes, divisor |-> divisor]

KeyInit == /\ turn = 0
           /\ reads = Reads({}, {}, {})
           /\ step = "unseeded"

(***************************************************************************)
(* A selector: two slots, two low bits that choose a lane of the buffer,   *)
(* the kind of turn, the rounds of the inner loops, and the rounds whose   *)
(* bit, 28 + r, is set: from r = 4 on that bit belongs to prandex's slot.  *)
(***************************************************************************)
Kinds == {4 * k : k \in 0 .. 7}

Selectors == [prand : Picks, prandex : Picks, low2 : 0 .. 3, kind : Kinds,
              rounds : RoundCounts, low : LowBits]

IsSet(s, r) == IF r < 4 THEN r \in s.low ELSE (s.prandex \div (2 ^ (r - 4))) % 2 = 1

\* pbuf, and its neighbour pbuf - (((selector & 1) << 1) - 1).
Pbuf(s) == s.low2
\* A mutant: the neighbour is the next lane.
OtherNext(s) == s.low2 + 1

Other(s) == s.low2 - (2 * (s.low2 % 2) - 1)

\* Cases 0, 4, 8, 0xc and 0x1c: the two slots only.
SwappedSlots(s) == {s.prand, s.prandex}

\* Case 0x10: three pairs of AES rounds with the slots from prand on as their keys.
AesSlots(s) == s.prand .. s.prand + 11

(***************************************************************************)
(* Case 0x14: round r, counted down, reads the slot rc points to, which    *)
(* moves on by one, and where its bit is clear four more as AES keys, each *)
(* time four further on.                                                   *)
(***************************************************************************)
MonkinsSlots(s) ==
  LET Clear(i) == ~ IsSet(s, s.rounds - i)
      AesRound(i) == Cardinality({h \in 0 .. i - 1 : Clear(h)})
      From(i) == s.prand + i + 1 + 4 * AesRound(i)
  IN  (s.prand .. s.prand + s.rounds) \cup
        UNION {From(i) .. From(i) + 3 : i \in {h \in 0 .. s.rounds : Clear(h)}}

\* Case 0x18: one slot a round.
DividedSlots(s) == s.prand .. s.prand + s.rounds

SlotsRead(s) ==
  SwappedSlots(s) \cup CASE s.kind = 16 -> AesSlots(s)
                         [] s.kind = 20 -> MonkinsSlots(s)
                         [] s.kind = 24 -> DividedSlots(s)
                         [] OTHER       -> {}

\* Case 0xc, and case 0x18 in a round whose bit is set, divide by the selector's low word.
Divisors(s) ==
  IF s.kind = 12 \/ (s.kind = 24 /\ \E r \in 0 .. s.rounds : IsSet(s, r))
  THEN {s.kind + s.low2} ELSE {}

\* apply_seed makes the key; the loop starts from slot 513.
Seed ==
  /\ step = "unseeded"
  /\ reads' = Reads({KeyMask + 2}, {}, {})
  /\ step' = "seeded"
  /\ UNCHANGED turn

\* One turn of the loop.
Turn ==
  /\ step = "seeded"
  /\ turn < Turns
  /\ \E s \in Selectors :
       reads' = Reads(SlotsRead(s), {Pbuf(s), Other(s)}, Divisors(s))
  /\ turn' = turn + 1
  /\ UNCHANGED step

\* The end of finalize: 40 slots from the one the result chooses, of the key as it is now.
ApplyKey ==
  /\ step = "seeded"
  /\ turn = Turns
  /\ \E slot \in Picks : reads' = Reads(slot .. slot + 39, {}, {})
  /\ step' = "applied"
  /\ UNCHANGED turn

KeyNext == Seed \/ Turn \/ ApplyKey

KeySpec == KeyInit /\ [][KeyNext]_keyVars

-----------------------------------------------------------------------------
(***************************************************************************)
(* Whatever the selectors are, the loop and the last Haraka stay within    *)
(* the key (never in the copy behind it) and within the buffer's four      *)
(* lanes, and no division is by zero or by minus one, whose low five bits  *)
(* would be 0 or 31.                                                       *)
(***************************************************************************)
StaysInKey ==
  /\ reads.slots \subseteq 0 .. KeySlots - 1
  /\ reads.lanes \subseteq 0 .. 3
  /\ reads.divisor \cap {0, 31} = {}
===============================================================================
