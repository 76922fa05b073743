-------------------------- MODULE MCDepositCredit --------------------------
(* Instances of DepositCredit for TLC: a chain of four blocks and a branch *)
(* of one, with deposits of two accounts in three of the blocks.           *)
EXTENDS DepositCredit

Header(hash, prev, height) ==
  [hash |-> hash, prev |-> prev, height |-> height]

Chain  == << Header("a1", "a0", 1), Header("a2", "a1", 2),
             Header("a3", "a2", 3), Header("a4", "a3", 4) >>
Branch == Header("b2", "a1", 2)

MCHeaders == Range(Chain) \cup {Branch}

MCWindows ==
  { <<Chain[1]>>, SubSeq(Chain, 1, 3), SubSeq(Chain, 3, 4), <<Branch>>,
    <<Branch, Chain[3]>> }

MCMined == { h.hash : h \in MCHeaders }

MCPins == { [height |-> 3, hash |-> "a3"] }

Sent(origin, to, amountE8) ==
  [is |-> "transfer", origin |-> origin, to |-> to, amountE8 |-> amountE8]

Entry(tag, content) == [tag |-> tag, content |-> content]

WartTransfer(origin, to, amountE8) ==
  Entry("wartTransfer", Sent(origin, to, amountE8))

Deposit(origin, amountE8) == WartTransfer(origin, "pool", amountE8)

(* Entries that are leaves of a body but no transfers of WART; the bytes   *)
(* of a swap would do for one.                                             *)
Reward    == Entry("reward", [is |-> "reward"])
LimitSwap == Entry("limitSwap", [Sent("bob", "pool", 3) EXCEPT !.is = "limitSwap"])
Cancel    == Entry("cancelation", [is |-> "cancelation"])

(* The body of entries one behind the other, with nothing below any.       *)
BodyOf(entries) ==
  [seed |-> "seed",
   leaves |-> [i \in DOMAIN entries |->
                 [tag |-> entries[i].tag, offset |-> i,
                  content |-> entries[i].content, below |-> <<>>]]]

Body(entries) == BodyOf(<<Reward>> \o entries)

(* Two accounts deposit the same in one block, and one of them again in    *)
(* the next block and on the branch.  The bodies have one to five leaves.  *)
TwinBlocks ==
  "a1" :> Body(<<>>) @@ "a4" :> Body(<<LimitSwap>>)
  @@ "a2" :> Body(<<Deposit("alice", 1), Deposit("bob", 1), LimitSwap, Cancel>>)
  @@ "a3" :> Body(<<Deposit("alice", 2), LimitSwap>>)
  @@ "b2" :> Body(<<Deposit("alice", 1)>>)

(* No block has two deposits of the same amount.                           *)
PlainBlocks ==
  [TwinBlocks EXCEPT !["a2"] = Body(<<Deposit("alice", 1), Deposit("bob", 2)>>)]

(* And a transfer to somebody else.                                        *)
MixedBlocks ==
  [PlainBlocks EXCEPT !["a3"] =
     Body(<<Deposit("alice", 2), WartTransfer("bob", "carol", 1)>>)]

(* One deposit, and entries that are no transfers.                         *)
SparseBlocks ==
  "a2" :> Body(<<Deposit("alice", 1), LimitSwap>>)
  @@ [b \in {"a1", "a3", "a4", "b2"} |-> Body(<<>>)]

(* The bodies of blocks, and what is not quite one of them: without its    *)
(* last entry, with the last one again or another one behind it, with      *)
(* other bytes in its place, in another order, or with another seed.       *)
BodiesOf(blocks) ==
  UNION { LET Altered(s) == [blocks[b] EXCEPT !.leaves = s]
              leaves     == blocks[b].leaves
              Another    == [Last(leaves) EXCEPT !.content = Sent("alice", "pool", 2),
                                                 !.tag = "wartTransfer"]
          IN  { blocks[b], Altered(Front(leaves)),
                Altered(Append(leaves, Last(leaves))), Altered(Append(leaves, Another)),
                Altered(Append(Front(leaves), Another)),
                Altered(Reverse(leaves)), [blocks[b] EXCEPT !.seed = "other"] } :
          b \in DOMAIN blocks }

(* A block's body told in other ways that have the same root: with a       *)
(* transfer below the reward and a swap tagged as one, with the deposit at *)
(* another offset, and with the level above the leaves in their place.     *)
Retold(body) ==
  LET At(i) == Leaf(body.leaves[i].content)
      Over(tag, hashes) == Entry(tag, Joined(hashes, <<>>))
  IN  { [body EXCEPT !.leaves[1].below =
                       <<[offset |-> 9, content |-> Sent("alice", "pool", 2)]>>,
                     !.leaves[3].tag = "wartTransfer"],
        [body EXCEPT !.leaves[2].offset = 9],
        BodyOf(<<Over("wartTransfer", <<At(1), At(2)>>), Over("match", <<At(3)>>)>>) }

World(blocks) ==
  [blocks |-> blocks, bodies |-> BodiesOf(blocks), attested |-> {}]

(* A transfer that hosts attest and that nobody made.                      *)
MadeUp ==
  [block |-> "none", place |-> <<1, 0>>, offset |-> 1, origin |-> "alice",
   to |-> "pool", amountE8 |-> 2]

MCWorlds ==
  [twin |-> World(TwinBlocks), plain |-> World(PlainBlocks),
   mixed |-> World(MixedBlocks),
   made |-> [blocks |-> SparseBlocks, attested |-> {MadeUp},
             bodies |-> Retold(SparseBlocks["a2"])]]

(* Claims only, known by the key they are computed, at a process whose     *)
(* rejected inputs leave what they changed.                                *)
SpvSetting ==
  [reverts |-> FALSE, requireSpv |-> TRUE, byHash |-> FALSE, world |-> "twin",
   claimAccounts |-> {"pool"}, claimHashes |-> {"none"}, depositHashes |-> {},
   addresses |-> {"A", NoAddress}, maxCredits |-> 3]

(* Claims and attested deposits that give the hash and an address, where   *)
(* rejected inputs are reverted, and claims that name another account as   *)
(* the pool's.                                                             *)
MixedSetting ==
  [reverts |-> TRUE, requireSpv |-> FALSE, byHash |-> TRUE, world |-> "mixed",
   claimAccounts |-> {"pool", "carol"}, claimHashes |-> {"own"},
   depositHashes |-> {"own"}, addresses |-> {"A"}, maxCredits |-> 3]

(* Inputs that make up what they can.                                      *)
MadeSetting ==
  [reverts |-> TRUE, requireSpv |-> FALSE, byHash |-> TRUE, world |-> "made",
   claimAccounts |-> {"pool", "noise"}, claimHashes |-> {"any", "none"},
   depositHashes |-> {"0x", "none"}, addresses |-> {"A", NoAddress},
   maxCredits |-> 2]

MCSettings == {SpvSetting, MixedSetting, MadeSetting}

(* Claims that may leave out the transaction's hash.                       *)
TwiceSettings ==
  { [SpvSetting EXCEPT !.world = "plain", !.addresses = {NoAddress}, !.maxCredits = 2,
                       !.claimHashes = {"own", "none"}] }

OwnerSymmetry == Permutations(Owners)
=============================================================================
