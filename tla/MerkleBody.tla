------------------------------ MODULE MerkleBody ------------------------------
(***************************************************************************)
(* The proof that a body is a block's (src/src/wartSpv.js): the leaves of  *)
(* a body, hashed pairwise to a root that the block's header commits to,   *)
(* and the transfers found in it.                                          *)
(*                                                                         *)
(* A body is what a claim says it is, its bytes and a structure of them:   *)
(* [seed, leaves], the first ten bytes, and the nodes with a leaf tag that *)
(* have none above them, in the order of the walk.  Such a leaf is         *)
(* [tag, offset, content, below]: the content is the bytes at the offset,  *)
(* and below has the nodes tagged wartTransfer that the claim puts below   *)
(* the leaf, each [offset, content].  Both walks go through all other      *)
(* nodes without a trace.  Only the seed and the contents of leaves are    *)
(* hashed: tags, offsets and what is below a leaf are the claim's word.    *)
(*                                                                         *)
(* A content is a record, with the origin, to and amountE8 that it reads   *)
(* as if it is long enough for a transfer, whatever it is in the block; or *)
(* it is two hashes, or one, as above the leaves.  A hash is the term of   *)
(* what was hashed, so equal hashes have equal contents.                   *)
(***************************************************************************)
EXTENDS Integers, Sequences

Joined(hashes, seed) == [hashes |-> hashes, seed |-> seed]
IsJoined(content)    == DOMAIN content = {"hashes", "seed"}

Leaf(content)      == [sha256 |-> content]
Hash(hashes, seed) == [sha256 |-> Joined(hashes, seed)]

(* collectBodyLeaves.                                                      *)
Leaves(body) == [i \in DOMAIN body.leaves |-> Leaf(body.leaves[i].content)]

(* What the i-th hash of the next level is made of: two hashes, or the     *)
(* last one alone.                                                         *)
Pair(cur, i) ==
  IF 2 * i <= Len(cur) THEN <<cur[2 * i - 1], cur[2 * i]>> ELSE <<cur[2 * i - 1]>>

(* Mutant: the size is rounded down.                                       *)
LevelSizeDown(cur) == IF Len(cur) = 1 THEN 1 ELSE Len(cur) \div 2

(* A hash for every two of a level, and one for the last of an odd number. *)
LevelSize(cur) == (Len(cur) + 1) \div 2

(* The next level; the seed goes into its hash when there is one left.     *)
NextLevel(cur, seed) ==
  [i \in 1 .. LevelSize(cur) |->
     Hash(Pair(cur, i), IF LevelSize(cur) = 1 THEN <<seed>> ELSE <<>>)]

(* The levels up to the root: at least one above the leaves.               *)
merkleRootNew(leaves, seed) ==
  LET level[k \in 0 .. Len(leaves)] ==
        IF k = 0 THEN leaves
        ELSE LET cur == level[k - 1]
             IN  IF k > 1 /\ Len(cur) = 1 THEN cur ELSE NextLevel(cur, seed)
  IN  level[Len(leaves)][1]

(* What Warthog's header commits to: a binary tree over the leaves, filled *)
(* from the left, of the least height above zero that has room for them.   *)
HeaderRoot(body) ==
  LET leaves == Leaves(body)
      n      == Len(leaves)
      Height == CHOOSE k \in 1 .. n : 2 ^ k >= n /\ (k = 1 \/ 2 ^ (k - 1) < n)
      row[k \in 0 .. Height] ==
        IF k = 0 THEN leaves
        ELSE [i \in { i \in 1 .. n : (i - 1) * 2 ^ k < n } |->
                Hash([j \in 1 .. (IF 2 * i \in DOMAIN row[k - 1] THEN 2 ELSE 1) |->
                        row[k - 1][2 * i - 2 + j]],
                     IF k = Height THEN <<body.seed>> ELSE <<>>)]
  IN  row[Height][1]

(* verifyBodyMerkle.                                                       *)
BodyProves(body, root) ==
  body.leaves # <<>> /\ merkleRootNew(Leaves(body), body.seed) = root

(* What findPoolDeposits walks over: the leaves tagged wartTransfer, at    *)
(* <<i, 0>>, and what is below any leaf.                                   *)
Found(body) ==
  { <<i, 0>> : i \in { j \in DOMAIN body.leaves : body.leaves[j].tag = "wartTransfer" } }
    \cup UNION { {i} \X DOMAIN body.leaves[i].below : i \in DOMAIN body.leaves }

NodeAt(body, place) ==
  IF place[2] = 0 THEN body.leaves[place[1]]
  ELSE body.leaves[place[1]].below[place[2]]

Before(p, q) == p[1] < q[1] \/ (p[1] = q[1] /\ p[2] < q[2])

(* decodeWartTransfer, and what it throws at.  Two hashes are long enough  *)
(* and read as numbers that mean nothing.                                  *)
LongEnough(content) ==
  IF IsJoined(content) THEN Len(content.hashes) = 2
  ELSE "amountE8" \in DOMAIN content

Decoded(content) ==
  IF IsJoined(content) THEN [origin |-> "noise", to |-> "noise", amountE8 |-> 1]
  ELSE content

SentAt(body, place) == Decoded(NodeAt(body, place).content)

(* findPoolDeposits: the places of what reads as a transfer to an account. *)
Deposits(body, account) ==
  { p \in Found(body) :
      /\ \A q \in Found(body) : LongEnough(NodeAt(body, q).content)
      /\ SentAt(body, p).to = account
      /\ SentAt(body, p).amountE8 > 0 }

(* What a claim can get: the first of an amount, whichever it names.       *)
Choosable(body, account) ==
  { p \in Deposits(body, account) :
      \A q \in Deposits(body, account) :
        SentAt(body, q).amountE8 = SentAt(body, p).amountE8 => ~Before(q, p) }
===============================================================================
