-------------------------- MODULE MCSpvLightClient --------------------------
(* Instances of SpvLightClient for TLC: a chain of six blocks, a branch    *)
(* of three that leaves it after the first, a header sent with a height    *)
(* that is not its own, and one sent without its bytes, whose hash is that *)
(* of another.                                                             *)
EXTENDS SpvLightClient

Header(hash, prev, height) ==
  [hash |-> hash, prev |-> prev, height |-> height]

Chain  == << Header("a1", "a0", 1), Header("a2", "a1", 2),
             Header("a3", "a2", 3), Header("a4", "a3", 4),
             Header("a5", "a4", 5), Header("a6", "a5", 6) >>
Branch == << Header("b2", "a1", 2), Header("b3", "b2", 3),
             Header("b4", "b3", 4) >>
Moved  == Header("a2", "a1", 3)
Bare   == Header("a3", "b2", 3)

MCHeaders == Range(Chain) \cup Range(Branch) \cup {Moved, Bare}

(* Every stretch of the chain up to three long, the branch from two starts *)
(* and alone, the odd headers, and a window that is not linked.            *)
MCWindows ==
  { SubSeq(Chain, p[1], p[2]) :
      p \in { q \in (1 .. 6) \X (1 .. 6) : q[2] \in q[1] .. q[1] + 2 } }
  \cup { Branch, <<Branch[1]>>, <<Branch[1], Branch[2]>>, <<Chain[1]>> \o Branch,
         <<Moved>>, <<Bare>>, <<Branch[1], Bare>>, <<Chain[1], Chain[3]>> }

(* Pins of a block of the chain, of the branch, and one without a hash.    *)
MCPins == { [height |-> 3, hash |-> "a3"], [height |-> 2, hash |-> "b2"],
            [height |-> 4, hash |-> NoHash] }

(* The branch's last block lacks proof of work.                            *)
MCMined == Hashes \ {"b4"}
=============================================================================
