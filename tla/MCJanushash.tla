----------------------------- MODULE MCJanushash -----------------------------
(***************************************************************************)
(* Messages that end anywhere in a block of 32 or 64 bytes, with writes    *)
(* that end before, at and behind block ends, the header of 80 bytes in    *)
(* one write among them; mantissas of two bytes of two bits.               *)
(***************************************************************************)
EXTENDS Janushash

MCChunkings == {<<80>>, <<1, 79>>, <<31, 1, 0, 48>>, <<33, 47>>, <<64, 16>>, <<32>>, <<5>>,
                <<20, 20, 30, 7>>}
MCWritings == {<<80>>, <<32>>, <<1, 79>>, <<0>>, <<55>>, <<56>>, <<63>>, <<64>>, <<60, 4>>,
               <<60, 70>>, <<30, 0, 26, 8, 5>>, <<119>>, <<120>>}
MCLowBits == {{}, {1}, 0 .. 3}
MCThreshold == [m |-> 10, e |-> -1]
MCShaHashes == {<<1, 0, 3, 3>>, <<1, 1, 0, 0>>, <<0, 0, 0, 0>>, <<3, 3, 0, 0>>}
MCPowers == [m : {8, 11, 15}, e : {-6, -4, -3}]
===============================================================================
