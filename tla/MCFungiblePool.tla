--------------------------- MODULE MCFungiblePool ---------------------------
(* Instances of FungiblePool for TLC.                                      *)
EXTENDS FungiblePool

(* Owners are interchangeable: no definition names one.                    *)
OwnerSymmetry == Permutations(Owners)
=============================================================================
