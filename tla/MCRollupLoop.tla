---------------------------- MODULE MCRollupLoop ----------------------------
(* An instance of RollupLoop for TLC.                                      *)
EXTENDS RollupLoop

(* One unit of a token, nothing, and one unit added.                       *)
WithdrawChoices == {-1, 0, 1}

(* Addresses that both owners want; for the first owner also two addresses *)
(* at one index and one address at two.                                    *)
RegistrationChoices ==
  { <<"o1", 0, "o2">>, <<"o1", 0, "o1">>, <<"o1", 1, "o2">>, <<"o2", 0, "o2">>,
    <<"o2", 1, "o1">> }

=============================================================================
