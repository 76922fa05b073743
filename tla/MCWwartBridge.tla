---------------------------- MODULE MCWwartBridge ----------------------------
(* Instances of WwartBridge for TLC.                                       *)
EXTENDS MCPersonalVault, WwartBridge

(* Both owners use the pool, for two E8, and trade; one of them sweeps one *)
(* E8 to its vault, or withdraws a negative amount instead.                *)
SweepSetting ==
  Setting({ Sweep(s1, v1, 1, "a") }, {o1, o2}, s1 :> {o1} @@ s2 :> {},
          s1 :> {} @@ s2 :> {}, {"norm"}, {2}, {1}, 4)

RaiseSetting ==
  [SweepSetting EXCEPT !.sweeps = {}, !.happened = {},
                       !.withdrawals18 = {-2, 2}, !.raisable = 2]

BridgeSettings == { SweepSetting, RaiseSetting }
=============================================================================
