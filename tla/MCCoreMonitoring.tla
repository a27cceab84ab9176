-------------------------- MODULE MCCoreMonitoring --------------------------
(* The host's control writes for TLC. *)
EXTENDS CoreMonitoring

Control(drop, tuple) == [force_drop |-> drop, tuple_pkt_en |-> tuple]

(* clear_rules: force_drop is set; nothing clears it.                      *)
SetDrop == {[before |-> Control(FALSE, t), after |-> Control(TRUE, t)] : t \in BOOLEAN}

(* set_rules: force_drop is cleared.                                       *)
ClearDrop == {[before |-> Control(TRUE, FALSE), after |-> Control(FALSE, FALSE)]}

ASSUME MCSetDrop == Controls = SetDrop => DropStays /\ TuplesStay
=============================================================================
