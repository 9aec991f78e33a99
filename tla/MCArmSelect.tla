---------------------------- MODULE MCArmSelect ----------------------------
(* TLC instance of ArmSelect: a multidrop target with two debug ports, the  *)
(* first with two access ports.                                             *)
EXTENDS ArmSelect

CONSTANTS d1, d2

MCDPs == {d1, d2}
MCNumAps == [dp \in MCDPs |-> IF dp = d1 THEN 2 ELSE 1]
MCDpBanks == {0, 2}
=============================================================================
