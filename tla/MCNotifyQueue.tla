---------------------------- MODULE MCNotifyQueue ----------------------------
(* Instances of NotifyQueue for TLC: the receiving thread and the base      *)
(* thread report messages.                                                  *)
EXTENDS NotifyQueue

CONSTANTS recv, base
MCProducers == {recv, base}
MCKillable == {recv}
=============================================================================
