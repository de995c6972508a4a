--------------------------- MODULE MC_TaskFactory ---------------------------
(* Model-checking instance of TaskFactory: two matching interfaces.        *)
EXTENDS TaskFactory
CONSTANTS eth0, eth1
MCDevices == {eth0, eth1}
=============================================================================
