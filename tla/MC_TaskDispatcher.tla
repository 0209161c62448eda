-------------------------- MODULE MC_TaskDispatcher --------------------------
(***************************************************************************)
(* Instantiates TaskDispatcher with the FH table that RadioScheduler       *)
(* computes for a three-node net (a basestation and two mobiles).          *)
(* tau_rx_dwell = 100 ms and tau_tune = 20 ms give 243.6 ms per FH net,    *)
(* four nets per second and an eight-slot table with heartbeat windows     *)
(* at slots 0-2 and 4-6: small enough to check every interleaving of the   *)
(* workers, and with data slots right before both heartbeat windows.       *)
(***************************************************************************)
EXTENDS TaskDispatcher

MCNumNodes == 3
MCDwell    == 100000
MCTune     == 20000
MCNets     == NetsPerSec(FhNet(MCNumNodes, MCDwell, MCTune))

ASSUME FhCheckPasses(MCNumNodes, MCDwell, MCTune) /\ MCNets = 4

\* nodes_in_net = {basestation, mobile 1, mobile 2}; a node's active slot is
\* its index in that list.
BasestationFhTable == CalcNetSchedule(TRUE, MCNumNodes, MCNets, 0, TRUE).sched
Mobile1FhTable     == CalcNetSchedule(FALSE, MCNumNodes, MCNets, 1, TRUE).sched
=============================================================================
