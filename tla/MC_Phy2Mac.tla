------------------------------ MODULE MC_Phy2Mac ------------------------------
(***************************************************************************)
(* Phy2Mac on a mobile of a three-node net in FDD mode, running the table *)
(* calcFddSchedule builds (main.cc of this build runs u4 and never calls   *)
(* it).  With tau_rx_dwell = 100 ms the table has eight slots, heartbeat   *)
(* windows at slots 0-2 and 4-6.  The mobile is second in nodes_in_net, so *)
(* it sends heartbeats in slots 1 and 4, data in slot 7, and nothing in    *)
(* the other slots.                                                        *)
(***************************************************************************)
EXTENDS Phy2Mac, RadioSchedule

MCNumNodes == 3
MCNets     == NetsPerSec(FddNet(MCNumNodes, 100000))

ASSUME FddFeasible(MCNumNodes, 100000) /\ MCNets = 4

Mobile1FddTable == CalcNetSchedule(FALSE, MCNumNodes, MCNets, 1, TRUE).sched
====
