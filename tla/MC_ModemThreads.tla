---------------------------- MODULE MC_ModemThreads ----------------------------
(***************************************************************************)
(* ModemThreads for TLC: two hole allocations besides the full band, so   *)
(* that an install can follow one of another value.                        *)
(***************************************************************************)
EXTENDS ModemThreads

CONSTANTS H1, H2

MCHoles == {H1, H2}
====
