--------------------------- MODULE MC_PacketStore ---------------------------
(* Instantiates PacketStore for TLC: a basestation (node 3) and two       *)
(* mobiles, frames of 2 units and packets of 2 or 3 units, so that both   *)
(* single-frame and two-frame packets occur.  Each mobile reads two       *)
(* packets, so the two mobiles' packet ids 0 and 1 meet at the            *)
(* basestation; the basestation reads one.                                 *)
EXTENDS PacketStore

MCMaxPackets == (1 :> 2) @@ (2 :> 2) @@ (3 :> 1)

\* Three mobiles (nodes 1-3) that read one packet each, all with id 0,
\* and a basestation (node 4) that reads none.
MCThreeMobiles == (1 :> 1) @@ (2 :> 1) @@ (3 :> 1) @@ (4 :> 0)
====
