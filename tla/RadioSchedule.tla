---------------------------- MODULE RadioSchedule ----------------------------
(***************************************************************************)
(* The slot tables of RadioScheduler (RadioScheduler.cc), as constant      *)
(* operators.  Timing is kept in integer microseconds: every duration the  *)
(* constructor derives is a sum of the measured rx dwell, the retune delay *)
(* and the fixed margins of RadioScheduler.h, and the only non-linear step *)
(* is the floor of a division, which \div models exactly.                  *)
(*                                                                         *)
(* A table is a record [sched |-> f, overrun |-> S]: f maps 0..size-1 to a *)
(* task record [rx_task, tx_task], and S is the set of indices the C++     *)
(* loop writes although they lie outside the array of `size` entries that *)
(* the constructor allocated (a heap overrun, undefined behaviour).        *)
(***************************************************************************)
EXTENDS Integers, FiniteSets

RxTasks == {"IDLE", "RETUNE_ONLY", "DATA", "OFDMA_DATA", "MC_DATA",
            "HEARTBEAT", "SNAPSHOT"}
TxTasks == {"IDLE", "RETUNE_ONLY", "DATA", "OFDMA_DATA", "MC_DATA",
            "HEARTBEAT", "NOISE"}

Task(rx, tx) == [rx_task |-> rx, tx_task |-> tx]

\* RadioScheduler.h: the fixed margins, in microseconds.
TAU_FDD_ENDSLOT_MARGIN == 1200
TAU_FH_ENDSLOT_MARGIN  == 1800
TAU_1PPS_GUARD         == 10000
SECOND                 == 1000000
U4_ALLOCATED           == 40

(***************************************************************************)
(* Constructor sizing.  N is num_nodes_in_net (N >= 2), dwell is          *)
(* tau_rx_dwell and tune is tau_tune.                                      *)
(***************************************************************************)
FddNet(N, dwell)      == (dwell + TAU_FDD_ENDSLOT_MARGIN) * (N - 1)
FhNet(N, dwell, tune) == (tune + dwell + TAU_FH_ENDSLOT_MARGIN) * (N - 1)

\* The FDD feasibility test; the FH branch of the constructor repeats this
\* very test (it reads tau_fdd_net, not tau_fh_net).
FddFeasible(N, dwell) == SECOND - FddNet(N, dwell) >= TAU_1PPS_GUARD
FhCheckPasses(N, dwell, tune) == SECOND - FddNet(N, dwell) >= TAU_1PPS_GUARD

NetsPerSec(net) == (SECOND - TAU_1PPS_GUARD) \div net
SchedSize(N, net) == (N - 1) * NetsPerSec(net)

(***************************************************************************)
(* calcFddSchedule / calcFhSchedule: the two bodies are the same loops     *)
(* over their own table, so one operator models both.  k is active_slot,   *)
(* the index of node_id in nodes_in_net.                                   *)
(***************************************************************************)
MidPt(size) == size \div 2   \* ceil() applied to an integer quotient

HeartbeatIdx(N, size) == (0 .. N - 1) \cup (MidPt(size) .. MidPt(size) + N - 1)

ActiveIdx(N, nets, k) == {ctr * N + k : ctr \in 0 .. nets - 1}

CalcNetSchedule(basestation, N, nets, k, heartbeat_on) ==
    LET size  == (N - 1) * nets
        slots == 0 .. size - 1
        txBase(i) == IF basestation \/ i \in ActiveIdx(N, nets, k)
                     THEN "DATA" ELSE "IDLE"
        isHb(i) == heartbeat_on /\ i \in HeartbeatIdx(N, size)
        written == (IF basestation THEN {} ELSE ActiveIdx(N, nets, k))
                   \cup (IF heartbeat_on THEN HeartbeatIdx(N, size) ELSE {})
    IN [sched |-> [i \in slots |->
                     IF isHb(i)
                     THEN Task("HEARTBEAT",
                               IF txBase(i) = "DATA" THEN "HEARTBEAT" ELSE "IDLE")
                     ELSE Task("DATA", txBase(i))],
        overrun |-> written \ slots]

\* calcCalibrationSchedule: one snapshot/noise pair in slot 0.
CalcCalibration(size) ==
    [sched |-> [i \in 0 .. size - 1 |->
                  IF i = 0 THEN Task("SNAPSHOT", "NOISE") ELSE Task("IDLE", "IDLE")],
     overrun |-> {0} \ (0 .. size - 1)]

\* calcTestSchedule: an empty schedule with a snapshot in slot 0.
CalcTest(size) ==
    [sched |-> [i \in 0 .. size - 1 |->
                  IF i = 0 THEN Task("SNAPSHOT", "IDLE") ELSE Task("IDLE", "IDLE")],
     overrun |-> {0} \ (0 .. size - 1)]

\* calcU4Schedule: the basestation sends OFDMA frames, a mobile MC frames.
CalcU4(basestation, size) ==
    [i \in 0 .. size - 1 |->
       Task("IDLE", IF basestation THEN "OFDMA_DATA" ELSE "MC_DATA")]

\* setU4ScheduleSize: an int stored into an unsigned int, then capped.  A
\* negative int becomes new_size + 2^32 >= 2^31 as unsigned, which the cap
\* also catches (2^32 itself is beyond TLC's integers).
U4SizeAfterSet(new_size) ==
    IF new_size < 0 \/ new_size > U4_ALLOCATED THEN U4_ALLOCATED ELSE new_size
=============================================================================
