------------------------------- MODULE Phy2Mac -------------------------------
(***************************************************************************)
(* Phy2Mac as one object: the MAC frame side (MacFrames) and the          *)
(* heartbeat statistics (Heartbeat) share rx_num_heartbeat_frames, which  *)
(* updateHeartbeatPostTask counts for every valid heartbeat.  The two     *)
(* parts otherwise touch disjoint members, so each of their steps leaves  *)
(* the other part's state alone.  Heartbeat operations run on the control *)
(* thread of main.cc, so none happens once the process has ended.         *)
(***************************************************************************)
EXTENDS Integers, Sequences

CONSTANTS
    N, node_id, node_is_basestation, TaskTable, MaxEpochs, MaxPackets, MaxRx,
    MaxRxFrames,
    heartbeat_policy, heartbeat_activity, MaxSessionOpp

VARIABLES
    pc, epoch, task_id, using_tun_tap, pkt_ctr, tx_packets,
    tx_header, tx_payload, tx_payload_size, tx_data_frame_id,
    bursts, sent, tx_stats, rx_header, rx_stats, delivered,
    rxf, after_rx_task_check_for_frame,
    heartbeat_opportunity_ctr, heartbeat_missing_ctr, heartbeat_valid_ctr,
    heartbeat_errored_ctr, heartbeat_jammed_ctr, heartbeat_sample_ctr,
    session_heartbeat_opportunity_ctr, session_heartbeat_missing_ctr,
    session_heartbeat_valid_ctr, session_heartbeat_errored_ctr,
    session_heartbeat_jammed_ctr,
    heartbeat_policy_selects_normal_mode

MF == INSTANCE MacFrames
HB == INSTANCE Heartbeat

mfVars == <<pc, epoch, task_id, using_tun_tap, pkt_ctr, tx_packets,
            tx_header, tx_payload, tx_payload_size, tx_data_frame_id,
            bursts, sent, tx_stats, rx_header, rx_stats, delivered,
            rxf, after_rx_task_check_for_frame>>
hbVars == <<heartbeat_opportunity_ctr, heartbeat_missing_ctr,
            heartbeat_valid_ctr, heartbeat_errored_ctr, heartbeat_jammed_ctr,
            heartbeat_sample_ctr, session_heartbeat_opportunity_ctr,
            session_heartbeat_missing_ctr, session_heartbeat_valid_ctr,
            session_heartbeat_errored_ctr, session_heartbeat_jammed_ctr,
            heartbeat_policy_selects_normal_mode>>
vars == <<mfVars, hbVars>>

Init == MF!Init /\ HB!Init

\* (mutant) rx_num_heartbeat_frames counted for every detected heartbeat
UpdateHeartbeatPostTaskCountsDetected(detected, valid, noisy) ==
    /\ MF!Alive
    /\ HB!UpdateHeartbeatPostTask(detected, valid, noisy)
    /\ rx_stats' = IF detected THEN [rx_stats EXCEPT !.heartbeat = @ + 1]
                   ELSE rx_stats
    /\ UNCHANGED <<pc, epoch, task_id, using_tun_tap, pkt_ctr, tx_packets,
                   tx_header, tx_payload, tx_payload_size, tx_data_frame_id,
                   bursts, sent, tx_stats, rx_header, delivered,
                   rxf, after_rx_task_check_for_frame>>

\* updateHeartbeatPostTask: the heartbeat counters, and for a valid frame
\* rx_num_heartbeat_frames as well.
UpdateHeartbeatPostTask(detected, valid, noisy) ==
    /\ MF!Alive
    /\ HB!UpdateHeartbeatPostTask(detected, valid, noisy)
    /\ rx_stats' = IF valid THEN [rx_stats EXCEPT !.heartbeat = @ + 1]
                   ELSE rx_stats
    /\ UNCHANGED <<pc, epoch, task_id, using_tun_tap, pkt_ctr, tx_packets,
                   tx_header, tx_payload, tx_payload_size, tx_data_frame_id,
                   bursts, sent, tx_stats, rx_header, delivered,
                   rxf, after_rx_task_check_for_frame>>

AssessHeartbeatStats(waveform_is_normal) ==
    /\ MF!Alive
    /\ HB!AssessHeartbeatStats(waveform_is_normal)
    /\ UNCHANGED mfVars

Next ==
    \/ MF!Next /\ UNCHANGED hbVars
    \/ \E d, v, n \in BOOLEAN : UpdateHeartbeatPostTask(d, v, n)
    \/ \E w \in BOOLEAN : AssessHeartbeatStats(w)

Spec == Init /\ [][Next]_vars
-----------------------------------------------------------------------------
TypeOK == MF!TypeOK /\ HB!TypeOK

\* rx_num_heartbeat_frames, which printFrameStats reports, equals the valid
\* heartbeats the statistics hold: those of closed windows, folded into the
\* session totals by assessHeartbeatStats, plus those of the open window.
\* It takes a window closing (three assessments) between valid heartbeats
\* to tell a lost or doubled fold apart.
HeartbeatFramesCounted ==
    rx_stats.heartbeat = session_heartbeat_valid_ctr + heartbeat_valid_ctr

PolicyOperandsNonNegative == HB!PolicyOperandsNonNegative
BurstSendsSlotFrame == MF!BurstSendsSlotFrame
DataFrameIsStoredPacket == MF!DataFrameIsStoredPacket
====
