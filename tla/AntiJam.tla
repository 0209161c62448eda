------------------------------- MODULE AntiJam -------------------------------
(***************************************************************************)
(* The anti-jam null-hole sweep of main.cc: the body of the epoch loop     *)
(* after the slot tasks (main.cc:284-486), run by a mobile.  One step is   *)
(* one epoch: throughput is evaluated, the hysteresis branches update the  *)
(* sweep state, and the null hole is repositioned, with the allocation     *)
(* sent to the basestation (txMCAllocBurst, node 1 only) and installed in  *)
(* the mobile's own modem (memcpy into new_alloc, then recreate_modem).    *)
(*                                                                         *)
(* An allocation is abstracted to the left edge of its null hole, or       *)
(* NoHole for the full-band allocation of ofdmframe_init_sctype;          *)
(* OpenNullHole gives the subcarriers a hole really nulls.                 *)
(*                                                                         *)
(* The radio environment: a jammer on one subcarrier (or none).  A frame  *)
(* decodes when the basestation's generator and the mobile's synchroniser *)
(* use the same allocation and the jammer, if any, sits in its hole.       *)
(* With Adversarial = TRUE the throughput outcome is free instead.        *)
(***************************************************************************)
EXTENDS Integers, RadioSchedule

CONSTANTS
    NodeIds,      \* values of rc.node_id (node 1 sends allocations)
    Jammer,       \* the jammed subcarrier, or NoJammer
    NoJammer,
    Adversarial,  \* TRUE: throughput is any outcome, whatever the allocation
    MaxLosses     \* bound: consecutive epochs whose allocation bursts are all lost

VARIABLES
    node_id,           \* rc.node_id of this mobile, fixed by the configuration
    sweeping, left_edge, direction, jam_mitigation_running,
    mitigation_enabled, resuming, check_full_band,
    u4_size,           \* rs.u4_task_sched_size
    batch_count,       \* saturates at BatchCap: only batch_count > 3 is read
    received_any,      \* rhc.valid_payloads_received > 0
    hole,              \* the allocation of the mobile's ofdma_fs_default
    bs_hole,           \* the allocation of the basestation's ofdma_fg_default
    working_edge,      \* history: the last hole under which throughput was good
    lost               \* environment: epochs in a row whose bursts were lost

vars == <<node_id, sweeping, left_edge, direction, jam_mitigation_running,
          mitigation_enabled, resuming, check_full_band, u4_size,
          batch_count, received_any, hole, bs_hole, working_edge, lost>>

NoHole == -1
BatchCap == 4
SUBCARRIERS == 512      \* RHC_OFDMA_M
HOLE_WIDTH == 150       \* openNullHole(alloc, left_edge, left_edge + 150)
STEP == 25

\* C++ '%' truncates toward zero; TLA+ '%' is the non-negative remainder.
CMod(a, b) == IF a >= 0 THEN a % b ELSE -((-a) % b)

\* Allocations.h openNullHole: the subcarriers set to OFDMFRAME_SCTYPE_NULL.
OpenNullHole(start0, end0) ==
    LET s0 == CMod(start0 + 256, SUBCARRIERS)
        e0 == CMod(end0 + 256, SUBCARRIERS)
        s  == IF s0 < 0 THEN 256 ELSE s0
        e  == IF s0 < 0 THEN 356 ELSE e0
    IN IF s > e THEN (s .. SUBCARRIERS - 1) \cup (0 .. e) ELSE s .. e

Nulled(h) == IF h = NoHole THEN {} ELSE OpenNullHole(h, h + HOLE_WIDTH)

\* A frame decodes: same allocation on both ends, and the jammer is nulled.
Decodes == bs_hole = hole /\ (Jammer = NoJammer \/ Jammer \in Nulled(hole))

\* The sweep state as a record, so that the branches of one epoch compose.
State == [sweeping |-> sweeping, left_edge |-> left_edge,
          direction |-> direction, running |-> jam_mitigation_running,
          mitigation_enabled |-> mitigation_enabled, resuming |-> resuming,
          check_full_band |-> check_full_band, u4_size |-> u4_size,
          hole |-> hole, bs_hole |-> bs_hole]

\* Mutant: the sender test inverted.
SendWrongNode(s, h, delivered) ==
    IF node_id # 1 /\ delivered THEN [s EXCEPT !.bs_hole = h] ELSE s

\* txMCAllocBurst(alloc): only node 1 sends; delivered says whether any of
\* the copies reached the basestation, whose mcCallback installs it.
Send(s, h, delivered) ==
    IF node_id = 1 /\ delivered THEN [s EXCEPT !.bs_hole = h] ELSE s

\* memcpy(rhc.new_alloc, alloc) followed by rhc.recreate_modem().
Install(s, h) == [s EXCEPT !.hole = h]

\* Throughput below rc.jamming_threshold (main.cc:294-350).  The branch of
\* line 300 is dead code ('&& false') and is left out.
Low(s) ==
    LET s1 == IF ~s.sweeping THEN [s EXCEPT !.running = TRUE] ELSE s
    IN [s1 EXCEPT !.sweeping = TRUE, !.u4_size = U4SizeAfterSet(5)]

\* Mutant: closing the hole leaves jam_mitigation_running set.
HighKeepsRunning(s, expired, delivered) ==
    LET s1 == [s EXCEPT !.check_full_band = TRUE, !.sweeping = FALSE,
                        !.u4_size = U4SizeAfterSet(40)]
    IN IF s1.running /\ expired
       THEN Send([Install(s1, NoHole) EXCEPT !.resuming = TRUE,
                    !.direction = -s1.direction], NoHole, delivered)
       ELSE s1

\* Mutant: closing the hole without telling the basestation.
HighNoSend(s, expired, delivered) ==
    LET s1 == [s EXCEPT !.check_full_band = TRUE, !.sweeping = FALSE,
                        !.u4_size = U4SizeAfterSet(40)]
    IN IF s1.running /\ expired
       THEN [Install(s1, NoHole) EXCEPT !.running = FALSE,
               !.resuming = TRUE, !.direction = -s1.direction]
       ELSE s1

\* Throughput above the threshold (main.cc:351-396): stop sweeping and,
\* once the hole has worked for close_hole_timeout, close it.
High(s, expired, delivered) ==
    LET s1 == [s EXCEPT !.check_full_band = TRUE, !.sweeping = FALSE,
                        !.u4_size = U4SizeAfterSet(40)]
    IN IF s1.running /\ expired
       THEN Send([Install(s1, NoHole) EXCEPT !.running = FALSE,
                    !.resuming = TRUE, !.direction = -s1.direction,
                    !.u4_size = U4SizeAfterSet(40)], NoHole, delivered)
       ELSE s1

\* Mutant: the upper clamp one step late.
ClampLate(s) ==
    CASE s.left_edge <= 0   -> [s EXCEPT !.left_edge = 0, !.direction = 1,
                                         !.check_full_band = TRUE]
      [] s.left_edge >= 437 -> [s EXCEPT !.direction = -1,
                                         !.check_full_band = TRUE]
      [] OTHER              -> s

\* Mutant: the lower clamp does not turn the sweep around.
ClampNoTurn(s) ==
    CASE s.left_edge <= 0   -> [s EXCEPT !.left_edge = 0, !.check_full_band = TRUE]
      [] s.left_edge >= 412 -> [s EXCEPT !.direction = -1,
                                         !.check_full_band = TRUE]
      [] OTHER              -> s

\* The edge clamps of main.cc:433-443.
Clamp(s) ==
    CASE s.left_edge <= 0   -> [s EXCEPT !.left_edge = 0, !.direction = 1,
                                         !.check_full_band = TRUE]
      [] s.left_edge >= 412 -> [s EXCEPT !.direction = -1,
                                         !.check_full_band = TRUE]
      [] OTHER              -> s

\* Advance the edge, unless the hole is being reopened (main.cc:444-454).
Advance(s) ==
    IF ~s.resuming THEN [s EXCEPT !.left_edge = @ + s.direction * STEP]
    ELSE [s EXCEPT !.resuming = FALSE, !.u4_size = U4SizeAfterSet(10)]

\* Mutant: the full-band test leaves jam_mitigation_running set.
SweepFullBandKeepsRunning(s, delivered) ==
    IF ~s.sweeping THEN s
    ELSE IF s.check_full_band /\ node_id > 1
    THEN [Install(s, NoHole) EXCEPT !.check_full_band = FALSE,
            !.u4_size = U4SizeAfterSet(10)]
    ELSE Advance(Clamp([Install(Send(s, s.left_edge, delivered), s.left_edge)
                          EXCEPT !.running = TRUE]))

\* if(sweeping) (main.cc:397-458): a full-band test first on nodes other
\* than 1, otherwise open the hole at left_edge and move it.
Sweep(s, delivered) ==
    IF ~s.sweeping THEN s
    ELSE IF s.check_full_band /\ node_id > 1
    THEN [Install(s, NoHole) EXCEPT !.running = FALSE,
            !.check_full_band = FALSE, !.u4_size = U4SizeAfterSet(10)]
    ELSE Advance(Clamp([Install(Send(s, s.left_edge, delivered), s.left_edge)
                          EXCEPT !.running = TRUE]))

\* The branch taken when mitigation is disabled or nothing was received
\* yet (main.cc:461-478): node 1 resends the full-band allocation.
Idle(s, expired, delivered) ==
    IF expired THEN Send([s EXCEPT !.mitigation_enabled = TRUE], NoHole, delivered)
    ELSE s

\* One evaluation: good says whether throughput is above the threshold,
\* rcv whether any valid payload has been received so far.
Evaluate(s, good, rcv, expired, delivered) ==
    IF s.mitigation_enabled /\ rcv
    THEN IF batch_count > 3
         THEN Sweep(IF good THEN High(s, expired, delivered) ELSE Low(s), delivered)
         ELSE s
    ELSE Idle(s, expired, delivered)

Apply(r) ==
    /\ sweeping' = r.sweeping
    /\ left_edge' = r.left_edge
    /\ direction' = r.direction
    /\ jam_mitigation_running' = r.running
    /\ mitigation_enabled' = r.mitigation_enabled
    /\ resuming' = r.resuming
    /\ check_full_band' = r.check_full_band
    /\ u4_size' = r.u4_size
    /\ hole' = r.hole
    /\ bs_hole' = r.bs_hole

\* Whether throughput is good, and whether payloads come through, given
\* the allocations in use during the epoch.
Goods == IF Adversarial THEN BOOLEAN ELSE {Decodes}
Receipts(good) ==
    IF good THEN {TRUE}
    ELSE IF Adversarial \/ bs_hole = hole THEN {received_any, TRUE}
    ELSE {received_any}
Deliveries == IF lost < MaxLosses THEN BOOLEAN ELSE {TRUE}

Init ==
    /\ node_id \in NodeIds
    /\ sweeping = TRUE
    /\ left_edge = 0
    /\ direction = 1
    /\ jam_mitigation_running = FALSE
    /\ mitigation_enabled = TRUE
    /\ resuming = FALSE
    /\ check_full_band = TRUE
    /\ u4_size = U4_ALLOCATED
    /\ batch_count = 0
    /\ received_any = FALSE
    /\ hole = NoHole
    /\ bs_hole = NoHole
    /\ working_edge = NoHole
    /\ lost = 0

\* One pass of the epoch loop after its slot tasks, with the copies of the
\* allocation bursts of this epoch delivered or not.
EpochDel(delivered) ==
    \E good \in Goods, expired \in BOOLEAN :
    \E rcv \in Receipts(good) :
        /\ Apply(Evaluate(State, good, rcv, expired, delivered))
        /\ received_any' = rcv
        /\ batch_count' = IF batch_count < BatchCap THEN batch_count + 1
                          ELSE batch_count
        /\ working_edge' = IF good /\ hole # NoHole THEN hole ELSE working_edge
        /\ lost' = IF delivered THEN 0 ELSE lost + 1
        /\ UNCHANGED node_id

Epoch == \E delivered \in Deliveries : EpochDel(delivered)

Next == Epoch

\* The loop always runs its next epoch (app.isContinuing() for the run time).
SweepPositions == {25 * i : i \in 0 .. 17}

Spec == Init /\ [][Next]_vars /\ WF_vars(Epoch)

-----------------------------------------------------------------------------
Edges == SweepPositions
Holes == Edges \cup {NoHole}

TypeOK ==
    /\ node_id \in NodeIds
    /\ sweeping \in BOOLEAN /\ jam_mitigation_running \in BOOLEAN
    /\ mitigation_enabled \in BOOLEAN /\ resuming \in BOOLEAN
    /\ check_full_band \in BOOLEAN /\ received_any \in BOOLEAN
    /\ left_edge \in Int
    /\ direction \in {-1, 1}
    /\ u4_size \in {5, 10, U4_ALLOCATED}
    /\ batch_count \in 0 .. BatchCap
    /\ hole \in Holes /\ bs_hole \in Holes /\ working_edge \in Holes
    /\ lost \in 0 .. MaxLosses

\* The sweep keeps left_edge on the 25-subcarrier grid between the clamps
\* of main.cc:433-443, through every combination of direction flips on
\* closing, resumed reopenings and full-band tests.
LeftEdgeInSweepRange == left_edge \in Edges

\* jam_mitigation_running, which decides whether a good epoch may close the
\* hole (main.cc:362), is TRUE exactly when the modem the mobile runs has a
\* null hole open.
MitigationFlagMatchesModem == jam_mitigation_running <=> hole # NoHole

\* Node 1 sends every allocation it installs (main.cc:380-384, 424-428), so
\* with delivered bursts the basestation's generator and node 1's
\* synchroniser use the same allocation after every epoch.
AllocationsAgree == node_id = 1 => bs_hole = hole

\* With up to MaxLosses epochs of lost bursts in a row, the sweep keeps
\* resending until the basestation and
\* the mobile use the same allocation again.
AllocationsEventuallyAgree == []<>(bs_hole = hole)

\* Against a jammer that stays put, once anything has been received the
\* sweep finds a hole that evades it, again and again (the hole is closed
\* periodically and must be found again).
SweepEvadesJammer == (<>received_any) => []<>Decodes

\* The comment at main.cc:444-447 and spec 4.6: after a hole that worked is
\* closed, the 'resuming' flag makes the hole reopen where it was before.
HoleReopensWhereItWorked ==
    [][resuming /\ ~resuming' => hole' = working_edge]_vars
====
