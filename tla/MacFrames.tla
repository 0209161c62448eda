------------------------------ MODULE MacFrames ------------------------------
(***************************************************************************)
(* The MAC frame side of Phy2Mac (Phy2Mac.cc) in the FDD (normal) mode,   *)
(* with the part of PacketStore it reads.                                  *)
(*                                                                         *)
(* Transmit: for every slot of the node's FDD table the control thread of *)
(* doTask builds the tx frame in Phy2Mac's buffers (fetchTxFrame for a    *)
(* DATA slot, createHeartbeatTxFrame for a HEARTBEAT slot), copies the    *)
(* header and payload pointers and the payload size into the burst's task *)
(* record and spawns the burst thread; txFrameBurst (txHearbeatBurst)     *)
(* assembles the frame from those pointers; doTask joins it at the end of *)
(* the slot.  With tun/tap, fetchTxFrame takes the payload from the       *)
(* packet store, which the tap read thread (readPackets) fills            *)
(* concurrently.                                                           *)
(*                                                                         *)
(* The rx side of the slot: an rx DATA or HEARTBEAT slot spawns the rx   *)
(* burst (rxFrameBurst or rxHeartbeatBurst), which resets the frame flags *)
(* of rxf, runs the synchroniser, whose rxCallback sets them for every     *)
(* frame it decodes, and checks the noise at the end; doTask joins it and  *)
(* then checks wasValidFrameRx.                                            *)
(*                                                                         *)
(* Receive: updateMacPostTask dispatches a valid frame by type and        *)
(* destination and hands a data frame to PacketStore::add_frame           *)
(* (deliverRxFrame).  No code of this build calls it, so any frame may    *)
(* arrive at any time, as for the heartbeat operations.                   *)
(*                                                                         *)
(* Payload bytes are abstracted to where they were copied from.           *)
(***************************************************************************)
EXTENDS Integers, Sequences, FiniteSets

CONSTANTS
    N,                   \* num_nodes_in_net: destinations 1..N
    node_id,
    node_is_basestation,
    TaskTable,           \* the FDD table: [0..size-1 -> [rx_task, tx_task]]
    MaxEpochs,           \* passes of the slot loop before the run time ends
    MaxPackets,          \* bound on the read thread's counter i
    MaxRx,               \* bound on updateMacPostTask calls
    MaxRxFrames          \* bound on the frames one rx burst decodes

Size == Cardinality(DOMAIN TaskTable)

\* Phy2Mac.h
P2M_DESTINATION_ID_BROADCAST == 255
FrameTypes == {"IDLE_MAC", "DATA", "HEARTBEAT", "CONTROL", "NEW_ALLOC", "TEST"}
FRAME_ID_MOD == 2^16     \* tx_data_frame_id is an unsigned short

\* PacketStore::next_packet: 0 from the constructor on, since only
\* get_next_frame advances it and nothing calls that.
next_packet == 0

VARIABLES
    pc,                  \* the control thread: "Rx", "Tx", "Join" (the
                         \* steps of doTask), "Exited", "Segfault" or
                         \* "Failed" (exit(EXIT_FAILURE))
    epoch, task_id,
    using_tun_tap,       \* rc.using_tun_tap
    pkt_ctr, tx_packets, \* readPackets' counter i; PacketStore::tx_packets
    tx_header, tx_payload, tx_payload_size, tx_data_frame_id,
    bursts,              \* tx burst threads spawned and not yet joined
    sent,                \* the frame the last burst assembled
    tx_stats,
    rx_header, rx_stats, delivered,
    rxf,                 \* RadioHardwareConfig::rxf: the frame flags, and
                         \* the slot whose rx burst last wrote them
    after_rx_task_check_for_frame

txVars == <<tx_header, tx_payload, tx_payload_size, tx_data_frame_id, tx_stats>>
rxVars == <<rx_header, rx_stats, delivered>>
burstVars == <<rxf, after_rx_task_check_for_frame>>
vars == <<pc, epoch, task_id, using_tun_tap, pkt_ctr, tx_packets, bursts,
          sent, txVars, rxVars, burstVars>>

Header(fid, src, dst, type) ==
    [frame_id |-> fid, source |-> src, dest |-> dst, type |-> type]

\* Where the bytes of a payload buffer were copied from.  "null" is
\* get_frame's NULL for an id the store does not hold.
Payload(src) == [src |-> src, id |-> 0, dest |-> 0]
StorePayload(p) == [src |-> "store", id |-> p.id, dest |-> p.dest]

Unwritten == Header(0, 0, 0, "UNINIT")
NoFrame == [slot |-> -1, header |-> Unwritten, payload |-> Payload("uninit"),
            size |-> "ZERO"]

TxStats == [all |-> 0, idle |-> 0, data |-> 0, heartbeat |-> 0, test |-> 0,
            fetched |-> 0]
RxStats == [all |-> 0, idle |-> 0, data_any |-> 0, data_this |-> 0,
            heartbeat |-> 0, test |-> 0, delivered |-> 0]

\* The constructor: buffers allocated (their bytes unwritten), frame id 0,
\* resetFrameStats().  Both buffer-size checks pass with the default sizes
\* main.cc passes.
Init ==
    /\ pc = "Rx" /\ epoch = 0 /\ task_id = 0
    /\ using_tun_tap \in BOOLEAN
    /\ pkt_ctr = 0 /\ tx_packets = <<>>
    /\ tx_header = Unwritten /\ tx_payload = Payload("uninit")
    /\ tx_payload_size = "ZERO" /\ tx_data_frame_id = 0
    /\ bursts = {} /\ sent = NoFrame
    /\ tx_stats = TxStats
    /\ rx_header = Unwritten /\ rx_stats = RxStats /\ delivered = <<>>
    /\ rxf = [detected |-> FALSE, valid |-> FALSE]
    /\ after_rx_task_check_for_frame = FALSE

-----------------------------------------------------------------------------
(* PacketStore, as fetchTxFrame sees it.                                   *)

\* main.cc has not returned and no exit or crash ended the process.
Alive == pc \in {"Rx", "Tx", "Join"}

Stored    == {tx_packets[i] : i \in DOMAIN tx_packets}
StoredIds == {p.id : p \in Stored}

\* get_frame(packet_id, 0): frame 0 of the packet with that id, or NULL.
GetFrame(id) ==
    IF id \in StoredIds
    THEN StorePayload(CHOOSE p \in Stored : p.id = id)
    ELSE Payload("null")

\* get_next_frame_destination(): the destination of packet next_packet,
\* or -1, which the unsigned char parameter turns into 255.
NextFrameDestination ==
    IF next_packet \in StoredIds THEN GetFrame(next_packet).dest
    ELSE P2M_DESTINATION_ID_BROADCAST

\* readPackets: a packet whose destination byte names a node of the net is
\* appended with the next id; any other packet is dropped.
ReadPacket ==
    /\ using_tun_tap /\ Alive
    /\ pkt_ctr < MaxPackets
    /\ \E dest \in 1 .. N :
          /\ tx_packets' = Append(tx_packets, [id |-> pkt_ctr, dest |-> dest])
          /\ pkt_ctr' = pkt_ctr + 1
    /\ UNCHANGED <<pc, epoch, task_id, using_tun_tap, bursts, sent, txVars, rxVars,
                   burstVars>>

-----------------------------------------------------------------------------
(* The frame builders.  Each writes the header and payload buffers and    *)
(* the payload size; the statistics are counted by their callers below.   *)

\* createFrameFromPacketStore: the payload is frame 0 of the packet whose id
\* is the frame id if the store holds at least that many packets, else
\* the test payload; get_frame's NULL becomes memcpy's source.
CreateFrameFromPacketStore(destination_id) ==
    /\ tx_header' = Header(tx_data_frame_id, node_id, destination_id, "DATA")
    /\ tx_payload' = IF Len(tx_packets) >= tx_data_frame_id
                     THEN GetFrame(tx_data_frame_id) ELSE Payload("test")
    /\ tx_payload_size' = "DEFAULT"
    /\ tx_data_frame_id' = (tx_data_frame_id + 1) % FRAME_ID_MOD

\* emulateDataTxFrame(test_destination_id, DEFAULT): a TEST frame.
EmulateDataTxFrame(test_destination_id) ==
    /\ tx_header' = Header(tx_data_frame_id, node_id, test_destination_id, "TEST")
    /\ tx_payload' = Payload("test")
    /\ tx_payload_size' = "DEFAULT"
    /\ tx_data_frame_id' = (tx_data_frame_id + 1) % FRAME_ID_MOD

\* fetchTxFrame: its network-layer test is if (1), so never an idle frame;
\* both builders count the frame as a data frame.
FetchTxFrame ==
    /\ IF using_tun_tap
       THEN CreateFrameFromPacketStore(NextFrameDestination)
       ELSE EmulateDataTxFrame(123)
    /\ tx_stats' = [tx_stats EXCEPT !.all = @ + 1, !.data = @ + 1,
                                    !.fetched = @ + 1]

CreateHeartbeatTxFrame ==
    /\ tx_header' = Header(0, node_id, P2M_DESTINATION_ID_BROADCAST, "HEARTBEAT")
    /\ tx_payload' = Payload("heartbeat")
    /\ tx_payload_size' = "DEFAULT"
    /\ tx_stats' = [tx_stats EXCEPT !.all = @ + 1, !.heartbeat = @ + 1]
    /\ UNCHANGED tx_data_frame_id

-----------------------------------------------------------------------------
(* One slot of doTask on the FDD table (no retuning in FDD mode): the rx   *)
(* switch, the tx switch, the final joins and the post-task check; the    *)
(* burst threads; and the slot loop of main.cc.                           *)

\* The rx switch of doTask: an rx DATA or HEARTBEAT slot spawns its burst
\* (rx_task_is_running) and sets the local after_rx_task_check_for_frame;
\* any other rx task of the FDD table leaves both off.
RxSlot ==
    /\ pc = "Rx" /\ task_id < Size
    /\ after_rx_task_check_for_frame' =
           (TaskTable[task_id].rx_task \in {"DATA", "HEARTBEAT"})
    /\ pc' = "Tx"
    /\ UNCHANGED <<epoch, task_id, using_tun_tap, pkt_ctr, tx_packets, bursts,
                   sent, txVars, rxVars, rxf>>

\* rxCallback for one decoded frame: detected; valid only with a valid
\* header, a valid payload and a payload that fits the frame buffer.
RxCallback(r, frame) ==
    [r EXCEPT !.detected = TRUE, !.valid = (frame = "VALID")]

RECURSIVE RxCallbacks(_, _)
RxCallbacks(r, frames) ==
    IF frames = <<>> THEN r
    ELSE RxCallbacks(RxCallback(r, Head(frames)), Tail(frames))

\* rxFrameBurst / rxHeartbeatBurst, whose effect on rxf is the same: reset
\* the flags, feed the samples to the synchroniser (a callback per decoded
\* frame), then set frame_end_is_noisy from the last samples or return on a
\* UHD error.  frame_end_is_noisy is read by nothing on this path
\* (wasFrameEndNoisy has no caller), so it and the ending of the burst are
\* left out.  The thread writes rxf alone, and nothing reads rxf from the
\* spawn to the join, so every interleaving of the thread is equivalent to
\* running it at its join: the join step applies its result.
RxFrameBurst(frames) ==
    RxCallbacks([detected |-> FALSE, valid |-> FALSE], frames)

RxFrameSeqs == UNION {[1 .. n -> {"VALID", "INVALID"}] : n \in 0 .. MaxRxFrames}

\* The tx switch of doTask: build the frame, copy the pointers and the
\* payload size into the task record, pthread_create.  A memcpy from
\* get_frame's NULL kills the process before the thread is created.
TxSlot ==
    /\ pc = "Tx"
    /\ \/ /\ TaskTable[task_id].tx_task = "DATA"
          /\ FetchTxFrame
       \/ /\ TaskTable[task_id].tx_task = "HEARTBEAT"
          /\ CreateHeartbeatTxFrame
    /\ IF tx_payload'.src = "null"
       THEN pc' = "Segfault" /\ UNCHANGED bursts
       ELSE /\ pc' = "Join"
            /\ bursts' = bursts \cup {[slot |-> task_id, size |-> tx_payload_size',
                                       state |-> "spawned"]}
    /\ UNCHANGED <<epoch, task_id, using_tun_tap, pkt_ctr, tx_packets, sent, rxVars,
                   burstVars>>

\* A slot with nothing to send: tx_task_is_running = false.
TxSlotIdle ==
    /\ pc = "Tx"
    /\ TaskTable[task_id].tx_task \notin {"DATA", "HEARTBEAT"}
    /\ pc' = "Join"
    /\ UNCHANGED <<epoch, task_id, using_tun_tap, pkt_ctr, tx_packets, bursts,
                   sent, txVars, rxVars, burstVars>>

\* txFrameBurst / txHearbeatBurst: ofdmflexframegen_assemble reads the
\* header and payload through the pointers, with the size the record holds.
BurstAssemble(b) ==
    /\ b.state = "spawned"
    /\ sent' = [slot |-> b.slot, header |-> tx_header,
                payload |-> tx_payload, size |-> b.size]
    /\ bursts' = (bursts \ {b}) \cup {[b EXCEPT !.state = "done"]}
    /\ UNCHANGED <<pc, epoch, task_id, using_tun_tap, pkt_ctr, tx_packets,
                   txVars, rxVars, burstVars>>

\* (mutant) the tx join returns without waiting for the burst
TxJoinNoWait(frames) ==
    /\ pc = "Join"
    /\ rxf' = IF after_rx_task_check_for_frame THEN RxFrameBurst(frames) ELSE rxf
    /\ bursts' = {b \in bursts : b.state = "spawned"}
    /\ task_id' = task_id + 1 /\ pc' = "Rx"
    /\ after_rx_task_check_for_frame' = FALSE
    /\ UNCHANGED <<epoch, using_tun_tap, pkt_ctr, tx_packets, sent, txVars, rxVars>>

\* The final joins of doTask, the rx burst then the tx burst, and its
\* post-task check (if after_rx_task_check_for_frame && wasValidFrameRx(),
\* whose body is a placeholder); the slot loop moves to the next task_ctr
\* and the local flag goes out of scope.  Only the tap thread runs between
\* the joins and the return, and it touches none of this.
TxJoin(frames) ==
    /\ pc = "Join"
    /\ rxf' = IF after_rx_task_check_for_frame THEN RxFrameBurst(frames) ELSE rxf
    /\ \A b \in bursts : b.state = "done"
    /\ bursts' = {}
    /\ task_id' = task_id + 1 /\ pc' = "Rx"
    /\ after_rx_task_check_for_frame' = FALSE
    /\ UNCHANGED <<epoch, using_tun_tap, pkt_ctr, tx_packets, sent, txVars, rxVars>>

\* wasValidFrameRx
WasValidFrameRx(r) == r.detected /\ r.valid

\* End of a pass over the table; app.isContinuing() decides on another.
EpochEnd ==
    /\ pc = "Rx" /\ task_id = Size
    /\ epoch' = epoch + 1 /\ task_id' = 0
    /\ pc' = IF epoch + 1 < MaxEpochs THEN "Rx" ELSE "Exited"
    /\ UNCHANGED <<using_tun_tap, pkt_ctr, tx_packets, bursts, sent, txVars, rxVars,
                   burstVars>>

-----------------------------------------------------------------------------
(* updateMacPostTask, for a frame whose header and payload were valid.    *)

ForThisNode(dest) ==
    node_is_basestation \/ dest \in {node_id, P2M_DESTINATION_ID_BROADCAST}

\* deliverRxFrame: add_frame(packet id of the copied header, frame 0) with
\* tun/tap; the packet id is what reaches the packet store.
DeliverRxFrame(hdr) ==
    /\ delivered' = IF using_tun_tap THEN Append(delivered, hdr.frame_id)
                    ELSE delivered

UpdateMacPostTask(hdr, size) ==
    LET isData == hdr.type = "DATA"
        take   == isData /\ ForThisNode(hdr.dest)
        s1 == [rx_stats EXCEPT !.all = @ + 1,
                 !.idle = @ + (IF hdr.type = "IDLE_MAC" THEN 1 ELSE 0),
                 !.data_any = @ + (IF isData THEN 1 ELSE 0),
                 !.data_this = @ + (IF take THEN 1 ELSE 0),
                 !.test = @ + (IF hdr.type = "TEST" THEN 1 ELSE 0)]
    IN
    /\ Alive /\ rx_stats.all < MaxRx
    /\ IF ~take
       THEN rx_stats' = s1 /\ UNCHANGED <<pc, rx_header, delivered>>
       ELSE /\ rx_header' = hdr
            /\ IF size = "OVERSIZE"
               THEN pc' = "Failed" /\ rx_stats' = s1 /\ UNCHANGED delivered
               ELSE /\ DeliverRxFrame(hdr)
                    /\ rx_stats' = [s1 EXCEPT !.delivered = @ + 1]
                    /\ UNCHANGED pc
    /\ UNCHANGED <<epoch, task_id, using_tun_tap, pkt_ctr, tx_packets, bursts,
                   sent, txVars, burstVars>>

\* The headers a peer's frame may carry: any type, to this node, to no node
\* or to all; the packet id is the sender's frame id.
RxHeaders ==
    {Header(0, 2, d, t) : d \in {0, node_id, P2M_DESTINATION_ID_BROADCAST},
                          t \in FrameTypes}

\* The process has ended: the run time elapsed, a crash, or an exit.
Terminated == ~Alive /\ UNCHANGED vars

Next ==
    \/ ReadPacket
    \/ RxSlot \/ TxSlot \/ TxSlotIdle \/ EpochEnd
    \/ \E frames \in RxFrameSeqs : TxJoin(frames)
    \/ \E b \in bursts : BurstAssemble(b)
    \/ \E hdr \in RxHeaders, size \in {"DEFAULT", "OVERSIZE"} :
          UpdateMacPostTask(hdr, size)
    \/ Terminated

Spec == Init /\ [][Next]_vars
-----------------------------------------------------------------------------
Payloads == {Payload(src) : src \in {"uninit", "test", "heartbeat", "null"}}
              \cup {StorePayload(p) : p \in [id : 0 .. MaxPackets - 1, dest : 1 .. N]}

TypeOK ==
    /\ pc \in {"Rx", "Tx", "Join", "Exited", "Segfault", "Failed"}
    /\ epoch \in 0 .. MaxEpochs /\ task_id \in 0 .. Size
    /\ using_tun_tap \in BOOLEAN
    /\ pkt_ctr \in 0 .. MaxPackets /\ Len(tx_packets) = pkt_ctr
    /\ tx_payload \in Payloads /\ sent.payload \in Payloads
    /\ tx_data_frame_id \in 0 .. FRAME_ID_MOD - 1
    /\ \A b \in bursts : b.slot \in DOMAIN TaskTable
    /\ \A f \in DOMAIN rx_stats : rx_stats[f] \in Nat
    /\ Len(delivered) <= MaxRx
    /\ rxf \in [detected : BOOLEAN, valid : BOOLEAN]

\* The frame types a tx slot of the FDD table is for.
FrameTypeFor(tx_task) == IF tx_task = "HEARTBEAT" THEN {"HEARTBEAT"}
                         ELSE {"DATA", "TEST"}

\* Every burst puts on the air the frame doTask built for the burst's own
\* slot: a heartbeat in a heartbeat slot, a data frame in a data slot, and
\* a store payload under its packet's id.  The burst thread reads
\* Phy2Mac's buffers through pointers while the control thread, with the
\* next slot's fetchTxFrame, may run on; only the final join of doTask
\* keeps the two apart.
BurstSendsSlotFrame ==
    sent # NoFrame =>
        /\ sent.header.type \in FrameTypeFor(TaskTable[sent.slot].tx_task)
        /\ sent.payload.src = "store" => sent.payload.id = sent.header.frame_id

\* A data frame built from the packet store carries frame 0 of a packet
\* the store holds, under that packet's id and to that packet's
\* destination, or the test payload when the store has too few packets
\* (createFrameFromPacketStore, fetchTxFrame).
DataFrameIsStoredPacket ==
    tx_header.type = "DATA" =>
        \/ tx_payload = Payload("test")
        \/ /\ [id |-> tx_header.frame_id, dest |-> tx_header.dest] \in Stored
           /\ tx_payload = StorePayload([id |-> tx_header.frame_id,
                                          dest |-> tx_header.dest])
====
