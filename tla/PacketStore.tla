----------------------------- MODULE PacketStore -----------------------------
(***************************************************************************)
(* The tun/tap packet path of the u4 (continuous multi-access) mode.      *)
(*                                                                         *)
(* Every node runs a PacketStore.  Its read thread (readPackets) takes IP *)
(* packets from the tap interface and appends a TxPayload, numbered by a   *)
(* per-node counter, to tx_packets.  In every u4 slot the tx burst thread *)
(* of doTask takes frames out of it: the basestation's txOFDMAFrameBurst  *)
(* one frame for each mobile 1..N-1, a mobile's txMCFrameBurst one frame  *)
(* for the basestation N.  The frame carries packet_id, total_packet_len  *)
(* and frame_id in its padded prefix.  The receiving node's callback      *)
(* (ofdmaCallback or mcCallback) calls add_frame, which reassembles the   *)
(* packet in an RxPayload found by packet_id alone, and writes a complete *)
(* packet to the tap interface (cwrite).                                   *)
(*                                                                         *)
(* Packet contents are abstracted to their identity: a packet is the pair *)
(* <<origin node, packet id>> and its frame k carries <<origin, id, k>>.  *)
(* Sizes are in bytes of an abstract unit and keep the code's arithmetic. *)
(***************************************************************************)
EXTENDS Integers, Sequences, SequencesExt

CONSTANTS
    N,              \* num_nodes_in_net; nodes 1..N, the basestation is N
    FrameSize,      \* rc.frame_size, the frame_len of every PacketStore
    PacketSizes,    \* lengths cread can return (0 < total <= MAX_SIZE)
    MaxPackets,     \* per node: bound on the read thread's counter i
    WriteResults,   \* outcomes of cwrite: TRUE = the whole packet written
    Lossy,          \* whether a frame may be lost on the air
    NoFrame, NoData \* model values

Nodes == 1..N
Basestation == N
Links == {<<s, d>> \in Nodes \X Nodes : s # d /\ (s = Basestation \/ d = Basestation)}

VARIABLES
    pkt_ctr,     \* readPackets' local i, per node
    tx_packets,  \* PacketStore::tx_packets, per node
    air,         \* the frame of the current slot on each link
    rx_packets,  \* PacketStore::rx_packets, per node
    written,     \* the packets cwrite has written to each node's tap
    read_log     \* history: every packet a read thread accepted

vars == <<pkt_ctr, tx_packets, air, rx_packets, written, read_log>>

(* TxPayload / RxPayload constructors: frames_per_packet and the size of  *)
(* the last frame.                                                         *)
FramesPerPacket(len, fsize) ==
    IF len % fsize = 0 THEN len \div fsize ELSE len \div fsize + 1

FrameData(origin, id, k) == <<origin, id, k>>

TxPayload(origin, id, dest, len) ==
    [origin |-> origin, id |-> id, dest |-> dest, len |-> len,
     frames |-> FramesPerPacket(len, IF len < FrameSize THEN len ELSE FrameSize),
     next_frame |-> 0, retrieved |-> FALSE]

(* Mutant: frames_per_packet without the correction for an exact multiple. *)
RxPayloadNoExactFix(id, len) ==
    [id |-> id, len |-> len,
     rcvd |-> [k \in 0..len \div FrameSize |-> NoData]]

RxPayload(id, len) ==
    [id |-> id, len |-> len,
     rcvd |-> [k \in 0..FramesPerPacket(len, FrameSize) - 1 |-> NoData]]

Init ==
    /\ pkt_ctr = [n \in Nodes |-> 0]
    /\ tx_packets = [n \in Nodes |-> <<>>]
    /\ air = [l \in Links |-> NoFrame]
    /\ rx_packets = [n \in Nodes |-> <<>>]
    /\ written = [n \in Nodes |-> <<>>]
    /\ read_log = {}

(* readPackets: one packet read from the tap of node n, kept when its     *)
(* destination byte names a node of the net.                               *)
ReadPacket(n) ==
    /\ pkt_ctr[n] < MaxPackets[n]
    /\ \E dest \in Nodes, len \in PacketSizes :
          LET p == TxPayload(n, pkt_ctr[n], dest, len) IN
          /\ tx_packets' = [tx_packets EXCEPT ![n] = Append(@, p)]
          /\ read_log' = read_log \cup {p}
    /\ pkt_ctr' = [pkt_ctr EXCEPT ![n] = @ + 1]
    /\ UNCHANGED <<air, rx_packets, written>>

(* get_next_frame_for_destination: the first packet for dest that is not  *)
(* retrieved yields its next frame and is erased from the list.            *)
NextIdx(q, dest) == SelectInSeq(q, LAMBDA p : p.dest = dest /\ ~p.retrieved)
TakeFrame(q, i) == RemoveAt(q, i)
FrameOf(p) ==
    [pid |-> p.id, fid |-> p.next_frame, total |-> p.len,
     data |-> FrameData(p.origin, p.id, p.next_frame)]

(* One tx burst of node n: the frames for the destinations, in the order *)
(* of the loop, each taken from what the previous take left.              *)
RECURSIVE Burst(_, _, _)
Burst(q, n, dests) ==
    IF dests = <<>> THEN [q |-> q, out |-> [l \in {} |-> NoFrame]]
    ELSE LET i    == NextIdx(q, Head(dests))
             rest == Burst(IF i = 0 THEN q ELSE TakeFrame(q, i), n, Tail(dests))
         IN  IF i = 0 THEN rest
             ELSE [rest EXCEPT !.out = (<<n, Head(dests)>> :> FrameOf(q[i])) @@ @]

BurstDests(n) ==
    IF n = Basestation THEN [k \in 1..N-1 |-> k] ELSE <<Basestation>>

(* txOFDMAFrameBurst (basestation) or txMCFrameBurst (mobile, uplink on). *)
(* A slot's frames are received or lost before the next slot's burst.     *)
(* With nothing stored for a destination the burst carries a dummy frame *)
(* (payload_len = 0), which changes nothing modelled here.                *)
TxBurst(n) ==
    /\ \A l \in Links : l[1] = n => air[l] = NoFrame
    /\ LET b == Burst(tx_packets[n], n, BurstDests(n)) IN
       /\ tx_packets' = [tx_packets EXCEPT ![n] = b.q]
       /\ air' = [l \in Links |-> IF l \in DOMAIN b.out THEN b.out[l] ELSE air[l]]
    /\ UNCHANGED <<pkt_ctr, rx_packets, written, read_log>>

(* Mutant: isComplete's loop stops before the last frame.                *)
CompleteButLast(r) ==
    \A k \in DOMAIN r.rcvd : k < Cardinality(DOMAIN r.rcvd) - 1 => r.rcvd[k] # NoData

Complete(r) == \A k \in DOMAIN r.rcvd : r.rcvd[k] # NoData
Payload(r)  == [j \in 1..FramesPerPacket(r.len, FrameSize) |-> r.rcvd[j - 1]]

(* RxPayload::add_frame: a frame is stored when its id is in range and    *)
(* that frame was not stored before.                                       *)
AddFrameTo(r, fid, data) ==
    IF fid \in DOMAIN r.rcvd /\ r.rcvd[fid] = NoData
    THEN [r EXCEPT !.rcvd[fid] = data] ELSE r

(* Mutant: a new RxPayload is kept even when it was written at once.      *)
AddFrameKeepsWritten(d, f, ok) ==
    LET q   == rx_packets[d]
        i   == SelectInSeq(q, LAMBDA r : r.id = f.pid)
        r   == AddFrameTo(IF i = 0 THEN RxPayload(f.pid, f.total) ELSE q[i],
                          f.fid, f.data)
        put == Complete(r) /\ ok
    IN  /\ written' = [written EXCEPT ![d] = IF put THEN Append(@, Payload(r)) ELSE @]
        /\ rx_packets' = [rx_packets EXCEPT ![d] =
              IF i # 0 THEN [q EXCEPT ![i] = r] ELSE Append(q, r)]

(* PacketStore::add_frame at node d, with ok the outcome of cwrite.       *)
(* The RxPayload is looked up by packet_id only.  A complete packet is    *)
(* written; a new one that is written at once is not kept, every other  *)
(* one stays in rx_packets for good.                                       *)
AddFrame(d, f, ok) ==
    LET q   == rx_packets[d]
        i   == SelectInSeq(q, LAMBDA r : r.id = f.pid)
        r   == AddFrameTo(IF i = 0 THEN RxPayload(f.pid, f.total) ELSE q[i],
                          f.fid, f.data)
        put == Complete(r) /\ ok
    IN  /\ written' = [written EXCEPT ![d] = IF put THEN Append(@, Payload(r)) ELSE @]
        /\ rx_packets' = [rx_packets EXCEPT ![d] =
              IF i # 0 THEN [q EXCEPT ![i] = r]
              ELSE IF put THEN q ELSE Append(q, r)]

(* The callback of node d for a data frame with valid header and payload *)
(* and the 42/37 keys (ofdmaCallback on a mobile, mcCallback on the       *)
(* basestation).  total_packet_len is at most P2M_FRAME_PAYLOAD_MAX_SIZE *)
(* = 10000, so its 16-bit field neither truncates nor reads 0.           *)
Receive(l) ==
    /\ air[l] # NoFrame
    /\ \E ok \in WriteResults : AddFrame(l[2], air[l], ok)
    /\ air' = [air EXCEPT ![l] = NoFrame]
    /\ UNCHANGED <<pkt_ctr, tx_packets, read_log>>

(* The frame is not received, or its header or payload fails its check. *)
Lose(l) ==
    /\ Lossy
    /\ air[l] # NoFrame
    /\ air' = [air EXCEPT ![l] = NoFrame]
    /\ UNCHANGED <<pkt_ctr, tx_packets, rx_packets, written, read_log>>

Next ==
    \/ \E n \in Nodes : ReadPacket(n) \/ TxBurst(n)
    \/ \E l \in Links : Receive(l) \/ Lose(l)

(* The tx burst thread runs in every slot and the rx thread handles every *)
(* frame it is given; the read thread is driven by the network.            *)
Spec == Init /\ [][Next]_vars
        /\ \A n \in Nodes : WF_vars(TxBurst(n))
        /\ \A l \in Links : WF_vars(Receive(l))

-----------------------------------------------------------------------------
PktIds == UNION {0..MaxPackets[n] - 1 : n \in Nodes}

TxRec == [origin : Nodes, id : PktIds, dest : Nodes,
          len : PacketSizes, frames : Nat, next_frame : Nat, retrieved : BOOLEAN]

TypeOK ==
    /\ \A n \in Nodes : pkt_ctr[n] \in 0..MaxPackets[n]
    /\ \A n \in Nodes : tx_packets[n] \in Seq(TxRec)
    /\ \A l \in Links : air[l] = NoFrame \/ air[l].fid < FramesPerPacket(air[l].total, FrameSize)
    /\ \A n \in Nodes : \A j \in 1..Len(rx_packets[n]) :
          LET r == rx_packets[n][j] IN
          /\ r.id \in PktIds /\ r.len \in PacketSizes
          /\ DOMAIN r.rcvd = 0..FramesPerPacket(r.len, FrameSize) - 1
    /\ read_log \subseteq TxRec

(* The packet a node's callback writes to its tap is exactly one packet a *)
(* read thread took for that node: all of its frames, in order, and no    *)
(* frame of another packet (add_frame matches frames by packet_id).       *)
WrittenIntact ==
    \A d \in Nodes : \A j \in 1..Len(written[d]) :
        \E p \in read_log :
            /\ p.dest = d
            /\ written[d][j] = [k \in 1..FramesPerPacket(p.len, FrameSize) |->
                                  FrameData(p.origin, p.id, k - 1)]

(* No packet is written to a tap twice, although frames of different      *)
(* origins share packet ids at the basestation.                            *)
NoDuplicateWrite == \A d \in Nodes : IsInjective(written[d])

(* Every packet read for a node it is sent to (a mobile's packet for the  *)
(* basestation, the basestation's for a mobile) is written to that node's *)
(* tap in the end.                                                         *)
Read(o, i, d) == \E p \in read_log : p.origin = o /\ p.id = i /\ p.dest = d
Delivered(o, i, d) == \E j \in 1..Len(written[d]) : written[d][j][1] = FrameData(o, i, 0)
PacketsDelivered ==
    \A l \in Links : \A i \in PktIds :
        Read(l[1], i, l[2]) ~> Delivered(l[1], i, l[2])
====
