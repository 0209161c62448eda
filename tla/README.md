# TLA+ models of the OFDM radio (phase-1 reference design)

This directory holds TLA+ modules and TLC configurations for the C++ radio
in `src/ofdm_radio/src`. Each module is translated from the source. The
README says which code each module stands for, what every TLC run checks,
and what the runs show.

## 1. The system and how its parts interact

One process runs the radio. `main.cc` first builds `RadioConfig rc` from
the command line and a configuration file; every later constructor takes
its settings from `rc`. It then builds the components and loops once per
one-second *epoch*. In each epoch:

* `RadioScheduler` provides a table of slots, one `rf_task_t`
  (`rx_task`, `tx_task`) per slot. There are three tables:
  * FDD ("normal" mode): frequency-division duplex;
  * FH (frequency hopping, anti-jam mode);
  * u4 (continuous multi-access mode, which `main` actually runs).
* The control thread calls `RadioTaskManager::doTask` for every slot.
  `doTask` is the **TaskDispatcher**. It runs the slot as four steps:
  1. In FH mode, it spawns retune threads. Each one calls `tuneRxManual`,
     `tuneTxManual` or `tune2NormalFreq` of `RadioHardwareConfig`.
  2. It joins the rx retune and spawns the rx burst thread.
  3. It joins the tx retune and spawns the tx burst thread.
  4. It joins both bursts.
* In FH mode, `FhSeqGenerator` gives the hop index pair (RF, DSP) for
  every slot, drawn from the tables built by `FreqTableGenerator`.
* `Phy2Mac` builds the tx frame of an FDD or FH data or heartbeat slot in
  its single header and payload buffers. The tx burst thread reads those
  buffers through pointers. With tun/tap the payload comes from the
  `PacketStore`, which the tap read thread fills. `Phy2Mac` also turns
  received frames into MAC deliveries, and it holds the heartbeat
  statistics whose policy switches between FDD and FH. `main` never calls
  that policy, so `waveform_is_normal` stays `true`. `main` runs the u4
  table, so the FDD frame path runs only once `calcFddSchedule` fills the
  FDD table, which this build never does.
* After each epoch, `main` measures throughput and runs the anti-jam
  null-hole sweep (the **AntiJamController**). The sweep:
  * opens a 151-subcarrier null hole (`openNullHole`, `Allocations.h`);
  * moves the hole 25 subcarriers per epoch;
  * sends the new allocation to the basestation (`txMCAllocBurst`);
  * recreates the local modem (`recreate_modem`).
* A receive thread runs alongside the control thread:
  * on a mobile, `run_ofdma_rx` with the `ofdmaCallback` callback;
  * on the basestation, `run_mc_rx` with `mcCallback`.
  The callbacks store allocations that arrive over the air in `new_alloc`.
  On the basestation, the callback recreates the generator itself.
  `gen_mutex` and `sync_mutex` guard the modem objects. `new_alloc` and
  `received_new_alloc` have no guard at all.

## 2. Inventory: state, operations, hard behaviours and properties

| Component | State | Operations | Hard behaviour | Properties worth checking |
|---|---|---|---|---|
| RadioScheduler | `fdd/fh/u4_task_sched`, their sizes, `num_*_nets_persec` | constructor sizing, `calcFddSchedule`, `calcFhSchedule`, `calcU4Schedule`, `calcCalibrationSchedule`, `calcTestSchedule`, `setU4ScheduleSize` | integer/float sizing edges; index arithmetic against the allocated size | every write lies inside the table; the constructor rejects infeasible FH nets; a heartbeat tx slot is also an rx heartbeat slot |
| TaskDispatcher | doTask locals (`rx/tx_task_is_running`, `rx/tx_task_thread`), live threads, `rx/tx_absolute_freq` | the retune switches, the join blocks, the burst switches; the worker threads | up to four threads per slot interleaving with the control thread; a shared `tune2normal_freq_task`; handle bookkeeping | each side's retune completes before its burst; heartbeat bursts run at the home frequency; no burst survives into the next slot; no thread is left unjoined |
| FhSeqGenerator | `fh_seq_rf_idx`, `fh_seq_dsp_idx`, `pc`, loop counters | `makeSeq` (10 policies), `scrubSeq`, getters | nested loops with breaks; permutations; zero-size tables | every index is below its table size; the ALG_A/B permutations cover every pair |
| FreqTableGenerator | RF and DSP tables | constructor, getters | prohibited-range filtering; unsigned underflow | allowed windows avoid every prohibited range; size checks |
| Phy2Mac | heartbeat window and session counters, `waveform_is_normal`, MAC counters | `updateHeartbeatPostTask`, `assessHeartbeatStats`, `updateMacPostTask`, frame builders | window boundary; policy arithmetic | session totals equal the sum of the windows; the policy decision |
| AntiJamController | `sweeping`, `left_edge`, `direction`, `jam_mitigation_running`, `resuming`, `check_full_band`, u4 size | one epoch of the `main.cc` loop | a long sequence of epochs; the resume path | `left_edge` stays in range; the hole reopens where it worked |
| AllocationExchange | `new_alloc`, `received_new_alloc`, the modem objects, the two mutexes | `recreate_modem`, `ofdmaCallback`, `mcCallback`, `switch_allocation`, the rx thread loops | unlocked shared buffer between two threads; a callback inside the locked execute | no allocation is lost or torn; no modem object is destroyed while in use |

## 3. Plan of modules

Done:
1. **TaskDispatcher**. It takes the slot table as a constant, and
   `MC_TaskDispatcher` builds the table with `RadioSchedule`. The
   dispatcher therefore runs exactly the tables the scheduler code produces.
2. **RadioSchedule** holds the table builders as operators.
   **RadioScheduler** is the scheduler object's life in `main.cc`.
3. **AntiJam**: the sweep state machine of `main.cc`.
4. **AllocationExchange**: the part of it that matters to the sweep, inside
   `AntiJam`.
5. **Heartbeat**: the `Phy2Mac` window and session counters and the policy.
6. **FreqTable**, **FhSeq** and **Startup**. `Startup` composes the three
   start-up constructors of `main.cc` with the sizes they hand to each other.
7. **PacketStore**: the tun/tap packet path of u4 mode, from the read thread
   to the tap write of the receiving node.
8. **Phy2Mac** composes **MacFrames** (the frame builders, `doTask`'s rx
   and tx switches, the burst threads, the post-task check, `updateMacPostTask` and the tap read thread)
   with **Heartbeat**.
9. **ModemThreads**: the threads of a u4 net around its two OFDMA modem
   objects and their mutexes. It is shown to implement **ModemAccess**, the
   abstract promise of such a mutex, by an `INSTANCE ... WITH` refinement
   mapping checked as a `PROPERTY`.
10. **RadioConfig**: the constructor of `rc` as a pure function of the
    command line and the file, which `Startup` runs first and whose role,
    prohibited ranges and net size it hands to `ftg` and `rs`.

Next:
* An abstract `HoleSearch` that states what the sweep promises, with
  `AntiJam` shown to refine it (`INSTANCE ... WITH`, checked as a
  `PROPERTY`).

## 4. The modules

### RadioSchedule.tla: `RadioScheduler.cc`, `RadioScheduler.h`, `RadioTaskDefs.h`

Constant operators only:
* The constructor's sizing is kept in integer microseconds:
  `FddNet`, `FhNet`, `NetsPerSec`, the feasibility tests.
  `FhCheckPasses` is the FH test exactly as written: it reads the FDD net
  length.
* `CalcNetSchedule` models both `calcFddSchedule` and `calcFhSchedule`,
  because their bodies are the same loops. The result is the table plus
  `overrun`: the indices that the loops write beyond the allocated array.
* There are also operators for the calibration, test and u4 tables and for
  `setU4ScheduleSize`.

### TaskDispatcher.tla: `RadioTaskManager::doTask` and its workers

State:

| Variable | Code |
|---|---|
| `pc` | the position of the control thread in `doTask` |
| `epoch`, `task_id` | the slot loop of `main.cc` |
| `rx/tx_task_is_running`, `rx/tx_task_thread` | the locals of `doTask`; handle `0` is the null `pthread_t` |
| `threads` | live thread handles, each with its kind, side, task and progress; `pthread_join` removes a handle |
| `rx/tx_absolute_freq` | `RadioHardwareConfig`'s tuned frequencies, abstracted to `"normal"` and `"hop"` |

Actions, one per block of `doTask`:
* `DoTaskBegin`;
* `RxRetune` and `TxRetune`: the FH switches;
* `RxRetuneJoin` and `TxRetuneJoin`;
* `RxBurst` and `TxBurst`;
* `RxFinalJoin` and `TxFinalJoin`;
* `CreateFails`: `pthread_create` fails and the process exits;
* `EpochEnd`: the epoch loop and its run-time check.

The worker threads take these steps:
* `ManualTune`: sets the hop frequency and waits for LO lock.
* `Tune2NormalRx`, then `Tune2NormalTx`: the two halves of
  `tune2NormalFreq`. Another thread can read the frequencies between them.
* `BurstRun`.

The `TxRetune` heartbeat case is written as the code has it: the handle
goes into `rx_task_thread` (line 253).

Fairness: weak fairness on the control thread and on every live thread. No
thread blocks forever:
* the LO-lock polls end;
* a join waits only for a thread that was spawned and is running.

The runs check safety only, so fairness does not affect their results.

### AntiJam.tla: the anti-jam sweep (`main.cc:263-486`, `Allocations.h`)

One step (`Epoch`) is one pass of the epoch loop after its slot tasks.
The variables keep the code's names:
* `sweeping`, `left_edge`, `direction`, `jam_mitigation_running`,
  `mitigation_enabled`, `resuming`, `check_full_band`;
* `u4_size`, the size that `setU4ScheduleSize` sets;
* `batch_count`, which saturates at 4 because only `batch_count > 3` is read;
* `received_any`, for `valid_payloads_received > 0`.

An allocation is the left edge of its null hole, or `NoHole` for the
full-band allocation. `hole` is the allocation installed in the mobile's
modem, and `bs_hole` the one in the basestation's generator.
`OpenNullHole` is `openNullHole` exactly, with C++'s truncating `%`.

The branches are record-to-record operators. They compose in the code's
order: `Low` or `High`, then `Sweep` (`Clamp`, then `Advance`). `Idle` is
the branch taken while nothing has been received. `Send` is node 1's
`txMCAllocBurst` with the basestation's `mcCallback`; `Install` is
`memcpy` followed by `recreate_modem`.

The environment is modelled as follows:
* A jammer sits on one subcarrier, or there is none.
* An epoch's throughput is good exactly when the two allocations agree and
  the jammer lies in the hole. With `Adversarial = TRUE`, the outcome is
  free instead.
* Timers are nondeterministic expiries.
* At most `MaxLosses` epochs in a row may lose all their bursts.

`working_edge` is a history variable: the last hole under which throughput
was good.

The branch at `main.cc:300` is dead (`&& false`) and is left out.

Fairness: `WF_vars(Epoch)`. The loop runs for the configured run time and
never blocks.

### Heartbeat.tla: `Phy2Mac` heartbeat statistics (`Phy2Mac.cc`, `HeartbeatDefs.h`)

The variables are the window counters (opportunity, missing, valid,
errored, jammed, sample) and the session counters, with the code's names.
There are two actions:
* `UpdateHeartbeatPostTask(detected, valid, noisy)` classifies one
  expected heartbeat (`Classify`).
* `AssessHeartbeatStats(waveform_is_normal)` closes a window on its third
  call, applies the policy (`PolicySelectsNormal`), adds the window to the
  session totals and resets the window.

No code of this build calls either operation, so the model lets any call
sequence happen, with any burst outcome. What holds here holds for every
caller. The session is bounded by `MaxSessionOpp` opportunities: 2 in the
`phy2mac` run, which allows a window with a valid heartbeat to close and a
second valid heartbeat to follow, and every mix of outcomes in them.

### MacFrames.tla and Phy2Mac.tla: the `Phy2Mac` frame side

`MacFrames` keeps `Phy2Mac`'s frame state under the code's names:
* `tx_header`, `tx_payload`, `tx_payload_size`, `tx_data_frame_id`;
* the tx and rx counters of `resetFrameStats` (`tx_stats`, `rx_stats`);
* `rx_header`, and the packet ids `deliverRxFrame` hands to `add_frame`;
* `rxf`, `RadioHardwareConfig`'s received-frame flags `frame_was_detected`
  and `frame_is_valid`, with a ghost `slot` naming the slot whose rx burst
  last wrote them, and `doTask`'s local `after_rx_task_check_for_frame`.
  `frame_end_is_noisy` is left out: `wasFrameEndNoisy` has no caller.

A payload is abstracted to where its bytes were copied from:
* the unwritten buffer;
* the test or heartbeat payload;
* get_frame's NULL;
* frame 0 of a stored packet, with its id and destination.

It also keeps the state of the threads around the buffers:
* `pc`, the control thread of `main.cc`, at the rx switch (`"Rx"`), the
  tx switch (`"Tx"`) or the final joins (`"Join"`) of a slot;
* `bursts`, the tx burst threads spawned and not yet joined;
* `sent`, what the last burst assembled;
* `tx_packets` and `pkt_ctr`, the `PacketStore` list and the read
  thread's counter.

The actions:
* `ReadPacket` is `readPackets`. A packet for a node of the net is
  appended with the next id.
* `RxSlot` is the rx switch of `doTask`. An rx DATA or HEARTBEAT slot
  spawns its burst and sets `after_rx_task_check_for_frame`.
* `TxSlot` is the tx switch of `doTask` for a DATA slot or a HEARTBEAT
  slot. For DATA it calls `FetchTxFrame`, which uses
  `CreateFrameFromPacketStore(NextFrameDestination)` with tun/tap and
  `EmulateDataTxFrame(123)` without. For HEARTBEAT it calls
  `CreateHeartbeatTxFrame`. It then records the size and spawns the
  burst. A memcpy from NULL ends the process (`"Segfault"`) before the
  thread is created.
* `TxSlotIdle` is a slot with nothing to send.
* `BurstAssemble(b)` is `ofdmflexframegen_assemble`, which reads the
  buffers through the pointers at whatever time the thread gets to it.
* `TxJoin(frames)` is the final joins of `doTask` and its post-task check.
  The rx burst (`rxFrameBurst` or `rxHeartbeatBurst`, the same on `rxf`)
  is applied at its join as `RxFrameBurst(frames)`: it resets the flags,
  then `RxCallback` runs once per frame the synchroniser decodes, up to
  `MaxRxFrames`. The burst thread writes only `rxf`, and nothing reads
  `rxf` between the spawn and the join. So running it at the join is
  equivalent to every interleaving of it. The check after the joins has a
  placeholder body, and only the tap thread runs between it and the
  return, so it shares the join's step, which moves to the next slot.
* `EpochEnd` is the end of a pass over the table.
* `UpdateMacPostTask(hdr, size)` counts a frame by type, and for a data
  frame for this node it copies the header. An oversized payload exits the
  process. Otherwise it calls `DeliverRxFrame`. No code calls it, so it
  takes any header at any time.

`Phy2Mac` instantiates `MacFrames` and `Heartbeat` over one set of
variables. Each part's steps leave the other's state alone, except one:
`UpdateHeartbeatPostTask` also counts `rx_num_heartbeat_frames` for a
valid heartbeat (`Phy2Mac.cc:183`). Heartbeat operations run only while
the process is alive.

### FreqTable.tla: the `FreqTableGenerator` constructor

Frequencies are whole MHz. Every constant the code uses is a whole number
of MHz, so its double arithmetic is exact here.

The constructor builds the RF table in two stages:
* `Candidates`: the centres of the 20 MHz medium windows across the band.
* `WinAllowed`: the prohibited-range test on the tx and rx windows
  together. The candidates that pass it form `RfCentres`.

Around those two stages:
* `RfFails` is the fatal exit, which the code takes only when prohibited
  ranges are configured.
* `Entry` gives the role-dependent (rx, tx) pair.
* `DspLayout` and `DspEntries` build the DSP table. The odd-size
  correction uses `unsigned int` arithmetic, kept modulo `2^UIntWidth`. The
  cfgs use a width of 16 because TLC's integers stop at 2^31, and only
  whether the wrap happens matters.

`Construct` is the whole constructor as one step, because it runs once.

### RadioScheduler.tla: the scheduler object

`RadioSchedulerCtor` is the constructor. It runs the FDD test, then the FH
test, which reads the FDD net length exactly as the code does. It then
sizes the tables, or exits. `CalcU4Schedule` is called once.
`SetU4ScheduleSize` comes from the anti-jam branches. The sizes come from
the `RadioSchedule` operators.

### FhSeq.tla: `FhSeqGenerator`

Before its constructor runs, the object holds the model value `NoObject`.
`FhSeqGenerator(alg, n, rf, dsp)` is the constructor.

`makeSeq` depends on the algorithm:
* NONE, ONE, TOGGLE, SWEEP_RF, SWEEP_DSP and TEST are single loops that
  always end. Each is one step, `MakeSeqFlat`.
* RFDSP, DSPRF, ALG_A and ALG_B are a `while` around two `for` loops with
  two `break`s. They are modelled one loop test or one table write per
  step: `MakeSeqBegin`, `WhileTest`, `OuterTest` and `InnerStep`, with
  `pc` in `while`, `outer` and `inner`. Whether the loop ends depends on
  the table sizes, and this makes that a liveness question.

`Interleave` is the ALG_A/ALG_B row-column interleaver: stride
`ceil(sqrt(size))`, with the cells at or beyond the size skipped.
`ScrubSeq` clamps out-of-range indices. The printed statistics counters are
left out.

### RadioConfig.tla: the `RadioConfig` constructor (`RadioConfig.cc:21-451`)

The constructor runs once, on one thread, before anything else, so the
module has no variables: `RadioConfigCtor(argv, file)` is the whole
constructor as an operator, built from one operator per step:
* `Defaults`: the default values and the nine `lookup_` flags set to true;
* `GetoptCase` and `GetoptLoop` (RECURSIVE over the command line): `-h`
  exits with `EXIT_SUCCESS`, `-C` reads the named file at once and exits on
  a read error, an unknown option (getopt's `?`) exits, and an option with
  a file setting clears that setting's `lookup_` flag;
* `ReadDefaultFile`: without `-C`, the default file is read after the loop;
* `Lookup`: a file setting is read only while its flag is set;
* `Validate`: the pair test of `fh_prohibited_ranges`, the pairing loop
  (`Pairs`), `node_id` in [1, 99], at least two net entries, each in
  [0, 99], one of them `node_id`. The ids go through `UChar`, the
  `(unsigned char)` casts of lines 369 and 380.

A command line is the sequence of getopt's results; the option arguments
are not kept. A configuration file is a record: whether
`config_read_file` succeeds, which of the nine flagged settings it holds,
`node_is_basestation`, the range list, `node_id` and the net list. A
setting's value is abstracted to its source: `"default"`, `"cli"` or
`"file"`. `ReferenceSource` is the help text's rule ("all options specified
on the command line override any default setting or any setting in a
configuration file"), written independently of the loop.

### Startup.tla: `main.cc:114-183` and the FH part of the loop

`Startup` instantiates `RadioConfig`, `FreqTable`, `RadioScheduler` and
`FhSeq`. Its `stage` variable follows `main.cc` in this order:
1. `RcCtor`: `RadioConfig rc(argc, argv)` for some command line of
   `CmdLines` and some file of `ConfigFiles`; an exit stops the process,
   otherwise `node_is_basestation`, `prohibited` and `num_nodes_in_net`
   take rc's values (`RcResult` keeps what the later constructors read);
2. `FtgCtor`;
2. `RsCtor`;
3. `FsgCtor`, with `rs.getFhTaskSchedSize()`, `ftg.getRfTableSize()` and
   `ftg.getDspTableSize()`;
4. the start-up `makeSeq` (`FhSeqStep`, which has no scrub at start-up);
5. `CalcU4`;
6. then, in the loop, `makeSeq` and `scrubSeq` (`FhSeqStep`), and
   `SetU4`.

Any constructor may exit the process. That is the only reason the
Startup cfgs turn deadlock checking off.

The radio model's values (band, separation, sample rate, dwell) are chosen
once, in `Init`; rc's values at `RcCtor`. `node_is_basestation` is
shared by the frequency tables and the scheduler. The algorithm is a
constant: `main.cc` passes `FH_SEQ_RESTART_ALG_A`, and the passing run
checks all ten, because the constructor accepts any of them.

Fairness: `main` is one thread, so weak fairness on its steps, and
separately on the `makeSeq` steps so that anti-jam resizing cannot starve
them. Every constructor returns, and every `makeSeq` call runs until it
returns or loops.

### PacketStore.tla: the tun/tap packet path (`PacketStore.cc`, `TxPayload.cc`, `RxPayload.cc`, the data paths of `RadioHardwareConfig.cc`)

Nodes are `1..N` and the basestation is `N`. The u4 links join the
basestation to each mobile. Per node, the state is:

| Variable | Code |
|---|---|
| `pkt_ctr` | `readPackets`' counter `i`, the packet id |
| `tx_packets` | `PacketStore::tx_packets`, a sequence of `TxPayload` records |
| `air` | the frame of the current slot on each link |
| `rx_packets` | `PacketStore::rx_packets`, `RxPayload` records with the frames received so far |
| `written` | the packets `cwrite` wrote to the tap |
| `read_log` | history only: every packet a read thread accepted |

A packet's bytes are abstracted to its identity `<<origin, id>>`, and frame
`k` carries `<<origin, id, k>>`. Lengths are kept in a small unit, with the
code's `frames_per_packet` arithmetic (`FramesPerPacket`, including the
exact-multiple correction and `TxPayload`'s short-packet `frame_size`).

The actions:
* `ReadPacket(n)` is one accepted iteration of `readPackets`, for a
  destination in `1..N`.
* `TxBurst(n)` is the data part of `txOFDMAFrameBurst` (the basestation,
  one frame per mobile in loop order) or `txMCFrameBurst` (a mobile, one
  frame for the basestation). It is the recursive `Burst` over
  `get_next_frame_for_destination`, which erases the packet it took a
  frame from.
* `Receive(l)` is the data branch of `ofdmaCallback`/`mcCallback` with
  `add_frame`. The lookup is by `packet_id` only, and `cwrite` succeeds or
  fails (`WriteResults`), because `TunTap` is not part of the repository.
* `Lose(l)` stands for a frame that is not detected, or whose header or
  payload fails its check.

A burst waits until the previous slot's frame on its links is received or
lost: slots are far apart compared with one frame. Fairness is weak, on
each node's tx burst thread (it runs every slot) and on each link's
callback. Reads are driven by the network and are not fair.

The read thread appends to `tx_packets` while the tx burst thread searches
and erases the same `std::list`, with no lock. That is a data race whose
outcome (corrupted list links) TLC cannot enumerate, so both steps are
atomic here.

### ModemThreads.tla and ModemAccess.tla: the u4 threads and the modem mutexes

In u4 mode each node has its main thread and a receive thread started at
`main.cc:225-257`. Two OFDMA modem objects are recreated while other
threads use them:
* the mobile's synchroniser `ofdma_fs_default`, which `run_ofdma_rx`
  executes under `sync_mutex`, and which the anti-jam branch of `main`
  rebuilds (`recreate_modem`);
* the basestation's generator `ofdma_fg_default`, which each u4 OFDMA_DATA
  burst thread (`txOFDMAFrameBurst`) holds under `gen_mutex` while it
  modulates, and which `run_mc_rx` rebuilds from `mcCallback` when an
  allocation from node 1 arrives.

Threads and their actions (`pc` holds each thread's position):

| Thread | Code | Actions |
|---|---|---|
| `mob_main` | node 1's epoch loop, `main.cc:265-492` | `MobEpoch` picks an anti-jam branch (`Plans`: open a hole = send then install, close it = install then send, resend the full band, or nothing); `MobPlanStep` sends (`txMCAllocBurst`, onto `air`) or copies into `new_alloc` and calls `recreate_modem`; `MobEpochEnd` ends the epoch, with a console termination (`ExitRxThread`) or the run time ending the loop; `MainJoin` is `pthread_join` |
| `mob_rx` | `run_ofdma_rx` | `MobRecv` (recv, or an error that returns), `MobRxLock`, `MobExec`, `MobRxUnlock` with the exit test `AfterRx` |
| `bs_main` | the basestation's u4 slots in `doTask` | `BsSlot` spawns the burst thread, `BsJoinTx` joins it, `MainJoin` |
| `bs_tx` | `txOFDMAFrameBurst` | `TxLock`, `TxSend`, `TxUnlock` |
| `bs_rx` | `run_mc_rx` with `mcCallback` | `BsRecv`, `BsExec` (no allocation frame; a NEW_ALLOC frame failing its payload check; or one copied into `new_alloc` before `recreate_modem`) |

`recreate_modem` is four steps shared by `mob_main` and `bs_rx`:
`RecLock` (which also hardens the basestation's `fgprops`), `RecDestroy`,
`RecCreate` (from `new_alloc`) and `RecUnlock`. The destroy and the create
are separate steps because a freed object between them is the hazard.
Each step translates both branches of `recreate_modem`: the basestation's
`gen_mutex` and `ofdma_fg_default` (`RadioHardwareConfig.cc:1129-1143`,
the lines the map names) and the mobile's `sync_mutex` and
`ofdma_fs_default` (lines 1163-1167, the same four steps). The mobile
branch's `received_new_alloc = false` is left out with the path that
reads it.

`ModemAccess` is what such a mutex promises for one object. A user
acquires the object only while it exists and nobody else uses it, and the
object is torn down only while nobody uses it. `ModemThreads` instantiates
it twice: the user is `mob_rx` in `MobExec` (or `bs_tx` in `TxSend`), and
the allocation is the object's, or `NoModem` after `RecDestroy`.

Fairness: weak fairness on every thread's local steps; every thread is
scheduled. Strong fairness on the mutex acquisitions. A mutex is released
after every burst and every pass of an rx loop, and the rx loops block in
`recv` between two passes, so a waiter is not passed over forever.

Left out: the mobile's `received_new_alloc` recreate (unreachable, see
section 6), `switch_allocation` (changes nothing), and the MC bursts of the
mobile's slots (they use `mctx`, which no thread recreates). The
basestation may take a console termination at any slot boundary, which is
more often than the code's epoch boundary.

## 5. Runs

The TaskDispatcher runs use a three-node net (a basestation and two
mobiles) with `tau_rx_dwell` = 100 ms and `tau_tune` = 20 ms. That gives
4 FH nets per second and an 8-slot FH table:
* The heartbeat windows are at slots 0-2 and 4-6. A data slot precedes
  each window, so the retune-to-home path and the concurrent tune2normal
  threads both occur.
* `MaxEpochs = 2`, so a thread leaked in one epoch meets the next one.
* `MaxThreads = 6`: room for two live workers plus leaked threads, until
  `pthread_create` fails.

| Run | cfg | Expect | Checks | What it shows |
|---|---|---|---|---|
| `dispatch_fh_basestation` | `MC_TaskDispatcher_base.cfg` | pass | `TypeOK`, `BurstsJoinedBeforeNextSlot` | Burst handles are always joined before `doTask` returns, even in the slots where retune threads leak. This run also reaches `CreateFails`. |
| `antijam_nodes` | `MC_AntiJam_nodes.cfg` | pass | `TypeOK`, `LeftEdgeInSweepRange`, `MitigationFlagMatchesModem`, `AllocationsAgree` | For node 1 and for node 2 (whose sweep inserts full-band tests), under any throughput outcomes and timer expiries, `left_edge` stays on the grid 0..425 and `jam_mitigation_running` is set exactly when a hole is installed. With delivered bursts, node 1's basestation runs node 1's allocation. |
| `antijam_jammer` | `MC_AntiJam_jammer.cfg` | pass | `AllocationsEventuallyAgree`, `SweepEvadesJammer` | The jammer stays on subcarrier 100, and up to 2 epochs of bursts in a row are lost. The two ends re-agree, and the sweep finds an evading hole again after every close. |
| `antijam_reopen` | `MC_AntiJam_reopen.cfg` | violation | `HoleReopensWhereItWorked` | Finding: a hole at edge 0 works and is closed, then reopens at edge 25. This contradicts `main.cc:444-447` and spec 4.6. |
| `phy2mac` | `MC_Phy2Mac.cfg` | pass | `TypeOK`, `HeartbeatFramesCounted`, `PolicyOperandsNonNegative`, `BurstSendsSlotFrame` | Mobile 1 runs one pass over its FDD table, with and without tun/tap, against the tap thread, received frames and heartbeat calls in any order (919 thousand states). Every burst sends the frame built for its own slot, because the join keeps the next builder off the buffers. `rx_num_heartbeat_frames` equals the valid heartbeats of the session and the open window. Policy A's unsigned subtraction never wraps. |
| `mac_store_frame` | `MC_Phy2Mac_store.cfg` | violation | `DataFrameIsStoredPacket` | Finding: with tun/tap, when the tap thread has stored no packet before slot 7, `createFrameFromPacketStore` passes its `ps->size() >= tx_data_frame_id` test (0 >= 0) and copies 2103 bytes from get_frame's NULL. |
| `startup` | `MC_Startup_pass.cfg` | pass | `TypeOK`, `CommandLineOverrides`, `RfWindowsClearOfProhibited`, `SeqIndicesInRange`, `HopsCoverAllPairs`, `ReachesEpochLoop` | See below (433 thousand states, 66 s). For every command line and file of the bounds, every setting rc accepts comes from the command line if an option gave it, else from the file if the file has it, else from the default. No RF entry ftg accepts puts a window on a prohibited range. With DSP tables of 5, 3 and 1 entries, the nested sweeps (ALG_A among them) leave `makeSeq` with every index in range, and after `scrubSeq` the table of every algorithm is in range (ONE and TOGGLE need the scrub at one entry). ALG_A/ALG_B cover every (rf, dsp) pair once per period, and the start-up `makeSeq` returns. |
| `startup_narrow_band` | `MC_Startup_narrow.cfg` | violation | `ReachesEpochLoop` | Finding: a 400-410 MHz band with no prohibited range passes `FreqTableGenerator` with an empty RF table, and `makeSeq` (ALG_A) then spins forever. |
| `packet_path` | `MC_PacketStore_pass.cfg` | pass | `TypeOK`, `WrittenIntact` | Two mobiles each read two packets of 2 or 3 units (1 or 2 frames of 2 units), so their ids 0 and 1 collide at the basestation. Links lose frames and tap writes may fail. Even so, every packet written to a tap is exactly one whole packet read for that node. It is not always the packet the frame belonged to: a stale RxPayload of the other mobile may be written in its place, which `packet_duplicate_write` shows. |
| `packet_duplicate_write` | `MC_PacketStore_dup.cfg` | violation | `NoDuplicateWrite` | Finding: three mobiles each send a one-frame packet with id 0. The basestation's first `cwrite` fails, and `add_frame` (`PacketStore.cc:153-163`) keeps the complete RxPayload, which nothing ever removes. The next two frames with id 0 each find it and write mobile 1's packet again, so it reaches the tap twice and the other two packets never do (10 states deep). The comment and the commented-out `completed_packets` lookup at lines 123-127 say no packet is sent to the tun interface twice. Two mobiles cannot show it: only two frames share an id. |
| `modem_threads` | `MC_ModemThreads.cfg` | pass | `TypeOK`, `ModemsRefineAccess`, `ThreadsTerminate` | Node 1 opens, closes or resends allocations over two epochs, the basestation runs two bursts, allocation frames may fail their check, rx threads may fail, and either node may take a console termination. No modem object is executed while `recreate_modem` has it destroyed or rebuilds it under a user, and both processes get past `pthread_join`. |
| `packet_path_large_packets` | `MC_PacketStore_large.cfg` | violation | `PacketsDelivered` | Finding: over reliable links with writes that succeed, a two-frame packet is never delivered. `get_next_frame_for_destination` (`PacketStore.cc:71`) erases the packet after its first frame. The incomplete `RxPayload` also swallows frame 0 of any other mobile's packet with the same id. With the default `frame_size` of 1024, every IP packet longer than 1024 bytes is lost. |

**Bounds.**
* **AntiJam** needs no cut-off. Edges, directions and flags are finite,
  and `batch_count` saturates.
* **`startup`** chooses every combination of:
  * 7 command lines (none; `-C` alone and between `-t` and `-e`; `-h`; an
    unknown option before `-t`; `-C` then `-h`; all 16 setting options)
    and 576 files (readable or not, holding none or all nine flagged
    settings, either role, 6 range lists, `node_id` 1 or 257, 6 nets):
    4032 constructions, which reach every exit of the constructor;
  * both UHD rx-bug modes;
  * 20 and 40 MHz separations;
  * bands of 40 and 100 MHz, with the range lists rc accepts: none, one
    range, two ranges, a reversed pair, a lone value (RF tables of 0 to 5
    entries after filtering);
  * sample rates of 3 and 5 MHz (DSP tables of 5 and 3 entries);
  * the 2- and 3-node nets rc accepts;
  * dwells of 17.5, 200 and 498.8 ms.

  The command lines cover each order in which an option and the file it
  competes with can meet: a `-C` file read before and after an option,
  the default file read after the loop, and an exit before and after a
  `-C`. One option from each class of the switch suffices, since the
  cases differ only in which flag they clear; the last line has them all.

  The dwells give FH tables of 46-47, 4 and 1 slots, plus one exit (3
  nodes at 498.8 ms). 47 slots cover several full ALG_A periods
  (5 x 3 = 15 pairs).
* **A one-entry DSP table.** The 10 MHz sample rate gives two small
  windows, which the even-count correction makes one. ONE and TOGGLE then
  write DSP indices 1 and 2, past the end. The spec (section 8) says all
  ten policies stay in range; in the code only the `scrubSeq` of every FH
  epoch repairs them (hazard `FhSeqGenerator.cc:76`), which is why
  `SeqIndicesInRange` checks those two after the scrub and the nested
  sweeps before it.
* **No DSP-table property in `startup`.** A sample rate above the 20 MHz
  medium window wraps the DSP size (see below), and the run cannot pass
  with it, so `DspTableWellFormed` is left to that observation rather than
  checked over bounds that exclude the one case that breaks it.
* **No scheduler-timing property.** The nets per second are the floor of
  (1 - guard) / net, so an epoch fitting its second is the floor's own
  definition; the run checks the sizes only through the tables they give
  `fsg`.
* **A related divergence, also not a run.** The prohibited-range test of
  `FreqTableGenerator.cc:101-102` also drops a window whose tx and rx
  images straddle a range that neither of them touches. Spec 4.2 drops a
  window only on overlap. The code is the stricter of the two, and
  `RfWindowsClearOfProhibited` holds.

**What rc accepts, kept as observations (one-off TLC runs over
`RadioConfigCtor`; no run slot is left for them).**
* `node_id = 257` in the file is accepted as node 1, and a net entry 256
  as 0, the reserved broadcast id: the casts of `RadioConfig.cc:369` and
  `380` come before the range checks, and the test `*it < 0` of line 430
  can never hold of an `unsigned char`.
* A lone value in `fh_prohibited_ranges` (`<<420>>`) is silently dropped:
  `num_fh_prohibited_ranges` is 0, so the pair test of line 387 is
  skipped. Three values exit.
* A pair written end first (`430, 420`) is stored as it is. The window
  test of `FreqTableGenerator.cc:100-101` then treats the range as empty.
  `RfWindowsClearOfProhibited` follows the code's reading of a pair and
  holds; stated with the range read as [min, max], the `startup` run finds
  a mobile (band 400-500 MHz, separation 20 MHz) whose first RF entry has
  its rx window centred at 430 MHz, on the range.
* A node listed twice (`1, 1`) is counted twice in `num_nodes_in_net`, so
  `rs` sizes its tables for a net of two with one real node.
* `long_options` (`RadioConfig.cc:93-109`) has no all-zero last entry,
  which `getopt_long` needs to find the table's end; any long option reads
  past the array. Long options are not in the model.

**Two divergences found in earlier runs and kept here as observations.**
* `Phy2Mac::assessHeartbeatStats` never adds the window's missing count to
  `session_heartbeat_missing_ctr` (`Phy2Mac.cc:576`). The session totals
  then no longer add up to the session opportunities, although spec 3
  says they are cumulative. No code of this build calls the function.
* The FH feasibility test of the `RadioScheduler` constructor
  (`RadioScheduler.cc:86`) compares `1.0 - tau_fdd_net` with the guard.
  That makes it a second copy of the FDD test. An FH net longer than a
  second (for example 50 nodes with an 18 ms dwell) is therefore accepted,
  with `fh_task_sched_size = 0`. `calcFhSchedule` is never called in this
  build.

Both were checked as violation runs. The packet-path runs replaced them,
because the project keeps at most twelve runs. Two more went the same way:
* **The retune handles of an FH heartbeat slot.** In the FH tx HEARTBEAT
  case `doTask` stores the new tune2normal thread in `rx_task_thread`
  (`RadioTaskManager.cc:253`). When the rx side of the same slot already
  spawned its own (slots 0 and 4 of the basestation's FH table, each
  after a data slot), that handle is lost: the rx join waits for the tx
  thread, the rx heartbeat burst starts while the rx retune still runs,
  and that thread is never joined. `SideRetuneCompletesBeforeBurst`
  (each side's retune completes before its burst, spec 4.4) failed in
  `MC_TaskDispatcher` with `TaskTable <- BasestationFhTable`,
  `waveform_is_normal = FALSE`, `MaxEpochs = 2` and `MaxThreads = 6`.
  The FH branch cannot be reached while `main.cc:180` keeps
  `waveform_is_normal` true, so that run gave its place to
  `packet_duplicate_write`, a bug of the path the radio runs.
* A sample rate above the 20 MHz medium window (25 MHz) gives
  `num_windows_small = 0` in `FreqTableGenerator` (`FreqTableGenerator.cc:205`).
  The odd-size correction wraps that to the largest unsigned value (65535
  at the model's width of 16 bits), and only entry 0 of the DSP table is
  written (`DspTableWellFormed` of `FreqTable.tla` failed at once).

**The frame path beyond the NULL read.** With two passes over the table
and a guard that leaves out the NULL case, `DataFrameIsStoredPacket`
still fails in the second data slot:
* the tap thread stored packet 0 for node 1 and packet 1 for node 2;
* the frame carries packet 1's payload under id 1, addressed to node 1.

The destination comes from `get_next_frame_destination`, which reads
`next_packet`. Only the uncalled `get_next_frame` advances it, so every
frame goes to packet 0's destination. The run checks one pass, which
ends at the NULL read. The two-pass check is the same cfg with
`MaxEpochs = 2` and the invariant
`DataFrameIsStoredPacket \/ tx_payload.src = "null"`.

**The Phy2Mac bounds.**
* One pass of the eight-slot table has two heartbeat slots and a data slot
  after idle slots. A burst left unjoined after slot 4 meets the data
  frame of slot 7, which is what `BurstSendsSlotFrame`'s mutant shows.
* `MaxPackets = 1` lets the tap thread store nothing or one packet before
  the data slot in `phy2mac`. That covers both sides of the store-size test
  (a stored packet found, and none found). `mac_store_frame` uses
  `MaxPackets = 2`; with two, `phy2mac` took 2.6 million states and 2.5
  minutes.
* `MaxRxFrames = 1` gives every value a burst can leave in `rxf`: no frame
  (the reset), one valid frame, and one invalid frame. A longer sequence
  leaves the flags of its last frame, so it gives nothing new.
* `MaxRx = 1`, with every frame type and the destinations 0, the node and
  broadcast, exercises each branch of `updateMacPostTask`.
* `MaxSessionOpp = 2` is the smallest bound at which a window closes
  between two valid heartbeats.
* The basestation's table (data in slots 3 and 7, every tx slot busy)
  with three heartbeat opportunities gives 3.3 million states and the
  same results. That run leaves `TxSlotIdle` unfired, so the run uses
  the mobile's table.
* `tx_data_frame_id` wraps at 2^16 in the model, as the `unsigned short`
  does. After the wrap, `get_frame` would look up packet 0 again, and
  packets are never erased on this path. 65536 data slots are beyond any
  run.

**A result kept as an observation.** With mobile 1's FH table,
`TypeOK`, `HeartbeatBurstOnHomeFrequency` and
`SideRetuneCompletesBeforeBurst` hold (2,033 states): a tx heartbeat there
never needs a retune, so the line-253 path is never taken. That run gave
its place to `modem_threads`. The basestation run still fires every
TaskDispatcher action, `CreateFails` included.

**The modem-thread bounds.** `modem_threads` has 169 thousand states. Two
epochs of node 1 are enough for a hole opened and then closed, and so for
both orders of send and install. Two hole allocations let an install
follow one of another value. Two bursts let a recreate meet a burst on
either side of it. Three epochs and three bursts give 696 thousand states
with the same results; that run takes four minutes.

**A hazard the model cannot decide.** `rx_thread_args` (`main.cc:227`) is
a local of the `if(rc.u4)` block, and its address goes to the rx thread.
The thread reads `run_time` from it after setting up the USRP, and only the
one-second busy wait before the block closes keeps the object alive. This
is wall-clock time, outside the untimed model.

**The packet-path bounds.** `packet_path` has 530 thousand states. Its
reads cover:
* both frame counts;
* exact-multiple lengths;
* id collisions between the mobiles;
* a failed write followed by a colliding frame;
* packets for destinations that no burst serves.

Packets shorter than one frame (`TxPayload`'s `frame_size` adjustment) are
left out to keep the run short. They give one frame, like the 2-unit
packets.

`HeartbeatBurstOnHomeFrequency` also fails on the basestation table. A
leaked tune2normal thread that is delayed past a data slot leaves tx on a
hop channel, and the next tx heartbeat burst runs there.

## 6. Not modelled

* The burst I/O: sample streaming against UHD and liquid-dsp.
* Timing values beyond the slot counts, and the slot start times.
* `calcFddSchedule`, `calcFhSchedule`, `calcCalibrationSchedule` and
  `calcTestSchedule` are never called in this build. The operator of the
  first two only supplies TaskDispatcher's tables.
* The statistics counters of `FhSeqGenerator` that are only printed.
* The mobile's `received_new_alloc` path (`ofdmaCallback` with
  `run_ofdma_rx`). It is unreachable, because no node calls
  `txOFDMAAllocBurst`. `switch_allocation` changes nothing, because no
  code sets `INNER_ALLOCATION`.
* `Phy2Mac::createDataTxFrame` and `createIdleMacTxFrame`, which no
  reachable code calls (the latter only in `fetchTxFrame`'s dead `else`).
  `updateMacPreTask`, `printFrameStats` and `printHeartbeatStats` change
  no state.
* The file settings of `RadioConfig` that no option can give (radio
  hardware, sample rate, band, timeouts and the like) are only copied into
  members; the models take the ones they use as constants. Long options,
  `display_config` and `showUserPrefsHelp` only print.
* `AppManager`: its state is the wall-clock start time and the run time,
  and `isContinuing()` compares `gettimeofday` with them. The models take
  the end of the run as a nondeterministic choice at the epoch boundary.
  `doAppLogReport` only formats log lines.
* Logging (`Logger`) and the timers of `timer.cc`.
* The tun/tap device itself (`TunTap`, outside the repository). Its
  `cwrite` is a nondeterministic success or failure.
