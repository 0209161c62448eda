---------------------------- MODULE TaskDispatcher ----------------------------
(***************************************************************************)
(* RadioTaskManager::doTask (RadioTaskManager.cc) driven by the slot loop  *)
(* of main.cc: for every slot of the active table the control thread       *)
(*   1. in FH mode spawns an rx retune thread and a tx retune thread,      *)
(*   2. joins the rx retune and spawns the rx burst thread,                *)
(*   3. joins the tx retune and spawns the tx burst thread,                *)
(*   4. joins the rx burst and the tx burst, and returns.                  *)
(* Every worker is a thread of its own that runs concurrently with the     *)
(* control thread and with the other workers; the radio front end is       *)
(* the pair of tuned frequencies rx_absolute_freq / tx_absolute_freq,      *)
(* abstracted to "normal" (the home frequency) and "hop" (a hop channel).  *)
(*                                                                         *)
(* Thread handles are ids in 1..MaxThreads (0 is the null pthread_t).  A   *)
(* joined thread releases its id; a thread never joined keeps it.          *)
(***************************************************************************)
EXTENDS Integers, FiniteSets, TLC, RadioSchedule

CONSTANTS
    TaskTable,           \* the active rf_task_t table: [0..size-1 -> task]
    waveform_is_normal,  \* TRUE: FDD mode, no retuning; FALSE: FH mode
    MaxEpochs,           \* passes of the slot loop before the run time ends
    MaxThreads           \* pthread ids available to the process

ASSUME waveform_is_normal \in BOOLEAN
ASSUME MaxEpochs \in Nat \ {0} /\ MaxThreads \in Nat \ {0}

Size == Cardinality(DOMAIN TaskTable)
Tids == 1 .. MaxThreads
NoThread == 0

VARIABLES
    pc,                  \* position of the control thread in doTask
    epoch, task_id,      \* the slot loop of main.cc
    rx_task_is_running, rx_task_thread,   \* doTask locals
    tx_task_is_running, tx_task_thread,
    threads,             \* live (not yet joined) threads: id -> record
    rx_absolute_freq, tx_absolute_freq    \* RadioHardwareConfig

vars == <<pc, epoch, task_id, rx_task_is_running, rx_task_thread,
          tx_task_is_running, tx_task_thread, threads,
          rx_absolute_freq, tx_absolute_freq>>

locals == <<rx_task_is_running, rx_task_thread, tx_task_is_running, tx_task_thread>>

\* A worker: what it does, the side it was spawned for, and where it is.
\*   kind "ManualTune"  : doRx/TxManualTuneTask -> tuneRx/TxManual
\*   kind "Tune2Normal" : doTune2NormalFreqTask -> tune2NormalFreq
\*   kind "Burst"       : one of the do*BurstTask wrappers, for task `task`
Thread(kind, side, task, tpc) ==
    [kind |-> kind, side |-> side, task |-> task, tpc |-> tpc]

Slot == TaskTable[task_id]

\* (mutant) the sentinel (pthread_t) 0 counted as a free handle
FreeTidsWithSentinel == (Tids \cup {NoThread}) \ DOMAIN threads

FreeTids == Tids \ DOMAIN threads

\* pthread_create: the new handle is a free id (pthread reuses ids).
\* With no id left pthread_create fails and doTask exits the process.
Spawn(tid, t) == threads' = threads @@ (tid :> t)

\* pthread_join of a live handle: blocks until the thread has returned,
\* then releases the handle.
Joined(tid) ==
    /\ threads[tid].tpc = "Done"
    /\ threads' = [i \in DOMAIN threads \ {tid} |-> threads[i]]

\* The cases of the four switches of doTask that call pthread_create.
RxRetuneSpawns ==
    \/ Slot.rx_task \in {"RETUNE_ONLY", "DATA", "SNAPSHOT"}
    \/ Slot.rx_task = "HEARTBEAT" /\ rx_absolute_freq # "normal"
TxRetuneSpawns ==
    \/ Slot.tx_task \in {"RETUNE_ONLY", "DATA", "NOISE"}
    \/ Slot.tx_task = "HEARTBEAT" /\ tx_absolute_freq # "normal"
RxBurstSpawns == Slot.rx_task \in {"DATA", "HEARTBEAT", "SNAPSHOT"}
TxBurstSpawns == Slot.tx_task \in {"DATA", "OFDMA_DATA", "MC_DATA", "HEARTBEAT", "NOISE"}

Init ==
    /\ pc = "LoopTop"
    /\ epoch = 0
    /\ task_id = 0
    /\ rx_task_is_running = FALSE /\ rx_task_thread = NoThread
    /\ tx_task_is_running = FALSE /\ tx_task_thread = NoThread
    /\ threads = <<>>
    \* the constructor ends with tune2NormalFreq()
    /\ rx_absolute_freq = "normal" /\ tx_absolute_freq = "normal"

-----------------------------------------------------------------------------
(* main.cc: while (app.isContinuing()) { for task_ctr < size: doTask }     *)

\* doTask entry: fresh locals; in FDD mode the retune block is skipped.
DoTaskBegin ==
    /\ pc = "LoopTop"
    /\ task_id < Size
    /\ rx_task_is_running' = FALSE /\ rx_task_thread' = NoThread
    /\ tx_task_is_running' = FALSE /\ tx_task_thread' = NoThread
    /\ pc' = IF waveform_is_normal THEN "RxRetuneJoin" ELSE "RxRetune"
    /\ UNCHANGED <<epoch, task_id, threads, rx_absolute_freq, tx_absolute_freq>>

\* End of one pass over the table; app.isContinuing() decides on another.
EpochEnd ==
    /\ pc = "LoopTop"
    /\ task_id = Size
    /\ epoch' = epoch + 1
    /\ task_id' = 0
    /\ pc' = IF epoch + 1 < MaxEpochs THEN "LoopTop" ELSE "Exited"
    /\ UNCHANGED <<locals, threads, rx_absolute_freq, tx_absolute_freq>>

\* FH receive-side retuning switch (RadioTaskManager.cc 124-192).
RxRetune ==
    /\ pc = "RxRetune"
    /\ pc' = "TxRetune"
    /\ \/ /\ Slot.rx_task \in {"RETUNE_ONLY", "DATA", "SNAPSHOT"}
          /\ \E tid \in FreeTids :
               /\ Spawn(tid, Thread("ManualTune", "rx", Slot.rx_task, "Tune"))
               /\ rx_task_is_running' = TRUE /\ rx_task_thread' = tid
       \/ /\ Slot.rx_task = "HEARTBEAT"
          /\ rx_absolute_freq # "normal"
          /\ \E tid \in FreeTids :
               /\ Spawn(tid, Thread("Tune2Normal", "rx", Slot.rx_task, "SetRx"))
               /\ rx_task_is_running' = TRUE /\ rx_task_thread' = tid
       \/ /\ ~RxRetuneSpawns
          /\ rx_task_is_running' = FALSE
          /\ UNCHANGED <<rx_task_thread, threads>>
    /\ UNCHANGED <<epoch, task_id, tx_task_is_running, tx_task_thread,
                   rx_absolute_freq, tx_absolute_freq>>

\* FH transmit-side retuning switch (RadioTaskManager.cc 194-268).  The
\* heartbeat case stores the new handle in rx_task_thread (line 253) and
\* leaves tx_task_thread null.
TxRetune ==
    /\ pc = "TxRetune"
    /\ pc' = "RxRetuneJoin"
    /\ \/ /\ Slot.tx_task \in {"RETUNE_ONLY", "DATA", "NOISE"}
          /\ \E tid \in FreeTids :
               /\ Spawn(tid, Thread("ManualTune", "tx", Slot.tx_task, "Tune"))
               /\ tx_task_is_running' = TRUE /\ tx_task_thread' = tid
               /\ UNCHANGED rx_task_thread
       \/ /\ Slot.tx_task = "HEARTBEAT"
          /\ tx_absolute_freq # "normal"
          /\ \E tid \in FreeTids :
               /\ Spawn(tid, Thread("Tune2Normal", "tx", Slot.tx_task, "SetRx"))
               /\ tx_task_is_running' = TRUE /\ rx_task_thread' = tid
               /\ UNCHANGED tx_task_thread
       \/ /\ Slot.tx_task = "HEARTBEAT" /\ tx_absolute_freq = "normal"
          /\ tx_task_is_running' = FALSE
          /\ UNCHANGED <<rx_task_thread, tx_task_thread, threads>>
       \/ /\ Slot.tx_task \notin {"RETUNE_ONLY", "DATA", "NOISE", "HEARTBEAT"}
          /\ UNCHANGED <<tx_task_is_running, rx_task_thread, tx_task_thread, threads>>
    /\ UNCHANGED <<epoch, task_id, rx_task_is_running,
                   rx_absolute_freq, tx_absolute_freq>>

\* The join block of doTask, used after each retune and at the end
\* (lines 274-288, 356-370, 486-516): if the side is marked running and
\* the handle is not null, join it; then clear the flag and the handle.
JoinSide(running, handle) ==
    IF running /\ handle # NoThread THEN Joined(handle) ELSE UNCHANGED threads

RxRetuneJoin ==
    /\ pc = "RxRetuneJoin"
    /\ JoinSide(rx_task_is_running, rx_task_thread)
    /\ IF rx_task_is_running
       THEN rx_task_is_running' = FALSE /\ rx_task_thread' = NoThread
       ELSE UNCHANGED <<rx_task_is_running, rx_task_thread>>
    /\ pc' = "RxBurst"
    /\ UNCHANGED <<epoch, task_id, tx_task_is_running, tx_task_thread,
                   rx_absolute_freq, tx_absolute_freq>>

\* Receive burst switch (lines 289-351).  Only the spawning cases change
\* the handle.
RxBurst ==
    /\ pc = "RxBurst"
    /\ pc' = "TxRetuneJoin"
    /\ \/ /\ Slot.rx_task \in {"DATA", "HEARTBEAT", "SNAPSHOT"}
          /\ \E tid \in FreeTids :
               /\ Spawn(tid, Thread("Burst", "rx", Slot.rx_task, "Burst"))
               /\ rx_task_is_running' = TRUE /\ rx_task_thread' = tid
       \/ /\ ~RxBurstSpawns
          /\ rx_task_is_running' = FALSE
          /\ UNCHANGED <<rx_task_thread, threads>>
    /\ UNCHANGED <<epoch, task_id, tx_task_is_running, tx_task_thread,
                   rx_absolute_freq, tx_absolute_freq>>

TxRetuneJoin ==
    /\ pc = "TxRetuneJoin"
    /\ JoinSide(tx_task_is_running, tx_task_thread)
    /\ IF tx_task_is_running
       THEN tx_task_is_running' = FALSE /\ tx_task_thread' = NoThread
       ELSE UNCHANGED <<tx_task_is_running, tx_task_thread>>
    /\ pc' = "TxBurst"
    /\ UNCHANGED <<epoch, task_id, rx_task_is_running, rx_task_thread,
                   rx_absolute_freq, tx_absolute_freq>>

\* Transmit burst switch (lines 371-475).  fetchTxFrame() and
\* createHeartbeatTxFrame() fill the Phy2Mac frame buffers first; their
\* contents are not modelled here.
TxBurst ==
    /\ pc = "TxBurst"
    /\ pc' = "RxFinalJoin"
    /\ \/ /\ Slot.tx_task \in {"DATA", "OFDMA_DATA", "MC_DATA", "HEARTBEAT", "NOISE"}
          /\ \E tid \in FreeTids :
               /\ Spawn(tid, Thread("Burst", "tx", Slot.tx_task, "Burst"))
               /\ tx_task_is_running' = TRUE /\ tx_task_thread' = tid
       \/ /\ ~TxBurstSpawns
          /\ tx_task_is_running' = FALSE
          /\ UNCHANGED <<tx_task_thread, threads>>
    /\ UNCHANGED <<epoch, task_id, rx_task_is_running, rx_task_thread,
                   rx_absolute_freq, tx_absolute_freq>>

\* (mutant) the final rx join is left out
RxFinalJoinSkipped ==
    /\ pc = "RxFinalJoin"
    /\ pc' = "TxFinalJoin"
    /\ UNCHANGED <<epoch, task_id, locals, threads,
                   rx_absolute_freq, tx_absolute_freq>>

RxFinalJoin ==
    /\ pc = "RxFinalJoin"
    /\ JoinSide(rx_task_is_running, rx_task_thread)
    /\ IF rx_task_is_running
       THEN rx_task_is_running' = FALSE /\ rx_task_thread' = NoThread
       ELSE UNCHANGED <<rx_task_is_running, rx_task_thread>>
    /\ pc' = "TxFinalJoin"
    /\ UNCHANGED <<epoch, task_id, tx_task_is_running, tx_task_thread,
                   rx_absolute_freq, tx_absolute_freq>>

\* Last join; doTask returns and the slot loop moves to the next task_ctr.
TxFinalJoin ==
    /\ pc = "TxFinalJoin"
    /\ JoinSide(tx_task_is_running, tx_task_thread)
    /\ IF tx_task_is_running
       THEN tx_task_is_running' = FALSE /\ tx_task_thread' = NoThread
       ELSE UNCHANGED <<tx_task_is_running, tx_task_thread>>
    /\ pc' = "LoopTop"
    /\ task_id' = task_id + 1
    /\ UNCHANGED <<epoch, rx_task_is_running, rx_task_thread,
                   rx_absolute_freq, tx_absolute_freq>>

-----------------------------------------------------------------------------
(* Worker threads.                                                         *)

\* tuneRxManual / tuneTxManual: set the hop frequency, wait for LO lock.
ManualTune(t) ==
    /\ threads[t].kind = "ManualTune" /\ threads[t].tpc = "Tune"
    /\ IF threads[t].side = "rx"
       THEN rx_absolute_freq' = "hop" /\ UNCHANGED tx_absolute_freq
       ELSE tx_absolute_freq' = "hop" /\ UNCHANGED rx_absolute_freq
    /\ threads' = [threads EXCEPT ![t].tpc = "Done"]

\* tune2NormalFreq: retune rx to its home frequency, then tx, then wait
\* for both LOs to lock.  Which side spawned it does not matter.
Tune2NormalRx(t) ==
    /\ threads[t].kind = "Tune2Normal" /\ threads[t].tpc = "SetRx"
    /\ rx_absolute_freq' = "normal"
    /\ threads' = [threads EXCEPT ![t].tpc = "SetTx"]
    /\ UNCHANGED tx_absolute_freq

Tune2NormalTx(t) ==
    /\ threads[t].kind = "Tune2Normal" /\ threads[t].tpc = "SetTx"
    /\ tx_absolute_freq' = "normal"
    /\ threads' = [threads EXCEPT ![t].tpc = "Done"]
    /\ UNCHANGED rx_absolute_freq

\* A burst runs on whatever the front end is tuned to, and returns.
BurstRun(t) ==
    /\ threads[t].kind = "Burst" /\ threads[t].tpc = "Burst"
    /\ threads' = [threads EXCEPT ![t].tpc = "Done"]
    /\ UNCHANGED <<rx_absolute_freq, tx_absolute_freq>>

Worker(t) ==
    /\ \/ ManualTune(t) \/ Tune2NormalRx(t) \/ Tune2NormalTx(t) \/ BurstRun(t)
    /\ UNCHANGED <<pc, epoch, task_id, locals>>

\* pthread_create fails (no thread can be created) at any of the spawn
\* points: doTask prints an error and calls exit(EXIT_FAILURE).
CreateFails ==
    /\ FreeTids = {}
    /\ \/ pc = "RxRetune" /\ RxRetuneSpawns
       \/ pc = "TxRetune" /\ TxRetuneSpawns
       \/ pc = "RxBurst" /\ RxBurstSpawns
       \/ pc = "TxBurst" /\ TxBurstSpawns
    /\ pc' = "Failed"
    /\ UNCHANGED <<epoch, task_id, locals, threads, rx_absolute_freq, tx_absolute_freq>>

\* The run time has elapsed, or the process exited: nothing happens any more.
Terminated == pc \in {"Exited", "Failed"} /\ UNCHANGED vars

Control ==
    \/ DoTaskBegin \/ EpochEnd \/ RxRetune \/ TxRetune \/ RxRetuneJoin
    \/ RxBurst \/ TxRetuneJoin \/ TxBurst \/ RxFinalJoin \/ TxFinalJoin
    \/ CreateFails

Next == Control \/ (\E t \in DOMAIN threads : Worker(t)) \/ Terminated

\* Every thread is scheduled by the OS and none of them blocks forever:
\* the LO-lock polls terminate and joins wait only on running threads.
Spec == Init /\ [][Next]_vars /\ WF_vars(Control)
             /\ \A t \in Tids : WF_vars(t \in DOMAIN threads /\ Worker(t))

-----------------------------------------------------------------------------
Sides == {"rx", "tx"}
TPcs == {"Tune", "SetRx", "SetTx", "Burst", "Done"}
Freqs == {"normal", "hop"}

TypeOK ==
    /\ pc \in {"LoopTop", "RxRetune", "TxRetune", "RxRetuneJoin", "RxBurst",
               "TxRetuneJoin", "TxBurst", "RxFinalJoin", "TxFinalJoin", "Exited", "Failed"}
    /\ epoch \in 0 .. MaxEpochs /\ task_id \in 0 .. Size
    /\ rx_task_is_running \in BOOLEAN /\ tx_task_is_running \in BOOLEAN
    /\ {rx_task_thread, tx_task_thread} \subseteq Tids \cup {NoThread}
    /\ DOMAIN threads \subseteq Tids
    /\ \A t \in DOMAIN threads :
         threads[t] \in [kind : {"ManualTune", "Tune2Normal", "Burst"},
                         side : Sides, task : RxTasks \cup TxTasks, tpc : TPcs]
    /\ {rx_absolute_freq, tx_absolute_freq} \subseteq Freqs

FreqOf(side) == IF side = "rx" THEN rx_absolute_freq ELSE tx_absolute_freq

RunningBurst(t) == threads[t].kind = "Burst" /\ threads[t].tpc = "Burst"

\* A heartbeat burst, rx or tx, runs while that side of the front end is
\* tuned to its home frequency: the heartbeat is only heard at home
\* (doTask's HEARTBEAT retune cases, lines 164-189 and 229-254, and the
\* joins that precede the bursts).
HeartbeatBurstOnHomeFrequency ==
    \A t \in DOMAIN threads :
        RunningBurst(t) /\ threads[t].task = "HEARTBEAT"
            => FreqOf(threads[t].side) = "normal"

\* Each side's retune completes before that side's burst starts: while a
\* burst runs, no retune thread spawned for the same side is unfinished
\* (spec 4.4; doTask joins the retune handle before the burst switch).
SideRetuneCompletesBeforeBurst ==
    \A b, r \in DOMAIN threads :
        RunningBurst(b) /\ threads[r].kind # "Burst"
            /\ threads[r].side = threads[b].side
            => threads[r].tpc = "Done"

\* Between two doTask calls no burst thread of the finished slot is left
\* behind, so the bursts of two slots never overlap (final joins,
\* lines 486-516).
BurstsJoinedBeforeNextSlot ==
    pc = "LoopTop" => \A t \in DOMAIN threads : threads[t].kind # "Burst"
=============================================================================
