----------------------------- MODULE ModemThreads -----------------------------
(***************************************************************************)
(* The threads of a u4 net (rc.u4) around its OFDMA modem objects: node 1 *)
(* and the basestation.                                                    *)
(*                                                                         *)
(*  mobile:  mob_main runs the epoch loop of main.cc; its anti-jam branch  *)
(*           sends allocations (txMCAllocBurst) and installs them (memcpy  *)
(*           into new_alloc, recreate_modem under sync_mutex).  mob_rx is  *)
(*           run_ofdma_rx, which executes ofdma_fs_default under           *)
(*           sync_mutex.                                                   *)
(*  basestation: bs_main runs the u4 slots, each an OFDMA_DATA burst       *)
(*           thread bs_tx (txOFDMAFrameBurst, which holds gen_mutex while  *)
(*           it uses ofdma_fg_default) that doTask joins.  bs_rx is        *)
(*           run_mc_rx: mcCallback installs a received allocation by       *)
(*           recreate_modem under gen_mutex.                               *)
(*                                                                         *)
(* An allocation is a model value.  Both main threads end their loops at  *)
(* the end of the run time, or at a console termination, which also sets  *)
(* join_rx_thread; each then joins its rx thread.                         *)
(***************************************************************************)
EXTENDS Naturals, Sequences

CONSTANTS
    FullBand,   \* ofdmframe_init_sctype: the allocation without a null hole
    Holes,      \* allocations with a null hole (openNullHole)
    MaxEpochs,  \* bound: epochs of mob_main within the run time
    MaxBursts,  \* bound: u4 slots of bs_main within the run time
    Lossy,      \* TRUE: an allocation frame may fail its payload check
    Free        \* a mutex without holder

Allocs == Holes \cup {FullBand}
Nodes == {"mobile", "bs"}
Mutexes == {"sync", "gen"}
Threads == {"mob_main", "mob_rx", "bs_main", "bs_tx", "bs_rx"}

\* The mutex a thread takes and the modem object it guards; the node whose
\* RadioHardwareConfig a thread works on.
GuardOf == [t \in Threads |-> IF t \in {"mob_main", "mob_rx"} THEN "sync" ELSE "gen"]
NodeOf  == [t \in Threads |-> IF t \in {"mob_main", "mob_rx"} THEN "mobile" ELSE "bs"]
MainOf  == [n \in Nodes |-> IF n = "mobile" THEN "mob_main" ELSE "bs_main"]
RxOf    == [n \in Nodes |-> IF n = "mobile" THEN "mob_rx" ELSE "bs_rx"]

VARIABLES
    pc,              \* the point each thread is at
    mutex,           \* sync_mutex / gen_mutex: holder or Free
    modem,           \* ofdma_fs_default / ofdma_fg_default: [alive, alloc]
    new_alloc,       \* rhc.new_alloc of each node
    hardened,        \* the basestation's hardened flag (fgprops switched)
    air,             \* NEW_ALLOC frames from node 1 to the basestation
    join_rx_thread,  \* rhc.join_rx_thread of each node
    plan,            \* what is left of mob_main's anti-jam branch
    epochs, bursts

vars == <<pc, mutex, modem, new_alloc, hardened, air, join_rx_thread,
          plan, epochs, bursts>>

\* The anti-jam branches of node 1 (main.cc:362-384 closes the hole: install
\* then send; main.cc:413-431 opens one: send then install; main.cc:461-470
\* resends the full band), or none.
Send(a)    == [op |-> "send", alloc |-> a]
Install(a) == [op |-> "install", alloc |-> a]
Plans ==
    {<<>>, <<Install(FullBand), Send(FullBand)>>, <<Send(FullBand)>>}
    \cup {<<Send(a), Install(a)>> : a \in Holes}

\* The exit test of both rx loops (RadioTaskManager.cc:986, 1074): the run
\* time, one second longer than the main loop's, is over, or
\* exit_rx_thread was called.
RxStops(n) == pc[MainOf[n]] \in {"Join", "Done"} \/ join_rx_thread[n]
\* Mutant: the exit test reads join_rx_thread only.
AfterRxJoinOnly(n) == IF join_rx_thread[n] THEN "Exited" ELSE "Recv"

AfterRx(n) == IF RxStops(n) THEN "Exited" ELSE "Recv"

\* RadioHardwareConfig::exit_rx_thread.
ExitRxThread(n) == join_rx_thread' = [join_rx_thread EXCEPT ![n] = TRUE]

Goto(t, l) == pc' = [pc EXCEPT ![t] = l]

Init ==
    /\ pc = [t \in Threads |->
               CASE t = "mob_main" -> "Epoch"
                 [] t = "bs_main"  -> "Slot"
                 [] t = "bs_tx"    -> "Idle"
                 [] OTHER          -> "Recv"]
    /\ mutex = [m \in Mutexes |-> Free]
    /\ modem = [m \in Mutexes |-> [alive |-> TRUE, alloc |-> FullBand]]
    /\ new_alloc = [n \in Nodes |-> FullBand]
    /\ hardened \in BOOLEAN
    /\ air = <<>>
    /\ join_rx_thread = [n \in Nodes |-> FALSE]
    /\ plan = <<>>
    /\ epochs = 0 /\ bursts = 0

-----------------------------------------------------------------------------
(* recreate_modem (RadioHardwareConfig.cc:1124-1170), called by mob_main   *)
(* and, from mcCallback, by bs_rx: destroy and create the object under its *)
(* mutex.  The basestation first switches fgprops to the hardened FEC      *)
(* (lines 1131-1138; hardened starts as rc.hardened).                       *)

\* Mutant: recreate_modem without the lock.
RecLockSkipped(t) ==
    /\ pc[t] = "RecLock"
    /\ hardened' = (hardened \/ NodeOf[t] = "bs")
    /\ Goto(t, "RecDestroy")
    /\ UNCHANGED <<mutex, modem, new_alloc, air, join_rx_thread, plan, epochs, bursts>>

RecLock(t) ==
    /\ pc[t] = "RecLock" /\ mutex[GuardOf[t]] = Free
    /\ hardened' = (hardened \/ NodeOf[t] = "bs")
    /\ mutex' = [mutex EXCEPT ![GuardOf[t]] = t]
    /\ Goto(t, "RecDestroy")
    /\ UNCHANGED <<modem, new_alloc, air, join_rx_thread, plan, epochs, bursts>>

RecDestroy(t) ==
    /\ pc[t] = "RecDestroy"
    /\ modem' = [modem EXCEPT ![GuardOf[t]].alive = FALSE]
    /\ Goto(t, "RecCreate")
    /\ UNCHANGED <<mutex, new_alloc, hardened, air, join_rx_thread, plan, epochs, bursts>>

RecCreate(t) ==
    /\ pc[t] = "RecCreate"
    /\ modem' = [modem EXCEPT ![GuardOf[t]] =
                    [alive |-> TRUE, alloc |-> new_alloc[NodeOf[t]]]]
    /\ Goto(t, "RecUnlock")
    /\ UNCHANGED <<mutex, new_alloc, hardened, air, join_rx_thread, plan, epochs, bursts>>

\* After the unlock mob_main goes on with its branch, bs_rx returns from
\* mcCallback to the exit test of its loop.
RecUnlock(t) ==
    /\ pc[t] = "RecUnlock"
    /\ mutex' = [mutex EXCEPT ![GuardOf[t]] = Free]
    /\ Goto(t, IF t = "mob_main" THEN "Plan" ELSE AfterRx("bs"))
    /\ UNCHANGED <<modem, new_alloc, hardened, air, join_rx_thread, plan, epochs, bursts>>

-----------------------------------------------------------------------------
(* mob_main: the epoch loop of main.cc:265-483 on node 1.                  *)

\* while(app.isContinuing()): the slots of an epoch (their MC bursts do not
\* touch the OFDMA objects), then the anti-jam branch.
MobEpoch ==
    /\ pc["mob_main"] = "Epoch" /\ epochs < MaxEpochs
    /\ \E p \in Plans : plan' = p
    /\ Goto("mob_main", "Plan")
    /\ UNCHANGED <<mutex, modem, new_alloc, hardened, air, join_rx_thread, epochs, bursts>>

\* The next step of the branch: txMCAllocBurst puts the allocation on the
\* air; an install copies it into new_alloc (unlocked) and calls
\* recreate_modem.
MobPlanStep ==
    /\ pc["mob_main"] = "Plan" /\ plan # <<>>
    /\ LET s == Head(plan) IN
       IF s.op = "send"
       THEN /\ air' = Append(air, s.alloc)
            /\ UNCHANGED <<pc, new_alloc>>
       ELSE /\ new_alloc' = [new_alloc EXCEPT !["mobile"] = s.alloc]
            /\ Goto("mob_main", "RecLock")
            /\ UNCHANGED air
    /\ plan' = Tail(plan)
    /\ UNCHANGED <<mutex, modem, hardened, join_rx_thread, epochs, bursts>>

\* The end of the epoch (main.cc:479-482): on a console termination
\* exit_rx_thread sets join_rx_thread and the loop ends; otherwise the loop
\* ends when the run time is over.
MobEpochEnd ==
    /\ pc["mob_main"] = "Plan" /\ plan = <<>>
    /\ epochs' = epochs + 1
    /\ \/ /\ ExitRxThread("mobile")
          /\ Goto("mob_main", "Join")
       \/ /\ Goto("mob_main", IF epochs + 1 < MaxEpochs THEN "Epoch" ELSE "Join")
          /\ UNCHANGED join_rx_thread
    /\ UNCHANGED <<mutex, modem, new_alloc, hardened, air, plan, bursts>>

\* pthread_join(rx_task_thread) (main.cc:488).
MainJoin(n) ==
    /\ pc[MainOf[n]] = "Join" /\ pc[RxOf[n]] = "Exited"
    /\ Goto(MainOf[n], "Done")
    /\ UNCHANGED <<mutex, modem, new_alloc, hardened, air, join_rx_thread, plan, epochs, bursts>>

-----------------------------------------------------------------------------
(* mob_rx: run_ofdma_rx (RadioTaskManager.cc:995-1083).  received_new_alloc *)
(* is set only by an OFDMA NEW_ALLOC frame, which no basestation sends     *)
(* (txOFDMAAllocBurst has no caller), so the recreate at line 1047 never   *)
(* runs.                                                                   *)

\* recv() and its error check: an error other than overflow returns.
MobRecv ==
    /\ pc["mob_rx"] = "Recv"
    /\ \/ Goto("mob_rx", "Lock")
       \/ Goto("mob_rx", "Exited")
    /\ UNCHANGED <<mutex, modem, new_alloc, hardened, air, join_rx_thread, plan, epochs, bursts>>

MobRxLock ==
    /\ pc["mob_rx"] = "Lock" /\ mutex["sync"] = Free
    /\ mutex' = [mutex EXCEPT !["sync"] = "mob_rx"]
    /\ Goto("mob_rx", "Exec")
    /\ UNCHANGED <<modem, new_alloc, hardened, air, join_rx_thread, plan, epochs, bursts>>

\* ofdmflexframesync_execute over the samples; its data frames change no
\* state modelled here.
MobExec ==
    /\ pc["mob_rx"] = "Exec"
    /\ Goto("mob_rx", "Unlock")
    /\ UNCHANGED <<mutex, modem, new_alloc, hardened, air, join_rx_thread, plan, epochs, bursts>>

MobRxUnlock ==
    /\ pc["mob_rx"] = "Unlock"
    /\ mutex' = [mutex EXCEPT !["sync"] = Free]
    /\ Goto("mob_rx", AfterRx("mobile"))
    /\ UNCHANGED <<modem, new_alloc, hardened, air, join_rx_thread, plan, epochs, bursts>>

-----------------------------------------------------------------------------
(* bs_main and bs_tx: the u4 slots of the basestation, each an OFDMA_DATA  *)
(* burst thread (RadioTaskManager.cc:392-410, 502-515) running             *)
(* txOFDMAFrameBurst (RadioHardwareConfig.cc:1916-2059).                   *)

\* Mutant: the slot loop runs one slot too many.
BsSlotOffByOne ==
    /\ pc["bs_main"] = "Slot"
    /\ IF bursts <= MaxBursts
       THEN pc' = [pc EXCEPT !["bs_main"] = "JoinTx", !["bs_tx"] = "Lock"]
       ELSE Goto("bs_main", "Join")
    /\ UNCHANGED <<mutex, modem, new_alloc, hardened, air, join_rx_thread, plan, epochs, bursts>>

BsSlot ==
    /\ pc["bs_main"] = "Slot"
    /\ IF bursts < MaxBursts
       THEN pc' = [pc EXCEPT !["bs_main"] = "JoinTx", !["bs_tx"] = "Lock"]
       ELSE Goto("bs_main", "Join")
    /\ UNCHANGED <<mutex, modem, new_alloc, hardened, air, join_rx_thread, plan, epochs, bursts>>

\* doTask joins the burst thread; at the end of an epoch a console
\* termination sets join_rx_thread and ends the loop.
BsJoinTx ==
    /\ pc["bs_main"] = "JoinTx" /\ pc["bs_tx"] = "Done"
    /\ bursts' = bursts + 1
    /\ \/ /\ pc' = [pc EXCEPT !["bs_main"] = "Slot", !["bs_tx"] = "Idle"]
          /\ UNCHANGED join_rx_thread
       \/ /\ pc' = [pc EXCEPT !["bs_main"] = "Join", !["bs_tx"] = "Idle"]
          /\ ExitRxThread("bs")
    /\ UNCHANGED <<mutex, modem, new_alloc, hardened, air, plan, epochs>>

\* gen_mutex.lock() and gen = ofdma_fg_default (lines 1938-1945).
TxLock ==
    /\ pc["bs_tx"] = "Lock" /\ mutex["gen"] = Free
    /\ mutex' = [mutex EXCEPT !["gen"] = "bs_tx"]
    /\ Goto("bs_tx", "Send")
    /\ UNCHANGED <<modem, new_alloc, hardened, air, join_rx_thread, plan, epochs, bursts>>

\* The frames are modulated with gen and sent (lines 1946-2058).
TxSend ==
    /\ pc["bs_tx"] = "Send"
    /\ Goto("bs_tx", "Unlock")
    /\ UNCHANGED <<mutex, modem, new_alloc, hardened, air, join_rx_thread, plan, epochs, bursts>>

TxUnlock ==
    /\ pc["bs_tx"] = "Unlock"
    /\ mutex' = [mutex EXCEPT !["gen"] = Free]
    /\ Goto("bs_tx", "Done")
    /\ UNCHANGED <<modem, new_alloc, hardened, air, join_rx_thread, plan, epochs, bursts>>

-----------------------------------------------------------------------------
(* bs_rx: run_mc_rx (RadioTaskManager.cc:900-995) with mcCallback         *)
(* (RadioHardwareConfig.cc:158-286).  mcrx is never recreated and is used *)
(* by this thread only, so Execute needs no lock.                          *)

BsRecv ==
    /\ pc["bs_rx"] = "Recv"
    /\ \/ Goto("bs_rx", "Exec")
       \/ Goto("bs_rx", "Exited")
    /\ UNCHANGED <<mutex, modem, new_alloc, hardened, air, join_rx_thread, plan, epochs, bursts>>

\* mcrx->Execute: no allocation frame in these samples, a NEW_ALLOC frame
\* whose payload check fails, or one that mcCallback copies into new_alloc
\* before it calls recreate_modem.
BsExec ==
    /\ pc["bs_rx"] = "Exec"
    /\ \/ /\ Goto("bs_rx", AfterRx("bs"))
          /\ UNCHANGED <<air, new_alloc, hardened>>
       \/ /\ air # <<>> /\ Lossy
          /\ air' = Tail(air)
          /\ Goto("bs_rx", AfterRx("bs"))
          /\ UNCHANGED <<new_alloc, hardened>>
       \/ /\ air # <<>>
          /\ air' = Tail(air)
          /\ new_alloc' = [new_alloc EXCEPT !["bs"] = Head(air)]
          /\ Goto("bs_rx", "RecLock")
    /\ UNCHANGED <<mutex, modem, hardened, join_rx_thread, plan, epochs, bursts>>

-----------------------------------------------------------------------------
Recreators == {"mob_main", "bs_rx"}

\* The steps that take a mutex, and every other step of a thread.
Acquire(t) ==
    \/ t \in Recreators /\ RecLock(t)
    \/ t = "mob_rx" /\ MobRxLock
    \/ t = "bs_tx" /\ TxLock

Local(t) ==
    \/ t \in Recreators /\ (RecDestroy(t) \/ RecCreate(t) \/ RecUnlock(t))
    \/ t = "mob_main" /\ (MobEpoch \/ MobPlanStep \/ MobEpochEnd \/ MainJoin("mobile"))
    \/ t = "mob_rx" /\ (MobRecv \/ MobExec \/ MobRxUnlock)
    \/ t = "bs_main" /\ (BsSlot \/ BsJoinTx \/ MainJoin("bs"))
    \/ t = "bs_tx" /\ (TxSend \/ TxUnlock)
    \/ t = "bs_rx" /\ (BsRecv \/ BsExec)

\* Both processes have returned from main.
Terminated ==
    /\ pc["mob_main"] = "Done" /\ pc["bs_main"] = "Done"
    /\ UNCHANGED vars

Next == (\E t \in Threads : Acquire(t) \/ Local(t)) \/ Terminated

\* Every thread is scheduled (weak fairness on its steps).  A mutex is free
\* again after every burst and every loop pass of an rx thread (the rx
\* loops block in recv between two passes), so a waiter is not passed over
\* forever: strong fairness on the acquisitions.
Spec == Init /\ [][Next]_vars
        /\ \A t \in Threads : WF_vars(Local(t)) /\ SF_vars(Acquire(t))
-----------------------------------------------------------------------------
Labels == {"Epoch", "Plan", "RecLock", "RecDestroy", "RecCreate", "RecUnlock",
           "Join", "Done", "Recv", "Lock", "Exec", "Unlock", "Exited",
           "Slot", "JoinTx", "Idle", "Send"}

TypeOK ==
    /\ pc \in [Threads -> Labels]
    /\ mutex \in [Mutexes -> Threads \cup {Free}]
    /\ modem \in [Mutexes -> [alive : BOOLEAN, alloc : Allocs]]
    /\ new_alloc \in [Nodes -> Allocs]
    /\ hardened \in BOOLEAN
    /\ air \in Seq(Allocs)
    /\ join_rx_thread \in [Nodes -> BOOLEAN]
    /\ plan \in Seq([op : {"send", "install"}, alloc : Allocs])
    /\ epochs \in 0 .. MaxEpochs /\ bursts \in 0 .. MaxBursts

\* The abstract view of a modem object: the thread in its critical section
\* that executes it, and its allocation while it exists.
NoUser == "none"
NoModem == "destroyed"
UserOf(m) ==
    IF m = "sync" THEN IF pc["mob_rx"] = "Exec" THEN "mob_rx" ELSE NoUser
    ELSE IF pc["bs_tx"] = "Send" THEN "bs_tx" ELSE NoUser
AllocOf(m) == IF modem[m].alive THEN modem[m].alloc ELSE NoModem

SyncAccess == INSTANCE ModemAccess
    WITH Users <- {"mob_rx"}, user <- UserOf("sync"), alloc <- AllocOf("sync")
GenAccess == INSTANCE ModemAccess
    WITH Users <- {"bs_tx"}, user <- UserOf("gen"), alloc <- AllocOf("gen")

\* sync_mutex and gen_mutex make ofdma_fs_default and ofdma_fg_default
\* behave as ModemAccess says: run_ofdma_rx never executes the mobile's
\* synchroniser, and txOFDMAFrameBurst never modulates with the
\* basestation's generator, while recreate_modem (from the anti-jam branch
\* of main.cc or from mcCallback) has destroyed it or is about to.
ModemsRefineAccess == SyncAccess!Spec /\ GenAccess!Spec

\* Both processes get past pthread_join(rx_task_thread): every recreate_modem
\* gets its mutex, every burst thread is joined, and each rx loop sees its
\* run time end or join_rx_thread and returns.
ThreadsTerminate == <>(pc["mob_main"] = "Done" /\ pc["bs_main"] = "Done")
====
