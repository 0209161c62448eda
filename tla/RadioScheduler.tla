---------------------------- MODULE RadioScheduler ----------------------------
(***************************************************************************)
(* The life of the RadioScheduler object of main.cc: the constructor       *)
(* sizes the FDD, FH and U4 tables from the net size and the measured      *)
(* timing (or exits), main.cc then calls calcU4Schedule once, and the      *)
(* anti-jam loop resizes the U4 schedule with setU4ScheduleSize.  The      *)
(* slot tables themselves are the operators of RadioSchedule.              *)
(***************************************************************************)
EXTENDS Integers, RadioSchedule

CONSTANTS
    NetSizes,     \* num_nodes_in_net: RadioConfig rejects fewer than 2
    Dwells,       \* tau_rx_dwell (us), set by sample rate and burst length
    Tunes,        \* tau_tune = the radio model's retune delay (us)
    U4Sizes       \* the sizes main.cc passes to setU4ScheduleSize

VARIABLES
    node_is_basestation, num_nodes_in_net, tau_rx_dwell, tau_tune,
    fdd_task_sched_size, fh_task_sched_size,
    u4_task_sched_size, u4_task_sched,
    status   \* "init", "built", "exited" (a failed timing check)

vars == <<node_is_basestation, num_nodes_in_net, tau_rx_dwell, tau_tune,
          fdd_task_sched_size, fh_task_sched_size, u4_task_sched_size,
          u4_task_sched, status>>

Init ==
    /\ node_is_basestation \in BOOLEAN
    /\ num_nodes_in_net \in NetSizes
    /\ tau_rx_dwell \in Dwells
    /\ tau_tune \in Tunes
    /\ fdd_task_sched_size = 0 /\ fh_task_sched_size = 0
    /\ u4_task_sched_size = 0 /\ u4_task_sched = <<>>
    /\ status = "init"

\* The constructor: the FDD test and sizing, then the FH test (which reads
\* the FDD net period) and sizing, then 40 idle U4 entries.
RadioSchedulerCtor ==
    LET N == num_nodes_in_net
        fdd == FddNet(N, tau_rx_dwell)
        fh  == FhNet(N, tau_rx_dwell, tau_tune)
    IN
    /\ status = "init"
    /\ IF ~FddFeasible(N, tau_rx_dwell) \/ ~FhCheckPasses(N, tau_rx_dwell, tau_tune)
       THEN /\ status' = "exited"
            /\ UNCHANGED <<fdd_task_sched_size, fh_task_sched_size,
                           u4_task_sched_size, u4_task_sched>>
       ELSE /\ fdd_task_sched_size' = SchedSize(N, fdd)
            /\ fh_task_sched_size' = SchedSize(N, fh)
            /\ u4_task_sched_size' = U4_ALLOCATED
            /\ u4_task_sched' = [i \in 0 .. U4_ALLOCATED - 1 |-> Task("IDLE", "IDLE")]
            /\ status' = "built"
    /\ UNCHANGED <<node_is_basestation, num_nodes_in_net, tau_rx_dwell, tau_tune>>

\* calcU4Schedule, once, right after construction (main.cc:183).
CalcU4Schedule ==
    /\ status = "built"
    /\ u4_task_sched' = [i \in 0 .. U4_ALLOCATED - 1 |->
                           IF i < u4_task_sched_size
                           THEN CalcU4(node_is_basestation, u4_task_sched_size)[i]
                           ELSE u4_task_sched[i]]
    /\ status' = "running"
    /\ UNCHANGED <<node_is_basestation, num_nodes_in_net, tau_rx_dwell, tau_tune,
                   fdd_task_sched_size, fh_task_sched_size, u4_task_sched_size>>

\* setU4ScheduleSize, from the anti-jam branches of the epoch loop.
SetU4ScheduleSize(new_size) ==
    /\ status = "running"
    /\ u4_task_sched_size' = U4SizeAfterSet(new_size)
    /\ UNCHANGED <<node_is_basestation, num_nodes_in_net, tau_rx_dwell, tau_tune,
                   fdd_task_sched_size, fh_task_sched_size, u4_task_sched, status>>

Next ==
    \/ RadioSchedulerCtor
    \/ CalcU4Schedule
    \/ \E n \in U4Sizes : SetU4ScheduleSize(n)

Spec == Init /\ [][Next]_vars

-----------------------------------------------------------------------------
\* The number of whole net periods a schedule table of this size holds.
Periods(size) == size \div (num_nodes_in_net - 1)
====
