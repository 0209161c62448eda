------------------------------- MODULE Startup -------------------------------
(***************************************************************************)
(* The start-up sequence of main.cc (lines 114-183) and the FH part of its *)
(* epoch loop: RadioConfig rc(argc, argv) parses the command line and the  *)
(* configuration file, the FreqTableGenerator constructor builds the RF    *)
(* and DSP                                                                  *)
(* frequency tables, the RadioScheduler constructor sizes the slot tables, *)
(* FhSeqGenerator is constructed from rs.getFhTaskSchedSize(),             *)
(* ftg.getRfTableSize() and ftg.getDspTableSize(), makeSeq runs once, and  *)
(* calcU4Schedule follows.  In the loop every FH epoch runs makeSeq then   *)
(* scrubSeq, and the anti-jam branches resize the U4 schedule.             *)
(*                                                                         *)
(* The four components are the modules RadioConfig, FreqTable,            *)
(* RadioScheduler and FhSeq, instantiated here.  ftg is given rc's         *)
(* node_is_basestation and prohibited pairs, rs its node_is_basestation    *)
(* and num_nodes_in_net; their other inputs (band, separation, window,     *)
(* dwell and tune times) are chosen by the modules' Init.  Every           *)
(* constructor may end the process (exit).                                 *)
(***************************************************************************)
EXTENDS Integers, Sequences

CONSTANTS
    CmdLines,       \* argv: sequences of getopt results
    ConfigFiles,    \* the configuration file config_read_file reads
    FreqMins, FreqMaxs, Separations, WindowSmalls, WindowMedium,
    UIntWidth,                              \* FreqTable's inputs
    Dwells, Tunes, U4Sizes,                 \* RadioScheduler's inputs
    Algorithms,     \* FhSeqAlgorithm given to the constructor (main: ALG_A)
    NoObject        \* model value: fsg before its constructor

VARIABLES
    stage,   \* "rc", "ftg", "rs", "fsg", "makeseq" (start-up), "running",
             \* "exited"
    node_is_basestation,
    \* FreqTableGenerator ftg
    fh_freq_min, fh_freq_max, tx2rx_freq_separation, prohibited,
    fh_window_small, uhd_rx_bug_is_present, fh_table_rf, dsp_size, dsp_table,
    ft_status,
    \* RadioScheduler rs
    num_nodes_in_net, tau_rx_dwell, tau_tune, fdd_task_sched_size,
    fh_task_sched_size, u4_task_sched_size, u4_task_sched, rs_status,
    \* FhSeqGenerator fsg
    seq_algorithm, num_seq_steps, rf_table_size, dsp_table_size,
    rf_idx_table, dsp_idx_table, rf_seq_state, dsp_seq_state, seq_ctr,
    rf_seq_state2idx, dsp_seq_state2idx,
    pc

RC == INSTANCE RadioConfig
\* Until rc is built, ftg's ranges and rs's net size are not yet known;
\* RcCtor writes rc's values into them.
FT == INSTANCE FreqTable WITH status <- ft_status, RangeLists <- {<<>>}
RS == INSTANCE RadioScheduler WITH status <- rs_status, NetSizes <- {2}
FS == INSTANCE FhSeq WITH StepCounts <- {}, RfSizes <- {}, DspSizes <- {}

ftVars  == <<fh_freq_min, fh_freq_max, tx2rx_freq_separation, prohibited,
             fh_window_small, uhd_rx_bug_is_present, fh_table_rf, dsp_size,
             dsp_table, ft_status>>
rsVars  == <<num_nodes_in_net, tau_rx_dwell, tau_tune, fdd_task_sched_size,
             fh_task_sched_size, u4_task_sched_size, u4_task_sched, rs_status>>
fsgVars == <<seq_algorithm, num_seq_steps, rf_table_size, dsp_table_size,
             rf_idx_table, dsp_idx_table, rf_seq_state, dsp_seq_state, seq_ctr,
             rf_seq_state2idx, dsp_seq_state2idx, pc>>
vars == <<stage, node_is_basestation, ftVars, rsVars, fsgVars>>

\* What of rc a later constructor reads, or the exit of the constructor.
RcResult(r) ==
    IF r.status = "ok"
    THEN [status |-> "ok", node_is_basestation |-> r.node_is_basestation,
          prohibited |-> r.prohibited, num_nodes_in_net |-> r.num_nodes_in_net]
    ELSE [status |-> r.status, node_is_basestation |-> FALSE,
          prohibited |-> <<>>, num_nodes_in_net |-> 0]

RcResults == {RcResult(RC!RadioConfigCtor(a, f)) : a \in CmdLines, f \in ConfigFiles}

Init ==
    /\ stage = "rc"
    /\ FT!Init
    /\ RS!Init
    /\ FS!Init   \* fsg is declared further down main.cc

\* RadioConfig rc(argc, argv) (main.cc:114); -h, a read error or a
\* failed validation ends the process.
RcCtor ==
    /\ stage = "rc"
    /\ \E r \in RcResults :
          IF r.status = "ok"
          THEN /\ stage' = "ftg"
               /\ node_is_basestation' = r.node_is_basestation
               /\ prohibited' = r.prohibited
               /\ num_nodes_in_net' = r.num_nodes_in_net
          ELSE /\ stage' = "exited"
               /\ UNCHANGED <<node_is_basestation, prohibited, num_nodes_in_net>>
    /\ UNCHANGED <<fh_freq_min, fh_freq_max, tx2rx_freq_separation,
                   fh_window_small, uhd_rx_bug_is_present, fh_table_rf, dsp_size,
                   dsp_table, ft_status, tau_rx_dwell, tau_tune, fdd_task_sched_size,
                   fh_task_sched_size, u4_task_sched_size, u4_task_sched, rs_status,
                   fsgVars>>

\* FreqTableGenerator ftg(...) (main.cc:147).
FtgCtor ==
    /\ stage = "ftg"
    /\ FT!Construct
    /\ stage' = IF ft_status' = "failed" THEN "exited" ELSE "rs"
    /\ UNCHANGED <<rsVars, fsgVars>>

\* RadioScheduler rs(...) (main.cc:156).
RsCtor ==
    /\ stage = "rs"
    /\ RS!RadioSchedulerCtor
    /\ stage' = IF rs_status' = "exited" THEN "exited" ELSE "fsg"
    /\ UNCHANGED <<ftVars, fsgVars>>

\* FhSeqGenerator fsg(alg, rs.getFhTaskSchedSize(), ftg.getRfTableSize(),
\* ftg.getDspTableSize(), ...) and the call of makeSeq (main.cc:172-175).
FsgCtor ==
    /\ stage = "fsg"
    /\ \E alg \in Algorithms :
          FS!FhSeqGenerator(alg, fh_task_sched_size, Len(fh_table_rf), dsp_size)
    /\ stage' = "makeseq"
    /\ UNCHANGED <<node_is_basestation, ftVars, rsVars>>

\* A step of makeSeq at start-up (no scrubSeq follows it), or of makeSeq
\* and scrubSeq in an FH epoch of the loop.
FhSeqStep ==
    /\ \/ stage = "makeseq" /\ pc # "scrub"
       \/ stage = "running"
    /\ FS!FsgStep
    /\ UNCHANGED <<stage, node_is_basestation, ftVars, rsVars>>

\* rs.calcU4Schedule() once makeSeq has returned (main.cc:183).
CalcU4 ==
    /\ stage = "makeseq" /\ pc = "scrub"
    /\ RS!CalcU4Schedule
    /\ stage' = "running"
    /\ UNCHANGED <<ftVars, fsgVars>>

\* rs.setU4ScheduleSize from the anti-jam branches of the epoch loop.
SetU4 ==
    /\ stage = "running"
    /\ \E n \in U4Sizes : RS!SetU4ScheduleSize(n)
    /\ UNCHANGED <<stage, ftVars, fsgVars>>

Next == RcCtor \/ FtgCtor \/ RsCtor \/ FsgCtor \/ FhSeqStep \/ CalcU4 \/ SetU4

\* main.cc runs on one thread: each constructor returns and each makeSeq
\* call runs to its end before the loop goes on.
Spec == Init /\ [][Next]_vars /\ WF_vars(Next) /\ WF_vars(FhSeqStep)

-----------------------------------------------------------------------------
TypeOK ==
    /\ stage \in {"rc", "ftg", "rs", "fsg", "makeseq", "running", "exited"}
    /\ stage \in {"makeseq", "running"} => FS!TypeOK

\* No hop of the RF table FreqTableGenerator hands to the radio puts its
\* tx or rx window on a prohibited range (spec 4.2).
RfWindowsClearOfProhibited == FT!RfWindowsClearOfProhibited

\* With the table sizes ftg really produces (a one-entry DSP table
\* included), the sweeps main.cc can use leave makeSeq with every index in
\* range, and the scrubbed table of every algorithm is in range.
SeqIndicesInRange == FS!SeqIndicesInRange

\* With the sizes ftg and rs really produce, ALG_A/ALG_B sequences visit
\* every (rf, dsp) pair once per rf_size * dsp_size slots.
HopsCoverAllPairs == FS!HopsCoverAllPairs

\* The help text of RadioConfig: an option given on the command line wins
\* over the configuration file and the default, for every setting and
\* every order of options, whichever file is read (-C or the default).
\* The constructor is a function of its inputs, so the check is over all of
\* them, once rc has been built.
RcRespectsCommandLine ==
    \A a \in CmdLines, f \in ConfigFiles :
        LET r == RC!RadioConfigCtor(a, f)
        IN  r.status = "ok" => \A k \in RC!Keys : r.src[k] = RC!ReferenceSource(a, f, k)

CommandLineOverrides == stage # "rc" => RcRespectsCommandLine

\* Whatever tables the two constructors accept, the makeSeq call at
\* main.cc:175 returns and the radio reaches its epoch loop.
ReachesEpochLoop == (stage = "makeseq") ~> (stage = "running")
====
