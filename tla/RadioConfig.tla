------------------------------ MODULE RadioConfig ------------------------------
(***************************************************************************)
(* The RadioConfig constructor (src_reusable/RadioConfig.cc:21-451), a     *)
(* pure function of the command line and the configuration file:          *)
(*   1. the defaults;                                                      *)
(*   2. the getopt_long loop, in which -h exits with EXIT_SUCCESS, -C      *)
(*      reads the named file at once (exit on a read error), an unknown    *)
(*      option exits, and an option with a file setting clears that        *)
(*      setting's lookup_ flag;                                            *)
(*   3. the read of the default file when no -C was given;                 *)
(*   4. the lookups, a setting with a lookup_ flag read only while the     *)
(*      flag is set;                                                       *)
(*   5. the validation of fh_prohibited_ranges, node_id and               *)
(*      network_node_id.                                                   *)
(*                                                                         *)
(* A setting's value is abstracted to where it came from: "default",       *)
(* "cli" or "file".  The values later objects compute with are kept:       *)
(* node_is_basestation, the prohibited pairs, node_id and the net, with    *)
(* the unsigned char casts of the ids.                                     *)
(*                                                                         *)
(* A command line is a sequence of getopt results (the option letters;     *)
(* "?" is getopt's answer to an unknown option or a missing argument).     *)
(* A configuration file is a record: whether config_read_file succeeds,    *)
(* the settings of step 4 it holds, node_is_basestation (0 or 1), the      *)
(* fh_prohibited_ranges list, node_id and the network_node_id list (an     *)
(* absent list is <<>>, an absent node_id the default 1).                  *)
(***************************************************************************)
EXTENDS Integers, Sequences, FiniteSets

\* The settings the command line and the file can both give, each guarded
\* by its lookup_ flag (RadioConfig.hh:69-77).
LookupKeys == {"run_time", "app_log_file", "alloc_log_file", "rf_log_file",
               "packet_log_file", "rf_gain_rx", "rf_gain_tx", "anti_jam",
               "normal_freq"}

\* The settings only the command line gives.
CliOnlyKeys == {"debug", "slow", "ofdma_tx_window", "mc_tx_window",
                "manual_mode", "sba", "software_backoff"}

Keys == LookupKeys \cup CliOnlyKeys

\* The option letter of each setting in the getopt switch.
OptKey == [a |-> "app_log_file", l |-> "rf_log_file", i |-> "alloc_log_file",
           j |-> "packet_log_file", f |-> "normal_freq", t |-> "rf_gain_tx",
           r |-> "rf_gain_rx", n |-> "anti_jam", e |-> "run_time",
           d |-> "debug", s |-> "slow", y |-> "ofdma_tx_window",
           z |-> "mc_tx_window", m |-> "manual_mode", b |-> "sba",
           g |-> "software_backoff"]

Options == DOMAIN OptKey \cup {"h", "C", "?"}

\* The defaults and the lookup_ flags set before the loop.
Defaults ==
    [status |-> "running", override |-> FALSE,
     src |-> [k \in Keys |-> "default"],
     lookup |-> [k \in LookupKeys |-> TRUE]]

\* One pass of the getopt switch.
GetoptCase(st, opt, file) ==
    CASE opt = "h" -> [st EXCEPT !.status = "exit_success"]
      [] opt = "C" -> IF file.readable THEN [st EXCEPT !.override = TRUE]
                      ELSE [st EXCEPT !.status = "exit_failure"]
      [] opt = "?" -> [st EXCEPT !.status = "exit_failure"]
      [] OTHER     -> LET k == OptKey[opt] IN
                      [st EXCEPT !.src[k] = "cli",
                                 !.lookup = IF k \in LookupKeys
                                            THEN [@ EXCEPT ![k] = FALSE] ELSE @]

\* while (1) { c = getopt_long(...); if (c == -1) break; switch (c) ... }
RECURSIVE GetoptLoop(_, _, _)
GetoptLoop(st, argv, file) ==
    IF argv = <<>> \/ st.status # "running" THEN st
    ELSE GetoptLoop(GetoptCase(st, Head(argv), file), Tail(argv), file)

\* The default file is read when no -C was given.
ReadDefaultFile(st, file) ==
    IF st.status = "running" /\ ~st.override /\ ~file.readable
    THEN [st EXCEPT !.status = "exit_failure"] ELSE st

\* Mutant: rf_gain_tx is read from the file whatever its lookup_ flag.
LookupIgnoringRfGainTxFlag(st, file) ==
    [st EXCEPT !.src = [k \in Keys |->
        IF k \in LookupKeys /\ (st.lookup[k] \/ k = "rf_gain_tx") /\ k \in file.keys
        THEN "file" ELSE st.src[k]]]

\* if (lookup_x) { if (config_lookup_...(&cfg, "x", &tmp)) x = tmp; }
Lookup(st, file) ==
    [st EXCEPT !.src = [k \in Keys |->
        IF k \in LookupKeys /\ st.lookup[k] /\ k \in file.keys
        THEN "file" ELSE st.src[k]]]

\* node_id = (unsigned char)itmp and network_node_id.push_back((unsigned char)itmp)
UChar(i) == i % 256

\* Consecutive values of the list, as the iterator loop pairs them.
Pairs(list) == [k \in 1 .. (Len(list) \div 2) |-> <<list[2 * k - 1], list[2 * k]>>]

\* The validation: a list of at least one pair must have even length;
\* node_id in [1, 99]; at least two net entries, each in [0, 99]
\* (*it < 0 is never true of an unsigned char), one of them node_id.
Validate(st, file) ==
    LET nranges == Len(file.ranges) \div 2
        id      == UChar(file.node_id)
        net     == [k \in DOMAIN file.net |-> UChar(file.net[k])]
        ids     == {net[k] : k \in DOMAIN net}
        ok      == /\ ~(nranges > 0 /\ Len(file.ranges) % 2 = 1)
                   /\ id >= 1 /\ id <= 99
                   /\ Len(net) >= 2
                   /\ \A n \in ids : n <= 99
                   /\ id \in ids
    IN  [status |-> IF ok THEN "ok" ELSE "exit_failure",
         src |-> st.src,
         node_is_basestation |-> file.basestation = 1,
         prohibited |-> Pairs(file.ranges),
         node_id |-> id,
         nodes_in_net |-> net,
         num_nodes_in_net |-> Len(net)]

\* The constructor; a process that exits has only its status.
RadioConfigCtor(argv, file) ==
    LET parsed == ReadDefaultFile(GetoptLoop(Defaults, argv, file), file)
    IN  IF parsed.status # "running" THEN [status |-> parsed.status]
        ELSE Validate(Lookup(parsed, file), file)

-----------------------------------------------------------------------------
\* The help text (showUserPrefsHelp): "all options specified on the command
\* line override any default setting or any setting in a configuration
\* file".  The reference: a setting given on the command line comes from
\* it; otherwise from the file if the file has it and the setting is read
\* from files; otherwise it keeps its default.
ReferenceSource(argv, file, k) ==
    IF \E i \in DOMAIN argv : argv[i] \in DOMAIN OptKey /\ OptKey[argv[i]] = k
    THEN "cli"
    ELSE IF k \in LookupKeys /\ k \in file.keys THEN "file" ELSE "default"
====
