------------------------------ MODULE MC_Startup ------------------------------
(***************************************************************************)
(* Startup instantiated for TLC.  The prohibited-range lists are          *)
(* sequences, which a cfg cannot write; they are defined here.             *)
(***************************************************************************)
EXTENDS Startup

LookupKeys == RC!LookupKeys

\* Command lines: none; -C alone and between two options; -h; an unknown
\* option before -t; -C then -h; and every option with a setting.
MCCmdLines == {<<>>, <<"C">>, <<"t", "C", "e">>, <<"h">>, <<"?", "t">>, <<"C", "h">>,
               <<"a", "l", "i", "j", "f", "t", "r", "n", "e", "d", "s", "y", "z",
                 "m", "b", "g">>}

\* fh_prohibited_ranges lists: none; one range that removes the windows
\* centred at 410-430 MHz; two ranges that remove a window at each end of
\* a 400-500 MHz band; the first range written end first; a lone value;
\* three values.
MCRanges == {<<>>, <<420, 430>>, <<405, 415, 465, 475>>, <<430, 420>>, <<420>>,
             <<405, 415, 465>>}

\* network_node_id lists for node 1 (or 257, which the cast makes 1): two
\* nodes, three, one, a net without node 1, 256 (the cast makes it 0, the
\* broadcast id), and node 1 twice.
MCNets == {<<1, 2>>, <<1, 2, 3>>, <<1>>, <<2, 3>>, <<1, 256>>, <<1, 1>>}

MCConfigFiles ==
    [readable : BOOLEAN, keys : {{}, LookupKeys}, basestation : {0, 1},
     ranges : MCRanges, node_id : {1, 257}, net : MCNets]

\* main.cc's command line and a readable file with the given ranges.
MCOneCmdLine == {<<>>}
MCNoRangeFiles ==
    [readable : {TRUE}, keys : {{}}, basestation : {0, 1}, ranges : {<<>>},
     node_id : {1}, net : {<<1, 2>>}]

\* the ten FhSeqAlgorithm values (FhSeqGenerator.h), and the one main.cc uses
MCAlgorithms == {"NONE", "ONE", "TOGGLE", "RESTART_SWEEP_RF", "RESTART_SWEEP_DSP",
                 "RESTART_SWEEP_RFDSP", "RESTART_SWEEP_DSPRF", "RESTART_ALG_A",
                 "RESTART_ALG_B", "TEST"}
MCAlgA       == {"RESTART_ALG_A"}
====
