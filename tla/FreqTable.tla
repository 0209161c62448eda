------------------------------ MODULE FreqTable ------------------------------
(***************************************************************************)
(* The FreqTableGenerator constructor (FreqTableGenerator.cc): the RF      *)
(* stage table of (rx, tx) hop frequencies and the DSP stage table of      *)
(* (rx, tx) offsets.  The constructor runs once, from inputs the           *)
(* configuration file and the radio model give; Init chooses them and one  *)
(* step builds both tables or takes the fatal exit.  Frequencies are whole *)
(* MHz (every constant of the code is a whole number of MHz), so the       *)
(* double arithmetic is exact here.                                        *)
(*                                                                         *)
(* num_windows_small and num_offsets are unsigned ints that the code may   *)
(* decrement below zero; they are kept modulo 2^UIntWidth.  The code's     *)
(* width is 32; TLC's integers stop at 2^31, so the cfgs use a smaller     *)
(* width: only whether the wrap happens matters to the properties.         *)
(***************************************************************************)
EXTENDS Integers, Sequences, FiniteSets

CONSTANTS
    FreqMins, FreqMaxs,   \* fh_freq_min, fh_freq_max (MHz)
    Separations,          \* tx2rx_freq_separation (MHz)
    RangeLists,           \* prohibited ranges: sequences of <<begin, end>>
    WindowSmalls,         \* fh_window_small (the sample rate, MHz)
    WindowMedium,         \* fh_window_medium: 20 MHz for N210 and X300
    UIntWidth             \* width of unsigned int in the model

VARIABLES
    node_is_basestation, fh_freq_min, fh_freq_max, tx2rx_freq_separation,
    prohibited, fh_window_small, uhd_rx_bug_is_present,
    fh_table_rf,       \* sequence of [rx |-> f, tx |-> f]
    dsp_size,          \* fh_table_dsp.freq_table_size
    dsp_table,         \* the entries written: index -> [rx, tx]
    status             \* "init", "built" or "failed" (the exit)

vars == <<node_is_basestation, fh_freq_min, fh_freq_max, tx2rx_freq_separation,
          prohibited, fh_window_small, uhd_rx_bug_is_present,
          fh_table_rf, dsp_size, dsp_table, status>>

UMod(x) == x % (2 ^ UIntWidth)

Init ==
    /\ node_is_basestation \in BOOLEAN
    /\ fh_freq_min \in FreqMins
    /\ fh_freq_max \in {f \in FreqMaxs : f >= fh_freq_min}
    /\ tx2rx_freq_separation \in Separations
    /\ prohibited \in RangeLists
    /\ fh_window_small \in WindowSmalls
    /\ uhd_rx_bug_is_present \in BOOLEAN
    /\ fh_table_rf = <<>> /\ dsp_size = 0 /\ dsp_table = <<>>
    /\ status = "init"

(***************************************************************************)
(* Stage 1: the centres of the medium windows across the band.  Stage 2:  *)
(* a centre is allowed when, for every prohibited range, its tx window and *)
(* its rx window (the tx window moved by the separation) both lie above    *)
(* the range or both lie below it.                                         *)
(***************************************************************************)
NumWindowsMedium == (fh_freq_max - fh_freq_min) \div WindowMedium
Half == WindowMedium \div 2
Centre(idx) == fh_freq_min + (idx + 1) * WindowMedium - Half

\* Mutant: only the tx window is tested against the range.
WinAllowedTxOnly(c) ==
    \A k \in 1 .. Len(prohibited) :
        LET p_begin == prohibited[k][1]  p_end == prohibited[k][2]
        IN  (c - Half >= p_end) \/ (c + Half <= p_begin)

WinAllowed(c) ==
    \A k \in 1 .. Len(prohibited) :
        LET p_begin == prohibited[k][1]  p_end == prohibited[k][2]
            sep == tx2rx_freq_separation
        IN  \/ (c - Half >= p_end /\ c - Half + sep >= p_end)
            \/ (c + Half <= p_begin /\ c + Half + sep <= p_begin)

Candidates == [i \in 1 .. NumWindowsMedium |-> Centre(i - 1)]

\* The table entry for a centre: the basestation receives above it.
Entry(c) ==
    IF node_is_basestation
    THEN [rx |-> c + tx2rx_freq_separation, tx |-> c]
    ELSE [rx |-> c, tx |-> c + tx2rx_freq_separation]

RfCentres ==
    IF prohibited = <<>> THEN Candidates ELSE SelectSeq(Candidates, WinAllowed)

\* The exit when prohibited ranges leave at most one window.
RfFails == prohibited # <<>> /\ Len(RfCentres) <= 1

(***************************************************************************)
(* The DSP table: num_windows_small slots, forced odd by the test          *)
(* (float)n/2.0 == n/2 (true exactly for even n), slot 0 at offset 0 and  *)
(* the loop idx = 1 .. num_offsets writing +idx*small and -idx*small.     *)
(* With the UHD rx tuning bug the rx offsets have the opposite sign.      *)
(***************************************************************************)
NumWindowsSmall == WindowMedium \div fh_window_small

DspLayout ==
    LET n == NumWindowsSmall
        off == n \div 2
    IN  IF n % 2 = 0 THEN [size |-> UMod(n - 1), offsets |-> UMod(off - 1)]
                     ELSE [size |-> n, offsets |-> off]

\* Indices the loop `for (idx = 1; idx < num_offsets + 1; idx++)` visits.
LoopIdx(off) == IF off < 1 THEN {} ELSE 1 .. UMod(off + 1) - 1

DspEntries(off) ==
    LET small == fh_window_small
        sgn == IF uhd_rx_bug_is_present THEN -1 ELSE 1
        lo == LoopIdx(off)
        hi == {i + off : i \in lo}
    IN  [j \in {0} \cup lo \cup hi |->
           IF j = 0 THEN [rx |-> 0, tx |-> 0]
           ELSE IF j \in lo THEN [rx |-> sgn * j * small, tx |-> j * small]
           ELSE [rx |-> -sgn * (j - off) * small, tx |-> -(j - off) * small]]

\* The whole constructor body after the multichannel check.
Construct ==
    /\ status = "init"
    /\ IF RfFails
       THEN /\ status' = "failed"
            /\ UNCHANGED <<fh_table_rf, dsp_size, dsp_table>>
       ELSE /\ fh_table_rf' = [i \in 1 .. Len(RfCentres) |-> Entry(RfCentres[i])]
            /\ dsp_size' = DspLayout.size
            /\ dsp_table' = DspEntries(DspLayout.offsets)
            /\ status' = "built"
    /\ UNCHANGED <<node_is_basestation, fh_freq_min, fh_freq_max,
                   tx2rx_freq_separation, prohibited, fh_window_small,
                   uhd_rx_bug_is_present>>

\* The constructor runs once; the tables are immutable afterwards, so the
\* model stops after this step.
Next == Construct

Spec == Init /\ [][Next]_vars /\ WF_vars(Construct)

-----------------------------------------------------------------------------
\* A window [c - Half, c + Half] overlaps the range [b, e).
Overlaps(c, r) == c - Half < r[2] /\ c + Half > r[1]

\* Spec 4.2: no hop of the RF table puts its tx window or its rx window on
\* a prohibited range, for either node role.
RfWindowsClearOfProhibited ==
    status = "built" =>
        \A i \in 1 .. Len(fh_table_rf), k \in 1 .. Len(prohibited) :
            /\ ~Overlaps(fh_table_rf[i].tx, prohibited[k])
            /\ ~Overlaps(fh_table_rf[i].rx, prohibited[k])

\* Spec 4.2: the DSP table is an odd number of slots, every one of them
\* written, holding distinct offsets symmetric about 0 (rx mirrored when
\* the UHD rx bug is present).
DspTableWellFormed ==
    status = "built" =>
        /\ dsp_size % 2 = 1
        /\ DOMAIN dsp_table = 0 .. dsp_size - 1
        /\ Cardinality({dsp_table[j].tx : j \in DOMAIN dsp_table}) = dsp_size
        /\ \A j \in DOMAIN dsp_table :
              /\ \E m \in DOMAIN dsp_table : dsp_table[m].tx = -dsp_table[j].tx
              /\ dsp_table[j].rx = IF uhd_rx_bug_is_present
                                   THEN -dsp_table[j].tx ELSE dsp_table[j].tx
====
