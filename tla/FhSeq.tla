-------------------------------- MODULE FhSeq --------------------------------
(***************************************************************************)
(* FhSeqGenerator (FhSeqGenerator.cc): the hop sequence of FH mode, a      *)
(* table of (rf index, dsp index) pairs, one per FH schedule slot.         *)
(*                                                                         *)
(* The constructor fixes the algorithm and the three sizes; main.cc calls  *)
(* makeSeq once at start-up and, in every FH epoch, makeSeq then scrubSeq. *)
(* The nested sweeps (RFDSP, DSPRF, ALG_A, ALG_B) are a while loop around  *)
(* two for loops with breaks; they are modelled one loop test or one table *)
(* write per step, because whether that loop ends depends on the table     *)
(* sizes.  The other algorithms are single loops that always end and are   *)
(* one step each.  The statistics counters that are only printed           *)
(* (fh_seq_generations, fh_state_resets, scrub_requests and the two        *)
(* scrub_repaired counts) are left out.                                    *)
(***************************************************************************)
EXTENDS Naturals, Sequences, FiniteSets

CONSTANTS
    Algorithms,   \* the FhSeqAlgorithm values the constructor may be given
    StepCounts,   \* values of num_seq_steps (the FH schedule size)
    RfSizes,      \* values of rf_table_size
    DspSizes,     \* values of dsp_table_size
    NoObject      \* model value: the state of an object not yet constructed

Nested  == {"RESTART_SWEEP_RFDSP", "RESTART_SWEEP_DSPRF",
            "RESTART_ALG_A", "RESTART_ALG_B"}
Flat    == {"NONE", "ONE", "TOGGLE", "RESTART_SWEEP_RF",
            "RESTART_SWEEP_DSP", "TEST"}

VARIABLES
    seq_algorithm, num_seq_steps, rf_table_size, dsp_table_size,
    rf_idx_table, dsp_idx_table,         \* seq_table
    rf_seq_state, dsp_seq_state, seq_ctr,
    rf_seq_state2idx, dsp_seq_state2idx, \* the ALG_A/ALG_B permutations
    pc   \* "none" (not constructed), "idle", "scrub" (makeSeq returned),
         \* "while", "outer", "inner" (inside makeSeq)

vars == <<seq_algorithm, num_seq_steps, rf_table_size, dsp_table_size,
          rf_idx_table, dsp_idx_table, rf_seq_state, dsp_seq_state, seq_ctr,
          rf_seq_state2idx, dsp_seq_state2idx, pc>>

Steps == 0 .. num_seq_steps - 1

(***************************************************************************)
(* The row-column interleaver of ALG_A/ALG_B: stride = ceil(sqrt(size)),   *)
(* cells read column by column (offset_ctr outer, stride_ctr inner), those *)
(* at or beyond size skipped.  Tables under 4 entries are reversed.        *)
(***************************************************************************)
CeilSqrt(n) == CHOOSE s \in 0 .. n : s * s >= n /\ (s = 0 \/ (s - 1) * (s - 1) < n)

\* Mutant: the stride rounded down instead of up.
InterleaveFloor(size) ==
    IF size < 4 THEN [i \in 0 .. size - 1 |-> size - i - 1]
    ELSE LET stride == CHOOSE s \in 0 .. size : s * s <= size /\ (s + 1) * (s + 1) > size
             cells  == [k \in 1 .. stride * stride |->
                          ((k - 1) % stride) * stride + (k - 1) \div stride]
             picks  == SelectSeq(cells, LAMBDA p : p < size)
         \* the entries no pick reaches stay as new[] left them: here 0
         IN [i \in 0 .. size - 1 |-> IF i < Len(picks) THEN picks[i + 1] ELSE 0]

Interleave(size) ==
    IF size < 4 THEN [i \in 0 .. size - 1 |-> size - i - 1]
    ELSE LET stride == CeilSqrt(size)
             cells  == [k \in 1 .. stride * stride |->
                          ((k - 1) % stride) * stride + (k - 1) \div stride]
             picks  == SelectSeq(cells, LAMBDA p : p < size)
         IN [i \in 0 .. size - 1 |-> picks[i + 1]]

(***************************************************************************)
(* The nested loops.  RFDSP and ALG_A loop over rf outside and dsp inside, *)
(* DSPRF and ALG_B the other way round; the ALG variants write the         *)
(* permuted indices, the sweeps the loop states themselves.                *)
(***************************************************************************)
OuterIsRf == seq_algorithm \in {"RESTART_SWEEP_RFDSP", "RESTART_ALG_A"}
Permuted  == seq_algorithm \in {"RESTART_ALG_A", "RESTART_ALG_B"}
OuterSize == IF OuterIsRf THEN rf_table_size ELSE dsp_table_size
InnerSize == IF OuterIsRf THEN dsp_table_size ELSE rf_table_size
Outer     == IF OuterIsRf THEN rf_seq_state ELSE dsp_seq_state
Inner     == IF OuterIsRf THEN dsp_seq_state ELSE rf_seq_state
SetLoop(o, i) ==
    IF OuterIsRf THEN rf_seq_state' = o /\ dsp_seq_state' = i
                 ELSE rf_seq_state' = i /\ dsp_seq_state' = o
RfIdx(s)  == IF Permuted THEN rf_seq_state2idx[s] ELSE s
DspIdx(s) == IF Permuted THEN dsp_seq_state2idx[s] ELSE s

\* Before its constructor runs the object has no state.
Init ==
    /\ seq_algorithm = NoObject /\ num_seq_steps = NoObject
    /\ rf_table_size = NoObject /\ dsp_table_size = NoObject
    /\ rf_idx_table = NoObject /\ dsp_idx_table = NoObject
    /\ rf_seq_state = NoObject /\ dsp_seq_state = NoObject
    /\ seq_ctr = NoObject
    /\ rf_seq_state2idx = NoObject /\ dsp_seq_state2idx = NoObject
    /\ pc = NoObject

\* The constructor: both tables zeroed, resetFhSeqState, resetFsgStats.
FhSeqGenerator(alg, n, rf, dsp) ==
    /\ pc = NoObject
    /\ seq_algorithm' = alg
    /\ num_seq_steps' = n
    /\ rf_table_size' = rf
    /\ dsp_table_size' = dsp
    /\ rf_idx_table' = [i \in 0 .. n - 1 |-> 0]
    /\ dsp_idx_table' = [i \in 0 .. n - 1 |-> 0]
    /\ rf_seq_state' = 0 /\ dsp_seq_state' = 0 /\ seq_ctr' = 0
    /\ rf_seq_state2idx' = <<>> /\ dsp_seq_state2idx' = <<>>
    /\ pc' = "idle"

\* A sweep state after i increments, each followed by the wrap test
\* `if (state >= size) state = 0` (a table of size 0 keeps it at 0).
Wrapped(i, size) == IF size = 0 THEN 0 ELSE i % size

\* The tables the single-loop cases write, and the states they leave.
FlatRf(i) ==
    IF seq_algorithm = "RESTART_SWEEP_RF" THEN Wrapped(i, rf_table_size) ELSE 0
FlatDsp(i) ==
    CASE seq_algorithm = "ONE"               -> 1
      [] seq_algorithm = "TOGGLE"            -> IF i % 2 = 0 THEN 1 ELSE 2
      [] seq_algorithm = "RESTART_SWEEP_DSP" -> Wrapped(i, dsp_table_size)
      [] OTHER                               -> 0

\* makeSeq for NONE, ONE, TOGGLE, SWEEP_RF, SWEEP_DSP and TEST.
MakeSeqFlat ==
    /\ pc = "idle"
    /\ seq_algorithm \in Flat
    /\ IF seq_algorithm = "TEST"
       THEN UNCHANGED <<rf_idx_table, dsp_idx_table, rf_seq_state, dsp_seq_state>>
       ELSE /\ rf_idx_table' = [i \in Steps |-> FlatRf(i)]
            /\ dsp_idx_table' = [i \in Steps |-> FlatDsp(i)]
            /\ rf_seq_state' = IF seq_algorithm = "RESTART_SWEEP_RF"
                               THEN Wrapped(num_seq_steps, rf_table_size) ELSE 0
            /\ dsp_seq_state' = IF seq_algorithm = "RESTART_SWEEP_DSP"
                                THEN Wrapped(num_seq_steps, dsp_table_size) ELSE 0
    /\ pc' = "scrub"
    /\ UNCHANGED <<seq_algorithm, num_seq_steps, rf_table_size, dsp_table_size,
                   seq_ctr, rf_seq_state2idx, dsp_seq_state2idx>>

\* makeSeq for the nested cases, up to the while loop; the ALG cases first
\* build both permutation arrays.
MakeSeqBegin ==
    /\ pc = "idle"
    /\ seq_algorithm \in Nested
    /\ rf_seq_state' = 0 /\ dsp_seq_state' = 0 /\ seq_ctr' = 0
    /\ rf_seq_state2idx' = IF Permuted THEN Interleave(rf_table_size) ELSE <<>>
    /\ dsp_seq_state2idx' = IF Permuted THEN Interleave(dsp_table_size) ELSE <<>>
    /\ pc' = "while"
    /\ UNCHANGED <<seq_algorithm, num_seq_steps, rf_table_size, dsp_table_size,
                   rf_idx_table, dsp_idx_table>>

loop_fixed == <<seq_algorithm, num_seq_steps, rf_table_size, dsp_table_size,
                rf_seq_state2idx, dsp_seq_state2idx>>

\* while (seq_ctr < num_seq_steps): enter the outer for loop, or leave
\* makeSeq (the ALG cases delete the permutation arrays).
WhileTest ==
    /\ pc = "while"
    /\ IF seq_ctr < num_seq_steps
       THEN SetLoop(0, Inner) /\ pc' = "outer"
       ELSE UNCHANGED <<rf_seq_state, dsp_seq_state>> /\ pc' = "scrub"
    /\ UNCHANGED <<seq_ctr, rf_idx_table, dsp_idx_table>>
    /\ UNCHANGED loop_fixed

\* Mutant: the inner loop state is not reset when the outer loop enters it.
OuterTestNoReset ==
    /\ pc = "outer"
    /\ IF Outer < OuterSize
       THEN SetLoop(Outer, Inner) /\ pc' = "inner"
       ELSE UNCHANGED <<rf_seq_state, dsp_seq_state>> /\ pc' = "while"
    /\ UNCHANGED <<seq_ctr, rf_idx_table, dsp_idx_table>>
    /\ UNCHANGED loop_fixed

\* The outer for loop test: start the inner loop at 0, or back to while.
OuterTest ==
    /\ pc = "outer"
    /\ IF Outer < OuterSize
       THEN SetLoop(Outer, 0) /\ pc' = "inner"
       ELSE UNCHANGED <<rf_seq_state, dsp_seq_state>> /\ pc' = "while"
    /\ UNCHANGED <<seq_ctr, rf_idx_table, dsp_idx_table>>
    /\ UNCHANGED loop_fixed

\* Mutant: no break when the table is full.
InnerStepNoBreak ==
    /\ pc = "inner"
    /\ IF Inner < InnerSize
       THEN /\ rf_idx_table' = [rf_idx_table EXCEPT ![seq_ctr] = RfIdx(rf_seq_state)]
            /\ dsp_idx_table' = [dsp_idx_table EXCEPT ![seq_ctr] = DspIdx(dsp_seq_state)]
            /\ seq_ctr' = seq_ctr + 1
            /\ SetLoop(Outer, Inner + 1) /\ pc' = "inner"
       ELSE /\ SetLoop(Outer + 1, Inner) /\ pc' = "outer"
            /\ UNCHANGED <<seq_ctr, rf_idx_table, dsp_idx_table>>
    /\ UNCHANGED loop_fixed

\* One pass of the inner for loop: write slot seq_ctr and stop as soon as
\* the table is full (the two breaks, after which the while test fails);
\* when the inner loop is exhausted, step the outer one.
InnerStep ==
    /\ pc = "inner"
    /\ IF Inner < InnerSize
       THEN /\ rf_idx_table' = [rf_idx_table EXCEPT ![seq_ctr] = RfIdx(rf_seq_state)]
            /\ dsp_idx_table' = [dsp_idx_table EXCEPT ![seq_ctr] = DspIdx(dsp_seq_state)]
            /\ seq_ctr' = seq_ctr + 1
            /\ IF seq_ctr + 1 >= num_seq_steps
               THEN UNCHANGED <<rf_seq_state, dsp_seq_state>> /\ pc' = "scrub"
               ELSE SetLoop(Outer, Inner + 1) /\ pc' = "inner"
       ELSE /\ SetLoop(Outer + 1, Inner) /\ pc' = "outer"
            /\ UNCHANGED <<seq_ctr, rf_idx_table, dsp_idx_table>>
    /\ UNCHANGED loop_fixed

\* Mutant: the repair test is `>` instead of `>=`.
ScrubSeqLate ==
    /\ pc = "scrub"
    /\ LET badRf  == {i \in Steps : rf_idx_table[i] > rf_table_size}
           badDsp == {i \in Steps : dsp_idx_table[i] > dsp_table_size}
       IN /\ rf_idx_table' = [i \in Steps |-> IF i \in badRf THEN 0 ELSE rf_idx_table[i]]
          /\ dsp_idx_table' = [i \in Steps |-> IF i \in badDsp THEN 0 ELSE dsp_idx_table[i]]
    /\ pc' = "idle"
    /\ UNCHANGED <<seq_algorithm, num_seq_steps, rf_table_size, dsp_table_size,
                   rf_seq_state, dsp_seq_state, seq_ctr,
                   rf_seq_state2idx, dsp_seq_state2idx>>

\* scrubSeq, which main.cc runs right after makeSeq in an FH epoch: clamp
\* every out-of-range index to 0.
ScrubSeq ==
    /\ pc = "scrub"
    /\ LET badRf  == {i \in Steps : rf_idx_table[i] >= rf_table_size}
           badDsp == {i \in Steps : dsp_idx_table[i] >= dsp_table_size}
       IN /\ rf_idx_table' = [i \in Steps |-> IF i \in badRf THEN 0 ELSE rf_idx_table[i]]
          /\ dsp_idx_table' = [i \in Steps |-> IF i \in badDsp THEN 0 ELSE dsp_idx_table[i]]
    /\ pc' = "idle"
    /\ UNCHANGED <<seq_algorithm, num_seq_steps, rf_table_size, dsp_table_size,
                   rf_seq_state, dsp_seq_state, seq_ctr,
                   rf_seq_state2idx, dsp_seq_state2idx>>

\* One step of makeSeq or of scrubSeq.
FsgStep ==
    \/ MakeSeqFlat \/ MakeSeqBegin
    \/ WhileTest \/ OuterTest \/ InnerStep
    \/ ScrubSeq

Next ==
    \/ \E alg \in Algorithms, n \in StepCounts, rf \in RfSizes, dsp \in DspSizes :
          FhSeqGenerator(alg, n, rf, dsp)
    \/ FsgStep

\* One control thread runs makeSeq to its end: weak fairness.
Spec == Init /\ [][Next]_vars /\ WF_vars(Next)

-----------------------------------------------------------------------------
TypeOK ==
    pc # NoObject =>
    /\ pc \in {"idle", "while", "outer", "inner", "scrub"}
    /\ rf_idx_table \in [Steps -> Nat] /\ dsp_idx_table \in [Steps -> Nat]
    /\ seq_ctr \in 0 .. num_seq_steps

IndicesInRange ==
    \A i \in Steps : rf_idx_table[i] < rf_table_size /\ dsp_idx_table[i] < dsp_table_size

\* Spec 8 says every policy keeps its indices in range.  ONE and TOGGLE
\* write DSP indices 1 and 2 whatever dsp_table_size is (past the end of a
\* one-entry table), so the hop table the FH epoch uses is safe only
\* because scrubSeq runs after every makeSeq of the loop.  The property:
\* the nested sweeps (main.cc's ALG_A among them) leave every index in
\* range when makeSeq returns, and once scrubSeq has run every index of
\* every algorithm is in range.
SeqIndicesInRange ==
    /\ (pc = "scrub" /\ seq_algorithm \in Nested) => IndicesInRange
    /\ pc = "idle" => IndicesInRange

\* Spec 4.3: ALG_A and ALG_B visit the (rf, dsp) pairs as a nested sweep
\* over two permutations, so any rf_table_size * dsp_table_size consecutive
\* slots of the finished sequence hold every pair exactly once.
HopsCoverAllPairs ==
    LET period == rf_table_size * dsp_table_size
        Pair(i) == <<rf_idx_table[i], dsp_idx_table[i]>>
    IN  (pc = "scrub" /\ Permuted) =>
          \A s \in 0 .. num_seq_steps - period :
             {Pair(i) : i \in s .. s + period - 1}
                 = (0 .. rf_table_size - 1) \X (0 .. dsp_table_size - 1)
====
