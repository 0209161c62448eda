------------------------------ MODULE Heartbeat ------------------------------
(***************************************************************************)
(* The heartbeat statistics and mode policy of Phy2Mac (Phy2Mac.cc):      *)
(* updateHeartbeatPostTask classifies one expected heartbeat, and          *)
(* assessHeartbeatStats closes a window of P2M_HEARTBEAT_SAMPLE_WINDOW     *)
(* calls, applies the policy and folds the window into the session         *)
(* totals.  No code of this build calls either operation, so the model    *)
(* lets any sequence of calls happen, with any burst outcome and any mode *)
(* argument: what holds here holds for every caller.                       *)
(***************************************************************************)
EXTENDS Naturals, Sequences

CONSTANTS
    heartbeat_policy,     \* a member of Policies
    heartbeat_activity,   \* "NONE" or "PER_SCHEDULE"
    MaxSessionOpp         \* bound: heartbeat opportunities in one session

Policies == {"LOCKED_TO_FDD", "LOCKED_TO_FH", "POLICY_A", "POLICY_B"}

\* HeartbeatDefs.h
P2M_HEARTBEAT_SAMPLE_WINDOW == 3

VARIABLES
    heartbeat_opportunity_ctr, heartbeat_missing_ctr, heartbeat_valid_ctr,
    heartbeat_errored_ctr, heartbeat_jammed_ctr, heartbeat_sample_ctr,
    session_heartbeat_opportunity_ctr, session_heartbeat_missing_ctr,
    session_heartbeat_valid_ctr, session_heartbeat_errored_ctr,
    session_heartbeat_jammed_ctr,
    heartbeat_policy_selects_normal_mode

window  == <<heartbeat_opportunity_ctr, heartbeat_missing_ctr,
             heartbeat_valid_ctr, heartbeat_errored_ctr, heartbeat_jammed_ctr,
             heartbeat_sample_ctr>>
session == <<session_heartbeat_opportunity_ctr, session_heartbeat_missing_ctr,
             session_heartbeat_valid_ctr, session_heartbeat_errored_ctr,
             session_heartbeat_jammed_ctr>>
vars == <<window, session, heartbeat_policy_selects_normal_mode>>

\* Mutant: the opportunity counter is not reset with the window.
ResetKeepsOpportunity ==
    /\ heartbeat_opportunity_ctr' = heartbeat_opportunity_ctr
    /\ heartbeat_missing_ctr' = 0
    /\ heartbeat_valid_ctr' = 0 /\ heartbeat_errored_ctr' = 0
    /\ heartbeat_jammed_ctr' = 0 /\ heartbeat_sample_ctr' = 0

\* resetHeartbeatWindowStats: every window counter back to zero.
ResetHeartbeatWindowStats ==
    /\ heartbeat_opportunity_ctr' = 0 /\ heartbeat_missing_ctr' = 0
    /\ heartbeat_valid_ctr' = 0 /\ heartbeat_errored_ctr' = 0
    /\ heartbeat_jammed_ctr' = 0 /\ heartbeat_sample_ctr' = 0

\* The constructor: resetHeartbeatStats, then the initial mode by policy.
Init ==
    /\ heartbeat_opportunity_ctr = 0 /\ heartbeat_missing_ctr = 0
    /\ heartbeat_valid_ctr = 0 /\ heartbeat_errored_ctr = 0
    /\ heartbeat_jammed_ctr = 0 /\ heartbeat_sample_ctr = 0
    /\ session_heartbeat_opportunity_ctr = 0
    /\ session_heartbeat_missing_ctr = 0 /\ session_heartbeat_valid_ctr = 0
    /\ session_heartbeat_errored_ctr = 0 /\ session_heartbeat_jammed_ctr = 0
    /\ heartbeat_policy_selects_normal_mode = (heartbeat_policy # "LOCKED_TO_FH")

\* The counter one expected heartbeat adds to, from what the rx burst saw.
Classify(detected, valid, noisy) ==
    CASE ~detected /\ noisy  -> "jammed"
      [] ~detected           -> "missing"
      [] ~valid /\ noisy     -> "jammed"
      [] ~valid              -> "errored"
      [] OTHER               -> "valid"

\* Mutant: the opportunity is counted only once a frame was detected.
UpdateCountsDetectedOnly(detected, valid, noisy) ==
    LET c == Classify(detected, valid, noisy) IN
    /\ valid => detected
    /\ session_heartbeat_opportunity_ctr + heartbeat_opportunity_ctr < MaxSessionOpp
    /\ heartbeat_opportunity_ctr' = heartbeat_opportunity_ctr + (IF detected THEN 1 ELSE 0)
    /\ heartbeat_jammed_ctr'  = heartbeat_jammed_ctr  + (IF c = "jammed"  THEN 1 ELSE 0)
    /\ heartbeat_missing_ctr' = heartbeat_missing_ctr + (IF c = "missing" THEN 1 ELSE 0)
    /\ heartbeat_errored_ctr' = heartbeat_errored_ctr + (IF c = "errored" THEN 1 ELSE 0)
    /\ heartbeat_valid_ctr'   = heartbeat_valid_ctr   + (IF c = "valid"   THEN 1 ELSE 0)
    /\ UNCHANGED <<heartbeat_sample_ctr, session, heartbeat_policy_selects_normal_mode>>

\* updateHeartbeatPostTask.  A frame can only be valid if it was detected.
UpdateHeartbeatPostTask(detected, valid, noisy) ==
    LET c == Classify(detected, valid, noisy) IN
    /\ valid => detected
    /\ session_heartbeat_opportunity_ctr + heartbeat_opportunity_ctr < MaxSessionOpp
    /\ heartbeat_opportunity_ctr' = heartbeat_opportunity_ctr + 1
    /\ heartbeat_jammed_ctr'  = heartbeat_jammed_ctr  + (IF c = "jammed"  THEN 1 ELSE 0)
    /\ heartbeat_missing_ctr' = heartbeat_missing_ctr + (IF c = "missing" THEN 1 ELSE 0)
    /\ heartbeat_errored_ctr' = heartbeat_errored_ctr + (IF c = "errored" THEN 1 ELSE 0)
    /\ heartbeat_valid_ctr'   = heartbeat_valid_ctr   + (IF c = "valid"   THEN 1 ELSE 0)
    /\ UNCHANGED <<heartbeat_sample_ctr, session, heartbeat_policy_selects_normal_mode>>

\* The policy applied when a window closes; waveform_is_normal is the mode
\* the caller is in.  The subtraction is on unsigned ints.
PolicySelectsNormal(waveform_is_normal) ==
    CASE heartbeat_policy = "LOCKED_TO_FDD" -> TRUE
      [] heartbeat_policy = "LOCKED_TO_FH"  -> FALSE
      [] heartbeat_policy = "POLICY_B"      -> waveform_is_normal
      [] heartbeat_opportunity_ctr < 2      -> waveform_is_normal
      [] OTHER -> 2 * heartbeat_jammed_ctr
                    <= heartbeat_opportunity_ctr - heartbeat_missing_ctr
                       - heartbeat_errored_ctr

\* assessHeartbeatStats: the window closes on its third call.
AssessHeartbeatStats(waveform_is_normal) ==
    /\ heartbeat_activity = "PER_SCHEDULE"
    /\ IF heartbeat_sample_ctr + 1 = P2M_HEARTBEAT_SAMPLE_WINDOW
       THEN /\ heartbeat_policy_selects_normal_mode'
                   = PolicySelectsNormal(waveform_is_normal)
            /\ session_heartbeat_opportunity_ctr'
                   = session_heartbeat_opportunity_ctr + heartbeat_opportunity_ctr
            /\ session_heartbeat_valid_ctr'
                   = session_heartbeat_valid_ctr + heartbeat_valid_ctr
            /\ session_heartbeat_errored_ctr'
                   = session_heartbeat_errored_ctr + heartbeat_errored_ctr
            /\ session_heartbeat_jammed_ctr'
                   = session_heartbeat_jammed_ctr + heartbeat_jammed_ctr
            /\ UNCHANGED session_heartbeat_missing_ctr
            /\ ResetHeartbeatWindowStats
       ELSE /\ heartbeat_sample_ctr' = heartbeat_sample_ctr + 1
            /\ UNCHANGED <<heartbeat_opportunity_ctr, heartbeat_missing_ctr,
                           heartbeat_valid_ctr, heartbeat_errored_ctr,
                           heartbeat_jammed_ctr, session,
                           heartbeat_policy_selects_normal_mode>>

Next ==
    \/ \E d, v, n \in BOOLEAN : UpdateHeartbeatPostTask(d, v, n)
    \/ \E w \in BOOLEAN : AssessHeartbeatStats(w)

Spec == Init /\ [][Next]_vars

-----------------------------------------------------------------------------
TypeOK ==
    /\ \A i \in 1 .. Len(window) : window[i] \in 0 .. MaxSessionOpp
    /\ \A i \in 1 .. Len(session) : session[i] \in 0 .. MaxSessionOpp
    /\ heartbeat_sample_ctr < P2M_HEARTBEAT_SAMPLE_WINDOW
    /\ heartbeat_policy_selects_normal_mode \in BOOLEAN

\* Policy A computes opportunity - missing - errored on unsigned ints
\* (Phy2Mac.cc:555-557): whatever sequence of heartbeat outcomes and
\* assessments the caller makes, the subtraction never wraps around.
PolicyOperandsNonNegative ==
    heartbeat_opportunity_ctr >= heartbeat_missing_ctr + heartbeat_errored_ctr
====
