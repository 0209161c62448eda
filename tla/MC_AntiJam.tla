------------------------------ MODULE MC_AntiJam ------------------------------
(***************************************************************************)
(* AntiJam instantiated for TLC.  A jammer on subcarrier 100 lies in the  *)
(* holes opened at left edges 225..350, so a sweep from edge 0 must climb *)
(* nine steps to find it and, after every close, must find it again.       *)
(***************************************************************************)
EXTENDS AntiJam

MCJammer == 100
====
