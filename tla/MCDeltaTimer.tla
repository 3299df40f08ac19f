---- MODULE MCDeltaTimer ----
(***************************************************************************)
(* DeltaTimer for TLC.                                                     *)
(***************************************************************************)
EXTENDS DeltaTimer
====
