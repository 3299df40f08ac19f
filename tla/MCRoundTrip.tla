---- MODULE MCRoundTrip ----
(***************************************************************************)
(* RoundTrip for TLC.                                                      *)
(***************************************************************************)
EXTENDS RoundTrip
====
