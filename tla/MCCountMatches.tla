---- MODULE MCCountMatches ----
(***************************************************************************)
(* CountMatches for TLC: files and patterns of two letters.                *)
(***************************************************************************)
EXTENDS CountMatches

CONSTANTS a, b
====
