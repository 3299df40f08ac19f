---- MODULE MCEarlyTransfer ----
(***************************************************************************)
(* EarlyTransfer for TLC: the length, the name and chunks of a file.       *)
(***************************************************************************)
EXTENDS EarlyTransfer

TwoChunks == <<4, 25, 800, 21>>
Lengths == {-1, 21}
====
