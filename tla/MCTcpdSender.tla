---- MODULE MCTcpdSender ----
(***************************************************************************)
(* TcpdSender for TLC: every daemon of a run is small enough for its       *)
(* packages to outnumber its buffer.                                       *)
(***************************************************************************)
EXTENDS TcpdSender
====
