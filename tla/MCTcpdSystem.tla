---- MODULE MCTcpdSystem ----
(***************************************************************************)
(* TcpdSystem for TLC: a client of an ftps, and the lengths of its calls.  *)
(***************************************************************************)
EXTENDS TcpdSystem, TLC

CONSTANTS s1, p1

TwoLens == <<1, 2>>
OneLen == <<2>>

\* One client whose ftps reads a package at a time.
OneClient ==
  {[client |-> s1 :> [session |-> s1, port |-> p1, sends |-> Len(SendLens)],
    reads |-> SendLens]}
====
