---- MODULE MCFrontCall ----
(***************************************************************************)
(* FrontCall for TLC: an ftpc and an ftps on one daemon, and a second ftps *)
(* that is started when the first was killed.                              *)
(***************************************************************************)
EXTENDS FrontCall, TLC

CONSTANTS p1, p2, p3

Ftpc == <<"SOCKET", "CONNECT", "SEND">>
Ftps == <<"SOCKET", "BIND", "ACCEPT", "RECV", "ACCEPT">>
Again == <<"SOCKET", "BIND">>

Scripts == p1 :> Ftpc @@ p2 :> Ftps @@ p3 :> Again
Ports   == p1 :> 8100 @@ p2 :> 8000 @@ p3 :> 8000
Restart == p1 :> NoProc @@ p2 :> NoProc @@ p3 :> p2
====
