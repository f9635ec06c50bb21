------------------------------ MODULE MCTcpServer ------------------------------
(***************************************************************************)
(* Instances of TcpServer for TLC.                                         *)
(***************************************************************************)
EXTENDS TcpServer, TLC

CONSTANTS c1, c2, a1

MCClients == {c1, c2}
MCAppids == {a1}
MCAsks == (c1 :> a1) @@ (c2 :> a1)
MCMaxRequests == (c1 :> 2) @@ (c2 :> 0)

=============================================================================
