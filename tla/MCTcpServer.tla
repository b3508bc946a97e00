----------------------------- MODULE MCTcpServer -----------------------------
(* TcpServer.tla with two sub reactors.                                    *)
EXTENDS TcpServer

CONSTANTS sub1, sub2

TwoSubs == <<sub1, sub2>>
=============================================================================
