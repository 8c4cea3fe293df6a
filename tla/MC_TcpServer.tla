----------------------------- MODULE MC_TcpServer -----------------------------
(* Instances of TcpServer for TLC.                                         *)
EXTENDS TcpServer
=============================================================================
