----------------------------- MODULE MC_TcpClient -----------------------------
(* Instances of TcpClient for TLC.                                         *)
EXTENDS TcpClient
=============================================================================
