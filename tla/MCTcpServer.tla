---------------------------- MODULE MCTcpServer ----------------------------
(* A TcpServer for TLC: two IO loops, and one descriptor fewer than there  *)
(* are peers.                                                              *)
EXTENDS TcpServer
=============================================================================
