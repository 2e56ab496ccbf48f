-------------------------- MODULE MCTcpConnection --------------------------
(* A connection used by up to two threads besides its IO loop. Messages of *)
(* two bytes and a send buffer of one make partial writes, EAGAIN and the  *)
(* high water mark happen.                                                 *)
EXTENDS TcpConnection
=============================================================================
