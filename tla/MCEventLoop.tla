---------------------------- MODULE MCEventLoop ----------------------------
(* EventLoop with two client threads and three functors in flight, one of  *)
(* them queued by the loop's own thread before loop().                     *)
EXTENDS EventLoop
=============================================================================
