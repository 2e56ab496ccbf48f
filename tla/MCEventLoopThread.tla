-------------------------- MODULE MCEventLoopThread --------------------------
(* An EventLoopThread with its owner and one more user of the loop, who    *)
(* may get the pointer before startLoop has returned, and two functors,    *)
(* one of them queued by callback_.                                        *)
EXTENDS EventLoopThread
=============================================================================
