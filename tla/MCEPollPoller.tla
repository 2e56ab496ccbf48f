--------------------------- MODULE MCEPollPoller ---------------------------
(* Two channel objects on two descriptors, which they exchange as objects  *)
(* are destroyed and built again, and a one-element epollEvents_, so that  *)
(* it is too small for the descriptors that are ready.                     *)
EXTENDS EPollPoller
=============================================================================
