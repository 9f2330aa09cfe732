--------------------------- MODULE MCMessageQueue ---------------------------
(* Two pushing threads: the D-Bus thread and the XIM event loop. *)
EXTENDS MessageQueue
=============================================================================
