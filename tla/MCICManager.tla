-------------------------- MODULE MCICManager --------------------------
(* ICManager on small instances. *)
EXTENDS ICManager, TLC
=============================================================================
