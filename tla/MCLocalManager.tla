---------------------------- MODULE MCLocalManager ----------------------------
(* LocalManager on small instances. *)
EXTENDS LocalManager, TLC
=============================================================================
