--------------------------- MODULE MCConcurrentPage ---------------------------
(* A small instance of ConcurrentPage for TLC: see ConcurrentPage.cfg. *)
EXTENDS ConcurrentPage
=============================================================================
