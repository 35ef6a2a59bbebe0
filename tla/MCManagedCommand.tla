--------------------------- MODULE MCManagedCommand ---------------------------
(* Small instances of ManagedCommand for TLC. *)
EXTENDS ManagedCommand, TLC

\* Commands are interchangeable: no action or property names one.
Commands == Permutations(Op)
=============================================================================
