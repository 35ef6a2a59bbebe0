---------------------------- MODULE MCGraphicsBoot ----------------------------
(* A small instance of GraphicsBoot for TLC: see GraphicsBoot.cfg. *)
EXTENDS GraphicsBoot
=============================================================================
