------------------------------ MODULE MCLighting ------------------------------
(* A small instance of Lighting for TLC: see LightingReports.cfg. *)
EXTENDS Lighting
=============================================================================
