--------------------------- MODULE MCControlService ---------------------------
(* A small instance of ControlService for TLC. *)
EXTENDS ControlService

CONSTANTS k1, k2, k3, a, b

Arrival == <<k1, k2, k3>>

\* Calls are interchangeable before they are sent, and so are clients: of the
\* behaviours that differ by a renaming TLC explores the one that uses the
\* names in this order.  Every behaviour has such a renaming, and the properties
\* name no call and no client, so nothing is lost; a symmetry set would not do
\* for the temporal ones.
InOrder ==
  /\ \A m, n \in DOMAIN Arrival :
       m < n /\ call[Arrival[n]].method # "unsent" => call[Arrival[m]].method # "unsent"
  /\ call[k1].sender # b
=============================================================================
