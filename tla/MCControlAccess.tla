---------------------------- MODULE MCControlAccess ----------------------------
(* A small instance of ControlAccess for TLC. *)
EXTENDS ControlAccess, TLC

CONSTANTS w1, w2, w3, s1

\* Two equal writes and a different one.
SomeEqual == (w1 :> 1) @@ (w2 :> 1) @@ (w3 :> 2)

\* The app after the writes in ops have found no service, which has been
\* started and stopped so many times.
After(ops, starts) ==
  /\ op = [o \in Op |-> [pc |-> IF o \in ops THEN "settled" ELSE "new",
                         result |-> IF o \in ops THEN "setup" ELSE "none",
                         retry |-> TRUE, tries |-> 0, current |-> FALSE]]
  /\ queue = <<>>
  /\ client = [closed |-> FALSE, capabilities |-> "none", authorization |-> "none"]
  /\ transport = [closed |-> FALSE, owner |-> 0]
  /\ req = [r \in Requests |-> NoRequest]
  /\ service = [owner |-> 0, starts |-> starts, checked |-> {}, granted |-> {},
                executed |-> [o \in Op |-> 0]]

\* From here: a queued write beside one of the settings; two different and two
\* equal writes in the queue; three of them while the service stays down.
Continued ==
  \/ After({w2, w3}, 0)
  \/ After({s1, w2}, 0)
  \/ After({s1, w3}, MaxOwners - 1)
  \/ After({s1}, MaxOwners)

MCSpec == Continued /\ [][Next]_vars /\ Fairness
=============================================================================
