----------------------------- MODULE CommandRunner -----------------------------
(***************************************************************************)
(* What a ManagedCommandRunner promises to its users                       *)
(* (control/managed_command.h:32-53): every started command completes at   *)
(* most once with a ManagedCommandStatus, its backend is launched at most  *)
(* once and never beside another command's backend, and every status but   *)
(* cleanupFailed says that the backend is gone.                            *)
(*                                                                         *)
(* ManagedCommand implements this specification; ControlService relies on  *)
(* it.                                                                     *)
(***************************************************************************)
CONSTANT Op   \* the commands of all the helpers that share the lock file

VARIABLE cmd  \* cmd[i]: what is visible of command i

Statuses == {"success", "busy", "commandFailed", "unavailable",
             "timeout", "outputLimit", "cleanupFailed"}

Commands ==
  [phase   : {"idle", "running", "over", "dead"},
   status  : Statuses \cup {"none"},
   backend : {"none", "live", "gone"}]

Fresh == [phase |-> "idle", status |-> "none", backend |-> "none"]

Init == cmd = [i \in Op |-> Fresh]

Start(i) ==
  /\ cmd[i].phase = "idle"
  /\ cmd' = [cmd EXCEPT ![i].phase = "running"]

\* The start of the backend is requested, under the lock.
Launch(i) ==
  /\ cmd[i].phase = "running"
  /\ cmd[i].backend = "none"
  /\ \A j \in Op : cmd[j].backend # "live"
  /\ cmd' = [cmd EXCEPT ![i].backend = "live"]

\* No start in transit, no job and no process of the backend is left.
Vanish(i) ==
  /\ cmd[i].backend = "live"
  /\ cmd' = [cmd EXCEPT ![i].backend = "gone"]

\* The completion is called.
Finish(i, status) ==
  /\ cmd[i].phase = "running"
  /\ status # "cleanupFailed" => cmd[i].backend # "live"
  /\ status \in {"success", "commandFailed", "timeout", "outputLimit"} =>
       cmd[i].backend = "gone"
  /\ cmd' = [cmd EXCEPT ![i].phase = "over", ![i].status = status]

\* The helper process dies: there is no completion.
Die(i) ==
  /\ cmd[i].phase = "running"
  /\ cmd' = [cmd EXCEPT ![i].phase = "dead"]

Next ==
  \E i \in Op : \/ Start(i) \/ Launch(i) \/ Vanish(i) \/ Die(i)
                \/ \E status \in Statuses : Finish(i, status)

Spec == Init /\ [][Next]_cmd
=============================================================================
