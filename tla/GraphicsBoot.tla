----------------------------- MODULE GraphicsBoot -----------------------------
(***************************************************************************)
(* Next-boot graphics changes (packaging/nixos/legion-graphics-boot.py):   *)
(* the control service queues or cancels a request, the reconciler unit    *)
(* applies it once during the next startup.  Both run the same helper      *)
(* under a file lock; the request is a file that survives kills and power  *)
(* cuts.  The unit's place in the boot is packaging/nixos/                 *)
(* legion-telemetry.nix:245-332.                                           *)
(*                                                                         *)
(* Whether a check, a hardware command or a file operation succeeds is     *)
(* left open.                                                              *)
(***************************************************************************)
EXTENDS Naturals

CONSTANTS
  MaxRequests,  \* bound on the requests made
  MaxBoots      \* bound on the boots

ASSUME BoundsAssumption == MaxRequests \in Nat /\ MaxBoots \in Nat

VARIABLES
  file,      \* request.json as every process reads it
  disk,      \* the contents of request.json that a power cut may leave
  helper,    \* the helper processes
  machine,   \* the machine and its systemd
  history    \* what was selected and answered

vars == <<file, disk, helper, machine, history>>

Helpers == {"control", "boot"}
Requests == 1..MaxRequests

Phases == {"none", "pending", "applying", "failed", "completed", "cancelled"}

\* The request's time stamp tells requests apart.
Doc == [phase : Phases, req : 0..MaxRequests, boot : 0..MaxBoots]

NoDoc == [phase |-> "none", req |-> 0, boot |-> 0]

HelperState ==
  [pc  : {"idle", "manager", "write", "replace", "sync",
          "check", "set", "reconcile", "cleanup", "verify"},
   doc : Doc]                              \* the state it works on

Idle == [pc |-> "idle", doc |-> NoDoc]

Machine ==
  [boot    : 0..MaxBoots,                  \* boot_id
   manager : {"starting", "up"},           \* systemctl is-system-running
   unit    : {"inactive", "activating", "active", "failed"},
   control : BOOLEAN,                      \* the control service is up
   desktop : BOOLEAN]                      \* the display manager is up

PoweredOn(n) == [boot |-> n, manager |-> "starting", unit |-> "inactive",
                 control |-> FALSE, desktop |-> FALSE]

History ==
  [made      : 0..MaxRequests,             \* requests made
   selected  : [Requests -> 0..2],         \* "set" commands run for a request
   accepted  : SUBSET Requests,            \* requests answered "pending"
   cancelled : SUBSET Requests,            \* cancelled by a write, answered
   reported  : SUBSET Requests]            \* answered "cancelled"

TypeOK ==
  /\ file \in Doc
  /\ disk \in SUBSET Doc
  /\ helper \in [Helpers -> HelperState]
  /\ machine \in Machine
  /\ history \in History

Init ==
  /\ file = NoDoc
  /\ disk = {NoDoc}
  /\ helper = [h \in Helpers |-> Idle]
  /\ machine = PoweredOn(0)
  /\ history = [made |-> 0, selected |-> [r \in Requests |-> 0],
                accepted |-> {}, cancelled |-> {}, reported |-> {}]

-----------------------------------------------------------------------------
(* Helpers end, and with them their hold on the lock.                      *)

Goto(h, pc, doc) == helper' = [helper EXCEPT ![h] = [pc |-> pc, doc |-> doc]]

\* The unit is active once its helper succeeded (RemainAfterExit).
UnitEnds(h, result) ==
  machine' = IF h = "boot" THEN [machine EXCEPT !.unit = result] ELSE machine

Succeed(h) ==
  /\ helper' = [helper EXCEPT ![h] = Idle]
  /\ UnitEnds(h, "active")

Fail(h) ==
  /\ helper' = [helper EXCEPT ![h] = Idle]
  /\ UnitEnds(h, "failed")

\* Mutated form: flock is not taken.
LockAlwaysFree == TRUE

\* flock with LOCK_NB: a second helper fails.
LockFree == \A h \in Helpers : helper[h].pc = "idle"

-----------------------------------------------------------------------------
(* write                                                                   *)

\* The temporary file is complete and synced before it is renamed: read never
\* finds half a file.
Write(h) ==
  /\ helper[h].pc = "write"
  /\ Goto(h, "replace", helper[h].doc)
  /\ UNCHANGED <<file, disk, machine, history>>

\* os.replace: until the directory is synced a power cut may undo it.
Replace(h) ==
  /\ helper[h].pc = "replace"
  /\ file' = helper[h].doc
  /\ disk' = disk \cup {helper[h].doc}
  /\ Goto(h, "sync", helper[h].doc)
  /\ UNCHANGED <<machine, history>>

\* What follows the write: cancel and request print what they wrote.
Written(h) ==
  LET doc == helper[h].doc
  IN  CASE doc.phase = "applying" ->
             /\ Goto(h, "check", doc)
             /\ UNCHANGED <<machine, history>>
        [] doc.phase = "failed" -> Fail(h) /\ UNCHANGED history
        [] doc.phase = "completed" -> Succeed(h) /\ UNCHANGED history
        [] doc.phase = "pending" ->
             /\ Succeed(h)
             /\ history' = [history EXCEPT !.accepted = @ \cup {doc.req}]
        [] OTHER ->
             /\ Succeed(h)
             /\ history' = [history EXCEPT !.cancelled = @ \cup {doc.req},
                                           !.reported = @ \cup {doc.req}]

\* Mutated form: the directory is not synced.
SyncNothing(h) ==
  /\ helper[h].pc = "sync"
  /\ UNCHANGED <<file, disk>>
  /\ Written(h)

Sync(h) ==
  /\ helper[h].pc = "sync"
  /\ disk' = {file}
  /\ UNCHANGED file
  /\ Written(h)

FailedState(doc) == [doc EXCEPT !.phase = "failed"]

\* The except clause of boot: a consumed request becomes failed.
Raise(h) ==
  IF helper[h].doc.phase \in {"applying", "completed"}
  THEN Goto(h, "write", FailedState(helper[h].doc)) /\ UNCHANGED machine
  ELSE Fail(h)

\* An OSError in write; the one that consumes the request is outside the try.
WriteFails(h) ==
  /\ helper[h].pc \in {"write", "replace", "sync"}
  /\ IF helper[h].doc.phase = "completed" THEN Raise(h) ELSE Fail(h)
  /\ UNCHANGED <<file, disk, history>>

-----------------------------------------------------------------------------
(* The operations of the control service.                                  *)

Request ==
  /\ machine.control /\ LockFree
  /\ history.made < MaxRequests
  /\ history' = [history EXCEPT !.made = @ + 1]
  /\ Goto("control", "write",
          [phase |-> "pending", req |-> history.made + 1, boot |-> machine.boot])
  /\ UNCHANGED <<file, disk, machine>>

\* cancel refuses an attempt that failed or was interrupted, and reports what
\* is over as it is.
Cancel ==
  /\ machine.control /\ LockFree
  /\ \/ /\ file.phase = "pending"
        /\ Goto("control", "write", [file EXCEPT !.phase = "cancelled"])
        /\ UNCHANGED history
     \/ /\ file.phase = "cancelled"
        /\ history' = [history EXCEPT !.reported = @ \cup {file.req}]
        /\ UNCHANGED helper
  /\ UNCHANGED <<file, disk, machine>>

-----------------------------------------------------------------------------
(* The reconciler unit.                                                    *)

\* boot refuses to run after an attempt that failed or was interrupted.
Blocked(doc) == doc.phase \in {"failed", "applying"}

\* ExecStart: the lock, read and the first check of boot.
StartHelper ==
  IF LockFree /\ ~Blocked(file)
  THEN /\ machine' = [machine EXCEPT !.unit = "activating", !.desktop = FALSE]
       /\ Goto("boot", "manager", file)
  ELSE /\ machine' = [machine EXCEPT !.unit = "failed", !.desktop = FALSE]
       /\ UNCHANGED helper

\* The unit is part of every startup and may be restarted by hand, which
\* stops the display manager that requires it.
UnitStarts ==
  /\ machine.unit # "activating"
  /\ StartHelper
  /\ UNCHANGED <<file, disk, history>>

\* Mutated form: the state of the system is not asked for.
DeferredByBootId(doc) == doc.phase = "pending" /\ doc.boot = machine.boot

\* Not in startup, or the request belongs to this boot.
Deferred(doc) ==
  \/ machine.manager # "starting"
  \/ doc.phase = "pending" /\ doc.boot = machine.boot

\* Mutated form: the request is marked when it is over.
ConsumeLater(doc) == Goto("boot", "check", [doc EXCEPT !.phase = "applying"])

\* The request is consumed on disk before any hardware command.
Consume(doc) == Goto("boot", "write", [doc EXCEPT !.phase = "applying"])

AskManager ==
  /\ helper["boot"].pc = "manager"
  /\ LET doc == helper["boot"].doc
     IN  CASE Deferred(doc) -> Succeed("boot")
           [] ~Deferred(doc) /\ doc.phase = "pending" ->
                Consume(doc) /\ UNCHANGED machine
           [] OTHER -> Goto("boot", "reconcile", doc) /\ UNCHANGED machine
  /\ UNCHANGED <<file, disk, history>>

\* Step pc of boot succeeds, or its exception ends the attempt.
Proceed(pc, next, doc) ==
  /\ helper["boot"].pc = pc
  /\ \/ Goto("boot", next, doc) /\ UNCHANGED machine
     \/ Raise("boot")
  /\ UNCHANGED <<file, disk>>

\* The age of the request, user managers, clients, policy, mode and panel.
Check == Proceed("check", "set", helper["boot"].doc) /\ UNCHANGED history

\* graphics-mode set: a command that fails may have changed the firmware.
Select ==
  /\ Proceed("set", "reconcile", helper["boot"].doc)
  /\ LET r == helper["boot"].doc.req
     IN  history' = [history EXCEPT !.selected[r] = IF @ < 2 THEN @ + 1 ELSE @]

\* graphics-mode reconcile.
Reconcile == Proceed("reconcile", "cleanup", helper["boot"].doc) /\ UNCHANGED history

\* legion-graphics-detached-lifecycle cleanup, the last step without a request.
Cleanup ==
  /\ \/ Proceed("cleanup", "verify", helper["boot"].doc)
        /\ helper["boot"].doc.phase = "applying"
     \/ /\ helper["boot"].pc = "cleanup" /\ helper["boot"].doc.phase # "applying"
        /\ (Succeed("boot") \/ Fail("boot"))
        /\ UNCHANGED <<file, disk>>
  /\ UNCHANGED history

\* A fresh status shows the requested topology, or not.
Verify ==
  /\ Proceed("verify", "write", [helper["boot"].doc EXCEPT !.phase = "completed"])
  /\ UNCHANGED history

-----------------------------------------------------------------------------
(* The environment.                                                        *)

\* The runner's deadline, TimeoutStartSec of the unit or a stopped service.
Kill(h) ==
  /\ helper[h].pc # "idle"
  /\ Fail(h)
  /\ UNCHANGED <<file, disk, history>>

\* A reboot or a power cut.
PowerCycle ==
  /\ machine.boot < MaxBoots
  /\ machine' = PoweredOn(machine.boot + 1)
  /\ helper' = [h \in Helpers |-> Idle]
  /\ file' \in disk
  /\ disk' = {file'}
  /\ UNCHANGED history

\* The control service and the display manager are ordered after the unit;
\* the latter requires it.  Startup is over when no job is left.
SystemdProceeds ==
  /\ machine.unit \in {"active", "failed"}
  /\ \/ ~machine.control /\ machine' = [machine EXCEPT !.control = TRUE]
     \/ /\ machine.unit = "active" /\ ~machine.desktop
        /\ machine' = [machine EXCEPT !.desktop = TRUE]
     \/ /\ machine.manager = "starting"
        /\ machine' = [machine EXCEPT !.manager = "up"]
  /\ UNCHANGED <<file, disk, helper, history>>

Next ==
  \/ \E h \in Helpers : Write(h) \/ Replace(h) \/ Sync(h) \/ WriteFails(h) \/ Kill(h)
  \/ Request \/ Cancel
  \/ UnitStarts \/ AskManager \/ Check \/ Select \/ Reconcile \/ Cleanup \/ Verify
  \/ PowerCycle \/ SystemdProceeds

Spec == Init /\ [][Next]_vars

-----------------------------------------------------------------------------
(* Properties.                                                             *)

\* A request is selected at most once, whatever is killed, restarted or cut
\* off, and a request is completed only after it was selected.
OneShot ==
  /\ \A r \in Requests : history.selected[r] <= 1
  /\ \A doc \in disk : doc.phase = "completed" => history.selected[doc.req] = 1

\* A request that was answered survives kills and power cuts until a later
\* request replaces it: no helper writes back an older one.
AcceptedRequestIsKept ==
  \A r \in history.accepted, doc \in disk : doc.req >= r

\* A request whose cancellation was written and answered is not selected any
\* more.
CancelHolds ==
  [][\A r \in history.cancelled : history'.selected[r] = history.selected[r]]_vars

\* docs/architecture/next-boot-graphics.md:54, "Cancel removes a pending
\* request", of every cancellation that was answered.
ReportedCancelHolds ==
  [][\A r \in history.reported : history'.selected[r] = history.selected[r]]_vars

\* A hardware command runs only during startup, under no failed attempt, and
\* for a request only in a later boot, when it is durably marked as consumed.
HardwareIsGuarded ==
  helper["boot"].pc \in {"check", "set", "reconcile", "cleanup", "verify"} =>
    LET doc == helper["boot"].doc
    IN  /\ machine.manager = "starting"
        /\ \/ doc.phase = "applying" /\ doc.boot # machine.boot /\ disk = {doc}
           \/ doc.phase \in {"none", "completed", "cancelled"} /\ file = doc
=============================================================================
