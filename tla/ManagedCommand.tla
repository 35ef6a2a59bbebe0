---------------------------- MODULE ManagedCommand ----------------------------
(***************************************************************************)
(* One privileged backend command run as a transient systemd unit          *)
(* (control/managed_command.cc), for every helper that shares the lock     *)
(* file /run/legion-control/operation.lock.                                *)
(*                                                                         *)
(* op[i] is the Operation object of the helper that runs command i; its    *)
(* handlers are functions from one object state to the next, named after   *)
(* the methods of the class.  sys[i] is what systemd and the kernel hold   *)
(* for command i; it is modelled from how the Operation uses it.  Every    *)
(* command has a bus connection and a unit name of its own.  Deadlines may *)
(* pass at any moment they are armed; output is abstracted to its end and  *)
(* to the overflow of output_limit.                                        *)
(***************************************************************************)
EXTENDS Naturals

CONSTANTS
  Op,      \* the commands started by all the helpers
  Faults   \* the kinds of failure the environment may produce

FaultKinds == {"lost",      \* a D-Bus call has no answer within 3 s
               "closed",    \* the bus drops the manager connection
               "owner",     \* systemd's bus name changes owner
               "deadline",  \* a cleanup or drain deadline passes
               "read",      \* reading the output pipe fails
               "setup",     \* no systemd, unsafe lock file, no pipe
               "reject",    \* systemd refuses the transient unit
               "crash"}     \* the helper process dies

ASSUME FaultsAssumption == Faults \subseteq FaultKinds

VARIABLES
  op,      \* the helpers' Operation objects
  sys      \* systemd's unit, its processes and the messages on their way

vars == <<op, sys>>

ManagedCommandStatus == {"success", "busy", "commandFailed", "unavailable",
                         "timeout", "outputLimit", "cleanupFailed"}

\* The polling calls are made one after the other, so at most one call is
\* outstanding beside StopUnit and the close of the connection.
Calls == {"GetNameOwner", "StartTransientUnit", "UnrefRejected", "GetUnit",
          "GetAllUnit", "GetAllService", "UnrefUnit"}

\* What a call is answered with: an outcome or the observed unit state.
ExitAnswers == {"zero", "nonzero", "timeout"}
Answers == {"waiting", "ok", "error", "rejected", "terminal", "queued",
            "other", "occupied"} \cup ExitAnswers

OpState ==
  [life      : {"created", "active", "ending", "delivered", "crashed"},
   call      : Calls \cup {"none"},
   answer    : Answers,
   stop      : {"none", "waiting", "ok", "error", "done"}, \* StopUnit, sent once
   behind    : BOOLEAN,   \* StopUnit was sent after the outstanding call
   closing   : BOOLEAN,   \* the close of the connection is outstanding
   conn      : {"open", "closed"},
   stream    : {"none", "reading", "eof", "closed"},
   cancelled : BOOLEAN,
   progress  : {"unstarted", "started", "located", "unreferenced"},
   status    : ManagedCommandStatus,
   lock      : {"none", "open", "held"}]

SysState ==
  [start  : {"none", "transit", "served"},   \* the StartTransientUnit message
   unit   : {"absent", "stub", "queued", "running", "stopping", "ended"},
   ref    : BOOLEAN,       \* the AddRef reference of the connection
   procs  : BOOLEAN,       \* some process of the unit is alive
   cgroup : BOOLEAN,       \* systemd still reports a ControlGroup
   exit   : {"none"} \cup ExitAnswers]

TypeOK == op \in [Op -> OpState] /\ sys \in [Op -> SysState]

Init ==
  /\ op = [i \in Op |->
             [life |-> "created", call |-> "none", answer |-> "waiting",
              stop |-> "none", behind |-> FALSE, closing |-> FALSE,
              conn |-> "open", stream |-> "none", cancelled |-> FALSE,
              progress |-> "unstarted", status |-> "commandFailed",
              lock |-> "none"]]
  /\ sys = [i \in Op |->
             [start |-> "none", unit |-> "absent", ref |-> FALSE,
              procs |-> FALSE, cgroup |-> FALSE, exit |-> "none"]]

-----------------------------------------------------------------------------
(* The methods of Operation, as functions of the object state.             *)

StopPending(o) == o.stop \in {"waiting", "ok", "error"}

\* Mutated form: the answer to StopUnit is never counted off.
PendingLeaksStop(o) == o.call # "none" \/ o.stop # "none" \/ o.closing

Pending(o) == o.call # "none" \/ StopPending(o) \/ o.closing

\* The completion runs once nothing owned by the operation is outstanding.
Deliver(o) ==
  IF o.life = "ending" /\ ~Pending(o) /\ o.stream # "reading"
  THEN [o EXCEPT !.life = "delivered", !.lock = "none"]
  ELSE o

\* Mutated form: the manager connection is left open.
EndKeepsConnection(o, status) ==
  IF o.life # "active" THEN o ELSE [o EXCEPT !.life = "ending", !.status = status]

\* An uncertain end also closes the dedicated manager connection.
End(o, status) ==
  IF o.life # "active" THEN o
  ELSE [o EXCEPT !.life = "ending", !.status = status,
                 !.closing = (status = "cleanupFailed" /\ o.conn = "open")]

Uncertain(o) == End(o, "cleanupFailed")

Send(o, call) == [o EXCEPT !.call = call, !.answer = "waiting", !.behind = FALSE]

Answered(o) == [o EXCEPT !.call = "none", !.answer = "waiting", !.behind = FALSE]

Stop(o) ==
  IF o.stop # "none" THEN o
  ELSE [o EXCEPT !.stop = "waiting", !.behind = (o.call # "none")]

\* Mutated form: a cancelled operation completes at once.
CancelEnds(o) == End([o EXCEPT !.cancelled = TRUE], "commandFailed")

Cancel(o) ==
  IF o.progress \in {"started", "located"} /\ o.life = "active"
  THEN Stop([o EXCEPT !.cancelled = TRUE])
  ELSE [o EXCEPT !.cancelled = TRUE]

Poll(o) ==
  IF o.progress = "located" /\ o.call = "none" THEN Send(o, "GetAllUnit") ELSE o

\* The verdict read from the service properties: limits already hit are kept.
Verdict(o, exit) ==
  IF exit = "timeout" /\ o.status # "outputLimit" THEN "timeout"
  ELSE IF o.status \in {"timeout", "outputLimit"} THEN o.status
  ELSE IF exit = "zero" /\ ~o.cancelled THEN "success"
  ELSE "commandFailed"

\* Mutated form: the end of standard output is not awaited.
EndUndrained(o) == IF o.progress = "unreferenced" THEN End(o, o.status) ELSE o

\* The reference is released and standard output is at its end: all is clean.
EndIfDrained(o) ==
  IF o.progress = "unreferenced" /\ o.stream = "eof" THEN End(o, o.status) ELSE o

Settle(i, o) == op' = [op EXCEPT ![i] = Deliver(o)]

-----------------------------------------------------------------------------
(* The lock and the pipe: who holds a copy of each descriptor.             *)

\* Mutated form: the unit's standard input is not the lock file.
HelperHoldsLock(i) == op[i].lock = "held"

\* A flock lasts until its last descriptor is closed: the helper's, the one
\* in the start message, and the unit's standard input in systemd and in
\* the backend processes.
HoldsLock(i) ==
  \/ op[i].lock = "held"
  \/ sys[i].start = "transit"
  \/ sys[i].unit # "absent"
  \/ sys[i].procs

WriteEndsClosed(i) ==
  sys[i].start # "transit" /\ sys[i].unit = "absent" /\ ~sys[i].procs

-----------------------------------------------------------------------------
(* The helper's main loop.                                                 *)

Begin(i) ==
  /\ op[i].life = "created"
  /\ Settle(i, [Send(op[i], "GetNameOwner") EXCEPT !.life = "active"])
  /\ UNCHANGED sys

\* A client left or the service stops: ActiveOperation.command->Cancel().
ClientCancels(i) ==
  /\ op[i].life \in {"created", "active", "ending"}
  /\ ~op[i].cancelled
  /\ Settle(i, Cancel(op[i]))
  /\ UNCHANGED sys

\* Replies arrive in the order the requests were sent.
Replied(i, call) ==
  /\ op[i].life = "active"
  /\ op[i].call = call
  /\ op[i].answer # "waiting"
  /\ op[i].behind \/ op[i].stop \notin {"ok", "error"}

OwnerReplyFails(i) ==
  /\ Replied(i, "GetNameOwner")
  /\ op[i].answer = "error"
  /\ Settle(i, End(Answered(op[i]), "unavailable"))
  /\ UNCHANGED sys

\* StartUnit gives up before anything is sent: the lock file or the pipe is
\* unusable, or another helper's command holds the lock.
StartUnitRefused(i) ==
  /\ Replied(i, "GetNameOwner")
  /\ op[i].answer = "ok"
  /\ \/ /\ "setup" \in Faults
        /\ Settle(i, End(Answered(op[i]), "unavailable"))
     \/ /\ \E j \in Op \ {i} : HoldsLock(j)
        /\ Settle(i, End([Answered(op[i]) EXCEPT !.lock = "open"], "busy"))
  /\ UNCHANGED sys

StartUnit(i) ==
  /\ Replied(i, "GetNameOwner")
  /\ op[i].answer = "ok"
  /\ \A j \in Op \ {i} : ~HoldsLock(j)
  /\ Settle(i, [Send(op[i], "StartTransientUnit")
                  EXCEPT !.lock = "held", !.stream = "reading"])
  /\ sys' = [sys EXCEPT ![i].start = "transit"]

\* Mutated form: any error counts as a rejection.
RejectedByError(answer) == answer \in {"rejected", "error"}

\* Only an explicit error of systemd proves that no start job was accepted.
Rejected(answer) == answer = "rejected"

StartReply(i) ==
  LET o == Answered(op[i]) IN
  /\ Replied(i, "StartTransientUnit")
  /\ Settle(i,
       CASE op[i].answer = "ok" ->
              LET s == [o EXCEPT !.progress = "started"]
              IN  Send(IF o.cancelled THEN Stop(s) ELSE s, "GetUnit")
         [] Rejected(op[i].answer) -> Send(o, "UnrefRejected")
         [] OTHER -> Uncertain(o))
  /\ UNCHANGED sys

RejectedReply(i) ==
  /\ Replied(i, "UnrefRejected")
  /\ Settle(i, IF op[i].answer = "ok" THEN End(Answered(op[i]), "unavailable")
               ELSE Uncertain(Answered(op[i])))
  /\ UNCHANGED sys

GetUnitReply(i) ==
  /\ Replied(i, "GetUnit")
  /\ Settle(i, IF op[i].answer = "ok"
               THEN Poll([Answered(op[i]) EXCEPT !.progress = "located"])
               ELSE Uncertain(Answered(op[i])))
  /\ UNCHANGED sys

\* late: startup_deadline has passed while the start job is still queued.
UnitReply(i, late) ==
  LET o == Answered(op[i]) IN
  /\ Replied(i, "GetAllUnit")
  /\ late => op[i].answer = "queued" /\ o.stop = "none"
  /\ Settle(i,
       CASE op[i].answer = "terminal" -> Send(o, "GetAllService")
         [] op[i].answer = "error" -> Uncertain(o)
         [] OTHER -> IF late THEN Cancel([o EXCEPT !.status = "timeout"]) ELSE o)
  /\ UNCHANGED sys

\* The reference is kept while the control group is still occupied.
ServiceReply(i) ==
  LET o == Answered(op[i]) IN
  /\ Replied(i, "GetAllService")
  /\ Settle(i,
       CASE op[i].answer \in ExitAnswers ->
              Send([o EXCEPT !.status = Verdict(o, op[i].answer)], "UnrefUnit")
         [] op[i].answer = "occupied" -> o
         [] OTHER -> Uncertain(o))
  /\ UNCHANGED sys

UnrefReply(i) ==
  /\ Replied(i, "UnrefUnit")
  /\ Settle(i, IF op[i].answer = "ok"
               THEN EndIfDrained([Answered(op[i]) EXCEPT !.progress = "unreferenced"])
               ELSE Uncertain(Answered(op[i])))
  /\ UNCHANGED sys

StopReply(i) ==
  LET o == [op[i] EXCEPT !.stop = "done"] IN
  /\ op[i].life = "active"
  /\ op[i].stop \in {"ok", "error"}
  /\ ~op[i].behind
  /\ Settle(i, IF op[i].stop = "ok" THEN o ELSE Uncertain(o))
  /\ UNCHANGED sys

\* Once ending, an answer only stops being pending.
LateReply(i) ==
  /\ op[i].life = "ending"
  /\ \/ /\ op[i].call # "none" /\ op[i].answer # "waiting"
        /\ Settle(i, Answered(op[i]))
     \/ /\ op[i].stop \in {"ok", "error"}
        /\ Settle(i, [op[i] EXCEPT !.stop = "done"])
  /\ UNCHANGED sys

\* GDBus gives up on a call: no answer in 3 s, or the connection is closed.
CallFails(i) ==
  /\ "lost" \in Faults \/ op[i].conn = "closed"
  /\ \/ /\ op[i].call # "none" /\ op[i].answer = "waiting"
        /\ op' = [op EXCEPT ![i].answer = "error"]
     \/ /\ op[i].stop = "waiting"
        /\ op' = [op EXCEPT ![i].stop = "error"]
  /\ UNCHANGED sys

ReadEnd(i) ==
  /\ op[i].stream = "reading"
  /\ op[i].life = "active"
  /\ \/ /\ WriteEndsClosed(i)
        /\ Settle(i, EndIfDrained([op[i] EXCEPT !.stream = "eof"]))
     \/ /\ "read" \in Faults
        /\ Settle(i, Uncertain([op[i] EXCEPT !.stream = "closed"]))
  /\ UNCHANGED sys

ReadOverflow(i) ==
  /\ op[i].stream = "reading"
  /\ op[i].life = "active"
  /\ sys[i].procs \/ sys[i].exit # "none"
  /\ Settle(i, Cancel([op[i] EXCEPT !.status = "outputLimit"]))
  /\ UNCHANGED sys

\* End cancels the read in progress.
ReadCancelled(i) ==
  /\ op[i].stream = "reading"
  /\ op[i].life = "ending"
  /\ Settle(i, [op[i] EXCEPT !.stream = "closed"])
  /\ UNCHANGED sys

CloseDone(i) ==
  /\ op[i].closing
  /\ Settle(i, [op[i] EXCEPT !.closing = FALSE, !.conn = "closed"])
  /\ UNCHANGED sys

\* The 100 ms timer.  overdue: runtime_deadline has passed.
TimerTick(i, overdue) ==
  /\ op[i].life = "active"
  /\ op[i].progress \in {"started", "located"}
  /\ overdue => op[i].stop = "none"
  /\ Settle(i, Poll(IF overdue THEN Cancel([op[i] EXCEPT !.status = "timeout"])
                    ELSE op[i]))
  /\ UNCHANGED sys

TimerDeadline(i) ==
  /\ "deadline" \in Faults
  /\ op[i].life = "active"
  /\ Settle(i, Uncertain(op[i]))
  /\ UNCHANGED sys

ConnectionLost(i) ==
  /\ "closed" \in Faults
  /\ op[i].conn = "open" /\ op[i].life \in {"created", "active", "ending"}
  /\ Settle(i, Uncertain([op[i] EXCEPT !.conn = "closed"]))
  /\ UNCHANGED sys

\* The subscription exists from the answer to GetNameOwner until End.
OwnerChanged(i) ==
  /\ "owner" \in Faults
  /\ op[i].life = "active" /\ op[i].call # "GetNameOwner"
  /\ Settle(i, Uncertain(op[i]))
  /\ UNCHANGED sys

HelperCrashes(i) ==
  /\ "crash" \in Faults
  /\ op[i].life \in {"active", "ending"}
  /\ Settle(i, [Answered(op[i])
                  EXCEPT !.life = "crashed", !.stop = "done", !.closing = FALSE,
                         !.conn = "closed", !.stream = "closed", !.lock = "none"])
  /\ UNCHANGED sys

-----------------------------------------------------------------------------
(* systemd and the kernel.                                                 *)

\* Requests of one connection are served in the order they were sent.
Serving(i, call) ==
  /\ op[i].call = call
  /\ op[i].answer = "waiting"
  /\ op[i].conn = "open"
  /\ op[i].behind \/ op[i].stop # "waiting"

Reply(i, answer) == op' = [op EXCEPT ![i].answer = answer]

ServeOwner(i) ==
  /\ Serving(i, "GetNameOwner")
  /\ \/ Reply(i, "ok")
     \/ "setup" \in Faults /\ Reply(i, "error")
  /\ UNCHANGED sys

\* The start message is served even when its sender has given up or gone; a
\* sender that has gone holds no reference.
ReplyToStart(i, answer) ==
  IF op[i].call = "StartTransientUnit" /\ op[i].answer = "waiting"
  THEN Reply(i, answer) ELSE UNCHANGED op

AcceptStart(i) ==
  /\ sys[i].start = "transit"
  /\ sys' = [sys EXCEPT ![i].start = "served", ![i].unit = "queued",
                        ![i].ref = (op[i].conn = "open")]
  /\ ReplyToStart(i, "ok")

\* A refused unit may already have been created and referenced.
RejectStart(i) ==
  /\ "reject" \in Faults
  /\ sys[i].start = "transit"
  /\ \E unit \in {"absent", "stub"} :
       sys' = [sys EXCEPT ![i].start = "served", ![i].unit = unit,
                          ![i].ref = (unit = "stub" /\ op[i].conn = "open")]
  /\ ReplyToStart(i, "rejected")

ServeGetUnit(i) ==
  /\ Serving(i, "GetUnit")
  /\ Reply(i, IF sys[i].unit = "absent" THEN "error" ELSE "ok")
  /\ UNCHANGED sys

ObservedUnit(unit) ==
  CASE unit = "absent" -> "error"
    [] unit = "ended"  -> "terminal"
    [] unit = "queued" -> "queued"
    [] OTHER -> "other"

ServeGetAllUnit(i) ==
  /\ Serving(i, "GetAllUnit")
  /\ Reply(i, ObservedUnit(sys[i].unit))
  /\ UNCHANGED sys

\* A unit whose start job was cancelled has no exited main process.
ObservedService(s) ==
  CASE s.unit = "absent" -> "error"
    [] s.unit # "absent" /\ s.cgroup -> "occupied"
    [] OTHER -> IF s.exit = "none" THEN "nonzero" ELSE s.exit

ServeGetAllService(i) ==
  /\ Serving(i, "GetAllService")
  /\ Reply(i, ObservedService(sys[i]))
  /\ UNCHANGED sys

\* NoSuchUnit and NotReferenced count as released after a rejected start.
ServeUnref(i) ==
  /\ \/ Serving(i, "UnrefRejected") /\ Reply(i, "ok")
     \/ Serving(i, "UnrefUnit") /\ Reply(i, IF sys[i].ref THEN "ok" ELSE "error")
  /\ sys' = [sys EXCEPT ![i].ref = FALSE]

ServeStop(i) ==
  /\ op[i].stop = "waiting"
  /\ op[i].conn = "open"
  /\ op[i].behind => op[i].answer # "waiting"
  /\ op' = [op EXCEPT ![i].stop = IF sys[i].unit = "absent" THEN "error" ELSE "ok"]
  /\ sys' = [sys EXCEPT ![i].unit = CASE @ = "queued" -> "ended"
                                      [] @ = "running" -> "stopping"
                                      [] OTHER -> @]

UnitStarts(i) ==
  /\ sys[i].unit = "queued"
  /\ sys' = [sys EXCEPT ![i].unit = "running", ![i].procs = TRUE, ![i].cgroup = TRUE]
  /\ UNCHANGED op

\* The start job fails, for instance because the parent unit is going away.
UnitStartFails(i) ==
  /\ sys[i].unit = "queued"
  /\ sys' = [sys EXCEPT ![i].unit = "ended"]
  /\ UNCHANGED op

\* The main process is gone; after the final SIGKILL others may still exist.
UnitEnds(i) ==
  /\ sys[i].unit \in {"running", "stopping"}
  /\ \E exit \in ExitAnswers, procs \in BOOLEAN :
       sys' = [sys EXCEPT ![i].unit = "ended", ![i].exit = exit, ![i].procs = procs]
  /\ UNCHANGED op

LastProcessExits(i) ==
  /\ sys[i].unit = "ended" /\ sys[i].procs
  /\ sys' = [sys EXCEPT ![i].procs = FALSE]
  /\ UNCHANGED op

ReleaseControlGroup(i) ==
  /\ sys[i].unit = "ended" /\ ~sys[i].procs /\ sys[i].cgroup
  /\ sys' = [sys EXCEPT ![i].cgroup = FALSE]
  /\ UNCHANGED op

DropReference(i) ==
  /\ sys[i].ref /\ op[i].conn = "closed"
  /\ sys' = [sys EXCEPT ![i].ref = FALSE]
  /\ UNCHANGED op

Collect(i) ==
  /\ sys[i].unit \in {"stub", "ended"} /\ ~sys[i].ref /\ ~sys[i].cgroup
  /\ sys' = [sys EXCEPT ![i].unit = "absent"]
  /\ UNCHANGED op

-----------------------------------------------------------------------------
Handler(i) ==
  \/ Begin(i)
  \/ OwnerReplyFails(i)
  \/ StartUnitRefused(i)
  \/ StartUnit(i)
  \/ StartReply(i)
  \/ RejectedReply(i)
  \/ GetUnitReply(i)
  \/ \E late \in BOOLEAN : UnitReply(i, late)
  \/ ServiceReply(i)
  \/ UnrefReply(i)
  \/ StopReply(i)
  \/ LateReply(i)
  \/ CallFails(i)
  \/ ReadEnd(i)
  \/ ReadCancelled(i)
  \/ CloseDone(i)

Timer(i) == (\E overdue \in BOOLEAN : TimerTick(i, overdue)) \/ TimerDeadline(i)

Environment(i) ==
  \/ ClientCancels(i)
  \/ ReadOverflow(i)
  \/ ConnectionLost(i)
  \/ OwnerChanged(i)
  \/ HelperCrashes(i)

Serve(i) ==
  \/ ServeOwner(i)
  \/ AcceptStart(i)
  \/ RejectStart(i)
  \/ ServeGetUnit(i)
  \/ ServeGetAllUnit(i)
  \/ ServeGetAllService(i)
  \/ ServeUnref(i)
  \/ ServeStop(i)

Unit(i) ==
  \/ UnitStarts(i)
  \/ UnitStartFails(i)
  \/ UnitEnds(i)
  \/ LastProcessExits(i)
  \/ ReleaseControlGroup(i)
  \/ DropReference(i)
  \/ Collect(i)

\* Every command is over and systemd holds nothing for it.
Finished ==
  /\ \A i \in Op : op[i].life \in {"delivered", "crashed"} /\ ~HoldsLock(i)
  /\ UNCHANGED vars

Next ==
  \/ \E i \in Op : Handler(i) \/ Timer(i) \/ Environment(i) \/ Serve(i) \/ Unit(i)
  \/ Finished

Spec == Init /\ [][Next]_vars

\* The helper's main loop runs its callbacks and its deadline; nothing is
\* assumed of systemd.
HelperFairness ==
  \A i \in Op : WF_vars(Handler(i)) /\ WF_vars(TimerDeadline(i))

\* systemd serves what it was sent, stops units at their time limits and
\* reaps killed processes.
SystemdFairness == \A i \in Op : WF_vars(Serve(i)) /\ WF_vars(Unit(i))

FairSpec == Spec /\ HelperFairness

-----------------------------------------------------------------------------
(* Properties.                                                             *)

\* What "the backend may still touch the hardware" means.
Live(i) ==
  \/ sys[i].start = "transit"
  \/ sys[i].unit \in {"queued", "running", "stopping"}
  \/ sys[i].procs

\* The shared lock file serializes the backends of all helpers: at most one
\* command has living processes, also while a helper that died or gave up
\* has left its unit behind (managed_command.h:46-48).
OneBackendAtATime ==
  \A i, j \in Op : sys[i].procs /\ sys[j].procs => i = j

\* A command that ends with any status but cleanupFailed leaves no start in
\* transit, no job and no living process: the next write cannot overlap it.
ConfirmedCleanup ==
  \A i \in Op :
    op[i].life \in {"ending", "delivered"} /\ op[i].status # "cleanupFailed" => ~Live(i)

\* Every verdict about the backend's work is given when its unit is gone, so
\* the lock is free again and the helper's next command is not refused Busy
\* by this one; success moreover means that the main process exited with 0.
SettledVerdict ==
  \A i \in Op :
    op[i].life = "delivered"
      /\ op[i].status \in {"success", "commandFailed", "timeout", "outputLimit"}
    => ~HoldsLock(i) /\ (op[i].status = "success" => sys[i].exit = "zero")

\* No completed operation and no dead helper keeps a unit referenced through
\* an open connection: systemd could never collect it nor release the lock.
NoPinnedUnit ==
  \A i \in Op :
    op[i].life \in {"delivered", "crashed"} /\ sys[i].ref => op[i].conn = "closed"

\* Whatever systemd does, an operation that has begun is delivered.
EventuallyDelivered ==
  \A i \in Op : op[i].life = "active" ~> op[i].life \in {"delivered", "crashed"}

\* Once an operation is over, or its helper is dead, the lock becomes free,
\* provided systemd keeps stopping and collecting units.
LockEventuallyFree ==
  SystemdFairness =>
  \A i \in Op : op[i].life \in {"delivered", "crashed"} ~> ~HoldsLock(i)

\* What the users of the runner see of a command.
Abstract ==
  [i \in Op |->
     [phase   |-> CASE op[i].life = "created" -> "idle"
                    [] op[i].life \in {"active", "ending"} -> "running"
                    [] op[i].life = "delivered" -> "over"
                    [] OTHER -> "dead",
      status  |-> IF op[i].life = "delivered" THEN op[i].status ELSE "none",
      backend |-> IF sys[i].start = "none" THEN "none"
                  ELSE IF Live(i) THEN "live" ELSE "gone"]]

Runner == INSTANCE CommandRunner WITH cmd <- Abstract

\* Operation implements the promise of ManagedCommandRunner
\* (managed_command.h:32-53): one completion, one launch, never beside the
\* backend of another command, and an honest status.
ImplementsRunner == Runner!Spec

\* portable-control.md:249-254: the reference is released only after the
\* empty control group was seen, and uncertain cleanup disables further
\* writes.  Hence without any failure of the environment the cleanup is
\* certain, and no command may end cleanupFailed.
CertainCleanupStaysUsable ==
  Faults = {} => \A i \in Op : op[i].status # "cleanupFailed"
=============================================================================
