------------------------- MODULE ManagedCommandProofs -------------------------
(***************************************************************************)
(* Safety of ManagedCommand, and the promise of CommandRunner that it      *)
(* keeps, for every set of commands and every set of failures.             *)
(*                                                                         *)
(* The invariants are not inductive by themselves: what a reply on its way *)
(* back says about the unit must still hold when the helper acts on it.    *)
(* UnitInv, CallInv and EndInv relate one command's object state o to      *)
(* systemd's state s of the same command; LockInv relates two commands.    *)
(*                                                                         *)
(* What ControlService and its proofs rely on, CommandRunner, is what      *)
(* managed_command.cc does: a step concerns one command. A handler moves   *)
(* its phase and leaves its backend alone, except StartUnit, which         *)
(* launches it; systemd moves the backend and leaves the phase alone.      *)
(***************************************************************************)
EXTENDS ManagedCommand, TLAPS

\* No job is left, no backend process and no reported control group.
Quiet(s) == s.start = "served" /\ s.unit \in {"ended", "absent"}
Clean(s) == Quiet(s) /\ ~s.procs /\ ~s.cgroup
Refused(s) == s.start = "served" /\ s.unit \in {"absent", "stub"}
Verdicts == {"success", "commandFailed", "timeout", "outputLimit"}

\* systemd's side: processes live in the reported control group of a unit.
UnitInv(s) ==
  /\ s.start # "served" => s.unit = "absent" /\ ~s.ref
  /\ s.unit \in {"absent", "stub", "queued"} => ~s.procs /\ ~s.cgroup
  /\ s.procs => s.cgroup
  /\ s.unit \in {"running", "stopping"} => s.cgroup

\* What the helper has been told, or is about to be told, stays true.
CallInv(o, s) ==
  /\ o.life = "created" => s.start = "none" /\ o.progress = "unstarted" /\ o.call = "none"
  /\ o.call = "GetNameOwner" => s.start = "none" /\ o.progress = "unstarted"
  /\ o.call = "StartTransientUnit" =>
       /\ s.start # "none"
       /\ o.answer = "ok" => s.start = "served"
       /\ o.answer = "rejected" => Refused(s)
  /\ o.call = "UnrefRejected" => Refused(s) /\ (o.answer = "ok" => ~s.ref)
  /\ o.call \in {"GetUnit", "GetAllUnit"} => s.start = "served"
  /\ o.call = "GetAllUnit" /\ o.answer = "terminal" => Quiet(s)
  /\ o.call = "GetAllService" =>
       /\ Quiet(s)
       /\ o.answer \in ExitAnswers => Clean(s)
       /\ o.answer = "zero" => s.exit = "zero"
  /\ o.call = "UnrefUnit" => Clean(s) /\ (o.answer = "ok" => ~s.ref)
  /\ o.progress # "unstarted" => s.start = "served"
  /\ o.progress = "unreferenced" => Clean(s) /\ ~s.ref

\* What the helper promises when it ends.
EndInv(o, s) ==
  /\ o.life \in {"created", "active"} => o.status \in Verdicts
  /\ o.status = "success" => Quiet(s) /\ s.exit = "zero"
  /\ o.stream = "reading" => s.start # "none"
  /\ o.stream = "eof" => s.start = "served" /\ s.unit = "absent"
  /\ o.life \in {"ending", "delivered"} /\ o.status # "cleanupFailed" =>
       /\ s.start # "transit" /\ ~s.ref /\ ~s.procs
       /\ s.unit \notin {"queued", "running", "stopping"}
  /\ o.life \in {"ending", "delivered"} /\ o.status = "cleanupFailed" =>
       o.closing \/ o.conn = "closed"
  /\ o.life \in {"ending", "delivered"} /\ o.status \in Verdicts => o.stream = "eof"
  /\ o.life = "delivered" => ~o.closing /\ o.lock = "none"
  /\ o.life = "crashed" => o.conn = "closed"

CommandInv(o, s) == UnitInv(s) /\ CallInv(o, s) /\ EndInv(o, s)

Sound(o, s) == o \in OpState /\ s \in SysState /\ CommandInv(o, s)

LockInv == \A i, j \in Op : HoldsLock(i) /\ HoldsLock(j) => i = j

IInv ==
  /\ TypeOK
  /\ \A i \in Op : CommandInv(op[i], sys[i])
  /\ LockInv
-----------------------------------------------------------------------------
(* The helper's methods keep one command sound.                            *)

\* Deliver runs when nothing is outstanding, and changes nothing else.
LEMMA DeliverKeeps ==
  ASSUME NEW o, NEW s, Sound(o, s)
  PROVE  Sound(Deliver(o), s) /\ Deliver(o).lock \in {o.lock, "none"}
<1>. DEFINE n == [o EXCEPT !.life = "delivered", !.lock = "none"]
<1>1. CASE o.life = "ending" /\ ~Pending(o) /\ o.stream # "reading"
  <2>1. Deliver(o) = n
    BY <1>1 DEF Deliver
  <2>2. n \in OpState /\ n.lock = "none"
    BY DEF Sound, OpState
  <2>3. CallInv(n, s)
    BY <1>1 DEF Sound, OpState, CommandInv, CallInv
  <2>4. EndInv(n, s)
    BY <1>1 DEF Sound, OpState, CommandInv, EndInv, Pending
  <2>. HIDE DEF n
  <2>. QED BY <2>1, <2>2, <2>3, <2>4 DEF Sound, CommandInv
<1>2. CASE ~(o.life = "ending" /\ ~Pending(o) /\ o.stream # "reading")
  BY <1>2 DEF Deliver
<1>. QED BY <1>1, <1>2

\* Giving up: only the connection has to go.
LEMMA UncertainKeeps ==
  ASSUME NEW o, NEW s, Sound(o, s)
  PROVE  Sound(Uncertain(o), s) /\ Uncertain(o).lock = o.lock
<1>. DEFINE n == [o EXCEPT !.life = "ending", !.status = "cleanupFailed",
                           !.closing = (o.conn = "open")]
<1>1. CASE o.life = "active"
  <2>1. Uncertain(o) = n
    BY <1>1 DEF Uncertain, End
  <2>a. "cleanupFailed" \in ManagedCommandStatus /\ (o.conn = "open") \in BOOLEAN
    BY DEF ManagedCommandStatus
  <2>2. n \in OpState /\ n.lock = o.lock
    BY <2>a DEF Sound, OpState
  <2>3. CallInv(n, s)
    BY <1>1 DEF Sound, OpState, CommandInv, CallInv
  <2>4. EndInv(n, s)
    BY <1>1 DEF Sound, OpState, CommandInv, EndInv, Verdicts
  <2>. HIDE DEF n
  <2>. QED BY <2>1, <2>2, <2>3, <2>4 DEF Sound, CommandInv
<1>2. CASE o.life # "active"
  BY <1>2 DEF Uncertain, End
<1>. QED BY <1>1, <1>2

\* A confirmed end: nothing is live, and a verdict comes after the output.
LEMMA EndKeeps ==
  ASSUME NEW o, NEW s, Sound(o, s),
         NEW st \in ManagedCommandStatus \ {"cleanupFailed"},
         s.start # "transit" /\ ~s.ref /\ ~s.procs,
         s.unit \notin {"queued", "running", "stopping"},
         st \in Verdicts => o.stream = "eof",
         st = "success" => o.status = "success"
  PROVE  Sound(End(o, st), s) /\ End(o, st).lock = o.lock
<1>. DEFINE n == [o EXCEPT !.life = "ending", !.status = st,
                           !.closing = (st = "cleanupFailed" /\ o.conn = "open")]
<1>1. CASE o.life = "active"
  <2>1. End(o, st) = n
    BY <1>1 DEF End
  <2>2. n \in OpState /\ n.lock = o.lock
    BY DEF Sound, OpState
  <2>3. CallInv(n, s)
    BY <1>1 DEF Sound, OpState, CommandInv, CallInv
  <2>4. EndInv(n, s)
    BY <1>1 DEF Sound, OpState, CommandInv, EndInv, Verdicts
  <2>. HIDE DEF n
  <2>. QED BY <2>1, <2>2, <2>3, <2>4 DEF Sound, CommandInv
<1>2. CASE o.life # "active"
  BY <1>2 DEF End
<1>. QED BY <1>1, <1>2

\* The invariant says nothing of the stop request and the mark of a cancel.
LEMMA AgreementKeeps ==
  ASSUME NEW o, NEW s, Sound(o, s), NEW n \in OpState,
         n.life = o.life, n.call = o.call, n.answer = o.answer,
         n.closing = o.closing, n.conn = o.conn, n.stream = o.stream,
         n.progress = o.progress, n.status = o.status, n.lock = o.lock
  PROVE  Sound(n, s)
BY DEF Sound, CommandInv, CallInv, EndInv

LEMMA StopKeeps ==
  ASSUME NEW o, NEW s, Sound(o, s)
  PROVE  /\ Sound(Stop(o), s) /\ Stop(o).lock = o.lock /\ Stop(o).life = o.life
         /\ Stop(o).call = o.call /\ Stop(o).progress = o.progress
<1>. DEFINE n == [o EXCEPT !.stop = "waiting", !.behind = (o.call # "none")]
<1>1. CASE o.stop # "none"
  BY <1>1 DEF Stop
<1>2. CASE o.stop = "none"
  <2>1. Stop(o) = n
    BY <1>2 DEF Stop
  <2>2. (o.call # "none") \in BOOLEAN
    OBVIOUS
  <2>3. n \in OpState
    BY <2>2 DEF Sound, OpState
  <2>4. /\ n.life = o.life /\ n.call = o.call /\ n.answer = o.answer
        /\ n.closing = o.closing /\ n.conn = o.conn /\ n.stream = o.stream
        /\ n.progress = o.progress /\ n.status = o.status /\ n.lock = o.lock
    BY DEF Sound, OpState
  <2>. HIDE DEF n
  <2>. QED BY <2>1, <2>3, <2>4, AgreementKeeps
<1>. QED BY <1>1, <1>2

LEMMA CancelKeeps ==
  ASSUME NEW o, NEW s, Sound(o, s)
  PROVE  /\ Sound(Cancel(o), s) /\ Cancel(o).lock = o.lock
         /\ Cancel(o).life = o.life /\ Cancel(o).call = o.call
<1>. DEFINE n == [o EXCEPT !.cancelled = TRUE]
<1>1. n \in OpState
  BY DEF Sound, OpState
<1>2. /\ n.life = o.life /\ n.call = o.call /\ n.answer = o.answer
      /\ n.closing = o.closing /\ n.conn = o.conn /\ n.stream = o.stream
      /\ n.progress = o.progress /\ n.status = o.status /\ n.lock = o.lock
  BY DEF Sound, OpState
<1>3. Cancel(o) \in {n, Stop(n)}
  BY DEF Cancel
<1>. HIDE DEF n
<1>4. Sound(n, s)
  BY <1>1, <1>2, AgreementKeeps
<1>. QED BY <1>2, <1>3, <1>4, StopKeeps

\* A handled answer is forgotten.
LEMMA AnsweredKeeps ==
  ASSUME NEW o, NEW s, Sound(o, s), o.life # "created"
  PROVE  LET n == Answered(o) IN
         /\ Sound(n, s)
         /\ n.call = "none"
         /\ n.life = o.life /\ n.progress = o.progress /\ n.stream = o.stream
         /\ n.status = o.status /\ n.cancelled = o.cancelled /\ n.lock = o.lock
         /\ n.closing = o.closing /\ n.conn = o.conn
<1>. DEFINE n == Answered(o)
<1>1. n \in OpState
  BY DEF Sound, OpState, Answered, Answers
<1>2. /\ n.life = o.life /\ n.call = "none" /\ n.closing = o.closing
      /\ n.conn = o.conn /\ n.stream = o.stream /\ n.cancelled = o.cancelled
      /\ n.progress = o.progress /\ n.status = o.status /\ n.lock = o.lock
  BY DEF Sound, OpState, Answered
<1>. HIDE DEF n
<1>3. CommandInv(n, s)
  BY <1>2 DEF Sound, CommandInv, CallInv, EndInv
<1>. QED BY <1>1, <1>2, <1>3 DEF Sound, n

\* What must hold of the unit when a polling call is sent.
LEMMA SendKeeps ==
  ASSUME NEW o, NEW s, Sound(o, s), o.life # "created",
         NEW c \in Calls \ {"GetNameOwner", "StartTransientUnit"},
         c = "UnrefRejected" => Refused(s),
         c \in {"GetUnit", "GetAllUnit"} => s.start = "served",
         c = "GetAllService" => Quiet(s),
         c = "UnrefUnit" => Clean(s)
  PROVE  Sound(Send(o, c), s) /\ Send(o, c).lock = o.lock
<1>. DEFINE n == Send(o, c)
<1>1. n \in OpState
  BY DEF Sound, OpState, Send, Answers
<1>2. /\ n.life = o.life /\ n.call = c /\ n.answer = "waiting"
      /\ n.closing = o.closing /\ n.conn = o.conn /\ n.stream = o.stream
      /\ n.progress = o.progress /\ n.status = o.status /\ n.lock = o.lock
  BY DEF Sound, OpState, Send
<1>. HIDE DEF n
<1>3. CallInv(n, s)
  BY <1>2 DEF Sound, CommandInv, CallInv, ExitAnswers
<1>4. EndInv(n, s)
  BY <1>2 DEF Sound, CommandInv, EndInv
<1>. QED BY <1>1, <1>2, <1>3, <1>4 DEF Sound, CommandInv, n

\* A located unit is polled when nothing is outstanding.
LEMMA PollKeeps ==
  ASSUME NEW o, NEW s, Sound(o, s), o.life # "created"
  PROVE  Sound(Poll(o), s) /\ Poll(o).lock = o.lock
<1>1. CASE o.progress = "located" /\ o.call = "none"
  <2>1. s.start = "served"
    BY <1>1 DEF Sound, CommandInv, CallInv
  <2>2. Poll(o) = Send(o, "GetAllUnit")
    BY <1>1 DEF Poll
  <2>. QED BY <2>1, <2>2, SendKeeps DEF Calls
<1>2. CASE ~(o.progress = "located" /\ o.call = "none")
  BY <1>2 DEF Poll
<1>. QED BY <1>1, <1>2

-----------------------------------------------------------------------------
(* A step concerns one command; the lock is only taken when it is free.    *)

LEMMA SoundNow ==
  ASSUME IInv, NEW i \in Op
  PROVE  Sound(op[i], sys[i])
BY DEF IInv, TypeOK, Sound

LEMMA StepOfOne ==
  ASSUME IInv, NEW i \in Op, NEW o, NEW s, Sound(o, s),
         op' = [op EXCEPT ![i] = o], sys' = [sys EXCEPT ![i] = s],
         \/ o.lock = "held" => op[i].lock = "held"
         \/ \A j \in Op \ {i} : ~HoldsLock(j),
         \/ s.start = "transit" \/ s.unit # "absent" \/ s.procs =>
              sys[i].start = "transit" \/ sys[i].unit # "absent" \/ sys[i].procs
         \/ \A j \in Op \ {i} : ~HoldsLock(j)
  PROVE  IInv'
<1>1. TypeOK'
  BY DEF IInv, TypeOK, Sound
<1>2. ASSUME NEW j \in Op
      PROVE  op'[j] = (IF j = i THEN o ELSE op[j]) /\ sys'[j] = (IF j = i THEN s ELSE sys[j])
  BY DEF IInv, TypeOK
<1>3. ASSUME NEW j \in Op
      PROVE  CommandInv(op'[j], sys'[j])
  BY <1>2, <1>3 DEF IInv, Sound
<1>4. ASSUME NEW j \in Op, HoldsLock(j)', j # i
      PROVE  HoldsLock(j)
  BY <1>2, <1>4 DEF HoldsLock
<1>5. ASSUME HoldsLock(i)'
      PROVE  HoldsLock(i) \/ \A j \in Op \ {i} : ~HoldsLock(j)
  BY <1>2, <1>5 DEF HoldsLock
<1>6. ASSUME NEW j \in Op, NEW k \in Op, HoldsLock(j)', HoldsLock(k)'
      PROVE  j = k
  <2>1. CASE j # i /\ k # i
    BY <1>4, <1>6, <2>1 DEF IInv, LockInv
  <2>2. CASE j = i \/ k = i
    BY <1>4, <1>5, <1>6, <2>2 DEF IInv, LockInv
  <2>. QED BY <2>1, <2>2
<1>7. LockInv'
  BY <1>6 DEF LockInv
<1>8. (\A j \in Op : CommandInv(op[j], sys[j]))'
  BY <1>3
<1>. QED BY <1>1, <1>7, <1>8 DEF IInv

\* A handler of the helper, with the delivery that may follow it.
LEMMA HandlerStep ==
  ASSUME IInv, NEW i \in Op, NEW o, Sound(o, sys[i]),
         o.lock = "held" => op[i].lock = "held",
         Settle(i, o), UNCHANGED sys
  PROVE  IInv'
<1>1. Sound(Deliver(o), sys[i]) /\ (Deliver(o).lock = "held" => op[i].lock = "held")
  BY DeliverKeeps
<1>2. sys' = [sys EXCEPT ![i] = sys[i]]
  BY DEF IInv, TypeOK
<1>. QED BY <1>1, <1>2, StepOfOne DEF Settle

\* A step of systemd that takes no lock.
LEMMA SystemStep ==
  ASSUME IInv, NEW i \in Op, NEW s, Sound(op[i], s),
         s.start = "transit" \/ s.unit # "absent" \/ s.procs =>
           sys[i].start = "transit" \/ sys[i].unit # "absent" \/ sys[i].procs,
         UNCHANGED op, sys' = [sys EXCEPT ![i] = s]
  PROVE  IInv'
<1>1. op' = [op EXCEPT ![i] = op[i]]
  BY DEF IInv, TypeOK
<1>. QED BY <1>1, StepOfOne

-----------------------------------------------------------------------------
(* Each action preserves the invariant.                                    *)

\* What the handler of a reply may rely on.
LEMMA ReplyFacts ==
  ASSUME IInv, NEW i \in Op, NEW c \in Calls, Replied(i, c)
  PROVE  LET a == Answered(op[i]) IN
         /\ Sound(a, sys[i])
         /\ a.call = "none" /\ a.life = "active" /\ a.lock = op[i].lock
         /\ a.progress = op[i].progress /\ a.stream = op[i].stream
         /\ a.status = op[i].status /\ a.status \in Verdicts
<1>1. Sound(op[i], sys[i]) /\ op[i].life = "active"
  BY SoundNow DEF Replied
<1>2. op[i].status \in Verdicts
  BY <1>1 DEF Sound, CommandInv, EndInv
<1>. QED BY <1>1, <1>2, AnsweredKeeps

LEMMA BeginStep ==
  ASSUME IInv, NEW i \in Op, Begin(i)
  PROVE  IInv'
<1>. DEFINE o == op[i]
            n == [Send(o, "GetNameOwner") EXCEPT !.life = "active"]
<1>1. Sound(o, sys[i]) /\ o.life = "created"
  BY SoundNow DEF Begin
<1>2. n \in OpState
  BY <1>1 DEF Sound, OpState, Send, Answers, Calls
<1>3. /\ n.life = "active" /\ n.call = "GetNameOwner" /\ n.answer = "waiting"
      /\ n.closing = o.closing /\ n.conn = o.conn /\ n.stream = o.stream
      /\ n.progress = o.progress /\ n.status = o.status /\ n.lock = o.lock
  BY <1>1 DEF Sound, OpState, Send
<1>4. Settle(i, n) /\ UNCHANGED sys
  BY DEF Begin
<1>. HIDE DEF n
<1>5. CallInv(n, sys[i])
  BY <1>1, <1>3 DEF Sound, CommandInv, CallInv
<1>6. EndInv(n, sys[i])
  BY <1>1, <1>3 DEF Sound, CommandInv, EndInv
<1>7. Sound(n, sys[i])
  BY <1>1, <1>2, <1>5, <1>6 DEF Sound, CommandInv
<1>. QED BY <1>3, <1>4, <1>7, HandlerStep

LEMMA OwnerReplyFailsStep ==
  ASSUME IInv, NEW i \in Op, OwnerReplyFails(i)
  PROVE  IInv'
<1>. DEFINE a == Answered(op[i])
<1>1. Replied(i, "GetNameOwner") /\ Settle(i, End(a, "unavailable")) /\ UNCHANGED sys
  BY DEF OwnerReplyFails
<1>2. Sound(a, sys[i]) /\ a.lock = op[i].lock
  BY <1>1, ReplyFacts DEF Calls
<1>3. sys[i].start = "none"
  BY <1>1, SoundNow DEF Sound, CommandInv, CallInv, Replied
<1>4. sys[i].unit = "absent" /\ ~sys[i].ref /\ ~sys[i].procs
  BY <1>2, <1>3 DEF Sound, CommandInv, UnitInv
<1>5. Sound(End(a, "unavailable"), sys[i]) /\ End(a, "unavailable").lock = op[i].lock
  <2>. HIDE DEF a
  <2>. QED BY <1>2, <1>3, <1>4, EndKeeps DEF ManagedCommandStatus, Verdicts
<1>. QED BY <1>1, <1>5, HandlerStep

LEMMA StartUnitRefusedStep ==
  ASSUME IInv, NEW i \in Op, StartUnitRefused(i)
  PROVE  IInv'
<1>. DEFINE a == Answered(op[i])
            b == [a EXCEPT !.lock = "open"]
<1>1. Replied(i, "GetNameOwner") /\ UNCHANGED sys
  BY DEF StartUnitRefused
<1>2. Settle(i, End(a, "unavailable")) \/ Settle(i, End(b, "busy"))
  BY DEF StartUnitRefused
<1>3. Sound(a, sys[i]) /\ a.lock = op[i].lock /\ a.life = "active" /\ a.call = "none"
  BY <1>1, ReplyFacts DEF Calls
<1>4. sys[i].start = "none"
  BY <1>1, SoundNow DEF Sound, CommandInv, CallInv, Replied
<1>5. sys[i].unit = "absent" /\ ~sys[i].ref /\ ~sys[i].procs
  BY <1>3, <1>4 DEF Sound, CommandInv, UnitInv
<1>. HIDE DEF a
<1>6. b \in OpState
  BY <1>3 DEF Sound, OpState
<1>7. /\ b.life = a.life /\ b.call = a.call /\ b.answer = a.answer
      /\ b.closing = a.closing /\ b.conn = a.conn /\ b.stream = a.stream
      /\ b.progress = a.progress /\ b.status = a.status /\ b.lock = "open"
  BY <1>3 DEF Sound, OpState
<1>8. Sound(b, sys[i])
  <2>. HIDE DEF b
  <2>1. CallInv(b, sys[i])
    BY <1>3, <1>7 DEF Sound, CommandInv, CallInv
  <2>2. EndInv(b, sys[i])
    BY <1>3, <1>7 DEF Sound, CommandInv, EndInv
  <2>. QED BY <1>3, <1>6, <2>1, <2>2 DEF Sound, CommandInv
<1>. HIDE DEF b
<1>9. Sound(End(a, "unavailable"), sys[i]) /\ End(a, "unavailable").lock = op[i].lock
  BY <1>3, <1>4, <1>5, EndKeeps DEF ManagedCommandStatus, Verdicts
<1>10. Sound(End(b, "busy"), sys[i]) /\ End(b, "busy").lock = "open"
  BY <1>7, <1>8, <1>4, <1>5, EndKeeps DEF ManagedCommandStatus, Verdicts
<1>11. CASE Settle(i, End(a, "unavailable"))
  BY <1>1, <1>9, <1>11, HandlerStep
<1>12. CASE Settle(i, End(b, "busy"))
  BY <1>1, <1>10, <1>12, HandlerStep
<1>. QED BY <1>2, <1>11, <1>12

\* The only step that takes the lock: no other command holds it.
LEMMA StartUnitStep ==
  ASSUME IInv, NEW i \in Op, StartUnit(i)
  PROVE  IInv'
<1>. DEFINE o == op[i]
            n == [Send(o, "StartTransientUnit") EXCEPT !.lock = "held", !.stream = "reading"]
            s == [sys[i] EXCEPT !.start = "transit"]
<1>1. Sound(o, sys[i]) /\ o.life = "active" /\ o.call = "GetNameOwner"
  BY SoundNow DEF StartUnit, Replied
<1>2. /\ Settle(i, n)
      /\ sys' = [sys EXCEPT ![i] = s]
      /\ \A j \in Op \ {i} : ~HoldsLock(j)
  BY DEF StartUnit
<1>3. n \in OpState
  BY <1>1 DEF Sound, OpState, Send, Answers, Calls
<1>4. /\ n.life = "active" /\ n.call = "StartTransientUnit" /\ n.answer = "waiting"
      /\ n.closing = o.closing /\ n.conn = o.conn /\ n.stream = "reading"
      /\ n.progress = o.progress /\ n.status = o.status /\ n.lock = "held"
  BY <1>1 DEF Sound, OpState, Send
<1>5. s \in SysState
  BY <1>1 DEF Sound, SysState
<1>6. /\ s.start = "transit" /\ s.unit = sys[i].unit /\ s.ref = sys[i].ref
      /\ s.procs = sys[i].procs /\ s.cgroup = sys[i].cgroup /\ s.exit = sys[i].exit
  BY <1>1 DEF Sound, SysState
<1>7. sys[i].start = "none" /\ o.progress = "unstarted"
  BY <1>1 DEF Sound, CommandInv, CallInv
<1>. HIDE DEF n, s
<1>8. UnitInv(s)
  BY <1>1, <1>6, <1>7 DEF Sound, CommandInv, UnitInv
<1>9. CallInv(n, s)
  BY <1>4, <1>6, <1>7 DEF CallInv
<1>10. EndInv(n, s)
  BY <1>1, <1>4, <1>6, <1>7 DEF Sound, CommandInv, EndInv, Quiet
<1>11. Sound(n, s)
  BY <1>3, <1>5, <1>8, <1>9, <1>10 DEF Sound, CommandInv
<1>12. Sound(Deliver(n), s)
  BY <1>11, DeliverKeeps
<1>. QED BY <1>2, <1>12, StepOfOne DEF Settle

\* The unit is known to exist once the start job was accepted.
LEMMA ProgressKeeps ==
  ASSUME NEW o, NEW s, Sound(o, s), o.call = "none", o.life = "active",
         NEW p \in {"started", "located"}, s.start = "served"
  PROVE  LET n == [o EXCEPT !.progress = p]
         IN  Sound(n, s) /\ n.lock = o.lock /\ n.life = "active"
<1>. DEFINE n == [o EXCEPT !.progress = p]
<1>1. n \in OpState
  BY DEF Sound, OpState
<1>2. /\ n.life = o.life /\ n.call = o.call /\ n.answer = o.answer
      /\ n.closing = o.closing /\ n.conn = o.conn /\ n.stream = o.stream
      /\ n.progress = p /\ n.status = o.status /\ n.lock = o.lock
  BY DEF Sound, OpState
<1>. HIDE DEF n
<1>3. CommandInv(n, s)
  BY <1>2 DEF Sound, CommandInv, CallInv, EndInv
<1>. QED BY <1>1, <1>2, <1>3 DEF Sound, n

\* A limit was hit: the status is remembered for the verdict.
LEMMA LimitKeeps ==
  ASSUME NEW o, NEW s, Sound(o, s), o.life = "active",
         NEW st \in {"timeout", "outputLimit"}
  PROVE  LET n == [o EXCEPT !.status = st]
         IN  Sound(n, s) /\ n.lock = o.lock /\ n.life = "active"
<1>. DEFINE n == [o EXCEPT !.status = st]
<1>1. n \in OpState
  BY DEF Sound, OpState, ManagedCommandStatus
<1>2. /\ n.life = o.life /\ n.call = o.call /\ n.answer = o.answer
      /\ n.closing = o.closing /\ n.conn = o.conn /\ n.stream = o.stream
      /\ n.progress = o.progress /\ n.status = st /\ n.lock = o.lock
  BY DEF Sound, OpState
<1>. HIDE DEF n
<1>3. CommandInv(n, s)
  BY <1>2 DEF Sound, CommandInv, CallInv, EndInv, Verdicts
<1>. QED BY <1>1, <1>2, <1>3 DEF Sound, n

LEMMA StartReplyStep ==
  ASSUME IInv, NEW i \in Op, StartReply(i)
  PROVE  IInv'
<1>. DEFINE a == Answered(op[i])
            b == [a EXCEPT !.progress = "started"]
            c == IF a.cancelled THEN Stop(b) ELSE b
<1>1. Replied(i, "StartTransientUnit") /\ UNCHANGED sys
  BY DEF StartReply
<1>2. \/ op[i].answer = "ok" /\ Settle(i, Send(c, "GetUnit"))
      \/ op[i].answer = "rejected" /\ Settle(i, Send(a, "UnrefRejected"))
      \/ Settle(i, Uncertain(a))
  BY DEF StartReply, Rejected
<1>3. Sound(a, sys[i]) /\ a.lock = op[i].lock /\ a.life = "active" /\ a.call = "none"
  BY <1>1, ReplyFacts DEF Calls
<1>4. /\ op[i].answer = "ok" => sys[i].start = "served"
      /\ op[i].answer = "rejected" => Refused(sys[i])
  BY <1>1, SoundNow DEF Sound, CommandInv, CallInv, Replied
<1>. HIDE DEF a
<1>5. CASE op[i].answer = "ok" /\ Settle(i, Send(c, "GetUnit"))
  <2>1. Sound(b, sys[i]) /\ b.lock = op[i].lock /\ b.life = "active"
    BY <1>3, <1>4, <1>5, ProgressKeeps
  <2>. HIDE DEF b
  <2>2. Sound(c, sys[i]) /\ c.lock = op[i].lock /\ c.life = "active"
    BY <2>1, StopKeeps
  <2>. HIDE DEF c
  <2>3. Sound(Send(c, "GetUnit"), sys[i]) /\ Send(c, "GetUnit").lock = op[i].lock
    BY <1>4, <1>5, <2>2, SendKeeps DEF Calls
  <2>. QED BY <1>1, <1>5, <2>3, HandlerStep
<1>6. CASE op[i].answer = "rejected" /\ Settle(i, Send(a, "UnrefRejected"))
  <2>1. Sound(Send(a, "UnrefRejected"), sys[i]) /\ Send(a, "UnrefRejected").lock = op[i].lock
    BY <1>3, <1>4, <1>6, SendKeeps DEF Calls
  <2>. QED BY <1>1, <1>6, <2>1, HandlerStep
<1>7. CASE Settle(i, Uncertain(a))
  BY <1>1, <1>3, <1>7, UncertainKeeps, HandlerStep
<1>. QED BY <1>2, <1>5, <1>6, <1>7

LEMMA RejectedReplyStep ==
  ASSUME IInv, NEW i \in Op, RejectedReply(i)
  PROVE  IInv'
<1>. DEFINE a == Answered(op[i])
<1>1. Replied(i, "UnrefRejected") /\ UNCHANGED sys
  BY DEF RejectedReply
<1>2. \/ op[i].answer = "ok" /\ Settle(i, End(a, "unavailable"))
      \/ Settle(i, Uncertain(a))
  BY DEF RejectedReply
<1>3. Sound(a, sys[i]) /\ a.lock = op[i].lock
  BY <1>1, ReplyFacts DEF Calls
<1>4. Refused(sys[i]) /\ (op[i].answer = "ok" => ~sys[i].ref)
  BY <1>1, SoundNow DEF Sound, CommandInv, CallInv, Replied
<1>5. ~sys[i].procs
  BY <1>3, <1>4 DEF Sound, CommandInv, UnitInv, Refused
<1>. HIDE DEF a
<1>6. CASE op[i].answer = "ok" /\ Settle(i, End(a, "unavailable"))
  <2>1. Sound(End(a, "unavailable"), sys[i]) /\ End(a, "unavailable").lock = op[i].lock
    BY <1>3, <1>4, <1>5, <1>6, EndKeeps DEF Refused, ManagedCommandStatus, Verdicts
  <2>. QED BY <1>1, <1>6, <2>1, HandlerStep
<1>7. CASE Settle(i, Uncertain(a))
  BY <1>1, <1>3, <1>7, UncertainKeeps, HandlerStep
<1>. QED BY <1>2, <1>6, <1>7

LEMMA GetUnitReplyStep ==
  ASSUME IInv, NEW i \in Op, GetUnitReply(i)
  PROVE  IInv'
<1>. DEFINE a == Answered(op[i])
            b == [a EXCEPT !.progress = "located"]
<1>1. Replied(i, "GetUnit") /\ UNCHANGED sys
  BY DEF GetUnitReply
<1>2. Settle(i, Poll(b)) \/ Settle(i, Uncertain(a))
  BY DEF GetUnitReply
<1>3. Sound(a, sys[i]) /\ a.lock = op[i].lock /\ a.life = "active" /\ a.call = "none"
  BY <1>1, ReplyFacts DEF Calls
<1>4. sys[i].start = "served"
  BY <1>1, SoundNow DEF Sound, CommandInv, CallInv, Replied
<1>. HIDE DEF a
<1>5. Sound(b, sys[i]) /\ b.lock = op[i].lock /\ b.life = "active"
  BY <1>3, <1>4, ProgressKeeps
<1>. HIDE DEF b
<1>6. Sound(Poll(b), sys[i]) /\ Poll(b).lock = op[i].lock
  BY <1>5, PollKeeps
<1>7. Sound(Uncertain(a), sys[i]) /\ Uncertain(a).lock = op[i].lock
  BY <1>3, UncertainKeeps
<1>. QED BY <1>1, <1>2, <1>6, <1>7, HandlerStep

LEMMA UnitReplyStep ==
  ASSUME IInv, NEW i \in Op, NEW late \in BOOLEAN, UnitReply(i, late)
  PROVE  IInv'
<1>. DEFINE a == Answered(op[i])
            b == [a EXCEPT !.status = "timeout"]
<1>1. Replied(i, "GetAllUnit") /\ UNCHANGED sys
  BY DEF UnitReply
<1>2. \/ op[i].answer = "terminal" /\ Settle(i, Send(a, "GetAllService"))
      \/ Settle(i, Uncertain(a))
      \/ Settle(i, Cancel(b))
      \/ Settle(i, a)
  BY DEF UnitReply
<1>3. Sound(a, sys[i]) /\ a.lock = op[i].lock /\ a.life = "active" /\ a.call = "none"
  BY <1>1, ReplyFacts DEF Calls
<1>4. op[i].answer = "terminal" => Quiet(sys[i])
  BY <1>1, SoundNow DEF Sound, CommandInv, CallInv, Replied
<1>. HIDE DEF a
<1>5. CASE op[i].answer = "terminal" /\ Settle(i, Send(a, "GetAllService"))
  <2>1. Sound(Send(a, "GetAllService"), sys[i]) /\ Send(a, "GetAllService").lock = op[i].lock
    BY <1>3, <1>4, <1>5, SendKeeps DEF Calls
  <2>. QED BY <1>1, <1>5, <2>1, HandlerStep
<1>6. Sound(b, sys[i]) /\ b.lock = op[i].lock
  BY <1>3, LimitKeeps
<1>. HIDE DEF b
<1>7. Sound(Cancel(b), sys[i]) /\ Cancel(b).lock = op[i].lock
  BY <1>6, CancelKeeps
<1>8. Sound(Uncertain(a), sys[i]) /\ Uncertain(a).lock = op[i].lock
  BY <1>3, UncertainKeeps
<1>. QED BY <1>1, <1>2, <1>3, <1>5, <1>7, <1>8, HandlerStep

\* The verdict is success only after an observed exit with 0.
LEMMA ServiceReplyStep ==
  ASSUME IInv, NEW i \in Op, ServiceReply(i)
  PROVE  IInv'
<1>. DEFINE a == Answered(op[i])
            v == Verdict(a, op[i].answer)
            b == [a EXCEPT !.status = v]
<1>1. Replied(i, "GetAllService") /\ UNCHANGED sys
  BY DEF ServiceReply
<1>2. \/ op[i].answer \in ExitAnswers /\ Settle(i, Send(b, "UnrefUnit"))
      \/ Settle(i, a)
      \/ Settle(i, Uncertain(a))
  BY DEF ServiceReply
<1>3. /\ Sound(a, sys[i]) /\ a.lock = op[i].lock /\ a.life = "active" /\ a.call = "none"
      /\ a.status \in Verdicts
  BY <1>1, ReplyFacts DEF Calls
<1>4. /\ op[i].answer \in ExitAnswers => Clean(sys[i])
      /\ op[i].answer = "zero" => sys[i].exit = "zero"
  BY <1>1, SoundNow DEF Sound, CommandInv, CallInv, Replied
<1>5. v \in Verdicts /\ (v = "success" => op[i].answer = "zero")
  <2>. HIDE DEF a
  <2>. QED BY <1>3 DEF Verdict, Verdicts
<1>. HIDE DEF a, v
<1>6. CASE op[i].answer \in ExitAnswers /\ Settle(i, Send(b, "UnrefUnit"))
  <2>1. b \in OpState
    BY <1>3, <1>5 DEF Sound, OpState, ManagedCommandStatus, Verdicts
  <2>2. /\ b.life = a.life /\ b.call = a.call /\ b.answer = a.answer
        /\ b.closing = a.closing /\ b.conn = a.conn /\ b.stream = a.stream
        /\ b.progress = a.progress /\ b.status = v /\ b.lock = a.lock
    BY <1>3 DEF Sound, OpState
  <2>. HIDE DEF b
  <2>3. Clean(sys[i]) /\ (v = "success" => sys[i].exit = "zero")
    BY <1>4, <1>5, <1>6
  <2>4. CallInv(b, sys[i])
    BY <1>3, <2>2 DEF Sound, CommandInv, CallInv
  <2>5. EndInv(b, sys[i])
    BY <1>3, <1>5, <2>2, <2>3 DEF Sound, CommandInv, EndInv, Clean
  <2>6. Sound(b, sys[i])
    BY <1>3, <2>1, <2>4, <2>5 DEF Sound, CommandInv
  <2>7. Sound(Send(b, "UnrefUnit"), sys[i]) /\ Send(b, "UnrefUnit").lock = op[i].lock
    BY <1>3, <2>2, <2>3, <2>6, SendKeeps DEF Calls
  <2>. QED BY <1>1, <1>6, <2>7, HandlerStep
<1>7. Sound(Uncertain(a), sys[i]) /\ Uncertain(a).lock = op[i].lock
  BY <1>3, UncertainKeeps
<1>. QED BY <1>1, <1>2, <1>3, <1>6, <1>7, HandlerStep

\* The reference is gone and standard output is at its end.
LEMMA EndIfDrainedKeeps ==
  ASSUME NEW o, NEW s, Sound(o, s), o.status \in Verdicts
  PROVE  Sound(EndIfDrained(o), s) /\ EndIfDrained(o).lock = o.lock
<1>1. CASE o.progress = "unreferenced" /\ o.stream = "eof"
  <2>1. Clean(s) /\ ~s.ref
    BY <1>1 DEF Sound, CommandInv, CallInv
  <2>2. o.status \in ManagedCommandStatus \ {"cleanupFailed"}
    BY DEF ManagedCommandStatus, Verdicts
  <2>3. EndIfDrained(o) = End(o, o.status)
    BY <1>1 DEF EndIfDrained
  <2>. QED BY <1>1, <2>1, <2>2, <2>3, EndKeeps DEF Clean, Quiet
<1>2. CASE ~(o.progress = "unreferenced" /\ o.stream = "eof")
  BY <1>2 DEF EndIfDrained
<1>. QED BY <1>1, <1>2

LEMMA UnrefReplyStep ==
  ASSUME IInv, NEW i \in Op, UnrefReply(i)
  PROVE  IInv'
<1>. DEFINE a == Answered(op[i])
            b == [a EXCEPT !.progress = "unreferenced"]
<1>1. Replied(i, "UnrefUnit") /\ UNCHANGED sys
  BY DEF UnrefReply
<1>2. \/ op[i].answer = "ok" /\ Settle(i, EndIfDrained(b))
      \/ Settle(i, Uncertain(a))
  BY DEF UnrefReply
<1>3. /\ Sound(a, sys[i]) /\ a.lock = op[i].lock /\ a.life = "active" /\ a.call = "none"
      /\ a.status \in Verdicts
  BY <1>1, ReplyFacts DEF Calls
<1>4. Clean(sys[i]) /\ (op[i].answer = "ok" => ~sys[i].ref)
  BY <1>1, SoundNow DEF Sound, CommandInv, CallInv, Replied
<1>. HIDE DEF a
<1>5. CASE op[i].answer = "ok" /\ Settle(i, EndIfDrained(b))
  <2>1. b \in OpState
    BY <1>3 DEF Sound, OpState
  <2>2. /\ b.life = a.life /\ b.call = a.call /\ b.answer = a.answer
        /\ b.closing = a.closing /\ b.conn = a.conn /\ b.stream = a.stream
        /\ b.progress = "unreferenced" /\ b.status = a.status /\ b.lock = a.lock
    BY <1>3 DEF Sound, OpState
  <2>. HIDE DEF b
  <2>3. CallInv(b, sys[i])
    BY <1>3, <1>4, <1>5, <2>2 DEF Sound, CommandInv, CallInv, Clean, Quiet
  <2>4. EndInv(b, sys[i])
    BY <1>3, <2>2 DEF Sound, CommandInv, EndInv
  <2>5. Sound(b, sys[i])
    BY <1>3, <2>1, <2>3, <2>4 DEF Sound, CommandInv
  <2>6. Sound(EndIfDrained(b), sys[i]) /\ EndIfDrained(b).lock = op[i].lock
    BY <1>3, <2>2, <2>5, EndIfDrainedKeeps
  <2>. QED BY <1>1, <1>5, <2>6, HandlerStep
<1>6. Sound(Uncertain(a), sys[i]) /\ Uncertain(a).lock = op[i].lock
  BY <1>3, UncertainKeeps
<1>. QED BY <1>1, <1>2, <1>5, <1>6, HandlerStep

\* A change of the stop request and of the mark alone.
LEMMA StopAnswered ==
  ASSUME NEW o, NEW s, Sound(o, s),
         NEW st \in {"none", "waiting", "ok", "error", "done"}
  PROVE  LET n == [o EXCEPT !.stop = st] IN Sound(n, s) /\ n.lock = o.lock
<1>. DEFINE n == [o EXCEPT !.stop = st]
<1>1. n \in OpState
  BY DEF Sound, OpState
<1>2. /\ n.life = o.life /\ n.call = o.call /\ n.answer = o.answer
      /\ n.closing = o.closing /\ n.conn = o.conn /\ n.stream = o.stream
      /\ n.progress = o.progress /\ n.status = o.status /\ n.lock = o.lock
  BY DEF Sound, OpState
<1>. HIDE DEF n
<1>3. Sound(n, s)
  BY <1>1, <1>2, AgreementKeeps
<1>. QED BY <1>2, <1>3 DEF n

LEMMA StopReplyStep ==
  ASSUME IInv, NEW i \in Op, StopReply(i)
  PROVE  IInv'
<1>. DEFINE o == [op[i] EXCEPT !.stop = "done"]
<1>1. (Settle(i, o) \/ Settle(i, Uncertain(o))) /\ UNCHANGED sys
  BY DEF StopReply
<1>2. Sound(o, sys[i]) /\ o.lock = op[i].lock
  BY SoundNow, StopAnswered
<1>. HIDE DEF o
<1>3. Sound(Uncertain(o), sys[i]) /\ Uncertain(o).lock = op[i].lock
  BY <1>2, UncertainKeeps
<1>. QED BY <1>1, <1>2, <1>3, HandlerStep

LEMMA LateReplyStep ==
  ASSUME IInv, NEW i \in Op, LateReply(i)
  PROVE  IInv'
<1>. DEFINE a == Answered(op[i])
            b == [op[i] EXCEPT !.stop = "done"]
<1>1. op[i].life = "ending" /\ (Settle(i, a) \/ Settle(i, b)) /\ UNCHANGED sys
  BY DEF LateReply
<1>2. Sound(op[i], sys[i])
  BY SoundNow
<1>3. Sound(a, sys[i]) /\ a.lock = op[i].lock
  BY <1>1, <1>2, AnsweredKeeps
<1>4. Sound(b, sys[i]) /\ b.lock = op[i].lock
  BY <1>2, StopAnswered
<1>. HIDE DEF a, b
<1>. QED BY <1>1, <1>3, <1>4, HandlerStep

\* What an answer may say: it must be true of the unit and stay true.
Truthful(o, s, ans) ==
  /\ o.call = "StartTransientUnit" =>
       (ans = "ok" => s.start = "served") /\ (ans = "rejected" => Refused(s))
  /\ o.call \in {"UnrefRejected", "UnrefUnit"} => (ans = "ok" => ~s.ref)
  /\ o.call = "GetAllUnit" => (ans = "terminal" => Quiet(s))
  /\ o.call = "GetAllService" =>
       (ans \in ExitAnswers => Clean(s)) /\ (ans = "zero" => s.exit = "zero")

LEMMA AnswerKeeps ==
  ASSUME NEW o, NEW s, Sound(o, s), NEW ans \in Answers, Truthful(o, s, ans)
  PROVE  LET n == [o EXCEPT !.answer = ans] IN Sound(n, s) /\ n.lock = o.lock
<1>. DEFINE n == [o EXCEPT !.answer = ans]
<1>1. n \in OpState
  BY DEF Sound, OpState
<1>2. /\ n.life = o.life /\ n.call = o.call /\ n.answer = ans
      /\ n.closing = o.closing /\ n.conn = o.conn /\ n.stream = o.stream
      /\ n.progress = o.progress /\ n.status = o.status /\ n.lock = o.lock
  BY DEF Sound, OpState
<1>. HIDE DEF n
<1>3. CallInv(n, s)
  BY <1>2 DEF Sound, CommandInv, CallInv, Truthful
<1>4. EndInv(n, s)
  BY <1>2 DEF Sound, CommandInv, EndInv
<1>. QED BY <1>1, <1>2, <1>3, <1>4 DEF Sound, CommandInv, n

LEMMA ReplyStep ==
  ASSUME IInv, NEW i \in Op, NEW ans \in Answers, Reply(i, ans), UNCHANGED sys,
         Truthful(op[i], sys[i], ans)
  PROVE  IInv'
<1>. DEFINE n == [op[i] EXCEPT !.answer = ans]
<1>1. op' = [op EXCEPT ![i] = n]
  BY DEF Reply
<1>2. sys' = [sys EXCEPT ![i] = sys[i]]
  BY DEF IInv, TypeOK
<1>3. Sound(n, sys[i]) /\ n.lock = op[i].lock
  BY SoundNow, AnswerKeeps
<1>. HIDE DEF n
<1>. QED BY <1>1, <1>2, <1>3, StepOfOne

LEMMA CallFailsStep ==
  ASSUME IInv, NEW i \in Op, CallFails(i)
  PROVE  IInv'
<1>. DEFINE b == [op[i] EXCEPT !.stop = "error"]
<1>1. UNCHANGED sys /\ (Reply(i, "error") \/ op' = [op EXCEPT ![i] = b])
  BY DEF CallFails, Reply
<1>2. Truthful(op[i], sys[i], "error") /\ "error" \in Answers
  BY DEF Truthful, Answers, ExitAnswers
<1>3. Sound(b, sys[i]) /\ b.lock = op[i].lock
  BY SoundNow, StopAnswered
<1>4. sys' = [sys EXCEPT ![i] = sys[i]]
  BY <1>1 DEF IInv, TypeOK
<1>. HIDE DEF b
<1>5. CASE Reply(i, "error")
  BY <1>1, <1>2, <1>5, ReplyStep
<1>6. CASE op' = [op EXCEPT ![i] = b]
  BY <1>3, <1>4, <1>6, StepOfOne
<1>. QED BY <1>1, <1>5, <1>6

\* The stream ends, or the read is given up.
LEMMA StreamKeeps ==
  ASSUME NEW o, NEW s, Sound(o, s), o.stream = "reading",
         NEW st \in {"eof", "closed"},
         st = "eof" => s.start = "served" /\ s.unit = "absent"
  PROVE  LET n == [o EXCEPT !.stream = st]
         IN  Sound(n, s) /\ n.lock = o.lock /\ n.life = o.life /\ n.status = o.status
<1>. DEFINE n == [o EXCEPT !.stream = st]
<1>1. n \in OpState
  BY DEF Sound, OpState
<1>2. /\ n.life = o.life /\ n.call = o.call /\ n.answer = o.answer
      /\ n.closing = o.closing /\ n.conn = o.conn /\ n.stream = st
      /\ n.progress = o.progress /\ n.status = o.status /\ n.lock = o.lock
  BY DEF Sound, OpState
<1>. HIDE DEF n
<1>3. CallInv(n, s)
  BY <1>2 DEF Sound, CommandInv, CallInv
<1>4. EndInv(n, s)
  BY <1>2 DEF Sound, CommandInv, EndInv
<1>. QED BY <1>1, <1>2, <1>3, <1>4 DEF Sound, CommandInv, n

LEMMA ReadEndStep ==
  ASSUME IInv, NEW i \in Op, ReadEnd(i)
  PROVE  IInv'
<1>. DEFINE e == [op[i] EXCEPT !.stream = "eof"]
            c == [op[i] EXCEPT !.stream = "closed"]
<1>1. /\ op[i].stream = "reading" /\ op[i].life = "active" /\ UNCHANGED sys
      /\ \/ WriteEndsClosed(i) /\ Settle(i, EndIfDrained(e))
         \/ Settle(i, Uncertain(c))
  BY DEF ReadEnd
<1>2. Sound(op[i], sys[i])
  BY SoundNow
<1>3. op[i].status \in Verdicts /\ sys[i].start # "none"
  BY <1>1, <1>2 DEF Sound, CommandInv, EndInv
<1>4. CASE WriteEndsClosed(i) /\ Settle(i, EndIfDrained(e))
  <2>1. sys[i].start = "served" /\ sys[i].unit = "absent"
    BY <1>2, <1>3, <1>4 DEF WriteEndsClosed, Sound, SysState
  <2>2. Sound(e, sys[i]) /\ e.lock = op[i].lock /\ e.status \in Verdicts
    BY <1>1, <1>2, <1>3, <2>1, StreamKeeps
  <2>. HIDE DEF e
  <2>3. Sound(EndIfDrained(e), sys[i]) /\ EndIfDrained(e).lock = op[i].lock
    BY <2>2, EndIfDrainedKeeps
  <2>. QED BY <1>1, <1>4, <2>3, HandlerStep
<1>5. CASE Settle(i, Uncertain(c))
  <2>1. Sound(c, sys[i]) /\ c.lock = op[i].lock
    BY <1>1, <1>2, StreamKeeps
  <2>. HIDE DEF c
  <2>2. Sound(Uncertain(c), sys[i]) /\ Uncertain(c).lock = op[i].lock
    BY <2>1, UncertainKeeps
  <2>. QED BY <1>1, <1>5, <2>2, HandlerStep
<1>. QED BY <1>1, <1>4, <1>5

LEMMA ReadOverflowStep ==
  ASSUME IInv, NEW i \in Op, ReadOverflow(i)
  PROVE  IInv'
<1>. DEFINE o == [op[i] EXCEPT !.status = "outputLimit"]
<1>1. op[i].life = "active" /\ Settle(i, Cancel(o)) /\ UNCHANGED sys
  BY DEF ReadOverflow
<1>2. Sound(o, sys[i]) /\ o.lock = op[i].lock
  BY <1>1, SoundNow, LimitKeeps
<1>. HIDE DEF o
<1>3. Sound(Cancel(o), sys[i]) /\ Cancel(o).lock = op[i].lock
  BY <1>2, CancelKeeps
<1>. QED BY <1>1, <1>3, HandlerStep

LEMMA ReadCancelledStep ==
  ASSUME IInv, NEW i \in Op, ReadCancelled(i)
  PROVE  IInv'
<1>. DEFINE o == [op[i] EXCEPT !.stream = "closed"]
<1>1. op[i].stream = "reading" /\ Settle(i, o) /\ UNCHANGED sys
  BY DEF ReadCancelled
<1>2. Sound(o, sys[i]) /\ o.lock = op[i].lock
  BY <1>1, SoundNow, StreamKeeps
<1>. HIDE DEF o
<1>. QED BY <1>1, <1>2, HandlerStep

\* The connection is gone: the bus will drop the reference.
LEMMA ClosedKeeps ==
  ASSUME NEW o, NEW s, Sound(o, s), NEW b \in {o.closing, FALSE}
  PROVE  LET n == [o EXCEPT !.closing = b, !.conn = "closed"]
         IN  Sound(n, s) /\ n.lock = o.lock
<1>. DEFINE n == [o EXCEPT !.closing = b, !.conn = "closed"]
<1>1. n \in OpState
  BY DEF Sound, OpState
<1>2. /\ n.life = o.life /\ n.call = o.call /\ n.answer = o.answer
      /\ n.closing = b /\ n.conn = "closed" /\ n.stream = o.stream
      /\ n.progress = o.progress /\ n.status = o.status /\ n.lock = o.lock
  BY DEF Sound, OpState
<1>. HIDE DEF n
<1>3. CallInv(n, s)
  BY <1>2 DEF Sound, CommandInv, CallInv
<1>4. EndInv(n, s)
  BY <1>2 DEF Sound, CommandInv, EndInv
<1>. QED BY <1>1, <1>2, <1>3, <1>4 DEF Sound, CommandInv, n

LEMMA CloseDoneStep ==
  ASSUME IInv, NEW i \in Op, CloseDone(i)
  PROVE  IInv'
<1>. DEFINE o == [op[i] EXCEPT !.closing = FALSE, !.conn = "closed"]
<1>1. Settle(i, o) /\ UNCHANGED sys
  BY DEF CloseDone
<1>2. Sound(o, sys[i]) /\ o.lock = op[i].lock
  BY SoundNow, ClosedKeeps
<1>. HIDE DEF o
<1>. QED BY <1>1, <1>2, HandlerStep

LEMMA TimerTickStep ==
  ASSUME IInv, NEW i \in Op, NEW overdue \in BOOLEAN, TimerTick(i, overdue)
  PROVE  IInv'
<1>. DEFINE b == [op[i] EXCEPT !.status = "timeout"]
            c == IF overdue THEN Cancel(b) ELSE op[i]
<1>1. op[i].life = "active" /\ Settle(i, Poll(c)) /\ UNCHANGED sys
  BY DEF TimerTick
<1>2. Sound(op[i], sys[i])
  BY SoundNow
<1>3. Sound(b, sys[i]) /\ b.lock = op[i].lock /\ b.life = "active"
  BY <1>1, <1>2, LimitKeeps
<1>. HIDE DEF b
<1>4. Sound(c, sys[i]) /\ c.lock = op[i].lock /\ c.life = "active"
  BY <1>1, <1>2, <1>3, CancelKeeps
<1>. HIDE DEF c
<1>5. Sound(Poll(c), sys[i]) /\ Poll(c).lock = op[i].lock
  BY <1>4, PollKeeps
<1>. QED BY <1>1, <1>5, HandlerStep

\* A deadline or a new owner of systemd's name: the cleanup is uncertain.
LEMMA UncertainStep ==
  ASSUME IInv, NEW i \in Op, TimerDeadline(i) \/ OwnerChanged(i)
  PROVE  IInv'
<1>1. Settle(i, Uncertain(op[i])) /\ UNCHANGED sys
  BY DEF TimerDeadline, OwnerChanged
<1>2. Sound(Uncertain(op[i]), sys[i]) /\ Uncertain(op[i]).lock = op[i].lock
  BY SoundNow, UncertainKeeps
<1>. QED BY <1>1, <1>2, HandlerStep

LEMMA ConnectionLostStep ==
  ASSUME IInv, NEW i \in Op, ConnectionLost(i)
  PROVE  IInv'
<1>. DEFINE o == [op[i] EXCEPT !.conn = "closed"]
<1>1. Settle(i, Uncertain(o)) /\ UNCHANGED sys
  BY DEF ConnectionLost
<1>2. o = [op[i] EXCEPT !.closing = op[i].closing, !.conn = "closed"]
  BY SoundNow DEF Sound, OpState
<1>3. Sound(o, sys[i]) /\ o.lock = op[i].lock
  <2>. HIDE DEF o
  <2>. QED BY <1>2, SoundNow, ClosedKeeps
<1>. HIDE DEF o
<1>4. Sound(Uncertain(o), sys[i]) /\ Uncertain(o).lock = op[i].lock
  BY <1>3, UncertainKeeps
<1>. QED BY <1>1, <1>4, HandlerStep

LEMMA HelperCrashesStep ==
  ASSUME IInv, NEW i \in Op, HelperCrashes(i)
  PROVE  IInv'
<1>. DEFINE a == Answered(op[i])
            o == [a EXCEPT !.life = "crashed", !.stop = "done", !.closing = FALSE,
                           !.conn = "closed", !.stream = "closed", !.lock = "none"]
<1>1. op[i].life # "created" /\ Settle(i, o) /\ UNCHANGED sys
  BY DEF HelperCrashes
<1>2. Sound(a, sys[i]) /\ a.call = "none"
  BY <1>1, SoundNow, AnsweredKeeps
<1>. HIDE DEF a
<1>3. o \in OpState
  BY <1>2 DEF Sound, OpState
<1>4. /\ o.life = "crashed" /\ o.call = a.call /\ o.answer = a.answer
      /\ o.closing = FALSE /\ o.conn = "closed" /\ o.stream = "closed"
      /\ o.progress = a.progress /\ o.status = a.status /\ o.lock = "none"
  BY <1>2 DEF Sound, OpState
<1>. HIDE DEF o
<1>5. CallInv(o, sys[i])
  BY <1>2, <1>4 DEF Sound, CommandInv, CallInv
<1>6. EndInv(o, sys[i])
  BY <1>2, <1>4 DEF Sound, CommandInv, EndInv
<1>7. Sound(o, sys[i])
  BY <1>2, <1>3, <1>5, <1>6 DEF Sound, CommandInv
<1>. QED BY <1>1, <1>4, <1>7, HandlerStep

LEMMA ClientCancelsStep ==
  ASSUME IInv, NEW i \in Op, ClientCancels(i)
  PROVE  IInv'
<1>1. Sound(Cancel(op[i]), sys[i]) /\ Cancel(op[i]).lock = op[i].lock
  BY SoundNow, CancelKeeps
<1>. QED BY <1>1, HandlerStep DEF ClientCancels

-----------------------------------------------------------------------------
(* systemd's steps.                                                        *)

\* Answers that only report what systemd sees.
LEMMA ServeReadsStep ==
  ASSUME IInv, NEW i \in Op,
         ServeOwner(i) \/ ServeGetUnit(i) \/ ServeGetAllUnit(i) \/ ServeGetAllService(i)
  PROVE  IInv'
<1>1. Sound(op[i], sys[i])
  BY SoundNow
<1>2. CASE ServeOwner(i) \/ ServeGetUnit(i)
  <2>1. \E ans \in {"ok", "error"} : Reply(i, ans) /\ UNCHANGED sys
    BY <1>2 DEF ServeOwner, ServeGetUnit
  <2>2. op[i].call \in {"GetNameOwner", "GetUnit"}
    BY <1>2 DEF ServeOwner, ServeGetUnit, Serving
  <2>3. \A ans \in {"ok", "error"} : Truthful(op[i], sys[i], ans) /\ ans \in Answers
    BY <2>2 DEF Truthful, Answers
  <2>. QED BY <2>1, <2>3, ReplyStep
<1>3. CASE ServeGetAllUnit(i)
  <2>. DEFINE ans == ObservedUnit(sys[i].unit)
  <2>1. op[i].call = "GetAllUnit" /\ Reply(i, ans) /\ UNCHANGED sys
    BY <1>3 DEF ServeGetAllUnit, Serving
  <2>2. ans \in Answers /\ (ans = "terminal" => sys[i].unit = "ended")
    BY DEF ObservedUnit, Answers
  <2>3. sys[i].start = "served"
    BY <1>1, <2>1 DEF Sound, CommandInv, CallInv
  <2>. HIDE DEF ans
  <2>4. Truthful(op[i], sys[i], ans)
    BY <2>1, <2>2, <2>3 DEF Truthful, Quiet
  <2>. QED BY <2>1, <2>2, <2>4, ReplyStep
<1>4. CASE ServeGetAllService(i)
  <2>. DEFINE ans == ObservedService(sys[i])
  <2>1. op[i].call = "GetAllService" /\ Reply(i, ans) /\ UNCHANGED sys
    BY <1>4 DEF ServeGetAllService, Serving
  <2>2. /\ ans \in Answers
        /\ ans \in ExitAnswers => sys[i].unit # "absent" /\ ~sys[i].cgroup
        /\ ans = "zero" => sys[i].exit = "zero"
    BY <1>1 DEF ObservedService, Answers, ExitAnswers, Sound, SysState
  <2>3. Quiet(sys[i])
    BY <1>1, <2>1 DEF Sound, CommandInv, CallInv
  <2>. HIDE DEF ans
  <2>4. Truthful(op[i], sys[i], ans)
    BY <1>1, <2>1, <2>2, <2>3 DEF Truthful, Clean, Sound, CommandInv, UnitInv
  <2>. QED BY <2>1, <2>2, <2>4, ReplyStep
<1>. QED BY <1>2, <1>3, <1>4

\* How systemd's side of a command may move: a unit that is over stays over.
Moves(s, n) ==
  /\ n.start = s.start \/ (s.start = "transit" /\ n.start = "served")
  /\ s.start # "transit" => (n.ref => s.ref)
  /\ s.start = "served" =>
       /\ s.unit \in {"ended", "absent"} =>
            n.unit \in {"ended", "absent"} /\ n.exit = s.exit /\ (n.cgroup => s.cgroup)
       /\ s.unit = "absent" => n.unit = "absent"
       /\ s.unit \in {"absent", "stub"} => n.unit \in {"absent", "stub"}
       /\ s.unit \in {"ended", "absent", "stub"} => (n.procs => s.procs)

LEMMA MovesKeep ==
  ASSUME NEW o, NEW s, Sound(o, s), NEW n \in SysState, UnitInv(n), Moves(s, n)
  PROVE  Sound(o, n)
<1>1. Quiet(s) => Quiet(n) /\ n.exit = s.exit
  BY DEF Quiet, Moves
<1>2. Clean(s) => Clean(n)
  BY DEF Clean, Quiet, Moves
<1>3. Refused(s) => Refused(n)
  BY DEF Refused, Moves
<1>4. s.start \in {"none", "served"} => (n.ref => s.ref)
  BY DEF Moves
<1>5. s.start \in {"none", "transit", "served"}
  BY DEF Sound, SysState
<1>6. /\ s.start = "none" => n.start = "none"
      /\ s.start # "none" => n.start # "none"
      /\ s.start = "served" => n.start = "served"
  BY DEF Moves
<1>7. CallInv(o, n)
  BY <1>1, <1>2, <1>3, <1>4, <1>6
     DEF Sound, CommandInv, CallInv, Refused, Clean, Quiet
<1>8. s.start # "transit" /\ ~s.ref /\ ~s.procs
        /\ s.unit \notin {"queued", "running", "stopping"}
      => n.start # "transit" /\ ~n.ref /\ ~n.procs
         /\ n.unit \notin {"queued", "running", "stopping"}
  <2>1. CASE s.start = "none"
    BY <1>6, <2>1 DEF UnitInv
  <2>2. CASE s.start = "served"
    BY <1>6, <2>2 DEF Moves, Sound, SysState
  <2>. QED BY <1>5, <2>1, <2>2
<1>9. s.start = "served" /\ s.unit = "absent" => n.start = "served" /\ n.unit = "absent"
  BY DEF Moves
<1>10. EndInv(o, n)
  BY <1>1, <1>6, <1>8, <1>9 DEF Sound, CommandInv, EndInv
<1>. QED BY <1>7, <1>10 DEF Sound, CommandInv

\* The start message is answered, to a helper that may have given up.
LEMMA StartAnsweredStep ==
  ASSUME IInv, NEW i \in Op, NEW s \in SysState, NEW ans \in {"ok", "rejected"},
         UnitInv(s), Moves(sys[i], s),
         sys[i].start = "transit" /\ s.start = "served",
         ans = "rejected" => Refused(s),
         sys' = [sys EXCEPT ![i] = s], ReplyToStart(i, ans)
  PROVE  IInv'
<1>. DEFINE n == [op[i] EXCEPT !.answer = ans]
<1>1. Sound(op[i], s)
  BY SoundNow, MovesKeep
<1>2. CASE op[i].call = "StartTransientUnit" /\ op[i].answer = "waiting"
  <2>1. op' = [op EXCEPT ![i] = n]
    BY <1>2 DEF ReplyToStart, Reply
  <2>2. Truthful(op[i], s, ans) /\ ans \in Answers
    BY <1>2 DEF Truthful, Answers
  <2>3. Sound(n, s) /\ n.lock = op[i].lock
    BY <1>1, <2>2, AnswerKeeps
  <2>. HIDE DEF n
  <2>. QED BY <2>1, <2>3, StepOfOne
<1>3. CASE ~(op[i].call = "StartTransientUnit" /\ op[i].answer = "waiting")
  <2>1. op' = [op EXCEPT ![i] = op[i]]
    BY <1>3 DEF ReplyToStart, IInv, TypeOK
  <2>. QED BY <1>1, <2>1, StepOfOne
<1>. QED BY <1>2, <1>3

LEMMA AcceptStartStep ==
  ASSUME IInv, NEW i \in Op, AcceptStart(i)
  PROVE  IInv'
<1>. DEFINE s == [sys[i] EXCEPT !.start = "served", !.unit = "queued",
                                !.ref = (op[i].conn = "open")]
<1>1. sys[i].start = "transit" /\ sys' = [sys EXCEPT ![i] = s] /\ ReplyToStart(i, "ok")
  BY DEF AcceptStart
<1>2. sys[i] \in SysState /\ UnitInv(sys[i])
  BY SoundNow DEF Sound, CommandInv
<1>3. (op[i].conn = "open") \in BOOLEAN
  OBVIOUS
<1>4. s \in SysState
  BY <1>2, <1>3 DEF SysState
<1>5. /\ s.start = "served" /\ s.unit = "queued"
      /\ s.procs = sys[i].procs /\ s.cgroup = sys[i].cgroup
  BY <1>2 DEF SysState
<1>. HIDE DEF s
<1>6. UnitInv(s) /\ Moves(sys[i], s)
  BY <1>1, <1>2, <1>5 DEF UnitInv, Moves
<1>. QED BY <1>1, <1>4, <1>5, <1>6, StartAnsweredStep

LEMMA RejectStartStep ==
  ASSUME IInv, NEW i \in Op, RejectStart(i)
  PROVE  IInv'
<1>1. PICK unit \in {"absent", "stub"} :
        sys' = [sys EXCEPT ![i].start = "served", ![i].unit = unit,
                           ![i].ref = (unit = "stub" /\ op[i].conn = "open")]
  BY DEF RejectStart
<1>. DEFINE s == [sys[i] EXCEPT !.start = "served", !.unit = unit,
                                !.ref = (unit = "stub" /\ op[i].conn = "open")]
<1>2. sys[i].start = "transit" /\ sys' = [sys EXCEPT ![i] = s] /\ ReplyToStart(i, "rejected")
  BY <1>1 DEF RejectStart
<1>3. sys[i] \in SysState /\ UnitInv(sys[i])
  BY SoundNow DEF Sound, CommandInv
<1>4. (unit = "stub" /\ op[i].conn = "open") \in BOOLEAN
  OBVIOUS
<1>5. s \in SysState
  BY <1>3, <1>4 DEF SysState
<1>6. /\ s.start = "served" /\ s.unit = unit
      /\ s.procs = sys[i].procs /\ s.cgroup = sys[i].cgroup
  BY <1>3 DEF SysState
<1>. HIDE DEF s
<1>7. UnitInv(s) /\ Moves(sys[i], s) /\ Refused(s)
  BY <1>2, <1>3, <1>6 DEF UnitInv, Moves, Refused
<1>. QED BY <1>2, <1>5, <1>6, <1>7, StartAnsweredStep

LEMMA ServeUnrefStep ==
  ASSUME IInv, NEW i \in Op, ServeUnref(i)
  PROVE  IInv'
<1>. DEFINE s == [sys[i] EXCEPT !.ref = FALSE]
<1>1. sys[i] \in SysState /\ UnitInv(sys[i])
  BY SoundNow DEF Sound, CommandInv
<1>2. /\ s \in SysState /\ s.start = sys[i].start /\ s.unit = sys[i].unit /\ s.ref = FALSE
      /\ s.procs = sys[i].procs /\ s.cgroup = sys[i].cgroup /\ s.exit = sys[i].exit
  BY <1>1 DEF SysState
<1>3. sys' = [sys EXCEPT ![i] = s]
  BY DEF ServeUnref
<1>4. PICK ans \in {"ok", "error"} : Reply(i, ans)
  BY DEF ServeUnref
<1>5. op[i].call \in {"UnrefRejected", "UnrefUnit"}
  BY DEF ServeUnref, Serving
<1>. HIDE DEF s
<1>6. UnitInv(s) /\ Moves(sys[i], s)
  BY <1>1, <1>2 DEF UnitInv, Moves
<1>7. Sound(op[i], s)
  BY <1>2, <1>6, SoundNow, MovesKeep
<1>. DEFINE o == [op[i] EXCEPT !.answer = ans]
<1>8. op' = [op EXCEPT ![i] = o]
  BY <1>4 DEF Reply
<1>9. Truthful(op[i], s, ans) /\ ans \in Answers
  BY <1>2, <1>5 DEF Truthful, Answers
<1>10. Sound(o, s) /\ o.lock = op[i].lock
  BY <1>7, <1>9, AnswerKeeps
<1>. HIDE DEF o
<1>. QED BY <1>2, <1>3, <1>8, <1>10, StepOfOne

LEMMA ServeStopStep ==
  ASSUME IInv, NEW i \in Op, ServeStop(i)
  PROVE  IInv'
<1>1. PICK st \in {"ok", "error"} : op' = [op EXCEPT ![i].stop = st]
  BY DEF ServeStop
<1>2. sys[i] \in SysState /\ UnitInv(sys[i])
  BY SoundNow DEF Sound, CommandInv
<1>. DEFINE u == CASE sys[i].unit = "queued" -> "ended"
                   [] sys[i].unit = "running" -> "stopping"
                   [] OTHER -> sys[i].unit
            s == [sys[i] EXCEPT !.unit = u]
            o == [op[i] EXCEPT !.stop = st]
<1>3. sys' = [sys EXCEPT ![i] = s]
  BY DEF ServeStop
<1>4. \/ sys[i].unit = "queued" /\ u = "ended"
      \/ sys[i].unit = "running" /\ u = "stopping"
      \/ u = sys[i].unit
  OBVIOUS
<1>. HIDE DEF u
<1>5. u \in {"absent", "stub", "queued", "running", "stopping", "ended"}
  BY <1>2, <1>4 DEF SysState
<1>6. /\ s \in SysState /\ s.start = sys[i].start /\ s.unit = u /\ s.ref = sys[i].ref
      /\ s.procs = sys[i].procs /\ s.cgroup = sys[i].cgroup /\ s.exit = sys[i].exit
  BY <1>2, <1>5 DEF SysState
<1>7. UnitInv(s) /\ Moves(sys[i], s)
  <2>. HIDE DEF s
  <2>. QED BY <1>2, <1>4, <1>6 DEF UnitInv, Moves
<1>8. Sound(op[i], s)
  <2>. HIDE DEF s
  <2>. QED BY <1>6, <1>7, SoundNow, MovesKeep
<1>9. Sound(o, s) /\ o.lock = op[i].lock
  <2>. HIDE DEF s
  <2>. QED BY <1>8, StopAnswered
<1>10. op' = [op EXCEPT ![i] = o]
  BY <1>1
<1>11. s.start = "transit" \/ s.unit # "absent" \/ s.procs =>
         sys[i].start = "transit" \/ sys[i].unit # "absent" \/ sys[i].procs
  BY <1>4, <1>6
<1>. HIDE DEF s, o
<1>. QED BY <1>3, <1>9, <1>10, <1>11, StepOfOne

\* The unit's own steps.
LEMMA UnitStep ==
  ASSUME IInv, NEW i \in Op, Unit(i)
  PROVE  IInv'
<1>1. UNCHANGED op
  BY DEF Unit, UnitStarts, UnitStartFails, UnitEnds, LastProcessExits,
         ReleaseControlGroup, DropReference, Collect
<1>2. sys[i] \in SysState /\ UnitInv(sys[i]) /\ sys[i].unit \in
        {"absent", "stub", "queued", "running", "stopping", "ended"}
  BY SoundNow DEF Sound, CommandInv, SysState
<1>3. ASSUME NEW n \in SysState, UnitInv(n), Moves(sys[i], n),
             n.start = sys[i].start,
             n.unit # "absent" \/ n.procs => sys[i].unit # "absent" \/ sys[i].procs,
             sys' = [sys EXCEPT ![i] = n]
      PROVE  IInv'
  <2>1. Sound(op[i], n)
    BY <1>3, SoundNow, MovesKeep
  <2>. QED BY <1>1, <1>3, <2>1, SystemStep
<1>4. CASE UnitStarts(i)
  <2>. DEFINE n == [sys[i] EXCEPT !.unit = "running", !.procs = TRUE, !.cgroup = TRUE]
  <2>1. sys' = [sys EXCEPT ![i] = n] /\ sys[i].unit = "queued"
    BY <1>4 DEF UnitStarts
  <2>2. n \in SysState /\ n.start = sys[i].start /\ n.unit = "running" /\ n.ref = sys[i].ref
        /\ n.procs = TRUE /\ n.cgroup = TRUE /\ n.exit = sys[i].exit
    BY <1>2 DEF SysState
  <2>. HIDE DEF n
  <2>3. UnitInv(n) /\ Moves(sys[i], n)
    BY <1>2, <2>1, <2>2 DEF UnitInv, Moves
  <2>. QED BY <1>3, <2>1, <2>2, <2>3
<1>5. CASE UnitStartFails(i)
  <2>. DEFINE n == [sys[i] EXCEPT !.unit = "ended"]
  <2>1. sys' = [sys EXCEPT ![i] = n] /\ sys[i].unit = "queued"
    BY <1>5 DEF UnitStartFails
  <2>2. n \in SysState /\ n.start = sys[i].start /\ n.unit = "ended" /\ n.ref = sys[i].ref
        /\ n.procs = sys[i].procs /\ n.cgroup = sys[i].cgroup /\ n.exit = sys[i].exit
    BY <1>2 DEF SysState
  <2>. HIDE DEF n
  <2>3. UnitInv(n) /\ Moves(sys[i], n)
    BY <1>2, <2>1, <2>2 DEF UnitInv, Moves
  <2>. QED BY <1>3, <2>1, <2>2, <2>3
<1>6. CASE UnitEnds(i)
  <2>1. PICK exit \in ExitAnswers, procs \in BOOLEAN :
          sys' = [sys EXCEPT ![i].unit = "ended", ![i].exit = exit, ![i].procs = procs]
    BY <1>6 DEF UnitEnds
  <2>. DEFINE n == [sys[i] EXCEPT !.unit = "ended", !.exit = exit, !.procs = procs]
  <2>2. sys' = [sys EXCEPT ![i] = n] /\ sys[i].unit \in {"running", "stopping"}
    BY <1>6, <2>1 DEF UnitEnds
  <2>3. n \in SysState /\ n.start = sys[i].start /\ n.unit = "ended" /\ n.ref = sys[i].ref
        /\ n.procs = procs /\ n.cgroup = sys[i].cgroup /\ n.exit = exit
    BY <1>2 DEF SysState
  <2>. HIDE DEF n
  <2>4. UnitInv(n) /\ Moves(sys[i], n)
    BY <1>2, <2>2, <2>3 DEF UnitInv, Moves
  <2>. QED BY <1>3, <2>2, <2>3, <2>4
<1>7. CASE LastProcessExits(i)
  <2>. DEFINE n == [sys[i] EXCEPT !.procs = FALSE]
  <2>1. sys' = [sys EXCEPT ![i] = n] /\ sys[i].unit = "ended"
    BY <1>7 DEF LastProcessExits
  <2>2. n \in SysState /\ n.start = sys[i].start /\ n.unit = sys[i].unit /\ n.ref = sys[i].ref
        /\ n.procs = FALSE /\ n.cgroup = sys[i].cgroup /\ n.exit = sys[i].exit
    BY <1>2 DEF SysState
  <2>. HIDE DEF n
  <2>3. UnitInv(n) /\ Moves(sys[i], n)
    BY <1>2, <2>1, <2>2 DEF UnitInv, Moves
  <2>. QED BY <1>3, <2>1, <2>2, <2>3
<1>8. CASE ReleaseControlGroup(i)
  <2>. DEFINE n == [sys[i] EXCEPT !.cgroup = FALSE]
  <2>1. sys' = [sys EXCEPT ![i] = n] /\ sys[i].unit = "ended" /\ ~sys[i].procs
    BY <1>8 DEF ReleaseControlGroup
  <2>2. n \in SysState /\ n.start = sys[i].start /\ n.unit = sys[i].unit /\ n.ref = sys[i].ref
        /\ n.procs = sys[i].procs /\ n.cgroup = FALSE /\ n.exit = sys[i].exit
    BY <1>2 DEF SysState
  <2>. HIDE DEF n
  <2>3. UnitInv(n) /\ Moves(sys[i], n)
    BY <1>2, <2>1, <2>2 DEF UnitInv, Moves
  <2>. QED BY <1>3, <2>1, <2>2, <2>3
<1>9. CASE DropReference(i)
  <2>. DEFINE n == [sys[i] EXCEPT !.ref = FALSE]
  <2>1. sys' = [sys EXCEPT ![i] = n]
    BY <1>9 DEF DropReference
  <2>2. n \in SysState /\ n.start = sys[i].start /\ n.unit = sys[i].unit /\ n.ref = FALSE
        /\ n.procs = sys[i].procs /\ n.cgroup = sys[i].cgroup /\ n.exit = sys[i].exit
    BY <1>2 DEF SysState
  <2>. HIDE DEF n
  <2>3. UnitInv(n) /\ Moves(sys[i], n)
    BY <1>2, <2>1, <2>2 DEF UnitInv, Moves
  <2>. QED BY <1>3, <2>1, <2>2, <2>3
<1>10. CASE Collect(i)
  <2>. DEFINE n == [sys[i] EXCEPT !.unit = "absent"]
  <2>1. sys' = [sys EXCEPT ![i] = n] /\ sys[i].unit \in {"stub", "ended"} /\ ~sys[i].cgroup
    BY <1>10 DEF Collect
  <2>2. n \in SysState /\ n.start = sys[i].start /\ n.unit = "absent" /\ n.ref = sys[i].ref
        /\ n.procs = sys[i].procs /\ n.cgroup = sys[i].cgroup /\ n.exit = sys[i].exit
    BY <1>2 DEF SysState
  <2>. HIDE DEF n
  <2>3. UnitInv(n) /\ Moves(sys[i], n)
    BY <1>2, <2>1, <2>2 DEF UnitInv, Moves
  <2>. QED BY <1>3, <2>1, <2>2, <2>3
<1>. QED BY <1>4, <1>5, <1>6, <1>7, <1>8, <1>9, <1>10 DEF Unit

-----------------------------------------------------------------------------
(* The theorems.                                                           *)

LEMMA InitIInv ==
  ASSUME Init
  PROVE  IInv
<1>1. TypeOK
  BY DEF Init, TypeOK, OpState, SysState, Answers, ManagedCommandStatus
<1>2. ASSUME NEW i \in Op
      PROVE  CommandInv(op[i], sys[i]) /\ ~HoldsLock(i)
  BY DEF Init, CommandInv, UnitInv, CallInv, EndInv, HoldsLock, Verdicts
<1>. QED BY <1>1, <1>2 DEF IInv, LockInv

LEMMA NextIInv ==
  ASSUME IInv, [Next]_vars
  PROVE  IInv'
<1>1. ASSUME NEW i \in Op, Handler(i)
      PROVE  IInv'
  BY <1>1, BeginStep, OwnerReplyFailsStep, StartUnitRefusedStep, StartUnitStep,
     StartReplyStep, RejectedReplyStep, GetUnitReplyStep, UnitReplyStep,
     ServiceReplyStep, UnrefReplyStep, StopReplyStep, LateReplyStep,
     CallFailsStep, ReadEndStep, ReadCancelledStep, CloseDoneStep DEF Handler
<1>2. ASSUME NEW i \in Op, Timer(i) \/ Environment(i)
      PROVE  IInv'
  BY <1>2, TimerTickStep, UncertainStep, ClientCancelsStep, ReadOverflowStep,
     ConnectionLostStep, HelperCrashesStep DEF Timer, Environment
<1>3. ASSUME NEW i \in Op, Serve(i) \/ Unit(i)
      PROVE  IInv'
  BY <1>3, ServeReadsStep, AcceptStartStep, RejectStartStep, ServeUnrefStep,
     ServeStopStep, UnitStep DEF Serve
<1>4. CASE UNCHANGED vars
  BY <1>4 DEF vars, IInv, TypeOK, LockInv, HoldsLock
<1>. QED BY <1>1, <1>2, <1>3, <1>4 DEF Next, Finished

THEOREM Invariant == Spec => []IInv
BY InitIInv, NextIInv, PTL DEF Spec

\* The variables keep their types: in particular a status is one of the
\* values of ManagedCommandStatus whatever the order of the callbacks.
THEOREM TypeCorrect == Spec => []TypeOK
<1>1. IInv => TypeOK
  BY DEF IInv
<1>. QED BY <1>1, Invariant, PTL

\* Any status but cleanupFailed is given when nothing of the command is live
\* (Operation::End and the order of the polling calls).
THEOREM CleanupIsConfirmed == Spec => []ConfirmedCleanup
<1>1. IInv => ConfirmedCleanup
  BY DEF IInv, CommandInv, EndInv, ConfirmedCleanup, Live
<1>. QED BY <1>1, Invariant, PTL

\* A verdict about the backend comes when its unit is gone and its lock free.
THEOREM VerdictsAreSettled == Spec => []SettledVerdict
<1>1. ASSUME IInv, NEW i \in Op, op[i].life = "delivered", op[i].status \in Verdicts
      PROVE  ~HoldsLock(i) /\ (op[i].status = "success" => sys[i].exit = "zero")
  <2>1. CommandInv(op[i], sys[i])
    BY <1>1 DEF IInv
  <2>2. /\ op[i].stream = "eof" /\ op[i].lock = "none"
        /\ op[i].status = "success" => sys[i].exit = "zero"
    BY <1>1, <2>1 DEF CommandInv, EndInv
  <2>3. sys[i].start = "served" /\ sys[i].unit = "absent"
    BY <2>1, <2>2 DEF CommandInv, EndInv
  <2>4. ~sys[i].procs
    BY <2>1, <2>3 DEF CommandInv, UnitInv
  <2>. QED BY <2>2, <2>3, <2>4 DEF HoldsLock
<1>2. IInv => SettledVerdict
  BY <1>1 DEF SettledVerdict, Verdicts
<1>. QED BY <1>2, Invariant, PTL

\* No reference outlives its operation on an open connection.
THEOREM NoUnitIsPinned == Spec => []NoPinnedUnit
<1>1. IInv => NoPinnedUnit
  BY DEF IInv, CommandInv, EndInv, NoPinnedUnit
<1>. QED BY <1>1, Invariant, PTL

\* Any number of helpers that share the lock file run one backend at a time.
THEOREM BackendsAreSerialized == Spec => []OneBackendAtATime
<1>1. IInv => OneBackendAtATime
  BY DEF IInv, LockInv, HoldsLock, OneBackendAtATime
<1>. QED BY <1>1, Invariant, PTL

-----------------------------------------------------------------------------
(* The refinement of CommandRunner.                                        *)

\* The lives an Operation may go through in one step; its status is final.
LifeMoves(o, n) ==
  /\ o.life = "created" => n.life \in {"created", "active"}
  /\ o.life = "active" => n.life \in {"active", "ending", "delivered", "crashed"}
  /\ o.life = "ending" => n.life \in {"ending", "delivered", "crashed"}
  /\ o.life = "delivered" => n.life = "delivered" /\ n.status = o.status
  /\ o.life = "crashed" => n.life = "crashed"

Lively(s) ==
  s.start = "transit" \/ s.unit \in {"queued", "running", "stopping"} \/ s.procs

\* What systemd may do to a backend that was launched.
BackendMoves(s, n) ==
  /\ n.start = "none" <=> s.start = "none"
  /\ s.start # "none" /\ ~Lively(s) => ~Lively(n)
  /\ s.start = "none" => n = s

Others(i) == \A j \in Op \ {i} : op'[j] = op[j] /\ sys'[j] = sys[j]

-----------------------------------------------------------------------------
(* The handlers.                                                           *)

LEMMA DeliverMoves ==
  ASSUME NEW o \in OpState, NEW n \in OpState, LifeMoves(o, n), o.life # "created"
  PROVE  LifeMoves(o, Deliver(n))
<1>. DEFINE d == [n EXCEPT !.life = "delivered", !.lock = "none"]
<1>1. CASE n.life = "ending"
  <2>1. Deliver(n) \in {n, d}
    BY DEF Deliver
  <2>2. d.life = "delivered" /\ d.status = n.status
    BY DEF OpState
  <2>. QED BY <1>1, <2>1, <2>2 DEF LifeMoves
<1>2. CASE n.life # "ending"
  BY <1>2 DEF Deliver
<1>. QED BY <1>1, <1>2

\* An end is given to an active operation only.
LEMMA EndMoves ==
  ASSUME NEW n \in OpState, NEW st \in ManagedCommandStatus
  PROVE  /\ End(n, st) \in OpState
         /\ End(n, st).life \in {n.life, "ending"}
         /\ n.life # "active" => End(n, st) = n
<1>. DEFINE e == [n EXCEPT !.life = "ending", !.status = st,
                           !.closing = (st = "cleanupFailed" /\ n.conn = "open")]
<1>1. (st = "cleanupFailed" /\ n.conn = "open") \in BOOLEAN
  OBVIOUS
<1>2. e \in OpState /\ e.life = "ending"
  BY <1>1 DEF OpState
<1>3. End(n, st) = IF n.life = "active" THEN e ELSE n
  BY DEF End
<1>. HIDE DEF e
<1>. QED BY <1>2, <1>3

LEMMA AnsweredMoves ==
  ASSUME NEW n \in OpState
  PROVE  Answered(n) \in OpState /\ Answered(n).life = n.life
BY DEF Answered, OpState, Answers

LEMMA SendMoves ==
  ASSUME NEW n \in OpState, NEW c \in Calls
  PROVE  Send(n, c) \in OpState /\ Send(n, c).life = n.life
BY DEF Send, OpState, Answers

LEMMA PollMoves ==
  ASSUME NEW n \in OpState
  PROVE  Poll(n) \in OpState /\ Poll(n).life = n.life
<1>1. "GetAllUnit" \in Calls
  BY DEF Calls
<1>. QED BY <1>1, SendMoves DEF Poll

LEMMA StopMoves ==
  ASSUME NEW n \in OpState
  PROVE  Stop(n) \in OpState /\ Stop(n).life = n.life /\ Stop(n).status = n.status
<1>. DEFINE e == [n EXCEPT !.stop = "waiting", !.behind = (n.call # "none")]
<1>1. (n.call # "none") \in BOOLEAN
  OBVIOUS
<1>2. e \in OpState /\ e.life = n.life /\ e.status = n.status
  BY <1>1 DEF OpState
<1>. HIDE DEF e
<1>3. Stop(n) \in {n, e}
  BY DEF Stop, e
<1>. QED BY <1>2, <1>3

LEMMA CancelMoves ==
  ASSUME NEW n \in OpState
  PROVE  Cancel(n) \in OpState /\ Cancel(n).life = n.life /\ Cancel(n).status = n.status
<1>. DEFINE e == [n EXCEPT !.cancelled = TRUE]
<1>1. e \in OpState /\ e.life = n.life /\ e.status = n.status
  BY DEF OpState
<1>2. Cancel(n) \in {e, Stop(e)}
  BY DEF Cancel
<1>. HIDE DEF e
<1>. QED BY <1>1, <1>2, StopMoves

-----------------------------------------------------------------------------
\* What is to be shown of a step: all but one command stay, and the one moves.
PhaseMoves(i) == Others(i) /\ UNCHANGED sys /\ LifeMoves(op[i], op'[i])

LEMMA SettleMoves ==
  ASSUME IInv, NEW i \in Op, NEW n \in OpState, Settle(i, n), UNCHANGED sys,
         op[i].life # "created", LifeMoves(op[i], n)
  PROVE  PhaseMoves(i)
<1>1. op[i] \in OpState /\ op'[i] = Deliver(n) /\ Others(i)
  BY DEF IInv, TypeOK, Settle, Others
<1>. QED BY <1>1, DeliverMoves DEF PhaseMoves

\* The handler of an active operation leaves it active or ending.
LEMMA ActiveMoves ==
  ASSUME IInv, NEW i \in Op, NEW n \in OpState, Settle(i, n), UNCHANGED sys,
         op[i].life = "active", n.life \in {"active", "ending"}
  PROVE  PhaseMoves(i)
BY SettleMoves DEF LifeMoves

\* The replies: each is handled by an active operation.
LEMMA RepliesMove ==
  ASSUME IInv, NEW i \in Op,
         \/ OwnerReplyFails(i) \/ StartUnitRefused(i) \/ StartReply(i)
         \/ RejectedReply(i) \/ GetUnitReply(i) \/ (\E late \in BOOLEAN : UnitReply(i, late))
         \/ ServiceReply(i) \/ UnrefReply(i)
  PROVE  PhaseMoves(i)
<1>. DEFINE o == Answered(op[i])
<1>1. op[i].life = "active" /\ op[i] \in OpState /\ UNCHANGED sys
  BY DEF IInv, TypeOK, OwnerReplyFails, StartUnitRefused, StartReply, RejectedReply,
         GetUnitReply, UnitReply, ServiceReply, UnrefReply, Replied
<1>2. o \in OpState /\ o.life = "active"
  BY <1>1, AnsweredMoves
<1>. HIDE DEF o
<1>3. \A c \in Calls : Send(o, c) \in OpState /\ Send(o, c).life = "active"
  BY <1>2, SendMoves
<1>4. \A st \in ManagedCommandStatus :
        End(o, st) \in OpState /\ End(o, st).life \in {"active", "ending"}
  BY <1>2, EndMoves
<1>5. "cleanupFailed" \in ManagedCommandStatus
  BY DEF ManagedCommandStatus
<1>6. Uncertain(o) \in OpState /\ Uncertain(o).life \in {"active", "ending"}
  BY <1>4, <1>5 DEF Uncertain
<1>7. ASSUME NEW n \in OpState, n.life \in {"active", "ending"}, Settle(i, n)
      PROVE  PhaseMoves(i)
  BY <1>1, <1>7, ActiveMoves
<1>8. CASE OwnerReplyFails(i)
  BY <1>4, <1>7, <1>8 DEF OwnerReplyFails, ManagedCommandStatus, o
<1>9. CASE StartUnitRefused(i)
  <2>. DEFINE n == [o EXCEPT !.lock = "open"]
  <2>1. n \in OpState /\ n.life = "active"
    BY <1>2 DEF OpState
  <2>2. Settle(i, End(o, "unavailable")) \/ Settle(i, End(n, "busy"))
    BY <1>9 DEF StartUnitRefused, o
  <2>. HIDE DEF n
  <2>3. /\ End(n, "busy") \in OpState /\ End(n, "busy").life \in {"active", "ending"}
        /\ End(o, "unavailable") \in OpState
        /\ End(o, "unavailable").life \in {"active", "ending"}
    BY <1>4, <2>1, EndMoves DEF ManagedCommandStatus
  <2>. QED BY <1>7, <2>2, <2>3
<1>10. CASE StartReply(i)
  <2>. DEFINE s == [o EXCEPT !.progress = "started"]
  <2>1. s \in OpState /\ s.life = "active"
    BY <1>2 DEF OpState
  <2>2. \/ Settle(i, Send(Stop(s), "GetUnit")) \/ Settle(i, Send(s, "GetUnit"))
        \/ Settle(i, Send(o, "UnrefRejected")) \/ Settle(i, Uncertain(o))
    BY <1>10 DEF StartReply, o
  <2>. HIDE DEF s
  <2>3. Stop(s) \in OpState /\ Stop(s).life = "active"
    BY <2>1, StopMoves
  <2>4. "GetUnit" \in Calls /\ "UnrefRejected" \in Calls
    BY DEF Calls
  <2>5. /\ Send(Stop(s), "GetUnit") \in OpState /\ Send(Stop(s), "GetUnit").life = "active"
        /\ Send(s, "GetUnit") \in OpState /\ Send(s, "GetUnit").life = "active"
    BY <2>1, <2>3, <2>4, SendMoves
  <2>. QED BY <1>3, <1>6, <1>7, <2>2, <2>4, <2>5
<1>11. CASE RejectedReply(i)
  <2>1. Settle(i, End(o, "unavailable")) \/ Settle(i, Uncertain(o))
    BY <1>11 DEF RejectedReply, o
  <2>. QED BY <1>4, <1>6, <1>7, <2>1 DEF ManagedCommandStatus
<1>12. CASE GetUnitReply(i)
  <2>. DEFINE s == [o EXCEPT !.progress = "located"]
  <2>1. s \in OpState /\ s.life = "active"
    BY <1>2 DEF OpState
  <2>2. Settle(i, Poll(s)) \/ Settle(i, Uncertain(o))
    BY <1>12 DEF GetUnitReply, o
  <2>. HIDE DEF s
  <2>. QED BY <1>6, <1>7, <2>1, <2>2, PollMoves
<1>13. CASE \E late \in BOOLEAN : UnitReply(i, late)
  <2>. DEFINE s == [o EXCEPT !.status = "timeout"]
  <2>1. s \in OpState /\ s.life = "active"
    BY <1>2 DEF OpState, ManagedCommandStatus
  <2>2. \/ Settle(i, Send(o, "GetAllService")) \/ Settle(i, Uncertain(o))
        \/ Settle(i, Cancel(s)) \/ Settle(i, o)
    BY <1>13 DEF UnitReply, o
  <2>. HIDE DEF s
  <2>3. Cancel(s) \in OpState /\ Cancel(s).life = "active"
    BY <2>1, CancelMoves
  <2>. QED BY <1>2, <1>3, <1>6, <1>7, <2>2, <2>3 DEF Calls
<1>14. CASE ServiceReply(i)
  <2>. DEFINE s == [o EXCEPT !.status = Verdict(o, op[i].answer)]
  <2>1. Verdict(o, op[i].answer) \in ManagedCommandStatus
    BY <1>2 DEF Verdict, OpState, ManagedCommandStatus
  <2>2. s \in OpState /\ s.life = "active"
    BY <1>2, <2>1 DEF OpState
  <2>3. Settle(i, Send(s, "UnrefUnit")) \/ Settle(i, o) \/ Settle(i, Uncertain(o))
    BY <1>14 DEF ServiceReply, o
  <2>. HIDE DEF s
  <2>4. "UnrefUnit" \in Calls
    BY DEF Calls
  <2>. QED BY <1>2, <1>6, <1>7, <2>2, <2>3, <2>4, SendMoves
<1>15. CASE UnrefReply(i)
  <2>. DEFINE s == [o EXCEPT !.progress = "unreferenced"]
  <2>1. s \in OpState /\ s.life = "active"
    BY <1>2 DEF OpState
  <2>2. Settle(i, EndIfDrained(s)) \/ Settle(i, Uncertain(o))
    BY <1>15 DEF UnrefReply, o
  <2>. HIDE DEF s
  <2>3. s.status \in ManagedCommandStatus
    BY <2>1 DEF OpState
  <2>4. EndIfDrained(s) \in OpState /\ EndIfDrained(s).life \in {"active", "ending"}
    BY <2>1, <2>3, EndMoves DEF EndIfDrained
  <2>. QED BY <1>6, <1>7, <2>2, <2>4
<1>. QED BY <1>8, <1>9, <1>10, <1>11, <1>12, <1>13, <1>14, <1>15

\* The other handlers, and what interrupts an operation.
LEMMA BeginMoves ==
  ASSUME IInv, NEW i \in Op, Begin(i)
  PROVE  PhaseMoves(i)
<1>. DEFINE s == Send(op[i], "GetNameOwner")
            n == [s EXCEPT !.life = "active"]
<1>1. op[i] \in OpState /\ op[i].life = "created"
  BY DEF IInv, TypeOK, Begin
<1>2. s \in OpState
  BY <1>1, SendMoves DEF Calls
<1>. HIDE DEF s
<1>3. n \in OpState /\ n.life = "active"
  BY <1>2 DEF OpState
<1>4. Settle(i, n) /\ UNCHANGED sys
  BY DEF Begin, s
<1>. HIDE DEF n
<1>5. op'[i] = n /\ Others(i)
  BY <1>1, <1>3, <1>4 DEF Settle, Deliver, IInv, TypeOK, Others
<1>. QED BY <1>1, <1>3, <1>4, <1>5 DEF PhaseMoves, LifeMoves

LEMMA OthersMove ==
  ASSUME IInv, NEW i \in Op,
         \/ StopReply(i) \/ ReadEnd(i) \/ (\E overdue \in BOOLEAN : TimerTick(i, overdue))
         \/ TimerDeadline(i) \/ OwnerChanged(i) \/ ReadOverflow(i)
  PROVE  PhaseMoves(i)
<1>. DEFINE o == op[i]
<1>1. o.life = "active" /\ o \in OpState /\ UNCHANGED sys
  BY DEF IInv, TypeOK, StopReply, ReadEnd, TimerTick, TimerDeadline, OwnerChanged,
         ReadOverflow
<1>. HIDE DEF o
<1>2. ASSUME NEW n \in OpState, n.life \in {"active", "ending"}, Settle(i, n)
      PROVE  PhaseMoves(i)
  BY <1>1, <1>2, ActiveMoves DEF o
<1>3. ASSUME NEW n \in OpState, n.life = "active"
      PROVE  /\ Uncertain(n) \in OpState /\ Uncertain(n).life \in {"active", "ending"}
             /\ EndIfDrained(n) \in OpState /\ EndIfDrained(n).life \in {"active", "ending"}
  <2>1. "cleanupFailed" \in ManagedCommandStatus /\ n.status \in ManagedCommandStatus
    BY <1>3 DEF ManagedCommandStatus, OpState
  <2>. QED BY <1>3, <2>1, EndMoves DEF Uncertain, EndIfDrained
<1>4. CASE StopReply(i)
  <2>. DEFINE n == [o EXCEPT !.stop = "done"]
  <2>1. n \in OpState /\ n.life = "active"
    BY <1>1 DEF OpState
  <2>2. Settle(i, n) \/ Settle(i, Uncertain(n))
    BY <1>4 DEF StopReply, o
  <2>. HIDE DEF n
  <2>. QED BY <1>2, <1>3, <2>1, <2>2
<1>5. CASE ReadEnd(i)
  <2>. DEFINE n == [o EXCEPT !.stream = "eof"]
              m == [o EXCEPT !.stream = "closed"]
  <2>1. n \in OpState /\ n.life = "active" /\ m \in OpState /\ m.life = "active"
    BY <1>1 DEF OpState
  <2>2. Settle(i, EndIfDrained(n)) \/ Settle(i, Uncertain(m))
    BY <1>5 DEF ReadEnd, o
  <2>. HIDE DEF n, m
  <2>. QED BY <1>2, <1>3, <2>1, <2>2
<1>6. CASE \E overdue \in BOOLEAN : TimerTick(i, overdue)
  <2>. DEFINE n == [o EXCEPT !.status = "timeout"]
  <2>1. n \in OpState /\ n.life = "active"
    BY <1>1 DEF OpState, ManagedCommandStatus
  <2>2. Settle(i, Poll(Cancel(n))) \/ Settle(i, Poll(o))
    BY <1>6 DEF TimerTick, o
  <2>. HIDE DEF n
  <2>3. Cancel(n) \in OpState /\ Cancel(n).life = "active"
    BY <2>1, CancelMoves
  <2>. QED BY <1>1, <1>2, <2>2, <2>3, PollMoves
<1>7. CASE ReadOverflow(i)
  <2>. DEFINE n == [o EXCEPT !.status = "outputLimit"]
  <2>1. n \in OpState /\ n.life = "active"
    BY <1>1 DEF OpState, ManagedCommandStatus
  <2>2. Settle(i, Cancel(n))
    BY <1>7 DEF ReadOverflow, o
  <2>. HIDE DEF n
  <2>. QED BY <1>2, <2>1, <2>2, CancelMoves
<1>8. CASE TimerDeadline(i) \/ OwnerChanged(i)
  BY <1>1, <1>2, <1>3, <1>8 DEF TimerDeadline, OwnerChanged, o
<1>. QED BY <1>4, <1>5, <1>6, <1>7, <1>8

\* Callbacks that come when the operation may be ending, or created.
LEMMA LateMoves ==
  ASSUME IInv, NEW i \in Op,
         LateReply(i) \/ ReadCancelled(i) \/ CloseDone(i) \/ ClientCancels(i)
           \/ ConnectionLost(i) \/ HelperCrashes(i)
  PROVE  PhaseMoves(i)
<1>. DEFINE o == op[i]
<1>1. o \in OpState /\ UNCHANGED sys
  BY DEF IInv, TypeOK, LateReply, ReadCancelled, CloseDone, ClientCancels,
         ConnectionLost, HelperCrashes
<1>. HIDE DEF o
<1>2. ASSUME NEW n \in OpState, n.life = o.life, n.status = o.status, Settle(i, n)
      PROVE  PhaseMoves(i)
  <2>1. CASE o.life # "created"
    BY <1>1, <1>2, <2>1, SettleMoves DEF LifeMoves, OpState, o
  <2>2. CASE o.life = "created"
    <3>1. op'[i] = n /\ Others(i)
      BY <1>2, <2>2, <1>1 DEF Settle, Deliver, IInv, TypeOK, Others
    <3>. QED BY <1>1, <1>2, <2>2, <3>1 DEF PhaseMoves, LifeMoves, o
  <2>. QED BY <2>1, <2>2
<1>3. CASE LateReply(i)
  <2>. DEFINE n == [o EXCEPT !.stop = "done"]
  <2>1. n \in OpState /\ n.life = o.life /\ n.status = o.status
    BY <1>1 DEF OpState
  <2>2. Settle(i, n) \/ Settle(i, Answered(o))
    BY <1>3 DEF LateReply, o
  <2>. HIDE DEF n
  <2>3. Answered(o).status = o.status
    BY <1>1 DEF Answered, OpState
  <2>. QED BY <1>1, <1>2, <2>1, <2>2, <2>3, AnsweredMoves
<1>4. CASE ReadCancelled(i)
  <2>. DEFINE n == [o EXCEPT !.stream = "closed"]
  <2>1. n \in OpState /\ n.life = o.life /\ n.status = o.status
    BY <1>1 DEF OpState
  <2>. QED BY <1>2, <1>4, <2>1 DEF ReadCancelled, o
<1>5. CASE CloseDone(i)
  <2>. DEFINE n == [o EXCEPT !.closing = FALSE, !.conn = "closed"]
  <2>1. n \in OpState /\ n.life = o.life /\ n.status = o.status
    BY <1>1 DEF OpState
  <2>. QED BY <1>2, <1>5, <2>1 DEF CloseDone, o
<1>6. CASE ClientCancels(i)
  BY <1>1, <1>2, <1>6, CancelMoves DEF ClientCancels, o
<1>7. CASE ConnectionLost(i)
  <2>. DEFINE n == [o EXCEPT !.conn = "closed"]
  <2>1. n \in OpState /\ n.life = o.life /\ n.status = o.status
    BY <1>1 DEF OpState
  <2>2. Settle(i, Uncertain(n))
    BY <1>7 DEF ConnectionLost, o
  <2>. HIDE DEF n
  <2>3. CASE o.life = "active"
    <3>1. Uncertain(n) \in OpState /\ Uncertain(n).life \in {"active", "ending"}
      BY <2>1, <2>3, EndMoves DEF Uncertain, ManagedCommandStatus
    <3>. QED BY <1>1, <2>2, <2>3, <3>1, ActiveMoves DEF o
  <2>4. CASE o.life # "active"
    BY <1>2, <2>1, <2>2, <2>4, EndMoves DEF Uncertain, ManagedCommandStatus
  <2>. QED BY <2>3, <2>4
<1>8. CASE HelperCrashes(i)
  <2>. DEFINE a == Answered(o)
              n == [a EXCEPT !.life = "crashed", !.stop = "done", !.closing = FALSE,
                             !.conn = "closed", !.stream = "closed", !.lock = "none"]
  <2>1. a \in OpState
    BY <1>1, AnsweredMoves
  <2>2. Settle(i, n) /\ o.life \in {"active", "ending"}
    BY <1>8 DEF HelperCrashes, o
  <2>. HIDE DEF a
  <2>3. n \in OpState /\ n.life = "crashed"
    BY <2>1 DEF OpState
  <2>. HIDE DEF n
  <2>. QED BY <1>1, <2>2, <2>3, SettleMoves DEF LifeMoves, o
<1>. QED BY <1>3, <1>4, <1>5, <1>6, <1>7, <1>8

LEMMA CallFailsMoves ==
  ASSUME IInv, NEW i \in Op, CallFails(i)
  PROVE  PhaseMoves(i)
<1>1. op[i] \in OpState /\ UNCHANGED sys
  BY DEF IInv, TypeOK, CallFails
<1>2. op' = [op EXCEPT ![i].answer = "error"] \/ op' = [op EXCEPT ![i].stop = "error"]
  BY DEF CallFails
<1>3. Others(i) /\ op'[i].life = op[i].life /\ op'[i].status = op[i].status
  BY <1>1, <1>2 DEF IInv, TypeOK, OpState, Others
<1>. QED BY <1>1, <1>3 DEF PhaseMoves, LifeMoves, OpState
-----------------------------------------------------------------------------
(* systemd.                                                                *)

SystemMoves(i) ==
  /\ Others(i) /\ BackendMoves(sys[i], sys'[i])
  /\ op'[i].life = op[i].life /\ op'[i].status = op[i].status

\* systemd only answers: it does not change the phase.
LEMMA ReplyMoves ==
  ASSUME IInv, NEW i \in Op, NEW answer,
         Reply(i, answer) \/ UNCHANGED op
           \/ op' = [op EXCEPT ![i].stop = answer]
  PROVE  /\ op'[i].life = op[i].life /\ op'[i].status = op[i].status
         /\ \A j \in Op \ {i} : op'[j] = op[j]
BY DEF IInv, TypeOK, OpState, Reply

LEMMA ServeMoves ==
  ASSUME IInv, NEW i \in Op, Serve(i)
  PROVE  SystemMoves(i)
<1>1. op[i] \in OpState /\ sys[i] \in SysState /\ UnitInv(sys[i])
  BY DEF IInv, TypeOK, CommandInv
<1>2. ASSUME UNCHANGED sys
      PROVE  BackendMoves(sys[i], sys'[i]) /\ \A j \in Op \ {i} : sys'[j] = sys[j]
  BY <1>2 DEF BackendMoves
<1>3. CASE ServeOwner(i) \/ ServeGetUnit(i) \/ ServeGetAllUnit(i) \/ ServeGetAllService(i)
  <2>1. UNCHANGED sys /\ \E answer : Reply(i, answer)
    BY <1>3 DEF ServeOwner, ServeGetUnit, ServeGetAllUnit, ServeGetAllService
  <2>. QED BY <1>2, <2>1, ReplyMoves DEF SystemMoves, Others
<1>4. CASE AcceptStart(i)
  <2>1. /\ \A j \in Op \ {i} : sys'[j] = sys[j]
        /\ sys[i].start = "transit" /\ sys'[i].start = "served"
    BY <1>1, <1>4 DEF AcceptStart, IInv, TypeOK, SysState
  <2>2. Reply(i, "ok") \/ UNCHANGED op
    BY <1>4 DEF AcceptStart, ReplyToStart
  <2>. QED BY <2>1, <2>2, ReplyMoves DEF SystemMoves, Others, BackendMoves, Lively
<1>5. CASE RejectStart(i)
  <2>1. /\ \A j \in Op \ {i} : sys'[j] = sys[j]
        /\ sys[i].start = "transit" /\ sys'[i].start = "served"
    BY <1>1, <1>5 DEF RejectStart, IInv, TypeOK, SysState
  <2>2. Reply(i, "rejected") \/ UNCHANGED op
    BY <1>5 DEF RejectStart, ReplyToStart
  <2>. QED BY <2>1, <2>2, ReplyMoves DEF SystemMoves, Others, BackendMoves, Lively
<1>6. CASE ServeUnref(i)
  <2>1. \E answer : Reply(i, answer)
    BY <1>6 DEF ServeUnref
  <2>2. sys' = [sys EXCEPT ![i].ref = FALSE] /\ sys[i].ref \in BOOLEAN
    BY <1>1, <1>6 DEF ServeUnref, SysState
  <2>3. op[i].call \in {"UnrefRejected", "UnrefUnit"}
    BY <1>6 DEF ServeUnref, Serving
  <2>4. sys[i].start # "none"
    BY <2>3 DEF IInv, CommandInv, CallInv, Refused, Clean, Quiet
  <2>5. /\ \A j \in Op \ {i} : sys'[j] = sys[j]
        /\ sys'[i].start = sys[i].start /\ sys'[i].unit = sys[i].unit
        /\ sys'[i].procs = sys[i].procs
    BY <1>1, <2>2 DEF IInv, TypeOK, SysState
  <2>. QED BY <2>1, <2>4, <2>5, ReplyMoves DEF SystemMoves, Others, BackendMoves, Lively
<1>7. CASE ServeStop(i)
  <2>1. \E answer : op' = [op EXCEPT ![i].stop = answer]
    BY <1>7 DEF ServeStop
  <2>. DEFINE u == CASE sys[i].unit = "queued" -> "ended"
                     [] sys[i].unit = "running" -> "stopping"
                     [] OTHER -> sys[i].unit
  <2>2. sys' = [sys EXCEPT ![i].unit = u]
    BY <1>7 DEF ServeStop
  <2>3. u \in {"queued", "running", "stopping"} => sys[i].unit \in {"queued", "running", "stopping"}
    OBVIOUS
  <2>4. sys[i].start = "none" => u = sys[i].unit
    BY <1>1 DEF UnitInv
  <2>. HIDE DEF u
  <2>5. /\ \A j \in Op \ {i} : sys'[j] = sys[j]
        /\ sys'[i].start = sys[i].start /\ sys'[i].unit = u
        /\ sys'[i].procs = sys[i].procs /\ (u = sys[i].unit => sys'[i] = sys[i])
    BY <1>1, <2>2 DEF IInv, TypeOK, SysState
  <2>. QED BY <2>1, <2>3, <2>4, <2>5, ReplyMoves DEF SystemMoves, Others, BackendMoves, Lively
<1>. QED BY <1>3, <1>4, <1>5, <1>6, <1>7 DEF Serve

LEMMA UnitMoves ==
  ASSUME IInv, NEW i \in Op, Unit(i)
  PROVE  SystemMoves(i)
<1>1. sys[i] \in SysState /\ UnitInv(sys[i])
  BY DEF IInv, TypeOK, CommandInv
<1>2. UNCHANGED op /\ \A j \in Op \ {i} : sys'[j] = sys[j]
  BY <1>1 DEF Unit, UnitStarts, UnitStartFails, UnitEnds, LastProcessExits,
         ReleaseControlGroup, DropReference, Collect, IInv, TypeOK
<1>3. sys[i].start = "served"
  BY <1>1 DEF Unit, UnitStarts, UnitStartFails, UnitEnds, LastProcessExits,
         ReleaseControlGroup, DropReference, Collect, UnitInv
<1>4. sys'[i].start = sys[i].start
  <2>1. CASE UnitStarts(i) \/ UnitStartFails(i)
    BY <1>1, <2>1 DEF UnitStarts, UnitStartFails, IInv, TypeOK, SysState
  <2>3. CASE UnitEnds(i)
    <3>1. PICK exit \in ExitAnswers, procs \in BOOLEAN :
            sys' = [sys EXCEPT ![i] = [sys[i] EXCEPT !.unit = "ended", !.exit = exit,
                                                     !.procs = procs]]
      BY <2>3 DEF UnitEnds
    <3>. QED BY <1>1, <3>1 DEF IInv, TypeOK, SysState
  <2>2. CASE LastProcessExits(i) \/ ReleaseControlGroup(i) \/ DropReference(i) \/ Collect(i)
    BY <1>1, <2>2 DEF LastProcessExits, ReleaseControlGroup, DropReference, Collect, IInv,
           TypeOK, SysState
  <2>. QED BY <2>1, <2>2, <2>3 DEF Unit
<1>5. ~Lively(sys[i]) => ~Lively(sys'[i])
  BY <1>1, <1>3 DEF Unit, UnitStarts, UnitStartFails, UnitEnds, LastProcessExits,
         ReleaseControlGroup, DropReference, Collect, IInv, TypeOK, SysState, Lively
<1>. QED BY <1>2, <1>3, <1>4, <1>5 DEF SystemMoves, Others, BackendMoves

-----------------------------------------------------------------------------
(* What the users of the runner see.                                       *)

Phase(life) ==
  CASE life = "created" -> "idle"
    [] life \in {"active", "ending"} -> "running"
    [] life = "delivered" -> "over"
    [] OTHER -> "dead"

View(o, s) ==
  [phase   |-> Phase(o.life),
   status  |-> IF o.life = "delivered" THEN o.status ELSE "none",
   backend |-> IF s.start = "none" THEN "none"
               ELSE IF Lively(s) THEN "live" ELSE "gone"]

LEMMA AbstractIsView == Abstract = [i \in Op |-> View(op[i], sys[i])]
BY DEF Abstract, View, Phase, Live, Lively

LEMMA ViewStep ==
  ASSUME NEW i \in Op, Others(i)
  PROVE  Abstract' = [Abstract EXCEPT ![i] = View(op'[i], sys'[i])]
<1>1. Abstract' = [j \in Op |-> View(op'[j], sys'[j])]
  BY DEF Abstract, View, Phase, Live, Lively
<1>. QED BY <1>1, AbstractIsView DEF Others

LEMMA PhaseStep ==
  ASSUME IInv, IInv', NEW i \in Op, PhaseMoves(i)
  PROVE  Runner!Next \/ UNCHANGED Abstract
<1>. DEFINE v == View(op[i], sys[i])
            w == View(op'[i], sys'[i])
<1>1. Abstract' = [Abstract EXCEPT ![i] = w] /\ Abstract[i] = v
  BY ViewStep, AbstractIsView DEF PhaseMoves
<1>2. w.backend = v.backend /\ LifeMoves(op[i], op'[i]) /\ op[i] \in OpState /\ op'[i] \in OpState
  BY DEF PhaseMoves, View, IInv, TypeOK
<1>3. CASE op[i].life = "created" /\ op'[i].life = "active"
  <2>1. v.phase = "idle" /\ w = [v EXCEPT !.phase = "running"]
    BY <1>2, <1>3 DEF View, Phase
  <2>. HIDE DEF v, w
  <2>2. Runner!Start(i)
    BY <1>1, <2>1 DEF Runner!Start
  <2>. QED BY <2>2 DEF Runner!Next
<1>4. CASE op[i].life \in {"active", "ending"} /\ op'[i].life = "delivered"
  <2>. DEFINE st == op'[i].status
  <2>1. v.phase = "running" /\ w.phase = "over" /\ w.status = st
    BY <1>4 DEF View, Phase
  <2>6. w = [v EXCEPT !.phase = "over", !.status = st]
    BY <1>2, <2>1 DEF View
  <2>2. EndInv(op'[i], sys'[i]) /\ UnitInv(sys'[i])
    BY DEF IInv, CommandInv
  <2>3. st \in Runner!Statuses
    BY <1>2 DEF OpState, ManagedCommandStatus, Runner!Statuses
  <2>4. st # "cleanupFailed" => w.backend # "live"
    BY <1>4, <2>2 DEF EndInv, View, Lively
  <2>5. st \in Verdicts => w.backend = "gone"
    BY <1>4, <2>2, <2>4 DEF EndInv, View, Verdicts
  <2>. HIDE DEF v, w, st
  <2>7. Runner!Finish(i, st)
    BY <1>1, <1>2, <2>1, <2>4, <2>5, <2>6 DEF Runner!Finish, Verdicts
  <2>. QED BY <2>3, <2>7 DEF Runner!Next
<1>5. CASE op[i].life \in {"active", "ending"} /\ op'[i].life = "crashed"
  <2>1. v.phase = "running" /\ w = [v EXCEPT !.phase = "dead"]
    BY <1>2, <1>5 DEF View, Phase
  <2>. HIDE DEF v, w
  <2>2. Runner!Die(i)
    BY <1>1, <2>1 DEF Runner!Die
  <2>. QED BY <2>2 DEF Runner!Next
<1>6. CASE \/ op'[i].life = op[i].life
           \/ op[i].life = "active" /\ op'[i].life = "ending"
  <2>1. w = v
    BY <1>2, <1>6 DEF View, Phase, LifeMoves, PhaseMoves, OpState
  <2>. HIDE DEF v, w
  <2>2. Abstract = [Abstract EXCEPT ![i] = v]
    BY <1>1, AbstractIsView
  <2>. QED BY <1>1, <2>1, <2>2
<1>. QED BY <1>2, <1>3, <1>4, <1>5, <1>6 DEF LifeMoves, OpState

LEMMA LaunchStep ==
  ASSUME IInv, IInv', NEW i \in Op, StartUnit(i)
  PROVE  Runner!Next
<1>. DEFINE v == View(op[i], sys[i])
            w == View(op'[i], sys'[i])
            s == Send(op[i], "StartTransientUnit")
            n == [s EXCEPT !.lock = "held", !.stream = "reading"]
<1>1. op[i] \in OpState /\ op[i].life = "active" /\ sys[i].start = "none"
  BY DEF StartUnit, Replied, IInv, TypeOK, CommandInv, CallInv
<1>2. s \in OpState /\ s.life = "active"
  BY <1>1, SendMoves DEF Calls
<1>3. Settle(i, n)
  BY DEF StartUnit
<1>. HIDE DEF s
<1>4. n \in OpState /\ n.life = "active"
  BY <1>2 DEF OpState
<1>. HIDE DEF n
<1>5. op'[i].life = "active" /\ \A j \in Op \ {i} : op'[j] = op[j]
  BY <1>3, <1>4 DEF Settle, Deliver, IInv, TypeOK
<1>6. sys'[i].start = "transit" /\ \A j \in Op \ {i} : sys'[j] = sys[j]
  BY DEF StartUnit, IInv, TypeOK, SysState
<1>7. Abstract' = [Abstract EXCEPT ![i] = w] /\ Abstract[i] = v
  BY <1>5, <1>6, ViewStep, AbstractIsView DEF Others
<1>8. v.phase = "running" /\ v.backend = "none" /\ w = [v EXCEPT !.backend = "live"]
  BY <1>1, <1>5, <1>6 DEF View, Phase, Lively
<1>9. ASSUME NEW j \in Op
      PROVE  Abstract[j].backend # "live"
  <2>1. CASE j = i
    BY <1>7, <1>8, <2>1
  <2>2. CASE j # i
    <3>1. ~HoldsLock(j)
      BY <2>2 DEF StartUnit
    <3>2. ~Lively(sys[j])
      BY <3>1 DEF HoldsLock, Lively
    <3>. QED BY <3>2, AbstractIsView DEF View
  <2>. QED BY <2>1, <2>2
<1>. HIDE DEF v, w
<1>10. Runner!Launch(i)
  BY <1>7, <1>8, <1>9 DEF Runner!Launch
<1>. QED BY <1>10 DEF Runner!Next

LEMMA BackendStep ==
  ASSUME IInv, NEW i \in Op, SystemMoves(i)
  PROVE  Runner!Next \/ UNCHANGED Abstract
<1>. DEFINE v == View(op[i], sys[i])
            w == View(op'[i], sys'[i])
<1>1. Abstract' = [Abstract EXCEPT ![i] = w] /\ Abstract[i] = v
  BY ViewStep, AbstractIsView DEF SystemMoves
<1>2. CASE v.backend = "live" /\ w.backend = "gone"
  <2>1. w = [v EXCEPT !.backend = "gone"]
    BY <1>2 DEF View, SystemMoves
  <2>. HIDE DEF v, w
  <2>2. Runner!Vanish(i)
    BY <1>1, <1>2, <2>1 DEF Runner!Vanish
  <2>. QED BY <2>2 DEF Runner!Next
<1>3. CASE w.backend = v.backend
  <2>1. w = v
    BY <1>3 DEF View, SystemMoves
  <2>. HIDE DEF v, w
  <2>2. Abstract = [Abstract EXCEPT ![i] = v]
    BY <1>1, AbstractIsView
  <2>. QED BY <1>1, <2>1, <2>2
<1>4. w.backend = v.backend \/ (v.backend = "live" /\ w.backend = "gone")
  BY DEF View, SystemMoves, BackendMoves
<1>. QED BY <1>2, <1>3, <1>4

-----------------------------------------------------------------------------
LEMMA InitImplements ==
  ASSUME Init
  PROVE  Runner!Init
BY AbstractIsView DEF Init, View, Phase, Runner!Init, Runner!Fresh

LEMMA NextImplements ==
  ASSUME IInv, IInv', [Next]_vars
  PROVE  [Runner!Next]_Abstract
<1>1. ASSUME NEW i \in Op, Handler(i)
      PROVE  Runner!Next \/ UNCHANGED Abstract
  BY <1>1, BeginMoves, RepliesMove, OthersMove, LateMoves, CallFailsMoves, PhaseStep,
     LaunchStep DEF Handler
<1>2. ASSUME NEW i \in Op, Timer(i) \/ Environment(i)
      PROVE  Runner!Next \/ UNCHANGED Abstract
  BY <1>2, OthersMove, LateMoves, PhaseStep DEF Timer, Environment
<1>3. ASSUME NEW i \in Op, Serve(i) \/ Unit(i)
      PROVE  Runner!Next \/ UNCHANGED Abstract
  BY <1>3, ServeMoves, UnitMoves, BackendStep
<1>4. CASE UNCHANGED vars
  BY <1>4 DEF vars, Abstract, Live
<1>. QED BY <1>1, <1>2, <1>3, <1>4 DEF Next, Finished

\* The code of the runner keeps the promise of managed_command.h: one launch,
\* never beside another backend, one completion, and an honest status.
THEOREM RunnerIsImplemented == Spec => ImplementsRunner
<1>1. Init => Runner!Init
  BY InitImplements
<1>2. IInv /\ IInv' /\ [Next]_vars => [Runner!Next]_Abstract
  BY NextImplements
<1>. QED BY <1>1, <1>2, Invariant, PTL DEF Spec, ImplementsRunner, Runner!Spec
=============================================================================
