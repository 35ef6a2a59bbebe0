------------------------------ MODULE QueuedPage ------------------------------
(***************************************************************************)
(* A page whose bloc handles one event at a time                           *)
(* (lib/features/power/bloc/power_bloc.dart, fans/bloc/fans_bloc.dart; the *)
(* display, battery, devices and lighting blocs have the same form): the   *)
(* polling timer and the user add events, a write is followed by its       *)
(* readback.  The power page also applies several limits at once and rolls *)
(* back (power_repository.dart), the fans page keeps an edited curve.      *)
(*                                                                         *)
(* A write goes through the bridge (ControlAccess): it is confirmed, fails *)
(* with or without effect, or is given up, which closes control access for *)
(* the session while the backend may still finish.  The power mode goes to *)
(* Power Profiles Daemon first (power_profile_service.dart), on a call of  *)
(* its own: when that is given up, control access stays as it is and the   *)
(* daemon may still set the profile.  Reads may fail.  One bloc from its   *)
(* creation to its end; no other tool changes the settings.                *)
(***************************************************************************)
EXTENDS Naturals, Sequences, SequencesExt

CONSTANTS
  Setting,   \* what the page reads and writes
  Value,     \* what it can be set to
  Curve,     \* the setting that is edited on the fans page
  Mode,      \* the power mode
  Standard,  \* the modes that are profiles of Power Profiles Daemon
  Performance, \* the profile that goes with the firmware's other modes
  NotRead,   \* no value
  MaxQueue,  \* bound on the events that wait
  MaxLate    \* bound on the calls that were given up, for each profile

ASSUME ConstantsAssumption ==
  /\ Curve \in Setting /\ Mode \in Setting \ {Curve}
  /\ Standard \subseteq Value /\ Performance \in Standard
  /\ NotRead \notin Value /\ MaxQueue \in Nat /\ MaxLate \in Nat

VARIABLES
  page,      \* which of the two blocs
  hardware,  \* the settings
  access,    \* control access of the session, and what was given up
  bloc,      \* the fields of the bloc and of its state
  queue,     \* the events that wait
  run,       \* the handler
  history    \* what the user was told and has not saved

vars == <<page, hardware, access, bloc, queue, run, history>>

Write == [s : Setting, v : Value]
Writes == {w \in UNION {[1..n -> Write] : n \in 0..2} :
             \A m, n \in DOMAIN w : w[m].s = w[n].s => m = n}

Kinds == {"started", "refresh", "ticked", "set", "limits", "edit", "save"}
Event == [kind : Kinds, writes : Writes]

Plain(kind) == [kind |-> kind, writes |-> <<>>]

Shown == [Setting -> Value \cup {NotRead}]
Unread == [s \in Setting |-> NotRead]

Bloc ==
  [started : BOOLEAN, closing : BOOLEAN, timer : BOOLEAN, tickPending : BOOLEAN,
   applying : BOOLEAN,
   shown    : Shown,
   dirty    : BOOLEAN,            \* fanCurveDirty
   notice   : SUBSET Write]       \* the success that is announced

Run ==
  [kind   : Kinds,
   pc     : {"idle", "context", "daemon", "check", "write", "undo", "load", "loaded"},
   todo   : Writes,               \* the writes to come
   done   : Writes,               \* the writes that were confirmed
   orig   : Shown,                \* originals
   failed : {"no", "restored", "unrestored"},
   read   : Shown]                \* what loadSnapshot has read

Idle == [kind |-> "started", pc |-> "idle", todo |-> <<>>, done |-> <<>>,
         orig |-> Unread, failed |-> "no", read |-> Unread]

History == [unsaved  : Value \cup {NotRead},   \* the last edit, until it is saved
            restored : SUBSET Write,           \* what a failed batch left as it was
            astray   : BOOLEAN]                \* the mode may not be the confirmed one

Access == [open   : BOOLEAN,
           late   : SUBSET Write,              \* backends that may still end
           daemon : [Standard -> 0..MaxLate]]  \* calls that the daemon may still serve

TypeOK ==
  /\ page \in {"power", "fans"}
  /\ hardware \in [Setting -> Value]
  /\ access \in Access
  /\ bloc \in Bloc
  /\ queue \in Seq(Event)
  /\ run \in Run
  /\ history \in History

Init ==
  /\ page \in {"power", "fans"}
  /\ hardware \in [Setting -> Value]
  /\ access = [open |-> TRUE, late |-> {}, daemon |-> [p \in Standard |-> 0]]
  /\ bloc = [started |-> FALSE, closing |-> FALSE, timer |-> FALSE, tickPending |-> FALSE,
             applying |-> FALSE, shown |-> Unread, dirty |-> FALSE, notice |-> {}]
  /\ queue = <<Plain("started")>>
  /\ run = Idle
  /\ history = [unsaved |-> NotRead, restored |-> {}, astray |-> FALSE]

-----------------------------------------------------------------------------
(* Events arrive.                                                          *)

\* Busy writes are refused at arrival; edits are kept.
Rejected(kind) == bloc.applying /\ kind \in {"set", "limits", "save"}

\* The mode is set on the power page, on its own.
WithoutMode == {w \in Writes : \A n \in DOMAIN w : w[n].s # Mode}

UserEvents ==
  {Plain("refresh")} \cup
  (IF page = "power"
   THEN [kind : {"set"}, writes : {w \in Writes : Len(w) = 1}] \cup
        [kind : {"limits"}, writes : {w \in WithoutMode : Len(w) = 2}]
   ELSE [kind : {"set"}, writes : {w \in WithoutMode : Len(w) = 1}] \cup
        [kind : {"edit"}, writes : {<<[s |-> Curve, v |-> v]>> : v \in Value}] \cup
        {Plain("save")})

Add ==
  /\ ~bloc.closing /\ Len(queue) < MaxQueue
  /\ \E e \in UserEvents : ~Rejected(e.kind) /\ queue' = Append(queue, e)
  /\ UNCHANGED <<page, hardware, access, bloc, run, history>>

\* The periodic timer: at most one tick waits.
Tick ==
  /\ bloc.timer /\ ~bloc.tickPending /\ ~bloc.applying
  /\ bloc' = [bloc EXCEPT !.tickPending = TRUE]
  /\ queue' = Append(queue, Plain("ticked"))
  /\ UNCHANGED <<page, hardware, access, run, history>>

-----------------------------------------------------------------------------
(* The handler of an event begins.                                         *)

Take == /\ run.pc = "idle" /\ queue # <<>>
        /\ queue' = Tail(queue)
        /\ UNCHANGED <<page, hardware, access>>

Begin(pc, todo) ==
  run' = [Idle EXCEPT !.kind = Head(queue).kind, !.pc = pc, !.todo = todo]

\* Asynchronous handlers of a bloc that is closing return at once.
Skip == /\ Take
        /\ \/ bloc.closing
           \/ Head(queue).kind = "started" /\ bloc.started
           \/ Head(queue).kind \in {"edit", "save"} /\ bloc.shown[Curve] = NotRead
        /\ UNCHANGED <<bloc, run, history>>

Load ==
  /\ Take /\ ~bloc.closing
  /\ \/ /\ Head(queue).kind = "started" /\ ~bloc.started
        /\ bloc' = [bloc EXCEPT !.started = TRUE, !.notice = {}]
     \/ /\ Head(queue).kind = "refresh"
        /\ bloc' = [bloc EXCEPT !.notice = {}]
     \/ /\ Head(queue).kind = "ticked"
        /\ UNCHANGED bloc
  /\ Begin("load", <<>>)
  /\ UNCHANGED history

Edit ==
  /\ Take /\ ~bloc.closing
  /\ Head(queue).kind = "edit" /\ bloc.shown[Curve] # NotRead
  /\ LET v == Head(queue).writes[1].v
     IN  /\ bloc' = [bloc EXCEPT !.shown[Curve] = v, !.dirty = TRUE]
         /\ history' = [history EXCEPT !.unsaved = v]
  /\ UNCHANGED run

\* The writes of an event; the curve is the one shown when its turn comes.
WritesOf(e) ==
  IF e.kind = "save" THEN <<[s |-> Curve, v |-> bloc.shown[Curve]]>> ELSE e.writes

\* The mode is set at the daemon, unless it does not answer or has no such
\* profile.
FirstSteps(e) ==
  IF e.kind = "limits" THEN {"context"}
  ELSE IF e.kind = "set" /\ e.writes[1].s = Mode THEN {"daemon", "write"} ELSE {"write"}

Apply ==
  /\ Take /\ ~bloc.closing /\ ~bloc.applying
  /\ \/ Head(queue).kind \in {"set", "limits"}
     \/ Head(queue).kind = "save" /\ bloc.shown[Curve] # NotRead
  /\ bloc' = [bloc EXCEPT !.applying = TRUE, !.notice = {}]
  /\ \E pc \in FirstSteps(Head(queue)) : Begin(pc, WritesOf(Head(queue)))
  /\ history' = [history EXCEPT !.restored = {}]

-----------------------------------------------------------------------------
(* The repository writes.                                                  *)

Elsewhere == UNCHANGED <<page, queue>>

\* A batch checks the mode and the power supply and reads the originals; what
\* fails here ends it before the first write.
Originals ==
  /\ run.pc = "context"
  /\ \/ run' = [run EXCEPT !.pc = "write", !.orig = hardware]
     \/ run' = [run EXCEPT !.pc = "load", !.failed = "restored", !.todo = <<>>]
  /\ UNCHANGED <<hardware, access, bloc, history>> /\ Elsewhere

Current == Head(run.todo)

With(w) == [hardware EXCEPT ![w.s] = w.v]

\* After its last write the handler goes on to the readback.
Step(done, failed) ==
  run' = [run EXCEPT !.todo = Tail(@), !.done = done, !.failed = failed,
                     !.pc = IF Len(run.todo) = 1 THEN "load" ELSE run.pc]

WriteSucceeds ==
  /\ run.pc = "write" /\ access.open
  /\ hardware' = With(Current)
  /\ Step(Append(run.done, Current), "no")
  /\ history' = [history EXCEPT !.astray = @ /\ Current.s # Mode]
  /\ UNCHANGED <<access, bloc>> /\ Elsewhere

\* A write that fails: control access is closed already, the backend failed
\* with or without effect, or the bridge gave up, before or after the backend
\* was started.
Unconfirmed(w) ==
  \/ UNCHANGED <<hardware, access>>
  \/ access.open /\ hardware' = With(w) /\ UNCHANGED access
  \/ /\ access.open
     /\ \E late \in {{}, {w}} : access' = [access EXCEPT !.open = FALSE, !.late = late]
     /\ UNCHANGED hardware

\* Without a readback the handler reports the error and ends.
Report ==
  /\ run' = Idle
  /\ bloc' = IF bloc.closing THEN bloc ELSE [bloc EXCEPT !.applying = FALSE]
  /\ UNCHANGED history /\ Elsewhere

SingleFails ==
  /\ run.pc = "write" /\ run.kind # "limits"
  /\ Unconfirmed(Current)
  /\ Report

\* The profile a mode is set with at the daemon.
ProfileOf(v) == IF v \in Standard THEN v ELSE Performance

Profile(p) == [s |-> Mode, v |-> p]

\* The daemon confirms.  It knows nothing of the firmware's other modes: a
\* profile it believes to be active it may leave as it is.
DaemonSets ==
  /\ run.pc = "daemon"
  /\ hardware' \in {hardware, With(Profile(ProfileOf(Current.v)))}
  /\ run' = [run EXCEPT !.pc = IF Current.v \in Standard THEN "check" ELSE "write"]
  /\ UNCHANGED <<access, bloc, history>> /\ Elsewhere

\* The request is refused before anything is set, the daemon fails with or
\* without effect, or it is given up and may still serve the call.
DaemonFails ==
  /\ run.pc = "daemon"
  /\ LET p == ProfileOf(Current.v)
     IN  \/ hardware' \in {hardware, With(Profile(p))} /\ UNCHANGED access
         \/ /\ access.daemon[p] < MaxLate
            /\ access' = [access EXCEPT !.daemon[p] = @ + 1]
            /\ UNCHANGED hardware
  /\ Report

\* The firmware's profile is read after the daemon's answer: a different one
\* is written over, one that cannot be read is taken for the right one.
Checked ==
  /\ run.pc = "check"
  /\ \/ /\ hardware[Mode] # Current.v
        /\ run' = [run EXCEPT !.pc = "write"]
        /\ UNCHANGED history
     \/ \E readable \in BOOLEAN :
          /\ readable => hardware[Mode] = Current.v
          /\ Step(Append(run.done, Current), "no")
          /\ history' = [history EXCEPT !.astray = ~readable]
  /\ UNCHANGED <<hardware, access, bloc>> /\ Elsewhere

\* The daemon serves a call that was given up, with or without effect.
LateMode ==
  \E p \in Standard :
    /\ access.daemon[p] > 0
    /\ hardware' \in {hardware, With(Profile(p))}
    /\ access' = [access EXCEPT !.daemon[p] = @ - 1]
    /\ history' = [history EXCEPT !.astray = TRUE]
    /\ UNCHANGED <<bloc, run>> /\ Elsewhere

Original(w) == [s |-> w.s, v |-> run.orig[w.s]]

\* What was confirmed is written back, the last one first.
RollBack == Reverse([n \in DOMAIN run.done |-> Original(run.done[n])])

BatchFails ==
  /\ run.pc = "write" /\ run.kind = "limits"
  /\ Unconfirmed(Current)
  /\ run' = [run EXCEPT !.failed = "restored", !.todo = RollBack,
                        !.pc = IF run.done = <<>> THEN "load" ELSE "undo"]
  /\ UNCHANGED <<bloc, history>> /\ Elsewhere

UndoSucceeds ==
  /\ run.pc = "undo" /\ access.open
  /\ hardware' = With(Current)
  /\ Step(run.done, run.failed)
  /\ UNCHANGED <<access, bloc, history>> /\ Elsewhere

\* Mutated form: a failure to restore is not reported.
AfterUndoFailureSilent == run.failed

AfterUndoFailure == "unrestored"

UndoFails ==
  /\ run.pc = "undo"
  /\ Unconfirmed(Current)
  /\ Step(run.done, AfterUndoFailure)
  /\ UNCHANGED <<bloc, history>> /\ Elsewhere

\* The backend of a write that was given up ends, with or without effect.
LateEnd ==
  /\ \E w \in access.late :
       /\ hardware' \in {hardware, With(w)}
       /\ history' = [history EXCEPT !.astray = @ \/ w.s = Mode]
  /\ access' = [access EXCEPT !.late = {}]
  /\ UNCHANGED <<bloc, run>> /\ Elsewhere

-----------------------------------------------------------------------------
(* The readback.                                                           *)

Read ==
  /\ run.pc = "load" /\ ~bloc.closing
  /\ run' = [run EXCEPT !.pc = "loaded", !.read = hardware]
  /\ UNCHANGED <<hardware, access, bloc, history>> /\ Elsewhere

\* Mutated form: the readback replaces an edited curve.
ShownAfterReadOnly == run.read

\* A curve that was edited stays as it is.
ShownAfter ==
  [s \in Setting |-> IF s = Curve /\ bloc.dirty THEN bloc.shown[s] ELSE run.read[s]]

\* Mutated form: the write alone is a success.
SuccessUnread(loaded) == run.failed = "no" /\ run.done # <<>>

Success(loaded) == loaded /\ run.failed = "no" /\ run.done # <<>>

\* The handler ends after its load.
End(loaded) ==
  /\ run' = Idle
  /\ bloc' = [bloc EXCEPT
       !.shown = IF loaded THEN ShownAfter ELSE @,
       !.timer = @ \/ run.kind = "started",
       !.tickPending = @ /\ run.kind # "ticked",
       !.applying = FALSE,
       !.dirty = @ /\ ~(run.kind = "save" /\ Success(loaded)),
       !.notice = IF Success(loaded) THEN ToSet(run.done) ELSE @]
  /\ history' = [history EXCEPT
       !.unsaved = IF run.kind = "save" /\ Success(loaded) THEN NotRead ELSE @,
       !.restored = IF run.failed = "restored"
                    THEN {Original(w) : w \in ToSet(run.done)} ELSE @]
  /\ UNCHANGED <<hardware, access>> /\ Elsewhere

LoadEnds == run.pc = "loaded" /\ ~bloc.closing /\ End(TRUE)

LoadFails == run.pc \in {"load", "loaded"} /\ ~bloc.closing /\ End(FALSE)

\* The bloc of a page that was left shows nothing more.
LoadIsLate ==
  /\ run.pc \in {"load", "loaded"} /\ bloc.closing
  /\ run' = Idle
  /\ UNCHANGED <<hardware, access, bloc, history>> /\ Elsewhere

Close ==
  /\ ~bloc.closing
  /\ bloc' = [bloc EXCEPT !.closing = TRUE, !.timer = FALSE]
  /\ UNCHANGED <<hardware, access, run, history>> /\ Elsewhere

\* The page is gone and its last handler has ended.
Gone ==
  /\ bloc.closing /\ queue = <<>> /\ run.pc = "idle"
  /\ access.late = {} /\ \A p \in Standard : access.daemon[p] = 0
  /\ UNCHANGED vars

Next ==
  \/ Add \/ Tick \/ Skip \/ Load \/ Edit \/ Apply
  \/ Originals \/ WriteSucceeds \/ SingleFails \/ BatchFails
  \/ DaemonSets \/ DaemonFails \/ Checked \/ LateMode
  \/ UndoSucceeds \/ UndoFails \/ LateEnd
  \/ Read \/ LoadEnds \/ LoadFails \/ LoadIsLate \/ Close \/ Gone

Spec == Init /\ [][Next]_vars

-----------------------------------------------------------------------------
(* Properties.                                                             *)

\* While a success is announced, every setting it names is shown with the value
\* that was written, and has it: no poll that began before the write replaces
\* the readback, and nothing rolls the write back.  The curve may be edited on.
\* Only a power mode may leave what is announced, and only when it could not be
\* read after the daemon's answer, or when a call or a backend that was given up
\* set it since: the bloc does not compare what it reads with what it announces.
SuccessIsShown ==
  \A w \in bloc.notice :
    \/ w.s = Mode /\ history.astray
    \/ /\ hardware[w.s] = w.v
       /\ bloc.shown[w.s] = w.v \/ (w.s = Curve /\ bloc.dirty)

\* When a batch fails and the report does not say that values could not be
\* restored, every limit that was confirmed has its original value, and keeps
\* it: a write that was given up changes at most the limit it was about.
FailedBatchIsRestored == \A w \in history.restored : hardware[w.s] = w.v

\* An edit of the fan curve is shown until a write of this very curve has been
\* confirmed and read back, whatever is polled, saved or refused meanwhile.
EditsAreKept ==
  history.unsaved # NotRead => bloc.dirty /\ bloc.shown[Curve] = history.unsaved
=============================================================================
