---------------------------- MODULE ConcurrentPage ----------------------------
(***************************************************************************)
(* A page whose bloc runs its handlers side by side: the dashboard         *)
(* (lib/features/dashboard/bloc/dashboard_bloc.dart), which skips a load   *)
(* while another is in flight, and the graphics page                       *)
(* (lib/features/dgpu/bloc/dgpu_bloc.dart), which waits for it.  A step is *)
(* what a handler does between two waits: for a write, a read, or the end  *)
(* of another handler's load.                                              *)
(*                                                                         *)
(* The hardware is the number of writes that took effect, so a snapshot    *)
(* tells which of them it has seen.  The bridge ends a write as confirmed, *)
(* failed with or without effect, or given up, which closes control access *)
(* for the session while the backend may still finish (ControlAccess).     *)
(* The dashboard writes the power mode, too: it goes to Power Profiles     *)
(* Daemon first and so may succeed without control access, and one of its  *)
(* calls that were given up may still have effect.                         *)
(***************************************************************************)
EXTENDS Naturals, FiniteSets

CONSTANTS
  Handler,    \* the handlers that can run at the same time
  Nobody,     \* no handler
  MaxWrites   \* bound on the writes

ASSUME HandlerAssumption ==
  Nobody \notin Handler /\ IsFiniteSet(Handler) /\ MaxWrites \in Nat

VARIABLES
  page,       \* which of the two blocs
  hardware,   \* the writes that took effect
  access,     \* control access of the session
  bloc,       \* the fields of the bloc and of its state
  task        \* the handlers

vars == <<page, hardware, access, bloc, task>>

Count == 0..MaxWrites

Bloc ==
  [started : BOOLEAN, closing : BOOLEAN, timer : BOOLEAN,
   inFlight  : BOOLEAN,                     \* _refreshInFlight
   completer : Handler \cup {Nobody},       \* whose load _refreshCompleter ends
   applying  : BOOLEAN,
   shown     : Count,                       \* the snapshot
   error     : BOOLEAN,
   notice    : Count]                       \* the write announced as a success

Kinds == {"started", "refresh", "ticked", "apply", "target"}

Task ==
  [kind  : Kinds,
   pc    : {"idle", "write", "wait", "load", "loaded"},
   wrote : Count,                           \* the write it confirmed, or 0
   error : BOOLEAN,                         \* actionErrorMessage
   on    : Handler \cup {Nobody},           \* whose load it waits for
   read  : Count]

Idle == [kind |-> "refresh", pc |-> "idle", wrote |-> 0, error |-> FALSE,
         on |-> Nobody, read |-> 0]

TypeOK ==
  /\ page \in {"dashboard", "graphics"}
  /\ hardware \in Count
  /\ access \in {"open", "late", "closed"}
  /\ bloc \in Bloc
  /\ task \in [Handler -> Task]

Init ==
  /\ page \in {"dashboard", "graphics"}
  /\ hardware = 0 /\ access = "open"
  /\ bloc = [started |-> FALSE, closing |-> FALSE, timer |-> FALSE, inFlight |-> FALSE,
             completer |-> Nobody, applying |-> FALSE, shown |-> 0, error |-> FALSE,
             notice |-> 0]
  /\ task = [i \in Handler |-> Idle]

-----------------------------------------------------------------------------
(* A handler's load: _loadStatus and _reloadState.                         *)

\* The bloc after emit: nothing is shown after close.
Emit(b) == IF bloc.closing THEN bloc ELSE b

\* What a handler does after its load: the first one starts the timer, the
\* dashboard announces its write.
After(b, t) ==
  CASE t.kind = "started" -> [b EXCEPT !.timer = TRUE]
    [] t.kind = "apply" /\ page = "dashboard" /\ ~bloc.closing ->
         [b EXCEPT !.applying = FALSE, !.notice = t.wrote]
    [] OTHER -> b

Busy == bloc.inFlight

\* Task i, now t with the bloc b, asks for a load.
Reload(i, t, b) ==
  \/ /\ ~Busy
     /\ task' = [task EXCEPT ![i] = [t EXCEPT !.pc = "load"]]
     /\ bloc' = [b EXCEPT !.inFlight = TRUE, !.completer = i]
  \/ /\ Busy /\ page = "dashboard"
     /\ task' = [task EXCEPT ![i] = Idle]
     /\ bloc' = After(b, t)
  \/ /\ Busy /\ page = "graphics"
     /\ task' = [task EXCEPT ![i] = [t EXCEPT !.pc = "wait", !.on = bloc.completer]]
     /\ bloc' = b

Read(i) ==
  /\ task[i].pc = "load"
  /\ task' = [task EXCEPT ![i].pc = "loaded", ![i].read = hardware]
  /\ UNCHANGED <<page, hardware, access, bloc>>

\* Mutated form: the handler of a write does not insist on a load of its own.
ForcedNever(i) == FALSE

Forced(i) == task[i].kind = "apply"

\* Mutated form: an unreadable status leaves the page busy.
StillApplyingAfterError == bloc.applying

\* The graphics page clears the busy state with every load, whoever asked for it.
StillApplying == bloc.applying /\ page = "dashboard"

\* The load of task i ends with the fields b.  It completes whatever completer
\* is current, and those who waited for that one go on in the same turn of the
\* event loop: each who insists loads, in turn replacing the completer.
EndLoad(i, b) ==
  LET woken  == {j \in Handler \ {i} : task[j].pc = "wait" /\ task[j].on = bloc.completer}
      forced == {j \in woken : Forced(j)}
      ended  == After([Emit(b) EXCEPT !.inFlight = forced # {}, !.completer = Nobody], task[i])
      woke   == IF \E j \in woken : task[j].kind = "started"
                THEN [ended EXCEPT !.timer = TRUE] ELSE ended
  IN  /\ task' = [j \in Handler |->
           IF j \in forced THEN [task[j] EXCEPT !.pc = "load", !.on = Nobody]
           ELSE IF j \in woken \cup {i} THEN Idle ELSE task[j]]
      /\ \/ forced = {} /\ bloc' = woke
         \/ \E j \in forced : bloc' = [woke EXCEPT !.completer = j]
      /\ UNCHANGED <<page, hardware, access>>

LoadEnds(i) ==
  /\ task[i].pc = "loaded"
  /\ EndLoad(i, [bloc EXCEPT !.shown = task[i].read, !.error = task[i].error,
                             !.applying = @ /\ page = "dashboard",
                             !.notice = IF page = "dashboard" THEN @ ELSE 0])

LoadFails(i) ==
  /\ task[i].pc \in {"load", "loaded"}
  /\ EndLoad(i, [bloc EXCEPT !.error = TRUE, !.applying = StillApplying])

-----------------------------------------------------------------------------
(* The handlers begin.                                                     *)

New(i) == task[i].pc = "idle" /\ ~bloc.closing

Started(i) ==
  /\ New(i) /\ ~bloc.started
  /\ Reload(i, [Idle EXCEPT !.kind = "started"], [bloc EXCEPT !.started = TRUE, !.error = FALSE])
  /\ UNCHANGED <<page, hardware, access>>

\* The dashboard clears what it announced only if it does load.
Refresh(i) ==
  /\ New(i) /\ bloc.started
  /\ Reload(i, [Idle EXCEPT !.kind = "refresh"],
            IF Busy THEN bloc
            ELSE [bloc EXCEPT !.error = FALSE, !.notice = IF page = "dashboard" THEN 0 ELSE @])
  /\ UNCHANGED <<page, hardware, access>>

Ticked(i) ==
  /\ New(i) /\ bloc.timer /\ ~bloc.applying
  /\ Reload(i, [Idle EXCEPT !.kind = "ticked"], bloc)
  /\ UNCHANGED <<page, hardware, access>>

\* The writes so far, for the bound.
Requested ==
  hardware + Cardinality({i \in Handler : task[i].pc = "write" /\ task[i].kind = "apply"})
    + (IF access = "late" THEN 1 ELSE 0)

\* A write of the page; "target" stands for the requests about processes and
\* the PCI device, which the repository refuses.
Apply(i) ==
  /\ New(i) /\ bloc.started /\ ~bloc.applying
  /\ \E kind \in {"apply", "target"} :
       /\ kind = "apply" => Requested < MaxWrites
       /\ kind = "target" => page = "graphics"
       /\ task' = [task EXCEPT ![i] = [Idle EXCEPT !.kind = kind, !.pc = "write"]]
  /\ bloc' = [bloc EXCEPT !.applying = TRUE, !.error = FALSE, !.notice = 0]
  /\ UNCHANGED <<page, hardware, access>>

\* The daemon takes a mode without control access.
Writable == access = "open" \/ page = "dashboard"

Confirmed(i) ==
  /\ task[i].pc = "write" /\ task[i].kind = "apply" /\ Writable
  /\ hardware' = hardware + 1
  /\ Reload(i, [task[i] EXCEPT !.wrote = hardware + 1], bloc)
  /\ UNCHANGED <<page, access>>

\* The write fails, with or without effect, or is given up, or access is closed
\* already.  The graphics page reloads the status even so.
Failed(i) ==
  /\ task[i].pc = "write"
  /\ \/ UNCHANGED <<hardware, access>>
     \/ /\ task[i].kind = "apply" /\ Writable
        /\ hardware' = hardware + 1 /\ UNCHANGED access
     \/ /\ task[i].kind = "apply" /\ access = "open"
        /\ access' \in {"late", "closed"} /\ UNCHANGED hardware
  /\ \/ /\ page = "graphics" /\ task[i].kind = "apply"
        /\ Reload(i, [task[i] EXCEPT !.error = TRUE], bloc)
     \/ /\ page = "dashboard" \/ task[i].kind = "target"
        /\ task' = [task EXCEPT ![i] = Idle]
        /\ bloc' = Emit([bloc EXCEPT !.applying = FALSE, !.error = TRUE])
  /\ UNCHANGED page

LateEnd ==
  /\ access = "late" /\ hardware' \in {hardware, hardware + 1}
  /\ access' = "closed"
  /\ UNCHANGED <<page, bloc, task>>

\* close cancels the timer; handlers run on.
Close ==
  /\ ~bloc.closing
  /\ bloc' = [bloc EXCEPT !.closing = TRUE, !.timer = FALSE]
  /\ UNCHANGED <<page, hardware, access, task>>

Gone ==
  /\ bloc.closing /\ access # "late" /\ task = [i \in Handler |-> Idle]
  /\ UNCHANGED vars

Next ==
  \/ \E i \in Handler : \/ Started(i) \/ Refresh(i) \/ Ticked(i) \/ Apply(i)
                        \/ Confirmed(i) \/ Failed(i)
                        \/ Read(i) \/ LoadEnds(i) \/ LoadFails(i)
  \/ LateEnd \/ Close \/ Gone

Spec == Init /\ [][Next]_vars

\* The bridge ends every write (QueuedWritesEnd of ControlAccess), and reads return.
Fairness ==
  /\ \A i \in Handler : /\ WF_vars(Confirmed(i) \/ Failed(i))
                        /\ WF_vars(Read(i))
                        /\ WF_vars(LoadEnds(i) \/ LoadFails(i))

FairSpec == Spec /\ Fairness

-----------------------------------------------------------------------------
(* Properties.                                                             *)

\* A request for a graphics mode that ends without an error shows a status that
\* was read after the write, even if polls and refreshes were in flight.
GraphicsResultIsShown ==
  [][\A i \in Handler :
       /\ page = "graphics" /\ ~bloc.closing
       /\ task[i].kind = "apply" /\ task[i].pc # "idle" /\ task'[i].pc = "idle"
       => bloc'.error \/ bloc'.shown >= task[i].wrote]_vars

\* The page does not stay busy: every wait for another handler's load ends.
BusyEnds == bloc.applying ~> (~bloc.applying \/ bloc.closing)

\* docs/error-and-feedback-standard.md:37-38, "Do not ... claim success before
\* reading back the result from the authoritative state source": what the
\* dashboard announces is what it shows.
AnnouncedResultIsShown ==
  page = "dashboard" /\ bloc.notice # 0 => bloc.shown >= bloc.notice
=============================================================================
