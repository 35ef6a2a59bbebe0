----------------------------- MODULE PlatformTray -----------------------------
(***************************************************************************)
(* The tray icon's registration (lib/features/platform_surfaces/tray/      *)
(* platform_tray.dart) over its transport (dbus_tray_transport.dart): the  *)
(* item is registered with whoever owns the watcher's name, again whenever *)
(* the owner changes, until the tray is disposed.                          *)
(*                                                                         *)
(* The bus delivers the changes of the owner in order.  They reach the     *)
(* tray through a broadcast stream, the replies through futures, so a reply *)
(* may overtake a change and a change a reply.                             *)
(***************************************************************************)
EXTENDS Naturals, Sequences, FiniteSets

CONSTANTS
  Watcher,    \* the programs that own the watcher's name, each once
  NoWatcher

VARIABLES
  bus,        \* the owner of the name and what the watchers know
  inbox,      \* the changes of the owner on their way, as newOwner != null
  calls,      \* the registrations, by _generation
  tray        \* the fields of the tray, and where start and dispose are

trayVars == <<bus, inbox, calls, tray>>

\* Every change of the owner, the query and dispose take one generation.
Generation == 0..(2 * Cardinality(Watcher) + 2)

Bus ==
  [watcher : Watcher \cup {NoWatcher},
   past    : SUBSET Watcher,      \* those that have owned the name
   items   : SUBSET Watcher,      \* those that accepted the item
   refused : SUBSET Watcher]

Tray ==
  [state      : {"unavailable", "registered", "disposed"},
   generation : Generation,
   start      : {"new", "opening", "asking", "done"},
   present    : {"unknown", "yes", "no"},      \* the answer to watcherPresent
   asked      : Generation,                    \* the generation of the question
   listening  : BOOLEAN,                       \* _watcher
   disposed   : BOOLEAN]

TypeOK ==
  /\ bus \in Bus
  /\ inbox \in Seq(BOOLEAN)
  /\ calls \in [Generation -> {"none", "sent", "accepted", "failed"}]
  /\ tray \in Tray

Init ==
  /\ bus = [watcher |-> NoWatcher, past |-> {}, items |-> {}, refused |-> {}]
  /\ inbox = <<>>
  /\ calls = [g \in Generation |-> "none"]
  /\ tray = [state |-> "unavailable", generation |-> 0, start |-> "new",
             present |-> "unknown", asked |-> 0, listening |-> FALSE,
             disposed |-> FALSE]

-----------------------------------------------------------------------------
(* The session bus and the watchers.                                       *)

\* The name gets another owner, or none.  A watcher that left forgets the item.
OwnerChanges(w) ==
  /\ w # bus.watcher /\ w \notin bus.past
  /\ bus' = [bus EXCEPT !.watcher = w, !.past = @ \cup ({w} \ {NoWatcher}),
                        !.items = @ \ {bus.watcher}]
  /\ inbox' = IF tray.start = "new" \/ tray.state = "disposed" THEN inbox
              ELSE Append(inbox, w # NoWatcher)
  /\ UNCHANGED <<calls, tray>>

AnswerPresent ==
  /\ tray.start = "asking" /\ tray.present = "unknown"
  /\ tray' = [tray EXCEPT !.present = IF bus.watcher = NoWatcher THEN "no" ELSE "yes"]
  /\ UNCHANGED <<bus, inbox, calls>>

\* A registration reaches the owner of the name as it is now.
AnswerRegister(g) ==
  /\ calls[g] = "sent" /\ tray.state # "disposed"
  /\ \/ /\ bus.watcher # NoWatcher
        /\ bus' = [bus EXCEPT !.items = @ \cup {bus.watcher}]
        /\ calls' = [calls EXCEPT ![g] = "accepted"]
     \/ /\ bus' = [bus EXCEPT !.refused = @ \cup ({bus.watcher} \ {NoWatcher})]
        /\ calls' = [calls EXCEPT ![g] = "failed"]
  /\ UNCHANGED <<inbox, tray>>

-----------------------------------------------------------------------------
(* The tray.                                                               *)

Start ==
  /\ tray.start = "new" /\ ~tray.disposed
  /\ tray' = [tray EXCEPT !.start = "opening"]
  /\ UNCHANGED <<bus, inbox, calls>>

\* Mutated form: start trusts the changes to tell it who is there.
OpenedUnasked(t) == [t EXCEPT !.start = "done", !.listening = TRUE]

\* The tray listens to the changes and asks who is there already.
Opened(t) ==
  [t EXCEPT !.start = "asking", !.listening = TRUE, !.asked = t.generation]

\* Opening ends, unless with an error, which leaves the tray unavailable.
Open ==
  /\ tray.start = "opening"
  /\ \/ tray' = IF tray.disposed THEN [tray EXCEPT !.start = "done"] ELSE Opened(tray)
     \/ tray' = [tray EXCEPT !.start = "done"]
  /\ UNCHANGED <<bus, inbox, calls>>

\* _watcherChanged and the call of _register.
WatcherChanged(t, present) ==
  /\ tray' = [t EXCEPT !.generation = @ + 1, !.state = "unavailable"]
  /\ calls' = IF present THEN [calls EXCEPT ![t.generation + 1] = "sent"] ELSE calls

\* Start goes on with the answer: it counts unless a change came first.
Present ==
  /\ tray.start = "asking" /\ tray.present # "unknown"
  /\ LET t == [tray EXCEPT !.start = "done"]
     IN IF ~t.disposed /\ t.asked = t.generation
        THEN WatcherChanged(t, t.present = "yes")
        ELSE tray' = t /\ UNCHANGED calls
  /\ UNCHANGED <<bus, inbox>>

\* The next change: nobody hears it before the tray listens.
Deliver ==
  /\ inbox # <<>>
  /\ inbox' = Tail(inbox)
  /\ IF tray.listening /\ ~tray.disposed THEN WatcherChanged(tray, Head(inbox))
     ELSE UNCHANGED <<calls, tray>>
  /\ UNCHANGED bus

\* Mutated form: any reply sets the state.
AnyReply(g) == ~tray.disposed

Current(g) == ~tray.disposed /\ g = tray.generation

Reply(g) ==
  /\ calls[g] \in {"accepted", "failed"}
  /\ calls' = [calls EXCEPT ![g] = "none"]
  /\ tray' = IF Current(g)
             THEN [tray EXCEPT !.state = IF calls[g] = "accepted" THEN "registered"
                                         ELSE "unavailable"]
             ELSE tray
  /\ UNCHANGED <<bus, inbox>>

Dispose ==
  /\ ~tray.disposed
  /\ tray' = [tray EXCEPT !.disposed = TRUE, !.generation = @ + 1]
  /\ UNCHANGED <<bus, inbox, calls>>

\* Dispose has waited for opening: the connection closes, and with it every
\* watcher forgets the item and no reply arrives.
Close ==
  /\ tray.disposed /\ tray.state # "disposed" /\ tray.start # "opening"
  /\ tray' = [tray EXCEPT !.state = "disposed", !.listening = FALSE, !.start = "done"]
  /\ inbox' = <<>>
  /\ calls' = [g \in Generation |-> "none"]
  /\ bus' = [bus EXCEPT !.items = {}]

Next ==
  \/ \E w \in Watcher \cup {NoWatcher} : OwnerChanges(w)
  \/ AnswerPresent
  \/ Start \/ Open \/ Present \/ Deliver \/ Dispose \/ Close
  \/ \E g \in Generation : AnswerRegister(g) \/ Reply(g)

Spec == Init /\ [][Next]_trayVars

\* The bus delivers, watchers answer and the event loop turns.  Nothing makes
\* the app start or dispose the tray, or a watcher come or go.
Fairness ==
  /\ WF_trayVars(AnswerPresent) /\ WF_trayVars(Open) /\ WF_trayVars(Present)
  /\ WF_trayVars(Deliver) /\ WF_trayVars(Close)
  /\ \A g \in Generation : WF_trayVars(AnswerRegister(g)) /\ WF_trayVars(Reply(g))

-----------------------------------------------------------------------------
(* Safety and liveness.                                                    *)

\* Once every change of the owner has arrived, a tray in use that says it is
\* registered is known to the watcher of now: no reply of a watcher that left, or
\* of an earlier registration, has set its state.
RegistrationIsCurrent ==
  tray.state = "registered" /\ ~tray.disposed /\ inbox = <<>> =>
    bus.watcher \in bus.items

\* A watcher that stays gets the item, whether it came before the tray listened,
\* between the question and its answer, or later: unless it refuses the item,
\* or the tray is disposed.
WatcherGetsTheItem ==
  \A w \in Watcher :
    (tray.listening /\ bus.watcher = w) ~>
      \/ tray.state = "registered" /\ w \in bus.items
      \/ w \in bus.refused \/ bus.watcher # w \/ tray.disposed
=============================================================================
