------------------------------ MODULE MCDesktop ------------------------------
(***************************************************************************)
(* Small instances of the three parts between the desktop and the session  *)
(* or system bus: the energy meter, the tray and the notifications.  They  *)
(* share no state, so they run one at a time: `part' says which, the       *)
(* others stay as they began.                                              *)
(***************************************************************************)
EXTENDS PackagePowerSampler, Sequences, FiniteSets

CONSTANTS Watcher, NoWatcher, Kind, Owner, NoOwner, MaxBuses, MaxSends

\* Finitely many programs want the watcher's name, and there are events.
ASSUME DesktopAssumption ==
  /\ IsFiniteSet(Watcher)
  /\ Kind # {} /\ MaxBuses \in Nat \ {0} /\ MaxSends \in Nat

VARIABLES part, watcherBus, inbox, calls, tray,
          serverBus, issued, connections, adapter, send, queue

Tray == INSTANCE PlatformTray WITH bus <- watcherBus

Notifications == INSTANCE DesktopNotifications WITH bus <- serverBus

trayVars == <<watcherBus, inbox, calls, tray>>

notifyVars == <<serverBus, issued, connections, adapter, send, queue>>

DesktopInit ==
  /\ part \in {"meter", "tray", "notifications"}
  /\ Init /\ Tray!Init /\ Notifications!Init
  /\ part # "meter" => \A p \in Package : ~counter[p].readable /\ counter[p].range = 2

DesktopNext ==
  \/ part = "meter" /\ Next /\ UNCHANGED <<part, trayVars, notifyVars>>
  \/ part = "tray" /\ Tray!Next /\ UNCHANGED <<part, vars, notifyVars>>
  \/ part = "notifications" /\ Notifications!Next /\ UNCHANGED <<part, vars, trayVars>>

\* The fairness of a part where it runs.
DesktopSpec ==
  /\ DesktopInit /\ [][DesktopNext]_<<part, vars, trayVars, notifyVars>>
  /\ part = "tray" => Tray!Fairness
  /\ part = "notifications" => Notifications!Fairness

\* PlatformTray.
RegistrationIsCurrent == Tray!RegistrationIsCurrent
WatcherGetsTheItem == part = "tray" => Tray!WatcherGetsTheItem

\* DesktopNotifications.
ReplacesItsOwnNotification == Notifications!ReplacesItsOwnNotification
CloseEnds == Notifications!CloseEnds
=============================================================================
