\* The energy meter of two packages, the tray with two watchers, and three
\* notifications on two buses, fair.  Time, watchers and events run out.
SPECIFICATION DesktopSpec
CHECK_DEADLOCK FALSE
CONSTANTS
  Packages = 2
  Ranges = {2, 3}
  MinInterval = 1
  MaxInterval = 2
  MaxWatts = 1
  PowerLimit = 1
  MaxTime = 4
  MaxDisturbances = 2
  Watcher = {w1, w2}
  NoWatcher = NoWatcher
  Kind = {k1, k2}
  Owner = {o1, o2}
  NoOwner = NoOwner
  MaxBuses = 2
  MaxSends = 3
INVARIANTS
  ReadingIsTheLoad
  RegistrationIsCurrent
  ReplacesItsOwnNotification
PROPERTIES
  WatcherGetsTheItem
  CloseEnds
