\* Three settings, one of them the mode, with two values, one of them a profile of
\* the daemon; one event behind the running handler and the tick; one call that
\* was given up.  Three lighting events after the start.  The events run out.
SPECIFICATION PagesSpec
CHECK_DEADLOCK FALSE
CONSTANTS
  Setting = {a, b, m}
  Value = {0, 1}
  Curve = a
  Mode = m
  Standard = {0}
  Performance = 0
  NotRead = NotRead
  MaxQueue = 1
  MaxLate = 1
  Name = {p}
  NoName = NoName
  MaxEvents = 4
INVARIANTS
  
  FailedBatchIsRestored
  EditsAreKept
  AnimationYields
  KeyboardShowsThePage
