\* Three callbacks and the times 0..2: ties, callbacks in the past, a callback
\* earlier than the one the worker sleeps for.
SPECIFICATION FairSpec
CONSTANTS
  MaxCallbacks = 3
  MaxTime = 2
INVARIANTS
  TypeOK
  Accounted
  NoOversleep
  InOrder
  NeverEarly
PROPERTIES
  CancelHolds
  EventuallyCalled
  PendingShutdownCompletes
