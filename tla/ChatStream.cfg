\* Two concurrent requests of any kind, up to two deltas each.  A behaviour ends
\* when every request is closed.
SPECIFICATION Spec
CONSTANTS
  Requests = {r1, r2}
  MaxTexts = 2
CHECK_DEADLOCK FALSE
INVARIANTS TypeOK GateAccounted SentLifecycle SavedAsTold
PROPERTIES TerminalEvent CancelledIsNotSaved EveryStreamEnds
