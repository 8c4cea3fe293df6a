\* Four connections, up to three loops, restarts, an index that wraps.
SPECIFICATION Spec
CONSTANTS
  Connections = {a, b, c, d}
  MaxLoops = 3
  Backlog = 2
  IndexRange = 2
INVARIANTS AcceptThreadSafe StoppedQuiet OneOwner Balanced
PROPERTIES ImplementsConnectionLife StopCompletes BacklogServed
