\* Two addresses, one stream added by a user, up to two loops, restarts.
SPECIFICATION Spec
CONSTANTS
  Requests = {r1, r2}
  Streams = {s1}
  Users = {u}
  ConnectThread = connectThread
  MaxLoops = 2
  IndexRange = 2
INVARIANTS AddSafe NothingLost SocketKept
PROPERTIES StopCompletes FailedRetried AddressesServed
