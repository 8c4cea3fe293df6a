------------------------------- MODULE Connector -------------------------------
(***************************************************************************)
(* xfnet::Connector: the one call of Connect that is going on, with the    *)
(* socket it has opened, what the kernel does with that socket meanwhile,  *)
(* and the Stream that the caller gets.                                    *)
(***************************************************************************)
EXTENDS Integers

VARIABLES
  connector,  \* where Connect is; "valid" and "invalid": it has returned
  socket      \* the descriptor it owns, by its state in the kernel

connectorVars == <<connector, socket>>

InitConnector == connector = "idle" /\ socket = "none"

(* The caller calls Connect(addr, timeout_ms).                             *)
ConnectCalled == connector' = "open" /\ UNCHANGED socket

(* SocketUtil::Open: a new socket, or none (no descriptors are left).      *)
SocketOpen == {"new", "none"}

OpenSocket ==
  /\ connector = "open"
  /\ socket' \in SocketOpen
  /\ connector' = IF socket' = "none" THEN "invalid" ELSE "connect"

(* connect: the connection is made at once, under way (EINPROGRESS), or    *)
(* refused; or a signal ends the call while it is under way, and the code  *)
(* calls connect again...                                                  *)
ConnectFirst ==
  /\ connector = "connect" /\ socket = "new"
  /\ \/ socket' = "connected" /\ connector' = "valid"
     \/ socket' = "connecting" /\ connector' = "poll"
     \/ socket' = "connecting" /\ UNCHANGED connector
     \/ socket' = "refused" /\ connector' = "close"

(* ... as it does when the socket has become writable.  connect returns 0  *)
(* for a connection that has been made meanwhile, EALREADY for one that is *)
(* still under way, which is closed then, and the error of another.        *)
ConnectAgain ==
  /\ connector = "connect" /\ socket # "new"
  /\ connector' = IF socket = "connected" THEN "valid" ELSE "close"
  /\ UNCHANGED socket

(* The kernel: the peer accepts or refuses, or resets what it accepted.    *)
PeerAnswers ==
  /\ \/ socket = "connecting" /\ socket' \in {"connected", "refused"}
     \/ socket = "connected" /\ connector \in {"poll", "connect"} /\ socket' = "refused"
  /\ UNCHANGED connector

(* SO_ERROR of the socket, for Select: -2 if it is ECONNRESET.             *)
SocketError == IF socket = "refused" THEN {-1, -2} ELSE {}

(* SocketUtil::Select for EVENT_WRITE.  The timeout may be over just as the*)
(* peer answers.                                                           *)
SelectReturns == (IF socket = "connected" THEN {1} ELSE {}) \cup SocketError \cup {0, -1}

\* Mutant of Select: the socket is forgotten when Select ends without events.
SelectReturnsInvalid ==
  /\ connector = "poll"
  /\ \E events \in SelectReturns :
       connector' = IF events <= 0 THEN "invalid" ELSE "connect"
  /\ UNCHANGED socket

Select ==
  /\ connector = "poll"
  /\ \E events \in SelectReturns :
       connector' = IF events <= 0 THEN "close" ELSE "connect"
  /\ UNCHANGED socket

CloseSocket ==
  /\ connector = "close"
  /\ socket' = "none" /\ connector' = "invalid"

ConnectorStep == OpenSocket \/ ConnectFirst \/ ConnectAgain \/ Select \/ CloseSocket

(* The caller's Stream holds the socket, which it closes in the end, or is *)
(* not valid.                                                              *)
StreamReturned(valid) ==
  /\ connector = IF valid THEN "valid" ELSE "invalid"
  /\ connector' = "idle"
  /\ socket' = IF valid THEN "none" ELSE socket

ConnectorTypeOK ==
  /\ connector \in {"idle", "open", "connect", "poll", "close", "valid", "invalid"}
  /\ socket \in {"none", "new", "connecting", "connected", "refused"}

(* Whatever fails on the way (connector.cpp:29-59), Connect has closed the *)
(* socket when it returns without a valid stream; and it returns a valid   *)
(* stream only of a connection that was made, not of one under way.        *)
SocketKept ==
  /\ connector \in {"idle", "open", "invalid"} => socket = "none"
  /\ connector = "valid" => socket = "connected"
=============================================================================
