----------------------------- MODULE ConnectionLife -----------------------------
(***************************************************************************)
(* What a server promises about the connections that clients make, with no *)
(* threads and no states of loops: they are accepted one at a time and in  *)
(* the order in which they were made, while the server is open; each one   *)
(* accepted is served by one loop, from then on until it ends, or refused; *)
(* nothing that has ended comes back; and the server does not shut while a *)
(* connection is between its port and a loop.                              *)
(***************************************************************************)
EXTENDS Naturals, Sequences

CONSTANTS Connections, Loops

VARIABLES
  open,      \* the server's port is open
  fresh,     \* connections nobody has made yet
  waiting,   \* connections made, in their order
  taken,     \* the connection accepted, as a set of at most one
  serving    \* pairs of a loop and a connection it serves

lifeVars == <<open, fresh, waiting, taken, serving>>

LifeInit ==
  /\ open = FALSE
  /\ fresh = Connections
  /\ waiting = << >> /\ taken = {} /\ serving = {}

Open ==
  /\ ~open /\ open' = TRUE
  /\ UNCHANGED <<fresh, waiting, taken, serving>>

Offer(c) ==
  /\ open /\ c \in fresh
  /\ fresh' = fresh \ {c}
  /\ waiting' = Append(waiting, c)
  /\ UNCHANGED <<open, taken, serving>>

Take ==
  /\ open /\ taken = {} /\ waiting # << >>
  /\ taken' = {Head(waiting)} /\ waiting' = Tail(waiting)
  /\ UNCHANGED <<open, fresh, serving>>

Serve(loop, c) ==
  /\ open /\ c \in taken
  /\ \A l \in Loops : <<l, c>> \notin serving
  /\ serving' = serving \cup {<<loop, c>>} /\ taken' = {}
  /\ UNCHANGED <<open, fresh, waiting>>

Refuse ==
  /\ taken # {} /\ taken' = {}
  /\ UNCHANGED <<open, fresh, waiting, serving>>

(* Connections end one by one, or all with the loops of a server.          *)
End ==
  /\ serving' \subseteq serving
  /\ UNCHANGED <<open, fresh, waiting, taken>>

Shut ==
  /\ open /\ taken = {}
  /\ open' = FALSE /\ waiting' = << >>
  /\ UNCHANGED <<fresh, taken, serving>>

LifeNext ==
  \/ Open \/ Shut \/ Take \/ Refuse \/ End
  \/ \E c \in Connections : Offer(c)
  \/ \E loop \in Loops, c \in Connections : Serve(loop, c)

LifeSpec == LifeInit /\ [][LifeNext]_lifeVars
=============================================================================
