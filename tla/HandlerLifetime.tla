--------------------------- MODULE HandlerLifetime ---------------------------
(***************************************************************************)
(* What an event loop promises about the handlers given to it, with no     *)
(* map, no epoll and no reference counts: a handler is constructed once    *)
(* and destroyed at most once; it is called only by the loop's running     *)
(* thread and only while it exists, one handler at a time; and in the      *)
(* middle of a call it is destroyed only if this very call has unregistered*)
(* it, after which the call has nothing left to do but to return.          *)
(***************************************************************************)
CONSTANT Handlers

VARIABLES
  object,   \* "fresh", "live" or "dead", for each handler
  calling,  \* the handler whose callbacks are running, as a set of at most one
  leaving,  \* the running callback has unregistered its handler
  running   \* the loop thread exists

lifetimeVars == <<object, calling, leaving, running>>

LifetimeTypeOK ==
  /\ object \in [Handlers -> {"fresh", "live", "dead"}]
  /\ calling \in {{}} \cup {{h} : h \in Handlers}
  /\ leaving \in BOOLEAN /\ (leaving => calling # {})
  /\ running \in BOOLEAN

LifetimeInit ==
  /\ object = [h \in Handlers |-> "fresh"]
  /\ calling = {} /\ leaving = FALSE
  /\ running = FALSE

StartThread ==
  /\ ~running
  /\ running' = TRUE
  /\ UNCHANGED <<object, calling, leaving>>

EndThread ==
  /\ running /\ calling = {}
  /\ running' = FALSE
  /\ UNCHANGED <<object, calling, leaving>>

Construct(h) ==
  /\ object[h] = "fresh"
  /\ object' = [object EXCEPT ![h] = "live"]
  /\ UNCHANGED <<calling, leaving, running>>

(* Destroying the loop's map may destroy several handlers at once.         *)
DestroyAll(S) ==
  /\ S # {} /\ (leaving \/ S \cap calling = {})
  /\ \A h \in S : object[h] = "live"
  /\ object' = [h \in Handlers |-> IF h \in S THEN "dead" ELSE object[h]]
  /\ UNCHANGED <<calling, leaving, running>>

EnterCallback(h) ==
  /\ running /\ calling = {}
  /\ object[h] = "live"
  /\ calling' = {h}
  /\ UNCHANGED <<object, leaving, running>>

(* The running callback gives its own handler up.                          *)
BeginLeaving ==
  /\ calling # {} /\ ~leaving
  /\ leaving' = TRUE
  /\ UNCHANGED <<object, calling, running>>

LeaveCallback ==
  /\ calling # {}
  /\ calling' = {} /\ leaving' = FALSE
  /\ UNCHANGED <<object, running>>

LifetimeNext ==
  \/ StartThread
  \/ EndThread
  \/ BeginLeaving
  \/ LeaveCallback
  \/ \E h \in Handlers : Construct(h) \/ EnterCallback(h)
  \/ \E S \in SUBSET Handlers : DestroyAll(S)

LifetimeSpec == LifetimeInit /\ [][LifetimeNext]_lifetimeVars
=============================================================================
