--------------------------- MODULE EventLoop_proofs ---------------------------
(***************************************************************************)
(* What is proved about EventLoop for any number of handlers and threads.  *)
(* The inductive invariant Inv has one conjunct per reason why the raw     *)
(* pointers of epoll and of the event array stay backed by the map.        *)
(***************************************************************************)
EXTENDS EventLoop, TLAPS

(* The life cycle: where the owner, the loop thread and m_state can be     *)
(* together, and what is empty while there is no loop.                     *)
LifecycleInv ==
  /\ owner = "starting" => m_state = "STOPPED"
  /\ owner = "join" <=> m_state = "STOPPING"
  /\ loop = "none" <=> owner = "idle" /\ m_state = "STOPPED"
  /\ loop = "exited" => m_state = "STOPPING"
  /\ loop = "none" => ~epoll_open
  /\ ~epoll_open => \A h \in Handlers : interest[h] = {}
  /\ \A t \in Threads : stage[t] # "idle" => owner = "idle" /\ m_state = "STARTED"

(* The selector is open from Start to Join when opening it cannot fail.    *)
OpenInv == loop # "none" => epoll_open

(* The event array holds events only while Select goes through it, and the *)
(* running callback is the one its events call for.                        *)
BatchInv ==
  /\ loop \in {"none", "test", "select", "exited"} =>
       \A h \in Handlers : batch[h] = {}
  /\ loop \in InCallback => batch[cur] # {}

(* The loop thread's own Register and Unregister calls are made inside     *)
(* callbacks; without removers it unregisters only the running handler.    *)
ClosingInv ==
  /\ stage[LoopThread] # "idle" => loop \in {"read", "write", "closing"}
  /\ loop = "closing" => stage[LoopThread] \in {"del", "drop"}
  /\ Removers = {} /\ stage[LoopThread] = "del" => loop = "closing"

(* Nothing refers to a handler that is not constructed.                    *)
FreshInv ==
  \A h \in fresh :
    /\ h \notin m_handlers
    /\ h \notin held
    /\ h \notin known
    /\ interest[h] = {}
    /\ batch[h] = {}
    /\ \A t \in Callers : stage[t] # "idle" => arg[t] # h

(* A handler between the two steps of Register: it is in the map, no event *)
(* of it is about to be dispatched, no other thread can take it out, and   *)
(* epoll can know it only from an earlier registration that the loop       *)
(* thread is just taking out.                                              *)
AddingInv ==
  \A t \in Callers : stage[t] = "add" =>
    /\ arg[t] \in m_handlers
    /\ batch[arg[t]] = {}
    /\ interest[arg[t]] # {} => stage[LoopThread] = "del" /\ arg[LoopThread] = arg[t]
    /\ Removers # {} => arg[t] \notin known
    /\ \A u \in Callers \ {t} :
         stage[u] = "add" \/ (Removers # {} /\ stage[u] # "idle") => arg[u] # arg[t]

(* Without removers every event about to be dispatched is for a handler of *)
(* the map, and no destroyed one has been called.                          *)
BackedInv ==
  Removers = {} =>
    /\ loop # "undefined"
    /\ \A t \in Threads : stage[t] # "del"
    /\ \A h \in Handlers : batch[h] # {} => h \in m_handlers

Inv == /\ TypeOK
       /\ LifecycleInv
       /\ BatchInv
       /\ ClosingInv
       /\ FreshInv
       /\ AddingInv
       /\ WatchedOwned
       /\ BackedInv
-----------------------------------------------------------------------------
(* The types are invariant.                                                *)
LEMMA TypeStep == TypeOK /\ [Next]_vars => TypeOK'
<1> SUFFICES ASSUME TypeOK, [Next]_vars PROVE TypeOK'
  OBVIOUS
<1> USE ConstantsAssumption DEF TypeOK, Callers, States, Stages, LoopPoints, InSelect, InCallback,
      EVENT_READ, EVENT_WRITE, EVENT_READWRITE, Requests, Reported,
      controlVars, loopVars, callVars, objectVars
<1>1. CASE Start
  BY <1>1 DEF Start
<1>2. CASE SetStarted
  BY <1>2 DEF SetStarted
<1>3. CASE Stopping
  BY <1>3 DEF Stopping
<1>4. CASE Join
  BY <1>4 DEF Join
<1>5. CASE Destroy
  BY <1>5 DEF Destroy
<1>6. CASE LoopTest
  BY <1>6 DEF LoopTest
<1>7. CASE EpollWait
  BY <1>7 DEF EpollWait
<1>8. CASE Dispatch
  BY <1>8 DEF Dispatch, CallOn, CallFor
<1>9. CASE BatchDone
  BY <1>9 DEF BatchDone
<1>10. CASE HandlerReturns
  BY <1>10 DEF HandlerReturns, CallOn, CallFor
<1>11. CASE HandlerUnregisters
  BY <1>11 DEF HandlerUnregisters, UnregisterErase
<1>12. CASE HandlerModifies
  BY <1>12 DEF HandlerModifies, InUserCode
<1>13. CASE KeepReference
  BY <1>13 DEF KeepReference, InUserCode
<1>14. ASSUME NEW t \in Callers, RegisterAdd(t) PROVE TypeOK'
  BY <1>14 DEF RegisterAdd
<1>15. ASSUME NEW t \in Callers, UnregisterDel(t) PROVE TypeOK'
  BY <1>15 DEF UnregisterDel
<1>16. ASSUME NEW t \in Callers, DropReference(t) PROVE TypeOK'
  BY <1>16 DEF DropReference, CloseDescriptor
<1>17. ASSUME NEW t \in Callers, NEW h \in Handlers, RegisterInsert(t, h) PROVE TypeOK'
  BY <1>17 DEF RegisterInsert
<1>18. ASSUME NEW t \in Removers, NEW h \in Handlers, RemoveHandler(t, h) PROVE TypeOK'
  BY <1>18 DEF RemoveHandler, UnregisterErase
<1>19. ASSUME NEW h \in Handlers, ReleaseReference(h) PROVE TypeOK'
  BY <1>19 DEF ReleaseReference, CloseDescriptor
<1>20. CASE UNCHANGED vars
  BY <1>20 DEF vars
<1>21. CASE CallbackEnds \/ CallbackOnFreed
  BY <1>21 DEF CallbackEnds, CallbackOnFreed
<1> QED
  BY <1>1, <1>2, <1>3, <1>4, <1>5, <1>6, <1>7, <1>8, <1>9, <1>10, <1>11, <1>12, <1>13, <1>14, <1>15, <1>16, <1>17, <1>18, <1>19, <1>20, <1>21 DEF Next, OwnerStep, LoopStep, CallbackStep, CallStep
-----------------------------------------------------------------------------
(* Every step keeps the invariant, provided handlers are not registered    *)
(* again while other threads may unregister them.                          *)
LEMMA InvStep ==
  ASSUME Removers = {} \/ Reusable = {}
  PROVE  Inv /\ [Next]_vars => Inv'
<1> SUFFICES ASSUME Inv, [Next]_vars PROVE Inv'
  OBVIOUS
<1>t. TypeOK /\ TypeOK'
  BY TypeStep DEF Inv
<1> USE <1>t, ConstantsAssumption DEF Inv, TypeOK, Callers, InCallback,
        controlVars, loopVars, callVars, objectVars
<1>1. CASE Start
  <2> USE <1>1 DEF Start
  <2>1. LifecycleInv'
    BY DEF LifecycleInv
  <2>2. BatchInv'
    BY DEF LifecycleInv, BatchInv
  <2>3. ClosingInv'
    BY DEF LifecycleInv, ClosingInv
  <2>4. FreshInv'
    BY DEF FreshInv
  <2>5. AddingInv'
    BY DEF AddingInv
  <2>6. WatchedOwned'
    BY DEF WatchedOwned
  <2>7. BackedInv'
    BY DEF BackedInv
  <2> QED
    BY <2>1, <2>2, <2>3, <2>4, <2>5, <2>6, <2>7 DEF Inv
<1>2. CASE SetStarted
  <2> USE <1>2 DEF SetStarted
  <2>1. LifecycleInv'
    BY DEF LifecycleInv
  <2>2. BatchInv'
    BY DEF BatchInv
  <2>3. ClosingInv'
    BY DEF ClosingInv
  <2>4. FreshInv'
    BY DEF FreshInv
  <2>5. AddingInv'
    BY DEF AddingInv
  <2>6. WatchedOwned'
    BY DEF WatchedOwned
  <2>7. BackedInv'
    BY DEF BackedInv
  <2> QED
    BY <2>1, <2>2, <2>3, <2>4, <2>5, <2>6, <2>7 DEF Inv
<1>3. CASE Stopping
  <2> USE <1>3 DEF Stopping
  <2>1. LifecycleInv'
    BY DEF LifecycleInv
  <2>2. BatchInv'
    BY DEF BatchInv
  <2>3. ClosingInv'
    BY DEF ClosingInv
  <2>4. FreshInv'
    BY DEF FreshInv
  <2>5. AddingInv'
    BY DEF AddingInv
  <2>6. WatchedOwned'
    BY DEF WatchedOwned
  <2>7. BackedInv'
    BY DEF BackedInv
  <2> QED
    BY <2>1, <2>2, <2>3, <2>4, <2>5, <2>6, <2>7 DEF Inv
<1>4. CASE Join
  <2> USE <1>4 DEF Join
  <2>1. LifecycleInv'
    BY DEF LifecycleInv
  <2>2. BatchInv'
    BY DEF BatchInv
  <2>3. ClosingInv'
    BY DEF ClosingInv
  <2>4. FreshInv'
    BY DEF FreshInv
  <2>5. AddingInv'
    BY DEF AddingInv
  <2>6. WatchedOwned'
    BY DEF WatchedOwned
  <2>7. BackedInv'
    BY DEF BackedInv
  <2> QED
    BY <2>1, <2>2, <2>3, <2>4, <2>5, <2>6, <2>7 DEF Inv
<1>5. CASE Destroy
  <2> USE <1>5 DEF Destroy
  <2>1. LifecycleInv'
    BY DEF LifecycleInv
  <2>2. BatchInv'
    BY DEF BatchInv
  <2>3. ClosingInv'
    BY DEF ClosingInv
  <2>4. FreshInv'
    BY DEF FreshInv
  <2>5. AddingInv'
    BY DEF LifecycleInv, ClosingInv, AddingInv
  <2>6. WatchedOwned'
    BY DEF LifecycleInv, WatchedOwned
  <2>7. BackedInv'
    BY DEF LifecycleInv, BatchInv, BackedInv
  <2> QED
    BY <2>1, <2>2, <2>3, <2>4, <2>5, <2>6, <2>7 DEF Inv
<1>6. CASE LoopTest
  <2> USE <1>6 DEF LoopTest
  <2>1. LifecycleInv'
    BY DEF LifecycleInv
  <2>2. BatchInv'
    BY DEF BatchInv
  <2>3. ClosingInv'
    BY DEF ClosingInv
  <2>4. FreshInv'
    BY DEF FreshInv
  <2>5. AddingInv'
    BY DEF AddingInv
  <2>6. WatchedOwned'
    BY DEF WatchedOwned
  <2>7. BackedInv'
    BY DEF BackedInv
  <2> QED
    BY <2>1, <2>2, <2>3, <2>4, <2>5, <2>6, <2>7 DEF Inv
<1>7. CASE EpollWait
  <2> USE <1>7 DEF EpollWait
  <2>1. LifecycleInv'
    BY DEF LifecycleInv
  <2>2. BatchInv'
    BY DEF BatchInv
  <2>3. ClosingInv'
    BY DEF ClosingInv
  <2>4. FreshInv'
    BY DEF FreshInv
  <2>5. AddingInv'
    BY DEF ClosingInv, AddingInv
  <2>6. WatchedOwned'
    BY DEF WatchedOwned
  <2>7. BackedInv'
    BY DEF ClosingInv, WatchedOwned, BackedInv
  <2> QED
    BY <2>1, <2>2, <2>3, <2>4, <2>5, <2>6, <2>7 DEF Inv
<1>8. CASE Dispatch
  <2> USE <1>8 DEF Dispatch, CallOn, CallFor
  <2>1. LifecycleInv'
    BY DEF LifecycleInv
  <2>2. BatchInv'
    BY DEF BatchInv
  <2>3. ClosingInv'
    BY DEF ClosingInv
  <2>4. FreshInv'
    BY DEF FreshInv
  <2>5. AddingInv'
    BY DEF AddingInv
  <2>6. WatchedOwned'
    BY DEF WatchedOwned
  <2>7. BackedInv'
    BY DEF BackedInv, Alive
  <2> QED
    BY <2>1, <2>2, <2>3, <2>4, <2>5, <2>6, <2>7 DEF Inv
<1>9. CASE BatchDone
  <2> USE <1>9 DEF BatchDone
  <2>1. LifecycleInv'
    BY DEF LifecycleInv
  <2>2. BatchInv'
    BY DEF BatchInv
  <2>3. ClosingInv'
    BY DEF ClosingInv
  <2>4. FreshInv'
    BY DEF FreshInv
  <2>5. AddingInv'
    BY DEF AddingInv
  <2>6. WatchedOwned'
    BY DEF WatchedOwned
  <2>7. BackedInv'
    BY DEF BackedInv
  <2> QED
    BY <2>1, <2>2, <2>3, <2>4, <2>5, <2>6, <2>7 DEF Inv
<1>10. CASE HandlerReturns
  <2> USE <1>10 DEF HandlerReturns, CallOn, CallFor
  <2>1. LifecycleInv'
    BY DEF LifecycleInv
  <2>2. BatchInv'
    BY DEF BatchInv
  <2>3. ClosingInv'
    BY DEF ClosingInv
  <2>4. FreshInv'
    <3> HIDE DEF HandlerReturns, CallOn, CallFor, TypeOK
    <3>1. PICK rest : rest \subseteq batch[cur] /\ batch' = [batch EXCEPT ![cur] = rest]
      BY DEF HandlerReturns
    <3>2. \A h \in Handlers : batch[h] = {} => batch'[h] = {}
      BY <3>1 DEF TypeOK
    <3>3. UNCHANGED <<fresh, m_handlers, held, known, interest, stage, arg>>
      BY DEF HandlerReturns
    <3> QED
      BY <3>2, <3>3 DEF FreshInv, TypeOK
  <2>5. AddingInv'
    BY DEF BatchInv, AddingInv
  <2>6. WatchedOwned'
    BY DEF WatchedOwned
  <2>7. BackedInv'
    <3> HIDE DEF HandlerReturns, CallOn, CallFor
    <3>r. PICK rest : /\ rest \subseteq batch[cur]
                      /\ batch' = [batch EXCEPT ![cur] = rest]
                      /\ loop' = CallOn(cur, rest)
      BY <1>10 DEF HandlerReturns
    <3>1. \A h \in Handlers : batch[h]' # {} => batch[h] # {}
      BY <3>r DEF TypeOK
    <3>2. UNCHANGED <<m_handlers, stage>>
      BY <1>10 DEF HandlerReturns, callVars
    <3>3. Removers = {} => loop' # "undefined"
      <4>1. Removers = {} /\ rest # {} => Alive(cur)
        BY <3>r DEF BackedInv, Alive, TypeOK
      <4>2. CallFor(rest) # "undefined"
        BY DEF CallFor
      <4> QED
        BY <3>r, <4>1, <4>2 DEF CallOn
    <3> QED
      BY <3>1, <3>2, <3>3 DEF BackedInv
  <2> QED
    BY <2>1, <2>2, <2>3, <2>4, <2>5, <2>6, <2>7 DEF Inv
<1>11. CASE HandlerUnregisters
  <2> USE <1>11 DEF HandlerUnregisters, UnregisterErase
  <2>1. LifecycleInv'
    BY DEF LifecycleInv
  <2>2. BatchInv'
    BY DEF BatchInv
  <2>3. ClosingInv'
    BY DEF ClosingInv
  <2>4. FreshInv'
    BY DEF FreshInv
  <2>5. AddingInv'
    BY DEF BatchInv, AddingInv
  <2>6. WatchedOwned'
    BY DEF WatchedOwned
  <2>7. BackedInv'
    BY DEF BackedInv
  <2> QED
    BY <2>1, <2>2, <2>3, <2>4, <2>5, <2>6, <2>7 DEF Inv
<1>12. CASE HandlerModifies
  <2> USE <1>12 DEF HandlerModifies, InUserCode
  <2>1. LifecycleInv'
    BY DEF LifecycleInv
  <2>2. BatchInv'
    BY DEF BatchInv
  <2>3. ClosingInv'
    BY DEF ClosingInv
  <2>4. FreshInv'
    BY DEF FreshInv
  <2>5. AddingInv'
    BY DEF AddingInv
  <2>6. WatchedOwned'
    BY DEF WatchedOwned
  <2>7. BackedInv'
    BY DEF BackedInv
  <2> QED
    BY <2>1, <2>2, <2>3, <2>4, <2>5, <2>6, <2>7 DEF Inv
<1>13. CASE KeepReference
  <2> USE <1>13 DEF KeepReference, InUserCode
  <2>1. LifecycleInv'
    BY DEF LifecycleInv
  <2>2. BatchInv'
    BY DEF BatchInv
  <2>3. ClosingInv'
    BY DEF ClosingInv
  <2>4. FreshInv'
    BY DEF BatchInv, FreshInv
  <2>5. AddingInv'
    BY DEF AddingInv
  <2>6. WatchedOwned'
    BY DEF WatchedOwned
  <2>7. BackedInv'
    BY DEF BackedInv
  <2> QED
    BY <2>1, <2>2, <2>3, <2>4, <2>5, <2>6, <2>7 DEF Inv
<1>14. ASSUME NEW t \in Callers, RegisterAdd(t) PROVE Inv'
  <2> USE <1>14 DEF RegisterAdd
  <2>1. LifecycleInv'
    BY DEF LifecycleInv
  <2>2. BatchInv'
    BY DEF BatchInv
  <2>3. ClosingInv'
    BY DEF ClosingInv
  <2>4. FreshInv'
    BY DEF FreshInv
  <2>5. AddingInv'
    BY DEF AddingInv
  <2>6. WatchedOwned'
    BY DEF AddingInv, WatchedOwned
  <2>7. BackedInv'
    BY DEF BackedInv
  <2> QED
    BY <2>1, <2>2, <2>3, <2>4, <2>5, <2>6, <2>7 DEF Inv
<1>15. ASSUME NEW t \in Callers, UnregisterDel(t) PROVE Inv'
  <2> USE <1>15 DEF UnregisterDel
  <2>1. LifecycleInv'
    BY DEF LifecycleInv
  <2>2. BatchInv'
    BY DEF BatchInv
  <2>3. ClosingInv'
    BY DEF ClosingInv
  <2>4. FreshInv'
    BY DEF FreshInv
  <2>5. AddingInv'
    BY DEF AddingInv
  <2>6. WatchedOwned'
    BY DEF WatchedOwned
  <2>7. BackedInv'
    BY DEF BackedInv
  <2> QED
    BY <2>1, <2>2, <2>3, <2>4, <2>5, <2>6, <2>7 DEF Inv
<1>16. ASSUME NEW t \in Callers, DropReference(t) PROVE Inv'
  <2> USE <1>16 DEF DropReference
  <2>i. \A g \in Handlers : interest'[g] = interest[g] \/ interest'[g] = {}
    BY DEF CloseDescriptor, DropReference
  <2>1. LifecycleInv'
    BY <2>i DEF LifecycleInv, ClosingInv
  <2>2. BatchInv'
    BY DEF BatchInv
  <2>3. ClosingInv'
    BY DEF ClosingInv
  <2>4. FreshInv'
    BY <2>i DEF FreshInv
  <2>5. AddingInv'
    BY <2>i DEF AddingInv
  <2>6. WatchedOwned'
    BY <2>i DEF WatchedOwned
  <2>7. BackedInv'
    BY DEF BackedInv
  <2> QED
    BY <2>1, <2>2, <2>3, <2>4, <2>5, <2>6, <2>7 DEF Inv
<1>17. ASSUME NEW t \in Callers, NEW h \in Handlers, RegisterInsert(t, h) PROVE Inv'
  <2> USE <1>17 DEF RegisterInsert, MayCall, InUserCode
  <2>1. LifecycleInv'
    BY DEF LifecycleInv
  <2>2. BatchInv'
    BY DEF BatchInv
  <2>3. ClosingInv'
    BY DEF ClosingInv
  <2>4. FreshInv'
    BY DEF FreshInv
  <2>5. AddingInv'
    BY DEF FreshInv, AddingInv, WatchedOwned, BackedInv
  <2>6. WatchedOwned'
    BY DEF WatchedOwned
  <2>7. BackedInv'
    BY DEF BackedInv
  <2> QED
    BY <2>1, <2>2, <2>3, <2>4, <2>5, <2>6, <2>7 DEF Inv
<1>18. ASSUME NEW t \in Removers, NEW h \in Handlers, RemoveHandler(t, h) PROVE Inv'
  <2> USE <1>18 DEF RemoveHandler, UnregisterErase, MayCall, InUserCode
  <2>1. LifecycleInv'
    BY DEF LifecycleInv
  <2>2. BatchInv'
    BY DEF BatchInv
  <2>3. ClosingInv'
    BY DEF ClosingInv
  <2>4. FreshInv'
    BY DEF FreshInv
  <2>5. AddingInv'
    BY DEF AddingInv
  <2>6. WatchedOwned'
    BY DEF WatchedOwned
  <2>7. BackedInv'
    BY DEF BackedInv
  <2> QED
    BY <2>1, <2>2, <2>3, <2>4, <2>5, <2>6, <2>7 DEF Inv
<1>19. ASSUME NEW h \in Handlers, ReleaseReference(h) PROVE Inv'
  <2> USE <1>19 DEF ReleaseReference, CloseDescriptor, Pinned
  <2>1. LifecycleInv'
    BY DEF LifecycleInv
  <2>2. BatchInv'
    BY DEF BatchInv
  <2>3. ClosingInv'
    BY DEF ClosingInv
  <2>4. FreshInv'
    BY DEF FreshInv
  <2>5. AddingInv'
    BY DEF AddingInv
  <2>6. WatchedOwned'
    BY DEF WatchedOwned
  <2>7. BackedInv'
    BY DEF BackedInv
  <2> QED
    BY <2>1, <2>2, <2>3, <2>4, <2>5, <2>6, <2>7 DEF Inv
<1>21. CASE CallbackEnds
  <2> USE <1>21 DEF CallbackEnds
  <2>1. LifecycleInv'
    BY DEF LifecycleInv
  <2>2. BatchInv'
    BY DEF BatchInv
  <2>3. ClosingInv'
    BY DEF ClosingInv
  <2>4. FreshInv'
    BY DEF FreshInv
  <2>5. AddingInv'
    BY DEF AddingInv
  <2>6. WatchedOwned'
    BY DEF WatchedOwned
  <2>7. BackedInv'
    BY DEF BackedInv
  <2> QED
    BY <2>1, <2>2, <2>3, <2>4, <2>5, <2>6, <2>7 DEF Inv
<1>22. CASE CallbackOnFreed
  <2> USE <1>22 DEF CallbackOnFreed
  <2>1. LifecycleInv'
    BY DEF LifecycleInv
  <2>2. BatchInv'
    BY DEF BatchInv
  <2>3. ClosingInv'
    BY DEF ClosingInv
  <2>4. FreshInv'
    BY DEF FreshInv
  <2>5. AddingInv'
    BY DEF AddingInv
  <2>6. WatchedOwned'
    BY DEF WatchedOwned
  <2>7. BackedInv'
    BY DEF BatchInv, BackedInv, Alive
  <2> QED
    BY <2>1, <2>2, <2>3, <2>4, <2>5, <2>6, <2>7 DEF Inv
<1>20. CASE UNCHANGED vars
  BY <1>20 DEF vars, LifecycleInv, BatchInv, ClosingInv, FreshInv, AddingInv, WatchedOwned, BackedInv
<1> QED
  BY <1>1, <1>2, <1>3, <1>4, <1>5, <1>6, <1>7, <1>8, <1>9, <1>10, <1>11, <1>12, <1>13, <1>14, <1>15, <1>16, <1>17, <1>18, <1>19, <1>20, <1>21, <1>22 DEF Next, OwnerStep, LoopStep, CallbackStep, CallStep

LEMMA InvInit == Init => Inv
BY ConstantsAssumption DEF Init, Inv, TypeOK, LifecycleInv, BatchInv, ClosingInv,
   FreshInv, AddingInv, WatchedOwned, BackedInv, Callers, States, Stages,
   LoopPoints, InSelect, InCallback

(* The types are invariant, whatever the constants are.                    *)
THEOREM TypeCorrect == Safety => []TypeOK
<1>1. Init => TypeOK
  BY InvInit DEF Inv
<1> QED
  BY <1>1, TypeStep, PTL DEF Safety

LEMMA InvAlways ==
  ASSUME Removers = {} \/ Reusable = {}
  PROVE  Safety => []Inv
BY InvInit, InvStep, PTL DEF Safety

(* No registration in epoll is left without the map's shared_ptr or an     *)
(* Unregister in progress: the two-step Register and Unregister calls of   *)
(* any number of threads do not interfere.                                 *)
THEOREM NoOrphanedRegistration ==
  ASSUME Removers = {} \/ Reusable = {}
  PROVE  Safety => []WatchedOwned
<1>1. Inv => WatchedOwned
  BY DEF Inv
<1> QED
  BY <1>1, InvAlways, PTL

(* When only the loop thread unregisters, Select never calls a destroyed   *)
(* handler.                                                                *)
THEOREM DispatchIsSafe ==
  ASSUME Removers = {}
  PROVE  Safety => []DispatchAlive
<1>1. Inv => DispatchAlive
  BY DEF Inv, TypeOK, BatchInv, BackedInv, DispatchAlive, Alive
<1> QED
  BY <1>1, InvAlways, PTL

(* When Stop has returned, the loop thread and its calls are gone.         *)
THEOREM StopIsFinal ==
  ASSUME Removers = {} \/ Reusable = {}
  PROVE  Safety => []StoppedQuiet
<1>1. Inv => StoppedQuiet
  BY DEF Inv, TypeOK, LifecycleInv, ClosingInv, StoppedQuiet, Callers
<1> QED
  BY <1>1, InvAlways, PTL

(* If epoll_create1 does not fail, the selector is open whenever it is     *)
(* used: Start opens it before the thread exists, Join closes it after the *)
(* thread is gone.                                                         *)
THEOREM SelectorIsOpen ==
  ASSUME Removers = {} \/ Reusable = {}, OpenMayFail = FALSE
  PROVE  Safety => []SelectorOpen
<1>1. Init => OpenInv
  BY DEF Init, OpenInv
<1>2. Inv /\ OpenInv /\ [Next]_vars => OpenInv'
  <2> SUFFICES ASSUME Inv, OpenInv, [Next]_vars PROVE OpenInv'
    OBVIOUS
  <2> USE DEF Inv, OpenInv, LifecycleInv, ClosingInv, Callers
  <2>1. CASE OwnerStep
    BY <2>1 DEF OwnerStep, Start, SetStarted, Stopping, Join, Destroy, loopVars, controlVars
  <2>2. CASE LoopStep \/ CallbackStep \/ HandlerModifies \/ KeepReference
    BY <2>2 DEF LoopStep, CallbackStep, LoopTest, EpollWait, Dispatch, BatchDone,
       HandlerReturns, HandlerUnregisters, UnregisterErase, CallbackEnds,
       CallbackOnFreed, HandlerModifies, KeepReference, InUserCode, CallOn, CallFor,
       loopVars, controlVars, InCallback
  <2>3. ASSUME NEW t \in Callers, CallStep(t) PROVE OpenInv'
    BY <2>3 DEF CallStep, RegisterAdd, UnregisterDel, DropReference, loopVars, controlVars
  <2>4. ASSUME NEW t \in Callers, NEW h \in Handlers, RegisterInsert(t, h) PROVE OpenInv'
    BY <2>4 DEF RegisterInsert, loopVars, controlVars
  <2>5. ASSUME NEW t \in Removers, NEW h \in Handlers, RemoveHandler(t, h) PROVE OpenInv'
    BY <2>5 DEF RemoveHandler, UnregisterErase, loopVars, controlVars
  <2>6. ASSUME NEW h \in Handlers, ReleaseReference(h) PROVE OpenInv'
    BY <2>6 DEF ReleaseReference, loopVars, controlVars
  <2>7. CASE UNCHANGED vars
    BY <2>7 DEF vars
  <2> QED
    BY <2>1, <2>2, <2>3, <2>4, <2>5, <2>6, <2>7 DEF Next
<1>3. Inv /\ OpenInv => SelectorOpen
  BY DEF Inv, LifecycleInv, ClosingInv, OpenInv, SelectorOpen, Callers
<1> QED
  BY <1>1, <1>2, <1>3, InvAlways, PTL DEF Safety

-----------------------------------------------------------------------------
(* The refinement of HandlerLifetime.                                      *)
Objects == [h \in Handlers |-> ObjectState(h)]
Calling == IF loop \in InSelect \ {"next"} THEN {cur} ELSE {}
Leaving == loop \in {"closing", "closed"}
Running == loop \notin {"none", "exited"}

(* A step that only lets references go destroys some handlers, or none.    *)
LEMMA OnlyDestroys ==
  ASSUME fresh' = fresh, Calling' = Calling, Leaving' = Leaving, Running' = Running,
         \A h \in Handlers : Alive(h)' => Alive(h),
         Leaving \/ \A h \in Handlers : h \in Calling => Alive(h)'
  PROVE  [Lifetime!LifetimeNext]_(Lifetime!lifetimeVars)
<1> DEFINE S == {h \in Handlers : h \notin fresh /\ Alive(h) /\ ~Alive(h)'}
<1>1. Objects' = [h \in Handlers |-> IF h \in S THEN "dead" ELSE Objects[h]]
  BY DEF Objects, ObjectState
<1>2. CASE S = {}
  <2>1. Objects' = Objects
    BY <1>1, <1>2 DEF Objects
  <2> QED
    BY <2>1 DEF Lifetime!lifetimeVars, Objects, Calling, Leaving, Running
<1>3. CASE S # {}
  <2>1. Leaving \/ S \cap Calling = {}
    OBVIOUS
  <2>2. \A h \in S : Objects[h] = "live"
    BY DEF Objects, ObjectState
  <2>3. Lifetime!DestroyAll(S)
    BY <1>1, <1>3, <2>1, <2>2 DEF Lifetime!DestroyAll, Objects, Calling, Leaving, Running
  <2> QED
    BY <2>3 DEF Lifetime!LifetimeNext
<1> QED
  BY <1>2, <1>3

(* A step that changes no reference does to objects what it does to the    *)
(* callback and the thread.                                                *)
LEMMA SameObjects ==
  ASSUME fresh' = fresh, \A h \in Handlers : Alive(h)' = Alive(h)
  PROVE  Objects' = Objects
BY DEF Objects, ObjectState

LEMMA LifetimeStep ==
  ASSUME Removers = {}, Inv, Inv', [Next]_vars
  PROVE  [Lifetime!LifetimeNext]_(Lifetime!lifetimeVars)
<1> USE DEF Inv, InSelect
<1> DEFINE Stutter == UNCHANGED <<Objects, Calling, Leaving, Running>>
<1>s. Stutter => [Lifetime!LifetimeNext]_(Lifetime!lifetimeVars)
  BY DEF Lifetime!lifetimeVars, Objects, Calling, Leaving, Running
<1>c. loop \in InCallback => cur \in m_handlers
  BY DEF BatchInv, BackedInv, TypeOK
<1>1. CASE Start
  <2>1. Objects' = Objects
    BY <1>1, SameObjects DEF Start, Alive, Pinned, callVars, objectVars
  <2>2. Calling' = Calling /\ Leaving' = Leaving /\ ~Running /\ Running'
    BY <1>1 DEF Start, LifecycleInv, Calling, Leaving, Running, InCallback
  <2> QED
    BY <2>1, <2>2 DEF Lifetime!LifetimeNext, Lifetime!StartThread, Objects, Calling, Leaving, Running
<1>2. CASE SetStarted \/ Stopping
  <2> USE <1>2 DEF SetStarted, Stopping, loopVars, callVars, objectVars
  <2>1. Objects' = Objects
    BY SameObjects DEF Alive, Pinned
  <2> QED
    BY <1>s, <2>1 DEF Calling, Leaving, Running
<1>3. CASE Join
  <2> USE <1>3 DEF Join, callVars, objectVars
  <2>1. Objects' = Objects
    BY SameObjects DEF Alive, Pinned
  <2> QED
    BY <1>s, <2>1 DEF Calling, Leaving, Running, InCallback
<1>4. CASE Destroy
  <2> USE <1>4 DEF Destroy, loopVars, callVars, objectVars, controlVars
  <2>1. \A h \in Handlers : Alive(h)' => Alive(h)
    BY DEF Alive, Pinned
  <2>2. Calling = {}
    BY DEF LifecycleInv, Calling, InCallback
  <2> QED
    BY <2>1, <2>2, OnlyDestroys DEF Calling, Leaving, Running
<1>5. CASE LoopTest
  <2> USE <1>5 DEF LoopTest, callVars, objectVars
  <2>1. Objects' = Objects
    BY SameObjects DEF Alive, Pinned
  <2>2. Calling = {} /\ Calling' = {} /\ Leaving' = Leaving /\ Running
    BY DEF Calling, Leaving, Running, InCallback
  <2>3. CASE m_state = "STOPPING"
    BY <2>1, <2>2, <2>3 DEF Lifetime!LifetimeNext, Lifetime!EndThread, Objects, Calling, Leaving, Running
  <2>4. CASE m_state # "STOPPING"
    BY <1>s, <2>1, <2>2, <2>4 DEF Running
  <2> QED
    BY <2>3, <2>4
<1>6. CASE EpollWait \/ BatchDone
  <2> USE <1>6 DEF EpollWait, BatchDone, callVars, objectVars
  <2>1. Objects' = Objects
    BY SameObjects DEF Alive, Pinned
  <2> QED
    BY <1>s, <2>1 DEF Calling, Leaving, Running, InCallback
<1>7. CASE Dispatch
  <2> USE <1>7 DEF Dispatch, callVars, objectVars
  <2>1. Objects' = Objects
    BY SameObjects DEF Alive, Pinned
  <2>2. PICK h \in Handlers : batch[h] # {} /\ cur' = h /\ loop' = CallOn(h, batch[h])
    OBVIOUS
  <2>3. Calling = {} /\ Calling' = {h} /\ Running /\ Running' /\ Leaving' = Leaving
    BY <2>2 DEF BackedInv, Calling, Leaving, Running, InCallback, CallOn, CallFor
  <2>4. Objects[h] = "live"
    BY <2>2 DEF BackedInv, FreshInv, Objects, ObjectState, Alive
  <2>5. Lifetime!EnterCallback(h)
    BY <2>1, <2>3, <2>4 DEF Lifetime!EnterCallback, Objects, Calling, Leaving, Running
  <2> QED
    BY <2>5 DEF Lifetime!LifetimeNext
<1>8. CASE HandlerReturns
  <2> USE <1>8 DEF HandlerReturns, callVars, objectVars
  <2>1. Objects' = Objects
    BY SameObjects DEF Alive, Pinned
  <2>2. /\ Running /\ Running' /\ cur' = cur /\ Calling = {cur}
        /\ loop' \in InCallback \cup {"next"} /\ Leaving' = Leaving
        /\ ~Leaving
    BY DEF BackedInv, Running, Calling, Leaving, InCallback, CallOn, CallFor
  <2>3. CASE loop' \in InCallback
    <3>1. Calling' = Calling
      BY <2>2, <2>3 DEF Calling, InCallback
    <3> QED
      BY <1>s, <2>1, <2>2, <3>1
  <2>4. CASE loop' = "next"
    <3>1. Calling' = {} /\ Calling # {}
      BY <2>2, <2>4 DEF Calling, InCallback
    <3>2. Lifetime!LeaveCallback
      BY <2>1, <2>2, <3>1
      DEF Lifetime!LeaveCallback, Objects, Calling, Leaving, Running
    <3> QED
      BY <3>2 DEF Lifetime!LifetimeNext
  <2> QED
    BY <2>2, <2>3, <2>4
<1>15. CASE HandlerUnregisters
  <2> USE <1>15 DEF HandlerUnregisters, UnregisterErase, callVars, objectVars
  <2>1. \A h \in Handlers : Alive(h)' = Alive(h)
    BY <1>c DEF Alive, Pinned, Callers, TypeOK
  <2>2. Objects' = Objects
    BY <2>1, SameObjects
  <2>3. /\ Running /\ Running' /\ Calling = {cur} /\ Calling' = {cur}
        /\ ~Leaving /\ Leaving'
    BY DEF Running, Calling, Leaving, InCallback
  <2>4. Lifetime!BeginLeaving
    BY <2>2, <2>3 DEF Lifetime!BeginLeaving, Objects, Calling, Leaving, Running
  <2> QED
    BY <2>4 DEF Lifetime!LifetimeNext
<1>16. CASE CallbackEnds \/ CallbackOnFreed
  <2>0. ~CallbackOnFreed
    BY <1>c DEF CallbackOnFreed, Alive
  <2> USE <1>16, <2>0 DEF CallbackEnds, callVars, objectVars
  <2>1. Objects' = Objects
    BY SameObjects DEF Alive, Pinned
  <2>2. Calling # {} /\ Calling' = {} /\ Leaving' = FALSE /\ Running /\ Running'
    BY DEF Running, Calling, Leaving, InCallback
  <2>3. Lifetime!LeaveCallback
    BY <2>1, <2>2 DEF Lifetime!LeaveCallback, Objects, Calling, Leaving, Running
  <2> QED
    BY <2>3 DEF Lifetime!LifetimeNext
<1>9. CASE HandlerModifies \/ KeepReference
  <2> USE <1>9 DEF HandlerModifies, KeepReference, InUserCode, loopVars, callVars, objectVars
  <2>1. Objects' = Objects
    BY SameObjects DEF Alive, Pinned
  <2> QED
    BY <1>s, <2>1 DEF Calling, Leaving, Running
<1>10. ASSUME NEW t \in Callers, RegisterAdd(t) \/ UnregisterDel(t)
       PROVE  [Lifetime!LifetimeNext]_(Lifetime!lifetimeVars)
  <2> USE <1>10 DEF RegisterAdd, UnregisterDel, loopVars, objectVars
  <2>1. \A u \in Callers : Pinned(u)' = Pinned(u)
    BY DEF Pinned, TypeOK
  <2>2. Objects' = Objects
    BY <2>1, SameObjects DEF Alive
  <2> QED
    BY <1>s, <2>2 DEF Calling, Leaving, Running
<1>11. ASSUME NEW t \in Callers, DropReference(t)
       PROVE  [Lifetime!LifetimeNext]_(Lifetime!lifetimeVars)
  <2> USE <1>11 DEF DropReference
  <2>1. \A h \in Handlers : Alive(h)' => Alive(h)
    BY DEF Alive, Pinned, TypeOK
  <2>2. Calling' = Calling /\ Leaving' = Leaving /\ Running' = Running
    BY DEF ClosingInv, Calling, Leaving, Running, InCallback, TypeOK
  <2>3. Leaving \/ \A h \in Handlers : h \in Calling => Alive(h)'
    BY <1>c DEF BackedInv, TypeOK, LoopPoints, Calling, Leaving, Alive
  <2> QED
    BY <2>1, <2>2, <2>3, OnlyDestroys
<1>12. ASSUME NEW t \in Callers, NEW h \in Handlers, RegisterInsert(t, h)
       PROVE  [Lifetime!LifetimeNext]_(Lifetime!lifetimeVars)
  <2> USE <1>12 DEF RegisterInsert, MayCall, loopVars
  <2>1. \A g \in Handlers \ {h} : Alive(g)' = Alive(g)
    BY DEF Alive, Pinned, TypeOK, Callers
  <2>2. Alive(h)' /\ h \notin fresh'
    BY DEF Alive
  <2>3. CASE h \in fresh
    <3>1. Objects' = [Objects EXCEPT ![h] = "live"] /\ Objects[h] = "fresh"
      BY <2>1, <2>2, <2>3 DEF Objects, ObjectState
    <3>2. Lifetime!Construct(h)
      BY <3>1 DEF Lifetime!Construct, Objects, Calling, Leaving, Running
    <3> QED
      BY <3>2 DEF Lifetime!LifetimeNext
  <2>4. CASE h \notin fresh
    <3>1. Alive(h)
      BY <2>4 DEF Alive
    <3>2. Alive(h)' = Alive(h)
      BY <2>2, <3>1 DEF Alive
    <3>3. \A g \in Handlers : Alive(g)' = Alive(g)
      BY <2>1, <3>2
    <3>4. fresh' = fresh
      BY <2>4
    <3>5. Objects' = Objects
      BY <3>3, <3>4, SameObjects
    <3> QED
      BY <1>s, <3>5 DEF Calling, Leaving, Running
  <2> QED
    BY <2>3, <2>4
<1>13. ASSUME NEW h \in Handlers, ReleaseReference(h)
       PROVE  [Lifetime!LifetimeNext]_(Lifetime!lifetimeVars)
  <2> USE <1>13 DEF ReleaseReference, loopVars, callVars
  <2>1. \A g \in Handlers : Alive(g)' => Alive(g)
    BY DEF Alive, Pinned
  <2>2. Leaving \/ \A g \in Handlers : g \in Calling => Alive(g)'
    BY <1>c DEF BackedInv, TypeOK, LoopPoints, Calling, Leaving, Alive
  <2> QED
    BY <2>1, <2>2, OnlyDestroys DEF Calling, Leaving, Running
<1>14. CASE UNCHANGED vars
  <2>1. Objects' = Objects
    BY <1>14, SameObjects DEF vars, Alive, Pinned
  <2> QED
    BY <1>s, <1>14, <2>1 DEF vars, Calling, Leaving, Running
<1> QED
  BY <1>1, <1>2, <1>3, <1>4, <1>5, <1>6, <1>7, <1>8, <1>9, <1>10, <1>11, <1>12, <1>13, <1>14, <1>15, <1>16
  DEF Next, OwnerStep, LoopStep, CallbackStep, CallStep

(* The event loop implements the abstract lifetime of its handlers when    *)
(* these unregister only themselves, in callbacks: whatever the number of  *)
(* handlers and threads, a callback is entered only on an existing object, *)
(* the object stays until the callback has itself unregistered it, and then*)
(* the callback only returns; no object comes back or is called again.     *)
THEOREM LoopImplementsLifetime ==
  ASSUME Removers = {}
  PROVE  Safety => ImplementsLifetime
<1>1. Init => Lifetime!LifetimeInit
  BY DEF Init, Lifetime!LifetimeInit, ObjectState, InSelect, InCallback
<1>2. Inv /\ Inv' /\ [Next]_vars => [Lifetime!LifetimeNext]_(Lifetime!lifetimeVars)
  BY LifetimeStep
<1> QED
  BY <1>1, <1>2, InvAlways, PTL DEF Safety, ImplementsLifetime, Lifetime!LifetimeSpec
=============================================================================
