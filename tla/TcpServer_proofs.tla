--------------------------- MODULE TcpServer_proofs ---------------------------
(***************************************************************************)
(* The order in which TcpServer starts and stops its accept thread, its    *)
(* loops and its socket keeps the accept thread from using a loop or a     *)
(* socket that is not there, for every number of loops and connections.    *)
(*                                                                         *)
(* The inductive invariant says, for every point of Start and Stop, what   *)
(* state every loop is in, and at which points there is an accept thread.  *)
(***************************************************************************)
EXTENDS TcpServer, SequenceTheorems, TLAPS

LoopRecord == [state: {"STARTED", "STOPPING", "STOPPED"},
               thread: {"running", "exited", "none"},
               handlers: SUBSET Connections]

Shape == /\ m_loops \in Seq(LoopRecord)
         /\ new_loops \in Seq(LoopRecord)
         /\ group \in [at: {"idle", "starting", "stopping", "joining"}, i: Nat]

Runs(i)  == m_loops[i].state = "STARTED" /\ m_loops[i].thread = "running"
Ends(i)  == m_loops[i].state = "STOPPING" /\ m_loops[i].thread \in {"running", "exited"}
Rests(i) == m_loops[i].state = "STOPPED" /\ m_loops[i].thread = "none"

AllRun  == /\ Len(m_loops) = m_loop_num
           /\ \A i \in 1..Len(m_loops) : Runs(i)
AllRest == \A i \in 1..Len(m_loops) : Rests(i)

(* Between the thread's start and its join.                                *)
Serving == main \in {"set_started", "join"} \/ (main = "idle" /\ m_state = "STARTED")
Stopped == main = "idle" /\ m_state = "STOPPED"

MainInv ==
  /\ main \in {"start_group", "set_started"} => m_state = "STOPPED"
  /\ main \in {"join", "stop_group"} => m_state = "STOPPING"
  /\ main = "idle" => m_state \in {"STOPPED", "STARTED"}
  /\ Stopped => ~listening /\ backlog = << >>
  /\ ~Stopped => listening /\ m_loop_num \in 1..MaxLoops
  /\ m_loop_num \in 0..MaxLoops
  /\ Len(m_loops) <= MaxLoops

AcceptInv ==
  /\ accept # "none" <=> Serving
  /\ accept \notin {"choose", "create"} => stream = {}
  /\ accept = "create" => target \in 1..m_loop_num
  /\ accept # "none" => Len(given) = m_loop_num

GroupInv ==
  /\ group.at # "starting" => new_loops = << >>
  /\ group.at = "starting" =>
       /\ main = "start_group"
       /\ group.i = Len(new_loops) /\ group.i <= m_loop_num
       /\ \A i \in 1..Len(new_loops) : /\ new_loops[i].state = "STARTED"
                                       /\ new_loops[i].thread = "running"
  /\ group.at \in {"stopping", "joining"} => main = "stop_group" /\ group.i <= Len(m_loops)
  /\ group.at = "idle" => group.i = 0

LoopsInv ==
  /\ Serving => AllRun
  /\ main = "start_group" => IF GroupIdle THEN AllRun ELSE AllRest
  /\ Stopped => AllRest
  /\ main = "stop_group" =>
       /\ GroupIdle => AllRest
       /\ group.at = "stopping" => /\ \A i \in 1..group.i : Ends(i)
                                   /\ \A i \in group.i + 1 .. Len(m_loops) : Runs(i)
       /\ group.at = "joining" => /\ \A i \in 1..group.i : Rests(i)
                                  /\ \A i \in group.i + 1 .. Len(m_loops) : Ends(i)

TypeInv ==
  /\ m_state \in {"STOPPED", "STARTED", "STOPPING"}
  /\ main \in {"idle", "start_group", "set_started", "join", "stop_group"}
  /\ listening \in BOOLEAN
  /\ backlog \in Seq(Connections) /\ Len(backlog) <= Backlog
  /\ accept \in {"none", "test", "accept", "poll", "accept_again", "choose", "create", "exited"}
  /\ stream \subseteq Connections
  /\ target \in 1..MaxLoops
  /\ m_next_loop_index \in 0..IndexRange - 1
  /\ fresh \subseteq Connections
  /\ given \in Seq(Nat)

Inv == Shape /\ TypeInv /\ MainInv /\ AcceptInv /\ GroupInv /\ LoopsInv

-----------------------------------------------------------------------------
LEMMA InitInv == Init => Inv
<1> SUFFICES ASSUME Init PROVE Inv
  OBVIOUS
<1>1. Shape
  BY SMT DEF Init, InitGroup, Shape
<1>2. << >> \in Seq(Connections) /\ << >> \in Seq(Nat) /\ Len(<< >>) = 0
  BY SMT
<1>3. TypeInv
  <2>1. 1 \in 1..MaxLoops /\ 0 \in 0..IndexRange - 1 /\ Len(<< >>) <= Backlog
    BY <1>2, ServerAssumption, SMT
  <2> QED  BY <1>2, <2>1 DEF Init, TypeInv
<1>4. MainInv /\ AcceptInv
  BY <1>2, ServerAssumption, SMT DEF Init, InitGroup, MainInv, AcceptInv, Serving, Stopped
<1>5. GroupInv /\ LoopsInv
  BY <1>2, SMT DEF Init, InitGroup, GroupInv, LoopsInv, Serving, Stopped, AllRest
<1> QED  BY <1>1, <1>3, <1>4, <1>5 DEF Inv

(* The steps of the owner outside of the group's calls.                    *)
LEMMA StartInv ==
  ASSUME Inv, NEW n \in 1..MaxLoops, Start(n)
  PROVE  Inv'
  BY ServerAssumption, SMT DEF Start, GroupStart, GroupIdle, Inv, Shape, TypeInv, MainInv, AcceptInv,
     GroupInv, LoopsInv, Serving, Stopped, AllRest, Rests, socketVars, acceptVars

LEMMA OwnerInv ==
  ASSUME Inv, StartThread \/ SetStarted \/ Stop \/ JoinAccept \/ CloseAcceptor \/ Destroy
  PROVE  Inv'
<1>1. CASE StartThread
  <2>1. Shape'
    BY <1>1, ServerAssumption, SMT DEF StartThread, ownerVars, socketVars, acceptVars, groupVars, Inv, Shape
  <2>2. TypeInv'
    <3>1. m_loop_num \in Nat
      BY ServerAssumption, SMT DEF Inv, MainInv
    <3>2. [i \in 1..m_loop_num |-> 0] \in Seq(Nat)
      BY <3>1, SMT
    <3> QED  BY <1>1, <3>2 DEF StartThread, socketVars, Inv, TypeInv
  <2>3. MainInv'
    BY <1>1, ServerAssumption, SMT DEF StartThread, ownerVars, socketVars, acceptVars, groupVars, Inv, Shape, TypeInv, MainInv, Stopped
  <2>4. AcceptInv'
    BY <1>1, ServerAssumption, SMT DEF StartThread, ownerVars, socketVars, acceptVars, groupVars, Inv, TypeInv, MainInv, AcceptInv, Serving
  <2>5. GroupInv'
    BY <1>1, ServerAssumption, SMT DEF StartThread, ownerVars, socketVars, acceptVars, groupVars, Inv, Shape, MainInv, GroupInv, GroupIdle
  <2>6. LoopsInv'
    BY <1>1, ServerAssumption, SMT DEF StartThread, ownerVars, socketVars, acceptVars, groupVars, Inv, MainInv, LoopsInv, GroupInv, AcceptInv, Serving, Stopped, AllRun, AllRest, Runs, Rests, Ends, GroupIdle
  <2> QED  BY <2>1, <2>2, <2>3, <2>4, <2>5, <2>6 DEF Inv
<1>2. CASE SetStarted
  <2>1. Shape'
    BY <1>2, ServerAssumption, SMT DEF SetStarted, ownerVars, socketVars, acceptVars, groupVars, Inv, Shape
  <2>2. TypeInv'
    BY <1>2, ServerAssumption, SMT DEF SetStarted, ownerVars, socketVars, acceptVars, groupVars, Inv, TypeInv
  <2>3. MainInv'
    BY <1>2, ServerAssumption, SMT DEF SetStarted, ownerVars, socketVars, acceptVars, groupVars, Inv, Shape, TypeInv, MainInv, Stopped
  <2>4. AcceptInv'
    BY <1>2, ServerAssumption, SMT DEF SetStarted, ownerVars, socketVars, acceptVars, groupVars, Inv, TypeInv, MainInv, AcceptInv, Serving
  <2>5. GroupInv'
    BY <1>2, ServerAssumption, SMT DEF SetStarted, ownerVars, socketVars, acceptVars, groupVars, Inv, Shape, MainInv, GroupInv, GroupIdle
  <2>6. LoopsInv'
    BY <1>2, ServerAssumption, SMT DEF SetStarted, ownerVars, socketVars, acceptVars, groupVars, Inv, MainInv, LoopsInv, GroupInv, AcceptInv, Serving, Stopped, AllRun, AllRest, Runs, Rests, Ends, GroupIdle
  <2> QED  BY <2>1, <2>2, <2>3, <2>4, <2>5, <2>6 DEF Inv
<1>3. CASE Stop
  <2>1. Shape'
    BY <1>3, ServerAssumption, SMT DEF Stop, ownerVars, socketVars, acceptVars, groupVars, Inv, Shape
  <2>2. TypeInv'
    BY <1>3, ServerAssumption, SMT DEF Stop, ownerVars, socketVars, acceptVars, groupVars, Inv, TypeInv
  <2>3. MainInv'
    BY <1>3, ServerAssumption, SMT DEF Stop, ownerVars, socketVars, acceptVars, groupVars, Inv, Shape, TypeInv, MainInv, Stopped
  <2>4. AcceptInv'
    BY <1>3, ServerAssumption, SMT DEF Stop, ownerVars, socketVars, acceptVars, groupVars, Inv, TypeInv, MainInv, AcceptInv, Serving
  <2>5. GroupInv'
    BY <1>3, ServerAssumption, SMT DEF Stop, ownerVars, socketVars, acceptVars, groupVars, Inv, Shape, MainInv, GroupInv, GroupIdle
  <2>6. LoopsInv'
    BY <1>3, ServerAssumption, SMT DEF Stop, ownerVars, socketVars, acceptVars, groupVars, Inv, MainInv, LoopsInv, GroupInv, AcceptInv, Serving, Stopped, AllRun, AllRest, Runs, Rests, Ends, GroupIdle
  <2> QED  BY <2>1, <2>2, <2>3, <2>4, <2>5, <2>6 DEF Inv
<1>4. CASE JoinAccept
  <2>1. Shape'
    BY <1>4, ServerAssumption, SMT DEF JoinAccept, ownerVars, socketVars, acceptVars, groupVars, GroupStop, Inv, Shape
  <2>2. TypeInv'
    BY <1>4, ServerAssumption, SMT DEF JoinAccept, ownerVars, socketVars, acceptVars, groupVars, GroupStop, Inv, TypeInv
  <2>3. MainInv'
    BY <1>4, ServerAssumption, SMT DEF JoinAccept, ownerVars, socketVars, acceptVars, groupVars, GroupStop, Inv, Shape, TypeInv, MainInv, Stopped
  <2>4. AcceptInv'
    BY <1>4, ServerAssumption, SMT DEF JoinAccept, ownerVars, socketVars, acceptVars, groupVars, GroupStop, Inv, TypeInv, MainInv, AcceptInv, Serving
  <2>5. GroupInv'
    BY <1>4, ServerAssumption, SMT DEF JoinAccept, ownerVars, socketVars, acceptVars, groupVars, GroupStop, Inv, Shape, MainInv, GroupInv, GroupIdle
  <2>6. LoopsInv'
    BY <1>4, ServerAssumption, SMT DEF JoinAccept, ownerVars, socketVars, acceptVars, groupVars, GroupStop, Inv, MainInv, LoopsInv, GroupInv, AcceptInv, Serving, Stopped, AllRun, AllRest, Runs, Rests, Ends, GroupIdle
  <2> QED  BY <2>1, <2>2, <2>3, <2>4, <2>5, <2>6 DEF Inv
<1>5. CASE CloseAcceptor
  <2>1. Shape'
    BY <1>5, ServerAssumption, SMT DEF CloseAcceptor, ownerVars, socketVars, acceptVars, groupVars, Inv, Shape
  <2>2. TypeInv'
    <3>1. << >> \in Seq(Connections) /\ Len(<< >>) <= Backlog
      BY ServerAssumption, SMT
    <3> QED  BY <1>5, <3>1 DEF CloseAcceptor, acceptVars, Inv, TypeInv
  <2>3. MainInv'
    BY <1>5, ServerAssumption, SMT DEF CloseAcceptor, ownerVars, socketVars, acceptVars, groupVars, Inv, Shape, TypeInv, MainInv, Stopped
  <2>4. AcceptInv'
    BY <1>5, ServerAssumption, SMT DEF CloseAcceptor, ownerVars, socketVars, acceptVars, groupVars, Inv, TypeInv, MainInv, AcceptInv, Serving
  <2>5. GroupInv'
    BY <1>5, ServerAssumption, SMT DEF CloseAcceptor, ownerVars, socketVars, acceptVars, groupVars, Inv, Shape, MainInv, GroupInv, GroupIdle
  <2>6. LoopsInv'
    BY <1>5, ServerAssumption, SMT DEF CloseAcceptor, ownerVars, socketVars, acceptVars, groupVars, Inv, MainInv, LoopsInv, GroupInv, AcceptInv, Serving, Stopped, AllRun, AllRest, Runs, Rests, Ends, GroupIdle
  <2> QED  BY <2>1, <2>2, <2>3, <2>4, <2>5, <2>6 DEF Inv
<1>6. CASE Destroy
  <2>1. Shape'
    BY <1>6, ServerAssumption, SMT DEF Destroy, ownerVars, socketVars, acceptVars, groupVars, Inv, Shape
  <2>2. TypeInv'
    BY <1>6, ServerAssumption, SMT DEF Destroy, ownerVars, socketVars, acceptVars, groupVars, Inv, TypeInv
  <2>3. MainInv'
    BY <1>6, ServerAssumption, SMT DEF Destroy, ownerVars, socketVars, acceptVars, groupVars, Inv, Shape, TypeInv, MainInv, Stopped
  <2>4. AcceptInv'
    BY <1>6, ServerAssumption, SMT DEF Destroy, ownerVars, socketVars, acceptVars, groupVars, Inv, TypeInv, MainInv, AcceptInv, Serving
  <2>5. GroupInv'
    BY <1>6, ServerAssumption, SMT DEF Destroy, ownerVars, socketVars, acceptVars, groupVars, Inv, Shape, MainInv, GroupInv, GroupIdle
  <2>6. LoopsInv'
    BY <1>6, ServerAssumption, SMT DEF Destroy, ownerVars, socketVars, acceptVars, groupVars, Inv, MainInv, LoopsInv, GroupInv, AcceptInv, Serving, Stopped, AllRun, AllRest, Runs, Rests, Ends, GroupIdle
  <2> QED  BY <2>1, <2>2, <2>3, <2>4, <2>5, <2>6 DEF Inv
<1> QED  BY <1>1, <1>2, <1>3, <1>4, <1>5, <1>6

(* One loop of the group changes.                                          *)
LEMMA LoopUpdated ==
  ASSUME Shape, NEW i \in 1..Len(m_loops), NEW r \in LoopRecord,
         m_loops' = [m_loops EXCEPT ![i] = r]
  PROVE  /\ m_loops' \in Seq(LoopRecord)
         /\ Len(m_loops') = Len(m_loops)
         /\ m_loops'[i] = r
         /\ \A j \in 1..Len(m_loops) : j # i => m_loops'[j] = m_loops[j]
  BY SMT DEF Shape

(* The steps inside the group's Start and Stop.                            *)
LEMMA GroupGoesOnInv ==
  ASSUME Inv, GroupGoesOn
  PROVE  Inv'
<1>0. UNCHANGED <<m_state, main, listening, backlog, fresh, accept, stream, target,
                  m_next_loop_index, given, m_loop_num>>
  BY SMT DEF GroupGoesOn, ownerVars, socketVars, acceptVars
<1>1. CASE GroupStartLoop(m_loop_num)
  <2>1. Shape'
    BY <1>0, <1>1, SMT DEF GroupStartLoop, Inv, Shape, LoopRecord, NewEventLoop, Loop, MainInv
  <2>2. TypeInv'
    BY <1>0, <1>1, SMT DEF GroupStartLoop, Inv, TypeInv
  <2>3. MainInv'
    BY <1>0, <1>1, SMT DEF GroupStartLoop, Inv, Shape, MainInv, GroupInv, Stopped, Loop
  <2>4. AcceptInv'
    BY <1>0, <1>1, SMT DEF GroupStartLoop, Inv, AcceptInv, Serving
  <2>5. GroupInv'
    BY <1>0, <1>1, SMT DEF GroupStartLoop, Inv, Shape, MainInv, GroupInv, Loop, NewEventLoop
  <2>6. LoopsInv'
    BY <1>0, <1>1, SMT DEF GroupStartLoop, Inv, Shape, MainInv, LoopsInv, GroupInv, Serving, Stopped, AllRun, AllRest, Runs, Rests, Ends, GroupIdle, Loop
  <2> QED  BY <2>1, <2>2, <2>3, <2>4, <2>5, <2>6 DEF Inv
<1>2. CASE GroupSwap(m_loop_num)
  <2>1. Shape'
    BY <1>0, <1>2, SMT DEF GroupSwap, Inv, Shape, LoopRecord, NewEventLoop, Loop, MainInv
  <2>2. TypeInv'
    BY <1>0, <1>2, SMT DEF GroupSwap, Inv, TypeInv
  <2>3. MainInv'
    BY <1>0, <1>2, SMT DEF GroupSwap, Inv, Shape, MainInv, GroupInv, Stopped, Loop
  <2>4. AcceptInv'
    BY <1>0, <1>2, SMT DEF GroupSwap, Inv, AcceptInv, Serving
  <2>5. GroupInv'
    BY <1>0, <1>2, SMT DEF GroupSwap, Inv, Shape, MainInv, GroupInv, Loop, NewEventLoop
  <2>6. LoopsInv'
    BY <1>0, <1>2, SMT DEF GroupSwap, Inv, Shape, MainInv, LoopsInv, GroupInv, Serving, Stopped, AllRun, AllRest, Runs, Rests, Ends, GroupIdle, Loop
  <2> QED  BY <2>1, <2>2, <2>3, <2>4, <2>5, <2>6 DEF Inv
<1>3. CASE GroupStopping
  <2> DEFINE r == [m_loops[Loop] EXCEPT !.state = IF @ = "STARTED" THEN "STOPPING" ELSE @]
  <2>8. /\ m_loops \in Seq(LoopRecord) /\ Len(m_loops) \in Nat /\ group.i \in Nat
        /\ main = "stop_group" /\ ~Stopped /\ ~Serving /\ group.i <= Len(m_loops)
        /\ group \in [at: {"idle", "starting", "stopping", "joining"}, i: Nat]
    BY <1>3, SMT DEF GroupStopping, Inv, Shape, GroupInv, Stopped, Serving
  <2>9. ASSUME Loop <= Len(m_loops)
        PROVE  /\ Loop \in 1..Len(m_loops)
               /\ r \in LoopRecord /\ r.state = "STOPPING" /\ r.thread \in {"running", "exited"}
               /\ m_loops' = [m_loops EXCEPT ![Loop] = r]
               /\ group' = [group EXCEPT !.i = @ + 1]
    <3>1. Loop \in 1..Len(m_loops)
      BY <2>8, <2>9, SMT DEF Loop
    <3>2. Runs(Loop)
      BY <1>3, <2>8, <2>9, SMT DEF GroupStopping, Inv, LoopsInv, Loop
    <3>3. m_loops[Loop] \in LoopRecord
      BY <2>8, <3>1, SMT
    <3>4. r \in LoopRecord /\ r.state = "STOPPING" /\ r.thread \in {"running", "exited"}
      BY <3>2, <3>3, SMT DEF LoopRecord, Runs, Ends
    <3>5. m_loops' = [m_loops EXCEPT ![Loop] = r] /\ group' = [group EXCEPT !.i = @ + 1]
      BY <1>3, <2>9, <3>2, SMT DEF GroupStopping
    <3> QED  BY <3>1, <3>4, <3>5
  <2>10. Loop <= Len(m_loops) =>
           /\ m_loops' \in Seq(LoopRecord) /\ Len(m_loops') = Len(m_loops)
           /\ m_loops'[Loop] = r
           /\ \A j \in 1..Len(m_loops) : j # Loop => m_loops'[j] = m_loops[j]
    BY <2>9, LoopUpdated DEF Inv
  <2>1. Shape'
    <3>1. CASE Loop <= Len(m_loops)
      BY <1>3, <2>8, <2>9, <2>10, <3>1, SMT DEF GroupStopping, Inv, Shape
    <3>2. CASE ~(Loop <= Len(m_loops))
      BY <1>3, <2>8, <3>2, SMT DEF GroupStopping, Inv, Shape
    <3> QED  BY <3>1, <3>2
  <2>2. TypeInv'
    BY <1>0, <1>3, SMT DEF GroupStopping, Inv, TypeInv
  <2>3. MainInv'
    BY <1>0, <1>3, SMT DEF GroupStopping, Inv, Shape, MainInv, GroupInv, Stopped, Loop
  <2>4. AcceptInv'
    BY <1>0, <1>3, SMT DEF GroupStopping, Inv, AcceptInv, Serving
  <2>5. GroupInv'
    BY <1>0, <1>3, SMT DEF GroupStopping, Inv, Shape, MainInv, GroupInv, Loop, NewEventLoop
  <2>6. LoopsInv'
    <3>0. ~Stopped' /\ ~Serving' /\ main' = "stop_group"
      BY <1>0, <2>8, SMT DEF Stopped, Serving
    <3>1. /\ \A i \in 1..group.i : Ends(i)
          /\ \A i \in group.i + 1 .. Len(m_loops) : Runs(i)
      BY <1>3, <2>8, SMT DEF GroupStopping, Inv, LoopsInv
    <3>2. CASE Loop <= Len(m_loops)
      <4>1. group'.at = "stopping" /\ group'.i = Loop /\ ~GroupIdle'
        BY <1>3, <2>8, <2>9, <3>2, SMT DEF GroupStopping, Loop, GroupIdle
      <4>2. ASSUME NEW i \in 1..Loop PROVE Ends(i)'
        <5>1. CASE i = Loop
          BY <2>9, <2>10, <3>2, <5>1 DEF Ends
        <5>2. CASE i # Loop
          <6>1. i \in 1..group.i /\ i \in 1..Len(m_loops)
            BY <2>8, <3>2, <5>2, SMT DEF Loop
          <6> QED  BY <2>10, <3>1, <3>2, <5>2, <6>1 DEF Ends
        <5> QED  BY <5>1, <5>2
      <4>3. ASSUME NEW i \in Loop + 1 .. Len(m_loops) PROVE Runs(i)'
        <5>1. i \in group.i + 1 .. Len(m_loops) /\ i # Loop /\ i \in 1..Len(m_loops)
          BY <2>8, SMT DEF Loop
        <5> QED  BY <2>10, <3>1, <3>2, <5>1 DEF Runs
      <4> QED  BY <2>10, <3>0, <3>2, <4>1, <4>2, <4>3 DEF LoopsInv
    <3>3. CASE ~(Loop <= Len(m_loops))
      <4>1. group.i = Len(m_loops) /\ m_loops' = m_loops
        BY <1>3, <2>8, <3>3, SMT DEF GroupStopping, Loop
      <4>2. group'.at = "joining" /\ group'.i = 0 /\ ~GroupIdle'
        BY <1>3, <3>3, SMT DEF GroupStopping, GroupIdle
      <4>3. 1..group'.i = {} /\ group'.i + 1 .. Len(m_loops') = 1..group.i
        BY <2>8, <4>1, <4>2, SMT
      <4>4. \A i \in 1..group.i : Ends(i)'
        BY <3>1, <4>1 DEF Ends
      <4> QED  BY <3>0, <4>2, <4>3, <4>4 DEF LoopsInv
    <3> QED  BY <3>2, <3>3
  <2> QED  BY <2>1, <2>2, <2>3, <2>4, <2>5, <2>6 DEF Inv
<1>4. CASE GroupJoin
  <2> DEFINE r == JoinedLoop(m_loops[Loop])
  <2>8. /\ m_loops \in Seq(LoopRecord) /\ Len(m_loops) \in Nat /\ group.i \in Nat
        /\ main = "stop_group" /\ ~Stopped /\ ~Serving /\ group.i <= Len(m_loops)
        /\ group \in [at: {"idle", "starting", "stopping", "joining"}, i: Nat]
    BY <1>4, SMT DEF GroupJoin, Inv, Shape, GroupInv, Stopped, Serving
  <2>9. ASSUME Loop <= Len(m_loops)
        PROVE  /\ Loop \in 1..Len(m_loops)
               /\ r \in LoopRecord /\ r.state = "STOPPED" /\ r.thread = "none"
               /\ m_loops' = [m_loops EXCEPT ![Loop] = r]
               /\ group' = [group EXCEPT !.i = @ + 1]
    <3>1. Loop \in 1..Len(m_loops)
      BY <2>8, <2>9, SMT DEF Loop
    <3>2. Ends(Loop)
      BY <1>4, <2>8, <2>9, SMT DEF GroupJoin, Inv, LoopsInv, Loop
    <3>3. m_loops[Loop] \in LoopRecord
      BY <2>8, <3>1, SMT
    <3>4. r \in LoopRecord /\ r.state = "STOPPED" /\ r.thread = "none"
      BY <3>3, SMT DEF LoopRecord, JoinedLoop
    <3>5. m_loops' = [m_loops EXCEPT ![Loop] = r] /\ group' = [group EXCEPT !.i = @ + 1]
      BY <1>4, <2>9, <3>2, SMT DEF GroupJoin
    <3> QED  BY <3>1, <3>4, <3>5
  <2>10. Loop <= Len(m_loops) =>
           /\ m_loops' \in Seq(LoopRecord) /\ Len(m_loops') = Len(m_loops)
           /\ m_loops'[Loop] = r
           /\ \A j \in 1..Len(m_loops) : j # Loop => m_loops'[j] = m_loops[j]
    BY <2>9, LoopUpdated DEF Inv
  <2>1. Shape'
    <3>1. CASE Loop <= Len(m_loops)
      BY <1>4, <2>8, <2>9, <2>10, <3>1, SMT DEF GroupJoin, Inv, Shape
    <3>2. CASE ~(Loop <= Len(m_loops))
      BY <1>4, <2>8, <3>2, SMT DEF GroupJoin, Inv, Shape
    <3> QED  BY <3>1, <3>2
  <2>2. TypeInv'
    BY <1>0, <1>4, SMT DEF GroupJoin, Inv, TypeInv
  <2>3. MainInv'
    BY <1>0, <1>4, SMT DEF GroupJoin, Inv, Shape, MainInv, GroupInv, Stopped, Loop
  <2>4. AcceptInv'
    BY <1>0, <1>4, SMT DEF GroupJoin, Inv, AcceptInv, Serving
  <2>5. GroupInv'
    BY <1>0, <1>4, SMT DEF GroupJoin, Inv, Shape, MainInv, GroupInv, Loop, NewEventLoop
  <2>6. LoopsInv'
    <3>0. ~Stopped' /\ ~Serving' /\ main' = "stop_group"
      BY <1>0, <2>8, SMT DEF Stopped, Serving
    <3>1. /\ \A i \in 1..group.i : Rests(i)
          /\ \A i \in group.i + 1 .. Len(m_loops) : Ends(i)
      BY <1>4, <2>8, SMT DEF GroupJoin, Inv, LoopsInv
    <3>2. CASE Loop <= Len(m_loops)
      <4>1. group'.at = "joining" /\ group'.i = Loop /\ ~GroupIdle'
        BY <1>4, <2>8, <2>9, <3>2, SMT DEF GroupJoin, Loop, GroupIdle
      <4>2. ASSUME NEW i \in 1..Loop PROVE Rests(i)'
        <5>1. CASE i = Loop
          BY <2>9, <2>10, <3>2, <5>1 DEF Rests
        <5>2. CASE i # Loop
          <6>1. i \in 1..group.i /\ i \in 1..Len(m_loops)
            BY <2>8, <3>2, <5>2, SMT DEF Loop
          <6> QED  BY <2>10, <3>1, <3>2, <5>2, <6>1 DEF Rests
        <5> QED  BY <5>1, <5>2
      <4>3. ASSUME NEW i \in Loop + 1 .. Len(m_loops) PROVE Ends(i)'
        <5>1. i \in group.i + 1 .. Len(m_loops) /\ i # Loop /\ i \in 1..Len(m_loops)
          BY <2>8, SMT DEF Loop
        <5> QED  BY <2>10, <3>1, <3>2, <5>1 DEF Ends
      <4> QED  BY <2>10, <3>0, <3>2, <4>1, <4>2, <4>3 DEF LoopsInv
    <3>3. CASE ~(Loop <= Len(m_loops))
      <4>1. group.i = Len(m_loops) /\ m_loops' = m_loops
        BY <1>4, <2>8, <3>3, SMT DEF GroupJoin, Loop
      <4>2. GroupIdle' /\ group'.at = "idle"
        BY <1>4, <3>3, SMT DEF GroupJoin, GroupIdle
      <4>3. AllRest'
        BY <3>1, <4>1 DEF AllRest, Rests
      <4> QED  BY <3>0, <4>2, <4>3 DEF LoopsInv
    <3> QED  BY <3>2, <3>3
  <2> QED  BY <2>1, <2>2, <2>3, <2>4, <2>5, <2>6 DEF Inv
<1> QED  BY <1>1, <1>2, <1>3, <1>4 DEF GroupGoesOn, GroupStep

(* The steps of the accept thread.                                         *)
LEMMA AcceptStepInv ==
  ASSUME Inv, AcceptStep
  PROVE  Inv'
<1>1. CASE AcceptTest
  <2>1. Shape'
    BY <1>1, ServerAssumption, SMT DEF AcceptTest, ownerVars, socketVars, acceptVars, groupVars, Inv, Shape
  <2>2. TypeInv'
    BY <1>1, ServerAssumption, SMT DEF AcceptTest, ownerVars, socketVars, acceptVars, groupVars, Inv, TypeInv
  <2>3. MainInv'
    BY <1>1, ServerAssumption, SMT DEF AcceptTest, ownerVars, socketVars, acceptVars, groupVars, Inv, Shape, TypeInv, MainInv, Stopped
  <2>4. AcceptInv'
    BY <1>1, ServerAssumption, SMT DEF AcceptTest, ownerVars, socketVars, acceptVars, groupVars, Inv, TypeInv, MainInv, AcceptInv, Serving
  <2>5. GroupInv'
    BY <1>1, ServerAssumption, SMT DEF AcceptTest, ownerVars, socketVars, acceptVars, groupVars, Inv, Shape, MainInv, GroupInv, GroupIdle
  <2>6. LoopsInv'
    BY <1>1, ServerAssumption, SMT DEF AcceptTest, ownerVars, socketVars, acceptVars, groupVars, Inv, MainInv, LoopsInv, GroupInv, AcceptInv, Serving, Stopped, AllRun, AllRest, Runs, Rests, Ends, GroupIdle
  <2> QED  BY <2>1, <2>2, <2>3, <2>4, <2>5, <2>6 DEF Inv
<1>2. CASE AcceptTakes
  <2>1. Shape'
    BY <1>2, ServerAssumption, SMT DEF AcceptTakes, ownerVars, socketVars, acceptVars, groupVars, Inv, Shape
  <2>2. TypeInv'
    BY <1>2, ServerAssumption, SMT DEF AcceptTakes, ownerVars, socketVars, acceptVars, groupVars, Inv, TypeInv
  <2>3. MainInv'
    BY <1>2, ServerAssumption, SMT DEF AcceptTakes, ownerVars, socketVars, acceptVars, groupVars, Inv, Shape, TypeInv, MainInv, Stopped
  <2>4. AcceptInv'
    BY <1>2, ServerAssumption, SMT DEF AcceptTakes, ownerVars, socketVars, acceptVars, groupVars, Inv, TypeInv, MainInv, AcceptInv, Serving
  <2>5. GroupInv'
    BY <1>2, ServerAssumption, SMT DEF AcceptTakes, ownerVars, socketVars, acceptVars, groupVars, Inv, Shape, MainInv, GroupInv, GroupIdle
  <2>6. LoopsInv'
    BY <1>2, ServerAssumption, SMT DEF AcceptTakes, ownerVars, socketVars, acceptVars, groupVars, Inv, MainInv, LoopsInv, GroupInv, AcceptInv, Serving, Stopped, AllRun, AllRest, Runs, Rests, Ends, GroupIdle
  <2> QED  BY <2>1, <2>2, <2>3, <2>4, <2>5, <2>6 DEF Inv
<1>3. CASE AcceptFails
  <2>1. Shape'
    BY <1>3, ServerAssumption, SMT DEF AcceptFails, ownerVars, socketVars, acceptVars, groupVars, Inv, Shape
  <2>2. TypeInv'
    BY <1>3, ServerAssumption, SMT DEF AcceptFails, ownerVars, socketVars, acceptVars, groupVars, Inv, TypeInv
  <2>3. MainInv'
    BY <1>3, ServerAssumption, SMT DEF AcceptFails, ownerVars, socketVars, acceptVars, groupVars, Inv, Shape, TypeInv, MainInv, Stopped
  <2>4. AcceptInv'
    BY <1>3, ServerAssumption, SMT DEF AcceptFails, ownerVars, socketVars, acceptVars, groupVars, Inv, TypeInv, MainInv, AcceptInv, Serving
  <2>5. GroupInv'
    BY <1>3, ServerAssumption, SMT DEF AcceptFails, ownerVars, socketVars, acceptVars, groupVars, Inv, Shape, MainInv, GroupInv, GroupIdle
  <2>6. LoopsInv'
    BY <1>3, ServerAssumption, SMT DEF AcceptFails, ownerVars, socketVars, acceptVars, groupVars, Inv, MainInv, LoopsInv, GroupInv, AcceptInv, Serving, Stopped, AllRun, AllRest, Runs, Rests, Ends, GroupIdle
  <2> QED  BY <2>1, <2>2, <2>3, <2>4, <2>5, <2>6 DEF Inv
<1>4. CASE Poll
  <2>1. Shape'
    BY <1>4, ServerAssumption, SMT DEF Poll, ownerVars, socketVars, acceptVars, groupVars, Inv, Shape
  <2>2. TypeInv'
    BY <1>4, ServerAssumption, SMT DEF Poll, ownerVars, socketVars, acceptVars, groupVars, Inv, TypeInv
  <2>3. MainInv'
    BY <1>4, ServerAssumption, SMT DEF Poll, ownerVars, socketVars, acceptVars, groupVars, Inv, Shape, TypeInv, MainInv, Stopped
  <2>4. AcceptInv'
    BY <1>4, ServerAssumption, SMT DEF Poll, ownerVars, socketVars, acceptVars, groupVars, Inv, TypeInv, MainInv, AcceptInv, Serving
  <2>5. GroupInv'
    BY <1>4, ServerAssumption, SMT DEF Poll, ownerVars, socketVars, acceptVars, groupVars, Inv, Shape, MainInv, GroupInv, GroupIdle
  <2>6. LoopsInv'
    BY <1>4, ServerAssumption, SMT DEF Poll, ownerVars, socketVars, acceptVars, groupVars, Inv, MainInv, LoopsInv, GroupInv, AcceptInv, Serving, Stopped, AllRun, AllRest, Runs, Rests, Ends, GroupIdle
  <2> QED  BY <2>1, <2>2, <2>3, <2>4, <2>5, <2>6 DEF Inv
<1>5. CASE ChooseLoop
  <2>0. /\ UNCHANGED <<m_state, main, listening, backlog, fresh, stream, m_loop_num>>
        /\ m_loop_num \in 1..MaxLoops /\ Serving /\ accept' = "create"
        /\ given \in Seq(Nat) /\ Len(given) = m_loop_num
    BY <1>5, SMT DEF ChooseLoop, ownerVars, socketVars, Inv, TypeInv, MainInv, AcceptInv, Serving, Stopped
  <2>7. target' \in 1..m_loop_num /\ target' \in 1..MaxLoops
    <3>1. m_loop_num \in Nat \ {0} /\ m_next_loop_index \in Nat /\ MaxLoops \in Nat
      BY <2>0, ServerAssumption, SMT DEF Inv, TypeInv
    <3>2. m_next_loop_index % m_loop_num \in 0..m_loop_num - 1
      BY <3>1, SMT
    <3>3. target' = (m_next_loop_index % m_loop_num) + 1
      BY <1>5 DEF ChooseLoop
    <3> QED  BY <2>0, <3>1, <3>2, <3>3, SMT
  <2>8. m_next_loop_index' \in 0..IndexRange - 1
    <3>1. m_next_loop_index' = (m_next_loop_index + 1) % IndexRange
      BY <1>5 DEF ChooseLoop, NextIndex
    <3>2. m_next_loop_index + 1 \in Nat /\ IndexRange \in Nat \ {0}
      BY ServerAssumption, SMT DEF Inv, TypeInv
    <3> QED  BY <3>1, <3>2, SMT
  <2>9. given' \in Seq(Nat) /\ Len(given') = m_loop_num
    <3>1. given' = [given EXCEPT ![target'] = given[target'] + 1]
      BY <1>5 DEF ChooseLoop
    <3>2. target' \in 1..Len(given)
      BY <2>0, <2>7
    <3> QED  BY <2>0, <3>1, <3>2, SMT
  <2>1. Shape'
    BY <1>5, ServerAssumption, SMT DEF ChooseLoop, ownerVars, socketVars, acceptVars, groupVars, NextIndex, Inv, Shape
  <2>2. TypeInv'
    BY <2>0, <2>7, <2>8, <2>9 DEF Inv, TypeInv
  <2>3. MainInv'
    BY <1>5, ServerAssumption, SMT DEF ChooseLoop, ownerVars, socketVars, acceptVars, groupVars, NextIndex, Inv, Shape, TypeInv, MainInv, Stopped
  <2>4. AcceptInv'
    BY <2>0, <2>7, <2>9 DEF Inv, AcceptInv, Serving
  <2>5. GroupInv'
    BY <1>5, ServerAssumption, SMT DEF ChooseLoop, ownerVars, socketVars, acceptVars, groupVars, NextIndex, Inv, Shape, MainInv, GroupInv, GroupIdle
  <2>6. LoopsInv'
    BY <1>5, ServerAssumption, SMT DEF ChooseLoop, ownerVars, socketVars, acceptVars, groupVars, NextIndex, Inv, MainInv, LoopsInv, GroupInv, AcceptInv, Serving, Stopped, AllRun, AllRest, Runs, Rests, Ends, GroupIdle
  <2> QED  BY <2>1, <2>2, <2>3, <2>4, <2>5, <2>6 DEF Inv
<1>6. CASE CreateHandler
  <2>0. /\ accept = "create" /\ accept' = "test" /\ stream' = {}
        /\ stream \subseteq Connections /\ m_loops \in Seq(LoopRecord)
        /\ Serving /\ AllRun /\ target \in 1..Len(m_loops)
        /\ UNCHANGED <<m_state, main, listening, backlog, fresh, target, m_next_loop_index,
                       given, m_loop_num, new_loops, group>>
    BY <1>6, SMT DEF CreateHandler, RegisterWith, ownerVars, socketVars, groupVars, Inv, Shape,
       TypeInv, AcceptInv, LoopsInv, AllRun
  <2>1. /\ m_loops' \in Seq(LoopRecord) /\ Len(m_loops') = Len(m_loops)
        /\ \A j \in 1..Len(m_loops) : Runs(j)'
    <3>1. CASE UNCHANGED groupVars
      BY <2>0, <3>1, SMT DEF groupVars, AllRun, Runs
    <3>2. CASE \E c \in stream : RegisterWith(target, c)
      <4>1. PICK c \in stream : RegisterWith(target, c)
        BY <3>2
      <4> DEFINE r == [m_loops[target] EXCEPT !.handlers = @ \cup {c}]
      <4>2. m_loops[target] \in LoopRecord /\ Runs(target)
        BY <2>0, SMT DEF AllRun
      <4>3. r \in LoopRecord /\ r.state = "STARTED" /\ r.thread = "running"
        BY <2>0, <4>2, SMT DEF LoopRecord, Runs
      <4>4. m_loops' = [m_loops EXCEPT ![target] = r]
        BY <4>1, SMT DEF RegisterWith
      <4>5. /\ m_loops' \in Seq(LoopRecord) /\ Len(m_loops') = Len(m_loops)
            /\ m_loops'[target] = r
            /\ \A j \in 1..Len(m_loops) : j # target => m_loops'[j] = m_loops[j]
        BY <2>0, <4>3, <4>4, LoopUpdated DEF Inv
      <4>6. ASSUME NEW j \in 1..Len(m_loops) PROVE Runs(j)'
        <5>1. CASE j = target
          BY <4>3, <4>5, <5>1 DEF Runs
        <5>2. CASE j # target
          BY <2>0, <4>5, <5>2 DEF Runs, AllRun
        <5> QED  BY <5>1, <5>2
      <4> QED  BY <4>5, <4>6
    <3> QED  BY <1>6, <3>1, <3>2 DEF CreateHandler
  <2>2. Shape' /\ TypeInv'
    BY <2>0, <2>1, SMT DEF Inv, Shape, TypeInv
  <2>3. MainInv' /\ AcceptInv' /\ GroupInv'
    BY <2>0, <2>1, SMT DEF Inv, MainInv, AcceptInv, GroupInv, Serving, Stopped
  <2>4. AllRun'
    BY <2>0, <2>1 DEF AllRun
  <2>5. LoopsInv'
    BY <2>0, <2>4, SMT DEF Inv, LoopsInv, MainInv, Serving, Stopped
  <2> QED  BY <2>2, <2>3, <2>5 DEF Inv
<1> QED  BY <1>1, <1>2, <1>3, <1>4, <1>5, <1>6 DEF AcceptStep

(* The steps of the loops' threads: only a stopping loop's thread exits,   *)
(* and a handler that unregisters leaves the loop's state alone.           *)
LEMMA LoopThreadsInv ==
  ASSUME Inv, LoopThreads
  PROVE  Inv'
<1>1. PICK i \in 1..Len(m_loops) :
        LoopExits(i) \/ \E c \in m_loops[i].handlers : LoopCloses(i, c)
  BY DEF LoopThreads
<1> DEFINE Same(r) == r.state = m_loops[i].state /\ r.thread = m_loops[i].thread
           Left(r) == /\ m_loops[i].state = "STOPPING" /\ r.state = "STOPPING"
                      /\ r.thread = "exited"
<1>2. /\ UNCHANGED <<m_state, main, listening, backlog, fresh, accept, stream, target,
                     m_next_loop_index, given, m_loop_num, new_loops, group>>
      /\ m_loops[i] \in LoopRecord
  BY <1>1, SMT DEF LoopThreads, LoopExits, LoopCloses, ownerVars, socketVars, acceptVars, Inv, Shape
<1>3. PICK r \in LoopRecord : m_loops' = [m_loops EXCEPT ![i] = r] /\ (Same(r) \/ Left(r))
  <2>1. CASE LoopExits(i)
    <3> DEFINE r == [m_loops[i] EXCEPT !.thread = "exited"]
    <3>1. r \in LoopRecord /\ Left(r)
      BY <1>2, <2>1, SMT DEF LoopExits, LoopRecord
    <3>2. m_loops' = [m_loops EXCEPT ![i] = r]
      BY <2>1, SMT DEF LoopExits
    <3> QED  BY <3>1, <3>2
  <2>2. ASSUME NEW c \in m_loops[i].handlers, LoopCloses(i, c)
        PROVE  \E r \in LoopRecord : m_loops' = [m_loops EXCEPT ![i] = r] /\ Same(r)
    <3> DEFINE r == [m_loops[i] EXCEPT !.handlers = @ \ {c}]
    <3>1. r \in LoopRecord /\ Same(r)
      BY <1>2, SMT DEF LoopRecord
    <3>2. m_loops' = [m_loops EXCEPT ![i] = r]
      BY <2>2, SMT DEF LoopCloses
    <3> QED  BY <3>1, <3>2
  <2> QED  BY <1>1, <2>1, <2>2
<1>4. /\ m_loops' \in Seq(LoopRecord) /\ Len(m_loops') = Len(m_loops)
      /\ m_loops'[i] = r
      /\ \A j \in 1..Len(m_loops) : j # i => m_loops'[j] = m_loops[j]
  BY <1>3, LoopUpdated DEF Inv
<1>5. ASSUME NEW j \in 1..Len(m_loops)
      PROVE  (Runs(j) => Runs(j)') /\ (Ends(j) => Ends(j)') /\ (Rests(j) => Rests(j)')
  <2>1. CASE j = i
    BY <1>3, <1>4, <2>1, SMT DEF Runs, Ends, Rests
  <2>2. CASE j # i
    BY <1>4, <2>2 DEF Runs, Ends, Rests
  <2> QED  BY <2>1, <2>2
<1>6. Shape' /\ TypeInv'
  BY <1>2, <1>4, SMT DEF Inv, Shape, TypeInv
<1>7. MainInv' /\ AcceptInv' /\ GroupInv'
  BY <1>2, <1>4, SMT DEF Inv, MainInv, AcceptInv, GroupInv, Serving, Stopped
<1>8. (AllRun => AllRun') /\ (AllRest => AllRest')
  BY <1>2, <1>4, <1>5 DEF AllRun, AllRest
<1>9. LoopsInv'
  <2>1. /\ Serving' = Serving /\ Stopped' = Stopped /\ GroupIdle' = GroupIdle
        /\ main' = main /\ group' = group
    BY <1>2 DEF Serving, Stopped, GroupIdle
  <2>2. ASSUME main = "stop_group", group.at = "stopping"
        PROVE  /\ \A k \in 1..group.i : Ends(k)'
               /\ \A k \in group.i + 1 .. Len(m_loops) : Runs(k)'
    <3>1. group.i \in Nat /\ group.i <= Len(m_loops) /\ Len(m_loops) \in Nat
      BY <2>2, SMT DEF Inv, Shape, GroupInv
    <3>2. 1..group.i \subseteq 1..Len(m_loops) /\ group.i + 1 .. Len(m_loops) \subseteq 1..Len(m_loops)
      BY <3>1, SMT
    <3> QED  BY <1>5, <2>2, <3>2 DEF Inv, LoopsInv
  <2>3. ASSUME main = "stop_group", group.at = "joining"
        PROVE  /\ \A k \in 1..group.i : Rests(k)'
               /\ \A k \in group.i + 1 .. Len(m_loops) : Ends(k)'
    <3>1. group.i \in Nat /\ group.i <= Len(m_loops) /\ Len(m_loops) \in Nat
      BY <2>3, SMT DEF Inv, Shape, GroupInv
    <3>2. 1..group.i \subseteq 1..Len(m_loops) /\ group.i + 1 .. Len(m_loops) \subseteq 1..Len(m_loops)
      BY <3>1, SMT
    <3> QED  BY <1>5, <2>3, <3>2 DEF Inv, LoopsInv
  <2> QED  BY <1>4, <1>8, <2>1, <2>2, <2>3 DEF Inv, LoopsInv
<1> QED  BY <1>6, <1>7, <1>9 DEF Inv

LEMMA ClientConnectsInv ==
  ASSUME Inv, NEW c \in Connections, ClientConnects(c)
  PROVE  Inv'
<1>1. /\ UNCHANGED <<m_state, main, listening, accept, stream, target, m_next_loop_index,
                     given, m_loop_num, m_loops, new_loops, group>>
      /\ listening /\ fresh' \subseteq Connections
      /\ backlog' \in Seq(Connections) /\ Len(backlog') <= Backlog
  BY ServerAssumption, SMT DEF ClientConnects, ownerVars, acceptVars, groupVars, Inv, TypeInv
<1>2. Shape' /\ TypeInv' /\ AcceptInv' /\ GroupInv'
  BY <1>1, SMT DEF Inv, Shape, TypeInv, AcceptInv, GroupInv, Serving
<1>3. MainInv'
  BY <1>1, SMT DEF Inv, MainInv, Stopped
<1>4. LoopsInv'
  BY <1>1 DEF Inv, LoopsInv, Serving, Stopped, GroupIdle, AllRun, AllRest, Runs, Ends, Rests
<1> QED  BY <1>2, <1>3, <1>4 DEF Inv

-----------------------------------------------------------------------------
LEMMA NextInv == Inv /\ [Next]_vars => Inv'
<1> SUFFICES ASSUME Inv, [Next]_vars PROVE Inv'
  OBVIOUS
<1>1. CASE \E n \in 1..MaxLoops : Start(n)
  BY <1>1, StartInv
<1>2. CASE OwnerGoesOn \/ Stop \/ Destroy
  BY <1>2, OwnerInv, GroupGoesOnInv DEF OwnerGoesOn
<1>3. CASE AcceptStep
  BY <1>3, AcceptStepInv
<1>4. CASE LoopThreads
  BY <1>4, LoopThreadsInv
<1>5. CASE \E c \in Connections : ClientConnects(c)
  BY <1>5, ClientConnectsInv
<1>6. CASE UNCHANGED vars
  BY <1>6 DEF vars, ownerVars, socketVars, acceptVars, groupVars, Inv, Shape, TypeInv, MainInv,
     AcceptInv, GroupInv, LoopsInv, Serving, Stopped, GroupIdle, AllRun, AllRest, Runs, Ends, Rests
<1> QED  BY <1>1, <1>2, <1>3, <1>4, <1>5, <1>6 DEF Next

LEMMA Invariance == Spec => []Inv
  BY InitInv, NextInv, PTL DEF Spec, Safety

(* Every variable has its type; in particular the backlog is never longer  *)
(* than listen allows and there are never more than work_thread_num loops. *)
THEOREM TypeCorrect == Spec => []TypeOK
<1>1. Inv => TypeOK
  <2> SUFFICES ASSUME Inv PROVE TypeOK
    OBVIOUS
  <2>1. GroupTypeOK(Connections, MaxLoops)
    <3>1. /\ m_loops \in Seq(LoopRecord) /\ new_loops \in Seq(LoopRecord)
          /\ Len(m_loops) <= MaxLoops
          /\ group.at \in {"idle", "starting", "stopping", "joining"}
      BY SMT DEF Inv, Shape, MainInv
    <3>2. group.i \in 0..MaxLoops
      BY ServerAssumption, SMT DEF Inv, Shape, MainInv, GroupInv
    <3> QED  BY <3>1, <3>2 DEF GroupTypeOK, LoopRecord
  <2>2. m_loop_num \in 0..MaxLoops /\ \A i \in 1..Len(given) : given[i] \in Nat
    BY SMT DEF Inv, MainInv, TypeInv
  <2> QED  BY <2>1, <2>2 DEF Inv, TypeInv, TypeOK
<1> QED  BY <1>1, Invariance, PTL

(* The accept thread gives a connection only to a loop that runs, by an    *)
(* index the group has, and waits only on a socket that is open.           *)
THEOREM AcceptThreadIsSafe == Spec => []AcceptThreadSafe
<1>1. Inv => AcceptThreadSafe
  <2> SUFFICES ASSUME Inv PROVE AcceptThreadSafe
    OBVIOUS
  <2>1. ASSUME accept \in {"choose", "create"}
        PROVE  m_loop_num = Len(m_loops) /\ \A i \in 1..m_loop_num : MayRegister(i)
    <3>1. AllRun
      BY <2>1, SMT DEF Inv, AcceptInv, LoopsInv
    <3> QED  BY <3>1 DEF AllRun, Runs, MayRegister
  <2>2. accept \notin {"none", "exited"} => listening
    BY SMT DEF Inv, AcceptInv, MainInv, Serving, Stopped
  <2> QED  BY <2>1, <2>2 DEF Inv, AcceptInv, AcceptThreadSafe
<1> QED  BY <1>1, Invariance, PTL

(* A stopped server has no thread, no socket and nothing half accepted.    *)
THEOREM StopLeavesQuiet == Spec => []StoppedQuiet
<1>1. Inv => StoppedQuiet
  <2> SUFFICES ASSUME Inv, Stopped PROVE StoppedQuiet
    BY DEF StoppedQuiet, Stopped
  <2>1. accept = "none" /\ stream = {} /\ ~listening /\ backlog = << >>
    BY SMT DEF Inv, AcceptInv, MainInv, Serving, Stopped
  <2>2. GroupQuiet
    BY SMT DEF Inv, GroupInv, LoopsInv, AllRest, Rests, Stopped, GroupQuiet
  <2> QED  BY <2>1, <2>2 DEF StoppedQuiet
<1> QED  BY <1>1, Invariance, PTL

-----------------------------------------------------------------------------
(* The remainder of a number and of its successor.                         *)
LEMMA DivMod ==
  ASSUME NEW n \in Nat \ {0}, NEW x \in Nat
  PROVE  x = n * (x \div n) + (x % n) /\ x \div n \in Nat /\ x % n \in 0..n - 1
  BY SMT

LEMMA ModUnique ==
  ASSUME NEW n \in Nat \ {0}, NEW q \in Nat, NEW r \in 0..n - 1
  PROVE  (n * q + r) % n = r
  BY SMTT(30)

LEMMA ModSucc ==
  ASSUME NEW n \in Nat \ {0}, NEW x \in Nat
  PROVE  (x + 1) % n = IF x % n = n - 1 THEN 0 ELSE (x % n) + 1
<1> DEFINE q == x \div n
           r == x % n
<1>1. x = n * q + r /\ q \in Nat /\ r \in 0..n - 1
  BY DivMod
<1> HIDE DEF q, r
<1>2. CASE r = n - 1
  <2>1. n * (q + 1) = n * q + n
    BY <1>1, SMT
  <2>2. x + 1 = n * (q + 1) + 0 /\ q + 1 \in Nat /\ 0 \in 0..n - 1
    BY <1>1, <1>2, <2>1, SMT
  <2>3. (n * (q + 1) + 0) % n = 0
    BY <2>2, ModUnique
  <2> QED  BY <1>2, <2>2, <2>3 DEF r
<1>3. CASE r # n - 1
  <2>1. n * q \in Nat
    BY <1>1, SMT
  <2>2. x + 1 = n * q + (r + 1) /\ r + 1 \in 0..n - 1
    BY <1>1, <1>3, <2>1, SMT
  <2>3. (n * q + (r + 1)) % n = r + 1
    BY <1>1, <2>2, ModUnique
  <2> QED  BY <1>3, <2>2, <2>3 DEF r
<1> QED  BY <1>2, <1>3

(* The index counts the loops round, also where it wraps itself.           *)
LEMMA IndexGoesRound ==
  ASSUME NEW n \in Nat \ {0}, IndexRange % n = 0, NEW x \in 0..IndexRange - 1
  PROVE  NextIndex(x) % n = IF x % n = n - 1 THEN 0 ELSE (x % n) + 1
<1>0. IndexRange \in Nat \ {0} /\ x \in Nat
  BY ServerAssumption, SMT
<1>1. CASE x + 1 < IndexRange
  <2>1. x + 1 \in 0..IndexRange - 1
    BY <1>0, <1>1, SMT
  <2>2. (x + 1) % IndexRange = x + 1
    <3>1. IndexRange * 0 + (x + 1) = x + 1
      BY <1>0, <2>1, SMT
    <3>2. (IndexRange * 0 + (x + 1)) % IndexRange = x + 1
      BY <1>0, <2>1, ModUnique, SMT
    <3> QED  BY <3>1, <3>2
  <2> QED  BY <1>0, <2>2, ModSucc DEF NextIndex
<1>2. CASE x + 1 = IndexRange
  <2>1. (x + 1) % IndexRange = 0
    <3>1. IndexRange * 1 + 0 = IndexRange /\ 0 \in 0..IndexRange - 1
      BY <1>0, SMT
    <3>2. (IndexRange * 1 + 0) % IndexRange = 0
      BY <1>0, <3>1, ModUnique, SMT
    <3> QED  BY <1>2, <3>1, <3>2
  <2>2. 0 % n = 0
    <3>1. n * 0 + 0 = 0 /\ 0 \in 0..n - 1
      BY SMT
    <3>2. (n * 0 + 0) % n = 0
      BY <3>1, ModUnique, SMT
    <3> QED  BY <3>1, <3>2
  <2>3. (x + 1) % n = 0
    BY <1>2
  <2>4. x % n = n - 1
    <3>1. (x % n) + 1 # 0
      BY <1>0, DivMod, SMT
    <3> QED  BY <1>0, <2>3, <3>1, ModSucc
  <2> QED  BY <2>1, <2>2, <2>4 DEF NextIndex
<1> QED  BY <1>0, <1>1, <1>2, SMT

(* The loops chosen once more than the others are those from the one that  *)
(* the thread began with up to the one that is next, round the end.        *)
Ahead(k, first, next) == IF first <= next THEN first <= k /\ k < next
                         ELSE first <= k \/ k < next

Count(k, first, next, g) == IF Ahead(k, first, next) THEN g + 1 ELSE g

Turn(first, g) ==
  \A i \in 1..m_loop_num :
    given[i] = Count(i - 1, first, m_next_loop_index % m_loop_num, g)

TurnInv ==
  accept # "none" /\ IndexRange % m_loop_num = 0 =>
    \E first \in 0..m_loop_num - 1, g \in Nat : Turn(first, g)

LEMMA ChooseTurn ==
  ASSUME Inv, TurnInv, ChooseLoop, IndexRange % m_loop_num = 0
  PROVE  TurnInv'
<1> DEFINE n == m_loop_num
           next == m_next_loop_index % n
           next2 == IF next = n - 1 THEN 0 ELSE next + 1
<1>1. /\ accept = "choose" /\ m_loop_num' = m_loop_num
      /\ given' = [given EXCEPT ![next + 1] = @ + 1]
      /\ m_next_loop_index' = NextIndex(m_next_loop_index)
  BY DEF ChooseLoop
<1>2. /\ n \in Nat \ {0} /\ given \in Seq(Nat) /\ Len(given) = n
      /\ m_next_loop_index \in 0..IndexRange - 1 /\ m_next_loop_index \in Nat
  BY <1>1, ServerAssumption, SMT DEF Inv, AcceptInv, MainInv, TypeInv, Serving, Stopped
<1>3. next \in 0..n - 1 /\ next2 \in 0..n - 1 /\ m_next_loop_index' % n = next2
  <2>1. next \in 0..n - 1
    BY <1>2, DivMod
  <2>2. m_next_loop_index' % n = next2
    BY <1>1, <1>2, IndexGoesRound
  <2>3. next2 \in 0..n - 1
    BY <1>2, <2>1, SMT
  <2> QED  BY <2>1, <2>2, <2>3
<1>4. PICK first \in 0..n - 1, g \in Nat : Turn(first, g)
  BY <1>1 DEF TurnInv
<1> HIDE DEF n, next, next2
<1>5. ASSUME NEW i \in 1..n
      PROVE  /\ i - 1 \in 0..n - 1
             /\ given[i] = Count(i - 1, first, next, g)
             /\ given'[i] = IF i - 1 = next THEN 1 + given[i] ELSE given[i]
  <2>1. i - 1 \in 0..n - 1
    BY <1>2, SMT
  <2>2. given[i] = Count(i - 1, first, next, g)
    BY <1>4 DEF Turn, n, next
  <2>3. given'[i] = IF i - 1 = next THEN 1 + given[i] ELSE given[i]
    <3>1. given' = [given EXCEPT ![next + 1] = @ + 1]
      BY <1>1 DEF next, n
    <3>2. DOMAIN given = 1..n /\ given[i] \in Nat
      BY <1>2, SMT
    <3>3. given'[i] = IF i = next + 1 THEN given[i] + 1 ELSE given[i]
      BY <3>1, <3>2
    <3>4. i - 1 = next <=> i = next + 1
      BY <1>2, <1>3, SMT
    <3>5. given[i] + 1 = 1 + given[i]
      BY <3>2, SMT
    <3> QED  BY <3>3, <3>4, <3>5
  <2> QED  BY <2>1, <2>2, <2>3
<1>6. \A k \in 0..n - 1 :
        (IF k = next THEN 1 + Count(k, first, next, g) ELSE Count(k, first, next, g))
        = IF next2 = first THEN g + 1 ELSE Count(k, first, next2, g)
  <2>1. next2 = IF next = n - 1 THEN 0 ELSE next + 1
    BY DEF next2
  <2>2. first \in 0..n - 1 /\ g \in Nat
    BY <1>4 DEF n
  <2>3. n \in Nat \ {0} /\ next \in 0..n - 1 /\ next2 \in 0..n - 1
    BY <1>2, <1>3
  <2>4. next \in Int /\ next2 \in Int /\ first \in Int
    BY <2>2, <2>3, SMT
  <2> QED  BY <2>1, <2>2, <2>3, <2>4, SMT DEF Ahead, Count
<1>7. \A i \in 1..n :
        given'[i] = IF next2 = first THEN g + 1 ELSE Count(i - 1, first, next2, g)
  BY <1>5, <1>6
<1>8. CASE next2 = first
  <2>1. \A k : ~Ahead(k, first, next2) \/ k \notin Int
    BY <1>2, <1>3, <1>4, <1>8, SMT DEF Ahead
  <2>2. \A i \in 1..n : i - 1 \in Int
    BY <1>2, SMT
  <2>3. \A i \in 1..n : given'[i] = Count(i - 1, first, next2, g + 1)
    BY <1>7, <1>8, <2>1, <2>2 DEF Count
  <2>4. g + 1 \in Nat
    BY <1>4, SMT
  <2>5. Turn(first, g + 1)'
    BY <1>1, <1>3, <2>3 DEF Turn, n
  <2> QED  BY <1>1, <1>4, <2>4, <2>5 DEF TurnInv, n
<1>9. CASE next2 # first
  <2>1. Turn(first, g)'
    BY <1>1, <1>3, <1>7, <1>9 DEF Turn, n
  <2> QED  BY <1>1, <1>4, <2>1 DEF TurnInv, n
<1> QED  BY <1>8, <1>9

LEMMA TurnNext == Inv /\ TurnInv /\ [Next]_vars => TurnInv'
<1> SUFFICES ASSUME Inv, TurnInv, [Next]_vars PROVE TurnInv'
  OBVIOUS
<1>1. CASE UNCHANGED <<given, m_next_loop_index, m_loop_num>> /\ accept # "none"
  BY <1>1 DEF TurnInv, Turn
<1>2. CASE (\E n \in 1..MaxLoops : Start(n)) \/ Destroy
  BY <1>2 DEF Start, Destroy, acceptVars, Inv, AcceptInv, Serving, TurnInv
<1>3. CASE StartThread
  <2>1. /\ m_loop_num \in Nat \ {0} /\ m_next_loop_index \in Nat
        /\ given' = [i \in 1..m_loop_num |-> 0] /\ UNCHANGED <<m_next_loop_index, m_loop_num>>
    BY <1>3, ServerAssumption, SMT DEF StartThread, Inv, MainInv, TypeInv, Stopped
  <2> DEFINE next == m_next_loop_index % m_loop_num
  <2>2. next \in 0..m_loop_num - 1
    BY <2>1, DivMod
  <2>3. ASSUME NEW i \in 1..m_loop_num PROVE ~Ahead(i - 1, next, next)
    BY <2>1, <2>2, SMT DEF Ahead
  <2>4. Turn(next, 0)'
    BY <2>1, <2>3 DEF Turn, Count
  <2> QED  BY <2>1, <2>2, <2>4 DEF TurnInv
<1>4. CASE JoinAccept
  BY <1>4 DEF JoinAccept, TurnInv
<1>5. CASE ChooseLoop
  <2>1. CASE IndexRange % m_loop_num = 0
    BY <1>5, <2>1, ChooseTurn
  <2>2. CASE IndexRange % m_loop_num # 0
    BY <1>5, <2>2 DEF ChooseLoop, TurnInv
  <2> QED  BY <2>1, <2>2
<1>6. CASE SetStarted \/ Stop \/ CloseAcceptor \/ GroupGoesOn
  BY <1>6 DEF SetStarted, Stop, CloseAcceptor, GroupGoesOn, acceptVars, TurnInv, Turn
<1>7. CASE AcceptTest \/ AcceptTakes \/ AcceptFails \/ Poll \/ CreateHandler
  BY <1>1, <1>7 DEF AcceptTest, AcceptTakes, AcceptFails, Poll, CreateHandler
<1>8. CASE LoopThreads \/ (\E c \in Connections : ClientConnects(c)) \/ UNCHANGED vars
  BY <1>8 DEF LoopThreads, ClientConnects, vars, acceptVars, TurnInv, Turn
<1> QED  BY <1>2, <1>3, <1>4, <1>5, <1>6, <1>7, <1>8 DEF Next, OwnerGoesOn, AcceptStep

(* The loops are chosen equally often, up to one, in every run of the      *)
(* server, wherever the index stands when it begins and also where it      *)
(* wraps, as long as the range of the index is a multiple of their number  *)
(* (tcp_server.cpp:88).                                                    *)
THEOREM LoopsAreBalanced == Spec => []Balanced
<1>1. Inv /\ TurnInv => Balanced
  <2> SUFFICES ASSUME TurnInv, accept # "none", IndexRange % m_loop_num = 0,
                      NEW i \in 1..m_loop_num, NEW j \in 1..m_loop_num
               PROVE  given[i] <= given[j] + 1
    BY DEF Balanced
  <2>1. PICK first \in 0..m_loop_num - 1, g \in Nat : Turn(first, g)
    BY DEF TurnInv
  <2>2. given[i] \in {g, g + 1} /\ given[j] \in {g, g + 1}
    BY <2>1 DEF Turn, Count
  <2> QED  BY <2>1, <2>2, SMT
<1>2. Init => TurnInv
  BY DEF Init, TurnInv
<1> QED  BY <1>1, <1>2, TurnNext, Invariance, PTL DEF Spec, Safety

-----------------------------------------------------------------------------
(* A connection has one owner at a time on its way through TcpServer: the  *)
(* client, the backlog, the accept thread's local stream, or the handler   *)
(* in the map of one loop.                                                 *)
(*                                                                         *)
(* The invariant OwnInv spells out OneOwner for single positions and adds  *)
(* what keeps it: a connection that nobody has made yet is nowhere, and    *)
(* loops that are being started are empty.                                 *)


BacklogInv ==
  /\ \A i \in 1..Len(backlog) : backlog[i] \notin stream \cup fresh
  /\ \A i, j \in 1..Len(backlog) : backlog[i] = backlog[j] => i = j
  /\ stream \cap fresh = {}

HandlersInv ==
  /\ \A k \in 1..Len(m_loops) : \A c \in m_loops[k].handlers :
       /\ c \notin stream \cup fresh
       /\ \A i \in 1..Len(backlog) : backlog[i] # c
  /\ \A k, l \in 1..Len(m_loops) :
       k # l => m_loops[k].handlers \cap m_loops[l].handlers = {}
  /\ \A k \in 1..Len(new_loops) : new_loops[k].handlers = {}

OwnInv == BacklogInv /\ HandlersInv

-----------------------------------------------------------------------------
LEMMA OwnInit == Init => OwnInv
<1> SUFFICES ASSUME Init PROVE OwnInv
  OBVIOUS
<1>1. Len(<< >>) = 0 /\ 1..0 = {}
  BY SMT
<1>2. backlog = << >> /\ m_loops = << >> /\ new_loops = << >> /\ stream = {}
  BY DEF Init, InitGroup
<1> QED  BY <1>1, <1>2 DEF OwnInv, BacklogInv, HandlersInv

(* Handlers may leave loops, or nothing may happen to connections at all.  *)
LEMMA LoopsLose ==
  ASSUME OwnInv, UNCHANGED <<backlog, stream, fresh, new_loops>>,
         Len(m_loops') = Len(m_loops),
         \A k \in 1..Len(m_loops) : m_loops'[k].handlers \subseteq m_loops[k].handlers
  PROVE  OwnInv'
<1>1. BacklogInv'
  BY DEF OwnInv, BacklogInv
<1>2. HandlersInv'
  <2>1. \A k \in 1..Len(m_loops') : \A c \in m_loops'[k].handlers :
          /\ c \notin stream' \cup fresh'
          /\ \A i \in 1..Len(backlog') : backlog'[i] # c
    BY DEF OwnInv, HandlersInv
  <2>2. \A k, l \in 1..Len(m_loops') :
          k # l => m_loops'[k].handlers \cap m_loops'[l].handlers = {}
    BY DEF OwnInv, HandlersInv
  <2> QED  BY <2>1, <2>2 DEF OwnInv, HandlersInv
<1> QED  BY <1>1, <1>2 DEF OwnInv

(* A step of the accept thread takes the head of the backlog.              *)
LEMMA TakesKeeps ==
  ASSUME Inv, OwnInv, AcceptTakes
  PROVE  OwnInv'
<1>1. /\ stream = {} /\ backlog \in Seq(Connections) /\ backlog # << >>
      /\ stream' = {Head(backlog)} /\ backlog' = Tail(backlog)
      /\ UNCHANGED <<fresh, m_loops, new_loops>>
  BY DEF AcceptTakes, Inv, AcceptInv, TypeInv, groupVars
<1>2. /\ Len(backlog) \in Nat \ {0} /\ Head(backlog) = backlog[1]
      /\ Len(Tail(backlog)) = Len(backlog) - 1
      /\ \A i \in 1..Len(Tail(backlog)) : Tail(backlog)[i] = backlog[i + 1]
  BY <1>1, SMT
<1>3. \A i \in 1..Len(backlog') : /\ i + 1 \in 1..Len(backlog) /\ i + 1 # 1
                                  /\ backlog'[i] = backlog[i + 1]
  BY <1>1, <1>2, SMT
<1>4. 1 \in 1..Len(backlog)
  BY <1>2, SMT
<1>5. BacklogInv'
  <2>1. ASSUME NEW i \in 1..Len(backlog') PROVE backlog'[i] \notin stream' \cup fresh'
    BY <1>1, <1>2, <1>3, <1>4 DEF OwnInv, BacklogInv
  <2>2. ASSUME NEW i \in 1..Len(backlog'), NEW j \in 1..Len(backlog'), backlog'[i] = backlog'[j]
        PROVE  i = j
    <3>1. i + 1 = j + 1
      BY <1>3, <2>2 DEF OwnInv, BacklogInv
    <3> QED  BY <1>1, <1>2, <3>1, SMT
  <2>3. stream' \cap fresh' = {}
    BY <1>1, <1>2, <1>4 DEF OwnInv, BacklogInv
  <2> QED  BY <2>1, <2>2, <2>3 DEF BacklogInv
<1>6. HandlersInv'
  BY <1>1, <1>2, <1>3, <1>4 DEF OwnInv, HandlersInv
<1> QED  BY <1>5, <1>6 DEF OwnInv

(* The handler of the connection in hand is registered with one loop.      *)
LEMMA CreateKeeps ==
  ASSUME Inv, OwnInv, CreateHandler
  PROVE  OwnInv'
<1>1. /\ m_loops \in Seq(LoopRecord) /\ target \in 1..Len(m_loops) /\ stream' = {}
      /\ UNCHANGED <<backlog, fresh, new_loops>>
  BY SMT DEF CreateHandler, RegisterWith, socketVars, groupVars, Inv, Shape, AcceptInv, LoopsInv, AllRun
<1>2. BacklogInv'
  BY <1>1 DEF OwnInv, BacklogInv
<1>3. CASE UNCHANGED groupVars
  BY <1>1, <1>2, <1>3 DEF groupVars, OwnInv, HandlersInv
<1>4. CASE \E c \in stream : RegisterWith(target, c)
  <2>1. PICK c \in stream : RegisterWith(target, c)
    BY <1>4
  <2>2. /\ Len(m_loops') = Len(m_loops)
        /\ m_loops'[target].handlers = m_loops[target].handlers \cup {c}
        /\ \A k \in 1..Len(m_loops) : k # target => m_loops'[k].handlers = m_loops[k].handlers
    <3> DEFINE r == [m_loops[target] EXCEPT !.handlers = @ \cup {c}]
    <3>1. m_loops[target] \in LoopRecord
      BY <1>1, SMT
    <3>2. c \in Connections
      BY <2>1 DEF Inv, TypeInv
    <3>3. r \in LoopRecord /\ r.handlers = m_loops[target].handlers \cup {c}
      BY <3>1, <3>2, SMT DEF LoopRecord
    <3>4. m_loops' = [m_loops EXCEPT ![target] = r]
      BY <2>1, SMT DEF RegisterWith
    <3>5. /\ Len(m_loops') = Len(m_loops) /\ m_loops'[target] = r
          /\ \A k \in 1..Len(m_loops) : k # target => m_loops'[k] = m_loops[k]
      BY <1>1, <3>3, <3>4, LoopUpdated DEF Inv
    <3> QED  BY <3>3, <3>5
  <2>3. /\ c \notin fresh /\ \A i \in 1..Len(backlog) : backlog[i] # c
        /\ \A k \in 1..Len(m_loops) : c \notin m_loops[k].handlers
    BY <2>1 DEF OwnInv, BacklogInv, HandlersInv
  <2>4. ASSUME NEW k \in 1..Len(m_loops), NEW d \in m_loops'[k].handlers
        PROVE  /\ d \notin stream' \cup fresh'
               /\ \A i \in 1..Len(backlog') : backlog'[i] # d
    <3>1. d = c \/ d \in m_loops[k].handlers
      BY <2>2, <2>4
    <3> QED  BY <1>1, <2>3, <3>1 DEF OwnInv, HandlersInv
  <2>5. ASSUME NEW k \in 1..Len(m_loops), NEW l \in 1..Len(m_loops), k # l
        PROVE  m_loops'[k].handlers \cap m_loops'[l].handlers = {}
    <3>1. m_loops[k].handlers \cap m_loops[l].handlers = {}
      BY <2>5 DEF OwnInv, HandlersInv
    <3>2. CASE k = target
      BY <2>2, <2>3, <2>5, <3>1, <3>2
    <3>3. CASE k # target
      BY <2>2, <2>3, <2>5, <3>1, <3>3
    <3> QED  BY <3>2, <3>3
  <2>6. HandlersInv'
    BY <1>1, <2>2, <2>4, <2>5 DEF OwnInv, HandlersInv
  <2> QED  BY <1>2, <2>6 DEF OwnInv
<1> QED  BY <1>3, <1>4 DEF CreateHandler

(* A client makes a new connection.                                        *)
LEMMA ConnectKeeps ==
  ASSUME Inv, OwnInv, NEW c \in Connections, ClientConnects(c)
  PROVE  OwnInv'
<1>1. /\ c \in fresh /\ fresh' = fresh \ {c} /\ backlog' = Append(backlog, c)
      /\ backlog \in Seq(Connections)
      /\ UNCHANGED <<stream, m_loops, new_loops>>
  BY DEF ClientConnects, acceptVars, groupVars, Inv, TypeInv
<1>2. /\ Len(backlog) \in Nat /\ Len(backlog') = Len(backlog) + 1
      /\ backlog'[Len(backlog) + 1] = c
      /\ \A i \in 1..Len(backlog) : backlog'[i] = backlog[i]
  BY <1>1, SMT
<1>3. \A i \in 1..Len(backlog') : \/ i \in 1..Len(backlog) /\ backlog'[i] = backlog[i]
                                  \/ i = Len(backlog) + 1 /\ backlog'[i] = c
  BY <1>2, SMT
<1>4. BacklogInv'
  BY <1>1, <1>3 DEF OwnInv, BacklogInv
<1>5. HandlersInv'
  BY <1>1, <1>3 DEF OwnInv, HandlersInv
<1> QED  BY <1>4, <1>5 DEF OwnInv

(* The steps inside the group's Start and Stop.                            *)
LEMMA GroupKeeps ==
  ASSUME Inv, OwnInv, GroupGoesOn
  PROVE  OwnInv'
<1>0. UNCHANGED <<backlog, fresh, stream>>
  BY DEF GroupGoesOn, socketVars, acceptVars
<1>s. m_loops \in Seq(LoopRecord) /\ new_loops \in Seq(LoopRecord)
  BY DEF Inv, Shape
<1>1. CASE GroupStartLoop(m_loop_num)
  <2>1. m_loops' = m_loops /\ new_loops' = Append(new_loops, NewEventLoop)
    BY <1>1 DEF GroupStartLoop
  <2>2. \A k \in 1..Len(new_loops') : \/ k \in 1..Len(new_loops) /\ new_loops'[k] = new_loops[k]
                                      \/ new_loops'[k] = NewEventLoop
    BY <1>s, <2>1, SMT
  <2>3. NewEventLoop.handlers = {}
    BY DEF NewEventLoop
  <2> QED  BY <1>0, <2>1, <2>2, <2>3 DEF OwnInv, BacklogInv, HandlersInv
<1>2. CASE GroupSwap(m_loop_num)
  <2>1. m_loops' = new_loops /\ new_loops' = << >>
    BY <1>2 DEF GroupSwap
  <2>2. 1..Len(<< >>) = {}
    BY SMT
  <2> QED  BY <1>0, <2>1, <2>2 DEF OwnInv, BacklogInv, HandlersInv
<1>3. CASE GroupStopping
  <2>1. UNCHANGED new_loops
    BY <1>3 DEF GroupStopping
  <2>2. Len(m_loops') = Len(m_loops)
    BY <1>3, <1>s, SMT DEF GroupStopping
  <2>3. ASSUME NEW k \in 1..Len(m_loops) PROVE m_loops'[k].handlers = m_loops[k].handlers
    <3>1. m_loops[k] \in LoopRecord
      BY <1>s, SMT
    <3> QED  BY <1>3, <1>s, <3>1, SMT DEF GroupStopping, LoopRecord
  <2> QED  BY <1>0, <2>1, <2>2, <2>3, LoopsLose
<1>4. CASE GroupJoin
  <2>1. UNCHANGED new_loops
    BY <1>4 DEF GroupJoin
  <2>2. Len(m_loops') = Len(m_loops)
    BY <1>4, <1>s, SMT DEF GroupJoin
  <2>3. ASSUME NEW k \in 1..Len(m_loops) PROVE m_loops'[k].handlers = m_loops[k].handlers
    BY <1>4, <1>s, SMT DEF GroupJoin, JoinedLoop
  <2> QED  BY <1>0, <2>1, <2>2, <2>3, LoopsLose
<1> QED  BY <1>1, <1>2, <1>3, <1>4 DEF GroupGoesOn, GroupStep

(* A loop's thread exits or closes a connection.                           *)
LEMMA LoopThreadsKeep ==
  ASSUME Inv, OwnInv, LoopThreads
  PROVE  OwnInv'
<1>1. PICK i \in 1..Len(m_loops) :
        LoopExits(i) \/ \E c \in m_loops[i].handlers : LoopCloses(i, c)
  BY DEF LoopThreads
<1>2. m_loops \in Seq(LoopRecord) /\ UNCHANGED <<backlog, stream, fresh, new_loops>>
  BY <1>1 DEF LoopThreads, LoopExits, LoopCloses, socketVars, acceptVars, Inv, Shape
<1>3. Len(m_loops') = Len(m_loops)
  BY <1>1, <1>2, SMT DEF LoopExits, LoopCloses
<1>4. ASSUME NEW k \in 1..Len(m_loops) PROVE m_loops'[k].handlers \subseteq m_loops[k].handlers
  <2>1. m_loops[k] \in LoopRecord
    BY <1>2, SMT
  <2>2. CASE LoopExits(i)
    BY <1>2, <2>1, <2>2, SMT DEF LoopExits, LoopRecord
  <2>3. ASSUME NEW c \in m_loops[i].handlers, LoopCloses(i, c)
        PROVE  m_loops'[k].handlers \subseteq m_loops[k].handlers
    BY <1>2, <2>1, <2>3, SMT DEF LoopCloses, LoopRecord
  <2> QED  BY <1>1, <2>2, <2>3
<1> QED  BY <1>2, <1>3, <1>4, LoopsLose

(* The steps of the owner and of the accept thread that leave the          *)
(* connections where they are, or drop all of one kind.                    *)
LEMMA OthersKeep ==
  ASSUME Inv, OwnInv,
         \/ \E n \in 1..MaxLoops : Start(n)
         \/ StartThread \/ SetStarted \/ Stop \/ JoinAccept \/ CloseAcceptor \/ Destroy
         \/ AcceptTest \/ AcceptFails \/ Poll \/ ChooseLoop
         \/ UNCHANGED vars
  PROVE  OwnInv'
<1>1. 1..Len(<< >>) = {}
  BY SMT
<1>2. CASE CloseAcceptor
  <2>1. backlog' = << >> /\ UNCHANGED <<stream, fresh, m_loops, new_loops>>
    BY <1>2 DEF CloseAcceptor, acceptVars, groupVars
  <2> QED  BY <1>1, <2>1 DEF OwnInv, BacklogInv, HandlersInv
<1>3. CASE Destroy
  <2>1. m_loops' = << >> /\ UNCHANGED <<backlog, stream, fresh, new_loops>>
    BY <1>3 DEF Destroy, socketVars
  <2> QED  BY <1>1, <2>1 DEF OwnInv, BacklogInv, HandlersInv
<1>4. CASE UNCHANGED <<backlog, stream, fresh, m_loops, new_loops>>
  BY <1>4 DEF OwnInv, BacklogInv, HandlersInv
<1> QED
  BY <1>2, <1>3, <1>4 DEF Start, StartThread, SetStarted, Stop, JoinAccept, AcceptTest, AcceptFails,
     Poll, ChooseLoop, GroupStart, GroupStop, vars, ownerVars, socketVars, acceptVars, groupVars

-----------------------------------------------------------------------------
LEMMA OwnNext == Inv /\ OwnInv /\ [Next]_vars => OwnInv'
<1> SUFFICES ASSUME Inv, OwnInv, [Next]_vars PROVE OwnInv'
  OBVIOUS
<1> QED
  BY OthersKeep, TakesKeeps, CreateKeeps, ConnectKeeps, GroupKeeps, LoopThreadsKeep
     DEF Next, OwnerGoesOn, AcceptStep

(* On its way from the client through the backlog and the accept thread to *)
(* a loop no connection is ever in two places: it is closed by one owner   *)
(* only, and served by one loop only.                                      *)
THEOREM OwnersAreUnique == Spec => []OneOwner
<1>1. Inv /\ OwnInv => OneOwner
  <2> SUFFICES ASSUME Inv, OwnInv PROVE OneOwner
    OBVIOUS
  <2>1. backlog \in Seq(Connections)
    BY DEF Inv, TypeInv
  <2>2. IsInjective(backlog)
    <3>1. DOMAIN backlog = 1..Len(backlog)
      BY <2>1, SMT
    <3> QED  BY <3>1 DEF OwnInv, BacklogInv, IsInjective
  <2>3. \A c \in ToSet(backlog) : \E i \in 1..Len(backlog) : backlog[i] = c
    <3>1. DOMAIN backlog = 1..Len(backlog)
      BY <2>1, SMT
    <3> QED  BY <3>1 DEF ToSet
  <2>4. \A c \in HandlersOf(m_loops) : \E k \in 1..Len(m_loops) : c \in m_loops[k].handlers
    BY DEF HandlersOf
  <2>5. ASSUME NEW c \in stream PROVE c \notin ToSet(backlog) \cup HandlersOf(m_loops)
    <3>1. c \notin ToSet(backlog)
      BY <2>3 DEF OwnInv, BacklogInv
    <3>2. c \notin HandlersOf(m_loops)
      BY <2>4 DEF OwnInv, HandlersInv
    <3> QED  BY <3>1, <3>2
  <2>6. ToSet(backlog) \cap HandlersOf(m_loops) = {}
    BY <2>3, <2>4 DEF OwnInv, HandlersInv
  <2> QED  BY <2>2, <2>5, <2>6 DEF OneOwner, OwnInv, HandlersInv
<1>2. Init /\ [][Next]_vars => []OwnInv
  <2>1. Init /\ [][Next]_vars => []Inv
    BY InitInv, NextInv, PTL
  <2> QED  BY OwnInit, OwnNext, <2>1, PTL
<1> QED  BY <1>1, <1>2, Invariance, PTL DEF Spec, Safety

-----------------------------------------------------------------------------
(* The detailed server implements ConnectionLife: every step of it is one  *)
(* step of the life of connections, or none.                               *)

(* No loop serves more than it did: connections have ended.                *)
LEMMA FewerHandlersEnd ==
  ASSUME Len(m_loops') = Len(m_loops), Len(m_loops) \in Nat,
         \A k \in 1..Len(m_loops) : m_loops'[k].handlers \subseteq m_loops[k].handlers,
         UNCHANGED <<listening, fresh, backlog, stream>>
  PROVE  Life!End
<1>1. \A p \in (1..MaxLoops) \X Connections : p[1] <= Len(m_loops) => p[1] \in 1..Len(m_loops)
  BY SMT
<1>2. ServedBy(m_loops') \subseteq ServedBy(m_loops)
  BY <1>1 DEF ServedBy
<1> QED  BY <1>2 DEF Life!End

(* Loops without handlers serve nobody.                                    *)
LEMMA EmptyLoopsEnd ==
  ASSUME Len(m_loops') \in Nat,
         \A k \in 1..Len(m_loops') : m_loops'[k].handlers = {},
         UNCHANGED <<listening, fresh, backlog, stream>>
  PROVE  Life!End
<1>1. \A p \in (1..MaxLoops) \X Connections : p[1] <= Len(m_loops') => p[1] \in 1..Len(m_loops')
  BY SMT
<1>2. ServedBy(m_loops') = {}
  BY <1>1 DEF ServedBy
<1> QED  BY <1>2 DEF Life!End

LEMMA LifeStarts == Init => Life!LifeInit
<1> SUFFICES ASSUME Init PROVE Life!LifeInit
  OBVIOUS
<1>1. m_loops = << >> /\ Len(<< >>) = 0
  BY SMT DEF Init, InitGroup
<1>2. \A p \in (1..MaxLoops) \X Connections : ~(p[1] <= 0)
  BY SMT
<1>3. ServedBy(m_loops) = {}
  BY <1>1, <1>2 DEF ServedBy
<1> QED  BY <1>3 DEF Init, Life!LifeInit

(* The connection in hand is served by the loop in turn, or refused.       *)
LEMMA CreateServes ==
  ASSUME Inv, OwnInv, CreateHandler
  PROVE  [Life!LifeNext]_Life!lifeVars
<1>1. /\ m_loops \in Seq(LoopRecord) /\ target \in 1..Len(m_loops) /\ stream' = {}
      /\ listening /\ target \in 1..MaxLoops
      /\ UNCHANGED <<listening, fresh, backlog>>
  BY SMT DEF CreateHandler, RegisterWith, socketVars, groupVars, Inv, Shape, AcceptInv, LoopsInv,
     AllRun, MainInv, TypeInv, Serving, Stopped
<1>2. CASE UNCHANGED groupVars
  <2>1. UNCHANGED ServedBy(m_loops)
    BY <1>2 DEF groupVars
  <2>2. CASE stream = {}
    BY <1>1, <2>1, <2>2 DEF Life!lifeVars
  <2>3. CASE stream # {}
    BY <1>1, <2>1, <2>3 DEF Life!LifeNext, Life!Refuse
  <2> QED  BY <2>2, <2>3
<1>3. CASE \E c \in stream : RegisterWith(target, c)
  <2>1. PICK c \in stream : RegisterWith(target, c)
    BY <1>3
  <2>2. c \in Connections
    BY <2>1 DEF Inv, TypeInv
  <2> DEFINE r == [m_loops[target] EXCEPT !.handlers = @ \cup {c}]
  <2>3. m_loops[target] \in LoopRecord
    BY <1>1, SMT
  <2>4. r \in LoopRecord /\ r.handlers = m_loops[target].handlers \cup {c}
    BY <2>2, <2>3, SMT DEF LoopRecord
  <2>5. m_loops' = [m_loops EXCEPT ![target] = r]
    BY <2>1, SMT DEF RegisterWith
  <2>6. /\ Len(m_loops') = Len(m_loops)
        /\ m_loops'[target].handlers = m_loops[target].handlers \cup {c}
        /\ \A k \in 1..Len(m_loops) : k # target => m_loops'[k].handlers = m_loops[k].handlers
    BY <1>1, <2>4, <2>5, LoopUpdated DEF Inv
  <2>7. /\ Len(m_loops) \in Nat
        /\ \A p \in (1..MaxLoops) \X Connections : p[1] <= Len(m_loops) <=> p[1] \in 1..Len(m_loops)
    BY <1>1, SMT
  <2>8. ServedBy(m_loops') = ServedBy(m_loops) \cup {<<target, c>>}
    <3>1. ASSUME NEW l \in 1..MaxLoops, NEW d \in Connections
          PROVE  <<l, d>> \in ServedBy(m_loops') <=>
                   <<l, d>> \in ServedBy(m_loops) \/ (l = target /\ d = c)
      BY <1>1, <2>2, <2>6, <2>7, <3>1 DEF ServedBy
    <3> HIDE DEF r
    <3> QED  BY <1>1, <2>2, <3>1 DEF ServedBy
  <2>9. \A l \in 1..MaxLoops : <<l, c>> \notin ServedBy(m_loops)
    BY <2>1, <2>7 DEF ServedBy, OwnInv, HandlersInv
  <2>10. Life!Serve(target, c)
    BY <1>1, <2>1, <2>8, <2>9 DEF Life!Serve
  <2> QED  BY <1>1, <2>2, <2>10 DEF Life!LifeNext
<1> QED  BY <1>2, <1>3 DEF CreateHandler

(* Start opens the port, and Stop shuts it when no connection is in hand.  *)
LEMMA OwnerOpensAndShuts ==
  ASSUME Inv, (\E n \in 1..MaxLoops : Start(n)) \/ CloseAcceptor
  PROVE  Life!LifeNext
<1>1. UNCHANGED <<fresh, stream, m_loops>>
  BY DEF Start, CloseAcceptor, GroupStart, acceptVars, groupVars
<1>2. CASE \E n \in 1..MaxLoops : Start(n)
  <2>1. ~listening /\ listening' = TRUE /\ UNCHANGED backlog
    BY <1>2 DEF Start, Inv, MainInv, Stopped
  <2> QED  BY <1>1, <2>1 DEF Life!LifeNext, Life!Open
<1>3. CASE CloseAcceptor
  <2>1. accept = "none" /\ listening
    BY <1>3 DEF CloseAcceptor, Inv, MainInv, AcceptInv, Serving, Stopped
  <2>2. stream = {}
    BY <2>1 DEF Inv, AcceptInv
  <2>3. listening' = FALSE /\ backlog' = << >>
    BY <1>3 DEF CloseAcceptor
  <2> QED  BY <1>1, <2>1, <2>2, <2>3 DEF Life!LifeNext, Life!Shut
<1> QED  BY <1>2, <1>3

(* Connections are made, and accepted in the same order.                   *)
LEMMA SocketOffersAndTakes ==
  ASSUME Inv, AcceptTakes \/ \E c \in Connections : ClientConnects(c)
  PROVE  Life!LifeNext
<1>1. UNCHANGED <<listening, m_loops>>
  BY DEF AcceptTakes, ClientConnects, groupVars
<1>2. CASE AcceptTakes
  <2>1. stream = {} /\ listening /\ backlog # << >>
    BY <1>2 DEF AcceptTakes, Inv, MainInv, AcceptInv, Serving, Stopped
  <2>2. stream' = {Head(backlog)} /\ backlog' = Tail(backlog) /\ UNCHANGED fresh
    BY <1>2 DEF AcceptTakes
  <2> QED  BY <1>1, <2>1, <2>2 DEF Life!LifeNext, Life!Take
<1>3. ASSUME NEW c \in Connections, ClientConnects(c)
      PROVE  Life!LifeNext
  <2>1. /\ listening /\ c \in fresh /\ fresh' = fresh \ {c} /\ backlog' = Append(backlog, c)
        /\ UNCHANGED stream
    BY <1>3 DEF ClientConnects, acceptVars
  <2> QED  BY <1>1, <2>1 DEF Life!LifeNext, Life!Offer
<1> QED  BY <1>2, <1>3

(* The group's calls end the connections of loops it replaces and touch no *)
(* others.                                                                 *)
LEMMA GroupEnds ==
  ASSUME Inv, OwnInv, GroupGoesOn
  PROVE  Life!End
<1>0. UNCHANGED <<listening, fresh, backlog, stream>>
  BY DEF GroupGoesOn, socketVars, acceptVars
<1>s. /\ m_loops \in Seq(LoopRecord) /\ new_loops \in Seq(LoopRecord)
      /\ Len(m_loops) \in Nat /\ Len(new_loops) \in Nat
  BY SMT DEF Inv, Shape
<1>1. CASE GroupStartLoop(m_loop_num)
  BY <1>0, <1>s, <1>1, FewerHandlersEnd DEF GroupStartLoop
<1>2. CASE GroupSwap(m_loop_num)
  <2>1. m_loops' = new_loops /\ \A k \in 1..Len(new_loops) : new_loops[k].handlers = {}
    BY <1>2 DEF GroupSwap, OwnInv, HandlersInv
  <2> QED  BY <1>0, <1>s, <2>1, EmptyLoopsEnd
<1>3. CASE GroupStopping
  <2>1. Len(m_loops') = Len(m_loops)
    BY <1>3, <1>s, SMT DEF GroupStopping
  <2>2. ASSUME NEW k \in 1..Len(m_loops) PROVE m_loops'[k].handlers = m_loops[k].handlers
    <3>1. m_loops[k] \in LoopRecord
      BY <1>s, SMT
    <3> QED  BY <1>3, <1>s, <3>1, SMT DEF GroupStopping, LoopRecord
  <2> QED  BY <1>0, <1>s, <2>1, <2>2, FewerHandlersEnd
<1>4. CASE GroupJoin
  <2>1. Len(m_loops') = Len(m_loops)
    BY <1>4, <1>s, SMT DEF GroupJoin
  <2>2. ASSUME NEW k \in 1..Len(m_loops) PROVE m_loops'[k].handlers = m_loops[k].handlers
    BY <1>4, <1>s, SMT DEF GroupJoin, JoinedLoop
  <2> QED  BY <1>0, <1>s, <2>1, <2>2, FewerHandlersEnd
<1> QED  BY <1>1, <1>2, <1>3, <1>4 DEF GroupGoesOn, GroupStep

(* A loop's thread ends a connection, and a server that is destroyed all.  *)
LEMMA LoopsEnd ==
  ASSUME Inv, LoopThreads \/ Destroy
  PROVE  Life!End
<1>0. UNCHANGED <<listening, fresh, backlog, stream>>
  BY DEF LoopThreads, Destroy, socketVars, acceptVars
<1>1. CASE Destroy
  <2>1. m_loops' = << >> /\ Len(<< >>) = 0 /\ 1..0 = {}
    BY <1>1, SMT DEF Destroy
  <2> QED  BY <1>0, <2>1, EmptyLoopsEnd
<1>2. CASE LoopThreads
  <2>1. PICK i \in 1..Len(m_loops) :
          LoopExits(i) \/ \E c \in m_loops[i].handlers : LoopCloses(i, c)
    BY <1>2 DEF LoopThreads
  <2>2. m_loops \in Seq(LoopRecord) /\ Len(m_loops) \in Nat
    BY SMT DEF Inv, Shape
  <2>3. Len(m_loops') = Len(m_loops)
    BY <2>1, <2>2, SMT DEF LoopExits, LoopCloses
  <2>4. ASSUME NEW k \in 1..Len(m_loops) PROVE m_loops'[k].handlers \subseteq m_loops[k].handlers
    <3>1. m_loops[k] \in LoopRecord
      BY <2>2, SMT
    <3>2. CASE LoopExits(i)
      BY <2>2, <3>1, <3>2, SMT DEF LoopExits, LoopRecord
    <3>3. ASSUME NEW c \in m_loops[i].handlers, LoopCloses(i, c)
          PROVE  m_loops'[k].handlers \subseteq m_loops[k].handlers
      BY <2>2, <3>1, <3>3, SMT DEF LoopCloses, LoopRecord
    <3> QED  BY <2>1, <3>2, <3>3
  <2> QED  BY <1>0, <2>2, <2>3, <2>4, FewerHandlersEnd
<1> QED  BY <1>1, <1>2

(* The other steps of the owner and of the accept thread move no           *)
(* connection.                                                             *)
LEMMA LifeStutters ==
  ASSUME \/ StartThread \/ SetStarted \/ Stop \/ JoinAccept
         \/ AcceptTest \/ AcceptFails \/ Poll \/ ChooseLoop \/ UNCHANGED vars
  PROVE  UNCHANGED Life!lifeVars
<1>1. UNCHANGED <<listening, fresh, backlog, stream, m_loops>>
  BY DEF StartThread, SetStarted, Stop, JoinAccept, AcceptTest, AcceptFails, Poll, ChooseLoop,
     GroupStop, vars, ownerVars, socketVars, acceptVars, groupVars
<1> QED  BY <1>1 DEF Life!lifeVars

LEMMA LifeSimulation == Inv /\ OwnInv /\ [Next]_vars => [Life!LifeNext]_Life!lifeVars
<1> SUFFICES ASSUME Inv, OwnInv, [Next]_vars PROVE [Life!LifeNext]_Life!lifeVars
  OBVIOUS
<1>1. Life!End => Life!LifeNext
  BY DEF Life!LifeNext
<1> QED
  BY <1>1, CreateServes, OwnerOpensAndShuts, SocketOffersAndTakes, GroupEnds, LoopsEnd, LifeStutters
     DEF Next, OwnerGoesOn, AcceptStep

(* With all its threads, states and restarts the server does to            *)
(* connections only what ConnectionLife says: it accepts them in order,    *)
(* serves each by one loop from then on or refuses it, and shuts its port  *)
(* only when none is on the way to a loop.                                 *)
THEOREM ServerKeepsConnectionLife == Spec => ImplementsConnectionLife
<1>1. Init /\ [][Next]_vars => [](Inv /\ OwnInv)
  <2>1. Init /\ [][Next]_vars => []Inv
    BY InitInv, NextInv, PTL
  <2> QED  BY OwnInit, OwnNext, <2>1, PTL
<1> QED  BY LifeStarts, LifeSimulation, <1>1, PTL DEF Spec, Safety, ImplementsConnectionLife, Life!LifeSpec
=============================================================================
