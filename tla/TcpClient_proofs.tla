---------------------------- MODULE TcpClient_proofs ----------------------------
(***************************************************************************)
(* The order in which TcpClient starts and stops its loops and its connect *)
(* thread keeps all who add streams away from loops that do not run, for   *)
(* every number of loops, users and addresses; and Connector::Connect      *)
(* leaves no socket behind.                                                *)
(*                                                                         *)
(* The invariant relates three things: the phase of the group of loops to  *)
(* the point that Start or Stop has reached, the life of the connect       *)
(* thread to that phase, and the calls of Add to both.                     *)
(***************************************************************************)
EXTENDS TcpClient, SequenceTheorems, FiniteSetTheorems, TLAPS

(* The group: what its owner may rely on.  After Start all loops run,      *)
(* until Stop is called; after Stop they all rest; and no step inside them *)
(* or of their threads changes that.  InPhase says it for the phase that   *)
(* the owner is in, and is preserved by every step of the group.           *)
LoopRecord(C) == [state: {"STARTED", "STOPPING", "STOPPED"},
                  thread: {"running", "exited", "none"},
                  handlers: SUBSET C]

GroupShape(C) ==
  /\ m_loops \in Seq(LoopRecord(C)) /\ new_loops \in Seq(LoopRecord(C))
  /\ group \in [at: {"idle", "starting", "stopping", "joining"}, i: Nat]

Runs(i)  == m_loops[i].state = "STARTED" /\ m_loops[i].thread = "running"
Ends(i)  == m_loops[i].state = "STOPPING" /\ m_loops[i].thread \in {"running", "exited"}
Rests(i) == m_loops[i].state = "STOPPED" /\ m_loops[i].thread = "none"

AllRun(n) == Len(m_loops) = n /\ \A i \in 1..Len(m_loops) : Runs(i)
AllRest   == \A i \in 1..Len(m_loops) : Rests(i)

Starting(n) ==
  /\ group.at = "starting" /\ AllRest
  /\ group.i = Len(new_loops) /\ group.i <= n
  /\ \A i \in 1..Len(new_loops) : /\ new_loops[i].state = "STARTED"
                                  /\ new_loops[i].thread = "running"
Stopping ==
  /\ group.at = "stopping" /\ group.i <= Len(m_loops)
  /\ \A i \in 1..group.i : Ends(i)
  /\ \A i \in group.i + 1 .. Len(m_loops) : Runs(i)
Joining ==
  /\ group.at = "joining" /\ group.i <= Len(m_loops)
  /\ \A i \in 1..group.i : Rests(i)
  /\ \A i \in group.i + 1 .. Len(m_loops) : Ends(i)

(* The owner's phase: "starting" and "stopping" from its call of Start and *)
(* Stop to the moment it goes on, "serving" and "resting" between them.    *)
InPhase(phase, n) ==
  /\ phase \in {"starting", "serving", "stopping", "resting"}
  /\ phase = "serving" => GroupIdle /\ AllRun(n)
  /\ phase = "resting" => GroupIdle /\ AllRest
  /\ phase = "starting" => (GroupIdle /\ AllRun(n)) \/ Starting(n)
  /\ phase = "stopping" => (GroupIdle /\ AllRest) \/ Stopping \/ Joining
  /\ group.at # "starting" => new_loops = << >>

-----------------------------------------------------------------------------
(* The group at its construction.                                          *)
LEMMA GroupInit ==
  ASSUME NEW C, NEW n, InitGroup
  PROVE  GroupShape(C) /\ InPhase("resting", n)
<1>1. GroupShape(C)
  BY SMT DEF InitGroup, GroupShape
<1>2. Len(<< >>) = 0 /\ 1..0 = {}
  BY SMT
<1> QED
  BY <1>1, <1>2 DEF InitGroup, InPhase, GroupIdle, AllRest

(* The owner calls Start, with any number of loops...                      *)
LEMMA GroupStarts ==
  ASSUME NEW C, NEW m, NEW n \in Nat, GroupShape(C), InPhase("resting", m), GroupStart
  PROVE  GroupShape(C)' /\ InPhase("starting", n)'
<1>1. /\ group' = [at |-> "starting", i |-> 0]
      /\ UNCHANGED <<m_loops, new_loops>> /\ new_loops = << >>
  BY DEF GroupStart, GroupIdle, InPhase
<1>2. GroupShape(C)'
  BY <1>1, SMT DEF GroupShape
<1>3. Starting(n)'
  BY <1>1, SMT DEF Starting, InPhase, AllRest, Rests
<1> QED
  BY <1>1, <1>2, <1>3 DEF InPhase

(* ... or Stop.                                                            *)
LEMMA GroupStops ==
  ASSUME NEW C, NEW n, GroupShape(C), InPhase("serving", n), GroupStop
  PROVE  GroupShape(C)' /\ InPhase("stopping", n)'
<1>1. /\ group' = [at |-> "stopping", i |-> 0]
      /\ UNCHANGED <<m_loops, new_loops>> /\ new_loops = << >>
  BY DEF GroupStop, GroupIdle, InPhase
<1>2. GroupShape(C)'
  BY <1>1, SMT DEF GroupShape
<1>3. Stopping'
  BY <1>1, SMT DEF GroupShape, Stopping, InPhase, AllRun, Runs
<1> QED
  BY <1>1, <1>2, <1>3 DEF InPhase

(* The owner goes on when the call has returned.                           *)
LEMMA GroupReturns ==
  ASSUME NEW n, GroupIdle
  PROVE  /\ InPhase("starting", n) => InPhase("serving", n)
         /\ InPhase("stopping", n) => InPhase("resting", n)
  BY DEF InPhase, GroupIdle, Starting, Stopping, Joining

LEMMA GroupUnchanged ==
  ASSUME NEW C, NEW phase, NEW n, GroupShape(C), InPhase(phase, n), UNCHANGED groupVars
  PROVE  GroupShape(C)' /\ InPhase(phase, n)'
  BY DEF groupVars, GroupShape, InPhase, GroupIdle, Starting, Stopping, Joining, AllRun, AllRest,
     Runs, Ends, Rests

(* One loop of the group changes.                                          *)
LEMMA LoopUpdated ==
  ASSUME NEW C, m_loops \in Seq(LoopRecord(C)), NEW i \in 1..Len(m_loops),
         NEW r \in LoopRecord(C), m_loops' = [m_loops EXCEPT ![i] = r]
  PROVE  /\ m_loops' \in Seq(LoopRecord(C))
         /\ Len(m_loops') = Len(m_loops)
         /\ m_loops'[i] = r
         /\ \A j \in 1..Len(m_loops) : j # i => m_loops'[j] = m_loops[j]
  BY SMT

-----------------------------------------------------------------------------
(* The steps inside Start: a loop is made, or all are taken over.          *)
LEMMA StartLoopStep ==
  ASSUME NEW C, NEW n \in Nat, NEW phase, GroupShape(C), InPhase(phase, n), GroupStartLoop(n)
  PROVE  GroupShape(C)' /\ InPhase(phase, n)'
<1>1. /\ group.at = "starting" /\ group.i < n /\ Starting(n)
      /\ phase \notin {"serving", "resting", "stopping"}
      /\ m_loops' = m_loops /\ new_loops' = Append(new_loops, NewEventLoop)
      /\ group' = [group EXCEPT !.i = @ + 1]
  <2>1. /\ group.at = "starting" /\ group.i < n /\ m_loops' = m_loops
        /\ new_loops' = Append(new_loops, NewEventLoop)
        /\ group' = [group EXCEPT !.i = @ + 1]
    BY DEF GroupStartLoop
  <2>2. ~GroupIdle /\ ~Stopping /\ ~Joining
    BY <2>1 DEF GroupIdle, Stopping, Joining
  <2>3. Starting(n)
    BY <2>1, <2>2 DEF InPhase
  <2> QED  BY <2>1, <2>2, <2>3 DEF InPhase
<1>2. NewEventLoop \in LoopRecord(C)
  BY SMT DEF NewEventLoop, LoopRecord
<1>3. /\ group'.at = "starting" /\ group'.i = group.i + 1
      /\ group' \in [at: {"idle", "starting", "stopping", "joining"}, i: Nat]
  BY <1>1, SMT DEF GroupShape
<1>4. /\ new_loops' \in Seq(LoopRecord(C)) /\ Len(new_loops') = Len(new_loops) + 1
      /\ Len(new_loops) \in Nat
      /\ \A i \in 1..Len(new_loops) : new_loops'[i] = new_loops[i]
      /\ new_loops'[Len(new_loops) + 1] = NewEventLoop
  BY <1>1, <1>2, SMT DEF GroupShape
<1>5. Starting(n)'
  <2>1. AllRest'
    BY <1>1 DEF Starting, AllRest, Rests
  <2>2. group'.i = Len(new_loops') /\ group'.i <= n
    BY <1>1, <1>3, <1>4, SMT DEF Starting
  <2>3. ASSUME NEW i \in 1..Len(new_loops')
        PROVE  new_loops'[i].state = "STARTED" /\ new_loops'[i].thread = "running"
    <3>1. CASE i = Len(new_loops) + 1
      BY <1>4, <3>1 DEF NewEventLoop
    <3>2. CASE i # Len(new_loops) + 1
      <4>1. i \in 1..Len(new_loops)
        BY <1>4, <3>2, SMT
      <4> QED  BY <1>1, <1>4, <4>1 DEF Starting
    <3> QED  BY <3>1, <3>2
  <2> QED  BY <1>3, <2>1, <2>2, <2>3 DEF Starting
<1> QED
  BY <1>1, <1>3, <1>4, <1>5 DEF GroupShape, InPhase

LEMMA SwapStep ==
  ASSUME NEW C, NEW n \in Nat, NEW phase, GroupShape(C), InPhase(phase, n), GroupSwap(n)
  PROVE  GroupShape(C)' /\ InPhase(phase, n)'
<1>1. /\ group.at = "starting" /\ group.i = n /\ Starting(n)
      /\ phase \notin {"serving", "resting", "stopping"}
      /\ m_loops' = new_loops /\ new_loops' = << >> /\ group' = [at |-> "idle", i |-> 0]
  <2>1. /\ group.at = "starting" /\ group.i = n /\ m_loops' = new_loops
        /\ new_loops' = << >> /\ group' = [at |-> "idle", i |-> 0]
    BY DEF GroupSwap
  <2>2. ~GroupIdle /\ ~Stopping /\ ~Joining
    BY <2>1 DEF GroupIdle, Stopping, Joining
  <2>3. Starting(n)
    BY <2>1, <2>2 DEF InPhase
  <2> QED  BY <2>1, <2>2, <2>3 DEF InPhase
<1>2. GroupShape(C)'
  BY <1>1, SMT DEF GroupShape
<1>3. GroupIdle' /\ AllRun(n)'
  BY <1>1 DEF Starting, AllRun, Runs, GroupIdle
<1> QED
  BY <1>1, <1>2, <1>3 DEF InPhase, GroupIdle

(* The steps inside Stop, and of the loops' threads, change one loop.      *)
LEMMA StoppingStep ==
  ASSUME NEW C, NEW n, NEW phase, GroupShape(C), InPhase(phase, n), GroupStopping
  PROVE  GroupShape(C)' /\ InPhase(phase, n)'
<1>1. group.at = "stopping" /\ phase = "stopping" /\ Stopping /\ new_loops = << >>
  BY DEF GroupStopping, InPhase, GroupIdle, Starting, Stopping, Joining
<1>2. /\ m_loops \in Seq(LoopRecord(C)) /\ Len(m_loops) \in Nat /\ group.i \in Nat
      /\ group.i <= Len(m_loops) /\ new_loops' = new_loops
      /\ group \in [at: {"idle", "starting", "stopping", "joining"}, i: Nat]
  BY <1>1, SMT DEF GroupShape, Stopping, GroupStopping
<1>3. CASE Loop <= Len(m_loops)
  <2> DEFINE r == [m_loops[Loop] EXCEPT !.state = IF @ = "STARTED" THEN "STOPPING" ELSE @]
  <2>1. Loop \in 1..Len(m_loops) /\ Loop \in group.i + 1 .. Len(m_loops)
    BY <1>2, <1>3, SMT DEF Loop
  <2>2. Runs(Loop) /\ m_loops[Loop] \in LoopRecord(C)
    BY <1>1, <1>2, <2>1, SMT DEF Stopping
  <2>3. r \in LoopRecord(C) /\ r.state = "STOPPING" /\ r.thread \in {"running", "exited"}
    BY <2>2, SMT DEF LoopRecord, Runs
  <2>4. m_loops' = [m_loops EXCEPT ![Loop] = r] /\ group' = [group EXCEPT !.i = @ + 1]
    BY <1>3, SMT DEF GroupStopping
  <2>5. /\ m_loops' \in Seq(LoopRecord(C)) /\ Len(m_loops') = Len(m_loops)
        /\ m_loops'[Loop] = r
        /\ \A j \in 1..Len(m_loops) : j # Loop => m_loops'[j] = m_loops[j]
    BY <1>2, <2>1, <2>3, <2>4, LoopUpdated
  <2>6. /\ group'.at = "stopping" /\ group'.i = Loop
        /\ group' \in [at: {"idle", "starting", "stopping", "joining"}, i: Nat]
    BY <1>1, <1>2, <2>4, SMT DEF Loop
  <2>7. ASSUME NEW i \in 1..Loop PROVE Ends(i)'
    <3>1. CASE i = Loop
      BY <2>3, <2>5, <3>1 DEF Ends
    <3>2. CASE i # Loop
      <4>1. i \in 1..group.i /\ i \in 1..Len(m_loops)
        BY <1>2, <1>3, <3>2, SMT DEF Loop
      <4> QED  BY <1>1, <2>5, <3>2, <4>1 DEF Stopping, Ends
    <3> QED  BY <3>1, <3>2
  <2>8. ASSUME NEW i \in Loop + 1 .. Len(m_loops) PROVE Runs(i)'
    <3>1. i \in group.i + 1 .. Len(m_loops) /\ i # Loop /\ i \in 1..Len(m_loops)
      BY <1>2, SMT DEF Loop
    <3> QED  BY <1>1, <2>5, <3>1 DEF Stopping, Runs
  <2>9. Stopping'
    BY <1>3, <2>5, <2>6, <2>7, <2>8 DEF Stopping
  <2> QED  BY <1>1, <1>2, <2>5, <2>6, <2>9 DEF GroupShape, InPhase
<1>4. CASE ~(Loop <= Len(m_loops))
  <2>1. group.i = Len(m_loops)
    BY <1>2, <1>4, SMT DEF Loop
  <2>2. m_loops' = m_loops /\ group' = [at |-> "joining", i |-> 0]
    BY <1>4 DEF GroupStopping
  <2>3. 1..group'.i = {} /\ group'.i + 1 .. Len(m_loops') = 1..group.i /\ group'.i <= Len(m_loops')
    BY <1>2, <2>1, <2>2, SMT
  <2>4. \A i \in 1..group.i : Ends(i)'
    BY <1>1, <2>2 DEF Stopping, Ends
  <2>5. Joining'
    BY <2>2, <2>3, <2>4 DEF Joining
  <2>6. GroupShape(C)'
    BY <1>2, <2>2, SMT DEF GroupShape
  <2> QED  BY <1>1, <1>2, <2>5, <2>6 DEF InPhase
<1> QED  BY <1>3, <1>4

LEMMA JoinStep ==
  ASSUME NEW C, NEW n, NEW phase, GroupShape(C), InPhase(phase, n), GroupJoin
  PROVE  GroupShape(C)' /\ InPhase(phase, n)'
<1>1. group.at = "joining" /\ phase = "stopping" /\ Joining /\ new_loops = << >>
  BY DEF GroupJoin, InPhase, GroupIdle, Starting, Stopping, Joining
<1>2. /\ m_loops \in Seq(LoopRecord(C)) /\ Len(m_loops) \in Nat /\ group.i \in Nat
      /\ group.i <= Len(m_loops) /\ new_loops' = new_loops
      /\ group \in [at: {"idle", "starting", "stopping", "joining"}, i: Nat]
  BY <1>1, SMT DEF GroupShape, Joining, GroupJoin
<1>3. CASE Loop <= Len(m_loops)
  <2> DEFINE r == JoinedLoop(m_loops[Loop])
  <2>1. Loop \in 1..Len(m_loops)
    BY <1>2, <1>3, SMT DEF Loop
  <2>2. m_loops[Loop] \in LoopRecord(C)
    BY <1>2, <2>1, SMT
  <2>3. r \in LoopRecord(C) /\ r.state = "STOPPED" /\ r.thread = "none"
    BY <2>2, SMT DEF LoopRecord, JoinedLoop
  <2>4. m_loops' = [m_loops EXCEPT ![Loop] = r] /\ group' = [group EXCEPT !.i = @ + 1]
    BY <1>3, SMT DEF GroupJoin
  <2>5. /\ m_loops' \in Seq(LoopRecord(C)) /\ Len(m_loops') = Len(m_loops)
        /\ m_loops'[Loop] = r
        /\ \A j \in 1..Len(m_loops) : j # Loop => m_loops'[j] = m_loops[j]
    BY <1>2, <2>1, <2>3, <2>4, LoopUpdated
  <2>6. /\ group'.at = "joining" /\ group'.i = Loop
        /\ group' \in [at: {"idle", "starting", "stopping", "joining"}, i: Nat]
    BY <1>1, <1>2, <2>4, SMT DEF Loop
  <2>7. ASSUME NEW i \in 1..Loop PROVE Rests(i)'
    <3>1. CASE i = Loop
      BY <2>3, <2>5, <3>1 DEF Rests
    <3>2. CASE i # Loop
      <4>1. i \in 1..group.i /\ i \in 1..Len(m_loops)
        BY <1>2, <1>3, <3>2, SMT DEF Loop
      <4> QED  BY <1>1, <2>5, <3>2, <4>1 DEF Joining, Rests
    <3> QED  BY <3>1, <3>2
  <2>8. ASSUME NEW i \in Loop + 1 .. Len(m_loops) PROVE Ends(i)'
    <3>1. i \in group.i + 1 .. Len(m_loops) /\ i # Loop /\ i \in 1..Len(m_loops)
      BY <1>2, SMT DEF Loop
    <3> QED  BY <1>1, <2>5, <3>1 DEF Joining, Ends
  <2>9. Joining'
    BY <1>3, <2>5, <2>6, <2>7, <2>8 DEF Joining
  <2> QED  BY <1>1, <1>2, <2>5, <2>6, <2>9 DEF GroupShape, InPhase
<1>4. CASE ~(Loop <= Len(m_loops))
  <2>1. group.i = Len(m_loops)
    BY <1>2, <1>4, SMT DEF Loop
  <2>2. m_loops' = m_loops /\ group' = [at |-> "idle", i |-> 0]
    BY <1>4 DEF GroupJoin
  <2>3. GroupIdle' /\ AllRest'
    BY <1>1, <2>1, <2>2 DEF Joining, AllRest, Rests, GroupIdle
  <2>4. GroupShape(C)'
    BY <1>2, <2>2, SMT DEF GroupShape
  <2> QED  BY <1>1, <1>2, <2>3, <2>4 DEF InPhase
<1> QED  BY <1>3, <1>4

LEMMA GroupSteps ==
  ASSUME NEW C, NEW n \in Nat, NEW phase, GroupShape(C), InPhase(phase, n), GroupStep(n)
  PROVE  GroupShape(C)' /\ InPhase(phase, n)'
  BY StartLoopStep, SwapStep, StoppingStep, JoinStep DEF GroupStep

-----------------------------------------------------------------------------
(* A loop's thread and the callbacks that register with a loop leave its   *)
(* state alone, except that the thread of a stopping loop exits.           *)
Same(i, r) == r.state = m_loops[i].state /\ r.thread = m_loops[i].thread
Left(i, r) == /\ m_loops[i].state = "STOPPING" /\ r.state = "STOPPING"
              /\ r.thread = "exited"

LEMMA LoopChanges ==
  ASSUME NEW C, NEW n, NEW phase, GroupShape(C), InPhase(phase, n),
         NEW i \in 1..Len(m_loops), NEW r \in LoopRecord(C), Same(i, r) \/ Left(i, r),
         m_loops' = [m_loops EXCEPT ![i] = r], UNCHANGED <<new_loops, group>>
  PROVE  GroupShape(C)' /\ InPhase(phase, n)'
<1>1. /\ m_loops' \in Seq(LoopRecord(C)) /\ Len(m_loops') = Len(m_loops)
      /\ m_loops'[i] = r
      /\ \A j \in 1..Len(m_loops) : j # i => m_loops'[j] = m_loops[j]
  BY LoopUpdated DEF GroupShape
<1>2. ASSUME NEW j \in 1..Len(m_loops)
      PROVE  (Runs(j) => Runs(j)') /\ (Ends(j) => Ends(j)') /\ (Rests(j) => Rests(j)')
  <2>1. CASE j = i
    BY <1>1, <2>1, SMT DEF Runs, Ends, Rests, Same, Left
  <2>2. CASE j # i
    BY <1>1, <2>2 DEF Runs, Ends, Rests
  <2> QED  BY <2>1, <2>2
<1>3. GroupShape(C)'
  BY <1>1 DEF GroupShape
<1>4. (AllRun(n) => AllRun(n)') /\ (AllRest => AllRest')
  BY <1>1, <1>2 DEF AllRun, AllRest
<1>5. Starting(n) => Starting(n)'
  BY <1>4 DEF Starting
<1>6. ASSUME group.i <= Len(m_loops)
      PROVE  1..group.i \subseteq 1..Len(m_loops) /\ group.i + 1 .. Len(m_loops) \subseteq 1..Len(m_loops)
  BY <1>6, SMT DEF GroupShape
<1>7. Stopping => Stopping'
  BY <1>1, <1>2, <1>6 DEF Stopping
<1>8. Joining => Joining'
  BY <1>1, <1>2, <1>6 DEF Joining
<1> QED
  BY <1>3, <1>4, <1>5, <1>7, <1>8 DEF InPhase, GroupIdle

LEMMA LoopThreadStep ==
  ASSUME NEW C, NEW n, NEW phase, GroupShape(C), InPhase(phase, n),
         NEW i \in 1..Len(m_loops), LoopExits(i) \/ \E c \in m_loops[i].handlers : LoopCloses(i, c)
  PROVE  GroupShape(C)' /\ InPhase(phase, n)'
<1>0. m_loops[i] \in LoopRecord(C)
  BY SMT DEF GroupShape
<1>1. CASE LoopExits(i)
  <2> DEFINE r == [m_loops[i] EXCEPT !.thread = "exited"]
  <2>1. r \in LoopRecord(C) /\ Left(i, r)
    BY <1>0, <1>1, SMT DEF LoopExits, LoopRecord, Left
  <2>2. m_loops' = [m_loops EXCEPT ![i] = r] /\ UNCHANGED <<new_loops, group>>
    BY <1>1, SMT DEF LoopExits
  <2> QED  BY <2>1, <2>2, LoopChanges
<1>2. ASSUME NEW c \in m_loops[i].handlers, LoopCloses(i, c)
      PROVE  GroupShape(C)' /\ InPhase(phase, n)'
  <2> DEFINE r == [m_loops[i] EXCEPT !.handlers = @ \ {c}]
  <2>1. r \in LoopRecord(C) /\ Same(i, r)
    BY <1>0, SMT DEF LoopRecord, Same
  <2>2. m_loops' = [m_loops EXCEPT ![i] = r] /\ UNCHANGED <<new_loops, group>>
    BY <1>2, SMT DEF LoopCloses
  <2> QED  BY <2>1, <2>2, LoopChanges
<1> QED  BY <1>1, <1>2

LEMMA RegisterStep ==
  ASSUME NEW C, NEW n, NEW phase, GroupShape(C), InPhase(phase, n),
         NEW i \in 1..Len(m_loops), NEW c \in C, RegisterWith(i, c)
  PROVE  GroupShape(C)' /\ InPhase(phase, n)'
<1> DEFINE r == [m_loops[i] EXCEPT !.handlers = @ \cup {c}]
<1>1. m_loops[i] \in LoopRecord(C)
  BY SMT DEF GroupShape
<1>2. r \in LoopRecord(C) /\ Same(i, r)
  BY <1>1, SMT DEF LoopRecord, Same
<1>3. m_loops' = [m_loops EXCEPT ![i] = r] /\ UNCHANGED <<new_loops, group>>
  BY SMT DEF RegisterWith
<1> QED  BY <1>2, <1>3, LoopChanges

-----------------------------------------------------------------------------
(* The connections that loops keep open, over the steps of the loops.      *)
LEMMA HandlersOfOne ==
  ASSUME NEW C, m_loops \in Seq(LoopRecord(C)), NEW i \in 1..Len(m_loops),
         NEW r \in LoopRecord(C), m_loops' = [m_loops EXCEPT ![i] = r],
         NEW D, m_loops[i].handlers \subseteq r.handlers \cup D
  PROVE  /\ HandlersOf(m_loops) \subseteq HandlersOf(m_loops') \cup D
         /\ r.handlers \subseteq HandlersOf(m_loops')
<1>1. /\ Len(m_loops') = Len(m_loops) /\ m_loops'[i] = r
      /\ \A j \in 1..Len(m_loops) : j # i => m_loops'[j] = m_loops[j]
  BY LoopUpdated
<1>2. r.handlers \subseteq HandlersOf(m_loops')
  BY <1>1 DEF HandlersOf
<1>3. ASSUME NEW j \in 1..Len(m_loops), NEW c \in m_loops[j].handlers
      PROVE  c \in HandlersOf(m_loops') \cup D
  <2>1. CASE j = i
    BY <1>2, <1>3, <2>1
  <2>2. CASE j # i
    BY <1>1, <1>3, <2>2 DEF HandlersOf
  <2> QED  BY <2>1, <2>2
<1> QED  BY <1>2, <1>3 DEF HandlersOf

LEMMA RegisterKeepsHandlers ==
  ASSUME NEW C, m_loops \in Seq(LoopRecord(C)), NEW i \in 1..Len(m_loops), NEW c \in C,
         RegisterWith(i, c)
  PROVE  HandlersOf(m_loops) \cup {c} \subseteq HandlersOf(m_loops')
<1> DEFINE r == [m_loops[i] EXCEPT !.handlers = @ \cup {c}]
<1>1. m_loops[i] \in LoopRecord(C)
  BY SMT
<1>2. r \in LoopRecord(C) /\ r.handlers = m_loops[i].handlers \cup {c}
  BY <1>1, SMT DEF LoopRecord
<1>3. m_loops' = [m_loops EXCEPT ![i] = r]
  BY SMT DEF RegisterWith
<1>4. m_loops[i].handlers \subseteq r.handlers \cup {}
  BY <1>2
<1> HIDE DEF r
<1>5. /\ HandlersOf(m_loops) \subseteq HandlersOf(m_loops') \cup {}
      /\ r.handlers \subseteq HandlersOf(m_loops')
  BY <1>2, <1>3, <1>4, HandlersOfOne
<1> QED  BY <1>2, <1>5

LEMMA LoopThreadKeepsHandlers ==
  ASSUME NEW C, m_loops \in Seq(LoopRecord(C)), NEW i \in 1..Len(m_loops)
  PROVE  /\ LoopExits(i) => HandlersOf(m_loops) \subseteq HandlersOf(m_loops')
         /\ \A c : LoopCloses(i, c) => HandlersOf(m_loops) \subseteq HandlersOf(m_loops') \cup {c}
<1>0. m_loops[i] \in LoopRecord(C)
  BY SMT
<1>1. ASSUME LoopExits(i) PROVE HandlersOf(m_loops) \subseteq HandlersOf(m_loops')
  <2> DEFINE r == [m_loops[i] EXCEPT !.thread = "exited"]
  <2>1. r \in LoopRecord(C) /\ r.handlers = m_loops[i].handlers
    BY <1>0, SMT DEF LoopRecord
  <2>2. m_loops' = [m_loops EXCEPT ![i] = r]
    BY <1>1, SMT DEF LoopExits
  <2>3. m_loops[i].handlers \subseteq r.handlers \cup {}
    BY <2>1
  <2> HIDE DEF r
  <2>4. HandlersOf(m_loops) \subseteq HandlersOf(m_loops') \cup {}
    BY <2>1, <2>2, <2>3, HandlersOfOne
  <2> QED  BY <2>4
<1>2. ASSUME NEW c, LoopCloses(i, c) PROVE HandlersOf(m_loops) \subseteq HandlersOf(m_loops') \cup {c}
  <2> DEFINE r == [m_loops[i] EXCEPT !.handlers = @ \ {c}]
  <2>1. r \in LoopRecord(C) /\ r.handlers = m_loops[i].handlers \ {c}
    BY <1>0, SMT DEF LoopRecord
  <2>2. m_loops' = [m_loops EXCEPT ![i] = r]
    BY <1>2, SMT DEF LoopCloses
  <2>3. m_loops[i].handlers \subseteq r.handlers \cup {c}
    BY <2>1
  <2> HIDE DEF r
  <2> QED  BY <2>1, <2>2, <2>3, HandlersOfOne
<1> QED  BY <1>1, <1>2

-----------------------------------------------------------------------------
(* The client.                                                             *)

Conns == Requests \cup Streams

Phase == IF main = "start_group" THEN "starting"
         ELSE IF main \in {"set_started", "join"} THEN "serving"
         ELSE IF main = "stop_group" THEN "stopping"
         ELSE IF m_state = "STARTED" THEN "serving" ELSE "resting"

GroupInv == GroupShape(Conns) /\ InPhase(Phase, m_loop_num)

OwnerInv ==
  /\ main \in {"idle", "start_group", "set_started", "join", "stop_group"}
  /\ main \in {"start_group", "set_started"} => m_state = "STOPPED"
  /\ main \in {"join", "stop_group"} => m_state = "STOPPING"
  /\ main = "idle" => m_state \in {"STOPPED", "STARTED"}
  /\ m_loop_num \in 0..MaxLoops
  /\ Phase # "resting" => m_loop_num # 0
  /\ connect # "none" <=> Phase = "serving"

AddInv ==
  /\ adding \in [Adders -> {"idle", "read_index", "write_index", "create", "added", "refused"}]
  /\ adding[ConnectThread] # "idle" => connect = "add"
  /\ \A u \in Users : adding[u] # "idle" => main = "idle" /\ m_state = "STARTED"
  /\ stream \in [Adders -> SUBSET Conns]
  /\ \A t \in Adders : stream[t] # {} => adding[t] \in {"read_index", "write_index", "create"}
  /\ addr \subseteq Requests
  /\ addr # {} => connect \in {"connect", "add"}
  /\ index \in [Adders -> Nat] /\ m_next_loop_index \in Nat

QueueInv == connect_queue \in Seq(Requests) /\ failed_queue \in Seq(Requests)

Inv == GroupInv /\ OwnerInv /\ AddInv /\ QueueInv

-----------------------------------------------------------------------------
LEMMA InitInv == Init => Inv
<1> SUFFICES ASSUME Init PROVE Inv
  OBVIOUS
<1>1. Phase = "resting"
  BY DEF Init, Phase
<1>2. GroupInv
  BY <1>1, GroupInit DEF Init, GroupInv
<1>3. OwnerInv
  BY <1>1, ClientAssumption, SMT DEF Init, OwnerInv
<1>4. AddInv /\ QueueInv
  BY <1>1, SMT DEF Init, AddInv, QueueInv, Adders
<1> QED  BY <1>2, <1>3, <1>4 DEF Inv

(* Whoever is in Add, the group serves and its loops run.                  *)
LEMMA AddersServed ==
  ASSUME Inv, NEW t \in Adders, adding[t] # "idle"
  PROVE  /\ Phase = "serving" /\ GroupIdle /\ AllRun(m_loop_num)
         /\ m_loop_num \in Nat \ {0} /\ Len(m_loops) = m_loop_num
<1>1. Phase = "serving"
  <2>1. CASE t = ConnectThread
    BY <2>1 DEF Inv, AddInv, OwnerInv
  <2>2. CASE t \in Users
    BY <2>2 DEF Inv, AddInv, Phase
  <2> QED  BY <2>1, <2>2 DEF Adders
<1>2. GroupIdle /\ AllRun(m_loop_num)
  BY <1>1 DEF Inv, GroupInv, InPhase
<1>3. m_loop_num \in Nat \ {0}
  BY <1>1, ClientAssumption, SMT DEF Inv, OwnerInv
<1> QED  BY <1>1, <1>2, <1>3 DEF AllRun

(* The loop chosen is one of the group's, whatever the shared index is.    *)
LEMMA ChosenInGroup ==
  ASSUME Inv, NEW t \in Adders, adding[t] # "idle"
  PROVE  Chosen(t) \in 1..m_loop_num
<1>1. m_loop_num \in Nat \ {0} /\ index[t] \in Nat
  BY AddersServed DEF Inv, AddInv
<1>2. index[t] % m_loop_num \in 0..m_loop_num - 1
  BY <1>1, SMT
<1> QED  BY <1>1, <1>2, SMT DEF Chosen

-----------------------------------------------------------------------------
(* Steps that neither the owner nor the group takes part in.               *)
LEMMA OwnerKept ==
  ASSUME Inv, UNCHANGED <<ownerVars, groupVars>>, connect' # "none" <=> connect # "none"
  PROVE  GroupInv' /\ OwnerInv'
<1>1. Phase' = Phase
  BY DEF ownerVars, Phase
<1>2. GroupShape(Conns)' /\ InPhase(Phase, m_loop_num)'
  <2>1. ASSUME NEW p, InPhase(p, m_loop_num) PROVE InPhase(p, m_loop_num)'
    BY <2>1 DEF ownerVars, groupVars, InPhase, GroupIdle, Starting, Stopping, Joining, AllRun,
       AllRest, Runs, Ends, Rests
  <2>2. GroupShape(Conns)'
    BY DEF groupVars, GroupShape, Inv, GroupInv
  <2> QED  BY <1>1, <2>1, <2>2 DEF Inv, GroupInv
<1>3. OwnerInv'
  BY <1>1 DEF ownerVars, Inv, OwnerInv
<1> QED  BY <1>2, <1>3 DEF GroupInv

LEMMA AddAddressInv ==
  ASSUME Inv, NEW r \in Requests, AddAddress(r)
  PROVE  Inv'
<1>1. GroupInv' /\ OwnerInv'
  BY OwnerKept DEF AddAddress, connectVars
<1>2. AddInv'
  BY DEF AddAddress, connectVars, addVars, ownerVars, Inv, AddInv
<1>3. QueueInv'
  BY SMT DEF AddAddress, Inv, QueueInv
<1> QED  BY <1>1, <1>2, <1>3 DEF Inv

LEMMA AddStreamInv ==
  ASSUME Inv, NEW u \in Users, NEW s \in Streams, AddStream(u, s)
  PROVE  Inv'
<1>1. GroupInv' /\ OwnerInv'
  BY OwnerKept DEF AddStream, connectVars
<1>2. AddInv'
  BY ClientAssumption, SMT DEF AddStream, connectVars, ownerVars, Inv, AddInv, Adders, Conns
<1>3. QueueInv'
  BY DEF AddStream, queueVars, Inv, QueueInv
<1> QED  BY <1>1, <1>2, <1>3 DEF Inv

LEMMA AddStepInv ==
  ASSUME Inv, NEW t \in Adders, AddStep(t)
  PROVE  Inv'
<1>1. CASE ReadIndex(t)
  <2>1. GroupInv' /\ OwnerInv'
    BY <1>1, OwnerKept DEF ReadIndex, connectVars
  <2>2. AddInv'
    BY <1>1, ClientAssumption, SMT DEF ReadIndex, connectVars, ownerVars, Inv, AddInv, Adders
  <2>3. QueueInv'
    BY <1>1 DEF ReadIndex, queueVars, Inv, QueueInv
  <2> QED  BY <2>1, <2>2, <2>3 DEF Inv
<1>2. CASE WriteIndex(t)
  <2>1. GroupInv' /\ OwnerInv'
    BY <1>2, OwnerKept DEF WriteIndex, connectVars
  <2>2. m_next_loop_index' \in Nat
    <3>1. index[t] \in Nat /\ IndexRange \in Nat \ {0}
      BY ClientAssumption DEF Inv, AddInv
    <3>2. (index[t] + 1) % IndexRange \in 0..IndexRange - 1
      BY <3>1, SMT
    <3> QED  BY <1>2, <3>1, <3>2, SMT DEF WriteIndex, NextIndex
  <2>3. AddInv'
    BY <1>2, <2>2, ClientAssumption, SMT DEF WriteIndex, connectVars, ownerVars, Inv, AddInv, Adders
  <2>4. QueueInv'
    BY <1>2 DEF WriteIndex, queueVars, Inv, QueueInv
  <2> QED  BY <2>1, <2>3, <2>4 DEF Inv
<1>3. CASE CreateHandler(t)
  <2>1. /\ UNCHANGED <<ownerVars, connect, connect_queue, failed_queue, addr, m_next_loop_index>>
        /\ adding[t] = "create"
    BY <1>3 DEF CreateHandler, queueVars, connectVars
  <2>2. Phase' = Phase
    BY <2>1 DEF ownerVars, Phase
  <2>3. GroupShape(Conns)' /\ InPhase(Phase, m_loop_num)'
    <3>1. CASE UNCHANGED groupVars
      BY <2>1, <3>1, OwnerKept DEF GroupInv
    <3>2. CASE \E s \in stream[t] : RegisterWith(Chosen(t), s)
      <4>1. PICK s \in stream[t] : RegisterWith(Chosen(t), s)
        BY <3>2
      <4>2. s \in Conns /\ Chosen(t) \in 1..Len(m_loops)
        BY <2>1, AddersServed, ChosenInGroup DEF Inv, AddInv
      <4>3. /\ GroupShape(Conns)
            /\ InPhase(Phase, m_loop_num)
        BY DEF Inv, GroupInv
      <4>4. Phase = "serving"
        BY <2>1, AddersServed
      <4>5. m_loop_num' = m_loop_num
        BY <2>1 DEF ownerVars
      <4>6. GroupShape(Conns)' /\ InPhase("serving", m_loop_num)'
        BY <4>1, <4>2, <4>3, <4>4, <4>5, RegisterStep
      <4> QED  BY <2>2, <4>4, <4>6
    <3> QED  BY <1>3, <3>1, <3>2 DEF CreateHandler
  <2>4. OwnerInv'
    BY <2>1, <2>2 DEF ownerVars, Inv, OwnerInv
  <2>5. AddInv'
    BY <1>3, <2>1, ClientAssumption, SMT DEF CreateHandler, ownerVars, Inv, AddInv, Adders
  <2>6. QueueInv'
    BY <2>1 DEF Inv, QueueInv
  <2> QED  BY <2>3, <2>4, <2>5, <2>6 DEF Inv, GroupInv
<1> QED  BY <1>1, <1>2, <1>3 DEF AddStep

-----------------------------------------------------------------------------
(* The connect thread.                                                     *)
LEMMA ConnectStepInv ==
  ASSUME Inv, ConnectStep \/ SocketAnswered
  PROVE  Inv'
<1>1. UNCHANGED <<ownerVars, groupVars, index, m_next_loop_index>>
  BY DEF ConnectStep, ConnectTest, PopAddress, PopWaits, PopTimesOut, Requeue, Connecting,
     Connected, NotConnected, Added, SocketAnswered, addVars
<1>2. connect' # "none" <=> connect # "none"
  <2>1. CASE ConnectTest \/ PopAddress \/ PopWaits \/ PopTimesOut
    BY <2>1 DEF ConnectTest, PopAddress, PopWaits, PopTimesOut
  <2>2. CASE Requeue
    BY <2>2 DEF Requeue
  <2>3. CASE Connecting \/ SocketAnswered \/ Connected \/ NotConnected \/ Added
    BY <2>3 DEF Connecting, SocketAnswered, Connected, NotConnected, Added
  <2> QED  BY <2>1, <2>2, <2>3 DEF ConnectStep
<1>3. GroupInv' /\ OwnerInv'
  BY <1>1, <1>2, OwnerKept
<1>4. ConnectThread \in Adders /\ ConnectThread \notin Users
  BY ClientAssumption DEF Adders
<1>5. AddInv'
  <2>1. CASE ConnectTest \/ PopWaits \/ PopTimesOut
    BY <1>4, <2>1, SMT DEF ConnectTest, PopWaits, PopTimesOut, ownerVars, addVars, Inv, AddInv
  <2>2. CASE PopAddress
    <3>1. addr' \subseteq Requests
      BY <2>2, SMT DEF PopAddress, Inv, QueueInv
    <3> QED  BY <1>1, <1>4, <2>2, <3>1 DEF PopAddress, addVars, ownerVars, Inv, AddInv
  <2>3. CASE Requeue
    BY <2>3, SMT DEF Requeue, ownerVars, addVars, Inv, AddInv
  <2>4. CASE Connecting \/ SocketAnswered
    BY <2>4 DEF Connecting, SocketAnswered, ownerVars, addVars, Inv, AddInv
  <2>5. CASE Connected
    <3>1. /\ connect' = "add" /\ addr' = addr /\ addr \in SUBSET Conns
          /\ stream' = [stream EXCEPT ![ConnectThread] = addr]
          /\ adding' = [adding EXCEPT ![ConnectThread] = "read_index"]
      BY <2>5 DEF Connected, Inv, AddInv, Conns
    <3> QED  BY <1>1, <1>4, <3>1, SMT DEF ownerVars, Inv, AddInv
  <2>6. CASE NotConnected
    BY <1>4, <2>6, SMT DEF NotConnected, ownerVars, addVars, Inv, AddInv
  <2>7. CASE Added
    <3>1. /\ connect' = "test" /\ addr' = {} /\ stream' = stream
          /\ adding' = [adding EXCEPT ![ConnectThread] = "idle"]
          /\ adding[ConnectThread] \in {"added", "refused"}
      BY <2>7 DEF Added
    <3> QED  BY <1>1, <1>4, <3>1, SMT DEF ownerVars, Inv, AddInv
  <2> QED  BY <2>1, <2>2, <2>3, <2>4, <2>5, <2>6, <2>7 DEF ConnectStep
<1>6. QueueInv'
  <2>1. CASE PopAddress
    BY <2>1, SMT DEF PopAddress, Inv, QueueInv
  <2>2. CASE Requeue
    <3>1. CASE failed_queue # << >>
      <4>1. /\ connect_queue' = Append(connect_queue, Head(failed_queue))
            /\ failed_queue' = Tail(failed_queue)
        BY <2>2, <3>1 DEF Requeue
      <4> QED  BY <3>1, <4>1, SMT DEF Inv, QueueInv
    <3>2. CASE failed_queue = << >>
      BY <2>2, <3>2 DEF Requeue, queueVars, Inv, QueueInv
    <3> QED  BY <3>1, <3>2
  <2>3. CASE Added
    <3>1. /\ connect_queue' = connect_queue
          /\ failed_queue' = failed_queue \/ \E r \in addr : failed_queue' = Append(failed_queue, r)
      BY <2>3 DEF Added
    <3>2. ASSUME NEW r \in Requests PROVE Append(failed_queue, r) \in Seq(Requests)
      BY SMT DEF Inv, QueueInv
    <3> QED  BY <3>1, <3>2 DEF Inv, QueueInv, AddInv
  <2>4. CASE UNCHANGED queueVars
    BY <2>4 DEF queueVars, Inv, QueueInv
  <2> QED  BY <2>1, <2>2, <2>3, <2>4 DEF ConnectStep, ConnectTest, PopWaits, PopTimesOut,
              Connecting, Connected, NotConnected, SocketAnswered
<1> QED  BY <1>3, <1>5, <1>6 DEF Inv

-----------------------------------------------------------------------------
(* Start and Stop.  Only the steps that begin a call of the group, or go on*)
(* when one has returned, change the phase.                                *)
LEMMA AddKept ==
  ASSUME Inv, UNCHANGED <<queueVars, addr, addVars>>,
         UNCHANGED <<m_state, main>> \/ \A u \in Users : adding[u] = "idle",
         UNCHANGED connect \/ (addr = {} /\ adding[ConnectThread] = "idle")
  PROVE  AddInv' /\ QueueInv'
  BY DEF addVars, queueVars, Inv, AddInv, QueueInv

LEMMA StartInv ==
  ASSUME Inv, NEW n \in 1..MaxLoops, Start(n)
  PROVE  Inv'
<1>1. /\ main = "idle" /\ m_state = "STOPPED" /\ m_loop_num' = n /\ main' = "start_group"
      /\ GroupStart /\ UNCHANGED <<m_state, queueVars, connectVars, addVars>>
  BY DEF Start
<1>2. Phase = "resting" /\ Phase' = "starting"
  BY <1>1 DEF Phase
<1>3. GroupInv'
  <2>1. n \in Nat
    BY ClientAssumption, SMT
  <2> QED  BY <1>1, <1>2, <2>1, GroupStarts DEF Inv, GroupInv
<1>4. OwnerInv'
  BY <1>1, <1>2, ClientAssumption, SMT DEF connectVars, Inv, OwnerInv
<1>5. AddInv' /\ QueueInv'
  BY <1>1, AddKept DEF connectVars, Inv, AddInv
<1> QED  BY <1>3, <1>4, <1>5 DEF Inv

LEMMA OwnerStepInv ==
  ASSUME Inv, OwnerGoesOn \/ Stop
  PROVE  Inv'
<1>1. CASE StartThread
  <2>1. /\ main = "start_group" /\ main' = "set_started" /\ connect' = "test" /\ GroupIdle
        /\ UNCHANGED <<m_state, m_loop_num, queueVars, addr, addVars, groupVars>>
    BY <1>1 DEF StartThread
  <2>2. Phase = "starting" /\ Phase' = "serving"
    BY <2>1 DEF Phase
  <2>3. connect = "none" /\ adding[ConnectThread] = "idle" /\ addr = {}
        /\ \A u \in Users : adding[u] = "idle"
    BY <2>1, <2>2 DEF Inv, OwnerInv, AddInv
  <2>4. InPhase("serving", m_loop_num)
    BY <2>1, <2>2, GroupReturns DEF Inv, GroupInv
  <2>5. GroupInv'
    BY <2>1, <2>2, <2>4, GroupUnchanged DEF Inv, GroupInv
  <2>6. OwnerInv'
    BY <2>1, <2>2 DEF Inv, OwnerInv
  <2>7. AddInv' /\ QueueInv'
    BY <2>1, <2>3, AddKept
  <2> QED  BY <2>5, <2>6, <2>7 DEF Inv
<1>2. CASE SetStarted
  <2>1. /\ main = "set_started" /\ main' = "idle" /\ m_state' = "STARTED"
        /\ UNCHANGED <<m_loop_num, queueVars, connectVars, addVars, groupVars>>
    BY <1>2 DEF SetStarted
  <2>2. Phase = "serving" /\ Phase' = "serving"
    BY <2>1 DEF Phase
  <2>3. GroupInv'
    BY <2>1, <2>2, GroupUnchanged DEF Inv, GroupInv
  <2>4. OwnerInv'
    BY <2>1, <2>2 DEF connectVars, Inv, OwnerInv
  <2>5. \A u \in Users : adding[u] = "idle"
    BY <2>1 DEF Inv, AddInv
  <2>6. AddInv' /\ QueueInv'
    BY <2>1, <2>5, AddKept DEF connectVars
  <2> QED  BY <2>3, <2>4, <2>6 DEF Inv
<1>3. CASE Stop
  <2>1. /\ main = "idle" /\ m_state = "STARTED" /\ main' = "join" /\ m_state' = "STOPPING"
        /\ \A u \in Users : adding[u] = "idle"
        /\ UNCHANGED <<m_loop_num, queueVars, connectVars, addVars, groupVars>>
    BY <1>3 DEF Stop
  <2>2. Phase = "serving" /\ Phase' = "serving"
    BY <2>1 DEF Phase
  <2>3. GroupInv'
    BY <2>1, <2>2, GroupUnchanged DEF Inv, GroupInv
  <2>4. OwnerInv'
    BY <2>1, <2>2 DEF connectVars, Inv, OwnerInv
  <2>5. AddInv' /\ QueueInv'
    BY <2>1, AddKept DEF connectVars
  <2> QED  BY <2>3, <2>4, <2>5 DEF Inv
<1>4. CASE JoinConnect
  <2>1. /\ main = "join" /\ main' = "stop_group" /\ connect = "exited" /\ connect' = "none"
        /\ GroupStop /\ UNCHANGED <<m_state, m_loop_num, queueVars, addr, addVars>>
    BY <1>4 DEF JoinConnect
  <2>2. Phase = "serving" /\ Phase' = "stopping"
    BY <2>1 DEF Phase
  <2>3. adding[ConnectThread] = "idle" /\ addr = {} /\ \A u \in Users : adding[u] = "idle"
    BY <2>1 DEF Inv, AddInv
  <2>4. GroupInv'
    BY <2>1, <2>2, GroupStops DEF Inv, GroupInv
  <2>5. OwnerInv'
    BY <2>1, <2>2 DEF Inv, OwnerInv
  <2>6. AddInv' /\ QueueInv'
    BY <2>1, <2>3, AddKept
  <2> QED  BY <2>4, <2>5, <2>6 DEF Inv
<1>5. CASE SetStopped
  <2>1. /\ main = "stop_group" /\ main' = "idle" /\ m_state' = "STOPPED" /\ GroupIdle
        /\ UNCHANGED <<m_loop_num, queueVars, connectVars, addVars, groupVars>>
    BY <1>5 DEF SetStopped
  <2>2. Phase = "stopping" /\ Phase' = "resting"
    BY <2>1 DEF Phase
  <2>3. InPhase("resting", m_loop_num)
    BY <2>1, <2>2, GroupReturns DEF Inv, GroupInv
  <2>4. GroupInv'
    BY <2>1, <2>2, <2>3, GroupUnchanged DEF Inv, GroupInv
  <2>5. OwnerInv'
    BY <2>1, <2>2 DEF connectVars, Inv, OwnerInv
  <2>6. \A u \in Users : adding[u] = "idle"
    BY <2>1 DEF Inv, AddInv
  <2>7. AddInv' /\ QueueInv'
    BY <2>1, <2>6, AddKept DEF connectVars
  <2> QED  BY <2>4, <2>5, <2>7 DEF Inv
<1>6. CASE GroupGoesOn
  <2>1. GroupStep(m_loop_num) /\ UNCHANGED <<m_state, main, m_loop_num, queueVars, connectVars, addVars>>
    BY <1>6 DEF GroupGoesOn, ownerVars
  <2>2. Phase' = Phase
    BY <2>1 DEF Phase
  <2>3. m_loop_num \in Nat
    BY ClientAssumption, SMT DEF Inv, OwnerInv
  <2>4. GroupInv'
    BY <2>1, <2>2, <2>3, GroupSteps DEF Inv, GroupInv
  <2>5. OwnerInv'
    BY <2>1, <2>2 DEF connectVars, Inv, OwnerInv
  <2>6. AddInv' /\ QueueInv'
    BY <2>1, AddKept DEF connectVars
  <2> QED  BY <2>4, <2>5, <2>6 DEF Inv
<1> QED  BY <1>1, <1>2, <1>3, <1>4, <1>5, <1>6 DEF OwnerGoesOn

(* The loops' threads.                                                     *)
LEMMA LoopThreadInv ==
  ASSUME Inv, NEW i \in 1..Len(m_loops),
         LoopExits(i) \/ \E c \in m_loops[i].handlers : LoopCloses(i, c),
         UNCHANGED <<ownerVars, queueVars, connectVars, addVars>>
  PROVE  Inv'
<1>1. Phase' = Phase
  BY DEF ownerVars, Phase
<1>2. GroupInv'
  BY <1>1, LoopThreadStep DEF ownerVars, Inv, GroupInv
<1>3. OwnerInv'
  BY <1>1 DEF ownerVars, connectVars, Inv, OwnerInv
<1>4. AddInv' /\ QueueInv'
  BY AddKept DEF ownerVars, connectVars
<1> QED  BY <1>2, <1>3, <1>4 DEF Inv

-----------------------------------------------------------------------------
LEMMA NextInv == Inv /\ [Next]_vars => Inv'
<1> SUFFICES ASSUME Inv, [Next]_vars PROVE Inv'
  OBVIOUS
<1>1. CASE \E n \in 1..MaxLoops : Start(n)
  BY <1>1, StartInv
<1>2. CASE OwnerGoesOn \/ Stop
  BY <1>2, OwnerStepInv
<1>3. CASE \E r \in Requests : AddAddress(r)
  BY <1>3, AddAddressInv
<1>4. CASE \E u \in Users, s \in Streams : AddStream(u, s)
  BY <1>4, AddStreamInv
<1>5. CASE ConnectStep \/ SocketAnswered
  BY <1>5, ConnectStepInv
<1>6. CASE \E t \in Adders : AddStep(t)
  BY <1>6, AddStepInv
<1>7. CASE LoopThreadCloses
  BY <1>7, LoopThreadInv DEF LoopThreadCloses
<1>8. CASE \E i \in 1..MaxLoops : LoopThreadExits(i)
  <2>1. PICK i \in 1..MaxLoops : LoopThreadExits(i)
    BY <1>8
  <2>2. Len(m_loops) \in Nat
    BY SMT DEF Inv, GroupInv, GroupShape
  <2>3. i \in 1..Len(m_loops)
    BY <2>1, <2>2, ClientAssumption, SMT DEF LoopThreadExits
  <2> QED  BY <2>1, <2>3, LoopThreadInv DEF LoopThreadExits
<1>9. CASE UNCHANGED vars
  <2>1. GroupInv' /\ OwnerInv'
    BY <1>9, OwnerKept DEF vars, connectVars
  <2>2. AddInv' /\ QueueInv'
    BY <1>9, AddKept DEF vars, ownerVars, connectVars
  <2> QED  BY <2>1, <2>2 DEF Inv
<1> QED  BY <1>1, <1>2, <1>3, <1>4, <1>5, <1>6, <1>7, <1>8, <1>9 DEF Next

LEMMA Invariance == Spec => []Inv
  BY InitInv, NextInv, PTL DEF Spec, Safety

(* Whoever adds a stream gives it to a loop that runs and that nobody      *)
(* stops, and to one that the group has (tcp_client.cpp:56-58), whatever   *)
(* the unprotected counter of several threads holds.                       *)
THEOREM AddersAreSafe == Spec => []AddSafe
<1>1. Inv => AddSafe
  <2> SUFFICES ASSUME Inv, NEW t \in Adders, adding[t] \in {"read_index", "write_index", "create"}
               PROVE  /\ m_loop_num = Len(m_loops)
                      /\ \A i \in 1..m_loop_num : MayRegister(i)
                      /\ Chosen(t) \in 1..m_loop_num
    BY DEF AddSafe
  <2>1. adding[t] # "idle"
    OBVIOUS
  <2>2. AllRun(m_loop_num) /\ Len(m_loops) = m_loop_num
    BY <2>1, AddersServed
  <2> QED  BY <2>1, <2>2, ChosenInGroup DEF AllRun, Runs, MayRegister
<1> QED  BY <1>1, Invariance, PTL

(* A client that is stopped has no thread, nobody is in Add, and its loops *)
(* rest (tcp_client.cpp:43-53).                                            *)
THEOREM StopLeavesQuiet == Spec => []StoppedQuiet
<1>1. Inv => StoppedQuiet
  <2> SUFFICES ASSUME Inv, m_state = "STOPPED", main = "idle" PROVE StoppedQuiet
    BY DEF StoppedQuiet
  <2>1. Phase = "resting"
    BY DEF Phase
  <2>2. connect = "none" /\ addr = {}
    BY <2>1 DEF Inv, OwnerInv, AddInv
  <2>3. \A t \in Adders : adding[t] = "idle" /\ stream[t] = {}
    BY <2>2 DEF Inv, AddInv, Adders
  <2>4. GroupQuiet
    BY <2>1 DEF Inv, GroupInv, InPhase, AllRest, Rests, GroupIdle, GroupQuiet
  <2> QED  BY <2>2, <2>3, <2>4 DEF StoppedQuiet
<1> QED  BY <1>1, Invariance, PTL

-----------------------------------------------------------------------------
(* Connector::Connect.  It is called by the connect thread only; between   *)
(* SocketUtil::Open and its return there is a socket.                      *)
SocketInv ==
  /\ ConnectorTypeOK /\ SocketKept
  /\ connector \in {"connect", "poll", "close"} => socket # "none"
  /\ connect # "connect" => connector = "idle"

LEMMA ConnectorKept ==
  ASSUME SocketInv, connect' = connect, ConnectorStep \/ PeerAnswers
  PROVE  SocketInv'
<1> USE DEF SocketInv, ConnectorTypeOK, SocketKept
<1>1. CASE OpenSocket
  BY <1>1 DEF OpenSocket, SocketOpen
<1>2. CASE ConnectFirst
  BY <1>2 DEF ConnectFirst
<1>3. CASE ConnectAgain
  BY <1>3 DEF ConnectAgain
<1>4. CASE Select
  BY <1>4 DEF Select
<1>5. CASE CloseSocket
  BY <1>5 DEF CloseSocket
<1>6. CASE PeerAnswers
  BY <1>6 DEF PeerAnswers
<1> QED  BY <1>1, <1>2, <1>3, <1>4, <1>5, <1>6 DEF ConnectorStep

LEMMA SocketNext == Inv /\ SocketInv /\ [Next]_vars => SocketInv'
<1> SUFFICES ASSUME Inv, SocketInv, [Next]_vars PROVE SocketInv'
  OBVIOUS
<1> USE DEF SocketInv, ConnectorTypeOK, SocketKept
<1>1. CASE UNCHANGED connectVars
  BY <1>1 DEF connectVars, connectorVars
<1>2. CASE StartThread \/ JoinConnect
  BY <1>2 DEF StartThread, JoinConnect, connectorVars, Inv, OwnerInv, Phase
<1>3. CASE ConnectTest \/ PopWaits \/ PopTimesOut \/ Requeue \/ Added
  BY <1>3 DEF ConnectTest, PopWaits, PopTimesOut, Requeue, Added, connectorVars
<1>4. CASE PopAddress
  BY <1>4 DEF PopAddress, ConnectCalled
<1>5. CASE Connecting \/ SocketAnswered
  <2>1. connect' = connect /\ (ConnectorStep \/ PeerAnswers)
    BY <1>5 DEF Connecting, SocketAnswered
  <2> QED  BY <2>1, ConnectorKept
<1>6. CASE Connected \/ NotConnected
  BY <1>6 DEF Connected, NotConnected, StreamReturned
<1>7. CASE \E n \in 1..MaxLoops : Start(n)
  BY <1>1, <1>7 DEF Start
<1>8. CASE SetStarted \/ Stop \/ SetStopped \/ GroupGoesOn
  BY <1>1, <1>8 DEF SetStarted, Stop, SetStopped, GroupGoesOn
<1>9. CASE \/ \E r \in Requests : AddAddress(r)
           \/ \E u \in Users, s \in Streams : AddStream(u, s)
           \/ \E t \in Adders : AddStep(t)
  BY <1>1, <1>9 DEF AddAddress, AddStream, AddStep, ReadIndex, WriteIndex, CreateHandler
<1>10. CASE LoopThreadCloses \/ \E i \in 1..MaxLoops : LoopThreadExits(i)
  BY <1>1, <1>10 DEF LoopThreadCloses, LoopThreadExits
<1> QED  BY <1>1, <1>2, <1>3, <1>4, <1>5, <1>6, <1>7, <1>8, <1>9, <1>10
         DEF Next, OwnerGoesOn, ConnectStep, vars

(* Whatever fails on the way, Connect leaves no socket open that the caller*)
(* does not get, and gives the caller only connections that are made       *)
(* (connector.cpp:29-59).                                                  *)
THEOREM NoSocketLeft == Spec => []SocketKept
<1>1. Init => SocketInv
  BY DEF Init, InitConnector, SocketInv, ConnectorTypeOK, SocketKept
<1>2. SocketInv => SocketKept
  BY DEF SocketInv
<1> QED  BY <1>1, <1>2, SocketNext, Invariance, PTL DEF Spec, Safety

-----------------------------------------------------------------------------
(* What is added waits in one place at most, and is never lost.  The queues*)
(* are seen as the sets of what occurs in them, once each.                 *)
Occurs(s, c) == \E i \in 1..Len(s) : s[i] = c
Once(s) == \A i, j \in 1..Len(s) : s[i] = s[j] => i = j

LEMMA OccursIn ==
  ASSUME NEW S, NEW s \in Seq(S), NEW c, Occurs(s, c)
  PROVE  c \in S
  BY SMT DEF Occurs

LEMMA OccursAppend ==
  ASSUME NEW S, NEW s \in Seq(S), NEW r \in S
  PROVE  /\ \A c : Occurs(Append(s, r), c) <=> Occurs(s, c) \/ c = r
         /\ Once(s) /\ ~Occurs(s, r) => Once(Append(s, r))
<1>1. /\ Len(s) \in Nat /\ Len(Append(s, r)) = Len(s) + 1
      /\ \A i \in 1..Len(s) : Append(s, r)[i] = s[i]
      /\ Append(s, r)[Len(s) + 1] = r
  BY SMT
<1>2. 1..Len(s) + 1 = (1..Len(s)) \cup {Len(s) + 1}
  BY <1>1, SMT
<1>3. \A c : Occurs(Append(s, r), c) <=> Occurs(s, c) \/ c = r
  BY <1>1, <1>2 DEF Occurs
<1>4. ASSUME Once(s), ~Occurs(s, r) PROVE Once(Append(s, r))
  BY <1>1, <1>2, <1>4 DEF Occurs, Once
<1> QED  BY <1>3, <1>4

LEMMA OccursTail ==
  ASSUME NEW S, NEW s \in Seq(S), s # << >>
  PROVE  /\ Occurs(s, Head(s)) /\ Head(s) \in S
         /\ \A c : Occurs(s, c) <=> Occurs(Tail(s), c) \/ c = Head(s)
         /\ Once(s) => Once(Tail(s)) /\ ~Occurs(Tail(s), Head(s))
<1>1. /\ Len(s) \in Nat \ {0} /\ Head(s) = s[1] /\ Head(s) \in S
      /\ Len(Tail(s)) = Len(s) - 1
      /\ \A i \in 1..Len(Tail(s)) : Tail(s)[i] = s[i + 1]
  BY SMT
<1>2. /\ 1 \in 1..Len(s)
      /\ \A i \in 1..Len(s) - 1 : i + 1 \in 1..Len(s) /\ i + 1 # 1
      /\ \A i \in 1..Len(s) : i # 1 => i - 1 \in 1..Len(s) - 1 /\ (i - 1) + 1 = i
      /\ \A i, j \in 1..Len(s) - 1 : i + 1 = j + 1 => i = j
  BY <1>1, SMT
<1>3. \A c : Occurs(s, c) => Occurs(Tail(s), c) \/ c = Head(s)
  <2> SUFFICES ASSUME NEW i \in 1..Len(s), i # 1 PROVE Occurs(Tail(s), s[i])
    BY <1>1 DEF Occurs
  <2>1. i - 1 \in 1..Len(Tail(s)) /\ Tail(s)[i - 1] = s[i]
    BY <1>1, <1>2
  <2> QED  BY <2>1 DEF Occurs
<1>4. \A c : Occurs(Tail(s), c) \/ c = Head(s) => Occurs(s, c)
  BY <1>1, <1>2 DEF Occurs
<1>5. ASSUME Once(s) PROVE Once(Tail(s)) /\ ~Occurs(Tail(s), Head(s))
  BY <1>1, <1>2, <1>5 DEF Occurs, Once
<1> QED  BY <1>1, <1>3, <1>4, <1>5

OnePlace ==
  /\ Once(connect_queue) /\ Once(failed_queue)
  /\ \A c : Occurs(connect_queue, c) => c \notin fresh \cup addr
  /\ \A c : Occurs(failed_queue, c) => c \notin fresh \cup addr /\ ~Occurs(connect_queue, c)
  /\ addr \cap fresh = {} /\ \A a, b \in addr : a = b
  /\ stream[ConnectThread] \subseteq addr
  /\ \A u \in Users : stream[u] \subseteq Streams \ fresh /\ \A a, b \in stream[u] : a = b
  /\ \A u, v \in Users : u # v => stream[u] \cap stream[v] = {}

Kept == HandlersOf(m_loops) \cup over

SomePlace ==
  \A c \in Conns : \/ c \in fresh \/ Occurs(connect_queue, c) \/ Occurs(failed_queue, c)
                   \/ c \in addr \/ \E u \in Users : c \in stream[u]
                   \/ c \in Kept

(* The handler that Add has registered bears the address in hand.          *)
AddedInv == adding[ConnectThread] = "added" => addr \subseteq Kept

PlaceInv == OnePlace /\ SomePlace /\ AddedInv

LEMMA PlaceInit == Init => PlaceInv
<1> SUFFICES ASSUME Init PROVE PlaceInv
  OBVIOUS
<1>1. \A c : ~Occurs(<< >>, c)
  BY SMT DEF Occurs
<1>2. Once(<< >>)
  BY SMT DEF Once
<1>3. /\ connect_queue = << >> /\ failed_queue = << >> /\ addr = {} /\ fresh = Conns
      /\ \A t \in Adders : stream[t] = {}
      /\ adding[ConnectThread] = "idle"
  BY DEF Init, Adders, Conns
<1>4. OnePlace
  BY <1>1, <1>2, <1>3 DEF OnePlace, Adders
<1> QED  BY <1>3, <1>4 DEF PlaceInv, SomePlace, AddedInv

(* Steps that move nothing, and may at most end the life of a connection.  *)
LEMMA PlacesKept ==
  ASSUME PlaceInv, UNCHANGED <<queueVars, addr, stream, fresh>>, Kept \subseteq Kept',
         adding'[ConnectThread] = "added" => adding[ConnectThread] = "added"
  PROVE  PlaceInv'
<1>1. OnePlace'
  BY DEF PlaceInv, OnePlace, queueVars, Once, Occurs
<1>2. SomePlace'
  BY DEF PlaceInv, SomePlace, queueVars, Occurs
<1>3. AddedInv'
  BY DEF PlaceInv, AddedInv
<1> QED  BY <1>1, <1>2, <1>3 DEF PlaceInv

LEMMA AddAddressPlaces ==
  ASSUME Inv, PlaceInv, NEW r \in Requests, AddAddress(r)
  PROVE  PlaceInv'
<1>1. /\ r \in fresh /\ fresh' = fresh \ {r} /\ connect_queue' = Append(connect_queue, r)
      /\ UNCHANGED <<failed_queue, addr, stream, adding>> /\ Kept' = Kept
  BY DEF AddAddress, connectVars, addVars, groupVars, Kept
<1>2. connect_queue \in Seq(Requests) /\ ~Occurs(connect_queue, r) /\ ~Occurs(failed_queue, r)
  BY <1>1 DEF Inv, QueueInv, PlaceInv, OnePlace
<1>3. /\ \A c : Occurs(connect_queue', c) <=> Occurs(connect_queue, c) \/ c = r
      /\ Once(connect_queue')
  BY <1>1, <1>2, OccursAppend DEF PlaceInv, OnePlace
<1>4. /\ \A c : Occurs(failed_queue', c) <=> Occurs(failed_queue, c)
      /\ Once(failed_queue')
  BY <1>1 DEF PlaceInv, OnePlace
<1>5. OnePlace'
  BY <1>1, <1>2, <1>3, <1>4 DEF PlaceInv, OnePlace
<1>6. SomePlace'
  BY <1>1, <1>3, <1>4 DEF PlaceInv, SomePlace
<1>7. AddedInv'
  BY <1>1 DEF PlaceInv, AddedInv
<1> QED  BY <1>5, <1>6, <1>7 DEF PlaceInv

LEMMA AddStreamPlaces ==
  ASSUME Inv, PlaceInv, NEW u \in Users, NEW s \in Streams, AddStream(u, s)
  PROVE  PlaceInv'
<1>1. /\ s \in fresh /\ fresh' = fresh \ {s} /\ stream' = [stream EXCEPT ![u] = {s}]
      /\ adding[u] = "idle" /\ adding' = [adding EXCEPT ![u] = "read_index"]
      /\ UNCHANGED <<connect_queue, failed_queue, addr>> /\ Kept' = Kept
  BY DEF AddStream, connectVars, queueVars, groupVars, Kept
<1>2. /\ u # ConnectThread /\ u \in Adders /\ ConnectThread \in Adders
      /\ stream \in [Adders -> SUBSET Conns]
      /\ adding \in [Adders -> {"idle", "read_index", "write_index", "create", "added", "refused"}]
  BY ClientAssumption DEF Inv, AddInv, Adders
<1>3. /\ stream'[u] = {s} /\ \A t \in Adders : t # u => stream'[t] = stream[t]
      /\ adding'[ConnectThread] = adding[ConnectThread] /\ stream[u] = {}
  BY <1>1, <1>2 DEF Inv, AddInv
<1>4. OnePlace'
  <2>1. /\ Once(connect_queue') /\ Once(failed_queue')
        /\ \A c : Occurs(connect_queue', c) => c \notin fresh' \cup addr'
        /\ \A c : Occurs(failed_queue', c) => c \notin fresh' \cup addr' /\ ~Occurs(connect_queue', c)
        /\ addr' \cap fresh' = {} /\ \A a, b \in addr' : a = b
    BY <1>1 DEF PlaceInv, OnePlace
  <2>2. stream'[ConnectThread] \subseteq addr'
    BY <1>1, <1>2, <1>3 DEF PlaceInv, OnePlace
  <2>3. ASSUME NEW v \in Users
        PROVE  stream'[v] \subseteq Streams \ fresh' /\ \A a, b \in stream'[v] : a = b
    <3>1. CASE v = u
      BY <1>1, <1>3, <3>1
    <3>2. CASE v # u
      BY <1>1, <1>3, <3>2 DEF PlaceInv, OnePlace, Adders
    <3> QED  BY <3>1, <3>2
  <2>4. ASSUME NEW v \in Users, NEW w \in Users, v # w PROVE stream'[v] \cap stream'[w] = {}
    <3>1. \A x \in Users : x # u => stream'[x] = stream[x] /\ s \notin stream[x]
      BY <1>1, <1>3 DEF PlaceInv, OnePlace, Adders
    <3> QED  BY <1>3, <2>4, <3>1 DEF PlaceInv, OnePlace
  <2> QED  BY <2>1, <2>2, <2>3, <2>4 DEF OnePlace
<1>5. SomePlace'
  <2>1. ASSUME NEW v \in Users PROVE stream[v] \subseteq stream'[v]
    BY <1>3 DEF Adders
  <2> QED  BY <1>1, <1>3, <2>1 DEF PlaceInv, SomePlace
<1>6. AddedInv'
  BY <1>1, <1>3 DEF PlaceInv, AddedInv
<1> QED  BY <1>4, <1>5, <1>6 DEF PlaceInv

LEMMA CreateHandlerPlaces ==
  ASSUME Inv, PlaceInv, NEW t \in Adders, CreateHandler(t)
  PROVE  PlaceInv'
<1>1. /\ adding[t] = "create" /\ stream' = [stream EXCEPT ![t] = {}]
      /\ UNCHANGED <<connect_queue, failed_queue, addr, fresh>>
  BY DEF CreateHandler, queueVars, connectVars
<1>2. /\ t \in Adders /\ ConnectThread \in Adders /\ ConnectThread \notin Users
      /\ stream \in [Adders -> SUBSET Conns]
      /\ adding \in [Adders -> {"idle", "read_index", "write_index", "create", "added", "refused"}]
      /\ m_loops \in Seq(LoopRecord(Conns))
  BY ClientAssumption DEF Inv, AddInv, Adders, GroupInv, GroupShape
<1>3. stream'[t] = {} /\ \A v \in Adders : v # t => stream'[v] = stream[v]
  BY <1>1, <1>2
<1>4. ASSUME NEW s \in stream[t], RegisterWith(Chosen(t), s)
      PROVE  HandlersOf(m_loops) \cup {s} \subseteq HandlersOf(m_loops')
  <2>1. Chosen(t) \in 1..Len(m_loops)
    BY <1>1, AddersServed, ChosenInGroup
  <2>2. s \in Conns
    BY <1>2
  <2> QED  BY <1>2, <1>4, <2>1, <2>2, RegisterKeepsHandlers
<1>5. /\ Kept \subseteq Kept'
      /\ t # ConnectThread => stream[t] \subseteq Kept'
      /\ t = ConnectThread /\ adding'[t] = "added" => addr \subseteq Kept'
      /\ t # ConnectThread => adding'[ConnectThread] = adding[ConnectThread]
  <2>1. PICK made \in BOOLEAN, ok \in BOOLEAN :
          /\ ok => made
          /\ IF made THEN \E s \in stream[t] : RegisterWith(Chosen(t), s)
                     ELSE UNCHANGED groupVars
          /\ over' = IF made \/ t = ConnectThread THEN over ELSE over \cup stream[t]
          /\ adding' = [adding EXCEPT ![t] = IF t # ConnectThread THEN "idle"
                                             ELSE IF ok THEN "added" ELSE "refused"]
    BY DEF CreateHandler
  <2>2. adding'[t] = IF t # ConnectThread THEN "idle" ELSE IF ok THEN "added" ELSE "refused"
    BY <1>2, <2>1
  <2>3. t # ConnectThread => adding'[ConnectThread] = adding[ConnectThread]
    BY <1>2, <2>1
  <2>4. CASE made
    <3>1. PICK s \in stream[t] : RegisterWith(Chosen(t), s)
      BY <2>1, <2>4
    <3>2. HandlersOf(m_loops) \cup {s} \subseteq HandlersOf(m_loops')
      BY <1>4, <3>1
    <3>3. over \subseteq over'
      BY <2>1, <2>4
    <3>4. t # ConnectThread => stream[t] = {s}
      BY <3>1 DEF PlaceInv, OnePlace, Adders
    <3>5. t = ConnectThread => addr = {s}
      BY <3>1 DEF PlaceInv, OnePlace
    <3> QED  BY <2>3, <3>2, <3>3, <3>4, <3>5 DEF Kept
  <2>5. CASE ~made
    <3>1. m_loops' = m_loops /\ over \subseteq over'
      BY <2>1, <2>5 DEF groupVars
    <3>2. t # ConnectThread => stream[t] \subseteq over'
      BY <2>1, <2>5
    <3>3. t = ConnectThread => adding'[t] # "added"
      BY <2>1, <2>2, <2>5
    <3> QED  BY <2>3, <3>1, <3>2, <3>3 DEF Kept
  <2> QED  BY <2>4, <2>5
<1>6. OnePlace'
  <2>1. /\ Once(connect_queue') /\ Once(failed_queue')
        /\ \A c : Occurs(connect_queue', c) => c \notin fresh' \cup addr'
        /\ \A c : Occurs(failed_queue', c) => c \notin fresh' \cup addr' /\ ~Occurs(connect_queue', c)
        /\ addr' \cap fresh' = {} /\ \A a, b \in addr' : a = b
    BY <1>1 DEF PlaceInv, OnePlace
  <2>2. \A v \in Adders : stream'[v] \subseteq stream[v]
    BY <1>3
  <2>3. ConnectThread \in Adders /\ \A u \in Users : u \in Adders
    BY DEF Adders
  <2> QED  BY <1>1, <2>1, <2>2, <2>3 DEF PlaceInv, OnePlace
<1>7. SomePlace'
  <2> SUFFICES ASSUME NEW c \in Conns, c \notin fresh, ~Occurs(connect_queue, c),
                      ~Occurs(failed_queue, c), c \notin addr, c \notin Kept
               PROVE  c \in Kept' \/ \E u \in Users : c \in stream'[u]
    BY <1>1, <1>5 DEF SomePlace
  <2>1. PICK u \in Users : c \in stream[u]
    BY DEF PlaceInv, SomePlace
  <2> QED  BY <1>2, <1>3, <1>5, <2>1 DEF Adders
<1>8. AddedInv'
  BY <1>1, <1>5 DEF PlaceInv, AddedInv
<1> QED  BY <1>6, <1>7, <1>8 DEF PlaceInv

LEMMA AddStepPlaces ==
  ASSUME Inv, PlaceInv, NEW t \in Adders, AddStep(t)
  PROVE  PlaceInv'
<1>1. ASSUME ReadIndex(t) \/ WriteIndex(t) PROVE PlaceInv'
  <2>1. /\ UNCHANGED <<queueVars, addr, stream, fresh>> /\ Kept' = Kept
        /\ adding' = [adding EXCEPT ![t] = "write_index"] \/ adding' = [adding EXCEPT ![t] = "create"]
    BY <1>1 DEF ReadIndex, WriteIndex, connectVars, ghostVars, groupVars, Kept
  <2>2. adding'[ConnectThread] = "added" => adding[ConnectThread] = "added"
    BY <2>1 DEF Inv, AddInv, Adders
  <2> QED  BY <2>1, <2>2, PlacesKept
<1> QED  BY <1>1, CreateHandlerPlaces DEF AddStep

LEMMA PopAddressPlaces ==
  ASSUME Inv, PlaceInv, PopAddress
  PROVE  PlaceInv'
<1>1. /\ connect \in {"pop", "wait"} /\ connect_queue # << >>
      /\ addr' = {Head(connect_queue)} /\ connect_queue' = Tail(connect_queue)
      /\ UNCHANGED <<failed_queue, adding, stream, fresh>> /\ Kept' = Kept
  BY DEF PopAddress, addVars, ghostVars, groupVars, Kept
<1>2. addr = {} /\ adding[ConnectThread] = "idle" /\ stream[ConnectThread] = {}
  BY <1>1 DEF Inv, AddInv, Adders
<1>3. connect_queue \in Seq(Requests)
  BY DEF Inv, QueueInv
<1>4. /\ Occurs(connect_queue, Head(connect_queue))
      /\ \A c : Occurs(connect_queue, c) <=> Occurs(connect_queue', c) \/ c = Head(connect_queue)
      /\ Once(connect_queue') /\ ~Occurs(connect_queue', Head(connect_queue))
  BY <1>1, <1>3, OccursTail DEF PlaceInv, OnePlace
<1>5. OnePlace'
  BY <1>1, <1>2, <1>4 DEF PlaceInv, OnePlace
<1>6. SomePlace'
  BY <1>1, <1>2, <1>4 DEF PlaceInv, SomePlace
<1>7. AddedInv'
  BY <1>1, <1>2 DEF AddedInv
<1> QED  BY <1>5, <1>6, <1>7 DEF PlaceInv

LEMMA RequeuePlaces ==
  ASSUME Inv, PlaceInv, Requeue
  PROVE  PlaceInv'
<1>1. /\ connect = "requeue" /\ UNCHANGED <<addr, adding, stream, fresh>> /\ Kept' = Kept
  BY DEF Requeue, addVars, ghostVars, groupVars, Kept
<1>2. CASE failed_queue = << >>
  BY <1>1, <1>2, PlacesKept DEF Requeue
<1>3. CASE failed_queue # << >>
  <2> DEFINE r == Head(failed_queue)
  <2>1. connect_queue' = Append(connect_queue, r) /\ failed_queue' = Tail(failed_queue)
    BY <1>3 DEF Requeue
  <2>2. connect_queue \in Seq(Requests) /\ failed_queue \in Seq(Requests)
    BY DEF Inv, QueueInv
  <2>3. /\ Occurs(failed_queue, r) /\ r \in Requests
        /\ \A c : Occurs(failed_queue, c) <=> Occurs(failed_queue', c) \/ c = r
        /\ Once(failed_queue') /\ ~Occurs(failed_queue', r)
    BY <1>3, <2>1, <2>2, OccursTail DEF PlaceInv, OnePlace
  <2> HIDE DEF r
  <2>4. /\ \A c : Occurs(connect_queue', c) <=> Occurs(connect_queue, c) \/ c = r
        /\ Once(connect_queue')
    BY <2>1, <2>2, <2>3, OccursAppend DEF PlaceInv, OnePlace
  <2>5. OnePlace'
    BY <1>1, <2>3, <2>4 DEF PlaceInv, OnePlace
  <2>6. SomePlace'
    BY <1>1, <2>3, <2>4 DEF PlaceInv, SomePlace
  <2>7. AddedInv'
    BY <1>1 DEF PlaceInv, AddedInv
  <2> QED  BY <2>5, <2>6, <2>7 DEF PlaceInv
<1> QED  BY <1>2, <1>3

LEMMA ConnectedPlaces ==
  ASSUME Inv, PlaceInv, Connected
  PROVE  PlaceInv'
<1>1. /\ stream' = [stream EXCEPT ![ConnectThread] = addr]
      /\ adding' = [adding EXCEPT ![ConnectThread] = "read_index"]
      /\ UNCHANGED <<connect_queue, failed_queue, addr, fresh>> /\ Kept' = Kept
  BY DEF Connected, queueVars, ghostVars, groupVars, Kept
<1>2. /\ ConnectThread \notin Users
      /\ \A u \in Users : stream'[u] = stream[u]
      /\ stream'[ConnectThread] = addr /\ adding'[ConnectThread] # "added"
  BY <1>1, ClientAssumption DEF Inv, AddInv, Adders
<1>3. OnePlace'
  BY <1>1, <1>2 DEF PlaceInv, OnePlace
<1>4. SomePlace' /\ AddedInv'
  BY <1>1, <1>2 DEF PlaceInv, SomePlace, AddedInv
<1> QED  BY <1>3, <1>4 DEF PlaceInv

LEMMA NotConnectedPlaces ==
  ASSUME Inv, PlaceInv, NotConnected
  PROVE  PlaceInv'
<1>1. /\ connect = "connect" /\ addr' = {} /\ over' = over \cup addr
      /\ UNCHANGED <<connect_queue, failed_queue, adding, stream, fresh, m_loops>>
  BY DEF NotConnected, queueVars, addVars, groupVars
<1>2. adding[ConnectThread] = "idle" /\ stream[ConnectThread] = {}
  BY <1>1 DEF Inv, AddInv, Adders
<1>3. Kept' = Kept \cup addr
  BY <1>1 DEF Kept
<1>4. OnePlace'
  BY <1>1, <1>2 DEF PlaceInv, OnePlace
<1>5. SomePlace' /\ AddedInv'
  BY <1>1, <1>2, <1>3 DEF PlaceInv, SomePlace, AddedInv
<1> QED  BY <1>4, <1>5 DEF PlaceInv

LEMMA AddedPlaces ==
  ASSUME Inv, PlaceInv, Added
  PROVE  PlaceInv'
<1>1. /\ adding[ConnectThread] \in {"added", "refused"} /\ addr' = {}
      /\ adding' = [adding EXCEPT ![ConnectThread] = "idle"]
      /\ UNCHANGED <<connect_queue, stream, fresh>> /\ Kept' = Kept
  BY DEF Added, ghostVars, groupVars, Kept
<1>2. stream[ConnectThread] = {} /\ adding'[ConnectThread] = "idle"
  BY <1>1 DEF Inv, AddInv, Adders
<1>3. CASE adding[ConnectThread] = "added"
  <2>1. failed_queue' = failed_queue /\ addr \subseteq Kept
    BY <1>3 DEF Added, PlaceInv, AddedInv
  <2>2. OnePlace'
    BY <1>1, <1>2, <2>1 DEF PlaceInv, OnePlace
  <2>3. SomePlace' /\ AddedInv'
    BY <1>1, <1>2, <2>1 DEF PlaceInv, SomePlace, AddedInv
  <2> QED  BY <2>2, <2>3 DEF PlaceInv
<1>4. CASE adding[ConnectThread] = "refused"
  <2>1. PICK r \in addr : failed_queue' = Append(failed_queue, r)
    BY <1>4 DEF Added
  <2>2. /\ r \in Requests /\ failed_queue \in Seq(Requests) /\ addr = {r}
        /\ ~Occurs(failed_queue, r) /\ ~Occurs(connect_queue, r) /\ r \notin fresh
    BY DEF Inv, AddInv, QueueInv, PlaceInv, OnePlace
  <2>3. /\ \A c : Occurs(failed_queue', c) <=> Occurs(failed_queue, c) \/ c = r
        /\ Once(failed_queue')
    BY <2>1, <2>2, OccursAppend DEF PlaceInv, OnePlace
  <2>4. OnePlace'
    BY <1>1, <1>2, <2>2, <2>3 DEF PlaceInv, OnePlace
  <2>5. SomePlace' /\ AddedInv'
    BY <1>1, <1>2, <2>2, <2>3 DEF PlaceInv, SomePlace, AddedInv
  <2> QED  BY <2>4, <2>5 DEF PlaceInv
<1> QED  BY <1>1, <1>3, <1>4

LEMMA ConnectStepPlaces ==
  ASSUME Inv, PlaceInv, ConnectStep \/ SocketAnswered
  PROVE  PlaceInv'
<1>1. CASE ConnectTest \/ PopWaits \/ PopTimesOut \/ Connecting \/ SocketAnswered
  <2>1. UNCHANGED <<queueVars, addr, stream, adding, fresh>> /\ Kept' = Kept
    BY <1>1 DEF ConnectTest, PopWaits, PopTimesOut, Connecting, SocketAnswered, addVars, ghostVars,
       groupVars, Kept
  <2> QED  BY <2>1, PlacesKept
<1> QED  BY <1>1, PopAddressPlaces, RequeuePlaces, ConnectedPlaces, NotConnectedPlaces, AddedPlaces
         DEF ConnectStep

LEMMA LoopsPlaces ==
  ASSUME Inv, PlaceInv, GroupGoesOn \/ LoopThreadCloses \/ \E i \in 1..MaxLoops : LoopThreadExits(i)
  PROVE  PlaceInv'
<1>1. UNCHANGED <<queueVars, addr, stream, adding, fresh>>
  BY DEF GroupGoesOn, LoopThreadCloses, LoopThreadExits, connectVars, addVars, ghostVars
<1>2. /\ m_loops \in Seq(LoopRecord(Conns)) /\ Len(m_loops) \in Nat
  BY SMT DEF Inv, GroupInv, GroupShape
<1>3. Kept \subseteq Kept'
  <2>1. CASE GroupGoesOn
    BY <2>1 DEF GroupGoesOn, Kept
  <2>2. CASE LoopThreadCloses
    <3>1. PICK i \in 1..Len(m_loops) :
            \E c \in m_loops[i].handlers : LoopCloses(i, c) /\ over' = over \cup {c}
      BY <2>2 DEF LoopThreadCloses
    <3>2. PICK c \in m_loops[i].handlers : LoopCloses(i, c) /\ over' = over \cup {c}
      BY <3>1
    <3> QED  BY <1>2, <3>2, LoopThreadKeepsHandlers DEF Kept
  <2>3. CASE \E i \in 1..MaxLoops : LoopThreadExits(i)
    <3>1. PICK i \in 1..MaxLoops : LoopThreadExits(i)
      BY <2>3
    <3>2. i \in 1..Len(m_loops) /\ LoopExits(i) /\ over' = over
      BY <1>2, <3>1, ClientAssumption, SMT DEF LoopThreadExits, ghostVars
    <3> QED  BY <1>2, <3>2, LoopThreadKeepsHandlers DEF Kept
  <2> QED  BY <2>1, <2>2, <2>3
<1> QED  BY <1>1, <1>3, PlacesKept

LEMMA PlaceNext == Inv /\ PlaceInv /\ [Next]_vars => PlaceInv'
<1> SUFFICES ASSUME Inv, PlaceInv, [Next]_vars PROVE PlaceInv'
  OBVIOUS
<1>1. CASE UNCHANGED <<queueVars, addr, addVars, ghostVars, m_loops>>
  BY <1>1, PlacesKept DEF addVars, ghostVars, Kept
<1>2. CASE \E n \in 1..MaxLoops : Start(n)
  BY <1>1, <1>2 DEF Start, GroupStart, connectVars
<1>3. CASE StartThread \/ SetStarted \/ Stop \/ SetStopped
  BY <1>1, <1>3 DEF StartThread, SetStarted, Stop, SetStopped, connectVars, groupVars
<1>4. CASE JoinConnect
  BY <1>1, <1>4 DEF JoinConnect, GroupStop
<1>5. CASE \E r \in Requests : AddAddress(r)
  BY <1>5, AddAddressPlaces
<1>6. CASE \E u \in Users, s \in Streams : AddStream(u, s)
  BY <1>6, AddStreamPlaces
<1>7. CASE \E t \in Adders : AddStep(t)
  BY <1>7, AddStepPlaces
<1>8. CASE UNCHANGED vars
  BY <1>1, <1>8 DEF vars, connectVars, groupVars
<1> QED  BY <1>2, <1>3, <1>4, <1>5, <1>6, <1>7, <1>8, ConnectStepPlaces, LoopsPlaces
         DEF Next, OwnerGoesOn

LEMMA AtMostOne ==
  ASSUME NEW S, \A x, y \in S : x = y
  PROVE  Cardinality(S) <= 1
<1>1. CASE S = {}
  <2>1. Cardinality(S) = 0
    BY <1>1, FS_EmptySet
  <2> QED  BY <2>1, SMT
<1>2. CASE S # {}
  <2>1. PICK x : S = {x}
    BY <1>2
  <2>2. Cardinality(S) = 1
    BY <2>1, FS_Singleton
  <2> QED  BY <2>2, SMT
<1> QED  BY <1>1, <1>2

LEMMA WaitingOnce ==
  ASSUME Inv, PlaceInv, NEW c
  PROVE  \A x, y \in Waiting(c) : x = y
<1> DEFINE InConnect == {<<"connect", i>> : i \in {j \in 1..Len(connect_queue) : connect_queue[j] = c}}
           InFailed == {<<"failed", i>> : i \in {j \in 1..Len(failed_queue) : failed_queue[j] = c}}
           Holds(t) == c \in stream[t] \cup (IF t = ConnectThread THEN addr ELSE {})
           InThread == {<<"thread", t>> : t \in {u \in Adders : Holds(u)}}
           AtUser == IF c \in fresh THEN {<<"user", c>>} ELSE {}
<1>1. Waiting(c) = InConnect \cup InFailed \cup InThread \cup AtUser
  BY DEF Waiting
<1>2. InConnect # {} => Occurs(connect_queue, c)
  BY DEF Occurs
<1>3. InFailed # {} => Occurs(failed_queue, c)
  BY DEF Occurs
<1>4. Occurs(connect_queue, c) \/ Occurs(failed_queue, c) => c \in Requests
  BY OccursIn DEF Inv, QueueInv
<1>5. Holds(ConnectThread) => c \in addr /\ c \in Requests
  BY DEF Inv, AddInv, PlaceInv, OnePlace
<1>6. \A u \in Users : Holds(u) => c \in Streams \ fresh /\ c \in stream[u] /\ c \notin Requests
  BY ClientAssumption DEF PlaceInv, OnePlace
<1>7. \A t \in Adders : t = ConnectThread \/ t \in Users
  BY DEF Adders
<1>8. ASSUME NEW x \in InConnect, NEW y \in InConnect PROVE x = y
  BY DEF PlaceInv, OnePlace, Once
<1>9. ASSUME NEW x \in InFailed, NEW y \in InFailed PROVE x = y
  BY DEF PlaceInv, OnePlace, Once
<1>10. ASSUME NEW t \in Adders, NEW u \in Adders, Holds(t), Holds(u) PROVE t = u
  BY <1>5, <1>6, <1>7, <1>10 DEF PlaceInv, OnePlace
<1>11. InThread # {} => \E t \in Adders : Holds(t)
  OBVIOUS
<1>12. InConnect # {} => InFailed = {} /\ InThread = {} /\ AtUser = {}
  BY <1>2, <1>3, <1>4, <1>5, <1>6, <1>7, <1>11 DEF PlaceInv, OnePlace
<1>13. InFailed # {} => InThread = {} /\ AtUser = {}
  BY <1>2, <1>3, <1>4, <1>5, <1>6, <1>7, <1>11 DEF PlaceInv, OnePlace
<1>14. InThread # {} => AtUser = {}
  BY <1>5, <1>6, <1>7, <1>11 DEF PlaceInv, OnePlace
<1>15. \A x, y \in InThread : x = y
  BY <1>10
<1>16. \A x, y \in AtUser : x = y
  OBVIOUS
<1> HIDE DEF InConnect, InFailed, InThread, AtUser
<1> QED  BY <1>1, <1>8, <1>9, <1>12, <1>13, <1>14, <1>15, <1>16

(* What was added waits in one place, once, or is connected, or is over:   *)
(* the failed queue, the requeueing and the drop of an address that cannot *)
(* be connected to neither lose nor double one (tcp_client.cpp:77-101).    *)
THEOREM NothingIsLost == Spec => []NothingLost
<1>1. Inv /\ PlaceInv => NothingLost
  <2> SUFFICES ASSUME Inv, PlaceInv, NEW c \in Conns
               PROVE  /\ Cardinality(Waiting(c)) <= 1
                      /\ Waiting(c) = {} => c \in HandlersOf(m_loops) \cup over
    BY DEF NothingLost, Conns
  <2>1. Cardinality(Waiting(c)) <= 1
    BY WaitingOnce, AtMostOne
  <2>2. ASSUME c \notin Kept PROVE Waiting(c) # {}
    <3>1. CASE c \in fresh
      BY <3>1 DEF Waiting
    <3>2. CASE Occurs(connect_queue, c)
      BY <3>2 DEF Waiting, Occurs
    <3>3. CASE Occurs(failed_queue, c)
      BY <3>3 DEF Waiting, Occurs
    <3>4. CASE c \in addr
      BY <3>4 DEF Waiting, Adders
    <3>5. CASE \E u \in Users : c \in stream[u]
      BY <3>5 DEF Waiting, Adders
    <3> QED  BY <2>2, <3>1, <3>2, <3>3, <3>4, <3>5 DEF PlaceInv, SomePlace
  <2> QED  BY <2>1, <2>2 DEF Kept
<1> QED  BY <1>1, PlaceInit, PlaceNext, Invariance, PTL DEF Spec, Safety
=============================================================================
