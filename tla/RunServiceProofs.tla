-------------------------- MODULE RunServiceProofs --------------------------
(***************************************************************************)
(* Proofs about RunService for any number of processes, clients, keys,     *)
(* targets, runs and crashes.                                              *)
(*                                                                         *)
(* Two inductive invariants: a lease and its loop come and go together;    *)
(* and the durable request, the key lock and the calls agree on the run    *)
(* of a key.                                                               *)
(***************************************************************************)
EXTENDS RunService, FiniteSetTheorems, TLAPS

-----------------------------------------------------------------------------
(* Leases and loops.                                                       *)

Shape ==
  /\ lease \in [Runs -> Processes \cup {None}]
  /\ driver \in [Processes -> [Runs -> [at : {"none", "scheduled", "advancing"},
                                        left : Nat, moved : BOOLEAN]]]
Leased == \A p \in Processes, r \in Runs : lease[r] = p <=> Live(p, r)
LeaseInv == Shape /\ Leased

\* Scheduling a loop for a free run takes its lease.
LEMMA DriveKeeps ==
  ASSUME LeaseInv, NEW p \in Processes, NEW r \in Runs, lease[r] = None, Drive(p, r)
  PROVE  LeaseInv'
  <1> USE ServiceAssumption
  <1>1. Shape'
    <2>1. [driver[p][r] EXCEPT !.at = "scheduled"] \in
            [at : {"none", "scheduled", "advancing"}, left : Nat, moved : BOOLEAN]
      <3> DEFINE D == driver[p][r]
      <3>1. D \in [at : {"none", "scheduled", "advancing"}, left : Nat, moved : BOOLEAN]
        BY DEF LeaseInv, Shape
      <3> HIDE DEF D
      <3>2. [D EXCEPT !.at = "scheduled"] \in
              [at : {"none", "scheduled", "advancing"}, left : Nat, moved : BOOLEAN]
        BY <3>1
      <3> QED BY <3>2 DEF D
    <2> QED BY <2>1 DEF LeaseInv, Shape, Drive
  <1>2. ASSUME NEW q \in Processes, NEW s \in Runs
        PROVE  lease'[s] = q <=> Live(q, s)'
    <2>1. CASE s = r
      BY <2>1 DEF LeaseInv, Leased, Shape, Drive, Live
    <2>2. CASE s # r
      BY <2>2 DEF LeaseInv, Leased, Shape, Drive, Live
    <2> QED BY <2>1, <2>2
  <1> QED BY <1>1, <1>2 DEF LeaseInv, Leased

\* The finally clause gives back the lease of its own loop.
LEMMA EndKeeps ==
  ASSUME LeaseInv, NEW p \in Processes, NEW r \in Runs, Live(p, r), End(p, r)
  PROVE  LeaseInv'
  <1> USE ServiceAssumption
  <1>1. Shape'
    BY DEF LeaseInv, Shape, End, NoDriver
  <1>2. ASSUME NEW q \in Processes, NEW s \in Runs
        PROVE  lease'[s] = q <=> Live(q, s)'
    <2>1. CASE s = r
      BY <2>1 DEF LeaseInv, Leased, Shape, End, NoDriver, Live
    <2>2. CASE s # r
      BY <2>2 DEF LeaseInv, Leased, Shape, End, NoDriver, Live
    <2> QED BY <2>1, <2>2
  <1> QED BY <1>1, <1>2 DEF LeaseInv, Leased

\* The head of a live loop ends it or goes on with it.
LEMMA TurnKeeps ==
  ASSUME LeaseInv, NEW p \in Processes, NEW r \in Runs, NEW left \in Nat, Live(p, r),
         Turn(p, r, left)
  PROVE  LeaseInv'
  <1>1. CASE End(p, r)
    BY <1>1, EndKeeps
  <1>2. CASE /\ left > 0
             /\ driver' = [driver EXCEPT ![p][r] =
                             [at |-> "advancing", left |-> left - 1, moved |-> FALSE]]
             /\ UNCHANGED lease
    <2>1. left - 1 \in Nat
      BY <1>2
    <2>2. Shape'
      BY <1>2, <2>1 DEF LeaseInv, Shape
    <2> QED BY <1>2, <2>2 DEF LeaseInv, Leased, Shape, Live
  <1> QED BY <1>1, <1>2 DEF Turn, Fail

\* start keeps the invariant: it drives a run only with its lease.
LEMMA StartRunKeeps ==
  ASSUME LeaseInv, NEW p \in Processes, NEW r \in Runs, StartRun(p, r)
  PROVE  LeaseInv'
  <1>1. CASE UNCHANGED <<lease, driver>>
    BY <1>1 DEF LeaseInv, Leased, Shape, Live
  <1>2. CASE lease[r] = None /\ Drive(p, r)
    BY <1>2, DriveKeeps
  <1> QED BY <1>1, <1>2 DEF StartRun

-----------------------------------------------------------------------------
(* Keys, requests and calls.                                               *)

Records ==
  /\ run \in [Runs -> {"absent", "active", "stopped"}]
  /\ target \in [Runs -> Targets \cup {None}] /\ request \in [Keys -> Runs \cup {None}]
  /\ hold \in [Keys -> Clients \cup {None}]
Asked(c) == call[c].at # "idle" =>
  call[c].process \in Processes /\ call[c].key \in Keys /\ call[c].target \in Targets
Calls ==
  /\ call \in [Clients -> [at : {"idle", "polling", "holding", "created", "start"},
                           process : Processes \cup {None}, key : Keys \cup {None},
                           target : Targets \cup {None}, run : Runs \cup {None}]]
  /\ \A c \in Clients : Asked(c)
\* A call that handles a key holds its lock.
Locked == \A c \in Clients :
  call[c].at \in {"holding", "created"} => hold[call[c].key] = c
\* A key leads to an existing run.
Led == \A k \in Keys : request[k] # None => run[request[k]] # "absent"
\* A created run is not yet requested; a requested one is started.
Served == \A c \in Clients :
  /\ call[c].at = "created" =>
       /\ call[c].run \in Runs /\ request[call[c].key] = None
       /\ run[call[c].run] # "absent" /\ target[call[c].run] = call[c].target
  /\ call[c].at = "start" =>
       /\ call[c].run \in Runs /\ request[call[c].key] = call[c].run
       /\ target[call[c].run] = call[c].target
\* What was answered is what the durable request says.
Answered == \A a \in answers :
  /\ a \in Keys \X Targets \X Runs
  /\ request[a[1]] = a[3] /\ target[a[3]] = a[2]
KeyInv == Records /\ Calls /\ Locked /\ Led /\ Served /\ Answered
IInv == LeaseInv /\ KeyInv

\* Steps of loops, resumes and inspections change, of all this, only the state
\* of runs that exist.
LEMMA FrameKeeps ==
  ASSUME KeyInv, Records', \A r \in Runs : run[r] # "absent" => run'[r] # "absent",
         UNCHANGED <<target, request, hold, call, answers>>
  PROVE  KeyInv'
  <1> USE ServiceAssumption DEF KeyInv
  <1>1. Calls' /\ Locked' /\ Answered'
    BY DEF Calls, Asked, Locked, Answered
  <1>2. Led'
    BY DEF Led, Records
  <1>3. Served'
    BY DEF Served
  <1> QED BY <1>1, <1>2, <1>3

\* A stored state is a state of an existing run.
LEMMA PutKeeps ==
  ASSUME KeyInv, NEW p \in Processes, NEW r \in Runs, NEW s \in {"active", "stopped"},
         Put(p, r, s), UNCHANGED <<target, request, hold, call, answers>>
  PROVE  KeyInv'
  <1>1. Records'
    BY DEF KeyInv, Records, Put
  <1>2. \A q \in Runs : run[q] # "absent" => run'[q] # "absent"
    BY DEF KeyInv, Records, Put
  <1> QED BY <1>1, <1>2, FrameKeeps

\* A loop of a live run keeps the invariant.
LEMMA LoopKeeps ==
  ASSUME IInv, NEW p \in Processes, NEW r \in Runs, Loop(p, r) \/ Advance(p, r)
  PROVE  IInv'
  <1>1. CASE Begin(p, r)
    <2>1. LeaseInv'
      BY <1>1, TurnKeeps, ServiceAssumption DEF IInv, Begin, Live
    <2>2. KeyInv'
      <3>1. CASE UNCHANGED run
        BY <1>1, <3>1, FrameKeeps DEF IInv, Begin, KeyInv, Records
      <3>2. CASE Put(p, r, "stopped")
        BY <1>1, <3>2, PutKeeps DEF IInv, Begin
      <3> QED BY <1>1, <3>1, <3>2 DEF Begin, Turn, Fail
    <2> QED BY <2>1, <2>2 DEF IInv
  <1>2. CASE Return(p, r)
    <2>1. LeaseInv'
      <3>1. Live(p, r) /\ driver[p][r].left \in Nat
        BY <1>2 DEF Return, Live, IInv, LeaseInv, Shape
      <3> QED BY <1>2, <3>1, TurnKeeps, EndKeeps DEF IInv, Return, Fail
    <2>2. KeyInv'
      <3>1. CASE UNCHANGED run
        BY <1>2, <3>1, FrameKeeps DEF IInv, Return, KeyInv, Records
      <3>2. CASE Put(p, r, "stopped")
        BY <1>2, <3>2, PutKeeps DEF IInv, Return
      <3> QED BY <1>2, <3>1, <3>2 DEF Return, Turn, Fail
    <2> QED BY <2>1, <2>2 DEF IInv
  <1>3. CASE Abort(p, r)
    <2>1. LeaseInv'
      BY <1>3, EndKeeps DEF IInv, Abort, Live, Fail
    <2>2. KeyInv'
      <3>1. CASE UNCHANGED run
        BY <1>3, <3>1, FrameKeeps DEF IInv, Abort, KeyInv, Records
      <3>2. CASE Put(p, r, "stopped")
        BY <1>3, <3>2, PutKeeps DEF IInv, Abort
      <3> QED BY <1>3, <3>1, <3>2 DEF Abort, Fail
    <2> QED BY <2>1, <2>2 DEF IInv
  <1>4. CASE Advance(p, r)
    <2> DEFINE D == driver[p][r]
    <2>1. D \in [at : {"none", "scheduled", "advancing"}, left : Nat, moved : BOOLEAN]
      BY DEF IInv, LeaseInv, Shape
    <2>2. D.at = "advancing" /\ driver' = [driver EXCEPT ![p][r] = [D EXCEPT !.moved = TRUE]]
      BY <1>4 DEF Advance
    <2>3. UNCHANGED lease
      BY <1>4 DEF Advance
    <2> HIDE DEF D
    <2>4. [D EXCEPT !.moved = TRUE] \in
            [at : {"none", "scheduled", "advancing"}, left : Nat, moved : BOOLEAN]
          /\ [D EXCEPT !.moved = TRUE].at = "advancing"
      BY <2>1, <2>2
    <2>5. D.at # "none" => Live(p, r)
      BY DEF D, Live
    <2>6. LeaseInv'
      <3>1. Shape'
        BY <2>2, <2>3, <2>4 DEF IInv, LeaseInv, Shape
      <3> QED BY <2>2, <2>3, <2>4, <2>5, <3>1 DEF IInv, LeaseInv, Shape, Leased, Live
    <2>7. KeyInv'
      BY <1>4, PutKeeps DEF IInv, Advance
    <2> QED BY <2>6, <2>7 DEF IInv
  <1> QED BY <1>1, <1>2, <1>3, <1>4 DEF Loop

\* Steps that touch no lease and no loop.
LEMMA LeaseFrame ==
  ASSUME LeaseInv, UNCHANGED <<lease, driver>>
  PROVE  LeaseInv'
  BY DEF LeaseInv, Shape, Leased, Live

\* Calls: one conjunct after the other, the calls of other clients untouched.
LEMMA EnterKeeps ==
  ASSUME KeyInv, NEW c \in Clients, NEW p \in Processes, NEW k \in Keys, NEW t \in Targets,
         Enter(c, p, k, t)
  PROVE  KeyInv'
  <1> USE ServiceAssumption DEF durable, NoCall
  <1>0. Records /\ Calls /\ Locked /\ Led /\ Served /\ Answered
    BY DEF KeyInv
  <1>1. Records'
    BY <1>0 DEF Records, Enter
  <1>2. Calls'
    BY <1>0 DEF Records, Calls, Asked, Enter
  <1>3. Locked'
    BY <1>0 DEF Records, Calls, Asked, Locked, Enter
  <1>4. Led'
    BY <1>0 DEF Records, Calls, Asked, Locked, Served, Led, Enter
  <1>5. Served'
    BY <1>0 DEF Records, Calls, Asked, Locked, Led, Served, Enter
  <1>6. Answered'
    BY <1>0 DEF Records, Calls, Asked, Locked, Led, Served, Answered, Enter
  <1> QED BY <1>1, <1>2, <1>3, <1>4, <1>5, <1>6 DEF KeyInv

\* Acquire keeps the invariant.
LEMMA AcquireKeeps ==
  ASSUME KeyInv, NEW c \in Clients, Acquire(c)
  PROVE  KeyInv'
  <1> USE ServiceAssumption DEF durable, NoCall
  <1>0. Records /\ Calls /\ Locked /\ Led /\ Served /\ Answered
    BY DEF KeyInv
  <1>1. Records'
    BY <1>0 DEF Records, Acquire
  <1>2. Calls'
    BY <1>0 DEF Records, Calls, Asked, Acquire
  <1>3. Locked'
    BY <1>0 DEF Records, Calls, Asked, Locked, Acquire
  <1>4. Led'
    BY <1>0 DEF Records, Calls, Asked, Locked, Served, Led, Acquire
  <1>5. Served'
    BY <1>0 DEF Records, Calls, Asked, Locked, Led, Served, Acquire
  <1>6. Answered'
    BY <1>0 DEF Records, Calls, Asked, Locked, Led, Served, Answered, Acquire
  <1> QED BY <1>1, <1>2, <1>3, <1>4, <1>5, <1>6 DEF KeyInv

\* GiveUp keeps the invariant.
LEMMA GiveUpKeeps ==
  ASSUME KeyInv, NEW c \in Clients, GiveUp(c)
  PROVE  KeyInv'
  <1> USE ServiceAssumption DEF durable, NoCall
  <1>0. Records /\ Calls /\ Locked /\ Led /\ Served /\ Answered
    BY DEF KeyInv
  <1>1. Records'
    BY <1>0 DEF Records, GiveUp
  <1>2. Calls'
    BY <1>0 DEF Records, Calls, Asked, GiveUp
  <1>3. Locked'
    BY <1>0 DEF Records, Calls, Asked, Locked, GiveUp
  <1>4. Led'
    BY <1>0 DEF Records, Calls, Asked, Locked, Served, Led, GiveUp
  <1>5. Served'
    BY <1>0 DEF Records, Calls, Asked, Locked, Led, Served, GiveUp
  <1>6. Answered'
    BY <1>0 DEF Records, Calls, Asked, Locked, Led, Served, Answered, GiveUp
  <1> QED BY <1>1, <1>2, <1>3, <1>4, <1>5, <1>6 DEF KeyInv

\* Known keeps the invariant.
LEMMA KnownKeeps ==
  ASSUME KeyInv, NEW c \in Clients, Known(c)
  PROVE  KeyInv'
  <1> USE ServiceAssumption DEF durable, NoCall
  <1>0. Records /\ Calls /\ Locked /\ Led /\ Served /\ Answered
    BY DEF KeyInv
  <1>1. Records'
    BY <1>0 DEF Records, Known, Release
  <1>2. Calls'
    BY <1>0 DEF Records, Calls, Asked, Known, Release
  <1>3. Locked'
    BY <1>0 DEF Records, Calls, Asked, Locked, Known, Release
  <1>4. Led'
    BY <1>0 DEF Records, Calls, Asked, Locked, Served, Led, Known, Release
  <1>5. Served'
    BY <1>0 DEF Records, Calls, Asked, Locked, Led, Served, Known, Release
  <1>6. Answered'
    BY <1>0 DEF Records, Calls, Asked, Locked, Led, Served, Answered, Known, Release
  <1> QED BY <1>1, <1>2, <1>3, <1>4, <1>5, <1>6 DEF KeyInv

\* Create keeps the invariant.
LEMMA CreateKeeps ==
  ASSUME KeyInv, NEW c \in Clients, Create(c)
  PROVE  KeyInv'
  <1> USE ServiceAssumption DEF durable, NoCall
  <1>0. Records /\ Calls /\ Locked /\ Led /\ Served /\ Answered
    BY DEF KeyInv
  <1>1. Records'
    <2>1. call[c].target \in Targets
      BY <1>0 DEF Create, Calls, Asked
    <2> QED BY <1>0, <2>1 DEF Records, Create
  <1>2. Calls'
    <2>1. PICK r \in Runs : call' = [call EXCEPT ![c].at = "created", ![c].run = r]
      BY DEF Create
    <2> DEFINE D == call[c]
    <2>2. D \in [at : {"idle", "polling", "holding", "created", "start"},
                 process : Processes \cup {None}, key : Keys \cup {None},
                 target : Targets \cup {None}, run : Runs \cup {None}]
      BY <1>0 DEF Calls
    <2>3. call' = [call EXCEPT ![c] = [D EXCEPT !.at = "created", !.run = r]]
      BY <2>1
    <2>4. D.at # "idle" /\ (D.at # "idle" =>
            D.process \in Processes /\ D.key \in Keys /\ D.target \in Targets)
      BY <1>0 DEF Create, Calls, Asked
    <2> HIDE DEF D
    <2> DEFINE N == [D EXCEPT !.at = "created", !.run = r]
    <2>5. N \in [at : {"idle", "polling", "holding", "created", "start"},
                 process : Processes \cup {None}, key : Keys \cup {None},
                 target : Targets \cup {None}, run : Runs \cup {None}]
          /\ N.process \in Processes /\ N.key \in Keys /\ N.target \in Targets
      BY <2>2, <2>4
    <2> HIDE DEF N
    <2>6. call' = [call EXCEPT ![c] = N]
      BY <2>3 DEF N
    <2> QED BY <1>0, <2>5, <2>6 DEF Calls, Asked
  <1>3. Locked'
    BY <1>0 DEF Records, Calls, Asked, Locked, Create
  <1>4. Led'
    BY <1>0 DEF Records, Calls, Asked, Locked, Served, Led, Create
  <1>5. Served'
    BY <1>0 DEF Records, Calls, Asked, Locked, Led, Served, Create
  <1>6. Answered'
    BY <1>0 DEF Records, Calls, Asked, Locked, Led, Served, Answered, Create
  <1> QED BY <1>1, <1>2, <1>3, <1>4, <1>5, <1>6 DEF KeyInv

\* Write keeps the invariant.
LEMMA WriteKeeps ==
  ASSUME KeyInv, NEW c \in Clients, Write(c)
  PROVE  KeyInv'
  <1> USE ServiceAssumption DEF durable, NoCall
  <1>0. Records /\ Calls /\ Locked /\ Led /\ Served /\ Answered
    BY DEF KeyInv
  <1>1. Records'
    <2>1. call[c].run \in Runs /\ call[c].key \in Keys
      BY <1>0 DEF Write, Served, Calls, Asked
    <2> QED BY <1>0, <2>1 DEF Records, Write, Release
  <1>2. Calls'
    BY <1>0 DEF Records, Calls, Asked, Write, Release
  <1>3. Locked'
    BY <1>0 DEF Records, Calls, Asked, Locked, Write, Release
  <1>4. Led'
    BY <1>0 DEF Records, Calls, Asked, Locked, Served, Led, Write, Release
  <1>5. Served'
    BY <1>0 DEF Records, Calls, Asked, Locked, Led, Served, Write, Release
  <1>6. Answered'
    BY <1>0 DEF Records, Calls, Asked, Locked, Led, Served, Answered, Write, Release
  <1> QED BY <1>1, <1>2, <1>3, <1>4, <1>5, <1>6 DEF KeyInv

\* Start keeps the invariant.
LEMMA StartKeeps ==
  ASSUME KeyInv, NEW c \in Clients, Start(c)
  PROVE  KeyInv'
  <1> USE ServiceAssumption DEF durable, NoCall
  <1>0. Records /\ Calls /\ Locked /\ Led /\ Served /\ Answered
    BY DEF KeyInv
  <1>1. Records'
    BY <1>0 DEF Records, Start
  <1>2. Calls'
    BY <1>0 DEF Records, Calls, Asked, Start
  <1>3. Locked'
    BY <1>0 DEF Records, Calls, Asked, Locked, Start
  <1>4. Led'
    BY <1>0 DEF Records, Calls, Asked, Locked, Served, Led, Start
  <1>5. Served'
    BY <1>0 DEF Records, Calls, Asked, Locked, Led, Served, Start
  <1>6. Answered'
    BY <1>0 DEF Records, Calls, Asked, Locked, Led, Served, Answered, Start
  <1> QED BY <1>1, <1>2, <1>3, <1>4, <1>5, <1>6 DEF KeyInv

\* Crash keeps the invariant.
LEMMA CrashKeeps ==
  ASSUME KeyInv, NEW p \in Processes, Crash(p)
  PROVE  KeyInv'
  <1> USE ServiceAssumption DEF durable, NoCall
  <1>0. Records /\ Calls /\ Locked /\ Led /\ Served /\ Answered
    BY DEF KeyInv
  <1>1. Records'
    BY <1>0 DEF Records, Crash
  <1>2. Calls'
    BY <1>0 DEF Records, Calls, Asked, Crash
  <1>3. Locked'
    BY <1>0 DEF Records, Calls, Asked, Locked, Crash
  <1>4. Led'
    BY <1>0 DEF Records, Calls, Asked, Locked, Served, Led, Crash
  <1>5. Served'
    BY <1>0 DEF Records, Calls, Asked, Locked, Led, Served, Crash
  <1>6. Answered'
    BY <1>0 DEF Records, Calls, Asked, Locked, Led, Served, Answered, Crash
  <1> QED BY <1>1, <1>2, <1>3, <1>4, <1>5, <1>6 DEF KeyInv

\* start, by a resume or a call, changes no file but the lease.
LEMMA ResumeKeeps ==
  ASSUME IInv, NEW p \in Processes, NEW r \in Runs, Resume(p, r) \/ Inspect(p, r)
  PROVE  IInv'
  <1>1. LeaseInv'
    BY StartRunKeeps, LeaseFrame DEF IInv, Resume, Inspect
  <1>2. KeyInv'
    BY FrameKeeps DEF IInv, KeyInv, Records, Resume, Inspect, durable
  <1> QED BY <1>1, <1>2 DEF IInv

\* A dead process holds no lease and runs no loop.
LEMMA CrashLeases ==
  ASSUME LeaseInv, NEW p \in Processes, Crash(p)
  PROVE  LeaseInv'
  <1> USE ServiceAssumption
  <1>1. Shape'
    BY DEF LeaseInv, Shape, Crash, NoDriver
  <1>2. Leased'
    BY DEF LeaseInv, Leased, Shape, Crash, NoDriver, Live
  <1> QED BY <1>1, <1>2 DEF LeaseInv

\* Handle keeps the invariant.
LEMMA HandleKeeps ==
  ASSUME IInv, NEW c \in Clients, Handle(c)
  PROVE  IInv'
  <1>1. CASE Start(c)
    <2>1. call[c].process \in Processes /\ call[c].run \in Runs
      BY <1>1 DEF IInv, KeyInv, Start, Calls, Asked, Served
    <2>2. LeaseInv'
      BY <1>1, <2>1, StartRunKeeps DEF IInv, Start
    <2> QED BY <1>1, <2>2, StartKeeps DEF IInv
  <1>2. CASE Acquire(c) \/ GiveUp(c) \/ Known(c) \/ Create(c) \/ Write(c)
    <2>1. LeaseInv'
      BY <1>2, LeaseFrame DEF IInv, Acquire, GiveUp, Known, Create, Write
    <2>2. KeyInv'
      BY <1>2, AcquireKeeps, GiveUpKeeps, KnownKeeps, CreateKeeps, WriteKeeps DEF IInv
    <2> QED BY <2>1, <2>2 DEF IInv
  <1> QED BY <1>1, <1>2 DEF Handle

-----------------------------------------------------------------------------
(* Theorems.                                                               *)

\* Leases and loops, keys and calls keep their invariant in every step.
THEOREM Invariance == Spec => []IInv
  <1>1. Init => IInv
    <2> SUFFICES ASSUME Init PROVE IInv
      OBVIOUS
    <2>1. LeaseInv
      BY ServiceAssumption DEF Init, LeaseInv, Shape, Leased, Live, NoDriver
    <2>2. KeyInv
      BY ServiceAssumption
         DEF Init, KeyInv, Records, Calls, Asked, Locked, Led, Served, Answered, NoCall
    <2> QED BY <2>1, <2>2 DEF IInv
  <1>2. IInv /\ [Next]_vars => IInv'
    <2> SUFFICES ASSUME IInv, [Next]_vars PROVE IInv'
      OBVIOUS
    <2>1. ASSUME NEW c \in Clients, NEW p \in Processes, NEW k \in Keys, NEW t \in Targets,
                 Enter(c, p, k, t)
          PROVE  IInv'
      BY <2>1, EnterKeeps, LeaseFrame DEF IInv, Enter
    <2>2. ASSUME NEW p \in Processes, Crash(p) PROVE IInv'
      BY <2>2, CrashKeeps, CrashLeases DEF IInv
    <2>3. CASE UNCHANGED vars
      <3>1. LeaseInv'
        BY <2>3, LeaseFrame DEF IInv, vars
      <3>2. KeyInv'
        BY <2>3, FrameKeeps DEF IInv, KeyInv, Records, vars, durable
      <3> QED BY <3>1, <3>2 DEF IInv
    <2> QED BY <2>1, <2>2, <2>3, HandleKeeps, ResumeKeeps, LoopKeeps DEF Next
  <1> QED BY <1>1, <1>2, PTL DEF Spec

\* One loop at most drives a run, of all processes: OneDriver.
THEOREM One_Driver == Spec => []OneDriver
  <1>1. IInv => OneDriver
    BY DEF IInv, LeaseInv, Leased, OneDriver
  <1> QED BY <1>1, Invariance, PTL

\* No lease outlives its loop: LeaseIsDriven.
THEOREM Lease_IsDriven == Spec => []LeaseIsDriven
  <1>1. IInv => LeaseIsDriven
    BY DEF IInv, LeaseInv, Leased, LeaseIsDriven
  <1> QED BY <1>1, Invariance, PTL

\* Every answer to a key names the same run, of the target asked for:
\* SameKeySameRun.
THEOREM SameKey_SameRun == Spec => []SameKeySameRun
  <1>1. IInv => SameKeySameRun
    <2> SUFFICES ASSUME IInv, NEW a \in answers, NEW b \in answers, a[1] = b[1] PROVE a = b
      BY DEF SameKeySameRun
    <2>1. a \in Keys \X Targets \X Runs /\ b \in Keys \X Targets \X Runs
      BY DEF IInv, KeyInv, Answered
    <2>2. a[2] = b[2] /\ a[3] = b[3]
      BY DEF IInv, KeyInv, Answered
    <2> QED BY <2>1, <2>2
  <1> QED BY <1>1, Invariance, PTL

-----------------------------------------------------------------------------
(* Records.                                                                *)

ActiveInv ==
  /\ driver \in [Processes -> [Runs -> [at : {"none", "scheduled", "advancing"},
                                        left : Nat, moved : BOOLEAN]]]
  /\ record \in [Processes -> [Runs -> {None, "running", "elsewhere", "stopped"}]]
  /\ ActiveIsDriven

\* Whoever writes a record either schedules the loop or does not say running.
LEMMA NoteKeeps ==
  ASSUME ActiveInv, NEW p \in Processes, NEW r \in Runs, NEW what \in {"elsewhere", "stopped"},
         Note(p, r, what), Shape',
         \A q \in Processes, s \in Runs : <<q, s>> # <<p, r>> => driver'[q][s] = driver[q][s]
  PROVE  ActiveInv'
  <1>1. record' \in [Processes -> [Runs -> {None, "running", "elsewhere", "stopped"}]]
    BY DEF ActiveInv, Note
  <1>2. ASSUME NEW q \in Processes, NEW s \in Runs, record'[q][s] = "running"
        PROVE  Live(q, s)'
    <2>1. <<q, s>> # <<p, r>>
      BY <1>2 DEF ActiveInv, Note
    <2>2. record'[q][s] = record[q][s]
      BY <2>1 DEF ActiveInv, Note
    <2> QED BY <1>2, <2>1, <2>2 DEF ActiveInv, ActiveIsDriven, Live
  <1> QED BY <1>1, <1>2 DEF ActiveInv, ActiveIsDriven, Shape

\* A loop that is scheduled is the one its record names.
LEMMA DriveNotes ==
  ASSUME ActiveInv, NEW p \in Processes, NEW r \in Runs, Drive(p, r), Shape'
  PROVE  ActiveInv'
  <1>1. record' \in [Processes -> [Runs -> {None, "running", "elsewhere", "stopped"}]]
    BY DEF ActiveInv, Note, Drive
  <1>2. ASSUME NEW q \in Processes, NEW s \in Runs, record'[q][s] = "running"
        PROVE  Live(q, s)'
    <2>1. CASE q = p /\ s = r
      BY <2>1 DEF ActiveInv, Drive, Live
    <2>2. CASE ~(q = p /\ s = r)
      BY <1>2, <2>2 DEF ActiveInv, ActiveIsDriven, Drive, Note, Live
    <2> QED BY <2>1, <2>2
  <1> QED BY <1>1, <1>2 DEF ActiveInv, ActiveIsDriven, Shape

\* A loop that ends takes its record along.
LEMMA EndNotes ==
  ASSUME ActiveInv, NEW p \in Processes, NEW r \in Runs, End(p, r), Shape'
  PROVE  ActiveInv'
  <1>1. \A q \in Processes, s \in Runs : <<q, s>> # <<p, r>> => driver'[q][s] = driver[q][s]
    BY DEF ActiveInv, End
  <1> QED BY <1>1, NoteKeeps DEF End

\* Loops that go on keep their record.
LEMMA OnNotes ==
  ASSUME ActiveInv, NEW p \in Processes, NEW r \in Runs, NEW d, d.at = "advancing",
         driver' = [driver EXCEPT ![p][r] = d], UNCHANGED record, Shape'
  PROVE  ActiveInv'
  <1>1. ASSUME NEW q \in Processes, NEW s \in Runs, record'[q][s] = "running"
        PROVE  Live(q, s)'
    BY <1>1 DEF ActiveInv, ActiveIsDriven, Live
  <1> QED BY <1>1 DEF ActiveInv, ActiveIsDriven, Shape

\* Whatever start decides, a run on record as running has a loop.
LEMMA StartRunNotes ==
  ASSUME ActiveInv, NEW p \in Processes, NEW r \in Runs, StartRun(p, r), Shape'
  PROVE  ActiveInv'
  <1>1. CASE UNCHANGED <<record, driver>>
    BY <1>1 DEF ActiveInv, ActiveIsDriven, Live
  <1>2. CASE UNCHANGED driver /\ (Note(p, r, "stopped") \/ Note(p, r, "elsewhere"))
    BY <1>2, NoteKeeps
  <1>3. CASE Drive(p, r)
    BY <1>3, DriveNotes
  <1> QED BY <1>1, <1>2, <1>3 DEF StartRun

\* A snapshot that calls a run active because this process drives it is right:
\* ActiveIsDriven.
THEOREM Active_IsDriven == Spec => []ActiveIsDriven
  <1>1. Init => ActiveInv
    <2> SUFFICES ASSUME Init PROVE ActiveInv
      OBVIOUS
    <2> QED BY ServiceAssumption DEF Init, ActiveInv, ActiveIsDriven, NoDriver
  <1>2. IInv /\ IInv' /\ ActiveInv /\ [Next]_vars => ActiveInv'
    <2> SUFFICES ASSUME IInv, IInv', ActiveInv, [Next]_vars PROVE ActiveInv'
      OBVIOUS
    <2>0. Shape'
      BY DEF IInv, LeaseInv
    <2>1. CASE UNCHANGED <<record, driver>>
      BY <2>1 DEF ActiveInv, ActiveIsDriven, Live
    <2>2. ASSUME NEW c \in Clients, Handle(c) PROVE ActiveInv'
      <3>1. CASE Start(c)
        <4>1. call[c].process \in Processes /\ call[c].run \in Runs
          BY <3>1 DEF IInv, KeyInv, Start, Calls, Asked, Served
        <4> QED BY <2>0, <3>1, <4>1, StartRunNotes DEF Start
      <3>2. CASE Acquire(c) \/ GiveUp(c) \/ Known(c) \/ Create(c) \/ Write(c)
        BY <2>1, <3>2 DEF Acquire, GiveUp, Known, Create, Write
      <3> QED BY <2>2, <3>1, <3>2 DEF Handle
    <2>3. ASSUME NEW p \in Processes, NEW r \in Runs, Resume(p, r) \/ Inspect(p, r)
          PROVE  ActiveInv'
      <3>1. CASE Resume(p, r)
        BY <2>0, <3>1, StartRunNotes DEF Resume
      <3>2. CASE Inspect(p, r)
        BY <2>0, <2>1, <3>2, NoteKeeps DEF Inspect
      <3> QED BY <2>3, <3>1, <3>2
    <2>4. ASSUME NEW p \in Processes, NEW r \in Runs, Loop(p, r) \/ Advance(p, r)
          PROVE  ActiveInv'
      <3>1. CASE End(p, r)
        BY <2>0, <3>1, EndNotes
      <3>2. ASSUME NEW left,
                   driver' = [driver EXCEPT ![p][r] =
                                [at |-> "advancing", left |-> left - 1, moved |-> FALSE]],
                   UNCHANGED record
            PROVE  ActiveInv'
        <4> DEFINE D == [at |-> "advancing", left |-> left - 1, moved |-> FALSE]
        <4>1. D.at = "advancing"
          OBVIOUS
        <4>2. driver' = [driver EXCEPT ![p][r] = D] /\ UNCHANGED record
          BY <3>2
        <4> HIDE DEF D
        <4> QED BY <2>0, <4>1, <4>2, OnNotes
      <3>3. CASE Advance(p, r)
        <4> DEFINE D == [driver[p][r] EXCEPT !.moved = TRUE]
        <4>1. driver' = [driver EXCEPT ![p][r] = D] /\ UNCHANGED record
          BY <3>3 DEF Advance
        <4>2. D.at = "advancing"
          BY <3>3 DEF Advance, ActiveInv
        <4> HIDE DEF D
        <4> QED BY <2>0, <4>1, <4>2, OnNotes
      <3> QED BY <2>4, <3>1, <3>2, <3>3 DEF Loop, Begin, Return, Abort, Turn, Fail
    <2>5. ASSUME NEW p \in Processes, Crash(p) PROVE ActiveInv'
      BY <2>0, <2>5, ServiceAssumption
         DEF ActiveInv, ActiveIsDriven, Crash, Live, Shape
    <2>6. ASSUME NEW c \in Clients, NEW p \in Processes, NEW k \in Keys, NEW t \in Targets,
                 Enter(c, p, k, t)
          PROVE  ActiveInv'
      BY <2>1, <2>6 DEF Enter
    <2>7. CASE UNCHANGED vars
      BY <2>1, <2>7 DEF vars
    <2> QED BY <2>2, <2>3, <2>4, <2>5, <2>6, <2>7 DEF Next
  <1>3. ActiveInv => ActiveIsDriven
    BY DEF ActiveInv
  <1> QED BY <1>1, <1>2, <1>3, Invariance, PTL DEF Spec

\* One loop per run, and neither lease nor record outlives it: LoopsAreKnown.
THEOREM Loops_AreKnown == Spec => []LoopsAreKnown
  <1>1. OneDriver /\ LeaseIsDriven /\ ActiveIsDriven => LoopsAreKnown
    BY DEF LoopsAreKnown
  <1> QED BY <1>1, One_Driver, Lease_IsDriven, Active_IsDriven, PTL

-----------------------------------------------------------------------------
(* The types of what a process keeps in memory.                            *)

Loops == [at : {"none", "scheduled", "advancing"}, left : 0..MaxAdvances, moved : BOOLEAN]
Views == {None, "active", "stopped"}
Words == {None, "running", "elsewhere", "stopped"}
Memory ==
  /\ gate \in [Processes -> Clients \cup {None}]
  /\ seen \in [Processes -> [Runs -> Views]]
  /\ record \in [Processes -> [Runs -> Words]]
  /\ driver \in [Processes -> [Runs -> Loops]]

\* One run of one process is changed.
LEMMA OneEntry ==
  ASSUME NEW A, NEW B, NEW C, NEW f \in [A -> [B -> C]], NEW a \in A, NEW b \in B, NEW c \in C
  PROVE  [f EXCEPT ![a][b] = c] \in [A -> [B -> C]]
  <1>1. [f[a] EXCEPT ![b] = c] \in [B -> C]
    OBVIOUS
  <1> QED BY <1>1

\* A cached or freshly read state is that of an existing run.
LEMMA FillType ==
  ASSUME Records, Memory, NEW p \in Processes, NEW r \in Runs, run[r] # "absent"
  PROVE  Cached(p, r) \in Views /\ (Fill(p, r) => seen' \in [Processes -> [Runs -> Views]])
  <1>1. Cached(p, r) \in Views
    BY DEF Records, Memory, Cached, Views
  <1>2. ASSUME Fill(p, r) PROVE seen' \in [Processes -> [Runs -> Views]]
    <2> DEFINE now == Cached(p, r)
    <2>1. seen' = [seen EXCEPT ![p][r] = now] /\ now \in Views
      BY <1>1, <1>2 DEF Fill
    <2> HIDE DEF now
    <2>2. seen \in [Processes -> [Runs -> Views]]
      BY DEF Memory
    <2> QED BY <2>1, <2>2, OneEntry
  <1> QED BY <1>1, <1>2

\* A note keeps the types.
LEMMA NoteType ==
  ASSUME Memory, NEW p \in Processes, NEW r \in Runs, NEW what \in Words, Note(p, r, what)
  PROVE  record' \in [Processes -> [Runs -> Words]]
  BY OneEntry DEF Memory, Note

\* So does a start.
LEMMA StartType ==
  ASSUME Records, Memory, NEW p \in Processes, NEW r \in Runs, run[r] # "absent",
         StartRun(p, r), UNCHANGED gate
  PROVE  Memory'
  <1>1. seen' \in [Processes -> [Runs -> Views]]
    BY FillType DEF StartRun
  <1>2. record' \in [Processes -> [Runs -> Words]]
    <2>1. UNCHANGED record \/ \E what \in Words : Note(p, r, what)
      BY DEF StartRun, Drive, Words
    <2> QED BY <2>1, NoteType DEF Memory
  <1>3. driver' \in [Processes -> [Runs -> Loops]]
    <2> DEFINE D == driver[p][r]
    <2>1. D \in Loops
      BY DEF Memory
    <2>2. [D EXCEPT !.at = "scheduled"] \in Loops
      <3> HIDE DEF D
      <3> QED BY <2>1 DEF Loops
    <2>3. CASE Drive(p, r)
      <3>1. driver' = [driver EXCEPT ![p][r] = [D EXCEPT !.at = "scheduled"]]
        BY <2>3 DEF Drive
      <3> HIDE DEF D
      <3> QED BY <2>2, <3>1, OneEntry DEF Memory
    <2>4. CASE UNCHANGED driver
      BY <2>4 DEF Memory
    <2> QED BY <2>3, <2>4 DEF StartRun
  <1> QED BY <1>1, <1>2, <1>3 DEF Memory

\* And the end of a drive.
LEMMA EndType ==
  ASSUME Memory, NEW p \in Processes, NEW r \in Runs, End(p, r)
  PROVE  record' \in [Processes -> [Runs -> Words]] /\ driver' \in [Processes -> [Runs -> Loops]]
  <1>1. NoDriver \in Loops
    BY ServiceAssumption DEF NoDriver, Loops
  <1>2. driver' \in [Processes -> [Runs -> Loops]]
    BY <1>1, OneEntry DEF End, Memory
  <1> QED BY <1>2, NoteType DEF End, Words

\* And its failure.
LEMMA FailType ==
  ASSUME Memory, NEW p \in Processes, NEW r \in Runs, Fail(p, r), UNCHANGED gate
  PROVE  Memory'
  <1>1. seen' \in [Processes -> [Runs -> Views]]
    <2>1. seen' = seen \/ seen' = [seen EXCEPT ![p][r] = "stopped"]
      BY DEF Fail, Put
    <2>2. seen \in [Processes -> [Runs -> Views]] /\ "stopped" \in Views
      BY DEF Memory, Views
    <2>3. [seen EXCEPT ![p][r] = "stopped"] \in [Processes -> [Runs -> Views]]
      BY <2>2, OneEntry
    <2> QED BY <2>1, <2>2, <2>3
  <1> QED BY <1>1, EndType DEF Fail, Memory

\* And a turn of the event loop.
LEMMA TurnType ==
  ASSUME Memory, NEW p \in Processes, NEW r \in Runs, NEW left \in 0..MaxAdvances,
         Turn(p, r, left), UNCHANGED gate
  PROVE  Memory'
  <1>1. CASE End(p, r) /\ UNCHANGED <<run, seen>>
    BY <1>1, EndType DEF Memory
  <1>2. CASE Fail(p, r)
    BY <1>2, FailType
  <1>3. CASE /\ left > 0 /\ UNCHANGED <<run, seen, record, lease>>
             /\ driver' = [driver EXCEPT ![p][r] =
                             [at |-> "advancing", left |-> left - 1, moved |-> FALSE]]
    <2> DEFINE D == [at |-> "advancing", left |-> left - 1, moved |-> FALSE]
    <2>1. D \in Loops
      BY <1>3, ServiceAssumption DEF Loops
    <2>2. driver' = [driver EXCEPT ![p][r] = D]
      BY <1>3
    <2> HIDE DEF D
    <2>3. driver' \in [Processes -> [Runs -> Loops]]
      BY <2>1, <2>2, OneEntry DEF Memory
    <2> QED BY <1>3, <2>3 DEF Memory
  <1> QED BY <1>1, <1>2, <1>3 DEF Turn

\* The steps of the loops keep the types.
LEMMA LoopType ==
  ASSUME Memory, NEW p \in Processes, NEW r \in Runs, Loop(p, r) \/ Advance(p, r)
  PROVE  Memory'
  <1>1. driver[p][r] \in Loops
    BY DEF Memory
  <1>2. CASE Begin(p, r)
    <2>1. MaxAdvances \in 0..MaxAdvances /\ Turn(p, r, MaxAdvances) /\ UNCHANGED gate
      BY <1>2, ServiceAssumption DEF Begin
    <2> QED BY <2>1, TurnType
  <1>3. CASE Return(p, r)
    <2>1. driver[p][r].left \in 0..MaxAdvances /\ UNCHANGED gate
      BY <1>1, <1>3 DEF Loops, Return
    <2>2. Fail(p, r) \/ Turn(p, r, driver[p][r].left)
      BY <1>3 DEF Return
    <2> QED BY <2>1, <2>2, FailType, TurnType
  <1>4. CASE Abort(p, r)
    BY <1>4, FailType DEF Abort
  <1>5. CASE Advance(p, r)
    <2> DEFINE D == driver[p][r]
    <2>1. \E s \in {"active", "stopped"} : seen' = [seen EXCEPT ![p][r] = s]
      BY <1>5 DEF Advance, Put
    <2>2. seen' \in [Processes -> [Runs -> Views]]
      BY <2>1, OneEntry DEF Memory, Views
    <2>3. driver' = [driver EXCEPT ![p][r] = [D EXCEPT !.moved = TRUE]]
      BY <1>5 DEF Advance
    <2>4. [D EXCEPT !.moved = TRUE] \in Loops
      <3>1. D \in Loops
        BY <1>1
      <3> HIDE DEF D
      <3> QED BY <3>1 DEF Loops
    <2> HIDE DEF D
    <2>5. driver' \in [Processes -> [Runs -> Loops]]
      BY <2>3, <2>4, OneEntry DEF Memory
    <2> QED BY <1>5, <2>2, <2>5 DEF Advance, Memory
  <1> QED BY <1>2, <1>3, <1>4, <1>5 DEF Loop

\* The calls keep the types.
LEMMA CallType ==
  ASSUME KeyInv, Memory, NEW c \in Clients, Handle(c)
  PROVE  Memory'
  <1>1. Records /\ Asked(c)
    BY DEF KeyInv, Calls
  <1>2. CASE Acquire(c) \/ GiveUp(c)
    BY <1>1, <1>2 DEF Acquire, GiveUp, Memory, Asked
  <1>3. CASE Known(c)
    <2>1. call[c].process \in Processes /\ call[c].key \in Keys /\ request[call[c].key] \in Runs
      BY <1>1, <1>3 DEF Known, Asked, Records
    <2>2. run[request[call[c].key]] # "absent"
      BY <1>3, <2>1 DEF Known, KeyInv, Led
    <2>3. seen' \in [Processes -> [Runs -> Views]]
      <3>1. UNCHANGED seen \/ Fill(call[c].process, request[call[c].key])
        BY <1>3 DEF Known
      <3> QED BY <1>1, <2>1, <2>2, <3>1, FillType DEF Memory
    <2>4. gate' \in [Processes -> Clients \cup {None}]
      BY <1>3, <2>1 DEF Known, Release, Memory
    <2> QED BY <1>3, <2>3, <2>4 DEF Known, Memory
  <1>4. CASE Create(c)
    <2>1. PICK r \in Runs : seen' = [seen EXCEPT ![call[c].process][r] = "active"]
      BY <1>4 DEF Create
    <2>2. call[c].process \in Processes
      BY <1>1, <1>4 DEF Create, Asked
    <2>3. seen' \in [Processes -> [Runs -> Views]]
      BY <2>1, <2>2, OneEntry DEF Memory, Views
    <2> QED BY <1>4, <2>3 DEF Create, Memory
  <1>5. CASE Write(c)
    <2>1. call[c].process \in Processes
      BY <1>1, <1>5 DEF Write, Asked
    <2> QED BY <1>5, <2>1 DEF Write, Release, Memory
  <1>6. CASE Start(c)
    <2>1. /\ call[c].process \in Processes /\ call[c].key \in Keys
          /\ call[c].run \in Runs /\ request[call[c].key] = call[c].run
      BY <1>1, <1>6 DEF Start, Asked, KeyInv, Served
    <2>2. run[call[c].run] # "absent"
      BY <2>1, ServiceAssumption DEF KeyInv, Led
    <2> QED BY <1>1, <1>6, <2>1, <2>2, StartType DEF Start
  <1> QED BY <1>2, <1>3, <1>4, <1>5, <1>6 DEF Handle

\* Every step keeps the types of what processes remember.
LEMMA MemoryKeeps ==
  ASSUME IInv, Memory, crashes \in 0..MaxCrashes, [Next]_vars
  PROVE  Memory' /\ crashes' \in 0..MaxCrashes
  <1>1. Records
    BY DEF IInv, KeyInv
  <1>2. ASSUME NEW c \in Clients, NEW p \in Processes, NEW k \in Keys, NEW t \in Targets,
               Enter(c, p, k, t)
        PROVE  Memory' /\ UNCHANGED crashes
    BY <1>2 DEF Enter, Memory
  <1>3. ASSUME NEW c \in Clients, Handle(c) PROVE Memory' /\ UNCHANGED crashes
    <2>1. UNCHANGED crashes
      BY <1>3 DEF Handle, Acquire, GiveUp, Known, Create, Write, Start
    <2> QED BY <1>3, <2>1, CallType DEF IInv
  <1>4. ASSUME NEW p \in Processes, NEW r \in Runs, Resume(p, r) \/ Inspect(p, r)
        PROVE  Memory' /\ UNCHANGED crashes
    <2>1. CASE Resume(p, r)
      BY <1>1, <2>1, StartType DEF Resume
    <2>2. CASE Inspect(p, r)
      <3>1. seen' \in [Processes -> [Runs -> Views]]
        BY <1>1, <2>2, FillType DEF Inspect
      <3>2. record' \in [Processes -> [Runs -> Words]]
        <4>1. Note(p, r, "stopped") \/ UNCHANGED record
          BY <2>2 DEF Inspect
        <4> QED BY <4>1, NoteType DEF Memory, Words
      <3> QED BY <2>2, <3>1, <3>2 DEF Inspect, Memory
    <2> QED BY <1>4, <2>1, <2>2
  <1>5. ASSUME NEW p \in Processes, NEW r \in Runs, Loop(p, r) \/ Advance(p, r)
        PROVE  Memory' /\ UNCHANGED crashes
    <2>1. UNCHANGED crashes
      BY <1>5 DEF Loop, Begin, Return, Abort, Advance
    <2> QED BY <1>5, <2>1, LoopType
  <1>6. ASSUME NEW p \in Processes, Crash(p) PROVE Memory' /\ crashes' \in 0..MaxCrashes
    <2>1. NoDriver \in Loops
      BY ServiceAssumption DEF NoDriver, Loops
    <2>2. crashes' \in 0..MaxCrashes
      BY <1>6, ServiceAssumption DEF Crash
    <2>3. gate' \in [Processes -> Clients \cup {None}]
      BY <1>6 DEF Crash, Memory
    <2>4. driver' \in [Processes -> [Runs -> Loops]]
      BY <1>6, <2>1 DEF Crash, Memory
    <2>5. seen' \in [Processes -> [Runs -> Views]] /\ record' \in [Processes -> [Runs -> Words]]
      BY <1>6 DEF Crash, Memory, Views, Words
    <2> QED BY <2>2, <2>3, <2>4, <2>5 DEF Memory
  <1>7. CASE UNCHANGED vars
    BY <1>7 DEF vars, Memory
  <1> QED BY <1>2, <1>3, <1>4, <1>5, <1>6, <1>7 DEF Next

\* Every variable has its type; what is cached of a run that is driven is the
\* state of an existing run: TypeOK.
THEOREM TypeCorrect == Spec => []TypeOK
  <1> DEFINE Typed == Memory /\ crashes \in 0..MaxCrashes
  <1>1. Init => Typed
    BY ServiceAssumption DEF Init, Memory, NoDriver, Loops, Views, Words
  <1>2. IInv /\ Typed /\ [Next]_vars => Typed'
    BY MemoryKeeps
  <1>3. IInv /\ Typed => TypeOK
    BY DEF IInv, LeaseInv, Shape, KeyInv, Records, Calls, Answered, Memory, Loops, Views, Words, TypeOK
  <1> QED BY <1>1, <1>2, <1>3, Invariance, PTL DEF Spec

-----------------------------------------------------------------------------
(* Runs that no request leads to.                                          *)

Orphans == {r \in Runs : run[r] # "absent" /\ ~Reachable(r)}
\* A call that creates has the gate of its process to itself.
Gated == \A c \in Clients :
  call[c].at \in {"polling", "holding", "created"} => gate[call[c].process] = c
Existing == \A p \in Processes, r \in Runs : Live(p, r) => run[r] # "absent"
OrphanInv == /\ Gated /\ Existing /\ crashes \in Nat
             /\ IsFiniteSet(Orphans) /\ Cardinality(Orphans) <= crashes

\* No step but a crash leaves a run behind.
LEMMA NoNewOrphan ==
  ASSUME OrphanInv, Gated', Existing', UNCHANGED crashes, Orphans' \subseteq Orphans
  PROVE  OrphanInv'
  <1>1. IsFiniteSet(Orphans') /\ Cardinality(Orphans') <= Cardinality(Orphans)
    BY FS_Subset DEF OrphanInv
  <1>2. Cardinality(Orphans) \in Nat /\ Cardinality(Orphans') \in Nat
    BY <1>1, FS_CardinalityType DEF OrphanInv
  <1> QED BY <1>1, <1>2 DEF OrphanInv

\* A run stays reachable while its request stands and its creator goes on.
LEMMA StillReachable ==
  ASSUME NEW r \in Runs, Reachable(r),
         \A k \in Keys : request[k] = r => request'[k] = r,
         \A c \in Clients : call[c].at = "created" /\ call[c].run = r
           => \/ call'[c].at = "created" /\ call'[c].run = r
              \/ \E k \in Keys : request'[k] = r
  PROVE  Reachable(r)'
  BY DEF Reachable

\* The loops of other runs go on as they were.
LEMMA OtherLoops ==
  ASSUME Memory, NEW p \in Processes, NEW r \in Runs,
         StartRun(p, r) \/ Loop(p, r) \/ Advance(p, r),
         NEW q \in Processes, NEW s \in Runs, s # r
  PROVE  driver'[q][s] = driver[q][s]
  <1>1. \/ UNCHANGED driver
        \/ driver' = [driver EXCEPT ![p][r].at = "scheduled"]
        \/ driver' = [driver EXCEPT ![p][r] = NoDriver]
        \/ driver' = [driver EXCEPT ![p][r].moved = TRUE]
        \/ \E left \in {MaxAdvances, driver[p][r].left} :
             driver' = [driver EXCEPT ![p][r] =
                          [at |-> "advancing", left |-> left - 1, moved |-> FALSE]]
    BY DEF StartRun, Drive, Loop, Begin, Return, Abort, Advance, Turn, Fail, End
  <1>2. driver \in [Processes -> [Runs -> Loops]]
    BY DEF Memory
  <1>3. CASE UNCHANGED driver
    BY <1>3
  <1>4. ASSUME NEW v, driver' = [driver EXCEPT ![p][r] = v] PROVE driver'[q][s] = driver[q][s]
    BY <1>2, <1>4
  <1> QED BY <1>1, <1>3, <1>4

\* The calls keep the orphan invariant.
LEMMA CallOrphans ==
  ASSUME IInv, Memory, OrphanInv, NEW c \in Clients,
         Handle(c) \/ \E p \in Processes, k \in Keys, t \in Targets : Enter(c, p, k, t)
  PROVE  OrphanInv'
  <1> USE ServiceAssumption
  <1>1. Gated /\ Existing /\ Records /\ Calls /\ Served /\ Led
    BY DEF OrphanInv, IInv, KeyInv
  <1>2. UNCHANGED crashes
    BY DEF Handle, Acquire, GiveUp, Known, Create, Write, Start, Enter
  <1>3. ASSUME NEW p \in Processes, NEW k \in Keys, NEW t \in Targets, Enter(c, p, k, t)
        PROVE  Gated' /\ Existing' /\ Orphans' \subseteq Orphans
    <2>1. /\ call[c].at = "idle" /\ gate[p] = None /\ UNCHANGED <<run, request, driver>>
          /\ gate' = [gate EXCEPT ![p] = c]
          /\ call'[c].at = "polling" /\ call'[c].process = p
          /\ \A d \in Clients \ {c} : call'[d] = call[d]
      BY <1>1, <1>3 DEF Enter, durable, Calls
    <2>2. Gated'
      <3> SUFFICES ASSUME NEW d \in Clients, call'[d].at \in {"polling", "holding", "created"}
                   PROVE  gate'[call'[d].process] = d
        BY DEF Gated
      <3>1. CASE d = c
        BY <2>1, <3>1 DEF Memory
      <3>2. CASE d # c
        <4>1. call'[d] = call[d]
          BY <2>1, <3>2
        <4>2. gate[call[d].process] = d /\ call[d].process \in Processes
          BY <1>1, <4>1 DEF Gated, Calls, Asked
        <4>3. call[d].process # p
          BY <2>1, <4>2
        <4> QED BY <2>1, <4>1, <4>2, <4>3 DEF Memory
      <3> QED BY <3>1, <3>2
    <2>3. \A r \in Runs : Reachable(r) => Reachable(r)'
      BY <2>1, StillReachable
    <2> QED BY <1>1, <2>1, <2>2, <2>3 DEF Existing, Orphans, Live
  <1>4. CASE Acquire(c)
    <2>1. /\ call[c].at = "polling" /\ UNCHANGED <<run, request, driver, gate>>
          /\ call'[c].process = call[c].process
          /\ call'[c].at = "holding"
          /\ \A d \in Clients \ {c} : call'[d] = call[d]
      BY <1>1, <1>4 DEF Acquire, durable, Calls
    <2>2. Gated'
      BY <1>1, <2>1 DEF Gated
    <2>3. \A r \in Runs : Reachable(r) => Reachable(r)'
      BY <2>1, StillReachable
    <2>4. Existing' /\ Orphans' \subseteq Orphans
      BY <1>1, <2>1, <2>3 DEF Existing, Orphans, Live
    <2> QED BY <1>2, <2>2, <2>4, NoNewOrphan
  <1>5. CASE GiveUp(c) \/ Known(c)
    <2>1. /\ call[c].at \in {"polling", "holding"} /\ UNCHANGED <<run, request, driver>>
          /\ gate' = [gate EXCEPT ![call[c].process] = None]
          /\ call'[c].at \in {"idle", "start"}
          /\ \A d \in Clients \ {c} : call'[d] = call[d]
      BY <1>1, <1>5 DEF GiveUp, Known, Release, durable, Calls, NoCall
    <2>2. Gated'
      <3> SUFFICES ASSUME NEW d \in Clients, call'[d].at \in {"polling", "holding", "created"}
                   PROVE  gate'[call'[d].process] = d
        BY DEF Gated
      <3>1. d # c /\ call'[d] = call[d]
        BY <2>1
      <3>2. gate[call[d].process] = d /\ gate[call[c].process] = c
        BY <1>1, <2>1, <3>1 DEF Gated
      <3>3. call[d].process \in Processes
        BY <1>1, <3>1 DEF Calls, Asked
      <3> QED BY <2>1, <3>1, <3>2, <3>3 DEF Memory
    <2>3. \A r \in Runs : Reachable(r) => Reachable(r)'
      BY <2>1, StillReachable
    <2>4. Existing' /\ Orphans' \subseteq Orphans
      BY <1>1, <2>1, <2>3 DEF Existing, Orphans, Live
    <2> QED BY <1>2, <2>2, <2>4, NoNewOrphan
  <1>6. CASE Create(c)
    <2>1. PICK r \in Runs :
            /\ run[r] = "absent" /\ run' = [run EXCEPT ![r] = "active"]
            /\ call' = [call EXCEPT ![c].at = "created", ![c].run = r]
      BY <1>6 DEF Create
    <2>2. /\ call[c].at = "holding" /\ UNCHANGED <<request, driver, gate>>
          /\ call'[c].at = "created" /\ call'[c].run = r /\ call'[c].process = call[c].process
          /\ \A d \in Clients \ {c} : call'[d] = call[d]
      BY <1>1, <1>6, <2>1 DEF Create, Calls
    <2>3. Gated'
      BY <1>1, <2>2 DEF Gated
    <2>4. \A q \in Runs : Reachable(q) => Reachable(q)'
      BY <2>2, StillReachable
    <2>5. Reachable(r)'
      BY <2>2 DEF Reachable
    <2>6. \A q \in Runs \ {r} : run'[q] = run[q]
      BY <1>1, <2>1 DEF Records
    <2>7. Existing'
      BY <1>1, <2>1, <2>2, <2>6 DEF Existing, Live
    <2>8. Orphans' \subseteq Orphans
      BY <2>4, <2>5, <2>6 DEF Orphans
    <2> QED BY <1>2, <2>3, <2>7, <2>8, NoNewOrphan
  <1>7. CASE Write(c)
    <2>1. /\ call[c].at = "created" /\ UNCHANGED <<run, driver>>
          /\ gate' = [gate EXCEPT ![call[c].process] = None]
          /\ request' = [request EXCEPT ![call[c].key] = call[c].run]
          /\ call'[c].at = "start"
          /\ \A d \in Clients \ {c} : call'[d] = call[d]
      BY <1>1, <1>7 DEF Write, Release, Calls
    <2>2. call[c].key \in Keys /\ request[call[c].key] = None
      BY <1>1, <2>1 DEF Calls, Asked, Served
    <2>3. Gated'
      <3> SUFFICES ASSUME NEW d \in Clients, call'[d].at \in {"polling", "holding", "created"}
                   PROVE  gate'[call'[d].process] = d
        BY DEF Gated
      <3>1. d # c /\ call'[d] = call[d]
        BY <2>1
      <3>2. gate[call[d].process] = d /\ gate[call[c].process] = c
        BY <1>1, <2>1, <3>1 DEF Gated
      <3>3. call[d].process \in Processes
        BY <1>1, <3>1 DEF Calls, Asked
      <3> QED BY <2>1, <3>1, <3>2, <3>3 DEF Memory
    <2>4. ASSUME NEW r \in Runs, Reachable(r) PROVE Reachable(r)'
      <3>1. \A k \in Keys : request[k] = r => request'[k] = r
        BY <1>1, <2>1, <2>2 DEF Records
      <3>2. request'[call[c].key] = call[c].run
        BY <1>1, <2>1, <2>2 DEF Records
      <3> QED BY <2>1, <2>2, <2>4, <3>1, <3>2, StillReachable
    <2>5. Existing' /\ Orphans' \subseteq Orphans
      BY <1>1, <2>1, <2>4 DEF Existing, Orphans, Live
    <2> QED BY <1>2, <2>3, <2>5, NoNewOrphan
  <1>8. CASE Start(c)
    <2>1. /\ call[c].at = "start" /\ UNCHANGED <<run, request, gate>>
          /\ call'[c].at = "idle" /\ \A d \in Clients \ {c} : call'[d] = call[d]
      BY <1>1, <1>8 DEF Start, durable, Calls, NoCall
    <2>2. Gated'
      BY <1>1, <2>1 DEF Gated
    <2>3. \A r \in Runs : Reachable(r) => Reachable(r)'
      BY <2>1, StillReachable
    <2>4. call[c].run \in Runs /\ call[c].process \in Processes /\ run[call[c].run] # "absent"
      BY <1>1, <2>1 DEF Calls, Asked, Served, Led
    <2>5. Existing'
      <3>1. \A p \in Processes, r \in Runs :
              Live(p, r)' => Live(p, r) \/ r = call[c].run
        <4>1. \A p \in Processes, r \in Runs \ {call[c].run} :
                driver'[p][r] = driver[p][r]
          BY <1>8, <2>4, OtherLoops DEF Start
        <4> QED BY <4>1 DEF Live
      <3> QED BY <1>1, <2>1, <2>4, <3>1 DEF Existing
    <2>6. Orphans' \subseteq Orphans
      BY <2>1, <2>3 DEF Orphans
    <2> QED BY <1>2, <2>2, <2>5, <2>6, NoNewOrphan
  <1> QED BY <1>2, <1>3, <1>4, <1>5, <1>6, <1>7, <1>8, NoNewOrphan DEF Handle

\* The steps of the runs keep the orphan invariant.
LEMMA RunOrphans ==
  ASSUME IInv, Memory, OrphanInv, NEW p \in Processes, NEW r \in Runs,
         Resume(p, r) \/ Inspect(p, r) \/ Loop(p, r) \/ Advance(p, r)
  PROVE  OrphanInv'
  <1>1. Gated /\ Existing /\ Records
    BY DEF OrphanInv, IInv, KeyInv
  <1>2. UNCHANGED <<request, gate, call, crashes>>
    BY DEF Resume, Inspect, Loop, Begin, Return, Abort, Advance, durable
  <1>3. Gated' /\ \A q \in Runs : Reachable(q)' <=> Reachable(q)
    BY <1>1, <1>2 DEF Gated, Reachable
  <1>4. CASE Resume(p, r) \/ Inspect(p, r)
    <2>1. UNCHANGED run /\ run[r] # "absent"
      BY <1>4 DEF Resume, Inspect, durable
    <2>2. \A q \in Processes, s \in Runs : Live(q, s)' => Live(q, s) \/ s = r
      BY <1>4 DEF Resume, Inspect, StartRun, Drive, Live, Memory
    <2>3. Existing' /\ Orphans' \subseteq Orphans
      BY <1>1, <1>3, <2>1, <2>2 DEF Existing, Orphans
    <2> QED BY <1>2, <1>3, <2>3, NoNewOrphan
  <1>5. CASE Loop(p, r) \/ Advance(p, r)
    <2>1. Live(p, r) /\ run[r] # "absent"
      BY <1>1, <1>5 DEF Loop, Begin, Return, Abort, Advance, Live, Existing
    <2>2. UNCHANGED run \/ \E s \in {"active", "stopped"} : run' = [run EXCEPT ![r] = s]
      BY <1>5 DEF Loop, Begin, Return, Abort, Advance, Turn, Fail, Put
    <2>3. \A q \in Runs : run'[q] # "absent" <=> run[q] # "absent"
      BY <1>1, <2>1, <2>2 DEF Records
    <2>4. \A q \in Processes, s \in Runs : Live(q, s)' => Live(q, s) \/ s = r
      BY <1>5, OtherLoops DEF Live
    <2>5. Existing' /\ Orphans' \subseteq Orphans
      BY <1>1, <1>3, <2>1, <2>3, <2>4 DEF Existing, Orphans
    <2> QED BY <1>2, <1>3, <2>5, NoNewOrphan
  <1> QED BY <1>4, <1>5

\* A crash cuts one creation short at most: that of the call at the gate.
LEMMA CrashOrphans ==
  ASSUME IInv, Memory, OrphanInv, NEW p \in Processes, Crash(p)
  PROVE  OrphanInv'
  <1> USE ServiceAssumption
  <1>1. Gated /\ Existing /\ Records /\ Calls
    BY DEF OrphanInv, IInv, KeyInv
  <1>2. /\ UNCHANGED <<run, request>> /\ crashes' = crashes + 1
        /\ gate' = [gate EXCEPT ![p] = None]
        /\ \A c \in Clients : call'[c] = IF call[c].process = p THEN NoCall ELSE call[c]
    BY DEF Crash, durable
  <1>3. Gated'
    <2> SUFFICES ASSUME NEW c \in Clients, call'[c].at \in {"polling", "holding", "created"}
                 PROVE  gate'[call'[c].process] = c
      BY DEF Gated
    <2>1. call'[c] = call[c] /\ call[c].process # p
      BY <1>2 DEF NoCall
    <2>2. call[c].process \in Processes /\ gate[call[c].process] = c
      BY <1>1, <2>1 DEF Calls, Asked, Gated
    <2> QED BY <1>2, <2>1, <2>2 DEF Memory
  <1>4. Existing'
    BY <1>1, <1>2 DEF Existing, Live, Crash, NoDriver, Memory
  <1> DEFINE lost == call[gate[p]].run
  <1>5. Orphans' \subseteq Orphans \cup {lost}
    <2> SUFFICES ASSUME NEW r \in Orphans', r # lost PROVE r \in Orphans
      OBVIOUS
    <2>1. r \in Runs /\ run[r] # "absent" /\ ~Reachable(r)'
      BY <1>2 DEF Orphans
    <2>2. ASSUME NEW c \in Clients, call[c].at = "created", call[c].run = r
          PROVE  call'[c].at = "created" /\ call'[c].run = r
      <3>1. gate[call[c].process] = c
        BY <1>1, <2>2 DEF Gated
      <3>2. call[c].process # p
        BY <2>2, <3>1
      <3> QED BY <1>2, <2>2, <3>2
    <2>3. ~Reachable(r)
      BY <1>2, <2>1, <2>2, StillReachable
    <2> QED BY <2>1, <2>3 DEF Orphans
  <1> HIDE DEF lost
  <1>6. IsFiniteSet(Orphans \cup {lost}) /\ Cardinality(Orphans \cup {lost}) <= crashes + 1
    <2>1. IsFiniteSet(Orphans) /\ Cardinality(Orphans) \in Nat /\ Cardinality(Orphans) <= crashes
          /\ crashes \in Nat
      BY FS_CardinalityType DEF OrphanInv
    <2>2. /\ IsFiniteSet(Orphans \cup {lost})
          /\ Cardinality(Orphans \cup {lost}) = IF lost \in Orphans THEN Cardinality(Orphans)
                                                ELSE Cardinality(Orphans) + 1
      BY <2>1, FS_AddElement
    <2> QED BY <2>1, <2>2
  <1>7. /\ IsFiniteSet(Orphans')
        /\ Cardinality(Orphans') <= Cardinality(Orphans \cup {lost})
    BY <1>5, <1>6, FS_Subset
  <1>8. Cardinality(Orphans') \in Nat /\ Cardinality(Orphans \cup {lost}) \in Nat /\ crashes \in Nat
    BY <1>6, <1>7, FS_CardinalityType DEF OrphanInv
  <1> QED BY <1>2, <1>3, <1>4, <1>6, <1>7, <1>8 DEF OrphanInv

\* Creations are cut short by crashes only, one by each: OrphansAreCrashes.
THEOREM Orphans_AreCrashes == Spec => []OrphansAreCrashes
  <1>1. Init => OrphanInv
    <2> SUFFICES ASSUME Init PROVE OrphanInv
      OBVIOUS
    <2>1. Orphans = {}
      BY DEF Init, Orphans
    <2>2. Gated /\ Existing
      BY DEF Init, Gated, Existing, Live, NoCall, NoDriver
    <2> QED BY <2>1, <2>2, FS_EmptySet DEF Init, OrphanInv
  <1>2. IInv /\ Memory /\ OrphanInv /\ [Next]_vars => OrphanInv'
    <2> SUFFICES ASSUME IInv, Memory, OrphanInv, [Next]_vars PROVE OrphanInv'
      OBVIOUS
    <2>1. CASE UNCHANGED vars
      <3>1. Gated' /\ Existing' /\ Orphans' \subseteq Orphans /\ UNCHANGED crashes
        BY <2>1 DEF vars, durable, OrphanInv, Gated, Existing, Orphans, Reachable, Live
      <3> QED BY <3>1, NoNewOrphan
    <2> QED BY <2>1, CallOrphans, RunOrphans, CrashOrphans DEF Next
  <1>3. TypeOK => Memory
    BY DEF TypeOK, Memory, Loops, Views, Words
  <1>4. OrphanInv => OrphansAreCrashes
    BY DEF OrphanInv, Orphans, OrphansAreCrashes
  <1> QED BY <1>1, <1>2, <1>3, <1>4, Invariance, TypeCorrect, PTL DEF Spec
=============================================================================
