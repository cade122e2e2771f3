----------------------------- MODULE RunService -----------------------------
(***************************************************************************)
(* The run service: idempotent starts, run leases and drive loops of the   *)
(* processes that share one runs directory, with crashes.                  *)
(*                                                                         *)
(* Code between two awaits holds the event loop of its process.  Leases    *)
(* are file locks, which the system releases with the process.  Of a run   *)
(* only matters whether it is active; what an advance does is in           *)
(* Investigation.                                                          *)
(***************************************************************************)
EXTENDS Naturals, FiniteSets

CONSTANTS
  Processes, Clients, Keys, Targets, Runs, None,
  MaxAdvances,   \* advance budget of a drive loop
  MaxCrashes     \* model bound

ASSUME ServiceAssumption ==
  /\ None \notin Processes \cup Clients \cup Targets \cup Runs \cup {"running"}
  /\ MaxAdvances \in Nat \ {0} /\ MaxCrashes \in Nat

VARIABLES
  \* durable
  run,        \* status of each run directory
  target,     \* opaque target of each run
  request,    \* .start-requests: the run of each idempotency key
  \* file locks
  lease,      \* run-*.lock: the process that drives a run
  hold,       \* request-*.lock: the client call that handles a key
  \* volatile, per process
  gate,       \* _request_lock
  seen,       \* the controller's cached state of each run
  record,     \* _records
  driver,     \* the drive loop of each run
  \* callers
  call,       \* a create_and_start call in progress
  answers,    \* observer: <<key, target, run>> that calls returned
  crashes

durable == <<run, target, request>>
vars == <<durable, lease, hold, gate, seen, record, driver, call, answers, crashes>>

NoCall == [at |-> "idle", process |-> None, key |-> None, target |-> None, run |-> None]
NoDriver == [at |-> "none", left |-> 0, moved |-> FALSE]

Init ==
  /\ run = [r \in Runs |-> "absent"] /\ target = [r \in Runs |-> None]
  /\ request = [k \in Keys |-> None]
  /\ lease = [r \in Runs |-> None] /\ hold = [k \in Keys |-> None]
  /\ gate = [p \in Processes |-> None]
  /\ seen = [p \in Processes |-> [r \in Runs |-> None]]
  /\ record = [p \in Processes |-> [r \in Runs |-> None]]
  /\ driver = [p \in Processes |-> [r \in Runs |-> NoDriver]]
  /\ call = [c \in Clients |-> NoCall] /\ answers = {} /\ crashes = 0

Live(p, r) == driver[p][r].at # "none"
\* A call between its request lock and its start never awaits.
LoopIsFree(p) ==
  \A c \in Clients : call[c].process = p => call[c].at \notin {"holding", "created", "start"}

-----------------------------------------------------------------------------
(* start: the cached state, the task of this process, the run lease.       *)

Cached(p, r) == IF seen[p][r] = None THEN run[r] ELSE seen[p][r]
Fill(p, r) == seen' = [seen EXCEPT ![p][r] = Cached(p, r)]
Note(p, r, what) == record' = [record EXCEPT ![p][r] = what]

Drive(p, r) ==
  /\ lease' = [lease EXCEPT ![r] = p] /\ Note(p, r, "running")
  /\ driver' = [driver EXCEPT ![p][r].at = "scheduled"]

\* Mutant: the lease of another process is not respected.
StartRunUnleased(p, r) ==
  /\ Fill(p, r)
  /\ \/ Cached(p, r) = "stopped" /\ Note(p, r, "stopped") /\ UNCHANGED <<lease, driver>>
     \/ Cached(p, r) = "active" /\ Live(p, r) /\ UNCHANGED <<record, lease, driver>>
     \/ Cached(p, r) = "active" /\ ~Live(p, r) /\ Drive(p, r)
StartRun(p, r) ==
  /\ Fill(p, r)
  /\ \/ Cached(p, r) = "stopped" /\ Note(p, r, "stopped") /\ UNCHANGED <<lease, driver>>
     \/ Cached(p, r) = "active" /\ Live(p, r) /\ UNCHANGED <<record, lease, driver>>
     \/ /\ Cached(p, r) = "active" /\ ~Live(p, r) /\ lease[r] # None
        /\ Note(p, r, "elsewhere") /\ UNCHANGED <<lease, driver>>
     \/ Cached(p, r) = "active" /\ ~Live(p, r) /\ lease[r] = None /\ Drive(p, r)

-----------------------------------------------------------------------------
(* create_and_start and resume.                                            *)

\* The request lock of the process, in whatever order calls wait for it.
Enter(c, p, k, t) ==
  /\ call[c].at = "idle" /\ gate[p] = None /\ LoopIsFree(p)
  /\ gate' = [gate EXCEPT ![p] = c]
  /\ call' = [call EXCEPT ![c] = [at |-> "polling", process |-> p, key |-> k,
                                  target |-> t, run |-> None]]
  /\ UNCHANGED <<durable, lease, hold, seen, record, driver, answers, crashes>>

Acquire(c) ==
  /\ call[c].at = "polling" /\ LoopIsFree(call[c].process) /\ hold[call[c].key] = None
  /\ hold' = [hold EXCEPT ![call[c].key] = c]
  /\ call' = [call EXCEPT ![c].at = "holding"]
  /\ UNCHANGED <<durable, lease, gate, seen, record, driver, answers, crashes>>

\* The polls are over and another process still handles the key.
GiveUp(c) ==
  /\ call[c].at = "polling" /\ LoopIsFree(call[c].process) /\ hold[call[c].key] # None
  /\ gate' = [gate EXCEPT ![call[c].process] = None] /\ call' = [call EXCEPT ![c] = NoCall]
  /\ UNCHANGED <<durable, lease, hold, seen, record, driver, answers, crashes>>

Release(c) ==
  /\ hold' = [hold EXCEPT ![call[c].key] = None]
  /\ gate' = [gate EXCEPT ![call[c].process] = None]

\* Mutant: a repeated key is answered whatever target it asks for.
KnownUnchecked(c) ==
  /\ call[c].at = "holding" /\ request[call[c].key] # None /\ Release(c)
  /\ LET r == request[call[c].key] IN
       /\ Fill(call[c].process, r) /\ call' = [call EXCEPT ![c].at = "start", ![c].run = r]
  /\ UNCHANGED <<durable, lease, record, driver, answers, crashes>>
\* The key was used: for this target, or for another one (a conflict).
Known(c) ==
  /\ call[c].at = "holding" /\ request[call[c].key] # None /\ Release(c)
  /\ LET r == request[call[c].key] IN
       \/ /\ target[r] = call[c].target /\ Fill(call[c].process, r)
          /\ call' = [call EXCEPT ![c].at = "start", ![c].run = r]
       \/ /\ target[r] # call[c].target
          /\ call' = [call EXCEPT ![c] = NoCall] /\ UNCHANGED seen
  /\ UNCHANGED <<durable, lease, record, driver, answers, crashes>>

\* Mutant: a run is created before the key is looked up.
CreateFirst(c) ==
  /\ call[c].at = "holding"
  /\ \E r \in Runs :
       /\ run[r] = "absent"
       /\ run' = [run EXCEPT ![r] = "active"] /\ target' = [target EXCEPT ![r] = call[c].target]
       /\ seen' = [seen EXCEPT ![call[c].process][r] = "active"]
       /\ call' = [call EXCEPT ![c].at = "created", ![c].run = r]
  /\ UNCHANGED <<request, lease, hold, gate, record, driver, answers, crashes>>
\* A new key: the run directory, then its start request.
Create(c) ==
  /\ call[c].at = "holding" /\ request[call[c].key] = None
  /\ \E r \in Runs :
       /\ run[r] = "absent"
       /\ run' = [run EXCEPT ![r] = "active"] /\ target' = [target EXCEPT ![r] = call[c].target]
       /\ seen' = [seen EXCEPT ![call[c].process][r] = "active"]
       /\ call' = [call EXCEPT ![c].at = "created", ![c].run = r]
  /\ UNCHANGED <<request, lease, hold, gate, record, driver, answers, crashes>>
Write(c) ==
  /\ call[c].at = "created" /\ Release(c)
  /\ request' = [request EXCEPT ![call[c].key] = call[c].run]
  /\ call' = [call EXCEPT ![c].at = "start"]
  /\ UNCHANGED <<run, target, lease, seen, record, driver, answers, crashes>>

Start(c) ==
  /\ call[c].at = "start" /\ StartRun(call[c].process, call[c].run)
  /\ answers' = answers \cup {<<call[c].key, call[c].target, call[c].run>>}
  /\ call' = [call EXCEPT ![c] = NoCall]
  /\ UNCHANGED <<durable, hold, gate, crashes>>

Resume(p, r) ==
  /\ run[r] # "absent" /\ LoopIsFree(p) /\ StartRun(p, r)
  /\ UNCHANGED <<durable, hold, gate, call, answers, crashes>>

\* inspect, from a thread of the API: only a stopped run changes its record.
Inspect(p, r) ==
  /\ run[r] # "absent" /\ Fill(p, r)
  /\ IF Cached(p, r) = "stopped" THEN Note(p, r, "stopped") ELSE UNCHANGED record
  /\ UNCHANGED <<durable, lease, hold, gate, driver, call, answers, crashes>>

-----------------------------------------------------------------------------
(* The drive loop.                                                         *)

Put(p, r, s) == run' = [run EXCEPT ![r] = s] /\ seen' = [seen EXCEPT ![p][r] = s]

\* The last record, and the finally clause.
End(p, r) ==
  /\ Note(p, r, "stopped") /\ driver' = [driver EXCEPT ![p][r] = NoDriver]
  /\ lease' = [lease EXCEPT ![r] = None]

\* fail_run leaves a run alone that has stopped meanwhile.  Its own write succeeds.
Fail(p, r) ==
  /\ IF seen[p][r] = "stopped" THEN UNCHANGED <<run, seen>> ELSE Put(p, r, "stopped")
  /\ End(p, r)

\* Mutant: the loop has no budget of advances.
TurnUnbounded(p, r, left) ==
  \/ /\ seen[p][r] = "stopped" /\ End(p, r) /\ UNCHANGED <<run, seen>>
  \/ /\ seen[p][r] # "stopped"
     /\ driver' = [driver EXCEPT ![p][r] = [at |-> "advancing", left |-> left - 1, moved |-> FALSE]]
     /\ UNCHANGED <<run, seen, record, lease>>
\* The head of the loop.
Turn(p, r, left) ==
  \/ /\ seen[p][r] = "stopped" /\ End(p, r) /\ UNCHANGED <<run, seen>>
  \/ /\ seen[p][r] # "stopped" /\ left = 0 /\ Fail(p, r)
  \/ /\ seen[p][r] # "stopped" /\ left > 0
     /\ driver' = [driver EXCEPT ![p][r] = [at |-> "advancing", left |-> left - 1, moved |-> FALSE]]
     /\ UNCHANGED <<run, seen, record, lease>>

Begin(p, r) ==
  /\ driver[p][r].at = "scheduled" /\ LoopIsFree(p) /\ Turn(p, r, MaxAdvances)
  /\ UNCHANGED <<target, request, hold, gate, call, answers, crashes>>

\* The advance saves the state it holds, as active or as stopped.
Advance(p, r) ==
  /\ driver[p][r].at = "advancing" /\ seen[p][r] = "active"
  /\ \E s \in {"active", "stopped"} : Put(p, r, s)
  /\ driver' = [driver EXCEPT ![p][r].moved = TRUE]
  /\ UNCHANGED <<target, request, lease, hold, gate, record, call, answers, crashes>>

\* The advance returns: stopped, without progress, or to the next turn.
Return(p, r) ==
  /\ driver[p][r].at = "advancing" /\ LoopIsFree(p)
  /\ IF seen[p][r] # "stopped" /\ ~driver[p][r].moved
     THEN Fail(p, r) ELSE Turn(p, r, driver[p][r].left)
  /\ UNCHANGED <<target, request, hold, gate, call, answers, crashes>>

\* The deadline, or an exception of the advance.
Abort(p, r) ==
  /\ driver[p][r].at = "advancing" /\ LoopIsFree(p) /\ Fail(p, r)
  /\ UNCHANGED <<target, request, hold, gate, call, answers, crashes>>

\* A process dies, or is closed, and is started again.
Crash(p) ==
  /\ crashes < MaxCrashes /\ crashes' = crashes + 1
  /\ lease' = [r \in Runs |-> IF lease[r] = p THEN None ELSE lease[r]]
  /\ hold' = [k \in Keys |-> IF hold[k] # None /\ call[hold[k]].process = p THEN None ELSE hold[k]]
  /\ gate' = [gate EXCEPT ![p] = None]
  /\ seen' = [seen EXCEPT ![p] = [r \in Runs |-> None]]
  /\ record' = [record EXCEPT ![p] = [r \in Runs |-> None]]
  /\ driver' = [driver EXCEPT ![p] = [r \in Runs |-> NoDriver]]
  /\ call' = [c \in Clients |-> IF call[c].process = p THEN NoCall ELSE call[c]]
  /\ UNCHANGED <<durable, answers>>

Handle(c) == Acquire(c) \/ GiveUp(c) \/ Known(c) \/ Create(c) \/ Write(c) \/ Start(c)
Loop(p, r) == Begin(p, r) \/ Return(p, r) \/ Abort(p, r)
Next ==
  \/ \E c \in Clients :
       \/ \E p \in Processes, k \in Keys, t \in Targets : Enter(c, p, k, t)
       \/ Handle(c)
  \/ \E p \in Processes, r \in Runs :
       Resume(p, r) \/ Inspect(p, r) \/ Loop(p, r) \/ Advance(p, r)
  \/ \E p \in Processes : Crash(p)
Spec == Init /\ [][Next]_vars
-----------------------------------------------------------------------------
(* Properties.                                                             *)

\* Every variable has its type.
TypeOK ==
  /\ run \in [Runs -> {"absent", "active", "stopped"}]
  /\ target \in [Runs -> Targets \cup {None}] /\ request \in [Keys -> Runs \cup {None}]
  /\ lease \in [Runs -> Processes \cup {None}] /\ hold \in [Keys -> Clients \cup {None}]
  /\ gate \in [Processes -> Clients \cup {None}]
  /\ seen \in [Processes -> [Runs -> {None, "active", "stopped"}]]
  /\ record \in [Processes -> [Runs -> {None, "running", "elsewhere", "stopped"}]]
  /\ driver \in [Processes -> [Runs -> [at : {"none", "scheduled", "advancing"},
                                        left : 0..MaxAdvances, moved : BOOLEAN]]]
  /\ call \in [Clients -> [at : {"idle", "polling", "holding", "created", "start"},
                           process : Processes \cup {None}, key : Keys \cup {None},
                           target : Targets \cup {None}, run : Runs \cup {None}]]
  /\ answers \subseteq Keys \X Targets \X Runs /\ crashes \in 0..MaxCrashes

\* A run is driven by one loop at most, of all processes, also when starts,
\* resumes, the end of a loop and a crash meet.
OneDriver ==
  \A p, q \in Processes, r \in Runs : Live(p, r) /\ Live(q, r) => p = q

\* A run that nobody drives can be started: no lease outlives its loop.
LeaseIsDriven ==
  \A p \in Processes, r \in Runs : lease[r] = p => Live(p, r)

\* A key answers with one run, of the target that was asked for, whoever asks
\* and however often, in whatever process, across crashes.
SameKeySameRun ==
  \A a, b \in answers : a[1] = b[1] => a = b

\* A run that no request leads to is being created, or a crash cut its creation
\* short: one run at most for each crash.
Reachable(r) == (\E k \in Keys : request[k] = r)
                \/ \E c \in Clients : call[c].at = "created" /\ call[c].run = r
OrphansAreCrashes ==
  Cardinality({r \in Runs : run[r] # "absent" /\ ~Reachable(r)}) <= crashes

\* A snapshot that calls a run active because this process drives it is right.
ActiveIsDriven ==
  \A p \in Processes, r \in Runs : record[p][r] = "running" => Live(p, r)

\* Loop, lease and record agree: a run has one loop at most, and neither its
\* lease nor the word that it is running outlives that loop.
LoopsAreKnown == OneDriver /\ LeaseIsDriven /\ ActiveIsDriven
=============================================================================
