----------------------------- MODULE StateCache -----------------------------
(***************************************************************************)
(* The cache of a run in the API process: _states and _events, filled by   *)
(* whoever asks first, written through by the driver.                      *)
(*                                                                         *)
(* The event loop of the driver and the threads of the API run in          *)
(* parallel, so a fill is the four steps it has in the code.  A state is   *)
(* the number of saves it contains, a list of events its length.           *)
(***************************************************************************)
EXTENDS Naturals, Sequences

CONSTANTS
  Viewers,      \* threads that ask inside the run boundary (snapshot, events)
  Readers,      \* threads that ask outside of it (read, stream and artifact routes)
  Loop, None,
  MaxSaves, MaxCrashes     \* model bounds

Threads == Viewers \cup Readers
Actors == Threads \cup {Loop}

ASSUME CacheAssumption ==
  /\ Loop \notin Threads /\ None \notin Actors \cup Nat /\ Viewers \cap Readers = {}
  /\ MaxSaves \in Nat /\ MaxCrashes \in Nat

VARIABLES
  \* durable
  saved,     \* state.json
  trace,     \* trace.jsonl: the sequence numbers of its lines
  \* volatile
  state,     \* _states
  events,    \* _events
  inside,    \* who is inside the run boundary
  fill,      \* the get call of each actor
  driver,    \* whether the driver is stopped, between nodes, or in a node
  base,      \* the state a node of the driver works with
  crashes,
  stray      \* history: a reader outside the boundary put something old into the cache,
             \* or a node met a reader's fill half done

durable == <<saved, trace>>
cache == <<state, events>>
vars == <<durable, cache, inside, fill, driver, base, crashes, stray>>

NoFill == [at |-> "idle", state |-> None, events |-> None]
At(a, where) == fill' = [fill EXCEPT ![a].at = where]

\* A run that this process has created.
Init ==
  /\ saved = 1 /\ trace = <<1>> /\ state = 1 /\ events = 1
  /\ inside = None /\ fill = [a \in Actors |-> NoFill]
  /\ driver = "stopped" /\ base = None /\ crashes = 0 /\ stray = FALSE

-----------------------------------------------------------------------------
(* get, of whatever actor: a hit, or a read and two assignments.           *)

HalfFilled == events = None /\ \E r \in Readers : fill[r].at \in {"set", "traced"}
Ask(a) ==
  /\ fill[a].at = "asking"
  /\ IF state = None
     THEN /\ fill' = [fill EXCEPT ![a] = [at |-> "read", state |-> saved, events |-> None]]
          /\ UNCHANGED stray
     ELSE /\ fill' = [fill EXCEPT ![a] = [at |-> "done", state |-> state, events |-> None]]
          /\ stray' = (stray \/ (driver = "node" /\ a = Loop /\ HalfFilled))
  /\ UNCHANGED <<durable, cache, inside, driver, base, crashes>>

\* Mutant: the events of a run are not loaded with its state.
SetStateOnly(a) ==
  /\ fill[a].at = "read" /\ state' = fill[a].state /\ At(a, "done")
  /\ stray' = (stray \/ (a \in Readers /\ fill[a].state # saved))
  /\ UNCHANGED <<durable, events, inside, driver, base, crashes>>
SetState(a) ==
  /\ fill[a].at = "read" /\ state' = fill[a].state /\ At(a, "set")
  /\ stray' = (stray \/ (a \in Readers /\ fill[a].state # saved))
  /\ UNCHANGED <<durable, events, inside, driver, base, crashes>>

ReadTrace(a) ==
  /\ fill[a].at = "set"
  /\ fill' = [fill EXCEPT ![a].at = "traced", ![a].events = Len(trace)]
  /\ UNCHANGED <<durable, cache, inside, driver, base, crashes, stray>>

SetEvents(a) ==
  /\ fill[a].at = "traced" /\ events' = fill[a].events /\ At(a, "done")
  /\ stray' = (stray \/ (a \in Readers /\ fill[a].events # Len(trace)))
  /\ UNCHANGED <<durable, state, inside, driver, base, crashes>>

Get(a) == Ask(a) \/ SetState(a) \/ ReadTrace(a) \/ SetEvents(a)

-----------------------------------------------------------------------------
(* The routes of the API.                                                  *)

Read(a) ==
  /\ a \in Readers /\ fill[a].at = "idle" /\ At(a, "asking")
  /\ UNCHANGED <<durable, cache, inside, driver, base, crashes, stray>>
\* Mutant: a snapshot is taken without the run boundary.
ViewOpenly(a) ==
  /\ a \in Viewers /\ fill[a].at = "idle" /\ At(a, "asking")
  /\ UNCHANGED <<durable, cache, inside, driver, base, crashes, stray>>
View(a) ==
  /\ a \in Viewers /\ fill[a].at = "idle" /\ inside = None /\ inside' = a /\ At(a, "asking")
  /\ UNCHANGED <<durable, cache, driver, base, crashes, stray>>

Reply(a) ==
  /\ fill[a].at = "done" /\ fill' = [fill EXCEPT ![a] = NoFill]
  /\ inside' = IF inside = a THEN None ELSE inside
  /\ UNCHANGED <<durable, cache, driver, base, crashes, stray>>

-----------------------------------------------------------------------------
(* The driver: start asks outside of the boundary, every node inside.      *)

Start ==
  /\ driver = "stopped" /\ fill[Loop].at = "idle" /\ At(Loop, "asking")
  /\ UNCHANGED <<durable, cache, inside, driver, base, crashes, stray>>
Schedule ==
  /\ driver = "stopped" /\ fill[Loop].at = "done" /\ driver' = "between"
  /\ fill' = [fill EXCEPT ![Loop] = NoFill]
  /\ UNCHANGED <<durable, cache, inside, base, crashes, stray>>

EnterNode ==
  /\ driver = "between" /\ inside = None
  /\ inside' = Loop /\ driver' = "node" /\ At(Loop, "asking")
  /\ UNCHANGED <<durable, cache, base, crashes, stray>>
Work ==
  /\ driver = "node" /\ fill[Loop].at = "done" /\ base' = fill[Loop].state
  /\ fill' = [fill EXCEPT ![Loop] = NoFill]
  /\ UNCHANGED <<durable, cache, inside, driver, crashes, stray>>

\* Mutant: a save does not reach the cache.
SaveUncached ==
  /\ driver = "node" /\ base # None /\ saved <= MaxSaves
  /\ saved' = base + 1 /\ base' = base + 1
  /\ UNCHANGED <<trace, cache, inside, fill, driver, crashes, stray>>
Save ==
  /\ driver = "node" /\ base # None /\ saved <= MaxSaves
  /\ saved' = base + 1 /\ base' = base + 1 /\ state' = base + 1
  /\ UNCHANGED <<trace, events, inside, fill, driver, crashes, stray>>

\* The sequence of an event counts the cached events; without them it raises.
Emit ==
  /\ driver = "node" /\ base # None /\ Len(trace) <= MaxSaves
  /\ IF events = None THEN driver' = "raised" /\ UNCHANGED <<trace, events>>
     ELSE trace' = Append(trace, events + 1) /\ events' = events + 1 /\ UNCHANGED driver
  /\ UNCHANGED <<saved, state, inside, fill, base, crashes, stray>>

\* Mutant: a node does not leave the boundary.
LeaveNodeHeld ==
  /\ driver = "node" /\ base # None /\ driver' = "between" /\ base' = None
  /\ UNCHANGED <<durable, cache, inside, fill, crashes, stray>>
LeaveNode ==
  /\ driver = "node" /\ base # None
  /\ inside' = None /\ driver' = "between" /\ base' = None
  /\ UNCHANGED <<durable, cache, fill, crashes, stray>>

Crash ==
  /\ crashes < MaxCrashes /\ crashes' = crashes + 1
  /\ state' = None /\ events' = None /\ inside' = None
  /\ fill' = [a \in Actors |-> NoFill] /\ driver' = "stopped" /\ base' = None
  /\ UNCHANGED <<durable, stray>>

Driver == Start \/ Schedule \/ EnterNode \/ Work \/ Save \/ Emit \/ LeaveNode
Next ==
  \/ Driver \/ Crash
  \/ \E a \in Actors : Get(a)
  \/ \E a \in Threads : Read(a) \/ View(a) \/ Reply(a)
Spec == Init /\ [][Next]_vars
-----------------------------------------------------------------------------
(* Properties.                                                             *)

Fills == [at : {"idle", "asking", "read", "set", "traced", "done"},
          state : Nat \cup {None}, events : Nat \cup {None}]

\* Every variable has its type, and the driver is in the boundary during a node.
TypeOK ==
  /\ saved \in Nat /\ trace \in Seq(Nat)
  /\ state \in Nat \cup {None} /\ events \in Nat \cup {None}
  /\ inside \in Actors \cup {None} /\ fill \in [Actors -> Fills]
  /\ driver \in {"stopped", "between", "node", "raised"} /\ base \in Nat \cup {None}
  /\ crashes \in 0..MaxCrashes /\ stray \in BOOLEAN
  /\ driver \in {"node", "raised"} <=> inside = Loop

\* Events are numbered in the order of the trace, without gaps or repeats.
Sequenced == \A n \in DOMAIN trace : trace[n] = n

\* The trace is numbered, whatever viewers, readers, the start of a run and its
\* nodes do after a restart, unless a reader put an old list of events back.
SequencedUnlessStray == stray \/ Sequenced

\* A save contains all earlier ones, also those made after a restart while
\* threads were filling the cache, unless a reader put an old state back.
NoLostUpdate == [][saved' # saved => stray \/ saved' = saved + 1]_vars

\* A snapshot is made from the durable run, or fails for want of its events,
\* unless a reader put something old back.
ViewIsCurrent ==
  stray \/ \A v \in Viewers :
    fill[v].at = "done" /\ events # None => fill[v].state = saved /\ events = Len(trace)

\* A node that appends an event finds the events of its run, though they are
\* cached after its state, unless it met a reader's fill half done.
EventsAreThere == stray \/ driver # "raised"

\* What nodes append after a restart fits the durable trace: they find its
\* events, and number the next one after the last.
TraceIsServed == SequencedUnlessStray /\ EventsAreThere
=============================================================================
