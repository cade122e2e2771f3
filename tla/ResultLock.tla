----------------------------- MODULE ResultLock -----------------------------
(***************************************************************************)
(* Locking and revealing the result of one run: the files of the run       *)
(* directory, the lock and reveal calls of API threads in one or several   *)
(* processes, the driver that finishes the run, and process crashes.       *)
(*                                                                         *)
(* state.json is "status" (the lock state changes with it); a byte string  *)
(* of result.json is the time stamp in it, a digest and a reveal are the   *)
(* stamp of the result they were made from, and 0 is a missing file.       *)
(***************************************************************************)
EXTENDS Naturals, Sequences

CONSTANTS
  Processes, Callers, None,
  Home,         \* the process of each caller
  Runner,       \* the process that drives the run
  MaxCrashes    \* model bound

ASSUME CallerAssumption ==
  /\ None \notin Callers \cup Processes /\ Callers \cap Processes = {}
  /\ Home \in [Callers -> Processes] /\ Runner \in Processes
  /\ MaxCrashes \in Nat
  /\ None \notin {"RUNNING", "READY_TO_LOCK", "RESULT_LOCKED", "REVEALED"}

VARIABLES
  \* durable
  status, result, digest, reveal,
  trace,              \* events as [sequence, type]
  \* volatile
  seen, known,        \* per process: cached state, number of cached events
  inside,             \* per process: who is inside the run boundary
  holder,             \* who holds the authority lock file
  at, got,            \* per caller: its next step, the stamp it works with
  driver,             \* the finalize node of the driver
  \* observers
  receipts,           \* digests that callers were given
  clock, crashes

files == <<status, result, digest, reveal>>
cache == <<seen, known>>
locks == <<inside, holder>>
caller == <<at, got>>
vars == <<files, trace, cache, locks, caller, driver, receipts, clock, crashes>>

Locked == {"RESULT_LOCKED", "REVEALED"}
Waiting == {"lock", "reveal"}
Critical == {"result", "digest", "save", "emit", "receipt",
             "lookup", "write", "publish", "announce", "read"}
Viewing == {"view", "compare"}

Init ==
  /\ status = "RUNNING" /\ driver = "deciding"
  /\ result = 0 /\ digest = 0 /\ reveal = 0 /\ trace = <<>>
  /\ seen = [p \in Processes |-> None] /\ known = [p \in Processes |-> 0]
  /\ inside = [p \in Processes |-> None] /\ holder = None
  /\ at = [c \in Callers |-> "idle"] /\ got = [c \in Callers |-> 0]
  /\ receipts = {} /\ clock = 0 /\ crashes = 0

-----------------------------------------------------------------------------
(* Shared pieces.                                                          *)

Goto(c, where) == at' = [at EXCEPT ![c] = where]
Save(p, new) == status' = new /\ seen' = [seen EXCEPT ![p] = new]
\* The sequence of an event counts the cached events of its process.
Emit(p, type) ==
  /\ trace' = Append(trace, [sequence |-> known[p] + 1, type |-> type])
  /\ known' = [known EXCEPT ![p] = @ + 1]
\* get: the first use of a run in a process reads its files.
Fill(p) ==
  IF seen[p] = None
  THEN seen' = [seen EXCEPT ![p] = status] /\ known' = [known EXCEPT ![p] = Len(trace)]
  ELSE UNCHANGED cache
\* Mutant: the authority lock file is not unlocked.
LeaveLocked(c) ==
  /\ Goto(c, "idle") /\ got' = [got EXCEPT ![c] = 0]
  /\ inside' = [inside EXCEPT ![Home[c]] = None] /\ UNCHANGED holder
Leave(c) ==
  /\ Goto(c, "idle") /\ got' = [got EXCEPT ![c] = 0]
  /\ inside' = [inside EXCEPT ![Home[c]] = None]
  /\ holder' = IF holder = c THEN None ELSE holder

-----------------------------------------------------------------------------
(* Entering a call.                                                        *)

\* The supported deployment: the process that drives the run also serves its
\* calls; another process comes in only when the driver has finished.
Serves(p) == p = Runner \/ driver = "done"

\* run_boundary, then get.
Enter(c, call) ==
  /\ Serves(Home[c]) /\ at[c] = "idle" /\ inside[Home[c]] = None
  /\ inside' = [inside EXCEPT ![Home[c]] = c] /\ Goto(c, call) /\ Fill(Home[c])
  /\ UNCHANGED <<files, trace, holder, got, driver, receipts, clock, crashes>>

\* Mutant: a result that is ready may be revealed.
RevealableReady(s) == s \in Locked \cup {"READY_TO_LOCK"}
Revealable(s) == s \in Locked

\* Which part of lock or reveal a call takes up in state s.
Begin(c, s) ==
  \/ /\ at[c] = "lock"
     /\ \/ s \in Locked /\ Goto(c, "receipt")
        \/ s = "READY_TO_LOCK" /\ Goto(c, "result")
     /\ UNCHANGED <<got, inside>> /\ holder' = c
  \/ /\ at[c] = "reveal"
     /\ \/ s = "REVEALED" /\ Goto(c, "read")
        \/ s # "REVEALED" /\ Revealable(s) /\ Goto(c, "lookup")
     /\ UNCHANGED <<got, inside>> /\ holder' = c
  \/ /\ IF at[c] = "lock" THEN s = "RUNNING" ELSE ~Revealable(s)
     /\ Leave(c)

\* Mutant: the state is the one the process has cached.
RefreshCached(c) ==
  /\ at[c] \in Waiting /\ holder = None
  /\ Begin(c, seen[Home[c]])
  /\ UNCHANGED <<files, trace, cache, driver, receipts, clock, crashes>>
\* Mutant: the state is reloaded and the events are not.
RefreshStateOnly(c) ==
  /\ at[c] \in Waiting /\ holder = None
  /\ seen' = [seen EXCEPT ![Home[c]] = status]
  /\ Begin(c, status)
  /\ UNCHANGED <<files, trace, known, driver, receipts, clock, crashes>>
\* The authority lock, then state and events are reloaded from the files.
Refresh(c) ==
  /\ at[c] \in Waiting /\ holder = None
  /\ seen' = [seen EXCEPT ![Home[c]] = status]
  /\ known' = [known EXCEPT ![Home[c]] = Len(trace)]
  /\ Begin(c, status)
  /\ UNCHANGED <<files, trace, driver, receipts, clock, crashes>>

-----------------------------------------------------------------------------
(* lock.                                                                   *)

\* Mutant: the state is saved before the files are complete.
WriteResultLocked(c) ==
  /\ at[c] = "result" /\ clock' = clock + 1 /\ result' = clock'
  /\ got' = [got EXCEPT ![c] = clock'] /\ Goto(c, "digest") /\ status' = "RESULT_LOCKED"
  /\ UNCHANGED <<digest, reveal, trace, cache, locks, driver, receipts, crashes>>
\* The result carries the time of this call.
WriteResult(c) ==
  /\ at[c] = "result" /\ clock' = clock + 1 /\ result' = clock'
  /\ got' = [got EXCEPT ![c] = clock'] /\ Goto(c, "digest")
  /\ UNCHANGED <<status, digest, reveal, trace, cache, locks, driver, receipts, crashes>>

WriteDigest(c) ==
  /\ at[c] = "digest" /\ digest' = got[c] /\ Goto(c, "save")
  /\ UNCHANGED <<status, result, reveal, trace, cache, locks, got, driver, receipts, clock, crashes>>

SaveLocked(c) ==
  /\ at[c] = "save" /\ Save(Home[c], "RESULT_LOCKED") /\ Goto(c, "emit")
  /\ UNCHANGED <<result, digest, reveal, trace, known, locks, got, driver, receipts, clock, crashes>>

EmitLocked(c) ==
  /\ at[c] = "emit" /\ Emit(Home[c], "result.locked")
  /\ receipts' = receipts \cup {got[c]} /\ Leave(c)
  /\ UNCHANGED <<files, seen, driver, clock, crashes>>

\* A repeated lock answers with the verified files, or fails.
Receipt(c) ==
  /\ at[c] = "receipt" /\ Leave(c)
  /\ receipts' = IF result = digest THEN receipts \cup {digest} ELSE receipts
  /\ UNCHANGED <<files, trace, cache, driver, clock, crashes>>

-----------------------------------------------------------------------------
(* reveal.                                                                 *)

\* A comparison that is on disk is taken if it verifies; else the provider is
\* asked, and may fail.
LookUp(c) ==
  /\ at[c] = "lookup"
  /\ \/ /\ reveal # 0 /\ result = digest /\ reveal = digest
        /\ Goto(c, "publish") /\ UNCHANGED <<got, locks>>
     \/ /\ reveal = 0 /\ result = digest
        /\ Goto(c, "write") /\ got' = [got EXCEPT ![c] = digest] /\ UNCHANGED locks
     \/ Leave(c)
  /\ UNCHANGED <<files, trace, cache, driver, receipts, clock, crashes>>

WriteReveal(c) ==
  /\ at[c] = "write" /\ reveal' = got[c] /\ Goto(c, "publish")
  /\ UNCHANGED <<status, result, digest, trace, cache, locks, got, driver, receipts, clock, crashes>>

SaveRevealed(c) ==
  /\ at[c] = "publish" /\ Save(Home[c], "REVEALED") /\ Goto(c, "announce")
  /\ UNCHANGED <<result, digest, reveal, trace, known, locks, got, driver, receipts, clock, crashes>>

EmitRevealed(c) ==
  /\ at[c] = "announce" /\ Emit(Home[c], "catalog.revealed") /\ Leave(c)
  /\ UNCHANGED <<files, seen, driver, receipts, clock, crashes>>

ReadReveal(c) ==
  /\ at[c] = "read" /\ Leave(c)
  /\ UNCHANGED <<files, trace, cache, driver, receipts, clock, crashes>>

-----------------------------------------------------------------------------
(* The mission-control snapshot: the boundary, the cached state, two reads. *)

ViewResult(c) ==
  /\ at[c] = "view"
  /\ IF seen[Home[c]] \in Locked
     THEN got' = [got EXCEPT ![c] = result] /\ Goto(c, "compare") /\ UNCHANGED locks
     ELSE Leave(c)
  /\ UNCHANGED <<files, trace, cache, driver, receipts, clock, crashes>>

ViewDigest(c) ==
  /\ at[c] = "compare" /\ Leave(c)
  /\ UNCHANGED <<files, trace, cache, driver, receipts, clock, crashes>>

-----------------------------------------------------------------------------
(* The finalize node of the driver, and the process.                       *)

\* Mutant: the node does not enter the run boundary.
SaveReadyUnserialized ==
  /\ driver = "deciding" /\ driver' = "ready"
  /\ status' = "READY_TO_LOCK" /\ seen' = [seen EXCEPT ![Runner] = "READY_TO_LOCK"]
  /\ known' = IF seen[Runner] = None THEN [known EXCEPT ![Runner] = Len(trace)] ELSE known
  /\ UNCHANGED <<result, digest, reveal, trace, locks, caller, receipts, clock, crashes>>
SaveReady ==
  /\ driver = "deciding" /\ inside[Runner] = None /\ driver' = "ready"
  /\ inside' = [inside EXCEPT ![Runner] = Runner]
  /\ status' = "READY_TO_LOCK" /\ seen' = [seen EXCEPT ![Runner] = "READY_TO_LOCK"]
  /\ known' = IF seen[Runner] = None THEN [known EXCEPT ![Runner] = Len(trace)] ELSE known
  /\ UNCHANGED <<result, digest, reveal, trace, holder, caller, receipts, clock, crashes>>

\* A changed summary is saved with the state the node holds, not a fresh one.
SaveSummary ==
  /\ driver = "ready" /\ driver' = "summary"
  /\ \/ UNCHANGED <<status, seen>>
     \/ Save(Runner, "READY_TO_LOCK")
  /\ UNCHANGED <<result, digest, reveal, trace, known, locks, caller, receipts, clock, crashes>>

EmitReady ==
  /\ driver = "summary" /\ driver' = "done" /\ Emit(Runner, "status.changed")
  /\ inside' = [inside EXCEPT ![Runner] = None]
  /\ UNCHANGED <<files, seen, holder, caller, receipts, clock, crashes>>

\* A process dies and is started again: locks are released by the system.
Crash(p) ==
  /\ crashes < MaxCrashes /\ crashes' = crashes + 1
  /\ at' = [c \in Callers |-> IF Home[c] = p THEN "idle" ELSE at[c]]
  /\ got' = [c \in Callers |-> IF Home[c] = p THEN 0 ELSE got[c]]
  /\ inside' = [inside EXCEPT ![p] = None]
  /\ holder' = IF holder # None /\ Home[holder] = p THEN None ELSE holder
  /\ seen' = [seen EXCEPT ![p] = None] /\ known' = [known EXCEPT ![p] = 0]
  /\ driver' = IF p = Runner /\ driver # "deciding" THEN "done" ELSE driver
  /\ UNCHANGED <<files, trace, receipts, clock>>

Lock(c) == WriteResult(c) \/ WriteDigest(c) \/ SaveLocked(c) \/ EmitLocked(c) \/ Receipt(c)
Reveal(c) == LookUp(c) \/ WriteReveal(c) \/ SaveRevealed(c) \/ EmitRevealed(c) \/ ReadReveal(c)
View(c) == ViewResult(c) \/ ViewDigest(c)
Finish == SaveReady \/ SaveSummary \/ EmitReady
Next ==
  \/ \E c \in Callers :
       \/ \E call \in Waiting \cup {"view"} : Enter(c, call)
       \/ Refresh(c) \/ Lock(c) \/ Reveal(c) \/ View(c)
  \/ Finish
  \/ \E p \in Processes : Crash(p)
Spec == Init /\ [][Next]_vars
-----------------------------------------------------------------------------
(* Properties.                                                             *)

Types ==
  /\ status \in {"RUNNING", "READY_TO_LOCK"} \cup Locked
  /\ result \in Nat /\ digest \in Nat /\ reveal \in Nat /\ clock \in Nat
  /\ trace \in Seq([sequence : Nat, type : {"result.locked", "catalog.revealed", "status.changed"}])
  /\ seen \in [Processes -> {None, "RUNNING", "READY_TO_LOCK"} \cup Locked]
  /\ known \in [Processes -> Nat]
  /\ inside \in [Processes -> Callers \cup {None, Runner}]
  /\ holder \in Callers \cup {None}
  /\ at \in [Callers -> {"idle"} \cup Waiting \cup Critical \cup Viewing] /\ got \in [Callers -> Nat]
  /\ driver \in {"deciding", "ready", "summary", "done"}
  /\ receipts \subseteq Nat /\ crashes \in 0..MaxCrashes

\* A caller in a call is inside the boundary of its process, and only one
\* caller of all processes is behind the authority lock.
Exclusive ==
  \A c \in Callers :
    /\ at[c] # "idle" <=> inside[Home[c]] = c
    /\ at[c] \in Critical <=> holder = c

\* Types, and the discipline of the two locks.
TypeOK == Types /\ Exclusive

\* A receipt stands: the digest that any caller was given is the digest of the
\* bytes in result.json, in every later state, across calls, processes, crashes.
ReceiptsStand == \A r \in receipts : result = r /\ digest = r /\ status \in Locked

\* result.locked and catalog.revealed are emitted at most once.
EventsOnce ==
  \A m, n \in DOMAIN trace : trace[m].type = trace[n].type => m = n

\* The events of the run are numbered without a gap or a repetition, whichever
\* process appends them.
Contiguous == \A n \in DOMAIN trace : trace[n].sequence = n

\* The trace tells the story once: each publication has one event and the
\* numbers run on, across processes with caches from before the other's append.
TraceIsNumbered == EventsOnce /\ Contiguous

\* A snapshot that shows a lock finds matching files.
ViewsVerify == \A c \in Callers : at[c] = "compare" => got[c] = digest

\* A lock is never undone, also not by the driver that still writes the run.
KeepsLock == status \in Locked => status' \in Locked /\ UNCHANGED <<result, digest>>
LockIsKept == [][KeepsLock]_vars

\* Files, processes and calls implement the blind protocol: the result is
\* sealed by the save of RESULT_LOCKED, and the truth is known with reveal.json.
Blind == INSTANCE BlindProtocol WITH
  Result <- Nat \ {0}, None <- 0,
  sealed <- IF status \in Locked THEN result ELSE 0,
  truth <- reveal, published <- (status = "REVEALED")
Implements == Blind!Spec
=============================================================================
