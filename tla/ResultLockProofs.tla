-------------------------- MODULE ResultLockProofs --------------------------
(***************************************************************************)
(* Proofs about ResultLock for any number of callers, processes, crashes.  *)
(*                                                                         *)
(* IInv says what the files hold at each step of a call, and that the      *)
(* driver is inside the boundary, with nothing locked, while it finalizes. *)
(***************************************************************************)
EXTENDS ResultLock, SequenceTheorems, TLAPS

\* What the files and the step of the lock holder say of each other.
Phase ==
  \A c \in Callers :
    /\ at[c] \in {"result", "digest", "save"} => status = "READY_TO_LOCK"
    /\ at[c] \in {"digest", "save", "emit"} => got[c] = result /\ got[c] # 0
    /\ at[c] \in {"save", "emit"} => digest = result
    /\ at[c] \in {"emit", "receipt"} => status \in Locked
    /\ at[c] \in {"lookup", "write", "publish"} => status = "RESULT_LOCKED"
    /\ at[c] = "write" => got[c] = digest /\ reveal = 0
    /\ at[c] = "publish" => reveal # 0

\* What the files alone say: receipts and the comparison answer for the result.
Sealed ==
  /\ status \in Locked => result = digest /\ result # 0
  /\ reveal # 0 => status \in Locked /\ reveal = result
  /\ status = "REVEALED" => reveal # 0
  /\ ReceiptsStand

DriverInside ==
  /\ driver = "deciding" => status = "RUNNING"
  /\ driver \in {"ready", "summary"} => status = "READY_TO_LOCK" /\ inside[Runner] = Runner

\* No other process is in a call before the driver is done.
DriverAlone == driver # "done" => \A c \in Callers : Home[c] # Runner => at[c] = "idle"

IInv == Types /\ Exclusive /\ Phase /\ Sealed /\ DriverInside /\ DriverAlone

-----------------------------------------------------------------------------
\* The initial states satisfy the invariant.
LEMMA InitInv == Init => IInv
  BY CallerAssumption, SMT
  DEF Init, IInv, Types, Exclusive, Phase, Sealed, ReceiptsStand, DriverInside, DriverAlone,
      Locked, Critical, Waiting, Viewing

\* An event keeps the trace well-typed.
LEMMA EmitTypes ==
  ASSUME Types, NEW p \in Processes,
         NEW type \in {"result.locked", "catalog.revealed", "status.changed"}, Emit(p, type)
  PROVE  /\ trace' \in Seq([sequence : Nat, type : {"result.locked", "catalog.revealed", "status.changed"}])
         /\ known' \in [Processes -> Nat]
  <1> DEFINE E == [sequence |-> known[p] + 1, type |-> type]
             Event == [sequence : Nat, type : {"result.locked", "catalog.revealed", "status.changed"}]
  <1>1. known[p] \in Nat /\ trace \in Seq(Event)
    BY DEF Types
  <1>2. E \in Event
    BY <1>1
  <1>3. Append(trace, E) \in Seq(Event)
    BY <1>1, <1>2, AppendProperties
  <1> QED BY <1>1, <1>3 DEF Emit, Types

\* Leaving a call keeps the types, the locks and the driver's place.
LEMMA LeaveInv ==
  ASSUME IInv, NEW c \in Callers, at[c] # "idle", Leave(c)
  PROVE  /\ at' \in [Callers -> {"idle"} \cup Waiting \cup Critical \cup Viewing]
         /\ got' \in [Callers -> Nat]
         /\ inside' \in [Processes -> Callers \cup {None, Runner}]
         /\ holder' \in Callers \cup {None}
         /\ Exclusive'
         /\ inside[Runner] = Runner => inside'[Runner] = Runner
  <1> USE CallerAssumption DEF IInv
  <1>1. at' \in [Callers -> {"idle"} \cup Waiting \cup Critical \cup Viewing]
    BY DEF Leave, Goto, Types
  <1>2. got' \in [Callers -> Nat] /\ inside' \in [Processes -> Callers \cup {None, Runner}]
    BY DEF Leave, Types
  <1>3. holder' \in Callers \cup {None}
    BY DEF Leave, Types
  <1>5. inside[Home[c]] = c /\ c # Runner
    BY DEF Exclusive
  <1>4. Exclusive'
    <2> SUFFICES ASSUME NEW d \in Callers
                 PROVE  /\ at'[d] # "idle" <=> inside'[Home[d]] = d
                        /\ at'[d] \in Critical <=> holder' = d
      BY DEF Exclusive
    <2>1. at'[c] = "idle" /\ inside'[Home[c]] = None /\ holder' # c
      BY DEF Leave, Goto, Types
    <2>2. ASSUME d # c PROVE at'[d] = at[d] /\ (inside'[Home[d]] = d <=> inside[Home[d]] = d)
      BY <2>2, <1>5 DEF Leave, Goto, Types
    <2>3. ASSUME d # c PROVE holder' = d <=> holder = d
      BY <2>3 DEF Leave
    <2> QED BY <2>1, <2>2, <2>3 DEF Exclusive, Critical
  <1>6. inside[Runner] = Runner => inside'[Runner] = Runner
    BY <1>5 DEF Leave, Types
  <1> QED BY <1>1, <1>2, <1>3, <1>4, <1>6

\* A step inside a call keeps other processes out while the driver finishes.
LEMMA CallKeepsAlone ==
  ASSUME IInv, NEW c \in Callers, at[c] # "idle", NEW where, Goto(c, where), UNCHANGED driver
  PROVE  DriverAlone'
  BY CallerAssumption DEF IInv, Types, DriverAlone, Goto

\* Lock calls keep the invariant.
LEMMA LockInv ==
  ASSUME IInv, NEW c \in Callers, Lock(c)
  PROVE  IInv'
  <1> USE CallerAssumption DEF Locked, Critical, Waiting, Viewing
  <1>0. Types /\ Exclusive /\ Phase /\ Sealed /\ DriverInside /\ DriverAlone
    BY DEF IInv
  <1>1. CASE WriteResult(c)
    <2>1. Types'
      BY <1>0, <1>1 DEF WriteResult, Goto, cache, locks, Types
    <2>2. Exclusive'
      BY <1>0, <1>1 DEF WriteResult, Goto, cache, locks, Types, Exclusive
    <2>3. Phase'
      BY <1>0, <1>1 DEF WriteResult, Goto, cache, locks, Types, Exclusive, Phase, Sealed
    <2>4. Sealed'
      BY <1>0, <1>1 DEF WriteResult, Goto, cache, locks, Types, Phase, Sealed, ReceiptsStand
    <2>5. DriverInside'
      BY <1>0, <1>1 DEF WriteResult, Goto, cache, locks, Types, Exclusive, Phase, DriverInside
    <2>6. DriverAlone'
      BY <1>1, CallKeepsAlone DEF WriteResult
    <2> QED BY <2>1, <2>2, <2>3, <2>4, <2>5, <2>6 DEF IInv
  <1>2. CASE WriteDigest(c)
    <2>1. Types'
      BY <1>0, <1>2 DEF WriteDigest, Goto, cache, locks, Types
    <2>2. Exclusive'
      BY <1>0, <1>2 DEF WriteDigest, Goto, cache, locks, Types, Exclusive
    <2>3. Phase'
      BY <1>0, <1>2 DEF WriteDigest, Goto, cache, locks, Types, Exclusive, Phase, Sealed
    <2>4. Sealed'
      BY <1>0, <1>2 DEF WriteDigest, Goto, cache, locks, Types, Phase, Sealed, ReceiptsStand
    <2>5. DriverInside'
      BY <1>0, <1>2 DEF WriteDigest, Goto, cache, locks, Types, Exclusive, Phase, DriverInside
    <2>6. DriverAlone'
      BY <1>2, CallKeepsAlone DEF WriteDigest
    <2> QED BY <2>1, <2>2, <2>3, <2>4, <2>5, <2>6 DEF IInv
  <1>3. CASE SaveLocked(c)
    <2>1. Types'
      BY <1>0, <1>3 DEF SaveLocked, Save, Goto, locks, Types
    <2>2. Exclusive'
      BY <1>0, <1>3 DEF SaveLocked, Save, Goto, locks, Types, Exclusive
    <2>3. Phase'
      BY <1>0, <1>3 DEF SaveLocked, Save, Goto, locks, Types, Exclusive, Phase, Sealed
    <2>4. Sealed'
      BY <1>0, <1>3 DEF SaveLocked, Save, Goto, locks, Types, Phase, Sealed, ReceiptsStand
    <2>5. DriverInside'
      <3>1. status = "READY_TO_LOCK" /\ inside[Home[c]] = c /\ c # Runner /\ at[c] # "idle"
        BY <1>0, <1>3 DEF SaveLocked, Exclusive, Phase
      <3>2. driver = "done"
        BY <1>0, <3>1 DEF Types, DriverInside, DriverAlone
      <3> QED BY <1>3, <3>2 DEF SaveLocked, DriverInside
    <2>6. DriverAlone'
      BY <1>3, CallKeepsAlone DEF SaveLocked
    <2> QED BY <2>1, <2>2, <2>3, <2>4, <2>5, <2>6 DEF IInv
  <1>4. CASE EmitLocked(c)
    <2>1. Types'
      BY <1>0, <1>4, EmitTypes DEF EmitLocked, Leave, Goto, files, Types
    <2>2. Exclusive'
      BY <1>0, <1>4 DEF EmitLocked, Leave, Goto, files, Types, Exclusive
    <2>3. Phase'
      BY <1>0, <1>4 DEF EmitLocked, Leave, Goto, files, Types, Exclusive, Phase, Sealed
    <2>4. Sealed'
      BY <1>0, <1>4 DEF EmitLocked, Leave, Goto, files, Types, Phase, Sealed, ReceiptsStand
    <2>5. DriverInside'
      BY <1>0, LeaveInv, <1>4 DEF EmitLocked, Goto, files, Types, Exclusive, Phase, DriverInside
    <2>6. DriverAlone'
      BY <1>4, CallKeepsAlone DEF EmitLocked, Leave
    <2> QED BY <2>1, <2>2, <2>3, <2>4, <2>5, <2>6 DEF IInv
  <1>5. CASE Receipt(c)
    <2>1. Types'
      BY <1>0, <1>5 DEF Receipt, Leave, Goto, files, cache, Types
    <2>2. Exclusive'
      BY <1>0, <1>5 DEF Receipt, Leave, Goto, files, cache, Types, Exclusive
    <2>3. Phase'
      BY <1>0, <1>5 DEF Receipt, Leave, Goto, files, cache, Types, Exclusive, Phase, Sealed
    <2>4. Sealed'
      BY <1>0, <1>5 DEF Receipt, Leave, Goto, files, cache, Types, Phase, Sealed, ReceiptsStand
    <2>5. DriverInside'
      BY <1>0, LeaveInv, <1>5 DEF Receipt, Goto, files, cache, Types, Exclusive, Phase, DriverInside
    <2>6. DriverAlone'
      BY <1>5, CallKeepsAlone DEF Receipt, Leave
    <2> QED BY <2>1, <2>2, <2>3, <2>4, <2>5, <2>6 DEF IInv
  <1> QED BY <1>1, <1>2, <1>3, <1>4, <1>5 DEF Lock

\* Reveal calls keep the invariant.
LEMMA RevealInv ==
  ASSUME IInv, NEW c \in Callers, Reveal(c)
  PROVE  IInv'
  <1> USE CallerAssumption DEF Locked, Critical, Waiting, Viewing
  <1>0. Types /\ Exclusive /\ Phase /\ Sealed /\ DriverInside /\ DriverAlone
    BY DEF IInv
  <1>1. CASE LookUp(c)
    <2>0. Leave(c) \/ (UNCHANGED locks /\ \E w \in {"publish", "write"} : Goto(c, w))
      BY <1>1 DEF LookUp
    <2>1. Types'
      <3>1. CASE Leave(c)
        BY <1>0, <1>1, <3>1, LeaveInv DEF LookUp, files, cache, Types
      <3>2. CASE ~Leave(c)
        <4>1. got' \in [Callers -> Nat]
          <5>1. CASE UNCHANGED got
            BY <1>0, <5>1 DEF Types
          <5>2. CASE got' = [got EXCEPT ![c] = digest]
            BY <1>0, <5>2 DEF Types
          <5> QED BY <1>1, <3>2, <5>1, <5>2 DEF LookUp
        <4>2. at' \in [Callers -> {"idle"} \cup Waiting \cup Critical \cup Viewing]
          BY <1>0, <1>1, <3>2 DEF LookUp, Goto, Types
        <4>3. UNCHANGED <<files, trace, cache, locks, driver, receipts, clock, crashes>>
          BY <1>1, <3>2 DEF LookUp
        <4> QED BY <1>0, <4>1, <4>2, <4>3 DEF files, cache, locks, Types
      <3> QED BY <3>1, <3>2
    <2>2. Exclusive'
      <3>1. CASE Leave(c)
        BY <1>1, <3>1, LeaveInv DEF LookUp
      <3>2. CASE ~Leave(c)
        BY <1>0, <1>1, <2>0, <3>2 DEF LookUp, Goto, locks, Types, Exclusive
      <3> QED BY <3>1, <3>2
    <2>3. Phase'
      BY <1>0, <1>1 DEF LookUp, Leave, Goto, files, cache, locks, Types, Exclusive, Phase, Sealed
    <2>4. Sealed'
      BY <1>0, <1>1 DEF LookUp, Leave, Goto, files, cache, locks, Types, Phase, Sealed, ReceiptsStand
    <2>5. DriverInside'
      BY <1>0, LeaveInv, <1>1 DEF LookUp, Goto, files, cache, locks, Types, Exclusive, Phase, DriverInside
    <2>6. DriverAlone'
      BY <1>1, CallKeepsAlone DEF LookUp, Leave
    <2> QED BY <2>1, <2>2, <2>3, <2>4, <2>5, <2>6 DEF IInv
  <1>2. CASE WriteReveal(c)
    <2>1. Types'
      BY <1>0, <1>2 DEF WriteReveal, Goto, cache, locks, Types
    <2>2. Exclusive'
      BY <1>0, <1>2 DEF WriteReveal, Goto, cache, locks, Types, Exclusive
    <2>3. Phase'
      BY <1>0, <1>2 DEF WriteReveal, Goto, cache, locks, Types, Exclusive, Phase, Sealed
    <2>4. Sealed'
      BY <1>0, <1>2 DEF WriteReveal, Goto, cache, locks, Types, Phase, Sealed, ReceiptsStand
    <2>5. DriverInside'
      BY <1>0, <1>2 DEF WriteReveal, Goto, cache, locks, Types, Exclusive, Phase, DriverInside
    <2>6. DriverAlone'
      BY <1>2, CallKeepsAlone DEF WriteReveal
    <2> QED BY <2>1, <2>2, <2>3, <2>4, <2>5, <2>6 DEF IInv
  <1>3. CASE SaveRevealed(c)
    <2>1. Types'
      BY <1>0, <1>3 DEF SaveRevealed, Save, Goto, locks, Types
    <2>2. Exclusive'
      BY <1>0, <1>3 DEF SaveRevealed, Save, Goto, locks, Types, Exclusive
    <2>3. Phase'
      BY <1>0, <1>3 DEF SaveRevealed, Save, Goto, locks, Types, Exclusive, Phase, Sealed
    <2>4. Sealed'
      BY <1>0, <1>3 DEF SaveRevealed, Save, Goto, locks, Types, Phase, Sealed, ReceiptsStand
    <2>5. DriverInside'
      BY <1>0, <1>3 DEF SaveRevealed, Save, Goto, locks, Types, Exclusive, Phase, DriverInside
    <2>6. DriverAlone'
      BY <1>3, CallKeepsAlone DEF SaveRevealed
    <2> QED BY <2>1, <2>2, <2>3, <2>4, <2>5, <2>6 DEF IInv
  <1>4. CASE EmitRevealed(c)
    <2>1. Types'
      BY <1>0, <1>4, EmitTypes DEF EmitRevealed, Leave, Goto, files, Types
    <2>2. Exclusive'
      BY <1>0, <1>4 DEF EmitRevealed, Leave, Goto, files, Types, Exclusive
    <2>3. Phase'
      BY <1>0, <1>4 DEF EmitRevealed, Leave, Goto, files, Types, Exclusive, Phase, Sealed
    <2>4. Sealed'
      BY <1>0, <1>4 DEF EmitRevealed, Leave, Goto, files, Types, Phase, Sealed, ReceiptsStand
    <2>5. DriverInside'
      BY <1>0, LeaveInv, <1>4 DEF EmitRevealed, Goto, files, Types, Exclusive, Phase, DriverInside
    <2>6. DriverAlone'
      BY <1>4, CallKeepsAlone DEF EmitRevealed, Leave
    <2> QED BY <2>1, <2>2, <2>3, <2>4, <2>5, <2>6 DEF IInv
  <1>5. CASE ReadReveal(c)
    <2>1. Types'
      BY <1>0, <1>5 DEF ReadReveal, Leave, Goto, files, cache, Types
    <2>2. Exclusive'
      BY <1>0, <1>5 DEF ReadReveal, Leave, Goto, files, cache, Types, Exclusive
    <2>3. Phase'
      BY <1>0, <1>5 DEF ReadReveal, Leave, Goto, files, cache, Types, Exclusive, Phase, Sealed
    <2>4. Sealed'
      BY <1>0, <1>5 DEF ReadReveal, Leave, Goto, files, cache, Types, Phase, Sealed, ReceiptsStand
    <2>5. DriverInside'
      BY <1>0, LeaveInv, <1>5 DEF ReadReveal, Goto, files, cache, Types, Exclusive, Phase, DriverInside
    <2>6. DriverAlone'
      BY <1>5, CallKeepsAlone DEF ReadReveal, Leave
    <2> QED BY <2>1, <2>2, <2>3, <2>4, <2>5, <2>6 DEF IInv
  <1> QED BY <1>1, <1>2, <1>3, <1>4, <1>5 DEF Reveal

\* Snapshots keep the invariant.
LEMMA ViewInv ==
  ASSUME IInv, NEW c \in Callers, View(c)
  PROVE  IInv'
  <1> USE CallerAssumption DEF Locked, Critical, Waiting, Viewing
  <1>0. Types /\ Exclusive /\ Phase /\ Sealed /\ DriverInside /\ DriverAlone
    BY DEF IInv
  <1>1. CASE ViewResult(c)
    <2>1. Types'
      <3>1. CASE Leave(c)
        BY <1>0, <1>1, <3>1, LeaveInv DEF ViewResult, files, cache, Types
      <3>2. CASE ~Leave(c)
        <4>1. got' \in [Callers -> Nat]
          BY <1>0, <1>1, <3>2 DEF ViewResult, Types
        <4>2. at' \in [Callers -> {"idle"} \cup Waiting \cup Critical \cup Viewing]
          BY <1>0, <1>1, <3>2 DEF ViewResult, Goto, Types
        <4>3. UNCHANGED <<files, trace, cache, locks, driver, receipts, clock, crashes>>
          BY <1>1, <3>2 DEF ViewResult
        <4> QED BY <1>0, <4>1, <4>2, <4>3 DEF files, cache, locks, Types
      <3> QED BY <3>1, <3>2
    <2>2. Exclusive'
      BY <1>0, <1>1 DEF ViewResult, Leave, Goto, files, cache, locks, Types, Exclusive
    <2>3. Phase'
      BY <1>0, <1>1 DEF ViewResult, Leave, Goto, files, cache, locks, Types, Exclusive, Phase, Sealed
    <2>4. Sealed'
      BY <1>0, <1>1 DEF ViewResult, Leave, Goto, files, cache, locks, Types, Phase, Sealed, ReceiptsStand
    <2>5. DriverInside'
      BY <1>0, LeaveInv, <1>1 DEF ViewResult, Goto, files, cache, locks, Types, Exclusive, Phase, DriverInside
    <2>6. DriverAlone'
      BY <1>1, CallKeepsAlone DEF ViewResult, Leave
    <2> QED BY <2>1, <2>2, <2>3, <2>4, <2>5, <2>6 DEF IInv
  <1>2. CASE ViewDigest(c)
    <2>1. Types'
      BY <1>0, <1>2 DEF ViewDigest, Leave, Goto, files, cache, Types
    <2>2. Exclusive'
      BY <1>0, <1>2 DEF ViewDigest, Leave, Goto, files, cache, Types, Exclusive
    <2>3. Phase'
      BY <1>0, <1>2 DEF ViewDigest, Leave, Goto, files, cache, Types, Exclusive, Phase, Sealed
    <2>4. Sealed'
      BY <1>0, <1>2 DEF ViewDigest, Leave, Goto, files, cache, Types, Phase, Sealed, ReceiptsStand
    <2>5. DriverInside'
      BY <1>0, LeaveInv, <1>2 DEF ViewDigest, Goto, files, cache, Types, Exclusive, Phase, DriverInside
    <2>6. DriverAlone'
      BY <1>2, CallKeepsAlone DEF ViewDigest, Leave
    <2> QED BY <2>1, <2>2, <2>3, <2>4, <2>5, <2>6 DEF IInv
  <1> QED BY <1>1, <1>2 DEF View

\* Getting the authority lock and reloading keeps the invariant.
LEMMA RefreshInv ==
  ASSUME IInv, NEW c \in Callers, Refresh(c)
  PROVE  IInv'
  <1> USE CallerAssumption DEF Locked, Critical, Waiting, Viewing
  <1>0. Types /\ Exclusive /\ Phase /\ Sealed /\ DriverInside /\ DriverAlone
    BY DEF IInv
  <1>1. CASE Refresh(c)
    <2>0. Len(trace) \in Nat
      BY <1>0, LenProperties DEF Types
    <2>1. Types'
      <3>1. seen' \in [Processes -> {None, "RUNNING", "READY_TO_LOCK"} \cup Locked]
            /\ known' \in [Processes -> Nat]
        BY <1>0, <1>1, <2>0 DEF Refresh, Types
      <3>2. CASE Leave(c)
        BY <1>0, <1>1, <3>1, <3>2, LeaveInv DEF Refresh, files, Types
      <3>3. CASE ~Leave(c)
        BY <1>0, <1>1, <3>1, <3>3 DEF Refresh, Begin, Goto, files, Types
      <3> QED BY <3>2, <3>3
    <2>2. Exclusive'
      BY <1>0, <1>1 DEF Refresh, Begin, Revealable, Leave, Goto, files, Types, Exclusive
    <2>3. Phase'
      BY <1>0, <1>1 DEF Refresh, Begin, Revealable, Leave, Goto, files, Types, Exclusive, Phase, Sealed
    <2>4. Sealed'
      BY <1>0, <1>1 DEF Refresh, Begin, Revealable, Leave, Goto, files, Types, Phase, Sealed, ReceiptsStand
    <2>5. DriverInside'
      BY <1>0, LeaveInv, <1>1 DEF Refresh, Begin, Revealable, Goto, files, Types, Exclusive, Phase, DriverInside
    <2>6. DriverAlone'
      BY <1>1, CallKeepsAlone DEF Refresh, Begin, Leave
    <2> QED BY <2>1, <2>2, <2>3, <2>4, <2>5, <2>6 DEF IInv
  <1> QED BY <1>1

\* Entering a call keeps the invariant.
LEMMA EnterInv ==
  ASSUME IInv, NEW c \in Callers, NEW call \in Waiting \cup {"view"}, Enter(c, call)
  PROVE  IInv'
  <1> USE CallerAssumption DEF Locked, Critical, Waiting, Viewing
  <1>0. Types /\ Exclusive /\ Phase /\ Sealed /\ DriverInside /\ DriverAlone
    BY DEF IInv
  <1>1. CASE Enter(c, call)
    <2>0. Len(trace) \in Nat
      BY <1>0, LenProperties DEF Types
    <2>1. Types'
      <3>1. inside' \in [Processes -> Callers \cup {None, Runner}]
            /\ at' \in [Callers -> {"idle"} \cup Waiting \cup Critical \cup Viewing]
        BY <1>0, <1>1 DEF Enter, Goto, Types
      <3>2. /\ seen' \in [Processes -> {None, "RUNNING", "READY_TO_LOCK"} \cup Locked]
            /\ known' \in [Processes -> Nat]
        <4>1. CASE UNCHANGED cache
          BY <1>0, <4>1 DEF cache, Types
        <4>2. CASE /\ seen' = [seen EXCEPT ![Home[c]] = status]
                   /\ known' = [known EXCEPT ![Home[c]] = Len(trace)]
          BY <1>0, <2>0, <4>2 DEF Types
        <4> QED BY <1>1, <4>1, <4>2 DEF Enter, Fill
      <3> QED BY <1>0, <1>1, <3>1, <3>2 DEF Enter, files, Types
    <2>2. Exclusive'
      BY <1>0, <1>1 DEF Enter, Fill, Goto, files, cache, Types, Exclusive
    <2>3. Phase'
      BY <1>0, <1>1 DEF Enter, Fill, Goto, files, cache, Types, Exclusive, Phase, Sealed
    <2>4. Sealed'
      BY <1>0, <1>1 DEF Enter, Fill, Goto, files, cache, Types, Phase, Sealed, ReceiptsStand
    <2>5. DriverInside'
      BY <1>0, <1>1 DEF Enter, Fill, Goto, files, cache, Types, Exclusive, Phase, DriverInside
    <2>6. DriverAlone'
      BY <1>0, <1>1 DEF Enter, Serves, Goto, Types, DriverInside, DriverAlone
    <2> QED BY <2>1, <2>2, <2>3, <2>4, <2>5, <2>6 DEF IInv
  <1> QED BY <1>1

\* The finalize node keeps the invariant: the boundary keeps the calls of its
\* process out, and other processes come in only when it is done.
LEMMA FinishInv ==
  ASSUME IInv, Finish
  PROVE  IInv'
  <1> USE CallerAssumption DEF Locked, Critical, Waiting, Viewing
  <1>0. Types /\ Exclusive /\ Phase /\ Sealed /\ DriverInside /\ DriverAlone
    BY DEF IInv
  <1>1. CASE SaveReady
    <2>1. Types'
      BY <1>0, <1>1 DEF SaveReady, locks, caller, Types, DriverInside
    <2>2. Exclusive'
      BY <1>0, <1>1 DEF SaveReady, locks, caller, Types, Exclusive, DriverInside
    <2>3. Phase'
      BY <1>0, <1>1 DEF SaveReady, locks, caller, Types, Exclusive, Phase, Sealed, DriverInside
    <2>4. Sealed'
      BY <1>0, <1>1 DEF SaveReady, locks, caller, Types, Phase, Sealed, ReceiptsStand, DriverInside
    <2>5. DriverInside'
      BY <1>0, <1>1 DEF SaveReady, locks, caller, Types, Exclusive, Phase, DriverInside
    <2>6. DriverAlone'
      BY <1>0, <1>1 DEF SaveReady, locks, caller, Types, DriverInside, DriverAlone
    <2> QED BY <2>1, <2>2, <2>3, <2>4, <2>5, <2>6 DEF IInv
  <1>2. CASE SaveSummary
    <2>1. Types'
      BY <1>0, <1>2 DEF SaveSummary, Save, locks, caller, Types, DriverInside
    <2>2. Exclusive'
      BY <1>0, <1>2 DEF SaveSummary, Save, locks, caller, Types, Exclusive, DriverInside
    <2>3. Phase'
      BY <1>0, <1>2 DEF SaveSummary, Save, locks, caller, Types, Exclusive, Phase, Sealed, DriverInside
    <2>4. Sealed'
      BY <1>0, <1>2 DEF SaveSummary, Save, locks, caller, Types, Phase, Sealed, ReceiptsStand, DriverInside
    <2>5. DriverInside'
      BY <1>0, <1>2 DEF SaveSummary, Save, locks, caller, Types, Exclusive, Phase, DriverInside
    <2>6. DriverAlone'
      BY <1>0, <1>2 DEF SaveSummary, Save, locks, caller, Types, DriverInside, DriverAlone
    <2> QED BY <2>1, <2>2, <2>3, <2>4, <2>5, <2>6 DEF IInv
  <1>3. CASE EmitReady
    <2>1. Types'
      BY <1>0, <1>3, EmitTypes DEF EmitReady, files, caller, Types, DriverInside
    <2>2. Exclusive'
      BY <1>0, <1>3 DEF EmitReady, files, caller, Types, Exclusive, DriverInside
    <2>3. Phase'
      BY <1>0, <1>3 DEF EmitReady, files, caller, Types, Exclusive, Phase, Sealed, DriverInside
    <2>4. Sealed'
      BY <1>0, <1>3 DEF EmitReady, files, caller, Types, Phase, Sealed, ReceiptsStand, DriverInside
    <2>5. DriverInside'
      BY <1>0, <1>3 DEF EmitReady, files, caller, Types, Exclusive, Phase, DriverInside
    <2>6. DriverAlone'
      BY <1>0, <1>3 DEF EmitReady, files, caller, Types, DriverInside, DriverAlone
    <2> QED BY <2>1, <2>2, <2>3, <2>4, <2>5, <2>6 DEF IInv
  <1> QED BY <1>1, <1>2, <1>3 DEF Finish

\* A crash at any step keeps the invariant.
LEMMA CrashInv ==
  ASSUME IInv, NEW p \in Processes, Crash(p)
  PROVE  IInv'
  <1> USE CallerAssumption DEF Locked, Critical, Waiting, Viewing
  <1>0. Types /\ Exclusive /\ Phase /\ Sealed /\ DriverInside /\ DriverAlone
    BY DEF IInv
  <1>1. CASE Crash(p)
    <2>1. Types'
      BY <1>0, <1>1 DEF Crash, files, Types
    <2>2. Exclusive'
      BY <1>0, <1>1 DEF Crash, files, Types, Exclusive
    <2>3. Phase'
      BY <1>0, <1>1 DEF Crash, files, Types, Exclusive, Phase, Sealed
    <2>4. Sealed'
      BY <1>0, <1>1 DEF Crash, files, Types, Phase, Sealed, ReceiptsStand
    <2>5. DriverInside'
      BY <1>0, <1>1 DEF Crash, files, Types, Exclusive, Phase, DriverInside
    <2>6. DriverAlone'
      BY <1>0, <1>1 DEF Crash, files, Types, DriverInside, DriverAlone
    <2> QED BY <2>1, <2>2, <2>3, <2>4, <2>5, <2>6 DEF IInv
  <1> QED BY <1>1

\* Every step keeps the invariant.
LEMMA StepInv == IInv /\ [Next]_vars => IInv'
  <1> SUFFICES ASSUME IInv, [Next]_vars
               PROVE  IInv'
    OBVIOUS
  <1>1. ASSUME NEW c \in Callers, NEW call \in Waiting \cup {"view"}, Enter(c, call)
        PROVE  IInv'
    BY <1>1, EnterInv
  <1>2. ASSUME NEW c \in Callers, Refresh(c) \/ Lock(c) \/ Reveal(c) \/ View(c)
        PROVE  IInv'
    BY <1>2, RefreshInv, LockInv, RevealInv, ViewInv
  <1>3. CASE Finish
    BY <1>3, FinishInv
  <1>4. ASSUME NEW p \in Processes, Crash(p) PROVE IInv'
    BY <1>4, CrashInv
  <1>5. CASE UNCHANGED vars
    BY <1>5 DEF vars, files, cache, locks, caller, IInv, Types, Exclusive, Phase, Sealed,
                ReceiptsStand, DriverInside, DriverAlone
  <1> QED BY <1>1, <1>2, <1>3, <1>4, <1>5 DEF Next

\* The invariant holds with any number of callers, processes and crashes.
THEOREM Invariance == Spec => []IInv
  <1>1. Init => IInv
    BY InitInv
  <1>2. IInv /\ [Next]_vars => IInv'
    BY StepInv
  <1> QED BY <1>1, <1>2, PTL DEF Spec

\* The types, and the discipline of the run boundary and the authority lock:
\* never two callers behind authority_lock, none outside its boundary.
THEOREM LockDiscipline == Spec => []TypeOK
  <1>1. IInv => TypeOK
    BY DEF IInv, TypeOK
  <1> QED BY <1>1, Invariance, PTL

\* A digest that lock once returned stays the digest of result.json.
THEOREM Receipts_Stand == Spec => []ReceiptsStand
  <1>1. IInv => ReceiptsStand
    BY DEF IInv, Sealed
  <1> QED BY <1>1, Invariance, PTL

-----------------------------------------------------------------------------
(* Steps against the blind protocol.                                       *)

\* No step takes a lock back or changes locked files.
LEMMA StepKeepsLock == IInv /\ [Next]_vars => KeepsLock
  <1> SUFFICES ASSUME IInv, [Next]_vars, status \in Locked
               PROVE  status' \in Locked /\ UNCHANGED <<result, digest>>
    BY DEF KeepsLock
  <1> USE DEF Locked
  <1>1. ASSUME NEW c \in Callers, NEW call \in Waiting \cup {"view"}, Enter(c, call)
        PROVE  UNCHANGED files
    BY <1>1 DEF Enter
  <1>2. ASSUME NEW c \in Callers, Refresh(c) \/ View(c)
        PROVE  UNCHANGED files
    BY <1>2 DEF Refresh, View, ViewResult, ViewDigest
  <1>3. ASSUME NEW c \in Callers, Lock(c) PROVE UNCHANGED files
    BY <1>3 DEF IInv, Phase, Lock, WriteResult, WriteDigest, SaveLocked, EmitLocked, Receipt
  <1>4. ASSUME NEW c \in Callers, Reveal(c)
        PROVE  status' \in Locked /\ UNCHANGED <<result, digest>>
    BY <1>4 DEF Reveal, LookUp, WriteReveal, SaveRevealed, EmitRevealed, ReadReveal, Save, files
  <1>5. CASE Finish
    BY <1>5 DEF Finish, SaveReady, SaveSummary, EmitReady, files, IInv, DriverInside
  <1>6. ASSUME NEW p \in Processes, Crash(p) PROVE UNCHANGED files
    BY <1>6 DEF Crash
  <1>7. CASE UNCHANGED vars
    BY <1>7 DEF vars, files
  <1> QED BY <1>1, <1>2, <1>3, <1>4, <1>5, <1>6, <1>7 DEF Next, files

\* The driver's own saves and crashes included, a lock is never undone.
THEOREM Lock_IsKept == Spec => LockIsKept
  <1>1. IInv /\ [Next]_vars => KeepsLock
    BY StepKeepsLock
  <1> QED BY <1>1, Invariance, PTL DEF Spec, LockIsKept

\* Every step of the files is a step of the blind protocol or none.
LEMMA StepRefines == IInv /\ IInv' /\ [Next]_vars => [Blind!Next]_(Blind!vars)
  <1> SUFFICES ASSUME IInv, IInv', [Next]_vars
               PROVE  [Blind!Next]_(Blind!vars)
    OBVIOUS
  <1> USE DEF Locked, Blind!vars
  <1>1. ASSUME NEW c \in Callers, NEW call \in Waiting \cup {"view"}, Enter(c, call)
        PROVE  UNCHANGED Blind!vars
    BY <1>1 DEF Enter, files
  <1>2. ASSUME NEW c \in Callers, Refresh(c) \/ View(c)
        PROVE  UNCHANGED Blind!vars
    BY <1>2 DEF Refresh, View, ViewResult, ViewDigest, files
  <1>3. ASSUME NEW c \in Callers, Lock(c) PROVE [Blind!Next]_(Blind!vars)
    <2>1. CASE WriteResult(c) \/ WriteDigest(c)
      BY <2>1 DEF IInv, Phase, Sealed, WriteResult, WriteDigest
    <2>2. CASE SaveLocked(c)
      BY <2>2 DEF IInv, Types, Phase, Sealed, SaveLocked, Save, Blind!Next, Blind!Seal
    <2>3. CASE EmitLocked(c) \/ Receipt(c)
      BY <2>3 DEF EmitLocked, Receipt, files
    <2> QED BY <1>3, <2>1, <2>2, <2>3 DEF Lock
  <1>4. ASSUME NEW c \in Callers, Reveal(c) PROVE [Blind!Next]_(Blind!vars)
    <2>1. CASE WriteReveal(c)
      BY <2>1 DEF IInv, Phase, Sealed, WriteReveal, Blind!Next, Blind!LookUp
    <2>2. CASE SaveRevealed(c)
      BY <2>2 DEF IInv, Phase, Sealed, SaveRevealed, Save, Blind!Next, Blind!Publish
    <2>3. CASE LookUp(c) \/ EmitRevealed(c) \/ ReadReveal(c)
      BY <2>3 DEF LookUp, EmitRevealed, ReadReveal, files
    <2> QED BY <1>4, <2>1, <2>2, <2>3 DEF Reveal
  <1>5. CASE Finish
    BY <1>5 DEF Finish, SaveReady, SaveSummary, Save, EmitReady, files, IInv, DriverInside
  <1>6. ASSUME NEW p \in Processes, Crash(p) PROVE UNCHANGED Blind!vars
    BY <1>6 DEF Crash, files
  <1>7. CASE UNCHANGED vars
    BY <1>7 DEF vars, files
  <1> QED BY <1>1, <1>2, <1>3, <1>4, <1>5, <1>6, <1>7 DEF Next

\* ResultLockService, CatalogGate and the controller around them implement the
\* blind protocol.
THEOREM Implements_Blind == Spec => Implements
  <1>1. Init => Blind!Init
    BY DEF Init, Blind!Init, Locked
  <1>2. IInv /\ IInv' /\ [Next]_vars => [Blind!Next]_(Blind!vars)
    BY StepRefines
  <1> QED BY <1>1, <1>2, Invariance, PTL DEF Spec, Implements, Blind!Spec

-----------------------------------------------------------------------------
(* Snapshots and the trace.                                                *)

\* Whoever has been told of a lock was told the truth.
Told ==
  /\ \A p \in Processes : seen[p] \in Locked => status \in Locked
  /\ \A c \in Callers : at[c] = "compare" => status \in Locked /\ got[c] = digest

\* No step makes a cached lock or a half-read snapshot wrong.
LEMMA StepTold == IInv /\ Told /\ [Next]_vars => Told'
  <1> SUFFICES ASSUME IInv, Told, [Next]_vars
               PROVE  Told'
    OBVIOUS
  <1>0. status \in Locked => status' \in Locked /\ UNCHANGED <<result, digest>>
    BY StepKeepsLock DEF KeepsLock
  <1> USE CallerAssumption DEF IInv, Types
  <1>1. ASSUME NEW c \in Callers, NEW call \in Waiting \cup {"view"}, Enter(c, call)
        PROVE  Told'
    <2>1. at' = [at EXCEPT ![c] = call] /\ UNCHANGED <<status, digest, got>> /\ call # "compare"
      BY <1>1 DEF Enter, Goto, files, Waiting
    <2>2. seen' = seen \/ seen' = [seen EXCEPT ![Home[c]] = status]
      BY <1>1 DEF Enter, Fill, cache
    <2>3. \A p \in Processes : seen'[p] = seen[p] \/ seen'[p] = status
      BY <2>2
    <2> QED BY <2>1, <2>3 DEF Told
  <1>2. ASSUME NEW c \in Callers, Refresh(c) PROVE Told'
    <2>1. UNCHANGED <<status, digest>> /\ seen' = [seen EXCEPT ![Home[c]] = status]
      BY <1>2 DEF Refresh, files
    <2>2. \A d \in Callers : at'[d] = "compare" => at[d] = "compare" /\ got'[d] = got[d]
      BY <1>2 DEF Refresh, Begin, Goto, Leave
    <2>3. \A p \in Processes : seen'[p] = seen[p] \/ seen'[p] = status
      BY <2>1
    <2> QED BY <2>1, <2>2, <2>3 DEF Told
  <1>3. ASSUME NEW c \in Callers, Lock(c) PROVE Told'
    <2>1. \A d \in Callers : at'[d] = "compare" => at[d] = "compare" /\ got'[d] = got[d]
      BY <1>3 DEF Lock, WriteResult, WriteDigest, SaveLocked, EmitLocked, Receipt, Goto, Leave
    <2>2. \A p \in Processes : seen'[p] \in Locked => seen[p] \in Locked \/ status' \in Locked
      BY <1>3 DEF Lock, WriteResult, WriteDigest, SaveLocked, EmitLocked, Receipt, Save, cache,
                  Locked
    <2> QED BY <1>0, <2>1, <2>2 DEF Told
  <1>4. ASSUME NEW c \in Callers, Reveal(c) PROVE Told'
    <2>1. \A d \in Callers : at'[d] = "compare" => at[d] = "compare" /\ got'[d] = got[d]
      BY <1>4 DEF Reveal, LookUp, WriteReveal, SaveRevealed, EmitRevealed, ReadReveal, Goto, Leave
    <2>2. \A p \in Processes : seen'[p] \in Locked => seen[p] \in Locked \/ status' \in Locked
      BY <1>4 DEF Reveal, LookUp, WriteReveal, SaveRevealed, EmitRevealed, ReadReveal, Save, cache,
                  Locked
    <2> QED BY <1>0, <2>1, <2>2 DEF Told
  <1>5. ASSUME NEW c \in Callers, View(c) PROVE Told'
    <2>1. UNCHANGED <<status, digest, seen>>
      BY <1>5 DEF View, ViewResult, ViewDigest, files, cache
    <2>2. \A d \in Callers : at'[d] = "compare" =>
            \/ at[d] = "compare" /\ got'[d] = got[d]
            \/ seen[Home[d]] \in Locked /\ got'[d] = result
      BY <1>5 DEF View, ViewResult, ViewDigest, Goto, Leave
    <2>3. status \in Locked => result = digest
      BY DEF Sealed
    <2> QED BY <2>1, <2>2, <2>3 DEF Told
  <1>6. CASE Finish
    <2>1. UNCHANGED caller
      BY <1>6 DEF Finish, SaveReady, SaveSummary, EmitReady
    <2>2. \A p \in Processes : seen'[p] \in Locked => seen[p] \in Locked
      BY <1>6 DEF Finish, SaveReady, SaveSummary, EmitReady, Save, Locked
    <2> QED BY <1>0, <2>1, <2>2 DEF Told, caller
  <1>7. ASSUME NEW p \in Processes, Crash(p) PROVE Told'
    <2>1. UNCHANGED <<status, digest>>
      BY <1>7 DEF Crash, files
    <2>2. \A d \in Callers : at'[d] = "compare" => at[d] = "compare" /\ got'[d] = got[d]
      BY <1>7 DEF Crash
    <2>3. \A q \in Processes : seen'[q] = seen[q] \/ seen'[q] = None
      BY <1>7 DEF Crash
    <2> QED BY <2>1, <2>2, <2>3 DEF Told, Locked
  <1>8. CASE UNCHANGED vars
    BY <1>8 DEF vars, files, cache, caller, Told
  <1> QED BY <1>1, <1>2, <1>3, <1>4, <1>5, <1>6, <1>7, <1>8 DEF Next

\* A snapshot that shows a lock shows the digest that fits its bytes.
THEOREM Views_Verify == Spec => []ViewsVerify
  <1>1. Init => Told
    BY CallerAssumption DEF Init, Told, Locked
  <1>2. Told => ViewsVerify
    BY DEF Told, ViewsVerify
  <1> QED BY <1>1, <1>2, StepTold, Invariance, PTL DEF Spec

\* The types of the events in the trace.
Emitted(type) == \E n \in DOMAIN trace : trace[n].type = type

\* Whoever is about to emit knows the whole trace, and it is the first to say so.
Numbered ==
  /\ driver # "done" => trace = <<>> /\ known[Runner] = 0
  /\ \A c \in Callers : at[c] \in Critical => known[Home[c]] = Len(trace)
  /\ \A c \in Callers : at[c] = "announce" => status = "REVEALED"
  /\ Emitted("result.locked") => status \in Locked /\ \A c \in Callers : at[c] # "emit"
  /\ Emitted("catalog.revealed") =>
       status = "REVEALED" /\ \A c \in Callers : at[c] # "announce"
  /\ TraceIsNumbered

\* An event of a new type, numbered behind the trace, keeps the trace numbered.
LEMMA EmitNumbers ==
  ASSUME Types, TraceIsNumbered, NEW p \in Processes, known[p] = Len(trace),
         NEW type \in {"result.locked", "catalog.revealed", "status.changed"},
         Emit(p, type), ~Emitted(type)
  PROVE  /\ TraceIsNumbered'
         /\ Len(trace') = Len(trace) + 1
         /\ \A t : Emitted(t)' <=> Emitted(t) \/ t = type
  <1> DEFINE E == [sequence |-> known[p] + 1, type |-> type]
             last == Len(trace) + 1
  <1>1. /\ DOMAIN trace' = DOMAIN trace \cup {last} /\ trace'[last] = E /\ last \notin DOMAIN trace
        /\ Len(trace') = last /\ last \in Nat
        /\ \A n \in DOMAIN trace : trace'[n] = trace[n]
    BY DEF Emit, Types
  <1>2. E.sequence = last /\ E.type = type
    OBVIOUS
  <1> HIDE DEF E, last
  <1>3. Contiguous'
    BY <1>1, <1>2 DEF Contiguous, TraceIsNumbered
  <1>4. EventsOnce'
    BY <1>1, <1>2 DEF EventsOnce, TraceIsNumbered, Emitted
  <1>5. \A t : Emitted(t)' <=> Emitted(t) \/ t = type
    BY <1>1, <1>2 DEF Emitted
  <1> QED BY <1>1, <1>3, <1>4, <1>5 DEF TraceIsNumbered, last

\* What is needed of a step that appends nothing.
LEMMA SilentNumbered ==
  ASSUME Numbered, trace' = trace,
         driver' # "done" => driver # "done" /\ known'[Runner] = known[Runner],
         \A c \in Callers : at'[c] \in Critical => known'[Home[c]] = Len(trace),
         status \in Locked => status' \in Locked,
         status = "REVEALED" => status' = "REVEALED",
         \A c \in Callers : at'[c] = "emit" => at[c] = "emit" \/ status \notin Locked,
         \A c \in Callers : at'[c] = "announce" =>
           at[c] = "announce" \/ (status # "REVEALED" /\ status' = "REVEALED")
  PROVE  Numbered'
  <1>1. TraceIsNumbered' /\ \A t : Emitted(t)' <=> Emitted(t)
    BY DEF Numbered, TraceIsNumbered, EventsOnce, Contiguous, Emitted
  <1> QED BY <1>1 DEF Numbered

\* Entering and leaving, looking and refreshing append nothing.
LEMMA QuietNumbered ==
  ASSUME IInv, Numbered, NEW c \in Callers,
         \/ \E call \in Waiting \cup {"view"} : Enter(c, call)
         \/ Refresh(c) \/ View(c)
  PROVE  Numbered'
  <1> USE CallerAssumption DEF IInv, Types
  <1>1. trace' = trace /\ driver' = driver /\ status' = status
    BY DEF Enter, Refresh, View, ViewResult, ViewDigest, files
  <1>2. \A d \in Callers : at'[d] \in Critical =>
          \/ d # c /\ at[d] \in Critical
          \/ d = c /\ Refresh(c)
    BY DEF Enter, Refresh, Begin, View, ViewResult, ViewDigest, Goto, Leave, Critical, Waiting
  <1>3. \A p \in Processes : known'[p] = known[p] \/ known'[p] = Len(trace)
    BY DEF Enter, Fill, Refresh, View, ViewResult, ViewDigest, cache
  <1>4. Refresh(c) => known'[Home[c]] = Len(trace)
    BY DEF Refresh
  <1>5. \A d \in Callers : at'[d] \in Critical => known'[Home[d]] = Len(trace)
    BY <1>2, <1>3, <1>4 DEF Numbered
  <1>6. driver' # "done" => known'[Runner] = known[Runner]
    BY <1>1, <1>3 DEF Numbered
  <1>7. \A d \in Callers : at'[d] \in {"emit", "announce"} => at'[d] = at[d]
    BY DEF Enter, Refresh, Begin, View, ViewResult, ViewDigest, Goto, Leave, Waiting
  <1> QED BY <1>1, <1>5, <1>6, <1>7, SilentNumbered

\* While a caller is behind the authority lock it is alone there.
LEMMA OneCritical ==
  ASSUME IInv, NEW c \in Callers, at[c] \in Critical
  PROVE  \A d \in Callers : at[d] \in Critical => d = c
  BY DEF IInv, Exclusive

\* The event of a publication is its first, whoever emits it.
LEMMA PublishNumbered ==
  ASSUME IInv, Numbered, NEW c \in Callers, EmitLocked(c) \/ EmitRevealed(c)
  PROVE  Numbered'
  <1> USE CallerAssumption DEF IInv
  <1>1. at[c] \in {"emit", "announce"} /\ at[c] \in Critical /\ UNCHANGED <<status, driver>>
    BY DEF EmitLocked, EmitRevealed, Critical, files
  <1>2. status \in Locked /\ (at[c] = "announce" => status = "REVEALED")
    BY <1>1 DEF Phase, Numbered, Locked
  <1>3. driver = "done"
    BY <1>2 DEF DriverInside, Locked, Types
  <1>4. \A d \in Callers : at'[d] \notin Critical
    <2>1. at' = [at EXCEPT ![c] = "idle"]
      BY DEF EmitLocked, EmitRevealed, Leave, Goto
    <2> QED BY <2>1, <1>1, OneCritical DEF Types, Critical
  <1>5. known[Home[c]] = Len(trace) /\ Home[c] \in Processes
    BY <1>1 DEF Numbered
  <1>6. CASE EmitLocked(c)
    <2>1. Emit(Home[c], "result.locked") /\ at[c] = "emit"
      BY <1>6 DEF EmitLocked
    <2>2. ~Emitted("result.locked")
      BY <2>1 DEF Numbered
    <2>3. /\ TraceIsNumbered'
          /\ \A t : Emitted(t)' <=> Emitted(t) \/ t = "result.locked"
      BY <1>5, <2>1, <2>2, EmitNumbers DEF Numbered
    <2>4. Emitted("catalog.revealed")' => status' = "REVEALED"
      BY <1>1, <2>3 DEF Numbered
    <2> QED BY <1>1, <1>2, <1>3, <1>4, <2>3, <2>4 DEF Numbered, Critical, Locked
  <1>7. CASE EmitRevealed(c)
    <2>1. Emit(Home[c], "catalog.revealed") /\ at[c] = "announce"
      BY <1>7 DEF EmitRevealed
    <2>2. ~Emitted("catalog.revealed")
      BY <2>1 DEF Numbered
    <2>3. /\ TraceIsNumbered'
          /\ \A t : Emitted(t)' <=> Emitted(t) \/ t = "catalog.revealed"
      BY <1>5, <2>1, <2>2, EmitNumbers DEF Numbered
    <2> QED BY <1>1, <1>2, <1>3, <1>4, <2>1, <2>3 DEF Numbered, Critical, Locked
  <1> QED BY <1>6, <1>7

\* The other steps of lock append nothing.
LEMMA LockNumbered ==
  ASSUME IInv, Numbered, NEW c \in Callers, Lock(c)
  PROVE  Numbered'
  <1> USE CallerAssumption DEF IInv
  <1>1. ASSUME ~EmitLocked(c) PROVE Numbered'
    <2>1. trace' = trace /\ driver' = driver /\ known' = known
      BY <1>1 DEF Lock, WriteResult, WriteDigest, SaveLocked, Receipt, cache
    <2>2. \A d \in Callers : at'[d] \in Critical => at[d] \in Critical
      BY <1>1 DEF Lock, WriteResult, WriteDigest, SaveLocked, Receipt, Goto, Leave, Critical, Types
    <2>3. /\ status \in Locked => status' \in Locked
          /\ status = "REVEALED" => status' = "REVEALED"
      BY <1>1 DEF Lock, WriteResult, WriteDigest, SaveLocked, Receipt, Save, files, Phase, Locked
    <2>4. \A d \in Callers : at'[d] = "emit" => at[d] = "emit" \/ status \notin Locked
      BY <1>1 DEF Lock, WriteResult, WriteDigest, SaveLocked, Receipt, Goto, Leave, Phase, Locked,
                  Types
    <2>5. \A d \in Callers : at'[d] = "announce" => at[d] = "announce"
      BY <1>1 DEF Lock, WriteResult, WriteDigest, SaveLocked, Receipt, Goto, Leave, Types
    <2> QED BY <2>1, <2>2, <2>3, <2>4, <2>5, SilentNumbered DEF Numbered
  <1> QED BY <1>1, PublishNumbered

\* The other steps of reveal append nothing.
LEMMA RevealNumbered ==
  ASSUME IInv, Numbered, NEW c \in Callers, Reveal(c)
  PROVE  Numbered'
  <1> USE CallerAssumption DEF IInv
  <1>1. ASSUME ~EmitRevealed(c) PROVE Numbered'
    <2>1. trace' = trace /\ driver' = driver /\ known' = known
      BY <1>1 DEF Reveal, LookUp, WriteReveal, SaveRevealed, ReadReveal, cache
    <2>2. \A d \in Callers : at'[d] \in Critical => at[d] \in Critical
      BY <1>1 DEF Reveal, LookUp, WriteReveal, SaveRevealed, ReadReveal, Goto, Leave, Critical, Types
    <2>3. /\ status \in Locked => status' \in Locked
          /\ status = "REVEALED" => status' = "REVEALED"
      BY <1>1 DEF Reveal, LookUp, WriteReveal, SaveRevealed, ReadReveal, Save, files, Locked
    <2>4. \A d \in Callers : at'[d] = "emit" => at[d] = "emit"
      BY <1>1 DEF Reveal, LookUp, WriteReveal, SaveRevealed, ReadReveal, Goto, Leave, Types
    <2>5. \A d \in Callers : at'[d] = "announce" =>
            at[d] = "announce" \/ (status # "REVEALED" /\ status' = "REVEALED")
      BY <1>1 DEF Reveal, LookUp, WriteReveal, SaveRevealed, ReadReveal, Save, Goto, Leave, Phase,
                  Types
    <2> QED BY <2>1, <2>2, <2>3, <2>4, <2>5, SilentNumbered DEF Numbered
  <1> QED BY <1>1, PublishNumbered

\* The driver's event is the first of the trace.
LEMMA FinishNumbered ==
  ASSUME IInv, Numbered, Finish
  PROVE  Numbered'
  <1> USE CallerAssumption DEF IInv
  <1>1. driver # "done" /\ trace = <<>> /\ known[Runner] = 0 /\ UNCHANGED at
    BY DEF Finish, SaveReady, SaveSummary, EmitReady, Numbered, caller
  <1>2. \A d \in Callers : at[d] = "idle"
    <2>1. inside[Runner] \in {None, Runner}
      BY DEF Finish, SaveReady, SaveSummary, EmitReady, DriverInside
    <2> QED BY <1>1, <2>1 DEF DriverAlone, Exclusive
  <1>3. CASE SaveReady \/ SaveSummary
    <2>1. trace' = trace /\ known'[Runner] = 0 /\ status \notin Locked
      BY <1>1, <1>3 DEF SaveReady, SaveSummary, DriverInside, Locked, Types
    <2>2. \A d \in Callers : at'[d] \notin Critical \cup {"emit", "announce"}
      BY <1>1, <1>2 DEF Critical
    <2> QED BY <1>1, <2>1, <2>2, SilentNumbered DEF Locked
  <1>4. CASE EmitReady
    <2>1. ~Emitted("status.changed") /\ ~Emitted("result.locked") /\ ~Emitted("catalog.revealed")
      BY <1>1 DEF Emitted
    <2>2. Emit(Runner, "status.changed") /\ driver' = "done"
      BY <1>4 DEF EmitReady
    <2>3. /\ TraceIsNumbered'
          /\ \A t : Emitted(t)' <=> Emitted(t) \/ t = "status.changed"
      BY <1>1, <2>1, <2>2, EmitNumbers DEF Numbered
    <2>4. \A d \in Callers : at'[d] \notin Critical \cup {"announce"}
      BY <1>1, <1>2 DEF Critical
    <2> QED BY <2>1, <2>2, <2>3, <2>4 DEF Numbered
  <1> QED BY <1>3, <1>4 DEF Finish

\* A process that died knows nothing and is nowhere.
LEMMA CrashNumbered ==
  ASSUME IInv, Numbered, NEW p \in Processes, Crash(p)
  PROVE  Numbered'
  <1> USE CallerAssumption DEF IInv, Types
  <1>1. trace' = trace /\ status' = status
    BY DEF Crash, files
  <1>2. driver' # "done" => driver # "done" /\ known'[Runner] = known[Runner]
    BY DEF Crash, Numbered
  <1>3. \A d \in Callers : at'[d] # "idle" => at'[d] = at[d] /\ known'[Home[d]] = known[Home[d]]
    BY DEF Crash
  <1> QED BY <1>1, <1>2, <1>3, SilentNumbered DEF Numbered, Critical

\* result.locked and catalog.revealed are told once and the events of the run
\* are numbered without a gap, whichever process appends them.
THEOREM Trace_IsNumbered == Spec => []TraceIsNumbered
  <1>1. Init => Numbered
    BY CallerAssumption DEF Init, Numbered, Emitted, Critical, TraceIsNumbered, EventsOnce, Contiguous
  <1>2. IInv /\ Numbered /\ [Next]_vars => Numbered'
    <2> SUFFICES ASSUME IInv, Numbered, [Next]_vars
                 PROVE  Numbered'
      OBVIOUS
    <2>1. CASE UNCHANGED vars
      BY <2>1 DEF vars, files, cache, caller, Numbered, Emitted, TraceIsNumbered, EventsOnce,
                  Contiguous
    <2> QED BY <2>1, QuietNumbered, LockNumbered, RevealNumbered, FinishNumbered, CrashNumbered DEF Next
  <1>3. Numbered => TraceIsNumbered
    BY DEF Numbered
  <1> QED BY <1>1, <1>2, <1>3, Invariance, PTL DEF Spec
=============================================================================
