-------------------------- MODULE StateCacheProofs --------------------------
(***************************************************************************)
(* Proofs about StateCache: for any number of viewers and readers, of      *)
(* saves and of crashes, no update is lost and the trace is numbered       *)
(* without gaps, until a reader outside of the run boundary puts something *)
(* old into the cache or a node meets a reader's fill half done.           *)
(*                                                                         *)
(* What makes it true: a viewer who has read the files but not yet filled  *)
(* the cache keeps the driver from writing; a reader does not.             *)
(***************************************************************************)
EXTENDS StateCache, TLAPS

\* A viewer asks inside the boundary, and only there.
Guarded == \A v \in Viewers : fill[v].at # "idle" <=> inside = v

\* Where the driver is, and what it asks for meanwhile.
Phases ==
  /\ driver # "raised"
  /\ base # None => driver = "node" /\ base = saved /\ fill[Loop].at = "idle"
  /\ driver = "between" => fill[Loop].at = "idle"
  /\ driver = "node" /\ base = None => fill[Loop].at \in {"asking", "done"}
  /\ driver = "node" /\ fill[Loop].at # "asking" => events # None
  /\ driver # "stopped" => state # None

\* The cache is empty or up to date.
Fresh ==
  /\ state # None => state = saved
  /\ events # None => events = Len(trace)

\* So is what a viewer or the driver has read.
Fillers == Viewers \cup {Loop}
Filling == \A a \in Fillers :
  /\ fill[a].at \in {"read", "set", "traced", "done"} => fill[a].state = saved
  /\ fill[a].at = "traced" => fill[a].events = Len(trace)

\* Whoever fills has read something, and there is a state once it is set.
Begun == \A a \in Actors :
  /\ fill[a].at \in {"read", "set", "traced", "done"} => fill[a].state \in Nat
  /\ fill[a].at = "traced" => fill[a].events \in Nat
  /\ fill[a].at \in {"set", "traced", "done"} => state # None

\* Events are missing beside a state only while someone loads them.
Whole ==
  state # None /\ events = None => \E a \in Actors : fill[a].at \in {"set", "traced"}

Sound == Guarded /\ Phases /\ Fresh /\ Filling /\ Begun /\ Whole /\ Sequenced
IInv == TypeOK /\ (stray \/ Sound)

-----------------------------------------------------------------------------
(* Types.                                                                  *)

\* A caller that moves on stays at a known step.
LEMMA At_Type ==
  ASSUME fill \in [Actors -> Fills], NEW a \in Actors,
         NEW where \in {"idle", "asking", "read", "set", "traced", "done"}, At(a, where)
  PROVE  fill' \in [Actors -> Fills]
  <1> DEFINE D == fill[a]
  <1>1. D \in Fills /\ fill' = [fill EXCEPT ![a] = [D EXCEPT !.at = where]]
    BY DEF At
  <1> HIDE DEF D
  <1>2. [D EXCEPT !.at = where] \in Fills
    BY <1>1 DEF Fills
  <1> QED BY <1>1, <1>2

\* Every step keeps the types.
LEMMA TypesKept == TypeOK /\ [Next]_vars => TypeOK'
  <1> USE CacheAssumption DEF Actors, Threads, durable, cache
  <1> SUFFICES ASSUME TypeOK, [Next]_vars PROVE TypeOK'
    OBVIOUS
  <1>0. NoFill \in Fills
    BY DEF NoFill, Fills
  <1>1. ASSUME NEW a \in Actors, Ask(a) PROVE TypeOK'
    <2>1. CASE state = None
      <3>1. [at |-> "read", state |-> saved, events |-> None] \in Fills
        BY DEF TypeOK, Fills
      <3> QED BY <1>1, <2>1, <3>1 DEF TypeOK, Ask
    <2>2. CASE state # None
      <3>1. [at |-> "done", state |-> state, events |-> None] \in Fills
        BY DEF TypeOK, Fills
      <3> QED BY <1>1, <2>2, <3>1 DEF TypeOK, Ask
    <2> QED BY <2>1, <2>2
  <1>2. ASSUME NEW a \in Actors, SetState(a) PROVE TypeOK'
    <2>1. fill' \in [Actors -> Fills]
      BY <1>2, At_Type DEF TypeOK, SetState
    <2>2. fill[a] \in Fills
      BY DEF TypeOK
    <2> QED BY <1>2, <2>1, <2>2 DEF TypeOK, SetState, Fills
  <1>3. ASSUME NEW a \in Actors, ReadTrace(a) PROVE TypeOK'
    <2> DEFINE D == fill[a]
    <2>1. D \in Fills /\ fill' = [fill EXCEPT ![a] = [D EXCEPT !.at = "traced", !.events = Len(trace)]]
      BY <1>3 DEF TypeOK, ReadTrace
    <2>2. Len(trace) \in Nat
      BY DEF TypeOK
    <2> HIDE DEF D
    <2>3. [D EXCEPT !.at = "traced", !.events = Len(trace)] \in Fills
      BY <2>1, <2>2 DEF Fills
    <2>4. fill' \in [Actors -> Fills]
      BY <2>1, <2>3 DEF TypeOK
    <2> QED BY <1>3, <2>4 DEF TypeOK, ReadTrace
  <1>4. ASSUME NEW a \in Actors, SetEvents(a) PROVE TypeOK'
    <2>1. fill' \in [Actors -> Fills]
      BY <1>4, At_Type DEF TypeOK, SetEvents
    <2>2. fill[a] \in Fills
      BY DEF TypeOK
    <2> QED BY <1>4, <2>1, <2>2 DEF TypeOK, SetEvents, Fills
  <1>5. ASSUME NEW a \in Threads, Read(a) PROVE TypeOK'
    <2>1. fill' \in [Actors -> Fills]
      BY <1>5, At_Type DEF TypeOK, Read
    <2> QED BY <1>5, <2>1 DEF TypeOK, Read
  <1>6. ASSUME NEW a \in Threads, View(a) PROVE TypeOK'
    <2>1. fill' \in [Actors -> Fills]
      BY <1>6, At_Type DEF TypeOK, View
    <2> QED BY <1>6, <2>1 DEF TypeOK, View
  <1>7. ASSUME NEW a \in Threads, Reply(a) PROVE TypeOK'
    BY <1>0, <1>7 DEF TypeOK, Reply
  <1>8. ASSUME Start PROVE TypeOK'
    <2>1. fill' \in [Actors -> Fills]
      BY <1>8, At_Type DEF TypeOK, Start
    <2> QED BY <1>8, <2>1 DEF TypeOK, Start
  <1>9. ASSUME Schedule PROVE TypeOK'
    BY <1>0, <1>9 DEF TypeOK, Schedule
  <1>10. ASSUME EnterNode PROVE TypeOK'
    <2>1. fill' \in [Actors -> Fills]
      BY <1>10, At_Type DEF TypeOK, EnterNode
    <2> QED BY <1>10, <2>1 DEF TypeOK, EnterNode
  <1>11. ASSUME Work PROVE TypeOK'
    <2>1. fill[Loop] \in Fills
      BY DEF TypeOK
    <2> QED BY <1>0, <1>11, <2>1 DEF TypeOK, Work, Fills
  <1>12. ASSUME Save PROVE TypeOK'
    BY <1>0, <1>12 DEF TypeOK, Save
  <1>13. ASSUME Emit PROVE TypeOK'
    <2>1. CASE events = None
      BY <1>13, <2>1 DEF TypeOK, Emit
    <2>2. CASE events # None
      BY <1>13, <2>2 DEF TypeOK, Emit
    <2> QED BY <2>1, <2>2
  <1>14. ASSUME LeaveNode PROVE TypeOK'
    BY <1>0, <1>14 DEF TypeOK, LeaveNode
  <1>15. ASSUME Crash PROVE TypeOK'
    BY <1>0, <1>15 DEF TypeOK, Crash
  <1>16. CASE UNCHANGED vars
    BY <1>16 DEF vars, TypeOK
  <1> QED BY <1>1, <1>2, <1>3, <1>4, <1>5, <1>6, <1>7, <1>8, <1>9, <1>10, <1>11, <1>12, <1>13, <1>14, <1>15, <1>16 DEF Next, Driver, Get

-----------------------------------------------------------------------------
(* What the actions preserve as long as no reader spoils the cache.        *)

\* Ask keeps the invariant.
LEMMA AskKeeps ==
  ASSUME TypeOK, TypeOK', Sound, ~stray',
         NEW a \in Actors, Ask(a)
  PROVE  Sound'
  <1> USE CacheAssumption DEF Actors, Threads, Fillers, Fills, durable, cache, NoFill, At
  <1>0. Guarded /\ Phases /\ Fresh /\ Filling /\ Begun /\ Whole /\ Sequenced
    BY DEF Sound
  <1>1. Guarded'
    BY <1>0 DEF TypeOK, Guarded, Phases, Fresh, Filling, Begun, Whole, Sequenced, Ask, HalfFilled
  <1>2. Phases'
    BY <1>0 DEF TypeOK, Guarded, Phases, Fresh, Filling, Begun, Whole, Sequenced, Ask, HalfFilled
  <1>3. Fresh'
    BY <1>0 DEF TypeOK, Guarded, Phases, Fresh, Filling, Begun, Whole, Sequenced, Ask, HalfFilled
  <1>4. Filling'
    <2>1. saved' = saved /\ trace' = trace
      BY DEF Ask
    <2>2. fill'[a].state = saved /\ fill'[a].at # "traced"
      BY <1>0 DEF TypeOK, Fresh, Ask
    <2>3. \A b \in Actors \ {a} : fill'[b] = fill[b]
      BY DEF TypeOK, Ask
    <2> QED BY <1>0, <2>1, <2>2, <2>3 DEF Filling
  <1>5. Begun'
    BY <1>0 DEF TypeOK, Guarded, Phases, Fresh, Filling, Begun, Whole, Sequenced, Ask, HalfFilled
  <1>6. Whole'
    <2>1. state' = state /\ events' = events
      BY DEF Ask
    <2>2. SUFFICES ASSUME state # None, events = None
                   PROVE  \E b \in Actors : fill'[b].at \in {"set", "traced"}
      BY <2>1 DEF Whole
    <2>3. PICK b \in Actors : fill[b].at \in {"set", "traced"}
      BY <1>0, <2>2 DEF Whole
    <2>4. b # a /\ fill'[b] = fill[b]
      BY <2>3 DEF TypeOK, Ask
    <2> QED BY <2>3, <2>4
  <1>7. Sequenced'
    BY <1>0 DEF TypeOK, Guarded, Phases, Fresh, Filling, Begun, Whole, Sequenced, Ask, HalfFilled
  <1> QED BY <1>1, <1>2, <1>3, <1>4, <1>5, <1>6, <1>7 DEF Sound

\* SetState keeps the invariant.
LEMMA SetStateKeeps ==
  ASSUME TypeOK, TypeOK', Sound, ~stray',
         NEW a \in Actors, SetState(a)
  PROVE  Sound'
  <1> USE CacheAssumption DEF Actors, Threads, Fillers, Fills, durable, cache, NoFill, At
  <1>0. Guarded /\ Phases /\ Fresh /\ Filling /\ Begun /\ Whole /\ Sequenced
    BY DEF Sound
  <1>1. Guarded'
    BY <1>0 DEF TypeOK, Guarded, Phases, Fresh, Filling, Begun, Whole, Sequenced, SetState
  <1>2. Phases'
    BY <1>0 DEF TypeOK, Guarded, Phases, Fresh, Filling, Begun, Whole, Sequenced, SetState
  <1>3. Fresh'
    BY <1>0 DEF TypeOK, Guarded, Phases, Fresh, Filling, Begun, Whole, Sequenced, SetState
  <1>4. Filling'
    BY <1>0 DEF TypeOK, Guarded, Phases, Fresh, Filling, Begun, Whole, Sequenced, SetState
  <1>5. Begun'
    BY <1>0 DEF TypeOK, Guarded, Phases, Fresh, Filling, Begun, Whole, Sequenced, SetState
  <1>6. Whole'
    BY <1>0 DEF TypeOK, Guarded, Phases, Fresh, Filling, Begun, Whole, Sequenced, SetState
  <1>7. Sequenced'
    BY <1>0 DEF TypeOK, Guarded, Phases, Fresh, Filling, Begun, Whole, Sequenced, SetState
  <1> QED BY <1>1, <1>2, <1>3, <1>4, <1>5, <1>6, <1>7 DEF Sound

\* ReadTrace keeps the invariant.
LEMMA ReadTraceKeeps ==
  ASSUME TypeOK, TypeOK', Sound, ~stray',
         NEW a \in Actors, ReadTrace(a)
  PROVE  Sound'
  <1> USE CacheAssumption DEF Actors, Threads, Fillers, Fills, durable, cache, NoFill, At
  <1>0. Guarded /\ Phases /\ Fresh /\ Filling /\ Begun /\ Whole /\ Sequenced
    BY DEF Sound
  <1>1. Guarded'
    BY <1>0 DEF TypeOK, Guarded, Phases, Fresh, Filling, Begun, Whole, Sequenced, ReadTrace
  <1>2. Phases'
    BY <1>0 DEF TypeOK, Guarded, Phases, Fresh, Filling, Begun, Whole, Sequenced, ReadTrace
  <1>3. Fresh'
    BY <1>0 DEF TypeOK, Guarded, Phases, Fresh, Filling, Begun, Whole, Sequenced, ReadTrace
  <1>4. Filling'
    BY <1>0 DEF TypeOK, Guarded, Phases, Fresh, Filling, Begun, Whole, Sequenced, ReadTrace
  <1>5. Begun'
    BY <1>0 DEF TypeOK, Guarded, Phases, Fresh, Filling, Begun, Whole, Sequenced, ReadTrace
  <1>6. Whole'
    BY <1>0 DEF TypeOK, Guarded, Phases, Fresh, Filling, Begun, Whole, Sequenced, ReadTrace
  <1>7. Sequenced'
    BY <1>0 DEF TypeOK, Guarded, Phases, Fresh, Filling, Begun, Whole, Sequenced, ReadTrace
  <1> QED BY <1>1, <1>2, <1>3, <1>4, <1>5, <1>6, <1>7 DEF Sound

\* SetEvents keeps the invariant.
LEMMA SetEventsKeeps ==
  ASSUME TypeOK, TypeOK', Sound, ~stray',
         NEW a \in Actors, SetEvents(a)
  PROVE  Sound'
  <1> USE CacheAssumption DEF Actors, Threads, Fillers, Fills, durable, cache, NoFill, At
  <1>0. Guarded /\ Phases /\ Fresh /\ Filling /\ Begun /\ Whole /\ Sequenced
    BY DEF Sound
  <1>1. Guarded'
    BY <1>0 DEF TypeOK, Guarded, Phases, Fresh, Filling, Begun, Whole, Sequenced, SetEvents
  <1>2. Phases'
    BY <1>0 DEF TypeOK, Guarded, Phases, Fresh, Filling, Begun, Whole, Sequenced, SetEvents
  <1>3. Fresh'
    BY <1>0 DEF TypeOK, Guarded, Phases, Fresh, Filling, Begun, Whole, Sequenced, SetEvents
  <1>4. Filling'
    BY <1>0 DEF TypeOK, Guarded, Phases, Fresh, Filling, Begun, Whole, Sequenced, SetEvents
  <1>5. Begun'
    BY <1>0 DEF TypeOK, Guarded, Phases, Fresh, Filling, Begun, Whole, Sequenced, SetEvents
  <1>6. Whole'
    <2>1. fill[a].events \in Nat /\ events' = fill[a].events
      BY <1>0 DEF TypeOK, Begun, Filling, SetEvents
    <2> QED BY <2>1 DEF Whole
  <1>7. Sequenced'
    BY <1>0 DEF TypeOK, Guarded, Phases, Fresh, Filling, Begun, Whole, Sequenced, SetEvents
  <1> QED BY <1>1, <1>2, <1>3, <1>4, <1>5, <1>6, <1>7 DEF Sound

\* Read keeps the invariant.
LEMMA ReadKeeps ==
  ASSUME TypeOK, TypeOK', Sound, ~stray',
         NEW a \in Threads, Read(a)
  PROVE  Sound'
  <1> USE CacheAssumption DEF Actors, Threads, Fillers, Fills, durable, cache, NoFill, At
  <1>0. Guarded /\ Phases /\ Fresh /\ Filling /\ Begun /\ Whole /\ Sequenced
    BY DEF Sound
  <1>1. Guarded'
    BY <1>0 DEF TypeOK, Guarded, Phases, Fresh, Filling, Begun, Whole, Sequenced, Read
  <1>2. Phases'
    BY <1>0 DEF TypeOK, Guarded, Phases, Fresh, Filling, Begun, Whole, Sequenced, Read
  <1>3. Fresh'
    BY <1>0 DEF TypeOK, Guarded, Phases, Fresh, Filling, Begun, Whole, Sequenced, Read
  <1>4. Filling'
    BY <1>0 DEF TypeOK, Guarded, Phases, Fresh, Filling, Begun, Whole, Sequenced, Read
  <1>5. Begun'
    BY <1>0 DEF TypeOK, Guarded, Phases, Fresh, Filling, Begun, Whole, Sequenced, Read
  <1>6. Whole'
    BY <1>0 DEF TypeOK, Guarded, Phases, Fresh, Filling, Begun, Whole, Sequenced, Read
  <1>7. Sequenced'
    BY <1>0 DEF TypeOK, Guarded, Phases, Fresh, Filling, Begun, Whole, Sequenced, Read
  <1> QED BY <1>1, <1>2, <1>3, <1>4, <1>5, <1>6, <1>7 DEF Sound

\* View keeps the invariant.
LEMMA ViewKeeps ==
  ASSUME TypeOK, TypeOK', Sound, ~stray',
         NEW a \in Threads, View(a)
  PROVE  Sound'
  <1> USE CacheAssumption DEF Actors, Threads, Fillers, Fills, durable, cache, NoFill, At
  <1>0. Guarded /\ Phases /\ Fresh /\ Filling /\ Begun /\ Whole /\ Sequenced
    BY DEF Sound
  <1>1. Guarded'
    BY <1>0 DEF TypeOK, Guarded, Phases, Fresh, Filling, Begun, Whole, Sequenced, View
  <1>2. Phases'
    BY <1>0 DEF TypeOK, Guarded, Phases, Fresh, Filling, Begun, Whole, Sequenced, View
  <1>3. Fresh'
    BY <1>0 DEF TypeOK, Guarded, Phases, Fresh, Filling, Begun, Whole, Sequenced, View
  <1>4. Filling'
    BY <1>0 DEF TypeOK, Guarded, Phases, Fresh, Filling, Begun, Whole, Sequenced, View
  <1>5. Begun'
    BY <1>0 DEF TypeOK, Guarded, Phases, Fresh, Filling, Begun, Whole, Sequenced, View
  <1>6. Whole'
    BY <1>0 DEF TypeOK, Guarded, Phases, Fresh, Filling, Begun, Whole, Sequenced, View
  <1>7. Sequenced'
    BY <1>0 DEF TypeOK, Guarded, Phases, Fresh, Filling, Begun, Whole, Sequenced, View
  <1> QED BY <1>1, <1>2, <1>3, <1>4, <1>5, <1>6, <1>7 DEF Sound

\* Reply keeps the invariant.
LEMMA ReplyKeeps ==
  ASSUME TypeOK, TypeOK', Sound, ~stray',
         NEW a \in Threads, Reply(a)
  PROVE  Sound'
  <1> USE CacheAssumption DEF Actors, Threads, Fillers, Fills, durable, cache, NoFill, At
  <1>0. Guarded /\ Phases /\ Fresh /\ Filling /\ Begun /\ Whole /\ Sequenced
    BY DEF Sound
  <1>1. Guarded'
    BY <1>0 DEF TypeOK, Guarded, Phases, Fresh, Filling, Begun, Whole, Sequenced, Reply
  <1>2. Phases'
    BY <1>0 DEF TypeOK, Guarded, Phases, Fresh, Filling, Begun, Whole, Sequenced, Reply
  <1>3. Fresh'
    BY <1>0 DEF TypeOK, Guarded, Phases, Fresh, Filling, Begun, Whole, Sequenced, Reply
  <1>4. Filling'
    BY <1>0 DEF TypeOK, Guarded, Phases, Fresh, Filling, Begun, Whole, Sequenced, Reply
  <1>5. Begun'
    BY <1>0 DEF TypeOK, Guarded, Phases, Fresh, Filling, Begun, Whole, Sequenced, Reply
  <1>6. Whole'
    BY <1>0 DEF TypeOK, Guarded, Phases, Fresh, Filling, Begun, Whole, Sequenced, Reply
  <1>7. Sequenced'
    BY <1>0 DEF TypeOK, Guarded, Phases, Fresh, Filling, Begun, Whole, Sequenced, Reply
  <1> QED BY <1>1, <1>2, <1>3, <1>4, <1>5, <1>6, <1>7 DEF Sound

\* Start keeps the invariant.
LEMMA StartKeeps ==
  ASSUME TypeOK, TypeOK', Sound, ~stray',
         Start
  PROVE  Sound'
  <1> USE CacheAssumption DEF Actors, Threads, Fillers, Fills, durable, cache, NoFill, At
  <1>0. Guarded /\ Phases /\ Fresh /\ Filling /\ Begun /\ Whole /\ Sequenced
    BY DEF Sound
  <1>1. Guarded'
    BY <1>0 DEF TypeOK, Guarded, Phases, Fresh, Filling, Begun, Whole, Sequenced, Start
  <1>2. Phases'
    BY <1>0 DEF TypeOK, Guarded, Phases, Fresh, Filling, Begun, Whole, Sequenced, Start
  <1>3. Fresh'
    BY <1>0 DEF TypeOK, Guarded, Phases, Fresh, Filling, Begun, Whole, Sequenced, Start
  <1>4. Filling'
    BY <1>0 DEF TypeOK, Guarded, Phases, Fresh, Filling, Begun, Whole, Sequenced, Start
  <1>5. Begun'
    BY <1>0 DEF TypeOK, Guarded, Phases, Fresh, Filling, Begun, Whole, Sequenced, Start
  <1>6. Whole'
    BY <1>0 DEF TypeOK, Guarded, Phases, Fresh, Filling, Begun, Whole, Sequenced, Start
  <1>7. Sequenced'
    BY <1>0 DEF TypeOK, Guarded, Phases, Fresh, Filling, Begun, Whole, Sequenced, Start
  <1> QED BY <1>1, <1>2, <1>3, <1>4, <1>5, <1>6, <1>7 DEF Sound

\* Schedule keeps the invariant.
LEMMA ScheduleKeeps ==
  ASSUME TypeOK, TypeOK', Sound, ~stray',
         Schedule
  PROVE  Sound'
  <1> USE CacheAssumption DEF Actors, Threads, Fillers, Fills, durable, cache, NoFill, At
  <1>0. Guarded /\ Phases /\ Fresh /\ Filling /\ Begun /\ Whole /\ Sequenced
    BY DEF Sound
  <1>1. Guarded'
    BY <1>0 DEF TypeOK, Guarded, Phases, Fresh, Filling, Begun, Whole, Sequenced, Schedule
  <1>2. Phases'
    BY <1>0 DEF TypeOK, Guarded, Phases, Fresh, Filling, Begun, Whole, Sequenced, Schedule
  <1>3. Fresh'
    BY <1>0 DEF TypeOK, Guarded, Phases, Fresh, Filling, Begun, Whole, Sequenced, Schedule
  <1>4. Filling'
    BY <1>0 DEF TypeOK, Guarded, Phases, Fresh, Filling, Begun, Whole, Sequenced, Schedule
  <1>5. Begun'
    BY <1>0 DEF TypeOK, Guarded, Phases, Fresh, Filling, Begun, Whole, Sequenced, Schedule
  <1>6. Whole'
    BY <1>0 DEF TypeOK, Guarded, Phases, Fresh, Filling, Begun, Whole, Sequenced, Schedule
  <1>7. Sequenced'
    BY <1>0 DEF TypeOK, Guarded, Phases, Fresh, Filling, Begun, Whole, Sequenced, Schedule
  <1> QED BY <1>1, <1>2, <1>3, <1>4, <1>5, <1>6, <1>7 DEF Sound

\* EnterNode keeps the invariant.
LEMMA EnterNodeKeeps ==
  ASSUME TypeOK, TypeOK', Sound, ~stray',
         EnterNode
  PROVE  Sound'
  <1> USE CacheAssumption DEF Actors, Threads, Fillers, Fills, durable, cache, NoFill, At
  <1>0. Guarded /\ Phases /\ Fresh /\ Filling /\ Begun /\ Whole /\ Sequenced
    BY DEF Sound
  <1>1. Guarded'
    BY <1>0 DEF TypeOK, Guarded, Phases, Fresh, Filling, Begun, Whole, Sequenced, EnterNode
  <1>2. Phases'
    BY <1>0 DEF TypeOK, Guarded, Phases, Fresh, Filling, Begun, Whole, Sequenced, EnterNode
  <1>3. Fresh'
    BY <1>0 DEF TypeOK, Guarded, Phases, Fresh, Filling, Begun, Whole, Sequenced, EnterNode
  <1>4. Filling'
    BY <1>0 DEF TypeOK, Guarded, Phases, Fresh, Filling, Begun, Whole, Sequenced, EnterNode
  <1>5. Begun'
    BY <1>0 DEF TypeOK, Guarded, Phases, Fresh, Filling, Begun, Whole, Sequenced, EnterNode
  <1>6. Whole'
    BY <1>0 DEF TypeOK, Guarded, Phases, Fresh, Filling, Begun, Whole, Sequenced, EnterNode
  <1>7. Sequenced'
    BY <1>0 DEF TypeOK, Guarded, Phases, Fresh, Filling, Begun, Whole, Sequenced, EnterNode
  <1> QED BY <1>1, <1>2, <1>3, <1>4, <1>5, <1>6, <1>7 DEF Sound

\* Work keeps the invariant.
LEMMA WorkKeeps ==
  ASSUME TypeOK, TypeOK', Sound, ~stray',
         Work
  PROVE  Sound'
  <1> USE CacheAssumption DEF Actors, Threads, Fillers, Fills, durable, cache, NoFill, At
  <1>0. Guarded /\ Phases /\ Fresh /\ Filling /\ Begun /\ Whole /\ Sequenced
    BY DEF Sound
  <1>1. Guarded'
    BY <1>0 DEF TypeOK, Guarded, Phases, Fresh, Filling, Begun, Whole, Sequenced, Work
  <1>2. Phases'
    BY <1>0 DEF TypeOK, Guarded, Phases, Fresh, Filling, Begun, Whole, Sequenced, Work
  <1>3. Fresh'
    BY <1>0 DEF TypeOK, Guarded, Phases, Fresh, Filling, Begun, Whole, Sequenced, Work
  <1>4. Filling'
    BY <1>0 DEF TypeOK, Guarded, Phases, Fresh, Filling, Begun, Whole, Sequenced, Work
  <1>5. Begun'
    BY <1>0 DEF TypeOK, Guarded, Phases, Fresh, Filling, Begun, Whole, Sequenced, Work
  <1>6. Whole'
    BY <1>0 DEF TypeOK, Guarded, Phases, Fresh, Filling, Begun, Whole, Sequenced, Work
  <1>7. Sequenced'
    BY <1>0 DEF TypeOK, Guarded, Phases, Fresh, Filling, Begun, Whole, Sequenced, Work
  <1> QED BY <1>1, <1>2, <1>3, <1>4, <1>5, <1>6, <1>7 DEF Sound

\* Save keeps the invariant.
LEMMA SaveKeeps ==
  ASSUME TypeOK, TypeOK', Sound, ~stray',
         Save
  PROVE  Sound'
  <1> USE CacheAssumption DEF Actors, Threads, Fillers, Fills, durable, cache, NoFill, At
  <1>0. Guarded /\ Phases /\ Fresh /\ Filling /\ Begun /\ Whole /\ Sequenced
    BY DEF Sound
  <1>1. Guarded'
    BY <1>0 DEF TypeOK, Guarded, Phases, Fresh, Filling, Begun, Whole, Sequenced, Save
  <1>2. Phases'
    BY <1>0 DEF TypeOK, Guarded, Phases, Fresh, Filling, Begun, Whole, Sequenced, Save
  <1>3. Fresh'
    BY <1>0 DEF TypeOK, Guarded, Phases, Fresh, Filling, Begun, Whole, Sequenced, Save
  <1>4. Filling'
    BY <1>0 DEF TypeOK, Guarded, Phases, Fresh, Filling, Begun, Whole, Sequenced, Save
  <1>5. Begun'
    BY <1>0 DEF TypeOK, Guarded, Phases, Fresh, Filling, Begun, Whole, Sequenced, Save
  <1>6. Whole'
    BY <1>0 DEF TypeOK, Guarded, Phases, Fresh, Filling, Begun, Whole, Sequenced, Save
  <1>7. Sequenced'
    BY <1>0 DEF TypeOK, Guarded, Phases, Fresh, Filling, Begun, Whole, Sequenced, Save
  <1> QED BY <1>1, <1>2, <1>3, <1>4, <1>5, <1>6, <1>7 DEF Sound

\* Emit keeps the invariant.
LEMMA EmitKeeps ==
  ASSUME TypeOK, TypeOK', Sound, ~stray',
         Emit
  PROVE  Sound'
  <1> USE CacheAssumption DEF Actors, Threads, Fillers, Fills, durable, cache, NoFill, At
  <1>0. Guarded /\ Phases /\ Fresh /\ Filling /\ Begun /\ Whole /\ Sequenced
    BY DEF Sound
  <1>1. Guarded'
    BY <1>0 DEF TypeOK, Guarded, Phases, Fresh, Filling, Begun, Whole, Sequenced, Emit
  <1>2. Phases'
    BY <1>0 DEF TypeOK, Guarded, Phases, Fresh, Filling, Begun, Whole, Sequenced, Emit
  <1>3. Fresh'
    BY <1>0 DEF TypeOK, Guarded, Phases, Fresh, Filling, Begun, Whole, Sequenced, Emit
  <1>4. Filling'
    BY <1>0 DEF TypeOK, Guarded, Phases, Fresh, Filling, Begun, Whole, Sequenced, Emit
  <1>5. Begun'
    BY <1>0 DEF TypeOK, Guarded, Phases, Fresh, Filling, Begun, Whole, Sequenced, Emit
  <1>6. Whole'
    BY <1>0 DEF TypeOK, Guarded, Phases, Fresh, Filling, Begun, Whole, Sequenced, Emit
  <1>7. Sequenced'
    <2>1. events \in Nat /\ events = Len(trace) /\ trace' = Append(trace, events + 1)
      BY <1>0, <1>2 DEF TypeOK, Phases, Fresh, Emit
    <2> QED BY <1>0, <2>1 DEF TypeOK, Sequenced
  <1> QED BY <1>1, <1>2, <1>3, <1>4, <1>5, <1>6, <1>7 DEF Sound

\* LeaveNode keeps the invariant.
LEMMA LeaveNodeKeeps ==
  ASSUME TypeOK, TypeOK', Sound, ~stray',
         LeaveNode
  PROVE  Sound'
  <1> USE CacheAssumption DEF Actors, Threads, Fillers, Fills, durable, cache, NoFill, At
  <1>0. Guarded /\ Phases /\ Fresh /\ Filling /\ Begun /\ Whole /\ Sequenced
    BY DEF Sound
  <1>1. Guarded'
    BY <1>0 DEF TypeOK, Guarded, Phases, Fresh, Filling, Begun, Whole, Sequenced, LeaveNode
  <1>2. Phases'
    BY <1>0 DEF TypeOK, Guarded, Phases, Fresh, Filling, Begun, Whole, Sequenced, LeaveNode
  <1>3. Fresh'
    BY <1>0 DEF TypeOK, Guarded, Phases, Fresh, Filling, Begun, Whole, Sequenced, LeaveNode
  <1>4. Filling'
    BY <1>0 DEF TypeOK, Guarded, Phases, Fresh, Filling, Begun, Whole, Sequenced, LeaveNode
  <1>5. Begun'
    BY <1>0 DEF TypeOK, Guarded, Phases, Fresh, Filling, Begun, Whole, Sequenced, LeaveNode
  <1>6. Whole'
    BY <1>0 DEF TypeOK, Guarded, Phases, Fresh, Filling, Begun, Whole, Sequenced, LeaveNode
  <1>7. Sequenced'
    BY <1>0 DEF TypeOK, Guarded, Phases, Fresh, Filling, Begun, Whole, Sequenced, LeaveNode
  <1> QED BY <1>1, <1>2, <1>3, <1>4, <1>5, <1>6, <1>7 DEF Sound

\* Crash keeps the invariant.
LEMMA CrashKeeps ==
  ASSUME TypeOK, TypeOK', Sound, ~stray',
         Crash
  PROVE  Sound'
  <1> USE CacheAssumption DEF Actors, Threads, Fillers, Fills, durable, cache, NoFill, At
  <1>0. Guarded /\ Phases /\ Fresh /\ Filling /\ Begun /\ Whole /\ Sequenced
    BY DEF Sound
  <1>1. Guarded'
    BY <1>0 DEF TypeOK, Guarded, Phases, Fresh, Filling, Begun, Whole, Sequenced, Crash
  <1>2. Phases'
    BY <1>0 DEF TypeOK, Guarded, Phases, Fresh, Filling, Begun, Whole, Sequenced, Crash
  <1>3. Fresh'
    BY <1>0 DEF TypeOK, Guarded, Phases, Fresh, Filling, Begun, Whole, Sequenced, Crash
  <1>4. Filling'
    BY <1>0 DEF TypeOK, Guarded, Phases, Fresh, Filling, Begun, Whole, Sequenced, Crash
  <1>5. Begun'
    BY <1>0 DEF TypeOK, Guarded, Phases, Fresh, Filling, Begun, Whole, Sequenced, Crash
  <1>6. Whole'
    BY <1>0 DEF TypeOK, Guarded, Phases, Fresh, Filling, Begun, Whole, Sequenced, Crash
  <1>7. Sequenced'
    BY <1>0 DEF TypeOK, Guarded, Phases, Fresh, Filling, Begun, Whole, Sequenced, Crash
  <1> QED BY <1>1, <1>2, <1>3, <1>4, <1>5, <1>6, <1>7 DEF Sound

-----------------------------------------------------------------------------
(* Theorems.                                                               *)

\* Every step keeps the invariant.
LEMMA Inductive == IInv /\ [Next]_vars => IInv'
  <1> SUFFICES ASSUME IInv, [Next]_vars PROVE IInv'
    OBVIOUS
  <1>1. TypeOK /\ TypeOK'
    BY TypesKept DEF IInv
  <1>2. stray => stray'
    BY DEF Next, Driver, Get, vars, Start, Schedule, EnterNode, Work, Save, Emit, LeaveNode,
           Crash, Ask, SetState, ReadTrace, SetEvents, Read, View, Reply
  <1>3. SUFFICES ASSUME ~stray' PROVE Sound'
    BY <1>1 DEF IInv
  <1>4. Sound
    BY <1>2, <1>3 DEF IInv
  <1>5. CASE Driver \/ Crash
    BY <1>1, <1>3, <1>4, <1>5, StartKeeps, ScheduleKeeps, EnterNodeKeeps, WorkKeeps, SaveKeeps,
       EmitKeeps, LeaveNodeKeeps, CrashKeeps DEF Driver
  <1>6. ASSUME NEW a \in Actors, Get(a) PROVE Sound'
    BY <1>1, <1>3, <1>4, <1>6, AskKeeps, SetStateKeeps, ReadTraceKeeps, SetEventsKeeps DEF Get
  <1>7. ASSUME NEW a \in Threads, Read(a) \/ View(a) \/ Reply(a) PROVE Sound'
    BY <1>1, <1>3, <1>4, <1>7, ReadKeeps, ViewKeeps, ReplyKeeps
  <1>8. CASE UNCHANGED vars
    BY <1>4, <1>8 DEF vars, durable, cache, Sound, Guarded, Phases, Fresh, Filling, Begun,
                      Whole, Sequenced
  <1> QED BY <1>5, <1>6, <1>7, <1>8 DEF Next

\* The types, and what holds until a reader spoils the cache.
THEOREM Invariance == Spec => []IInv
  <1>1. ASSUME Init PROVE IInv
    <2> USE CacheAssumption DEF Actors, Threads, NoFill
    <2>1. TypeOK
      <3>1. trace \in Seq(Nat) /\ saved \in Nat /\ state \in Nat /\ events \in Nat
        BY <1>1 DEF Init
      <3>2. NoFill \in Fills
        BY DEF Fills
      <3>3. fill \in [Actors -> Fills]
        BY <1>1, <3>2 DEF Init
      <3>4. inside = None /\ None # Loop /\ driver = "stopped" /\ base = None
        BY <1>1 DEF Init
      <3>5. crashes \in 0..MaxCrashes
        BY <1>1 DEF Init
      <3>6. stray \in BOOLEAN
        BY <1>1 DEF Init
      <3> QED BY <3>1, <3>3, <3>4, <3>5, <3>6 DEF TypeOK
    <2>2. Guarded /\ Filling /\ Begun
      BY <1>1 DEF Init, Guarded, Filling, Begun, Fillers
    <2>3. Phases /\ Fresh /\ Whole /\ Sequenced
      BY <1>1 DEF Init, Phases, Fresh, Whole, Sequenced
    <2> QED BY <2>1, <2>2, <2>3 DEF IInv, Sound
  <1> QED BY <1>1, Inductive, PTL DEF Spec

\* Until a reader spoils the cache, the trace is numbered without gaps or
\* repeats: SequencedUnlessStray.
THEOREM Trace_IsSequenced == Spec => []SequencedUnlessStray
  <1>1. IInv => SequencedUnlessStray
    BY DEF IInv, Sound, SequencedUnlessStray
  <1> QED BY <1>1, Invariance, PTL

\* A node finds the events of its run: EventsAreThere.
THEOREM Events_AreThere == Spec => []EventsAreThere
  <1>1. IInv => EventsAreThere
    BY DEF IInv, Sound, Phases, EventsAreThere
  <1> QED BY <1>1, Invariance, PTL

\* What a snapshot is made from is the durable run: ViewIsCurrent.
THEOREM View_IsCurrent == Spec => []ViewIsCurrent
  <1>1. IInv => ViewIsCurrent
    BY DEF IInv, Sound, Fresh, Filling, Fillers, ViewIsCurrent
  <1> QED BY <1>1, Invariance, PTL

\* Each save contains the ones before it: NoLostUpdate.
THEOREM No_LostUpdate == Spec => NoLostUpdate
  <1>1. IInv /\ [Next]_vars => [saved' # saved => stray \/ saved' = saved + 1]_vars
    <2> SUFFICES ASSUME IInv, [Next]_vars, saved' # saved PROVE stray \/ saved' = saved + 1
      OBVIOUS
    <2>1. Save
      BY DEF Next, Driver, Get, vars, durable, Start, Schedule, EnterNode, Work, Emit,
             LeaveNode, Crash, Ask, SetState, ReadTrace, SetEvents, Read, View, Reply
    <2> QED BY <2>1 DEF Save, IInv, Sound, Phases
  <1> QED BY <1>1, Invariance, PTL DEF Spec, NoLostUpdate

\* The trace is numbered without gaps and nodes find it: TraceIsServed.
THEOREM Trace_IsServed == Spec => []TraceIsServed
  <1>1. SequencedUnlessStray /\ EventsAreThere => TraceIsServed
    BY DEF TraceIsServed
  <1> QED BY <1>1, Trace_IsSequenced, Events_AreThere, PTL

\* Every variable has its type and the boundary is taken exactly while a node
\* or a view runs: TypeOK.
THEOREM TypeCorrect == Spec => []TypeOK
  <1>1. IInv => TypeOK
    BY DEF IInv
  <1> QED BY <1>1, Invariance, PTL
=============================================================================
