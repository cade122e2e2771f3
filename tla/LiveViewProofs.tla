--------------------------- MODULE LiveViewProofs ---------------------------
(***************************************************************************)
(* Proofs about LiveView for any runs, lengths of the trace, openings and  *)
(* failures: the display is that of the open run, nothing is skipped, and  *)
(* a client that stops following has been shown everything.                *)
(***************************************************************************)
EXTENDS LiveView, WellFoundedInduction, TLAPS

Covered(n) == n <= accepted \/ n \in buffer
Settled(r) == stopped[r] /\ busy[r] = "no"
Positive == Nat \ {0}

\* A run emits its last event once, and nothing after it.
Served ==
  \A r \in Runs :
    /\ busy[r] = "last" => stopped[r]
    /\ busy[r] = "last" \/ ~stopped[r] => trace[r] < MaxTrace

\* A snapshot on its way tells the truth of its run; one of this generation
\* belongs to the first reconciliation of the queue.
Asked ==
  /\ \A p \in replies :
       /\ p.seq <= trace[p.run] /\ p.gen <= gen
       /\ p.stopped => Settled(p.run) /\ p.seq = trace[p.run]
       /\ p.gen = gen => p.run = run /\ queue # <<>>
  /\ \A p, q \in replies : p.gen = gen /\ q.gen = gen => p = q
  /\ run = None => queue = <<>>

\* What is in the pipe follows on what is covered.
Piped ==
  Connected =>
    /\ Current /\ stream.run = run /\ run # None
    /\ stream.next \in Positive /\ stream.next <= trace[run] + 1 /\ stream.seen <= trace[run]
    /\ \A i \in DOMAIN stream.pipe :
         stream.pipe[i] + Len(stream.pipe) + 1 = stream.next + i
    /\ Len(stream.pipe) < stream.next
    /\ \A n \in Positive : n + Len(stream.pipe) < stream.next => Covered(n)

\* The cursors and the buffer are within the trace, and without holes.
Kept ==
  /\ run = None => accepted = 0 /\ streamed = 0 /\ buffer = {}
  /\ run # None => accepted <= trace[run] /\ streamed <= trace[run]
  /\ \A b \in buffer : b <= streamed /\ b # 0
  /\ \A n \in Positive : n <= streamed => Covered(n)

Displayed ==
  shown # None =>
    /\ run # None /\ shown.run = run /\ shown.seq = accepted
    /\ shown.stopped => Settled(run) /\ shown.seq = trace[run]

Mounted == effect # None => effect.gen <= gen

IInv == TypeOK /\ Served /\ Asked /\ Piped /\ Kept /\ Displayed /\ Mounted

-----------------------------------------------------------------------------
\* A bounded set of numbers has a highest one.
LEMMA HighestIs ==
  ASSUME NEW S, S \subseteq Nat, NEW k \in Nat, \A s \in S : s <= k
  PROVE  Highest(S) \in S \cup {0} /\ \A s \in S \cup {0} : s <= Highest(S)
<1> DEFINE T == {k - s : s \in S \cup {0}}
           R == OpToRel(<, Nat)
<1>1. T \subseteq Nat /\ T # {}
  OBVIOUS
<1>2. IsWellFoundedOn(R, Nat)
  BY NatLessThanWellFounded
<1>3. \E m \in T : \A n \in T : ~ (<<n, m>> \in R)
  <2> HIDE DEF T, R
  <2> QED BY <1>1, <1>2, WFMin
<1>4. PICK m \in T : \A n \in T : ~ (<<n, m>> \in R)
  BY <1>3
<1>5. \A n \in T : ~(n < m)
  <2>1. \A n \in T : n < m => <<n, m>> \in R
    BY <1>1, Zenon DEF OpToRel
  <2> QED BY <1>4, <2>1
<1>6. PICK h \in S \cup {0} : m = k - h
  OBVIOUS
<1>7. \A s \in S \cup {0} : h >= s
  BY <1>5, <1>6
<1>8. \E x \in S \cup {0} : \A y \in S \cup {0} : x >= y
  BY <1>7
<1>9. /\ Max(S \cup {0}) \in S \cup {0}
      /\ \A y \in S \cup {0} : Max(S \cup {0}) >= y
  BY <1>8, Zenon DEF Max
<1> QED BY <1>9 DEF Highest

\* Both cursors, and where the next subscription begins.
LEMMA CursorIs ==
  ASSUME TypeOK
  PROVE  Cursor \in {0, accepted, streamed} /\ accepted <= Cursor /\ streamed <= Cursor
<1>1. accepted \in Nat /\ streamed \in Nat
  BY DEF TypeOK
<1>2. CASE accepted <= streamed
  <2>1. \A s \in {accepted, streamed} : s <= streamed
    BY <1>1, <1>2
  <2> QED BY <1>1, <2>1, HighestIs DEF Cursor
<1>3. CASE streamed <= accepted
  <2>1. \A s \in {accepted, streamed} : s <= accepted
    BY <1>1, <1>3
  <2> QED BY <1>1, <2>1, HighestIs DEF Cursor
<1> QED BY <1>1, <1>2, <1>3

\* The initial states satisfy the invariant.
LEMMA InitInv == Init => IInv
<1> SUFFICES ASSUME Init PROVE IInv
  OBVIOUS
<1> USE ConstantsAssumption DEF ConstantsAssumption
<1>1. TypeOK
  <2>1. /\ trace \in [Runs -> 1..MaxTrace] /\ stopped \in [Runs -> BOOLEAN]
        /\ busy \in [Runs -> {"no", "node", "last"}] /\ driving \in [Runs -> BOOLEAN]
    BY DEF Init
  <2>2. /\ pauses \in 0..MaxPauses /\ gen \in 0..MaxOpens /\ failures \in 0..MaxFailures
        /\ accepted \in Nat /\ streamed \in Nat /\ timer \in BOOLEAN
    <3>1. \A m \in Nat : 0 \in 0..m
      OBVIOUS
    <3>2. /\ pauses = 0 /\ gen = 0 /\ failures = 0 /\ accepted = 0 /\ streamed = 0 /\ timer = FALSE
      BY Zenon DEF Init
    <3>3. MaxPauses \in Nat /\ MaxFailures \in Nat /\ MaxOpens \in Nat
      OBVIOUS
    <3> HIDE DEF ConstantsAssumption
    <3> QED BY <3>1, <3>2, <3>3
  <2>3. /\ stream = None /\ run = None /\ shown = None /\ effect = None
        /\ buffer = {} /\ replies = {} /\ queue = <<>>
    BY DEF Init
  <2>4. queue \in Seq({"start", "event", "error"})
    BY <2>3
  <2> QED BY <2>1, <2>2, <2>3, <2>4 DEF TypeOK
<1>2. Served /\ Asked
  BY DEF Init, Served, Asked
<1>3. Piped /\ Kept /\ Displayed /\ Mounted
  BY DEF Init, Piped, Kept, Displayed, Mounted, Connected, Positive, Covered
<1> QED BY <1>1, <1>2, <1>3 DEF IInv

-----------------------------------------------------------------------------
(* The service.                                                            *)

\* What the driver of a run does to the service: runs grow until they settle.
LEMMA DriverServes ==
  ASSUME TypeOK, Served, NEW r \in Runs, Driver(r)
  PROVE  /\ trace' \in [Runs -> 1..MaxTrace] /\ stopped' \in [Runs -> BOOLEAN]
         /\ busy' \in [Runs -> {"no", "node", "last"}] /\ driving' \in [Runs -> BOOLEAN]
         /\ pauses' \in 0..MaxPauses /\ Served'
         /\ \A q \in Runs : trace'[q] >= trace[q]
         /\ \A q \in Runs : Settled(q) => Settled(q)' /\ trace'[q] = trace[q]
<1> USE ConstantsAssumption DEF ConstantsAssumption
<1>0. /\ trace \in [Runs -> 1..MaxTrace] /\ stopped \in [Runs -> BOOLEAN]
      /\ busy \in [Runs -> {"no", "node", "last"}] /\ driving \in [Runs -> BOOLEAN]
      /\ pauses \in 0..MaxPauses
  BY DEF TypeOK
<1>1. CASE Emit(r)
  <2>1. /\ trace' \in [Runs -> 1..MaxTrace] /\ UNCHANGED <<stopped, driving, pauses>>
        /\ busy' \in [Runs -> {"no", "node", "last"}]
    BY <1>0, <1>1 DEF Emit
  <2>2. Served'
    BY <1>0, <1>1 DEF Emit, Served
  <2>3. \A q \in Runs : trace'[q] >= trace[q] /\ (Settled(q) => q # r)
    BY <1>0, <1>1 DEF Emit, Settled, Active
  <2> QED BY <1>0, <1>1, <2>1, <2>2, <2>3 DEF Emit, Settled
<1>2. CASE LeaveNode(r)
  BY <1>0, <1>2 DEF LeaveNode, Served, Settled
<1>3. CASE EmitLast(r)
  <2>1. trace[r] < MaxTrace
    BY <1>3 DEF EmitLast, Served
  <2>2. /\ trace' \in [Runs -> 1..MaxTrace] /\ UNCHANGED <<stopped, driving, pauses>>
        /\ busy' \in [Runs -> {"no", "node", "last"}]
    BY <1>0, <1>3, <2>1 DEF EmitLast
  <2>3. Served'
    BY <1>0, <1>3 DEF EmitLast, Served
  <2>4. \A q \in Runs : trace'[q] >= trace[q] /\ (Settled(q) => q # r)
    BY <1>0, <1>3 DEF EmitLast, Settled
  <2> QED BY <1>0, <1>3, <2>2, <2>3, <2>4 DEF EmitLast, Settled
<1>4. CASE Finish(r)
  BY <1>0, <1>4 DEF Finish, Served, Settled, Active
<1>5. CASE Pause(r)
  BY <1>0, <1>5 DEF Pause, Served, Settled
<1>6. CASE Drive(r)
  BY <1>0, <1>6 DEF Drive, Served, Settled
<1> QED BY <1>1, <1>2, <1>3, <1>4, <1>5, <1>6 DEF Driver, Ends

\* The client notices nothing of it.
LEMMA DriverKeeps ==
  ASSUME IInv, NEW r \in Runs, Driver(r)
  PROVE  IInv'
<1>0. TypeOK /\ Served /\ Asked /\ Piped /\ Kept /\ Displayed /\ Mounted
  BY DEF IInv
<1>1. UNCHANGED <<stream, session, shown, cursors, effect, timer, queue, replies, failures>>
  BY DEF Driver
<1>2. /\ trace' \in [Runs -> 1..MaxTrace] /\ stopped' \in [Runs -> BOOLEAN]
      /\ busy' \in [Runs -> {"no", "node", "last"}] /\ driving' \in [Runs -> BOOLEAN]
      /\ pauses' \in 0..MaxPauses /\ Served'
      /\ \A q \in Runs : trace'[q] >= trace[q]
      /\ \A q \in Runs : Settled(q) => Settled(q)' /\ trace'[q] = trace[q]
  BY <1>0, DriverServes
<1>3. TypeOK'
  BY <1>0, <1>1, <1>2 DEF TypeOK, session, cursors
<1>4. run \in Runs \cup {None} /\ accepted \in Nat /\ streamed \in Nat
      /\ \A q \in Runs : trace[q] \in Nat /\ trace'[q] \in Nat
  <2>1. run \in Runs \cup {None} /\ accepted \in Nat /\ streamed \in Nat
    BY <1>0 DEF TypeOK
  <2>2. trace \in [Runs -> 1..MaxTrace]
    BY <1>0 DEF TypeOK
  <2> QED BY <1>2, <2>1, <2>2
<1>5. Asked'
  <2>1. \A p \in replies : p.run \in Runs /\ p.seq \in Nat
    BY <1>0 DEF TypeOK
  <2>2. \A p \in replies : /\ p.seq <= trace'[p.run]
                           /\ p.stopped => Settled(p.run)' /\ p.seq = trace'[p.run]
    BY <1>0, <1>2, <1>4, <2>1 DEF Asked
  <2> QED BY <1>0, <1>1, <2>2 DEF Asked, session
<1>6. Piped'
  <2>1. Connected => stream \in Streams
    BY <1>0 DEF TypeOK, Connected
  <2>2. Connected => stream.next \in Nat /\ stream.seen \in Nat
    BY <2>1 DEF Streams
  <2>3. Connected => stream.next <= trace'[run] + 1 /\ stream.seen <= trace'[run]
    BY <1>0, <1>2, <1>4, <2>2 DEF Piped
  <2> QED BY <1>0, <1>1, <2>3 DEF Piped, Connected, Current, Covered, session, cursors
<1>7. Kept'
  BY <1>0, <1>1, <1>2, <1>4 DEF Kept, Covered, session, cursors
<1>8. Displayed' /\ Mounted'
  BY <1>0, <1>1, <1>2, <1>4 DEF Displayed, Mounted, session, cursors
<1> QED BY <1>2, <1>3, <1>5, <1>6, <1>7, <1>8 DEF IInv

-----------------------------------------------------------------------------
(* The user and the stream.                                                *)

\* What the variables of the client are, each by itself.
LEMMA Types ==
  ASSUME IInv
  PROVE  /\ run \in Runs \cup {None} /\ gen \in 0..MaxOpens /\ failures \in 0..MaxFailures
         /\ accepted \in Nat /\ streamed \in Nat /\ buffer \subseteq Nat /\ timer \in BOOLEAN
         /\ stream \in Streams \cup {None} /\ shown \in Snapshots \cup {None}
         /\ effect \in [run : Runs, gen : 0..MaxOpens] \cup {None}
         /\ queue \in Seq({"start", "event", "error"})
         /\ \A q \in Runs : trace[q] \in Nat /\ trace[q] > 0
<1>1. trace \in [Runs -> 1..MaxTrace]
  BY DEF IInv, TypeOK
<1> QED BY <1>1, ConstantsAssumption DEF IInv, TypeOK, ConstantsAssumption

\* A run is opened: the generation is new, and nothing of the old one remains.
LEMMA OpenKeeps ==
  ASSUME IInv, NEW r \in Runs, Open(r)
  PROVE  IInv'
<1>0. TypeOK /\ Served /\ Asked /\ Piped /\ Kept /\ Displayed /\ Mounted
  BY DEF IInv
<1>1. /\ run' = r /\ r # None /\ stream' = None /\ shown' = None /\ queue' = <<"start">> /\ timer' = FALSE
      /\ accepted' = 0 /\ streamed' = 0 /\ buffer' = {} /\ UNCHANGED <<server, effect, replies, failures>>
  BY ConstantsAssumption DEF Open, ConstantsAssumption
<1>2. gen \in Nat /\ gen' = gen + 1 /\ gen' \in 0..MaxOpens
  BY <1>0, ConstantsAssumption DEF Open, TypeOK, ConstantsAssumption
<1>3. TypeOK'
  <2>1. queue' \in Seq({"start", "event", "error"})
    BY <1>1
  <2> QED BY <1>0, <1>1, <1>2, <2>1 DEF TypeOK, server
<1>4. Served'
  BY <1>0, <1>1 DEF Served, server
<1>5. Asked'
  <2>1. \A p \in replies : p.gen \in Nat /\ p.gen <= gen /\ p.gen < gen'
    BY <1>0, <1>2 DEF Asked, TypeOK
  <2>2. \A p \in replies : p.gen # gen' /\ p.gen <= gen'
    BY <1>2, <2>1
  <2> QED BY <1>0, <1>1, <2>2 DEF Asked, Settled, server
<1>6. Piped' /\ Displayed'
  BY <1>1 DEF Piped, Connected, Displayed
<1>7. Kept'
  <2>1. trace[r] \in Nat
    BY Types
  <2> QED BY <1>1, <2>1 DEF Kept, Covered, Positive, server
<1>8. Mounted'
  BY <1>0, <1>1, <1>2 DEF Mounted, TypeOK
<1> QED BY <1>3, <1>4, <1>5, <1>6, <1>7, <1>8 DEF IInv

\* The display is left: nothing is followed.
LEMMA ResetKeeps ==
  ASSUME IInv, Reset
  PROVE  IInv'
<1>0. TypeOK /\ Served /\ Asked /\ Piped /\ Kept /\ Displayed /\ Mounted
  BY DEF IInv
<1>1. /\ run' = None /\ stream' = None /\ shown' = None /\ queue' = <<>> /\ timer' = FALSE /\ effect' = None
      /\ accepted' = 0 /\ streamed' = 0 /\ buffer' = {} /\ UNCHANGED <<server, replies, failures>>
  BY DEF Reset
<1>2. gen \in Nat /\ gen' = gen + 1 /\ gen' \in 0..MaxOpens
  BY <1>0, ConstantsAssumption DEF Reset, TypeOK, ConstantsAssumption
<1>3. TypeOK'
  <2>1. queue' \in Seq({"start", "event", "error"})
    BY <1>1
  <2> QED BY <1>0, <1>1, <1>2, <2>1 DEF TypeOK, server
<1>4. Served'
  BY <1>0, <1>1 DEF Served, server
<1>5. Asked'
  <2>1. \A p \in replies : p.gen \in Nat /\ p.gen <= gen /\ p.gen < gen'
    BY <1>0, <1>2 DEF Asked, TypeOK
  <2>2. \A p \in replies : p.gen # gen' /\ p.gen <= gen'
    BY <1>2, <2>1
  <2> QED BY <1>0, <1>1, <2>2 DEF Asked, Settled, server
<1>6. Piped' /\ Displayed' /\ Mounted'
  BY <1>1 DEF Piped, Connected, Displayed, Mounted
<1>7. Kept'
  BY <1>1 DEF Kept, Covered, Positive
<1> QED BY <1>3, <1>4, <1>5, <1>6, <1>7 DEF IInv

\* An action that touches only the stream has to keep only what is said of it.
LEMMA StreamOnly ==
  ASSUME IInv, Elsewhere, stream' \in Streams \cup {None}, Piped'
  PROVE  IInv'
<1>0. TypeOK /\ Served /\ Asked /\ Piped /\ Kept /\ Displayed /\ Mounted
  BY DEF IInv
<1>1. TypeOK'
  BY <1>0 DEF Elsewhere, TypeOK, server, session, cursors
<1>2. Served' /\ Asked'
  BY <1>0 DEF Elsewhere, Served, Asked, Settled, server, session, cursors
<1>3. Kept' /\ Displayed' /\ Mounted'
  BY <1>0 DEF Elsewhere, Kept, Displayed, Mounted, Covered, Settled, server, session, cursors
<1> QED BY <1>1, <1>2, <1>3 DEF IInv

\* The stream sends each event after the other.
LEMMA StreamingKeeps ==
  ASSUME IInv, Streaming
  PROVE  IInv'
<1>0. Piped /\ Connected /\ Elsewhere /\ UNCHANGED <<server, session, cursors, effect>>
  BY DEF IInv, Streaming, Take, Send, Check, Running, Elsewhere, cursors, session, server
<1>1. /\ stream \in Streams /\ stream.run = run /\ run \in Runs /\ run # None
      /\ trace[run] \in Nat /\ stream.next \in Nat /\ stream.seen \in Nat /\ stream.pipe \in Seq(Nat)
  <2>1. stream \in Streams /\ run \in Runs
    BY <1>0, Types DEF Piped, Connected
  <2> QED BY <1>0, <2>1, Types DEF Streams, Piped
<1>2. UNCHANGED <<trace, run, gen, accepted, buffer, effect>> /\ Current' = Current
  BY <1>0 DEF Current, server, session, cursors
<1>3. CASE Take
  <2>1. stream' = [stream EXCEPT !.seen = trace[run], !.at = "send"]
    BY <1>1, <1>3 DEF Take
  <2>2. stream' \in Streams
    BY <1>1, <2>1 DEF Streams
  <2>3. /\ stream'.run = stream.run /\ stream'.next = stream.next /\ stream'.pipe = stream.pipe
        /\ stream'.seen = trace[run]
    BY <1>1, <2>1 DEF Streams
  <2>4. Piped'
    BY <1>0, <1>1, <1>2, <2>3 DEF Piped, Covered
  <2> QED BY <1>0, <2>2, <2>4, StreamOnly
<1>4. CASE Check
  <2>1. PICK at \in {"asleep", "ended"} : stream' = [stream EXCEPT !.at = at]
    BY <1>4 DEF Check
  <2>2. stream' \in Streams
    BY <1>1, <2>1 DEF Streams
  <2>3. /\ stream'.run = stream.run /\ stream'.next = stream.next /\ stream'.pipe = stream.pipe
        /\ stream'.seen = stream.seen
    BY <1>1, <2>1 DEF Streams
  <2>4. Piped'
    BY <1>0, <1>1, <1>2, <2>3 DEF Piped, Covered
  <2> QED BY <1>0, <2>2, <2>4, StreamOnly
<1>5. CASE Send
  <2>1. stream' = [stream EXCEPT !.next = @ + 1, !.pipe = Append(@, stream.next)] /\ stream.next <= stream.seen
    BY <1>5 DEF Send
  <2>2. stream' \in Streams
    <3>1. stream.next + 1 \in Nat /\ Append(stream.pipe, stream.next) \in Seq(Nat)
      BY <1>1
    <3> QED BY <1>1, <2>1, <3>1 DEF Streams
  <2>3. /\ stream'.run = stream.run /\ stream'.next = stream.next + 1
        /\ stream'.pipe = Append(stream.pipe, stream.next) /\ stream'.seen = stream.seen
    BY <1>1, <2>1 DEF Streams
  <2>4. Len(stream'.pipe) = Len(stream.pipe) + 1 /\ Len(stream.pipe) \in Nat
        /\ DOMAIN stream'.pipe = 1..(Len(stream.pipe) + 1) /\ DOMAIN stream.pipe = 1..Len(stream.pipe)
    BY <1>1, <2>3
  <2>5. \A i \in DOMAIN stream'.pipe :
          stream'.pipe[i] = IF i <= Len(stream.pipe) THEN stream.pipe[i] ELSE stream.next
    BY <1>1, <2>3, <2>4
  <2>6. \A i \in DOMAIN stream'.pipe : stream'.pipe[i] + Len(stream'.pipe) + 1 = stream'.next + i
    <3>1. \A i \in 1..Len(stream.pipe) : stream.pipe[i] + Len(stream.pipe) + 1 = stream.next + i
      BY <1>0, <2>4 DEF Piped
    <3>2. \A i \in 1..Len(stream.pipe) : stream.pipe[i] \in Nat
      BY <1>1
    <3> SUFFICES ASSUME NEW i \in 1..(Len(stream.pipe) + 1)
                 PROVE  stream'.pipe[i] + Len(stream'.pipe) + 1 = stream'.next + i
      BY <2>4
    <3>3. CASE i <= Len(stream.pipe)
      <4>1. i \in 1..Len(stream.pipe) /\ stream'.pipe[i] = stream.pipe[i]
        BY <2>4, <2>5, <3>3
      <4>2. \A x, l, n, j \in Nat : x + l + 1 = n + j => x + (l + 1) + 1 = (n + 1) + j
        OBVIOUS
      <4>3. /\ stream.pipe[i] \in Nat /\ i \in Nat /\ stream.next \in Nat
            /\ stream.pipe[i] + Len(stream.pipe) + 1 = stream.next + i
        BY <1>1, <3>1, <3>2, <4>1
      <4>4. stream.pipe[i] + (Len(stream.pipe) + 1) + 1 = (stream.next + 1) + i
        BY <2>4, <4>2, <4>3
      <4> QED BY <2>3, <2>4, <4>1, <4>4, Zenon
    <3>4. CASE i = Len(stream.pipe) + 1
      <4>1. stream'.pipe[i] = stream.next
        BY <2>4, <2>5, <3>4
      <4> QED BY <1>1, <2>3, <2>4, <3>4, <4>1
    <3> QED BY <2>4, <3>3, <3>4
  <2>7. \A n \in Positive : n + Len(stream'.pipe) < stream'.next => Covered(n)
    BY <1>0, <1>1, <2>3, <2>4 DEF Piped, Positive
  <2>8. stream'.next \in Positive /\ stream'.next <= trace[run] + 1 /\ stream'.seen <= trace[run]
        /\ Len(stream'.pipe) < stream'.next
    BY <1>0, <1>1, <2>1, <2>3, <2>4 DEF Piped, Positive
  <2>9. Piped'
    BY <1>0, <1>1, <1>2, <2>3, <2>6, <2>7, <2>8 DEF Piped, Covered
  <2> QED BY <1>0, <2>2, <2>9, StreamOnly
<1> QED BY <1>3, <1>4, <1>5 DEF Streaming

-----------------------------------------------------------------------------
(* The client.                                                             *)

\* The request of the first reconciliation is answered: with the truth.
LEMMA AnswerKeeps ==
  ASSUME IInv, Answer
  PROVE  IInv'
<1>0. TypeOK /\ Served /\ Asked /\ Piped /\ Kept /\ Displayed /\ Mounted
  BY DEF IInv
<1> DEFINE a == [run |-> run, gen |-> gen, seq |-> trace[run], stopped |-> stopped[run]]
<1>1. /\ queue # <<>> /\ busy[run] = "no" /\ \A p \in replies : p.gen # gen
      /\ replies' = replies \cup {a}
      /\ UNCHANGED <<server, stream, session, shown, cursors, effect, timer, queue, failures>>
  BY DEF Answer
<1>2. run \in Runs /\ gen \in 0..MaxOpens /\ gen \in Nat /\ trace[run] \in Nat /\ stopped[run] \in BOOLEAN
  BY <1>0, <1>1, Types DEF Asked, TypeOK
<1>3. TypeOK'
  <2>1. a \in [run : Runs, gen : 0..MaxOpens, seq : Nat, stopped : BOOLEAN]
    BY <1>2
  <2> QED BY <1>0, <1>1, <2>1 DEF TypeOK, server, session, cursors
<1>4. Asked'
  <2>1. a.seq = trace[a.run] /\ a.gen = gen /\ a.run = run /\ (a.stopped => Settled(a.run))
    BY <1>1, <1>2 DEF Settled
  <2>2. \A p \in replies : p # a /\ p.gen # gen
    BY <1>1
  <2>3. \A p \in replies' : p.gen = gen => p = a
    BY <1>1, <2>2
  <2>4. \A p \in replies' :
          /\ p.seq <= trace[p.run] /\ p.gen <= gen
          /\ p.stopped => Settled(p.run) /\ p.seq = trace[p.run]
          /\ p.gen = gen => p.run = run /\ queue # <<>>
    BY <1>0, <1>1, <1>2, <2>1, <2>2 DEF Asked
  <2> QED BY <1>0, <1>1, <2>3, <2>4 DEF Asked, Settled, server, session
<1>5. Served' /\ Piped' /\ Kept'
  BY <1>0, <1>1 DEF Served, Piped, Kept, Connected, Current, Covered, server, session, cursors
<1>6. Displayed' /\ Mounted'
  BY <1>0, <1>1 DEF Displayed, Mounted, Settled, server, session, cursors
<1> QED BY <1>3, <1>4, <1>5, <1>6 DEF IInv

\* A request fails: the reconciliation is over, and no reply is on its way.
LEMMA FailRequestKeeps ==
  ASSUME IInv, FailRequest
  PROVE  IInv'
<1>0. TypeOK /\ Served /\ Asked /\ Piped /\ Kept /\ Displayed /\ Mounted
  BY DEF IInv
<1>1. /\ queue # <<>> /\ \A p \in replies : p.gen # gen
      /\ queue' = Tail(queue) /\ timer' = (timer \/ Head(queue) = "error")
      /\ failures < MaxFailures /\ failures' = failures + 1
      /\ UNCHANGED <<server, stream, session, shown, cursors, effect, replies>>
  BY DEF FailRequest
<1>2. TypeOK'
  <2>1. queue' \in Seq({"start", "event", "error"}) /\ timer' \in BOOLEAN
    BY <1>1, Types
  <2>2. failures' \in 0..MaxFailures
    BY <1>1, Types, ConstantsAssumption DEF ConstantsAssumption
  <2> QED BY <1>0, <1>1, <2>1, <2>2 DEF TypeOK, server, session, cursors
<1>3. Asked'
  BY <1>0, <1>1 DEF Asked, Settled, server, session
<1>4. Served' /\ Piped' /\ Kept'
  BY <1>0, <1>1 DEF Served, Piped, Kept, Connected, Current, Covered, server, session, cursors
<1>5. Displayed' /\ Mounted'
  BY <1>0, <1>1 DEF Displayed, Mounted, Settled, server, session, cursors
<1> QED BY <1>2, <1>3, <1>4, <1>5 DEF IInv

\* The stream is gone, and its error asks for a reconciliation.
LEMMA DisconnectKeeps ==
  ASSUME IInv, Connected, Disconnect, failures' \in 0..MaxFailures
  PROVE  IInv'
<1>0. TypeOK /\ Served /\ Asked /\ Piped /\ Kept /\ Displayed /\ Mounted
  BY DEF IInv
<1>1. /\ stream' = None /\ queue' = Append(queue, "error") /\ run # None
      /\ UNCHANGED <<server, session, shown, cursors, effect, timer, replies>>
  BY <1>0 DEF Disconnect, Piped
<1>2. TypeOK'
  <2>1. queue' \in Seq({"start", "event", "error"})
    BY <1>1, Types
  <2> QED BY <1>0, <1>1, <2>1 DEF TypeOK, server, session, cursors
<1>3. Asked'
  <2>1. queue' # <<>>
    BY <1>1, Types
  <2> QED BY <1>0, <1>1, <2>1 DEF Asked, Settled, server, session
<1>4. Served' /\ Kept'
  BY <1>0, <1>1 DEF Served, Kept, Covered, server, session, cursors
<1>5. Piped'
  BY <1>1 DEF Piped, Connected
<1>6. Displayed' /\ Mounted'
  BY <1>0, <1>1 DEF Displayed, Mounted, Settled, server, session, cursors
<1> QED BY <1>2, <1>3, <1>4, <1>5, <1>6 DEF IInv

\* A new subscription begins behind what is covered.
LEMMA SubscribedIs ==
  ASSUME NEW r \in Runs, NEW after \in Nat
  PROVE  /\ Opened(r, after) \in Streams
         /\ Opened(r, after).run = r /\ Opened(r, after).next = after + 1
         /\ Opened(r, after).seen = 0 /\ Opened(r, after).pipe = <<>>
<1>1. <<>> \in Seq(Nat) /\ after + 1 \in Nat
  OBVIOUS
<1> QED BY <1>1 DEF Opened, Streams

\* The reconnect goes on from the cursor, up to which all is covered.
LEMMA ReconnectKeeps ==
  ASSUME IInv, Reconnect
  PROVE  IInv'
<1>0. TypeOK /\ Served /\ Asked /\ Piped /\ Kept /\ Displayed /\ Mounted
  BY DEF IInv
<1>1. timer' = FALSE /\ UNCHANGED <<server, session, shown, cursors, effect, queue, replies, failures>>
  BY DEF Reconnect
<1>2. stream' \in Streams \cup {None} /\ Piped'
  <2>1. CASE Current /\ shown # None /\ ~shown.stopped
    <3>1. stream' = Opened(run, Cursor) /\ run # None /\ run \in Runs
      BY <1>0, <2>1, Types DEF Reconnect, Subscribe, Displayed
    <3>2. Cursor \in Nat /\ Cursor <= trace[run] /\ trace[run] \in Nat
      BY <1>0, <3>1, Types, CursorIs DEF Kept
    <3>3. \A n \in Positive : n <= Cursor => Covered(n)
      BY <1>0, Types, CursorIs DEF Kept, Covered, Positive
    <3>4. /\ stream' \in Streams /\ stream'.run = run /\ stream'.next = Cursor + 1
          /\ stream'.seen = 0 /\ stream'.pipe = <<>>
      BY <3>1, <3>2, SubscribedIs
    <3>5. Len(stream'.pipe) = 0 /\ DOMAIN stream'.pipe = {}
      BY <3>4
    <3>6. /\ stream'.next \in Positive /\ stream'.next <= trace[run] + 1 /\ stream'.seen <= trace[run]
          /\ Len(stream'.pipe) < stream'.next
          /\ \A n \in Positive : n + Len(stream'.pipe) < stream'.next => Covered(n)
      BY <3>2, <3>3, <3>4, <3>5 DEF Positive
    <3>7. UNCHANGED <<trace, run, gen, accepted, buffer, effect>>
      BY <1>1 DEF server, session, cursors
    <3> QED BY <2>1, <3>1, <3>4, <3>5, <3>6, <3>7 DEF Piped, Current, Covered
  <2>2. CASE ~(Current /\ shown # None /\ ~shown.stopped)
    BY <1>0, <1>1, <2>2, Types DEF Reconnect, Piped, Connected, Current, Covered, server, session, cursors
  <2> QED BY <2>1, <2>2
<1>3. TypeOK'
  BY <1>0, <1>1, <1>2 DEF TypeOK, server, session, cursors
<1>4. Served' /\ Asked' /\ Kept'
  BY <1>0, <1>1 DEF Served, Asked, Kept, Covered, Settled, server, session, cursors
<1>5. Displayed' /\ Mounted'
  BY <1>0, <1>1 DEF Displayed, Mounted, Settled, server, session, cursors
<1> QED BY <1>2, <1>3, <1>4, <1>5 DEF IInv

\* An event is covered once it has left the pipe, if it was not before.
LEMMA ReceiveKeeps ==
  ASSUME IInv, Receive
  PROVE  IInv'
<1>0. TypeOK /\ Served /\ Asked /\ Piped /\ Kept /\ Displayed /\ Mounted
  BY DEF IInv
<1> DEFINE event == Head(stream.pipe)
           len == Len(stream.pipe)
<1>1. /\ Connected /\ stream.pipe # <<>> /\ stream' = [stream EXCEPT !.pipe = Tail(@)]
      /\ UNCHANGED <<server, session, shown, effect, timer, replies, failures>>
  BY DEF Receive
<1>2. /\ stream \in Streams /\ stream.run = run /\ run \in Runs /\ run # None /\ Current
      /\ trace[run] \in Nat /\ stream.next \in Nat /\ stream.seen \in Nat /\ stream.pipe \in Seq(Nat)
  <2>1. stream \in Streams /\ run \in Runs
    BY <1>0, <1>1, Types DEF Piped, Connected
  <2> QED BY <1>0, <1>1, <2>1, Types DEF Streams, Piped
<1>3. /\ len \in Nat /\ len > 0 /\ event \in Nat /\ event = stream.pipe[1]
      /\ Tail(stream.pipe) \in Seq(Nat) /\ Len(Tail(stream.pipe)) = len - 1
      /\ \A i \in 1..(len - 1) : Tail(stream.pipe)[i] = stream.pipe[i + 1]
  BY <1>1, <1>2
<1>4. event + len = stream.next /\ event \in Positive /\ event <= trace[run]
  <2>1. 1 \in DOMAIN stream.pipe
    BY <1>2, <1>3
  <2>2. event + len + 1 = stream.next + 1 /\ len < stream.next /\ stream.next <= trace[run] + 1
    BY <1>0, <1>1, <1>3, <2>1 DEF Piped
  <2>3. len \in Nat /\ len > 0 /\ event \in Nat /\ stream.next \in Nat /\ trace[run] \in Nat
    BY <1>2, <1>3
  <2> HIDE DEF len, event
  <2> QED BY <2>2, <2>3 DEF Positive
<1>5. /\ stream' \in Streams /\ stream'.run = run /\ stream'.next = stream.next
      /\ stream'.seen = stream.seen /\ stream'.pipe = Tail(stream.pipe)
  <2> HIDE DEF len, event
  <2> QED BY <1>1, <1>2, <1>3 DEF Streams
<1>6. \A n \in Positive : n < event => Covered(n)
  <2>1. \A n \in Positive : n + len < stream.next => Covered(n)
    BY <1>0, <1>1 DEF Piped
  <2> QED BY <1>3, <1>4, <2>1 DEF Positive
\* What the handler makes of the event, whether it ignores it or not.
<1>7. /\ accepted' = accepted /\ buffer' \subseteq Nat /\ buffer \subseteq buffer'
      /\ streamed' \in Nat /\ streamed' <= trace[run]
      /\ queue' \in Seq({"start", "event", "error"}) /\ (queue # <<>> => queue' # <<>>)
      /\ event <= accepted \/ event \in buffer'
      /\ \A b \in buffer' : b <= streamed' /\ b # 0
      /\ \A n \in Positive : n <= streamed' => n <= streamed \/ n <= event
  <2>0. /\ buffer \subseteq Nat /\ streamed \in Nat /\ queue \in Seq({"start", "event", "error"})
        /\ accepted \in Nat /\ streamed <= trace[run] /\ \A b \in buffer : b <= streamed /\ b # 0
    BY <1>0, <1>2, Types DEF Kept
  <2>1. CASE event <= accepted \/ event \in buffer
    <3>1. UNCHANGED <<cursors, queue>>
      BY <2>1 DEF Receive
    <3> QED BY <2>0, <2>1, <3>1 DEF cursors
  <2>2. CASE ~(event <= accepted \/ event \in buffer)
    <3>1. /\ buffer' = buffer \cup {event} /\ streamed' = Highest({streamed, event})
          /\ queue' = Append(queue, "event") /\ UNCHANGED accepted
      BY <1>2, <2>2 DEF Receive
    <3>2. streamed' \in {0, streamed, event} /\ streamed <= streamed' /\ event <= streamed'
      <4>1. CASE streamed <= event
        <5>1. \A s \in {streamed, event} : s <= event
          BY <1>3, <2>0, <4>1
        <5> QED BY <1>3, <2>0, <3>1, <5>1, HighestIs
      <4>2. CASE event <= streamed
        <5>1. \A s \in {streamed, event} : s <= streamed
          BY <1>3, <2>0, <4>2
        <5> QED BY <1>3, <2>0, <3>1, <5>1, HighestIs
      <4> QED BY <1>3, <2>0, <4>1, <4>2
    <3>3. queue' \in Seq({"start", "event", "error"}) /\ queue' # <<>>
      BY <2>0, <3>1
    <3>4. \A b \in buffer' : b \in Nat /\ b <= streamed' /\ b # 0
      BY <1>3, <1>4, <2>0, <3>1, <3>2 DEF Positive
    <3> HIDE DEF event
    <3>5. streamed' \in Nat /\ streamed' <= trace[run]
      BY <1>2, <1>3, <1>4, <2>0, <3>2
    <3>6. \A n \in Positive : n <= streamed' => n <= streamed \/ n <= event
      BY <3>2 DEF Positive
    <3>7. buffer \subseteq buffer' /\ event \in buffer' /\ buffer' \subseteq Nat
      BY <1>3, <2>0, <3>1
    <3> QED BY <3>1, <3>3, <3>4, <3>5, <3>6, <3>7
  <2> QED BY <2>1, <2>2
<1>8. \A n \in Positive : Covered(n) \/ n = event => Covered(n)'
  BY <1>7 DEF Covered
<1> HIDE DEF event
<1>9. UNCHANGED <<trace, stopped, busy, driving, pauses, run, gen, shown, effect, timer, replies, failures>>
  BY <1>1 DEF server, session
<1>10. TypeOK'
  BY <1>0, <1>5, <1>7, <1>9 DEF TypeOK
<1>11. Served' /\ Asked'
  BY <1>0, <1>2, <1>7, <1>9 DEF Served, Asked, Settled
<1>12. Piped'
  <2>1. len - 1 \in Nat /\ DOMAIN stream.pipe = 1..len /\ DOMAIN stream'.pipe = 1..(len - 1)
        /\ Len(stream'.pipe) = len - 1
    BY <1>2, <1>3, <1>5
  <2>2. \A i \in 1..len : stream.pipe[i] \in Nat /\ stream.pipe[i] + len + 1 = stream.next + i
    <3>1. \A i \in 1..len : stream.pipe[i] + len + 1 = stream.next + i
      BY <1>0, <1>1, <2>1 DEF Piped
    <3>2. \A i \in 1..len : stream.pipe[i] \in Nat
      BY <1>2
    <3> QED BY <3>1, <3>2
  <2> HIDE DEF len
  <2>3. \A i \in 1..(len - 1) : stream'.pipe[i] + (len - 1) + 1 = stream.next + i
    <3> SUFFICES ASSUME NEW i \in 1..(len - 1)
                 PROVE  stream'.pipe[i] + (len - 1) + 1 = stream.next + i
      OBVIOUS
    <3>1. i + 1 \in 1..len
      BY <1>3
    <3>2. stream'.pipe[i] \in Nat /\ stream'.pipe[i] + len + 1 = stream.next + (i + 1)
      BY <1>3, <1>5, <2>2, <3>1
    <3>3. \A x, l, n, j \in Nat : x + l + 1 = n + (j + 1) => x + (l - 1) + 1 = n + j
      OBVIOUS
    <3>4. len \in Nat /\ stream.next \in Nat /\ i \in Nat
      BY <1>2, <1>3
    <3> QED BY <3>2, <3>3, <3>4
  <2>4. \A n \in Positive : n + (len - 1) < stream.next => Covered(n)'
    <3> SUFFICES ASSUME NEW n \in Positive, n + (len - 1) < stream.next PROVE Covered(n)'
      OBVIOUS
    <3>1. n < event \/ n = event
      BY <1>3, <1>4 DEF Positive
    <3> QED BY <1>6, <1>8, <3>1
  <2>5. len - 1 < stream.next /\ stream.next \in Positive /\ stream.next <= trace[run] + 1 /\ stream.seen <= trace[run]
    BY <1>0, <1>1, <1>3, <1>4 DEF Piped, Positive
  <2>6. Current' /\ run' = run /\ run # None /\ trace' = trace
    BY <1>2, <1>9 DEF Current
  <2> QED BY <1>5, <2>1, <2>3, <2>4, <2>5, <2>6 DEF Piped
<1>13. Kept'
  <2>1. \A n \in Positive : n <= streamed' => Covered(n)'
    <3> SUFFICES ASSUME NEW n \in Positive, n <= streamed' PROVE Covered(n)'
      OBVIOUS
    <3>1. n <= streamed \/ n < event \/ n = event
      BY <1>4, <1>7 DEF Positive
    <3> QED BY <1>0, <1>6, <1>8, <3>1 DEF Kept
  <2>2. accepted' <= trace'[run]
    BY <1>0, <1>2, <1>7, <1>9 DEF Kept
  <2> QED BY <1>2, <1>7, <1>9, <2>1, <2>2 DEF Kept
<1>14. Displayed' /\ Mounted'
  BY <1>0, <1>7, <1>9 DEF Displayed, Mounted, Settled
<1> QED BY <1>10, <1>11, <1>12, <1>13, <1>14 DEF IInv

\* What is kept of the buffer lies behind the new snapshot, and is within what
\* was streamed.
LEMMA AcceptCovers ==
  ASSUME IInv, NEW p \in replies, p.gen = gen, p.seq >= accepted, Accept(p)
  PROVE  /\ accepted' = p.seq /\ buffer' \subseteq buffer /\ streamed' \in Nat
         /\ streamed' <= trace[run]
         /\ \A b \in buffer' : b <= streamed' /\ b # 0
         /\ \A n \in Positive : n <= p.seq \/ Covered(n) => n <= p.seq \/ n \in buffer'
         /\ \A n \in Positive : n <= streamed' => n <= p.seq \/ Covered(n)
<1>1. /\ accepted' = p.seq /\ buffer' = {n \in buffer : n > p.seq}
      /\ streamed' = Highest({p.seq} \cup buffer')
  BY DEF Accept
<1>2. /\ p.run = run /\ run \in Runs /\ run # None /\ p.seq \in Nat /\ p.seq <= trace[run]
  <2>1. p.run \in Runs /\ p.seq \in Nat
    BY DEF IInv, TypeOK
  <2> QED BY <2>1, ConstantsAssumption DEF IInv, Asked, ConstantsAssumption
<1>3. /\ accepted \in Nat /\ streamed \in Nat /\ buffer \subseteq Nat /\ trace[run] \in Nat
      /\ streamed <= trace[run]
      /\ \A b \in buffer : b <= streamed /\ b # 0
      /\ \A n \in Positive : n <= streamed => Covered(n)
  BY <1>2, Types DEF IInv, Kept
<1>4. streamed' \in ({p.seq} \cup buffer') \cup {0} /\ \A s \in {p.seq} \cup buffer' : s <= streamed'
  <2>1. {p.seq} \cup buffer' \subseteq Nat
    BY <1>1, <1>2, <1>3
  <2>2. \A s \in {p.seq} \cup buffer' : s <= trace[run]
    <3>1. \A b \in buffer' : b \in Nat /\ b <= streamed
      BY <1>1, <1>3
    <3> QED BY <1>2, <1>3, <3>1
  <2> QED BY <1>1, <1>3, <2>1, <2>2, HighestIs, Zenon
<1>5. streamed' \in Nat /\ (streamed' = p.seq \/ streamed' <= streamed)
  <2>1. CASE streamed' \in {p.seq, 0}
    BY <1>2, <1>3, <2>1
  <2>2. CASE streamed' \in buffer'
    BY <1>1, <1>3, <2>2
  <2> QED BY <1>4, <2>1, <2>2
<1>6. streamed' <= trace[run]
  BY <1>2, <1>3, <1>5
<1>7. \A b \in buffer' : b <= streamed' /\ b # 0
  BY <1>1, <1>3, <1>4
<1>8. \A n \in Positive : n <= p.seq \/ Covered(n) => n <= p.seq \/ n \in buffer'
  BY <1>1, <1>2, <1>3 DEF Covered, Positive
<1>9. \A n \in Positive : n <= streamed' => n <= p.seq \/ Covered(n)
  BY <1>2, <1>3, <1>5 DEF Positive
<1> QED BY <1>1, <1>5, <1>6, <1>7, <1>8, <1>9

\* A reply to an older generation changes nothing but the replies.
LEMMA LateArriveKeeps ==
  ASSUME IInv, NEW p \in replies, Arrive(p), p.gen # gen
  PROVE  IInv'
<1>0. TypeOK /\ Served /\ Asked /\ Piped /\ Kept /\ Displayed /\ Mounted
  BY DEF IInv
<1>1. /\ replies' \subseteq replies
      /\ UNCHANGED <<server, session, failures, stream, shown, cursors, effect, timer, queue>>
  BY DEF Arrive
<1>2. TypeOK'
  BY <1>0, <1>1 DEF TypeOK, server, session, cursors
<1>3. Served' /\ Asked'
  BY <1>0, <1>1 DEF Served, Asked, Settled, server, session
<1>4. Piped' /\ Kept'
  BY <1>0, <1>1 DEF Piped, Kept, Connected, Current, Covered, server, session, cursors
<1>5. Displayed' /\ Mounted'
  BY <1>0, <1>1 DEF Displayed, Mounted, Settled, server, session, cursors
<1> QED BY <1>2, <1>3, <1>4, <1>5 DEF IInv

\* What every reply to the present generation does: it ends the first
\* reconciliation, and no other reply is on its way.
LEMMA ArriveAsked ==
  ASSUME IInv, NEW p \in replies, Arrive(p), p.gen = gen
  PROVE  /\ p.run = run /\ run \in Runs /\ run # None /\ gen \in 0..MaxOpens
         /\ p.seq \in Nat /\ p.stopped \in BOOLEAN
         /\ UNCHANGED <<server, session, failures>> /\ timer' \in BOOLEAN
         /\ queue' \in Seq({"start", "event", "error"})
         /\ replies' \subseteq replies /\ Served' /\ Asked'
<1>1. /\ p.run = run /\ run \in Runs /\ run # None /\ queue # <<>> /\ gen \in 0..MaxOpens
      /\ p.seq \in Nat /\ p.stopped \in BOOLEAN
  <2>1. p.run \in Runs /\ p.seq \in Nat /\ p.stopped \in BOOLEAN
    BY DEF IInv, TypeOK
  <2> QED BY <2>1, Types, ConstantsAssumption DEF IInv, Asked, ConstantsAssumption
<1>2. /\ replies' = replies \ {p} /\ UNCHANGED <<server, session, failures>> /\ queue' = Tail(queue)
  BY DEF Arrive
<1>3. timer' \in BOOLEAN
  BY DEF Arrive
<1>4. queue' \in Seq({"start", "event", "error"})
  BY <1>1, <1>2, Types
<1>5. Served'
  BY <1>2 DEF IInv, Served, server
<1>6. \A q \in replies' : q \in replies /\ q.gen # gen
  BY <1>2 DEF IInv, Asked
<1>7. Asked'
  BY <1>1, <1>2, <1>6 DEF IInv, Asked, Settled, server, session
<1> QED BY <1>1, <1>2, <1>3, <1>4, <1>5, <1>7

\* A snapshot that is not behind the display is accepted; the subscription it
\* mounts begins behind it.
LEMMA FreshArriveKeeps ==
  ASSUME IInv, NEW p \in replies, Arrive(p), p.gen = gen, p.seq >= accepted
  PROVE  IInv'
<1>0. TypeOK /\ Served /\ Asked /\ Piped /\ Kept /\ Displayed /\ Mounted
  BY DEF IInv
<1>1. /\ p.run = run /\ run \in Runs /\ run # None /\ gen \in 0..MaxOpens
      /\ p.seq \in Nat /\ p.stopped \in BOOLEAN
      /\ UNCHANGED <<server, session, failures>> /\ timer' \in BOOLEAN
      /\ queue' \in Seq({"start", "event", "error"})
      /\ replies' \subseteq replies /\ Served' /\ Asked'
  BY ArriveAsked
<1>2. /\ Accept(p) /\ shown' = [run |-> p.run, seq |-> p.seq, stopped |-> p.stopped]
      /\ effect' = effect \/ effect' = [run |-> run, gen |-> gen]
      /\ \/ stream' = None
         \/ effect' = [run |-> run, gen |-> gen] /\ stream' = Opened(run, p.seq)
         \/ stream' = stream
  BY DEF Arrive, Accept, Subscribe
<1>3. /\ accepted' = p.seq /\ buffer' \subseteq buffer /\ streamed' \in Nat
      /\ streamed' <= trace[run]
      /\ \A b \in buffer' : b <= streamed' /\ b # 0
      /\ \A n \in Positive : n <= p.seq \/ Covered(n) => n <= p.seq \/ n \in buffer'
      /\ \A n \in Positive : n <= streamed' => n <= p.seq \/ Covered(n)
  BY <1>2, AcceptCovers
<1>4. UNCHANGED <<trace, stopped, busy, driving, pauses, run, gen, failures>>
  BY <1>1 DEF server, session
<1>5. p.seq <= trace[run] /\ trace[run] \in Nat /\ (p.stopped => Settled(run) /\ p.seq = trace[run])
  BY <1>0, <1>1, Types DEF Asked
<1>6. [run |-> run, gen |-> gen] # None /\ gen \in Nat
  <2>1. gen \in Nat /\ [run |-> run, gen |-> gen] \in [run : Runs, gen : Nat]
    BY <1>1, ConstantsAssumption DEF ConstantsAssumption
  <2> QED BY <2>1, ConstantsAssumption DEF ConstantsAssumption
<1>7. effect' \in [run : Runs, gen : 0..MaxOpens] \cup {None} /\ (Current => Current') /\ Mounted'
  BY <1>0, <1>1, <1>2, <1>4, <1>6, Types DEF Current, Mounted
<1>8. \A n \in Positive : n <= p.seq \/ Covered(n) => Covered(n)'
  BY <1>3 DEF Covered
<1>9. Piped' /\ stream' \in Streams \cup {None}
  <2>1. CASE stream' = None
    BY <2>1 DEF Piped, Connected
  <2>2. CASE effect' = [run |-> run, gen |-> gen] /\ stream' = Opened(run, p.seq)
    <3>1. /\ stream' \in Streams /\ stream'.run = run /\ stream'.next = p.seq + 1
          /\ stream'.seen = 0 /\ stream'.pipe = <<>>
      BY <1>1, <2>2, SubscribedIs
    <3>2. Len(stream'.pipe) = 0 /\ DOMAIN stream'.pipe = {}
      BY <3>1
    <3>3. /\ stream'.next \in Positive /\ stream'.next <= trace[run] + 1 /\ stream'.seen <= trace[run]
          /\ Len(stream'.pipe) < stream'.next
      BY <1>1, <1>5, <3>1, <3>2 DEF Positive
    <3>4. \A n \in Positive : n + Len(stream'.pipe) < stream'.next => n <= p.seq
      BY <1>1, <3>1, <3>2 DEF Positive
    <3>5. Current'
      BY <1>4, <1>6, <2>2 DEF Current
    <3> QED BY <1>1, <1>4, <1>8, <3>1, <3>2, <3>3, <3>4, <3>5 DEF Piped
  <2>3. CASE stream' = stream
    <3>1. Piped'
      BY <1>0, <1>4, <1>7, <1>8, <2>3 DEF Piped, Connected
    <3> QED BY <2>3, <3>1, Types
  <2> QED BY <1>2, <2>1, <2>2, <2>3
<1>10. TypeOK'
  <2>1. shown' \in Snapshots
    BY <1>1, <1>2 DEF Snapshots
  <2> QED BY <1>0, <1>1, <1>3, <1>4, <1>7, <1>9, <2>1 DEF TypeOK
<1>11. Kept'
  BY <1>1, <1>3, <1>4, <1>5, <1>8 DEF Kept
<1>12. Displayed'
  BY <1>1, <1>2, <1>3, <1>4, <1>5 DEF Displayed, Settled
<1> QED BY <1>1, <1>7, <1>9, <1>10, <1>11, <1>12 DEF IInv

\* A snapshot behind the display ends its reconciliation and is dropped.
LEMMA StaleArriveKeeps ==
  ASSUME IInv, NEW p \in replies, Arrive(p), p.gen = gen, ~(p.seq >= accepted)
  PROVE  IInv'
<1>0. TypeOK /\ Served /\ Asked /\ Piped /\ Kept /\ Displayed /\ Mounted
  BY DEF IInv
<1>1. /\ UNCHANGED <<server, session, failures>> /\ timer' \in BOOLEAN
      /\ queue' \in Seq({"start", "event", "error"})
      /\ replies' \subseteq replies /\ Served' /\ Asked'
  BY ArriveAsked
<1>2. UNCHANGED <<shown, cursors, effect, stream>>
  BY DEF Arrive
<1>3. TypeOK'
  BY <1>0, <1>1, <1>2 DEF TypeOK, server, session, cursors
<1>4. Piped' /\ Kept'
  BY <1>0, <1>1, <1>2 DEF Piped, Kept, Connected, Current, Covered, server, session, cursors
<1>5. Displayed' /\ Mounted'
  BY <1>0, <1>1, <1>2 DEF Displayed, Mounted, Settled, server, session, cursors
<1> QED BY <1>1, <1>3, <1>4, <1>5 DEF IInv

-----------------------------------------------------------------------------
(* The results.                                                            *)

\* Every step keeps the invariant.
LEMMA NextInv == IInv /\ [Next]_vars => IInv'
<1> SUFFICES ASSUME IInv, [Next]_vars PROVE IInv'
  OBVIOUS
<1>1. CASE \E r \in Runs : Driver(r) \/ Open(r)
  BY <1>1, DriverKeeps, OpenKeeps
<1>2. CASE Reset
  BY <1>2, ResetKeeps
<1>3. CASE Streaming
  BY <1>3, StreamingKeeps
<1>4. CASE Client
  <2>1. CASE \E p \in replies : Arrive(p)
    BY <2>1, LateArriveKeeps, FreshArriveKeeps, StaleArriveKeeps
  <2>2. CASE StreamEnds
    <3>1. failures' \in 0..MaxFailures
      BY <2>2, Types DEF StreamEnds
    <3> QED BY <2>2, <3>1, DisconnectKeeps DEF StreamEnds
  <2> QED BY <1>4, <2>1, <2>2, AnswerKeeps, ReceiveKeeps, ReconnectKeeps DEF Client
<1>5. CASE FailRequest
  BY <1>5, FailRequestKeeps
<1>6. CASE StreamBreaks
  <2>1. failures' \in 0..MaxFailures
    BY <1>6, Types, ConstantsAssumption DEF StreamBreaks, ConstantsAssumption
  <2> QED BY <1>6, <2>1, DisconnectKeeps DEF StreamBreaks
<1>7. CASE UNCHANGED vars
  <2>0. TypeOK /\ Served /\ Asked /\ Piped /\ Kept /\ Displayed /\ Mounted
    BY DEF IInv
  <2>1. TypeOK'
    BY <1>7, <2>0 DEF vars, TypeOK, server, session, cursors
  <2>2. Served' /\ Asked'
    BY <1>7, <2>0 DEF vars, Served, Asked, Settled, server, session
  <2>3. Piped' /\ Kept'
    BY <1>7, <2>0 DEF vars, Piped, Kept, Connected, Current, Covered, server, session, cursors
  <2>4. Displayed' /\ Mounted'
    BY <1>7, <2>0 DEF vars, Displayed, Mounted, Settled, server, session, cursors
  <2> QED BY <2>1, <2>2, <2>3, <2>4 DEF IInv
<1> QED BY <1>1, <1>2, <1>3, <1>4, <1>5, <1>6, <1>7 DEF Next

\* The variables of the view keep their types (live-session.ts, live-state.ts).
THEOREM TypeCorrect == Spec => []TypeOK
<1>1. IInv => TypeOK
  BY DEF IInv
<1> QED BY InitInv, NextInv, <1>1, PTL DEF Spec

\* The display is that of the open run and of a state it really had, and every
\* number up to the cursor of the next subscription was displayed or waits in
\* the buffer (acceptSnapshot, onEvent).
THEOREM Shown_IsTrue == Spec => []ShownIsTrue
<1>1. IInv => ShownIsOpen
  BY Types DEF IInv, Kept, Displayed, ShownIsOpen
<1>2. IInv => NothingIsSkipped
  <2> SUFFICES ASSUME IInv, NEW n \in 1..Cursor PROVE n <= accepted \/ n \in buffer
    BY DEF NothingIsSkipped
  <2>1. Cursor \in {0, accepted, streamed} /\ accepted \in Nat /\ streamed \in Nat
    BY CursorIs, Types DEF IInv
  <2>2. n \in Positive /\ (n <= accepted \/ n <= streamed)
    BY <2>1 DEF Positive
  <2> QED BY <2>2 DEF IInv, Kept, Covered
<1>3. IInv => ShownIsTrue
  BY <1>1, <1>2 DEF ShownIsTrue
<1> QED BY InitInv, NextInv, <1>3, PTL DEF Spec

\* A client that has been shown the end of a run has been shown all of it: the
\* node that ended it holds the run boundary until its last event.
THEOREM LastView_IsWhole == Spec => []LastViewIsWhole
<1>1. IInv => LastViewIsWhole
  BY DEF IInv, Displayed, LastViewIsWhole
<1> QED BY InitInv, NextInv, <1>1, PTL DEF Spec
=============================================================================
