------------------------------ MODULE LiveView ------------------------------
(***************************************************************************)
(* A browser that follows a run: snapshots fetched one after the other and *)
(* a stream of events, on a network that fails, from a service whose       *)
(* driver goes on meanwhile, and a user who opens another run.             *)
(*                                                                         *)
(* An event is its sequence number.  A snapshot is taken inside the run    *)
(* boundary, which a node of the driver holds from its first event to its  *)
(* last; the stream reads events on the driver's own thread, where the     *)
(* boundary is reentrant, and sees them at once.                           *)
(***************************************************************************)
EXTENDS Naturals, Sequences, FiniteSetsExt

CONSTANTS Runs, None, MaxTrace, MaxPauses, MaxFailures, MaxOpens
\* A run has a first event and a last one.
ASSUME ConstantsAssumption ==
  /\ None \notin Runs /\ None \notin [run : Runs, gen : Nat] /\ MaxTrace \in Nat \ {0, 1}
  /\ MaxPauses \in Nat /\ MaxFailures \in Nat /\ MaxOpens \in Nat

VARIABLES
  trace, stopped, busy,  \* of each run: events, status, a node is at work
  driving, pauses,       \* its drive loop is there
  stream,   \* of the event source that is open: its run, cursor, list, position, and the pipe
  gen,      \* generationRef
  run,      \* runIdRef
  shown,    \* the snapshot on display
  accepted, streamed, buffer,  \* sequence numbers
  effect,   \* run and generation of the mounted subscription
  timer,    \* a reconnect is scheduled
  queue,    \* reconciliations that wait, by what asked for them
  replies,  \* snapshots on their way
  failures

server == <<trace, stopped, busy, driving, pauses>>
cursors == <<accepted, streamed, buffer>>
session == <<gen, run>>
vars == <<server, stream, session, shown, cursors, effect, timer, queue, replies, failures>>

Active(r) == driving[r] /\ ~stopped[r]
Connected == stream # None
Subscribed(r) == effect # None /\ effect.run = r
Current == effect # None /\ effect.gen = gen
Highest(S) == Max(S \cup {0})
-----------------------------------------------------------------------------
(* The driver.                                                             *)

\* Mutant: the last event is not provided for.
EmitToTheEnd(r) ==
  /\ Active(r) /\ trace[r] < MaxTrace
  /\ trace' = [trace EXCEPT ![r] = @ + 1] /\ busy' = [busy EXCEPT ![r] = "node"]
  /\ UNCHANGED <<stopped, driving, pauses>>
Emit(r) ==
  /\ Active(r) /\ trace[r] + 1 < MaxTrace
  /\ trace' = [trace EXCEPT ![r] = @ + 1] /\ busy' = [busy EXCEPT ![r] = "node"]
  /\ UNCHANGED <<stopped, driving, pauses>>
LeaveNode(r) ==
  /\ busy[r] = "node" /\ busy' = [busy EXCEPT ![r] = "no"]
  /\ UNCHANGED <<trace, stopped, driving, pauses>>
\* The last node saves the terminal status, then emits, and does not give its
\* thread away in between; other threads run.
Finish(r) ==
  /\ Active(r) /\ stopped' = [stopped EXCEPT ![r] = TRUE]
  /\ busy' = [busy EXCEPT ![r] = "last"] /\ UNCHANGED <<trace, driving, pauses>>
EmitLast(r) ==
  /\ busy[r] = "last" /\ busy' = [busy EXCEPT ![r] = "no"]
  /\ trace' = [trace EXCEPT ![r] = @ + 1] /\ UNCHANGED <<stopped, driving, pauses>>
\* The drive loop is gone after a restart, until the run is resumed; a restart
\* after the terminal save loses the last event.
Pause(r) ==
  /\ driving[r] /\ pauses < MaxPauses /\ pauses' = pauses + 1
  /\ driving' = [driving EXCEPT ![r] = FALSE] /\ busy' = [busy EXCEPT ![r] = "no"]
  /\ UNCHANGED <<trace, stopped>>
Drive(r) ==
  /\ ~driving[r] /\ ~stopped[r] /\ driving' = [driving EXCEPT ![r] = TRUE]
  /\ UNCHANGED <<trace, stopped, busy, pauses>>
Ends(r) == LeaveNode(r) \/ EmitLast(r)
Driver(r) ==
  /\ Emit(r) \/ Ends(r) \/ Finish(r) \/ Pause(r) \/ Drive(r)
  /\ UNCHANGED <<stream, session, shown, cursors, effect, timer, queue, replies, failures>>
-----------------------------------------------------------------------------
(* stream_events.                                                          *)

\* The generator runs on the driver's thread.
Running(at) == Connected /\ stream.at \in at /\ busy[stream.run] # "last"
Elsewhere == UNCHANGED <<server, session, shown, cursors, effect, timer, queue, replies, failures>>
Opened(r, after) == [run |-> r, next |-> after + 1, seen |-> 0, at |-> "take", pipe |-> <<>>]
\* The list is taken; its events are sent one by one, others run in between.
Take ==
  /\ Running({"take", "asleep"})
  /\ stream' = [stream EXCEPT !.seen = trace[stream.run], !.at = "send"] /\ Elsewhere
\* Mutant: the list is forgotten, and the cursor set behind the trace.
SendLatest ==
  /\ Running({"send"}) /\ stream.next <= stream.seen
  /\ stream' = [stream EXCEPT !.next = trace[stream.run] + 1, !.pipe = Append(@, trace[stream.run])]
  /\ Elsewhere
Send ==
  /\ Running({"send"}) /\ stream.next <= stream.seen
  /\ stream' = [stream EXCEPT !.next = @ + 1, !.pipe = Append(@, stream.next)] /\ Elsewhere
\* The run is inactive by now: what was emitted after the list was taken is
\* not sent any more.
Check ==
  /\ Running({"send"}) /\ stream.next > stream.seen
  /\ stream' = [stream EXCEPT !.at = IF Active(stream.run) THEN "asleep" ELSE "ended"]
  /\ Elsewhere
Streaming == Take \/ Send \/ Check
-----------------------------------------------------------------------------
(* The client.                                                             *)

\* initializeRun, for a run other than the one that is subscribed to.
Open(r) ==
  /\ gen < MaxOpens /\ ~Subscribed(r)
  /\ gen' = gen + 1 /\ run' = r /\ stream' = None /\ timer' = FALSE /\ shown' = None
  /\ accepted' = 0 /\ streamed' = 0 /\ buffer' = {} /\ queue' = <<"start">>
  /\ UNCHANGED <<server, effect, replies, failures>>
Reset ==
  /\ run # None /\ gen < MaxOpens
  /\ gen' = gen + 1 /\ run' = None /\ stream' = None /\ timer' = FALSE /\ shown' = None
  /\ accepted' = 0 /\ streamed' = 0 /\ buffer' = {} /\ queue' = <<>> /\ effect' = None
  /\ UNCHANGED <<server, replies, failures>>

\* The request of the first reconciliation is answered; they are serialized.
\* Mutant: the snapshot does not wait for the node to end.
AnswerOpenly ==
  /\ queue # <<>> /\ \A p \in replies : p.gen # gen
  /\ replies' = replies \cup {[run |-> run, gen |-> gen, seq |-> trace[run], stopped |-> stopped[run]]}
  /\ UNCHANGED <<server, stream, session, shown, cursors, effect, timer, queue, failures>>
Answer ==
  /\ queue # <<>> /\ busy[run] = "no" /\ \A p \in replies : p.gen # gen
  /\ replies' = replies \cup {[run |-> run, gen |-> gen, seq |-> trace[run], stopped |-> stopped[run]]}
  /\ UNCHANGED <<server, stream, session, shown, cursors, effect, timer, queue, failures>>

Cursor == Highest({accepted, streamed})
Subscribe(after) == stream' = Opened(run, after)
\* acceptSnapshot: the buffer keeps what is newer than the snapshot.
Accept(p) ==
  /\ shown' = [run |-> p.run, seq |-> p.seq, stopped |-> p.stopped]
  /\ accepted' = p.seq /\ buffer' = {n \in buffer : n > p.seq}
  /\ streamed' = Highest({p.seq} \cup buffer')
\* A snapshot of an older generation is dropped.  A first snapshot mounts the
\* subscription, a terminal one closes it, one that was asked for after an
\* error schedules the reconnect.
Arrive(p) ==
  /\ p \in replies /\ replies' = replies \ {p} /\ UNCHANGED <<server, session, failures>>
  /\ IF p.gen # gen THEN UNCHANGED <<stream, shown, cursors, effect, timer, queue>>
     ELSE LET fresh == p.seq >= accepted
              asked == Head(queue)
              over == IF fresh THEN p.stopped ELSE shown # None /\ shown.stopped
          IN
          /\ queue' = Tail(queue)
          /\ IF fresh THEN Accept(p) ELSE UNCHANGED <<shown, cursors>>
          /\ effect' = IF asked = "start" /\ fresh THEN [run |-> run, gen |-> gen] ELSE effect
          /\ timer' = (~over /\ (timer \/ asked = "error"))
          /\ IF fresh /\ p.stopped THEN stream' = None
             ELSE IF asked = "start" /\ fresh THEN Subscribe(p.seq) ELSE UNCHANGED stream
\* Mutant: a failed request is not followed by another try.
FailRequestForGood ==
  /\ queue # <<>> /\ \A p \in replies : p.gen # gen
  /\ failures < MaxFailures /\ failures' = failures + 1
  /\ queue' = Tail(queue) /\ UNCHANGED timer
  /\ UNCHANGED <<server, stream, session, shown, cursors, effect, replies>>
\* The request fails.  After an error of the stream there is another try, a
\* run whose first snapshot fails is not subscribed to.
FailRequest ==
  /\ queue # <<>> /\ \A p \in replies : p.gen # gen
  /\ failures < MaxFailures /\ failures' = failures + 1
  /\ queue' = Tail(queue) /\ timer' = (timer \/ Head(queue) = "error")
  /\ UNCHANGED <<server, stream, session, shown, cursors, effect, replies>>

\* onEvent: what the snapshots already cover is ignored.
Receive ==
  /\ Connected /\ stream.pipe # <<>> /\ stream' = [stream EXCEPT !.pipe = Tail(@)]
  /\ LET event == Head(stream.pipe) IN
     IF ~Current \/ event <= accepted \/ event \in buffer
     THEN UNCHANGED <<cursors, queue>>
     ELSE /\ buffer' = buffer \cup {event} /\ streamed' = Highest({streamed, event})
          /\ queue' = Append(queue, "event") /\ UNCHANGED accepted
  /\ UNCHANGED <<server, session, shown, effect, timer, replies, failures>>
\* onError, when the stream has ended and when it breaks: what is under way is lost.
Disconnect ==
  /\ stream' = None
  /\ queue' = IF Current THEN Append(queue, "error") ELSE queue
  /\ UNCHANGED <<server, session, shown, cursors, effect, timer, replies>>
StreamEnds == Connected /\ stream.at = "ended" /\ stream.pipe = <<>> /\ Disconnect /\ UNCHANGED failures
StreamBreaks ==
  Connected /\ failures < MaxFailures /\ failures' = failures + 1 /\ Disconnect
Reconnect ==
  /\ timer /\ timer' = FALSE
  /\ IF Current /\ shown # None /\ ~shown.stopped THEN Subscribe(Cursor) ELSE UNCHANGED stream
  /\ UNCHANGED <<server, session, shown, cursors, effect, queue, replies, failures>>

Client == Answer \/ (\E p \in replies : Arrive(p)) \/ Receive \/ StreamEnds \/ Reconnect

Init ==
  /\ trace = [r \in Runs |-> 1] /\ stopped = [r \in Runs |-> FALSE]
  /\ busy = [r \in Runs |-> "no"] /\ driving = [r \in Runs |-> TRUE] /\ pauses = 0
  /\ stream = None /\ gen = 0 /\ run = None /\ shown = None
  /\ accepted = 0 /\ streamed = 0 /\ buffer = {} /\ effect = None /\ timer = FALSE
  /\ queue = <<>> /\ replies = {} /\ failures = 0
Next ==
  \/ \E r \in Runs : Driver(r) \/ Open(r)
  \/ Reset \/ Streaming \/ Client \/ FailRequest \/ StreamBreaks
Spec == Init /\ [][Next]_vars
\* Requests are answered, the stream goes on, nodes end.  The run itself may
\* go on or pause for ever, and the user may do nothing.
Fairness ==
  /\ WF_vars(Streaming) /\ WF_vars(Client)
  /\ \A r \in Runs : WF_vars(Ends(r) /\ Driver(r))
FairSpec == Spec /\ Fairness
-----------------------------------------------------------------------------
(* Properties.                                                             *)

Snapshots == [run : Runs, seq : Nat, stopped : BOOLEAN]
Streams == [run : Runs, next : Nat, seen : Nat, at : {"take", "asleep", "send", "ended"}, pipe : Seq(Nat)]

\* Every variable has its type.
TypeOK ==
  /\ trace \in [Runs -> 1..MaxTrace] /\ stopped \in [Runs -> BOOLEAN] /\ busy \in [Runs -> {"no", "node", "last"}]
  /\ driving \in [Runs -> BOOLEAN] /\ pauses \in 0..MaxPauses
  /\ stream \in Streams \cup {None} /\ gen \in 0..MaxOpens /\ run \in Runs \cup {None}
  /\ shown \in Snapshots \cup {None} /\ accepted \in Nat /\ streamed \in Nat
  /\ buffer \subseteq Nat /\ effect \in [run : Runs, gen : 0..MaxOpens] \cup {None}
  /\ timer \in BOOLEAN /\ queue \in Seq({"start", "event", "error"})
  /\ replies \subseteq [run : Runs, gen : 0..MaxOpens, seq : Nat, stopped : BOOLEAN]
  /\ failures \in 0..MaxFailures

\* The display is of the run that is open, and it never falls behind itself.
ShownIsOpen == shown # None => shown.run = run /\ shown.seq = accepted /\ accepted <= trace[run]

\* The cursor of the next subscription never passes an event that the client
\* has neither seen nor been shown, whatever was lost on the way.
NothingIsSkipped == \A n \in 1..Cursor : n <= accepted \/ n \in buffer

\* The display shows the run that is open, whatever answers are late, and what
\* it has not shown yet is still on its way.
ShownIsTrue == ShownIsOpen /\ NothingIsSkipped

\* A client that stops following a run has been shown all of it.
LastViewIsWhole == shown # None /\ shown.stopped => shown.seq = trace[run]

\* Once a run that is followed has stopped, its client shows that, unless the
\* user turns away.
Follows(r) == Current /\ Subscribed(r)
Converges ==
  \A r \in Runs : Follows(r) /\ stopped[r] ~> (~Follows(r) \/ (shown # None /\ shown.stopped))
=============================================================================
