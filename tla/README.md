# A verification project for ExoSwarm

ExoSwarm vets exoplanet transit candidates with a bounded loop of language-model agents around
deterministic science tools. What has to be right is not the physics but the harness: which step
may run, what is charged, what is durable when the process dies, what a role is shown, and when a
run may publish a disposition. The modules here model that harness, TLC checks them on small
instances and TLAPS proves the safety properties for every instance.

## 1. Inventory

Paths are below `src/apps/api/src/exoswarm/` unless they say otherwise.

| Component | State it keeps | Operations | Hard behaviour | Module |
|---|---|---|---|---|
| Policy loop: `investigation/controller.py`, `agents/graph.py`, `agents/director.py` | `state.json` (status, step, executions, decisions, budgets), `trace.jsonl`, `evidence.jsonl`, `agent_decisions.jsonl` | one graph run per `advance`: recover, route, begin a cycle, mandatory tool, Skeptic, Critic, adaptive tool, evaluate, finalize | crash between two durable writes, deadline at any await, replanning, five budgets | `Investigation`, `Vetting` |
| Lifecycle table: `investigation/state.py` | none | `validate_status_transition` | nodes ask for changes without knowing each other | `Investigation!Allowed` |
| Stopping and hypotheses: `investigation/stopping.py`, `mandatory.py`, `hypotheses.py` | none | pure rules | precedence of codes, several reasons at once | `Investigation`, `AgentContext` |
| Inference harness: `controller._infer` and below, `agents/inference_provider.py` | call and retry counters, `inference.attempt` events, role records and checkpoints | attempt, retry, repair, fallback, abort; optional roles, two of them in parallel | budget reserve, retries, tasks nobody awaits, crash between record and checkpoint | `Inference` |
| Agent context: `agents/context.py`, `agents/role_context.py`, `agents/prompt_registry.py` and the validation in `controller.py` | none of its own; packets are rebuilt from ledger, state and role records | packet of a role, options, validation and admission of the answer | three pieces of code judge an action, a bound on bytes, briefs of older evidence | `AgentContext` |
| Run service: `investigation/runner.py` | records, tasks, leases, `.start-requests` files | create_and_start, start, resume, inspect, drive, stream, close | leases of several processes, idempotency, the ways a loop ends | `RunService`; stream in `LiveView` |
| Artifact store: `services/artifacts.py` | the run directory | atomic snapshot, JSONL append, lock files | several files that must agree | its writes are the steps of the other modules |
| State cache: `controller.get/create/_replace` | `_states`, `_events` | fill, replace | fill races with a save | `StateCache`; refresh by lock and reveal in `ResultLock` |
| Result lock and reveal: `security/result_lock.py`, `catalog_gate.py` | `result.json`, digest, `reveal.json`, lock state | lock, reveal, receipt, snapshot | several files, several callers, crash between them | `ResultLock`, `BlindProtocol` |
| Tool registry and isolation: `investigation/tool_registry.py`, `controller` staging | registry, staging directories | validate, run in a subprocess or thread, kill or abandon, promote, discard | a late writer, a repeated tool, a conflict with what is published | registry in `Investigation`, the rest in `ToolRun` |
| Science tools: `science/` | the candidate artifact | load, preprocess, BLS, odd/even, secondary, contamination, harmonic | preconditions and thresholds in sequence, a partial artifact | `Science` under `ToolRun` |
| API and SSE: `api/` | none | routes, event stream, snapshot | reader follows a finishing run | `LiveView`; each route in the module of what it calls |
| Mission control: `services/mission_control.py` | none | snapshot | reads several files beside their writers | as a reader in `LiveView`, `ResultLock`, `StateCache` |
| Web client: `src/apps/web/src/components/mission-control/live/` | snapshot, cursors, event buffer, subscription, generation | snapshot, event, error, reconnect, open, reset | events before, after or twice around a snapshot; late answers | `LiveView` |
| Evaluation harness: `src/evals/`, `evaluation/` | reports | offline scoring | none that changes a run | not modelled |

The parts meet like this. The browser starts a run through the API and follows it with snapshots
and a stream. The API calls the run service; the service holds a lease and drives
`controller.advance` until the run stops, and on a deadline or an exception closes the run with
`fail_run`. The controller reloads the durable artifacts at every node, asks the deterministic
Director for a route, builds a packet for each role, asks the model through the inference harness,
validates the answer against the packet, runs tools through the registry, publishes their
artifacts, and appends to the ledger before it saves the state. Lock and reveal are API calls on a
run that stopped in READY_TO_LOCK.

What makes each part correct: the policy loop never lets an adaptive tool in before the baseline
or without a review, never counts a measurement twice, charges once, and leaves a stopped run
alone. The inference harness never passes its limits, accounts for each call and records each answer
once. A required role sees the whole case, and what it was allowed to choose will run. Evidence stands on
a published artifact, and the verdict is the star's however often the work was interrupted. The run
service has one driver per run and answers a repeated start with the same run. The lock binds the
published bytes before the ground truth can be read. The client shows the run the server has.

## 2. Modules

`Investigation.tla` is the policy loop of one run. A behaviour interleaves the driver (one graph
run after another), the model and the tools (as nondeterministic answers), the run service's
deadline, the API's lock and reveal, and crashes with restarts.

*State.* `status`, `step`, `done`, `candidate`, `execs`, `toolCalls`, `adaptiveUsed`, `costLeft`,
`proposal`, `review`, `pendingFinal`, `disposition` are fields of
`InvestigationState`, replaced as one file by `_replace`. `ledger`, `recorded` and `trace` are
the three append-only files; the trace keeps only the three event types that
`_cycle_requires_begin` and `_has_pending_evaluation` read. `pc` is volatile: which durable write
or await the current advance is in front of. `crashes` is history: where each crash fell, if that was in
a gap between two writes that belong together (`Gaps`). No action reads more of it than its length.

*Granularity.* An action ends at a durable write or an await. Where the code performs two writes
in a row (`step_count` then `budget.updated`; ledger, state, `evidence.appended`; decision, role
record, status) the model has two or three actions, and a crash may fall between them. Writes that
nothing reads back (events that only report) are merged with their neighbour.

*Data.* A tool is its rank in the registry; parameters, identifiers and texts are dropped, since
an action is only compared by its signature, which is its name for tools without
parameters. A decision is the requested tool or `Stop`; a review is a verdict and a revised
request. An outcome is a status and an interpretation code. The mandatory test a tool completes is
the tool itself. `Goto` stands for the edges of the graph.

*Refused saves.* `SaveStatus` and `Prepare` consult the lifecycle table as `_replace` does: a
forbidden change raises (`pc = "raised"`), leaves the state alone, and the run service turns the
exception into FAILED (`ExceptionFails`).

`Vetting.tla` is what all of this is for, seen by somebody who asks only what is measured and
concluded: a tool is taken and its result recorded, one at a time and none twice, the baseline first
and in the order of the registry, nothing after a result that halts or decides the run, and a verdict
that answers for the codes of all results. It has no steps, roles, reviews, budgets, saves or crashes.
`Investigation` implements it: `Phase` folds the statuses into five, `InHand` is the tool of a PREPARED execution without
a record, `Measurements` is the ledger without action ids. A tool that is run again after a crash is,
in these terms, still the same one in hand.

`Inference.tla` opens the box that `Investigation` leaves closed: how a role gets its answer. The
graph visits its model nodes in order; a task per role makes attempts, each charged in `state.json`
before the client is awaited and traced after it, with strict retries, one repair and a fallback
for the required roles. Observer and Signal share the loop and the budgets. One event loop runs it
all, so a task that is `ready` keeps every other one waiting (`LoopIsFree`), and a crash may
fall between the decision, its record and its checkpoint. `calls`, `retries`, `attempts` count,
`records` and `checkpoints` hold `<<role, context>>`, where the context version stands for the
evidence that an answer was given for; what was decided is left out, except whether a tool may
run. An outcome of a call is a class of errors of the code (`invalid` is repaired, `transient` is
retried, `unaffordable` fails the decision's budget); `AnswerRaises` is an exception of no
known class, which leaves the gather while the sibling task goes on.

`AgentContext.tla` is what goes into a call and what may come out of it. The durable state is a
`ledger` of records (tool, status, code, bytes) and the context version of each specialist's latest
answer (`briefs`); everything else of a packet is computed as `assemble_context`,
`assemble_role_context` and the packet builders of the controller do: which evidence must be shown
(`Required`), which may be left out (`Shown`), the options with their costs (`Option`), the briefs,
the budget of bytes (`Assembled`). `SkepticVerdict`, `CriticVerdict` and `SpecialistAccepted` are
`_validate_inference_decision`, `Refused` the checks that `_execute_action` makes once more.
An answer is any combination of fields that were shown or were not, which includes stale versions,
unknown actions and evidence that does not exist. The run is as in `Investigation` with no crash,
because a packet is a function of what is durable.

`Science.tla` says what each tool answers as a function of a star: the checks of the tool in their
order, on measurements that stand for the light curve (`Stars`). `ToolRun.tla` is how the
controller runs such tools: a `worker` (subprocess or thread) that computes, finds or writes the staged
artifact of the search in two steps, sends its answer and leaves, or hangs; the controller that waits,
kills or abandons at the deadline, promotes, appends and saves; crashes, after which the prepared
tool is run again with the same action id, perhaps with other library versions
(`library`; they are written into the artifact, so its bytes differ). `staged` and `durable` are the
two places of the artifact; `ledger` keeps with each record the versions it was computed with.

`ResultLock.tla` is the end of a run: lock and reveal calls by API threads, the driver's
finalize node, snapshot readers and crashes, one file write per action. `inside` is the run
boundary (a lock per process), `holder` the authority lock (a file, shared by processes), `seen`
and `known` the cached state and event list of each process. A result is the time stamp in it,
so two writes of the result differ. `Serves` is the deployment the repository's README asks for
(`README.md:225`, one API process per runs directory), as far as the calls need it: another
process calls only on a run whose driver is done. `BlindProtocol.tla` is what all this
promises: a result is sealed once, only then the truth is looked up, for that result, and last
the comparison is published.

`RunService.tla` is the service around the loop, for several processes on one runs directory:
`create_and_start` with the lock of its process (`gate`), the lock file of its key (`hold`), the
start request and the run directory; `start` with the lease; the drive loop from its task to the
`finally` clause; `inspect` from a thread; crashes, which release what the system releases. A run is
`absent`, `active` or `stopped`; an advance makes some progress or none and may stop the run.
What happens between two awaits is one action, except where a thread could look or a crash could
fall (the run directory, then the start request). `close` cancels and forgets as a crash does
at an await, so `Crash` stands for both.

`StateCache.tla` is the cache that one process keeps of a run, under real parallelism: the driver
on its event loop, the API routes on worker threads. `get` is the up to four steps it has in the
code (look, read and assign the state, read the trace, assign the events), interleaved with
the saves and events of the driver. `Viewers` ask inside the run boundary (`snapshot`, `events`),
`Readers` without it, as `GET /investigations/{run_id}` does; the start of a drive loop asks
without it, its nodes within. A state is the number of saves it contains, a list of events its
length; a save and its assignment, and an append and its assignment, are one action. A crash empties
the cache, which is how a fill and a running driver come to meet. `stray` remembers that a reader, who has
no boundary to keep the driver out, put back a state or a list that was old by then, or that a node met
a cache into which a reader had put the state and not yet the events.

`LiveView.tla` is a browser, a network and the stream that joins them. On the server: nodes of a
driver that emit events while they hold the run boundary, the terminal save and the last event
behind it, pauses (a restart until the run is resumed), and `stream_events`, which takes the list of
events, sends them one by one, and looks again only if the run is still active. In the client: the
live hook with its generation, the snapshot on display, the cursors `accepted` and `streamed`, the
buffer, the mounted subscription, the reconnect timer and the queue of reconciliations, one of which
is under way at a time. An event is its sequence number, a snapshot its last event and whether the run had
stopped. Requests and the stream may fail, answers may come late, and the user may open another run
at any time.

The MC modules give constants values. `InvestigationProofs`, `InferenceProofs`,
`AgentContextProofs`, `ResultLockProofs`, `RunServiceProofs`, `StateCacheProofs`, `ToolRunProofs` and
`LiveViewProofs` hold the theorems. Operators whose comment begins with "Mutant" are deliberate
bugs of the definition that follows them. They are used by no specification; each breaks one
property when put in its place, which shows that the property depends on that code.

The modules compose by what they abstract of each other. `Inference` is what happens at one
await of `Investigation`; `AgentContext` is how `Inference` tells a valid answer from an invalid
one; `ToolRun` is what happens at the other await and how its result becomes the record that
`Investigation` appends; `RunService` is what calls `advance`; `StateCache` is where each node gets
its state from; `ResultLock` begins at `finalize`, and `LiveView` watches.

## 3. Runs

| Run | Instance | Distinct states | Shows |
|---|---|---|---|
| `policy` | 2 mandatory and 2 adaptive tools, 4 steps, one crash, fairness | 491,982 | ledger, executions, decisions and budgets across any crash, deadline and outcome; the graph implements `Vetting`; every step brings the run nearer to its end, and every run stops, or its process stays down |
| `claim_transition`, `claim_reselect` | the same with 5 steps | | findings 1 and 2 |
| `inference` | 12 calls, 1 retry, 2 calls per role, two cycles, fallback, two crashes | 67,665 | limits, traces and records of every role |
| `claim_writer` | 5 calls, one cycle, no crash | | finding 3 |
| `context` | 2 mandatory and 3 adaptive tools, 4 tool calls, small and large records | 638,707 | what Skeptic and Critic see, and that what they are offered is accepted and runs |
| `claim_context` | the same | | finding 4 |
| `tool_run` | 47 stars, both isolations, two crashes, one library upgrade, fairness | 52,466 | evidence, artifact, verdict, staging; every run ends |
| `lock` | three callers in two processes, two crashes | 23,205 | receipts, events and views; the blind protocol |
| `run_service` | 2 processes, 2 clients, one key, 2 targets, 2 runs, one crash | 227,744 | one loop per run, one run per key |
| `cache` | one viewer, two plain readers, 3 saves and events, two crashes | 784,629 | until a plain reader puts something old back: no update lost, events numbered, views current |
| `live_view` | 2 runs, 3 events, 2 openings, 2 failures, one pause, fairness | 160,234 | the display is true, skips nothing, and gets to the end |

*Policy.* Two mandatory tools (1 is `search_bls`), two adaptive tools of cost 1 and 2, 4 tool
calls, 2 experiments, 3 cost units, 1 revision, and eight outcomes that reach every branch of
`_after_result` and every disposition rule. With 4 steps the step budget, the tool budget and the cost
budget can each be what stops the run: the cost of both adaptive tools is
exactly the cost budget, so the first choice decides what remains affordable. Only tool 3 needs a
candidate, so the baseline can also be completed without one. Its two `claim_*` runs have 5 steps,
one for the step that is begun twice, and a second mandatory tool that reads the candidate file, as in the
production registry.

*Inference.* Two cycles are needed for an answer of an older context. With 12 calls every
role can use its limit and the run can still end for want of calls. Two crashes let a record lose
its checkpoint, and its repetition be interrupted in turn.

*Context.* Three adaptive tools and four calls leave a choice after the baseline and after each
experiment. With records of 1 and 3 bytes, a frame of 2 or 3, a ceiling of 10 and two recent records,
packets fit, fit only because records are left out, or do not fit. One revision is enough for a Critic
that has one and one that has none. Answers may cite nothing, everything or one record, shown or not,
and name the current version or the one before.

*Tool run.* The stars differ from a clean planet in one measurement, on both sides of its threshold,
or in any combination of the five that decide codes; some have too few transits, in all or of one
parity. Two crashes let the repetition of a tool be interrupted; two library versions
let it differ from what is published.

*Lock.* Two callers share a process with the driver, the third is alone, so that the boundary and the
authority lock both matter. Two crashes allow one during the repair of the other.

*Run service.* One key, asked for two targets by two clients, is enough for conflicts, repeats and
races; a second key would only meet the first in the lock of a process. Two advances let a loop
end by its budget after it went around. Processes, clients, targets and runs are interchangeable,
hence symmetric.

*State cache.* A cold cache needs one crash; the second lets a restart find another thread's fill half
done on both sides. Viewers keep each other out, so one is enough; two readers can meet
each other's fill. Saves and events are capped (`MaxSaves`) at enough for a stale value to be more
than one behind.

*Live view.* Three events let one be shown, one be buffered and one be under way. Two openings let an
answer and a stream of the first run meet the second; two failures let the repair of one be hit by
the other.

Deadlock checking is off: a stopped run, or a process that nobody restarts, really has no next
step.

*Fairness.* `policy` assumes weak fairness of `Driver`. While the process lives,
the event loop keeps executing the driver task, and every awaited model call and tool has a
deadline of its own, so each await returns. Nothing forces a crash, a restart, a deadline of the
run service, a lock or a reveal. Termination therefore follows from the budgets, not from the
wall clock. `tool_run` assumes weak fairness of `Controller`, which has the timeout of the tool and
the resume of a restarted service; a handler may hang for ever, and a run that nobody restarts
is not what the run asks about. `live_view` assumes that the stream's generator and the client go on
(a request is answered, an event is handled, a timer fires) and that a node that has begun
ends; a run may go on, or pause, for ever, and the user need do nothing. All other runs assume none.

## 4. Properties

Each is a conjunction of named parts where several say one thing together.

`Investigation`

- `LedgerIsSound` (`LedgerMatchesExecutions`, `NoIdenticalAction`, `RunningMeansPrepared`): ledger,
  executions and the tools they name agree whatever write a crash falls after; no measurement counts
  twice; the status tells a restarted process exactly whether work is open.
- `AdaptiveIsEarned` (`BaselineFirst`, `AdaptiveWasApproved`): an adaptive tool runs only behind the
  whole baseline, and is what this step's Skeptic and Critic left.
- `BudgetsConserved`: each budget is charged once per execution, also through recovery.
- `VetsAsPromised`: the graph implements `Vetting`. Its part about the verdict is also stated by itself,
  as `DispositionHonoursLedger`, which only the proofs use.
- `EveryStepCounts`: each step, crashes and recoveries included, lowers `Work`, a natural number made
  of the nodes ahead of the advance, the changes of status ahead of the run, and three times that for every
  step and tool call of the budget that is left. A replanning, a repeated tool and a recovery
  are paid for like anything else.
- `NodesFitTogether` (`FinalizeHasReason`, `OneToolPerStep`, `TransitionsLegal`, `RecordedUnlessCut`): no
  node leaves the run where the next one cannot go on, wherever it was interrupted and resumed. The last
  three each except the crashes that fell into one gap of a few writes: between a committed result and the
  event that ends its measurement (`EventGap`), between a Skeptic decision and WAITING_FOR_CRITIC
  (`StatusGap`), between a decision and its record (`RecordGap`). A crash in such a gap does break
  the conjunct (section 5: findings 2 and 1, and the policy loop); one in another gap, or anywhere else, does not.
- `HistoryStands` (`ClosedIsFinal`, `DecisionsAreKept`): a stopped run is frozen, and a restart
  replaces no accepted answer.
- `RunStops`: every run stops.

`Inference`

- `CallsAreTraced`: every charged call is awaited or traced, also with two roles in parallel, but for those
  that a crash, the deadline or an untyped exception cut off.
- `AnswersInOrder` (`AnsweredOnce`, `StableOrder`): an answer on record is never asked for again, and
  the records of one context are in role order, whoever answers first and wherever the run was restarted.
- `AttemptsBounded`: no inference outlives its limit, repair, fallback and retries.
- `QuietWhenClosed`: nobody charges a stopped run, unless an exception left a task behind.

`AgentContext`

- `PacketShowsTheCase`: while a required role is awaited its packet has every record that could decide
  the disposition, the sources of the candidate, the current version and budget, and no brief of
  older evidence.
- `MenuIsHonest` (`CompliantIsAccepted`, `AcceptedRuns`): an answer that takes all it says from its
  packet is accepted, and what was accepted is not refused when it is executed. The menu, the
  validation and the execution are three pieces of code with no common rule.

`ToolRun`

- `VerdictFollowsStar`: a closed run says of its star what the star's measurements deserve; neither
  interruption nor repetition changes it.
- `StagingIsCleared`: no artifact stays in staging, but that of a subprocess whose action failed.
- `EvidenceStands`: the record of a search is backed by a whole published artifact of the same
  versions from the step that writes it, and a closed run is left alone by late workers.
- `ToolsEnd`: every run ends, though its tools may never answer.

`ResultLock`

- `ReceiptsStand`: the digest a caller was given stays the digest of the published bytes.
- `TraceIsNumbered` (`EventsOnce`, `Contiguous`): the events of lock and reveal occur once, and the
  trace is numbered without gaps whichever process appends.
- `ViewsVerify`: a snapshot that shows a lock shows a digest that fits.
- `LockIsKept`: no step takes a lock back, the driver's late saves included.
- `Implements`: the files, locks and calls implement `BlindProtocol`.

`RunService`

- `LoopsAreKnown` (`OneDriver`, `LeaseIsDriven`, `ActiveIsDriven`): one loop per run, and neither its
  lease nor the record that says running outlives it.
- `SameKeySameRun`: whoever repeats a key, wherever and whenever, gets the same run or a conflict.
- `OrphansAreCrashes`: a run that no key leads to costs a crash.

`StateCache`, until `stray`: a reader outside the run boundary puts an old state or list back, or a node
meets a reader's fill half done. That is the race of section 5 itself, at the step that does the
harm; readers that fill a cold cache beside everybody else are within the properties.

- `NoLostUpdate`: each save contains the ones before it.
- `TraceIsServed` (`SequencedUnlessStray`, `EventsAreThere`): events are numbered in the order of the
  trace, and a node that emits finds the events of its run, though they are cached after its state.
- `ViewIsCurrent`: a snapshot is made from the durable state and trace.

`LiveView`

- `ShownIsTrue` (`ShownIsOpen`, `NothingIsSkipped`): the display is of the run that is open, never
  falls behind itself, and no subscription starts behind an event that was neither shown nor buffered.
- `LastViewIsWhole`: a client that stops following has been shown the whole run. The stream
  alone does not give that: what is emitted after its last list was taken is never sent, and only the
  snapshot on the end of the stream shows it.
- `Converges`: a run that is followed and has stopped is shown as stopped.

## 5. Findings

Each is a `claim_*` run that checks what a document, a comment or a docstring says and finds a
counterexample. Findings 1 and 2 need a crash inside a window of a few file operations.

1. *Illegal transition after restart* (`claim_transition`). The Skeptic decision is saved before
   WAITING_FOR_CRITIC. A crash between them resumes at the Critic, whose approval leads to a
   forbidden SELECTING_ADAPTIVE_EXPERIMENT -> RUNNING_TOOL and a FAILED run. `run_skeptic_node`
   has a repair for this state, but the route that would call it is never taken.
2. *Completed tool selected again* (`claim_reselect`). `evidence.appended` closes a step and is
   emitted after the state is saved. After a crash between them the step stays open: its approved
   proposal is executed again, refused as a repeated action, and the run fails.
3. *A second writer* (`claim_writer`). An untyped exception of one parallel role leaves the gather,
   and the run service closes the run; the sibling task is not cancelled and still charges calls and
   appends to the trace.
4. *Nothing yields to the ceiling* (`claim_context`). The packet's size field is bounded by the
   ceiling (`agents/context.py:216`), and the packet is validated with its measured size before
   `assemble_context` compares it. A packet that is too large raises there, so the code that leaves out
   hypotheses and optional records (`context.py:610`) never gets its turn, and the run fails. Packets
   are also built outside the `try` of `_run_optional_role`, so even an optional role does that.

Seen on the way, with no run of their own:

- *Policy loop.* The window of finding 2 after a mandatory result lets a second tool run in the step,
  uncharged. A decision is saved before its record is appended to `agent_decisions.jsonl`; after a crash
  between them nobody appends it and the tool runs (`docs/agent-harness.md:138`; `RecordedUnlessCut`
  without its condition). The advance budget of the drive loop (`runner.py:249`) counts the steps
  left, but a resumed evaluation or a recovery takes an advance without a step: at the step ceiling
  such a run ends FAILED with RUNNER_ADVANCE_BUDGET_EXHAUSTED instead of BUDGET_EXHAUSTED.
- *Inference.* The reserve of two calls for Skeptic and Critic (`controller.py:1223`) is looked at when
  an optional role starts, not at its later attempts, nor for two roles that start together, so it can
  be spent. A repaired call that fails transiently is retried as a second repair (`docs/inference.md:71`
  says one); a call that the run's deadline cancels leaves no `inference.attempt`
  (`docs/inference.md:30`); an untyped exception of an optional role ends the run
  (`docs/agent-runtime.md:166`).
- *Context.* The packets of Hunter and Director carry briefs of older contexts
  (`role_context.py:124`). Options are still offered when no tool call is left, and choosing one ends
  the run as exhausted. Failed executions never appear among the options as already executed, the
  alternatives that `harmonic_test` suggests are baseline tools and so never available, and no
  registered tool emits CLEAN_PLANET_LIKE, WEAK_NOISY or CONTAMINATION_LIKELY.
- *Tools.* What a killed or failing subprocess staged is not discarded (`docs/agent-harness.md:133`
  says it is). The staged file is not written atomically: after a crash in between, the
  repeated tool finds part of a file, raises, and the run fails; so does a library upgrade between
  publication and record. The artifact is written without NaN or infinity, so one periodogram trial
  that is not finite makes the search fail, and its branches for a search without finite trials
  (`bls.py:118`) never reach the ledger. The search ends at a third of the baseline, so the
  tests' own demand for two periods cannot fail.
- *Lock.* RESULT_LOCKED is saved before `result.locked` is appended; after a crash between them every
  later call finds the lock and emits nothing (`docs/data-and-blinding.md:104`).
- *Cache.* `GET /investigations/{run_id}` fills a cold cache without the run boundary, from a worker
  thread (`routes_investigations.py:103`, `controller.py:265`). A fill that read the trace before two events
  of the driver puts its list back after them, and the event after that gets a number below the last
  (`docs/api-and-events.md:161`: "monotonically increasing per run"); `SequencedUnlessStray` without its
  condition has that counterexample. The same fill can put an older state back
  (`docs/api-and-events.md:165`), and a node that finds its state without the events raises. This is
  what `stray` excludes.
- *Run service.* Two processes on one directory, which the repository's README excludes, can drive a
  terminal run again from a cached state, and one that lost the race for a lease says
  ACTIVE_IN_ANOTHER_PROCESS long after that process is done.
- *Client.* The hook's `resume` has no caller, and a run whose first snapshot fails is not subscribed
  to until the user tries again.

## 6. Proofs

All theorems hold for every value of the constants that satisfies the named assumptions of the
modules: values are distinct from the placeholders beside them, bounds are naturals, callers live
in processes, baseline and adaptive tools are disjoint, a star has finitely many transits.

**`InvestigationProofs`**: `Spec` implies the type invariant, `LedgerIsSound`,
`RunningMeansPrepared`, `AdaptiveIsEarned`, `HistoryStands` and `DispositionHonoursLedger`.
The inductive invariant `IInv` has two halves. `StateInv`
is what a restarted controller may rely on: the properties themselves, that a step is charged
before anything is written for it (`StepIsCharged`), and how proposals and reviews relate
(`DecisionsOK`: none for a later step, no review without a proposal, none before the baseline is
complete). `PhaseInv` is what an advance knows at a program counter: nothing is PREPARED behind
the recovery node, the record of the open execution is absent while its tool runs and last in the
ledger before the commit, a proposal is absent before the Skeptic and present behind it. It is
needed because, for example, `LedgerMatchesExecutions` alone does not forbid a tool to be run, and
recorded, a second time. One lemma per shared write does the work; then the actions follow one by
one. The disposition rests on `ClosedIsFrozen` (whatever a published run rests on no longer changes) and
on `PublishingIsRuled` (it is right when it is published).

*Nodes.* For `NodesFitTogether`, `FitInv` is what holds across crashes: where a
program counter may be for the status, and that the finalize node finds its reason (`Placed`, `Opened`,
`Measured`, `Settled`). `GapInv` has what each gap can break, and two facts no crash can: a node meets a
status it can go on from (`Plain`), and an open run has evidence of each failed execution (`Filed`).
Unless a crash fell into `StatusGap`, a proposal is in the status it is judged in, or behind it (`Asks`);
into `EventGap`, a step that has its execution is ended in the trace, or about to be (`Single`); into
`RecordGap`, a decision is on record, or its record is the next write (`OnRecord`). Each is inductive with
crashes in the other two gaps and everywhere else, since a resumed run takes another route through the
nodes, and the proof shows that this route finds what it needs. That `Asks` survives also needs `VetInv`: a
failed adaptive tool is never behind an open selection. `Effects` sorts the
actions into those that leave the trace and the executions alone, open a step, emit, or prepare,
so that most cases need no look at the action itself.

*Budgets.* `BudgetsConserved` ties three counters and a sum to the executions, and a set of reviews to the
limit on revisions. The laws of the sum come from the recursive function of the library by well-founded
induction on the sets that are summed over (a smallest counterexample, so that no theorem with an operator
parameter is needed); for the revisions, `Counted` says that the saved reviews are at most one ahead of
the revisions that were charged for, and only until `resolve_critic_verdict` charges that one.

*Work.* `EveryStep_Counts` shows of every action that it lowers `Work`, and that `Work` never leaves the
naturals. It needs `FitInv`, which says where an advance that changes a status may stand, and the
budgets, which say that the steps and calls left are no negative number. A run thus has no infinite
behaviour without stuttering, whatever the model, the tools and the operator do. That is the safety half of
`RunStops`; the other half, that a driver which is not done can go on, is the fairness that TLC checks.

*Vetting.* `Vets_AsPromised` is the refinement. `Vetting` knows only the ledger, while the nodes
look at the tests done, the candidate and the statuses of the executions; `VetInv` says that these agree
while the run is open (`TestsAgree`, `CandidateAgrees`, `FailuresAgree`), that no result waits behind the route for its
evaluation (`IsRouted`), and that a halting result is the last one and still to be evaluated, as is
a deciding one unless the baseline is incomplete or the run already on its way to an end (`HaltsLast`,
`SettlesLast`). `Deeds` sorts the actions by what an onlooker could see of them: they close the run
(`Closes`), leave its science alone (`Rests`), prepare a tool (`Takes`), record a result, commit or
evaluate it, or conclude (`Concludes`); one lemma per kind keeps the invariant and does the mapping.

**`AgentContextProofs`**: types, `PacketShowsTheCase` and `MenuIsHonest`. `ContextInv` says that
while an answer is awaited nothing it depends on moves: the packet is `PacketFor` of the ledger and
the briefs as they are, what was offered is what is `Available`, and an accepted action is open until
it runs. `ShownIsBounded` says that a packet holds every required record whatever its limit is, and is
within the limit if it holds any other; `NewestIsBounded`, on which it rests, counts the newest records by an
injection into their ranks.

**`InferenceProofs`**: types and the call budget, `AttemptsBounded`, `CallsAreTraced`, `QuietWhenClosed`
and `AnswersInOrder`. `Fitting` ties the counters of a task to its mode and to the retries of the run.
`Staffed` says whose tasks are alive: those of the current node, except what an exception left behind.
`CallsAreTraced` then follows with the cardinality of the tasks in flight. For the records, `Written`
says that a record without a checkpoint belongs to a task that is about to write it, and `Ordered`
(`Chain`, `Gates`, `InTurn`) that a role has its record, and its node its turn, only behind those of
lower rank, which is what a restart, too, has to find out from records and checkpoints.
`EveryStep_Counts` is about the end of it: `Effort` adds what each role has before it (`Pending`), three for every
call that is left, the node, and sixty for every context and crash that is left. A retry raises what its role has
before it, and was paid for when its call was charged; a new context and a crash let all roles be asked again.
Two facts of the invariant are needed that look like bookkeeping: a required answer that is on record is also
saved (`Written`), or its role would be asked again; and the final phase opens no new context (`Gates`).

**`ToolRunProofs`**: types, `VerdictFollowsStar`, `StagingIsCleared` and `EvidenceStands`. `Handling`
says what a worker may be doing for the controller's step; `Answered` that a record is what the tool
answers of the star; `Backed` that between promotion and save the published artifact is the one of the
running versions; `Cleared` who still owns what is staged; `Judged` what a
disposition says about the star. Lemmas such as `OddEvenMeans` say what the records of a tool imply for the
measurements. `EveryStep_Counts` is the safety half of `ToolsEnd`: `Effort` weighs the stage of the
worker, the stage of the controller, the tools without a record and the crashes to come, and every step
lowers it.

**`ResultLockProofs`**: types and mutual exclusion (`LockDiscipline`), `ReceiptsStand`,
`LockIsKept`, `ViewsVerify`, `TraceIsNumbered` and the refinement `Implements`. `Exclusive` ties each
call to the two locks it
holds, `Phase` says what the files contain at each step of a call, `Sealed` what they say when
nobody works on them (receipts and reveal answer for the result), and `DriverInside` and
`DriverAlone` that a finalizing driver is in the boundary and no other process has a call in
progress. The last one is where `Serves` is needed: a driver in another process could undo a
lock, which is outside the documented deployment. `Told` adds that a cached lock is a lock, and
`Numbered` that whoever is behind the authority lock knows the whole trace, because it reloaded
the events with the state, and is the first to emit its event. The refinement maps `sealed` to the
stamp of the result once the state is locked, `truth` to the reveal file and `published` to REVEALED;
every other write is a stutter.

**`RunServiceProofs`**: types, `LoopsAreKnown`, `SameKeySameRun` and `OrphansAreCrashes`.
`LeaseInv` says that a process has the lease of a run exactly while its loop is live. `KeyInv`
follows a key: who handles it holds its lock, a created run is not yet requested, a requested
one exists, and what was answered is what the start request says; without the lock clause two calls
could create two runs for a key. `OrphanInv` counts: a run that cannot be reached was created by a call
that no longer exists, and only a crash ends a call there.

**`StateCacheProofs`**: types, `NoLostUpdate`, `TraceIsServed` and `ViewIsCurrent`,
for any number of viewers, readers, saves and crashes. The condition `stray` cannot be dropped:
without it the same instance refutes them. `Guarded` says that a viewer's fill
is inside the boundary and `Phases` that the driver fills before it writes, and that a node that has its
state has its events. So a viewer or driver that holds values read from the files keeps the driver
from writing; hence what these have read (`Filling`) and what is cached (`Fresh`) agree with the files, and
events are missing only while someone loads them (`Whole`). Of a reader it is only known that it
has read something (`Begun`).

**`LiveViewProofs`**: types, `ShownIsTrue` and `LastViewIsWhole`. `Piped` says of an open stream that
it belongs to the current generation, that its pipe holds consecutive events up to its cursor, and that
everything before them is covered, that is, displayed or buffered; `Kept` that there is no hole below
`streamed`, where a reconnect would begin. They depend on each other: an event out of the pipe fills
the next place, and a new stream begins behind the last covered one. `Asked` says that a reply tells a
state its run really had, and that at most one is on its way for this generation, to the first waiting
reconciliation. `LastViewIsWhole` follows because a snapshot that shows the end was taken when no node
was at work (`Settled`), after which a run's trace no longer grows.

Only model-checked: liveness (`RunStops`, `ToolsEnd`, `Converges`), which is out of the prover's
reach; of the first two the half that is a safety property is proved, as said above. Every
other property of the passing runs is a theorem. The four `claim_*` runs refute what they check, so there is nothing to prove.

## 7. Bounds and abstractions

`MaxCrashes`, `MaxCycles` of `Inference`, `MaxSaves` of `StateCache`, `MaxLibrary` of `ToolRun`, and all of
`LiveView` (`MaxTrace`, `MaxPauses`, `MaxFailures`, `MaxOpens`) bound what the code does not; the
proofs need only that they are numbers (and that a trace has room for a first and a last event). The others
are the run's own budgets.

A subprocess does not outlive its parent in `ToolRun`, as when a container is stopped; an orphan that
goes on writing into the staging directory of a resumed run is not modelled. Bytes of a packet are a
frame and the sizes of the records in it. Times of the science tools are in half days, the shortest
period that is searched. In `LiveView` a node holds the boundary from its first event to its last, and
the stream runs on the driver's thread, where the boundary is reentrant.

## 8. Not modelled

- Of the policy loop: `record_tool_result` (an entry point of tests), corrupt or foreign
  records, a registry that cannot complete a mandatory test; a tool that is not
  supported for the target is a tool that is not in `Adaptive`.
- Of the inference harness: provider adapters, streaming and token accounting, which end in one of
  the classes of errors of `Inference`.
- Of the agent context: prompt texts, the redaction of unsafe strings, the check of numbers in
  narrative text. They accept or reject text that no other rule reads.
- Of the science tools: the signal processing (its result is a measurement in `Stars`), plots,
  the centroid module and the neighbour catalog, which no caller supplies.
- Of the tool run: a result whose identifiers or parameters are not those of the call
  (`controller.py:2460`), which no registered tool returns; it would be discarded and fail the
  run like an error of a thread.
- Of the artifact store: a torn JSONL line, which no code recovers from.
- Of the run service: the check of the target mapping, which refuses a call before it changes anything,
  and two processes on one directory as far as `README.md:225` excludes them. A `fail_run` whose own write
  fails (`runner.py:321`) leaves the record saying running; `LoopsAreKnown` says nothing of failing writes.
- Of the API, mission control and the client: configuration, target listing, error texts, plots,
  playback, and the views of a snapshot, which are projections without state.
- The evaluation harness and the scripts, which score finished runs offline and write nothing a run
  reads.
