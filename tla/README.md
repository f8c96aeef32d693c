# Solver-MCP in TLA+

Specifications of Solver-MCP (`src/`), a service that turns an engineer's chat
into validated solver runs (OpenFOAM, LAMMPS): TLA+ modules translated from the
source, TLC configurations that check them on small instances, and proofs
checked by TLAPS for instances of any size.

- [The system](#the-system) — components, state, operations, what is hard
- [The modules](#the-modules) — what each one models, and how it abstracts
- [What is checked](#what-is-checked) — properties, runs, bounds, fairness
- [Where the code departs from what it says](#where-the-code-departs-from-what-it-says)
- [What is proved](#what-is-proved)
- [What is not modelled](#what-is-not-modelled), and [the plan](#the-plan)

Run a check with `tlc -config <run>.cfg <module>.tla`, the proofs with
`tlapm <module>.tla` for each of `JobPipelineProofs`, `JobSoundness`, `JobRuns`,
`JobOutcomes`, `ChatStreamProofs`, `CaseWorkspaceProofs`, `CaseResults` and
`ChatPageProofs`.

## The system

The chat page (`mcp_server/static/app.js`) opens one server-sent-event stream
per message. The server runs a language-model agent for it; the agent calls the
MCP tools, which submit jobs and read their status. A job is answered from the
cache or queued; a Celery worker runs it through a connector in a solver
container and records the outcome. Three Gunicorn processes, one MCP server
process per chat and any number of workers (one in compose, at least two in
production, `README.md:272`) share one Redis and two volumes, and nothing else:
there is no lock anywhere.

| Component | Source | State it keeps | Operations | Interacts with |
| --- | --- | --- | --- | --- |
| Job store | `execution/job_store.py` | `job:<id>` records in Redis | `create_job`, `set_status`, `get_job`, `set_owner`, `set_interpretation`, `list_jobs` | written by router, worker and chat stream; each update is a `get` and a `set` of the whole record |
| Cache | `execution/cache.py` | `cache:`, `interp:`, `intro:` keys in Redis | `cache_key`, `get`, `store` and their twins for prose | router reads, worker writes; chat stream and intro route use the other two layers |
| Router | `mcp_server/router.py` | none | `submit_job`, `get_job` | record first, then cache, then a set of the record or Celery's `delay` |
| Worker | `execution/worker.py` | the task it runs | `run_simulation`, `_run_job`, `_fail` | drives a connector, stores artifacts, fills the cache, records the outcome |
| Runner | `execution/runner.py` | none | `run`: `docker exec` in the solver's container | blocks the worker until the solver ends; no time limit |
| Artifact store | `execution/artifact_store.py` | `/artifacts/<job_id>` | `store`: `rmtree`, then `copytree` | copies the case directory |
| OpenFOAM connector | `connectors/openfoam/` | `/work/<case_name>` | validate, build, run, parse, classify | case directory shared by all jobs of that name |
| LAMMPS connector | `connectors/lammps/` | `/work/<case_name>` | the same | the same |
| FreeCAD connector | `connectors/freecad/` | none | a stub | its tool answers NOT_IMPLEMENTED |
| Chat stream | `routes/simulations.py` (`api_chat`) | per-turn locals | one turn: history, agent events, tool results, prose, persistence | agent, interpretation cache, job store |
| Solver intro | `routes/simulations.py` (`api_solver_intro`) | `intro:` keys | read, else ask the model, store | cache, language model |
| Agent | `agent/` | one MCP client per turn | build the client, the model and the agent | MCP server over stdio |
| Browser client | `static/app.js` | view, conversation, streams, introductions, job list | switch solver, send, load history | chat stream, intro and jobs routes |
| Schemas | `mcp_server/schemas/` | none | validation and derivation of inputs | router, routes |
| Settings | `config/settings.py` | one cached object | cross-field validation at start | everything |
| Routes and app | `routes/`, `app.py`, `server.py` | none | one call each | router, job store |

### What is hard here

- *Interleaving.* Every Redis update is two round trips (`job_store.py:95,106`
  and `:122,127`), and router, worker and chat turns update the same record.
  Two workers with one `case_name` share a directory.
- *Crash and repetition.* Celery acknowledges late (`worker.py:50`): a crash, a
  lost connection or an expired visibility timeout repeats the delivery, in
  whatever state the first one left the record, the directory and the
  artifacts. A killed task process is not repeated.
- *Partial failure.* The task has eight ways to fail and two `_fail` layers;
  the outer one uses the very Redis that may be the failure. The router creates
  the record before it consults the cache or the broker.
- *Stale state.* The cache is read once per submission; a chat turn reads a
  record, streams for seconds, and writes it; a case directory holds what the
  last job in it left; the browser gets answers whose conversation may be gone.
- *Liveness.* Every job that is queued must end, and every turn and stream,
  through all of the above.

`PROJECT.json` lists these hazards line by line, with the property that guards
each.

### What makes each component correct

- Job store: a final status is final; a card never shows a result and an error;
  a job that is in a device's history stays there.
- Cache: what is stored under a key answers the payload with that key.
- Router: a hit is served and not queued; a miss is queued and not served.
- Worker: the outcome recorded is that of this payload; every delivery ends in
  an outcome; a job is run by one worker at a time.
- Artifact store: the files a COMPLETED record refers to are there, whole.
- Schemas and connectors: what a request states reaches the solver, whatever
  the case directory held before, and a result is read from what its own run
  wrote.
- Chat stream: the prose cached, noted and shown is about the result it stands
  with; what is reported is recorded; every turn ends.
- Solver intro: an introduction is of the solver it was asked for (the page's
  `IntroInPlace` is about where it is shown).
- Browser client: an introduction, and an answer that is waited for, stand in
  their own conversation; a message is run and answered once; the button comes
  back.

## The modules

| Module | Models | Lines of the source |
| --- | --- | --- |
| `JobStore` | records, cache entries, queue and the link to Redis; the operators of `job_store.py` on records | `job_store.py`, `cache.py:96-121` |
| `Router` | `submit_job`, one process per submission | `router.py` |
| `Worker` | the task, its case directories, its artifacts and its faults | `worker.py`, `runner.py`, `artifact_store.py`, the connectors' stages |
| `JobHistory` | the persistence at the end of a chat turn | `simulations.py:378-391,464-476` |
| `JobPipeline` | the four together: `Spec`, `FairSpec`, all requirements, the refinement | the whole path of a job |
| `ChatStream` | one chat turn event by event, several turns at once, on the promise of `JobLifecycle` | `simulations.py:65-163,247-491`, `agent.py:193-241`, `cache.py:138-166` |
| `SimulationInput` | the input models: fields, defaults, refusals, derivation (operators only) | `schemas/` |
| `SolverFiles` | the files a connector writes and what it finds in those it reads (operators only) | `case_builder.py`, `script_builder.py`, the two `output_parser.py` |
| `CaseWorkspace` | from a request to a result, in case directories that keep what earlier jobs left | `server.py`, `simulations.py:169-198`, `worker.py`, the connectors |
| `SolverIntro` | `POST /api/solver-intro`, concurrent requests | `simulations.py:201-233`, `cache.py:169-202` |
| `ChatPage` | the page: views, conversation, introductions, event streams | `app.js` |
| `JobLifecycle` | the abstract promise: PENDING, RUNNING, an answer or a failure | docstrings of `job_store.py` and `cache.py` |
| `MCJobPipeline`, `MCChatStream`, `MCCaseWorkspace`, `MCChatPage` | constants of the TLC instances | |
| `JobPipelineProofs` | `JobPipeline` is type correct | |
| `JobSoundness` | deliveries are single, answers are right | |
| `JobRuns` | artifacts are kept, no job is forgotten | |
| `JobOutcomes` | outcomes are final, histories grow, `JobPipeline` implements `JobLifecycle` | |
| `ChatStreamProofs` | what a chat turn caches, notes and tells belongs together | |
| `CaseWorkspaceProofs` | stated values reach the solver, which starts from its own files | |
| `CaseResults` | a result is read from what its own run wrote, and a run that ended well has one | |
| `ChatPageProofs` | the page is type correct, introductions and answers are in place, one turn per message | |

`Router`, `Worker` and `JobHistory` each extend `JobStore` and know nothing of
each other; `JobPipeline` extends all three and interleaves their steps.
`CaseWorkspace` extends `SolverFiles`, which extends `SimulationInput`;
`ChatPage` extends `SolverIntro`. The four big modules meet at promises: a
`ChatStream` turn sees jobs that behave as `JobLifecycle` allows, which
`JobPipeline` implements; a `ChatPage` stream gets at most one last event, which
`TurnEnds` says will come; `CaseWorkspace` has one worker, because what
neighbours in a directory do is in `Worker`.

### State and actions, and the code

*One action per round trip.* A submission (`spc`) goes created → looked up →
served or dispatched → returned; a task (`wpc`) goes through the `get` and `set` of
each `set_status` (`read`, `write`), the connector's stages and the artifact
copy. Between two steps anyone else may run. The local variables that survive a
round trip are state: the entry a submission found (`sentry`), the record read
by `set_status` (`wrec`) and by a chat turn (`hrec`), the arguments of the call
in progress (`wcall`).

*Data.* A payload is its cache key. Whatever is computed from a payload — files
in a case directory, solver output, parsed result, artifact copy — is named by
the key of the input it was computed from, so that "the result of job j is the
answer to j's payload" is `result = KeyOf[j]`. `Torn` is anything incomplete or
mixed: a half-written input, a running solver's directory, output of two solvers
at once, a broken copy. Parsing and copying pass the content on: a `Torn`
directory may well parse, which is the pessimistic choice.

*Failures.* `Raise(w)` is any exception that leaves `_run_job`: the guard of
`run_simulation` calls `_fail` with stage `worker`, and an exception in *that*
call ends the task. Redis being `down` makes each Redis step raise, except
`cache.get` and `cache.store`, which catch it. `WriteUnanswered` is a set that
Redis applied and the client did not hear of.

*Celery* is external and modelled from how `worker.py` configures it: `queue[j]`
counts waiting deliveries, `Take` removes one, `Ack` forgets it, `Crash`,
`AckLost` and `Redeliver` put it back, and `LoseProcess` (the child process
killed, `task_reject_on_worker_lost` left off) does not.

*The solver* reads its input when it starts. Its output is that input's, unless
the input was rewritten or another solver ran in the directory meanwhile.
Nothing clears a case directory before a build, and OpenFOAM's results are read
from the highest time directory there, so where another payload ran before
(`ran`) what is found may also be that one's. A `docker exec` process may survive its worker (`SolversOutlive`): then it is an
orphan that spoils the directory until it ends.

*Choices that reduce the model.* Redis keeps its data through an outage, and no
record is ever deleted (nothing in the code deletes or expires one). `Serve`
joins the get and set of the hit branch: until `submit_job` returns nobody else
knows the job's id. `UNKNOWN_SOLVER` is unreachable in the worker, since every
caller of the router names a registered solver. The tool call's `try` in the
agent, logging and timestamps are left out. `JobHistory` has the persistence of
one turn per `Turns`; overlapping turns and all that precedes the persistence
are in `ChatStream`.

*A chat turn* (`ChatStream`) is `phase[t]`: sent, in the agent's event loop, and
then the steps after it (replay or store, owner, note, `done`). `turn[t]` holds
the generator's locals under their own names (`found` split into its entries).
Within one process the code runs between two awaits without interruption, but
three Gunicorn processes share Redis, so each Redis call is a step: `set_owner`
and `set_interpretation` are a get of the whole record (`ReadForOwner`,
`ReadForNote`, phases `owning`, `noting`) and later a set of it (`SetOwner`,
`SetNote`), which puts back whatever the other field was when it was read.
`BuildAgent` narrows the agent to the selected solver's tool if discovery listed
it, and keeps every listed tool if not (`agent.py:225-235`); `Lists` says what
discovery may find. Tool arguments are named by the
cache key of the payload they validate to, a text by the result it is about:
`Subject` says that what the model writes after the last tool result is about
that result, which is all the model is trusted with. It may call tools in any
order within `MayRun` and `MayPoll`. `Disciplined` is what the prompts ask for
(submit, poll that job, summarise; submit again only after a failure); the run
`two_simulations` drops it.

*Requests and files* (`SimulationInput`, `SolverFiles`, `CaseWorkspace`). A
request is a function from the fields it states to abstract values; `Bad` is
anything out of range, a derived value is the tuple of what it is computed from,
and a file is the record of the fields its text is made of. So "the solver was
given what the request stated" is an equation. `Underflows` are the values from
which a derived one may be rounded to zero: a velocity, an intensity or a stated
energy that is tiny, a length scale that is huge. `Relaxation` looks four factors
up and drops the rest, as `_fv_solution` does. `Over(f, g)` is what f holds, and
g for the rest: defaults under a request, files over those that were there. The
times and thermo steps a solver has still to write are `task.due`, and it writes
the least of them. A directory keeps files, mesh,
time directories and log between jobs, since nothing in the code clears one. The
solvers are external: they read their input once, at the start, write what it
asks for, and end, or are killed between any two writes, perhaps in one.

*The page* (`ChatPage`) is one thread whose awaits and callbacks are actions.
`conn[m]` is the browser's `EventSource`, `stream[m]` the handler's progress,
`mail[m]` the last event on its way. A source whose response has ended and that
is not closed is connected again by the browser, which repeats the request and
so the turn; `Close` is `eventSource.close()`, and it alone prevents that
(its mutant leaves the source as it is). Tokens and tool rows change nothing that
outlives the stream and are left out. `Patient` is the set of messages whose
answer the engineer waits for.

## What is checked

Requirements are defined at the end of the module they are about; each has a mutant (an operator marked
"Mutant", listed in `PROJECT.json`) that breaks the code the way a plausible bug
would, and that TLC then refutes.

| Property | Says | Run |
| --- | --- | --- |
| `TypeOK` | type invariant | `identical_requests` |
| `CacheSound` | every cached result answers the payload it is keyed by, and refers to a job of that payload | `identical_requests` |
| `CompletedSound` | a COMPLETED job shows its own payload's answer, whichever way it completed | `identical_requests` |
| `OneOutcome` | no card with a result and an error | `once_delivered` |
| `ArtifactBehind` | the files a COMPLETED job refers to are there, whole | `once_delivered` |
| `TerminalStable` | a final status, and what is shown with it, never changes | `once_delivered` |
| `HistoryKept` | a job stays in the history it entered | `once_delivered` |
| `ImplementsLifecycle` | the service implements `JobLifecycle` | `once_delivered` |
| `SingleDelivery` | one delivery of a job at most, waiting or being run | `many_workers` |
| `Accounted` | an open job is its submission's, the queue's or a worker's | `many_workers` |
| `EveryTaskSettles` | every queued task ends COMPLETED or FAILED | `many_workers` |
| `InterpretationsSound` | the prose cached under a key is about the answer to that key's payload, and there is such an answer | `chat_turns` |
| `NotesSound` | the interpretation in a job's record is about that job's result | `chat_turns` |
| `DoneSound` | job, result, prose and solver told to the page belong together (the solver, if the agent was given its tool) | `chat_turns` |
| `DoneRecorded` | what a turn reports is in the job's record by then, unless one of two overlapping updates has undone it | `chat_turns` |
| `TurnEnds` | every turn ends, also when its job never does | `chat_turns` |
| `InputOwn` | a solver starts from its own job's files, whatever the directory held | `case_reuse` |
| `StatedValuesReach` | every field a request states is what the solver is given: in all files that have it, in the mesh or directory, or in what is derived from it | `case_reuse` |
| `RevalidatesSame` | the worker's validation changes nothing and refuses nothing that was accepted, underflow apart | `case_reuse` |
| `ResultOwn` | a result is read from what its own run wrote, unless a longer run of another payload was in the directory | `case_reuse` |
| `SuccessParsed` | a run that ended well has a result | `case_reuse` |
| `IntroInPlace` | an introduction stands in its own solver's conversation | `page` |
| `AnswersInPlace` | an answer that is waited for follows its message, under its own solver | `page` |
| `OneTurnPerMessage` | a message is run once and answered once, although a browser repeats the request of a source left open | `page` |
| `StreamSettles` | every message ends with its stream closed and the button back | `page` |

`chat_turns`, `case_reuse` and `page` have a type invariant each as well, with
what ties their variables together: only a turn that is done has told anything,
a job's stage fits its record, the button is disabled only for a stream.

### The runs and their bounds

- `identical_requests`: two jobs of one payload, one worker, one outage, one
  repeated delivery, one unanswered write, each at any step. Two jobs of one key
  are the least that makes a hit possible; one repeated delivery already puts
  two runs of a job into any order with the other job's, and the worker's stages
  against every step of a submission.
- `once_delivered`: three jobs, two of them identical and one whose key cannot
  be computed (an inf or a nan makes `_normalise` raise), one chat turn, one
  outage and one killed process. Nothing repeats a delivery here, on purpose:
  the five properties are promises for tasks that run once. What a repetition
  does to them is the subject of the violation run below.
- `many_workers`: two workers, two different payloads with case names of their
  own, one of them rejected by validation, one crash, solvers that outlive their
  worker. Checked under `FairSpec`.
- `chat_turns`: two turns, one bound to OpenFOAM with a device and a model that
  streams, one free, without either. Four jobs of three payloads: two jobs of
  one payload, so that the prose of one turn is there for the other; one of a
  second OpenFOAM payload, the bound turn's next try after a failure; one of a
  LAMMPS payload, which the bound turn can run only when discovery lacks its own
  tool (`Lists`). `Wanted` says which payloads each turn's agent may be led to
  run, `None` in it that it may also state arguments that are invalid; the free
  turn runs the common payload only, to keep the instance small. One tool call
  in flight (`MaxCalls`). The second turn may also ask about the first one's
  job, so both update one record. Under `FairSpec`.
- `case_reuse`: two jobs, each of any of the requests of `MCCaseWorkspace`:
  OpenFOAM cases that share a directory and differ in turbulence model, mesh,
  stated or derived turbulence, number of iterations and write interval,
  relaxation factors (also of fields the case does not have), the remaining
  optional fields stated, a velocity, an intensity, an energy and a length scale
  that underflow, a still velocity, out-of-range and unsafe values, a
  LAMMPS case, a FreeCAD one. One crash (`MaxCrashes`). Two jobs are enough:
  a directory's past is one job, interrupted or not; times up to 12 in steps of
  4 make order by number and by name differ.
- `page`: one solver with a generated introduction and one with a fixed one,
  two introduction requests under way at once, two messages of which one is
  waited for. Visits are not bounded. Under `FairSpec`.

The bounds `MaxOutages`, `MaxCrashes`, `MaxLosses`, `MaxRedeliveries` and
`MaxUnanswered` limit how often a fault occurs, never where. A run that leaves a
fault out does so because the property is not promised under it, or because
another run has it. `CHECK_DEADLOCK FALSE` is set everywhere but in `page`: when
all jobs or turns are done and the faults are used up, the service rests. An
engineer can always go on.

### Fairness

`FairSpec` assumes weak fairness of each submission (`submit_job` is straight-line
code: once called it returns or raises), of each worker (a live Celery process
keeps consuming; compose restarts it, `docker-compose.yml:100`) and of Redis's
recovery (restarted likewise). A worker's fairness includes that a started solver
ends: the runner has no time limit, so the code itself does not guarantee it, and
neither do OpenFOAM's `endTime` and LAMMPS's `run` on a stuck machine. No fault
and no chat turn of `JobPipeline` is fair.

`ChatStream`'s `FairSpec` is weak fairness of `ServerStep` or `Tick` for each
turn: the generator goes on, the clock advances, and an agent that is still at
work after the 120 s has another event (`Timeout`). Before that the agent, its
model and its tools owe nothing, jobs need not progress and nobody need
disconnect. The code looks at its 120 s only when an event arrives, so a model
call that never returns would hold the turn; nothing in the code bounds it, and
the last part of the assumption excludes it.

`ChatPage`'s `FairSpec` assumes that a connection is made or refused, that a
response ends (`TurnEnds`, or the network's failure) and that the browser
delivers events. The engineer does what they like.

## Where the code departs from what it says

Each violation run checks one property that a comment, a docstring or the
README states, in the smallest setting that breaks it. `PROJECT.json`
("findings") quotes the sentence.

| Run | What happens |
| --- | --- |
| `redelivered_outcome` | A worker dies after recording COMPLETED and before acknowledging. The repeated task writes RUNNING over the final status and may end FAILED. |
| `outage_in_guard` | Redis goes down while a job is RUNNING. The guard's `_fail` needs Redis too; the task ends and the job stays RUNNING. |
| `killed_process` | The task's process is killed (out of memory). With `acks_late` alone Celery acknowledges the delivery; the job stays open for ever. |
| `shared_case` | Two payloads name the same case. One rebuilds the directory the other one runs in, or finds the time directories it left; the result is cached under a key whose payload it does not answer. |
| `two_simulations` | An agent that has told one result runs a second simulation in the same turn. The key was fixed at the first result, the text starts anew after the last one: the second result's prose is cached under the first payload's key, and replayed for it in every later turn. |
| `history_taken` | A device asks for the status of a COMPLETED job that is in another device's history. `set_owner` moves the job. |

Not counted as disagreements, but visible in the model: two identical requests
that both miss the cache both run (nothing looks again); a submission that
raises after `create_job` leaves a PENDING record that nobody runs, which
`Accounted` states only for submissions that do not raise.

A chat turn can also leave a job RUNNING for good, which a proof attempt
brought up and TLC confirmed (`NeverLeftRunning` with the constants of
`redelivered_outcome` and one device that asks): a worker dies after recording
COMPLETED, the delivery is repeated, a turn that shows the first result reads
the record while the second run has it RUNNING (`job_store.py:122`) and writes
it back, with the owner, after that run has recorded its outcome
(`job_store.py:127`). No task is left then.

Others that the models show, or that their guards and exceptions stand for:

- *Chat turns.* A turn that finds Redis down while it persists ends with neither
  `done` nor `error` (`Breaks`). A timeout says "still running" of a job that may
  be COMPLETED, and then does not record it. A turn whose tool discovery comes
  back empty has no tools and no error, and one whose discovery lacks the
  selected solver's tool has all the others: it may run another solver, whose
  result is then told under the selected one's name (`DoneSound` excepts it).
  Two turns that show one job can undo each other's update of its record: a turn
  without a device writes back a record from before there was an owner, and a
  turn that writes the owner writes back one from before there was an
  interpretation, so that "what `done` reports is in the record" is false without
  the exceptions of `DoneRecorded` (`BlankTurn`, `HalfPersisted`). A free turn keeps the solver of its
  first run tool, also when that call failed, so a later result gets the wrong
  card; so does a bound turn that asks about another solver's job
  (`DoneSound` holds because the instance's agents do not). A model that does
  not stream and begins with a preamble loses its final answer: `WriteWhole`
  takes only the first message.
- *Inputs.* Derived turbulence values are not checked again at the boundary: a
  velocity around 1e-110, a stated `inlet_k` around 1e-220, or an intensity or
  length scale as extreme makes a value of 0.0, which is accepted, queued, and refused by the worker (`RevalidatesSame`
  names it). A huge velocity raises `OverflowError`,
  which is not a `ValidationError`. A relaxation factor of a field that the
  case does not have (a misspelt one, or the other model's) is accepted and
  dropped.
- *Case directories.* Without convergence and with `write_interval` above
  `iterations` (possible with the defaults for fewer than 100 iterations) only
  time 0 exists, and the initial fields are reported as the result. A longer run
  of another payload leaves a higher time directory, which wins. The copy of a
  mesh is merged into an earlier one's files. A case named `mesh` is built over
  the seeded mesh (`WorkspaceAssumption` excludes it).
- *LAMMPS.* A warning among the rows cuts the thermo table: COMPLETED, with fewer
  steps than were run.
- *The page.* An answer that arrives after the engineer has left joins the
  conversation they are in now, under that solver's card, and is sent along as
  its history. "LLM called once per solver per session" (`app.js:148`) and "at
  most once per TTL window" (`simulations.py:210`) do not hold for two first
  visits, or for leaving and coming back before the introduction is there, which
  also shows it twice. The fallback text is kept for the session,
  also over a good introduction when the later of two requests fails.

## What is proved

The theorems hold for any constants that satisfy the modules' named assumptions
(`JobStoreAssumption`, `RouterAssumption`, `WorkerAssumption`,
`HistoryAssumption`; `ChatAssumption`; `InputAssumption`,
`WorkspaceAssumption`, `RequestsAssumption`; `PageAssumption`,
`IntroAssumption`), which TLC evaluates in the runs of these modules: any number
of jobs, payloads, workers, devices, turns, case directories, solvers, messages
and concurrent requests, and any bounds on the faults. The assumptions say that
numbers are numbers, that null is not one of the things it stands in for, and
that a torn time directory is none that was left whole.
A theorem that needs more names it as a condition; each condition is one
that some run satisfies.

| Condition | Says | Without it |
| --- | --- | --- |
| `NoRepeats` | the broker repeats a delivery only when its worker is gone | two workers on one job |
| `RunOnce` | no worker dies and no delivery is repeated | `redelivered_outcome` |
| `Unrepeated` | `RunOnce`, and no write loses its reply | COMPLETED, then the guard's FAILED |
| `OwnDirectory` | payloads have case names of their own, a solver ends with its worker, and there is one worker or neither repetition nor two jobs of one payload | `shared_case` |
| `NothingLost` | Redis stays up, no task process is killed, payloads have keys | `killed_process`, `outage_in_guard` |
| `NobodyAsks` | no chat turn shows a job (`NothingForgotten` needs this only if tasks are repeated) | a turn writes back RUNNING, see above |
| `OneAsker` | no two devices ask about one job | `history_taken` |
| `OneSimulation` | the agent is `Disciplined`, with one call in flight | `two_simulations` |
| `AsksWithin` | the engineer of a bound turn asks about jobs of that solver | the wrong card, see above |

### The path of a job

- `TypeCorrect` (`JobPipelineProofs`): `Spec => []TypeOK`. `TypeOK` alone is not
  inductive: `Serve` applies `CompletedCall` to the entry it found,
  `WriteRecord` applies `WithStatus` to the record it read, `StartRun` starts
  the solver on the files that were built. The invariant `TypeInv` adds that
  these are there (`RouterReady`, `WorkerReady`, `HistoryReady`): the record of
  a job exists from `create_job` on, what the queue holds has been recorded, a
  task has read the record it writes. A consequence is that the early return of
  `set_status` for a missing record is dead code in this system. There is one
  lemma per kind of process (`SubmissionType`, `TaskType`, `OrphanType`,
  `TurnType`, `LinkType`).
- `DeliveredOnce` (`JobSoundness`): under `NoRepeats`, `Spec => []SingleDelivery`.
  The strengthening `NotYetSent` says that a job is neither queued nor run
  before its submission dispatches it; without it, `Dispatch` could add a second
  delivery.
- `CacheKept` and `AnswersSound` (`JobSoundness`): under `OwnDirectory`,
  `Spec => []CacheSound` and `Spec => []CompletedSound`. The invariant `SoundInv`
  follows the answer from the files that were built, through solver, result
  files, parsed result, the arguments of the COMPLETED call and the cache entry,
  to the records that submissions and chat turns hold between a get and a set.
  It rests on `CaseExclusive` (no two workers in one directory), which follows
  from `OwnDirectory` and, with several workers, from `SingleDelivery`.
- `ArtifactsKept` (`JobRuns`): under `OwnDirectory` and `RunOnce`,
  `Spec => []ArtifactBehind`. `CitedArchived` is the invariant: whatever job a
  cache entry, a COMPLETED record, a call on its way or a turn's stale record
  refers to has whole artifacts and is over, so that nobody will remove them to
  copy them again. `CopySound` carries the output to the copy.
- `NothingForgotten` (`JobRuns`): under `NothingLost`, and `NobodyAsks` or
  `RunOnce`, `Spec => []Accounted`. Dying workers and repeated deliveries are
  in. The second condition was found by the proof: the step that failed was a
  chat turn's write of a record that a second run has left behind.
- `OutcomesFinal`, `OutcomesSingle` (`JobOutcomes`): under `Unrepeated`,
  `Spec => TerminalStable` and `Spec => []OneOutcome`. `PhaseInv` says who may
  write a record when: until the worker's first status it is PENDING, then the
  worker alone writes it and has read what is there, and chat turns come only
  after the outcome and put the same one back.
- `HistoriesGrow` (`JobOutcomes`): under `Unrepeated` and `OneAsker`,
  `Spec => HistoryKept`. `OwnerSound` adds that the owner of a job asked about
  it and that a turn about to write the note has read the owner there is.
- `ServiceImplementsLifecycle` (`JobOutcomes`): under `OwnDirectory` and
  `Unrepeated`, `Spec => ImplementsLifecycle`, the refinement. Initial states
  map to initial states and each action to a step of `JobLifecycle` or a
  stutter: `Create`, `Take`'s RUNNING, `Serve` and the worker's last write are
  the steps, everything else stutters. It needs `SoundInv` for the answer and
  `PhaseInv` for the status it starts from.

### The chat turn

All in `ChatStreamProofs`.

- `StreamTypeCorrect`: `Spec => []TypeOK`. Each event's effect on the locals is
  first put into one of a few forms (`GoesOn` and the lemmas that end in
  `Steps`), and these preserve the type of the locals.
- `InterpretationsKept`, `NotesKept`: under `OneSimulation`,
  `Spec => []InterpretationsSound` and `Spec => []NotesSound`. What ties the
  prose to the payload is that key, arguments, the job last seen and the call in
  flight name one payload (`CallSound` and the rest of `StreamInv`), that a
  turn that has seen a result starts no further call, and that a text after a
  tool result is about that result. Another turn may store under the same key at
  any moment; it stores what is right for it (`StepFrame`).
- `DoneTold`: under `OneSimulation` and `AsksWithin`, `Spec => []DoneSound`.
  `BoundSound` says that a bound turn that was given its solver's tool runs and
  sees jobs of that solver only.
- `TellsWhatIsRecorded`: `Spec => []DoneRecorded`, for any agent, any number of
  turns on one job and any order of their gets and sets. `Persists` says
  that a turn on its way from owner to note leaves an owner in the record, and has
  one in its copy, unless a turn without a device has persisted the job.
  (`HalfPersisted` and `BlankTurn` in `DoneRecorded` are those turns.)

### From a request to a result

In `CaseWorkspaceProofs`, from one inductive invariant `IInv`, and for results
in `CaseResults`, from `IInv` and `Progress`.

- `WorkspaceTypeCorrect`: `Spec => []TypeOK`.
- `StartsFromOwn`: `Spec => []InputOwn`. `FilesSound` says that each file of the
  case is still ahead in `task.left` or is this job's already; the lemma
  `OrderCovers` (`build_case` writes every file of the case) starts it and
  `ReadsOwn` ends it: once nothing is ahead, what simpleFoam reads is
  `CaseFiles` of the payload, the other turbulence model's field being there or
  not.
- `RevalidationAgrees`: `Spec => []RevalidatesSame`. The lemma `Revalidation` is
  the heart: for every accepted request, the second `model_validate` of its
  payload either returns that payload or refuses it because a derived value is
  zero. `RevalidationMD` is the same for LAMMPS, where nothing is derived.
- `StatedReaches`: `Spec => []StatedValuesReach`, from `IInv`, the lemmas
  `StatedKept` (a payload keeps what the request states), `FileOf` (each field that
  is neither derived nor placed is in some file) and `FileHolds` (every file that
  has a field shows the payload's value) and `DerivedStated` (what the derivation takes from a stated
  intensity or length scale), and the invariant `MeshPlaced`: when the solver
  starts, the files of the mesh that was asked for are in the directory.
- `ResultsOwn`: `Spec => []ResultOwn`, for any past of the directory. `Progress`
  says what solvers have left there. `TimesSound`: a time directory beyond 0,
  whole or torn, is one that some case built there was to write. `DueSound` and
  `WrittenSound`: what the running solver has written (`Done`, all it was to
  write but `task.due`) is there, whole, and comes before what is due.
  `LogSound`: the log is a `Table` with a row for each step of `Done`, in their
  order, and no warning before the first. At the parser nothing is due, so the
  latest time is at least the job's own last one (`ReachMax`); if it is later,
  `TimesSound` names the longer case. `TableParsed` is what `_parse_thermo`
  makes of such a log: as many rows as there are steps up to the last one read.
- `SuccessIsParsed`: `Spec => []SuccessParsed`. By `TableParsed` LAMMPS's parser
  never fails; a torn latest time is none of the job's own, so another payload
  was built there.

### The page

All in `ChatPageProofs`.

- `PageTypeCorrect`: `Spec => []TypeOK` of `ChatPage`. The
  strengthening `RequestReady` says that a request under way is about an
  introduced solver and that an answered one has a text: the page writes both
  into its conversation.
- `TurnsCorrect`: `Spec => []OneTurnPerMessage`. `TurnInv` says that no source
  ever gets to `reconnecting` although the browser would take it there, since
  the handler that runs on an ended response closes it first; that a connection
  that is being made has begun no turn; and that a last event is waiting only at
  a source that has ended. `OnceAnswered` adds that a message whose stream is still
  open has no answer in the conversation.
- `IntrosPlaced` and `AnswersPlaced`: `Spec => []IntroInPlace` and
  `Spec => []AnswersInPlace`, for conversations of any length. What makes
  `AnswersInPlace` inductive is `Waiting`: while an answer is waited for, the
  selected solver is the one the message was sent with and its question stands
  in the conversation; `AnswerAt` adds that a message with an answer has been
  sent, so that no later `Send` changes the solver under it.

### Only model-checked

The liveness properties `EveryTaskSettles`, `TurnEnds` and `StreamSettles`,
since fairness and `ENABLED` are out of the prover's reach, and the findings,
which are counterexamples. Every invariant and action property of the passing
runs is proved.

## What is not modelled

- Rounding in `_normalise` (two payloads that agree to twelve significant digits
  share a key by design, `cache.py:47`), JSON, timestamps, the order of `list_jobs`.
- The Kubernetes runner and the S3 artifact store: stubs that raise.
- `classify_run_failure`, which names an error by words in the solver's output:
  a name, not a decision (it also finds those words in a case's name).
- The reading of field files and the averages over a thermo table.
- The job list and the result panel of the page. A device's list is what
  `set_owner` was called for, which are COMPLETED jobs, so the panel's polling of
  PENDING and RUNNING jobs, and its FAILED view, are reached only for a job that
  a repeated delivery has taken out of COMPLETED.
- Settings: validated once, at start-up; the models are of a process that
  started. Routes that read once and return, templates, images, CI, logging,
  tracing.
- The language model: an external that may call any tool or none.

## The plan

Done: the path of a job, the chat turn, inputs and case directories, the
introductions and the page, and proofs of every safety and action property that
the passing runs check. Left:

1. Weaker conditions. `ArtifactsKept` and `HistoriesGrow` exclude repeated
   deliveries altogether; some of them do no harm (a worker that dies before it
   has recorded anything), and the theorems could say which.
2. `ServiceImplementsLifecycle` under `OwnDirectory` alone, for the part of the
   promise that is about answers.
