------------------------------- MODULE Worker -------------------------------
(***************************************************************************)
(* execution/worker.py: the run_simulation task.  Each worker process      *)
(* takes a delivery of a job's task from the queue, drives the connector   *)
(* (validate, build, run, parse), stores the artifacts, fills the cache    *)
(* and records the outcome; the delivery is acknowledged last (acks_late). *)
(*                                                                         *)
(* set_status is a Redis get and a Redis set: two steps, the record read   *)
(* by the first kept in wrec.  The case directory /work/<case_name> is     *)
(* shared by every job of that name; input and output say whose files it   *)
(* holds.  The solver is external: a run reads the input when it starts,   *)
(* and what it leaves is Torn unless it ran to its end on its own.         *)
(***************************************************************************)
EXTENDS JobStore

CONSTANTS
  Workers,          \* worker processes (concurrency 1 each)
  Cases,            \* case directory names
  CaseOf,           \* the case_name in the payload of each key
  Invalid,          \* keys of payloads that validate_inputs rejects
  MaxCrashes,       \* bound: workers lost with their delivery unacknowledged
  MaxLosses,        \* bound: task processes killed and acknowledged anyway
  MaxRedeliveries,  \* bound: deliveries repeated while one is being run
  MaxUnanswered,    \* bound: writes applied whose reply is lost
  SolversOutlive    \* whether a solver survives the worker that started it

ASSUME WorkerAssumption ==
  /\ CaseOf \in [Keys -> Cases]
  /\ Invalid \subseteq Keys
  /\ None \notin Cases
  /\ SolversOutlive \in BOOLEAN
  /\ MaxCrashes \in Nat
  /\ MaxLosses \in Nat
  /\ MaxRedeliveries \in Nat
  /\ MaxUnanswered \in Nat

VARIABLES
  wpc,            \* the step each worker is at
  wjob,           \* the job each worker runs, None while it is idle
  wcall,          \* the set_status call a worker makes or made last
  wrec,           \* the record set_status has read
  wsolve,         \* what the solver a worker started is computing
  wresult,        \* what parse_outputs returned
  input,          \* case directory: the input the files describe
  output,         \* case directory: what its result files hold
  ran,            \* case directory: payloads whose solver wrote in it
  orphans,        \* case directories a worker-less solver still writes in
  art,            \* artifact directory of each job, None while absent
  crashes, losses, redeliveries, unanswered   \* faults so far

dirVars == <<input, output, ran, orphans, art>>
faultVars == <<crashes, losses, redeliveries, unanswered>>
workerVars == <<wpc, wjob, wcall, wrec, wsolve, wresult, dirVars, faultVars>>

WorkerTypeOK ==
  /\ wpc \in [Workers -> {"idle", "read", "write", "validate", "build", "run",
                          "running", "parse", "clear", "copy", "publish",
                          "ack"}]
  /\ wjob \in [Workers -> Jobs \cup {None}]
  /\ wcall \in [Workers -> Call]
  /\ wrec \in [Workers -> Record \cup {None}]
  /\ wsolve \in [Workers -> Output \cup {None}]
  /\ wresult \in [Workers -> Output \cup {None}]
  /\ input \in [Cases -> Output \cup {None}]
  /\ output \in [Cases -> Output \cup {None}]
  /\ ran \in [Cases -> SUBSET Keys]
  /\ orphans \in SUBSET Cases
  /\ art \in [Jobs -> Output \cup {None}]
  /\ crashes \in 0 .. MaxCrashes
  /\ losses \in 0 .. MaxLosses
  /\ redeliveries \in 0 .. MaxRedeliveries
  /\ unanswered \in 0 .. MaxUnanswered

WorkerInit ==
  /\ wpc = [w \in Workers |-> "idle"]
  /\ wjob = [w \in Workers |-> None]
  /\ wcall = [w \in Workers |-> RunningCall]
  /\ wrec = [w \in Workers |-> None]
  /\ wsolve = [w \in Workers |-> None]
  /\ wresult = [w \in Workers |-> None]
  /\ input = [c \in Cases |-> None]
  /\ output = [c \in Cases |-> None]
  /\ ran = [c \in Cases |-> {}]
  /\ orphans = {}
  /\ art = [j \in Jobs |-> None]
  /\ crashes = 0
  /\ losses = 0
  /\ redeliveries = 0
  /\ unanswered = 0

-----------------------------------------------------------------------------
CaseDir(w) == CaseOf[KeyOf[wjob[w]]]

\* The other workers whose solver is running in w's case directory.
Neighbours(w) ==
  {v \in Workers \ {w} : wpc[v] = "running" /\ CaseDir(v) = CaseDir(w)}

GoTo(w, pc) == wpc' = [wpc EXCEPT ![w] = pc]

\* Begin job_store.set_status(job_id, ...) with the arguments of `call`.
Begin(w, call) ==
  /\ wcall' = [wcall EXCEPT ![w] = call]
  /\ GoTo(w, "read")

\* _fail(job_id, stage, code, message)
Fail(w, stage) == Begin(w, FailedCall(stage))

\* An exception leaves _run_job: run_simulation's guard calls _fail with
\* stage "worker".  One that the guard's own _fail raises ends the task.
Raise(w) ==
  IF wpc[w] \in {"read", "write"} /\ wcall[w].error = "worker"
  THEN GoTo(w, "ack") /\ UNCHANGED wcall
  ELSE Fail(w, "worker")

\* A worker with no task.
Rest(w) ==
  /\ GoTo(w, "idle")
  /\ wjob' = [wjob EXCEPT ![w] = None]
  /\ wcall' = [wcall EXCEPT ![w] = RunningCall]
  /\ wrec' = [wrec EXCEPT ![w] = None]
  /\ wsolve' = [wsolve EXCEPT ![w] = None]
  /\ wresult' = [wresult EXCEPT ![w] = None]

-----------------------------------------------------------------------------
\* Mutants: the message stays in the queue while its task runs; RUNNING is
\* never recorded.
TakeAndKeep(w, j) ==
  /\ wpc[w] = "idle"
  /\ redis = "up"
  /\ queue[j] > 0
  /\ wjob' = [wjob EXCEPT ![w] = j]
  /\ Begin(w, RunningCall)
  /\ UNCHANGED <<storeVars, wrec, wsolve, wresult, dirVars, faultVars>>

TakeUnrecorded(w, j) ==
  /\ wpc[w] = "idle"
  /\ redis = "up"
  /\ queue[j] > 0
  /\ queue' = [queue EXCEPT ![j] = @ - 1]
  /\ wjob' = [wjob EXCEPT ![w] = j]
  /\ GoTo(w, "validate")
  /\ UNCHANGED <<rec, cache, redis, outages, wcall, wrec, wsolve, wresult,
                 dirVars, faultVars>>

\* Celery hands the task to a worker, unacknowledged (prefetch 1).
Take(w, j) ==
  /\ wpc[w] = "idle"
  /\ redis = "up"
  /\ queue[j] > 0
  /\ queue' = [queue EXCEPT ![j] = @ - 1]
  /\ wjob' = [wjob EXCEPT ![w] = j]
  /\ Begin(w, RunningCall)
  /\ UNCHANGED <<rec, cache, redis, outages, wrec, wsolve, wresult, dirVars,
                 faultVars>>

\* set_status: client.get.  The record exists (records are never deleted and
\* the task is sent after create_job), so its early return is never taken.
ReadRecord(w) ==
  /\ wpc[w] = "read"
  /\ redis = "up"
  /\ wrec' = [wrec EXCEPT ![w] = rec[wjob[w]]]
  /\ GoTo(w, "write")
  /\ UNCHANGED <<storeVars, wjob, wcall, wsolve, wresult, dirVars, faultVars>>

StoreRecord(w) ==
  /\ rec' = [rec EXCEPT ![wjob[w]] = WithStatus(wrec[w], wcall[w])]
  /\ wrec' = [wrec EXCEPT ![w] = None]

\* Mutant: no return after _fail.
WriteAndGoOn(w) ==
  /\ wpc[w] = "write"
  /\ redis = "up"
  /\ StoreRecord(w)
  /\ GoTo(w, IF wcall[w].status = "COMPLETED" THEN "ack" ELSE "validate")
  /\ UNCHANGED <<cache, queue, redis, outages, wjob, wcall, wsolve, wresult,
                 dirVars, faultVars>>

\* set_status: client.set.  RUNNING is followed by the connector's stages,
\* a final status by the end of the task.
WriteRecord(w) ==
  /\ wpc[w] = "write"
  /\ redis = "up"
  /\ StoreRecord(w)
  /\ GoTo(w, IF wcall[w].status = "RUNNING" THEN "validate" ELSE "ack")
  /\ UNCHANGED <<cache, queue, redis, outages, wjob, wcall, wsolve, wresult,
                 dirVars, faultVars>>

\* The set is applied and the connection breaks before its reply: the
\* client raises although the record was written.
WriteUnanswered(w) ==
  /\ wpc[w] = "write"
  /\ redis = "up"
  /\ unanswered < MaxUnanswered
  /\ unanswered' = unanswered + 1
  /\ StoreRecord(w)
  /\ Raise(w)
  /\ UNCHANGED <<cache, queue, redis, outages, wjob, wsolve, wresult, dirVars,
                 crashes, losses, redeliveries>>

\* Either half of set_status raises while Redis is down.
RaiseOutageIn(w) ==
  /\ wpc[w] \in {"read", "write"}
  /\ redis = "down"
  /\ Raise(w)
  /\ wrec' = [wrec EXCEPT ![w] = None]
  /\ UNCHANGED <<storeVars, wjob, wsolve, wresult, dirVars, faultVars>>

-----------------------------------------------------------------------------
\* Mutant: a rejected payload ends the task without an outcome.
ValidateSilently(w) ==
  /\ wpc[w] = "validate"
  /\ GoTo(w, IF KeyOf[wjob[w]] \in Invalid THEN "ack" ELSE "build")
  /\ UNCHANGED <<storeVars, wjob, wcall, wrec, wsolve, wresult, dirVars,
                 faultVars>>

\* connector.validate_inputs
Validate(w) ==
  /\ wpc[w] = "validate"
  /\ IF KeyOf[wjob[w]] \in Invalid
     THEN Fail(w, "validation")
     ELSE GoTo(w, "build") /\ UNCHANGED wcall
  /\ UNCHANGED <<storeVars, wjob, wrec, wsolve, wresult, dirVars, faultVars>>

\* connector.build_input_files writes into the case directory.  A solver
\* already running there rereads its control file (runTimeModifiable), so
\* its run is spoiled.
WriteInput(w, content) ==
  /\ input' = [input EXCEPT ![CaseDir(w)] = content]
  /\ wsolve' = [v \in Workers |->
                  IF v \in Neighbours(w) THEN Torn ELSE wsolve[v]]

Build(w) ==
  /\ wpc[w] = "build"
  /\ WriteInput(w, KeyOf[wjob[w]])
  /\ GoTo(w, "run")
  /\ UNCHANGED <<storeVars, wjob, wcall, wrec, wresult, output, ran, orphans,
                 art, faultVars>>

\* BuildError: the mesh is looked for before any file is written.
BuildFails(w) ==
  /\ wpc[w] = "build"
  /\ Fail(w, "build")
  /\ UNCHANGED <<storeVars, wjob, wrec, wsolve, wresult, dirVars, faultVars>>

\* Mutant: the exception is swallowed and the half-written case is run.
BuildGoesOn(w) ==
  /\ wpc[w] = "build"
  /\ WriteInput(w, Torn)
  /\ GoTo(w, "run")
  /\ UNCHANGED <<storeVars, wjob, wcall, wrec, wresult, output, ran, orphans,
                 art, faultVars>>

\* Any other exception (disk full, permission) between two file writes.
BuildRaises(w) ==
  /\ wpc[w] = "build"
  /\ WriteInput(w, Torn)
  /\ Raise(w)
  /\ UNCHANGED <<storeVars, wjob, wrec, wresult, output, ran, orphans,
                 art, faultVars>>

\* connector.run -> runner.run: the solver starts in its container.
StartRun(w) ==
  /\ wpc[w] = "run"
  /\ wsolve' = [v \in Workers |->
                  IF v \in Neighbours(w) THEN Torn
                  ELSE IF v # w THEN wsolve[v]
                  ELSE IF Neighbours(w) = {} /\ CaseDir(w) \notin orphans
                  THEN input[CaseDir(w)]
                  ELSE Torn]
  /\ output' = [output EXCEPT ![CaseDir(w)] = Torn]
  /\ ran' = [ran EXCEPT ![CaseDir(w)] = @ \cup {KeyOf[wjob[w]]}]
  /\ GoTo(w, "running")
  /\ UNCHANGED <<storeVars, wjob, wcall, wrec, wresult, input, orphans, art,
                 faultVars>>

\* The worker lets go of a solver it started: `docker exec` runs it in the
\* solver's own container, where it may go on.
Abandon(w) ==
  orphans' = IF SolversOutlive /\ wpc[w] = "running"
             THEN orphans \cup {CaseDir(w)} ELSE orphans

\* runner.run raises: no container or Docker daemon to start the solver
\* with, or none any more to wait for it.
RunnerFails(w) ==
  /\ wpc[w] \in {"run", "running"}
  /\ Fail(w, "solver")
  /\ wsolve' = [wsolve EXCEPT ![w] = None]
  /\ Abandon(w)
  /\ UNCHANGED <<storeVars, wjob, wrec, wresult, input, output, ran, art,
                 faultVars>>

OrphanEnds(c) ==
  /\ c \in orphans
  /\ orphans' = orphans \ {c}
  /\ output' = [output EXCEPT ![c] = Torn]
  /\ UNCHANGED <<storeVars, wpc, wjob, wcall, wrec, wsolve, wresult, input,
                 ran, art, faultVars>>

\* Exit code 0.  Nothing clears the directory before a build, and OpenFOAM's
\* results are read from its highest time: perhaps one that a longer run of
\* another payload left there.
RunSucceeds(w) ==
  /\ wpc[w] = "running"
  /\ \E found \in {wsolve[w], Torn} :
        /\ ran[CaseDir(w)] = {KeyOf[wjob[w]]} => found = wsolve[w]
        /\ output' = [output EXCEPT ![CaseDir(w)] = found]
  /\ wsolve' = [wsolve EXCEPT ![w] = None]
  /\ GoTo(w, "parse")
  /\ UNCHANGED <<storeVars, wjob, wcall, wrec, wresult, input, ran, orphans,
                 art, faultVars>>

\* Mutant: the exit code is not looked at.
RunFailsUnseen(w) ==
  /\ wpc[w] = "running"
  /\ GoTo(w, "parse")
  /\ wsolve' = [wsolve EXCEPT ![w] = None]
  /\ UNCHANGED <<storeVars, wjob, wcall, wrec, wresult, dirVars, faultVars>>

\* A non-zero exit code, classified as a solver-stage error.
RunFails(w) ==
  /\ wpc[w] = "running"
  /\ Fail(w, "solver")
  /\ wsolve' = [wsolve EXCEPT ![w] = None]
  /\ UNCHANGED <<storeVars, wjob, wrec, wresult, dirVars, faultVars>>

\* Mutant: the result is published without its artifacts.
ParseAndPublish(w) ==
  /\ wpc[w] = "parse"
  /\ wresult' = [wresult EXCEPT ![w] = output[CaseDir(w)]]
  /\ GoTo(w, "publish")
  /\ UNCHANGED <<storeVars, wjob, wcall, wrec, wsolve, dirVars, faultVars>>

\* connector.parse_outputs
Parse(w) ==
  /\ wpc[w] = "parse"
  /\ wresult' = [wresult EXCEPT ![w] = output[CaseDir(w)]]
  /\ GoTo(w, "clear")
  /\ UNCHANGED <<storeVars, wjob, wcall, wrec, wsolve, dirVars, faultVars>>

\* ParseError (stage parse), or an exception of another class (the guard).
ParseFails(w) ==
  /\ wpc[w] = "parse"
  /\ Fail(w, "parse") \/ Raise(w)
  /\ UNCHANGED <<storeVars, wjob, wrec, wsolve, wresult, dirVars, faultVars>>

-----------------------------------------------------------------------------
\* artifact_store.store: rmtree of an earlier copy ...
ClearArtifact(w) ==
  /\ wpc[w] = "clear"
  /\ art' = [art EXCEPT ![wjob[w]] = None]
  /\ GoTo(w, "copy")
  /\ UNCHANGED <<storeVars, wjob, wcall, wrec, wsolve, wresult, input, output,
                 ran, orphans, faultVars>>

\* ... then copytree of the case directory ...
CopyArtifact(w) ==
  /\ wpc[w] = "copy"
  /\ art' = [art EXCEPT ![wjob[w]] = output[CaseDir(w)]]
  /\ GoTo(w, "publish")
  /\ UNCHANGED <<storeVars, wjob, wcall, wrec, wsolve, wresult, input, output,
                 ran, orphans, faultVars>>

\* ... which can fail half way (disk full, a file that vanished).
CopyRaises(w) ==
  /\ wpc[w] = "copy"
  /\ art' = [art EXCEPT ![wjob[w]] = Torn]
  /\ Raise(w)
  /\ UNCHANGED <<storeVars, wjob, wrec, wsolve, wresult, input, output,
                 ran, orphans, faultVars>>

\* cache.store, whose failure is only logged, then the COMPLETED set_status
\* begins.
Publish(w) ==
  /\ wpc[w] = "publish"
  /\ LET j == wjob[w]
         entry == [ref |-> j, result |-> wresult[w]]
     IN /\ cache' = IF redis = "up"
                    THEN [cache EXCEPT ![KeyOf[j]] = entry] ELSE cache
        /\ Begin(w, CompletedCall(entry))
  /\ UNCHANGED <<rec, queue, redis, outages, wjob, wrec, wsolve, wresult,
                 dirVars, faultVars>>

-----------------------------------------------------------------------------
\* acks_late: the delivery is removed once the task has ended.
Ack(w) ==
  /\ wpc[w] = "ack"
  /\ redis = "up"
  /\ Rest(w)
  /\ UNCHANGED <<storeVars, dirVars, faultVars>>

\* The acknowledgement is lost with the connection: delivered again.
AckLost(w) ==
  /\ wpc[w] = "ack"
  /\ redis = "down"
  /\ redeliveries < MaxRedeliveries
  /\ redeliveries' = redeliveries + 1
  /\ queue' = [queue EXCEPT ![wjob[w]] = @ + 1]
  /\ Rest(w)
  /\ UNCHANGED <<rec, cache, redis, outages, dirVars, crashes, losses,
                 unanswered>>

\* The task outlives the broker's visibility timeout: delivered again while
\* it is still being run.
Redeliver(w) ==
  /\ wpc[w] # "idle"
  /\ redeliveries < MaxRedeliveries
  /\ redeliveries' = redeliveries + 1
  /\ queue' = [queue EXCEPT ![wjob[w]] = @ + 1]
  /\ UNCHANGED <<rec, cache, redis, outages, wpc, wjob, wcall, wrec, wsolve,
                 wresult, dirVars, crashes, losses, unanswered>>

\* Mutant: the delivery was acknowledged before the task ran.
CrashAcknowledged(w) ==
  /\ wpc[w] # "idle"
  /\ crashes < MaxCrashes
  /\ crashes' = crashes + 1
  /\ Rest(w)
  /\ Abandon(w)
  /\ UNCHANGED <<storeVars, input, output, ran, art, losses, redeliveries,
                 unanswered>>

\* The worker container dies: its unacknowledged delivery returns.
Crash(w) ==
  /\ wpc[w] # "idle"
  /\ crashes < MaxCrashes
  /\ crashes' = crashes + 1
  /\ queue' = [queue EXCEPT ![wjob[w]] = @ + 1]
  /\ Rest(w)
  /\ Abandon(w)
  /\ UNCHANGED <<rec, cache, redis, outages, input, output, ran, art, losses,
                 redeliveries, unanswered>>

\* Only the task's process is killed (out of memory, say).  The app leaves
\* task_reject_on_worker_lost off, so Celery acknowledges the delivery.
LoseProcess(w) ==
  /\ wpc[w] # "idle"
  /\ losses < MaxLosses
  /\ losses' = losses + 1
  /\ Rest(w)
  /\ Abandon(w)
  /\ UNCHANGED <<storeVars, input, output, ran, art, crashes, redeliveries,
                 unanswered>>

\* The steps of the task itself, and those that its environment decides.
TaskStep(w) ==
  \/ \E j \in Jobs : Take(w, j)
  \/ ReadRecord(w) \/ WriteRecord(w) \/ RaiseOutageIn(w)
  \/ Validate(w)
  \/ Build(w) \/ BuildFails(w) \/ BuildRaises(w)
  \/ StartRun(w) \/ RunnerFails(w) \/ RunSucceeds(w) \/ RunFails(w)
  \/ Parse(w) \/ ParseFails(w)
  \/ ClearArtifact(w) \/ CopyArtifact(w) \/ CopyRaises(w)
  \/ Publish(w)
  \/ Ack(w)

FaultStep(w) ==
  \/ WriteUnanswered(w)
  \/ AckLost(w) \/ Redeliver(w)
  \/ Crash(w) \/ LoseProcess(w)

=============================================================================
