---------------------------- MODULE JobPipeline -----------------------------
(***************************************************************************)
(* The job service: submissions (Router), worker processes (Worker) and    *)
(* chat turns that annotate finished jobs (JobHistory), all reading and    *)
(* writing the same Redis (JobStore).                                      *)
(***************************************************************************)
EXTENDS Router, Worker, JobHistory

vars == <<storeVars, routerVars, workerVars, historyVars>>

TypeOK == StoreTypeOK /\ RouterTypeOK /\ WorkerTypeOK /\ HistoryTypeOK

Init == StoreInit /\ RouterInit /\ WorkerInit /\ HistoryInit

Submission(j) == RouterStep(j) /\ UNCHANGED <<workerVars, historyVars>>
Task(w) == TaskStep(w) /\ UNCHANGED <<routerVars, historyVars>>
Turn(d) == HistoryStep(d) /\ UNCHANGED <<routerVars, workerVars>>

Outage == GoDown /\ UNCHANGED <<routerVars, workerVars, historyVars>>
Recovery == ComeBack /\ UNCHANGED <<routerVars, workerVars, historyVars>>
Fault(w) == FaultStep(w) /\ UNCHANGED <<routerVars, historyVars>>
Orphan(c) == OrphanEnds(c) /\ UNCHANGED <<routerVars, historyVars>>

Next ==
  \/ \E j \in Jobs : Submission(j)
  \/ \E w \in Workers : Task(w) \/ Fault(w)
  \/ \E c \in Cases : Orphan(c)
  \/ \E d \in Devices : Turn(d)
  \/ Outage \/ Recovery

Spec == Init /\ [][Next]_vars

(***************************************************************************)
(* submit_job runs to its return once called; a worker process keeps       *)
(* consuming and running (compose restarts it), and a solver ends; Redis   *)
(* comes back.  No chat turn is promised, and no fault.                    *)
(***************************************************************************)
FairSpec ==
  /\ Spec
  /\ \A j \in Jobs : WF_vars(Submission(j))
  /\ \A w \in Workers : WF_vars(Task(w))
  /\ WF_vars(Recovery)

-----------------------------------------------------------------------------
\* Requirements.

Final(j) == rec[j] # None /\ rec[j].status \in Terminal
Open(j) == rec[j] # None /\ rec[j].status \notin Terminal

\* Every cached result is the answer to the very payload whose hash it is
\* stored under, and its reference names a job of that payload.
CacheSound ==
  \A k \in Keys : cache[k] # None =>
    cache[k].result = k /\ KeyOf[cache[k].ref] = k

\* A COMPLETED job, however it completed (own run, cache hit, second
\* delivery), shows the answer to its own payload.
CompletedSound ==
  \A j \in Jobs : rec[j] # None /\ rec[j].status = "COMPLETED" =>
    /\ rec[j].result = KeyOf[j]
    /\ rec[j].ref # None
    /\ KeyOf[rec[j].ref] = KeyOf[j]

\* While a job is COMPLETED the files its result_ref names are there, whole.
ArtifactBehind ==
  \A j \in Jobs : rec[j] # None /\ rec[j].status = "COMPLETED" =>
    art[rec[j].ref] = KeyOf[j]

\* A history card (list_jobs) never shows a result together with an error.
OneOutcome ==
  \A j \in Jobs : rec[j] # None =>
    LET card == ListView(rec[j]) IN card.result = None \/ card.error = None

\* At most one delivery of a job's task exists, waiting or being run.
SingleDelivery ==
  \A j \in Jobs :
    /\ queue[j] \in {0, 1}
    /\ queue[j] = 1 => \A w \in Workers : wjob[w] # j
    /\ \A v, w \in Workers : wjob[v] = j /\ wjob[w] = j => v = w

\* A job that is not finished is still someone's: its submission's, the
\* queue's or a worker's (never stuck in PENDING or RUNNING).
Accounted ==
  \A j \in Jobs : Open(j) =>
    \/ spc[j] \in {"created", "hit", "miss"}
    \/ queue[j] > 0
    \/ \E w \in Workers : wjob[w] = j /\ wpc[w] # "ack"

\* COMPLETED and FAILED are final, as are what they carry.
TerminalStable ==
  [][\A j \in Jobs : Final(j) => PublicView(rec'[j]) = PublicView(rec[j])]_vars

\* A job that entered a device's history stays in it.
HistoryKept == [][\A d \in Devices : History(d) \subseteq History(d)']_vars

\* Every job that reached the queue is COMPLETED or FAILED some day.
EveryTaskSettles == \A j \in Jobs : (queue[j] > 0) ~> Final(j)

-----------------------------------------------------------------------------
\* What the documentation says and the code does not always do.

\* worker.py, run_simulation: "a job is never left stuck in RUNNING".
NeverLeftRunning ==
  \A j \in Jobs : rec[j] # None /\ rec[j].status = "RUNNING" =>
    \/ queue[j] > 0
    \/ \E w \in Workers : wjob[w] = j /\ wpc[w] # "ack"

-----------------------------------------------------------------------------
(***************************************************************************)
(* The job service implements the abstract lifecycle.                      *)
(***************************************************************************)
statusOf == [j \in Jobs |-> IF rec[j] = None THEN "none" ELSE rec[j].status]

answerOf ==
  [j \in Jobs |-> IF rec[j] = None THEN None ELSE PublicView(rec[j]).result]

knownKeys == {k \in Keys : cache[k] # None}

Lifecycle == INSTANCE JobLifecycle
  WITH status <- statusOf, answer <- answerOf, known <- knownKeys

ImplementsLifecycle == Lifecycle!Spec

=============================================================================
