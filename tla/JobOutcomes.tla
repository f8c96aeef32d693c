---------------------------- MODULE JobOutcomes ----------------------------
(***************************************************************************)
(* That outcomes are final, and that the job service implements            *)
(* JobLifecycle, in a deployment where no task is run twice and no worker  *)
(* records an outcome and is told that it did not (Unrepeated).  Outages   *)
(* and killed task processes are in.                                       *)
(***************************************************************************)
EXTENDS JobRuns

USE JobStoreAssumption, RouterAssumption, WorkerAssumption, HistoryAssumption

Unrepeated == RunOnce /\ MaxUnanswered = 0

-----------------------------------------------------------------------------
\* A record, or a set_status call, holds what its status allows.
Plain(x) ==
  /\ x.status \in {"PENDING", "RUNNING"} =>
       x.ref = None /\ x.result = None /\ x.error = None
  /\ x.status = "COMPLETED" => x.error = None
  /\ x.status = "FAILED" => x.ref = None /\ x.result = None

\* r and s tell the same outcome.
SameOutcome(r, s) ==
  /\ r.status = s.status
  /\ r.ref = s.ref
  /\ r.result = s.result
  /\ r.error = s.error

\* Until a worker records its first status, a job is PENDING ...
JobPhase ==
  \A j \in Jobs :
    /\ spc[j] = "new" => rec[j] = None
    /\ spc[j] \in {"created", "hit", "miss"} => rec[j].status = "PENDING"
    /\ spc[j] = "hit" => cache[KeyOf[j]] # None
    /\ queue[j] > 0 => rec[j].status = "PENDING"
    /\ rec[j] # None => Plain(rec[j])

\* ... then its worker alone writes the record, until the outcome is in it ...
TaskPhase ==
  \A w \in Workers :
    /\ Plain(wcall[w])
    /\ wpc[w] \in {"read", "write"} =>
         \/ wcall[w].status = "RUNNING" /\ rec[wjob[w]].status = "PENDING"
         \/ wcall[w].status = "COMPLETED" /\ rec[wjob[w]].status = "RUNNING"
         \/ /\ wcall[w].status = "FAILED"
            /\ rec[wjob[w]].status \in {"PENDING", "RUNNING"}
    /\ wpc[w] \in {"validate", "build", "run", "running", "parse", "clear",
                   "copy", "publish"} => rec[wjob[w]].status = "RUNNING"
    /\ wpc[w] = "write" => wrec[w] = rec[wjob[w]]

\* ... and only then chat turns write it, and leave the outcome alone.
TurnPhase ==
  \A d \in Devices :
    /\ hpc[d] # "chat" => rec[hjob[d]].status = "COMPLETED"
    /\ hpc[d] \in {"writeOwner", "writeNote"} =>
         SameOutcome(hrec[d], rec[hjob[d]])

PhaseInv == JobPhase /\ TaskPhase /\ TurnPhase

\* No two devices ask about the same job.
OneAsker == \A c, d \in Devices : Asks[c] \cap Asks[d] # {} => c = d

\* The owner of a job asked about it, and a turn that writes the note of a
\* job has read the owner it has.
OwnerSound ==
  /\ \A j \in Jobs : rec[j] # None /\ rec[j].owner # None =>
       j \in Asks[rec[j].owner]
  /\ \A d \in Devices :
       /\ hpc[d] # "chat" => hjob[d] \in Asks[d]
       /\ hpc[d] = "writeNote" => hrec[d].owner = rec[hjob[d]].owner

-----------------------------------------------------------------------------
LEMMA PhaseInit == Init => PhaseInv
BY DEF Init, StoreInit, RouterInit, WorkerInit, HistoryInit, PhaseInv,
       JobPhase, TaskPhase, TurnPhase, Plain, RunningCall

\* What is plain stays plain.
LEMMA PlainCalls ==
  /\ Plain(NewRecord)
  /\ Plain(RunningCall)
  /\ \A s : Plain(FailedCall(s))
  /\ \A e : Plain(CompletedCall(e))
  /\ NewRecord.status = "PENDING"
  /\ RunningCall.status = "RUNNING"
  /\ \A s : FailedCall(s).status = "FAILED"
  /\ \A e : CompletedCall(e).status = "COMPLETED"
BY DEF Plain, NewRecord, RunningCall, FailedCall, CompletedCall

LEMMA PlainStatus ==
  ASSUME NEW r, Plain(r), r.status \in {"PENDING", "RUNNING"}, NEW c, Plain(c)
  PROVE  Plain(WithStatus(r, c)) /\ WithStatus(r, c).status = c.status
BY DEF Plain, WithStatus, Given

LEMMA PlainOutcome ==
  ASSUME NEW r, Plain(r), NEW s, SameOutcome(s, r)
  PROVE  Plain(s)
BY DEF Plain, SameOutcome

LEMMA SameOutcomeTransitive ==
  ASSUME NEW r, NEW s, NEW t, SameOutcome(r, s), SameOutcome(s, t)
  PROVE  SameOutcome(r, t)
BY DEF SameOutcome

\* Neither the owner nor the note is part of the outcome.
LEMMA TurnOutcome ==
  ASSUME NEW r \in Record, NEW d, NEW t
  PROVE  SameOutcome(WithOwner(r, d), r) /\ SameOutcome(WithNote(r, t), r)
BY DEF SameOutcome, WithOwner, WithNote, Record

\* Under Unrepeated the only fault is a killed task process.
LEMMA UnrepeatedFaults ==
  ASSUME Unrepeated, TypeInv, NEW w \in Workers, FaultStep(w)
  PROVE  LoseProcess(w)
<1>1. ~WriteUnanswered(w)
  BY DEF Unrepeated, WriteUnanswered, TypeInv, TypeOK, WorkerTypeOK
<1>. QED
  BY <1>1, RunOnceFaults DEF Unrepeated

\* A submission writes its record before anybody else can.
LEMMA PhaseSubmission ==
  ASSUME DeliveryInv, PhaseInv, NEW j \in Jobs, Submission(j)
  PROVE  PhaseInv'
<1>. USE DEF DeliveryInv, TypeInv, TypeOK, StoreTypeOK, RouterTypeOK, Advance
<1>0. None \notin Record
  OBVIOUS
<1>1. RouterStep(j) /\ UNCHANGED <<workerVars, historyVars>>
  BY DEF Submission
<1>2. CASE Create(j) \/ Serve(j)
  <2>1. /\ \A w \in Workers : wjob[w] # j
        /\ queue[j] = 0
    BY <1>2 DEF NotYetSent, Create, Serve
  <2>2. \A d \in Devices : hpc[d] # "chat" => hjob[d] # j
    BY <1>0, <1>2 DEF Create, Serve, PhaseInv, JobPhase, TurnPhase,
       HistoryTypeOK, HistoryReady
  <2>3. PICK r, pc : /\ rec' = [rec EXCEPT ![j] = r]
                     /\ Plain(r)
                     /\ pc \in {"created", "served"}
                     /\ pc = "created" => r.status = "PENDING"
                     /\ spc' = [spc EXCEPT ![j] = pc]
    <3>1. CASE Create(j)
      BY <3>1, PlainCalls DEF Create
    <3>2. CASE Serve(j)
      <4>1. Plain(rec[j]) /\ rec[j].status = "PENDING"
        BY <3>2 DEF Serve, PhaseInv, JobPhase, RouterReady
      <4>2. Plain(WithStatus(rec[j], CompletedCall(sentry[j])))
        BY <4>1, PlainCalls, PlainStatus
      <4>. QED
        BY <3>2, <4>2 DEF Serve
    <3>. QED
      BY <1>2, <3>1, <3>2
  <2>4. UNCHANGED <<queue, cache>>
    BY <1>2 DEF Create, Serve
  <2>5. JobPhase'
    BY <2>1, <2>3, <2>4 DEF PhaseInv, JobPhase
  <2>6. TaskPhase'
    <3>1. \A w \in Workers : wpc[w] # "idle" =>
            wjob[w] \in Jobs /\ rec'[wjob[w]] = rec[wjob[w]]
      BY <2>1, <2>3 DEF WorkerTypeOK, WorkerReady
    <3>. QED
      BY <1>1, <3>1 DEF PhaseInv, TaskPhase, workerVars
  <2>7. TurnPhase'
    <3>1. \A d \in Devices : hpc[d] # "chat" =>
            hjob[d] \in Jobs /\ rec'[hjob[d]] = rec[hjob[d]]
      BY <2>2, <2>3 DEF HistoryTypeOK, HistoryReady
    <3>. QED
      BY <1>1, <3>1 DEF PhaseInv, TurnPhase, historyVars
  <2>. QED
    BY <2>5, <2>6, <2>7 DEF PhaseInv
<1>3. CASE \/ LookUp(j) \/ Dispatch(j) \/ Answer(j)
           \/ RaiseOutage(j) \/ RaiseUnhashable(j)
  <2>1. UNCHANGED <<rec, cache>>
    BY <1>3 DEF LookUp, Dispatch, Answer, RaiseOutage, RaiseUnhashable,
                storeVars
  <2>2. JobPhase'
    BY <1>3 DEF LookUp, Dispatch, Answer, RaiseOutage, RaiseUnhashable,
       storeVars, PhaseInv, JobPhase
  <2>. QED
    BY <1>1, <2>1, <2>2 DEF PhaseInv, TaskPhase, TurnPhase, workerVars,
                            historyVars
<1>. QED
  BY <1>1, <1>2, <1>3 DEF RouterStep

\* A worker writes the record of its own job, and nobody else's.
LEMMA PhaseWrite ==
  ASSUME DeliveryInv, PhaseInv, NEW w \in Workers, Task(w), WriteRecord(w)
  PROVE  PhaseInv'
<1>. USE DEF DeliveryInv, TypeInv, TypeOK, StoreTypeOK, RouterTypeOK,
         WorkerTypeOK, PhaseInv, GoTo
<1>0. None \notin Record
  OBVIOUS
<1>1. /\ wjob[w] \in Jobs
      /\ wrec[w] = rec[wjob[w]]
      /\ rec[wjob[w]] # None
      /\ Plain(rec[wjob[w]])
      /\ rec[wjob[w]].status \in {"PENDING", "RUNNING"}
      /\ Plain(wcall[w])
      /\ wcall[w].status \in {"RUNNING", "COMPLETED", "FAILED"}
  BY DEF WriteRecord, WorkerReady, TaskPhase, JobPhase
<1>2. PICK r : /\ rec' = [rec EXCEPT ![wjob[w]] = r]
               /\ Plain(r)
               /\ r.status = wcall[w].status
  <2>1. /\ Plain(WithStatus(wrec[w], wcall[w]))
        /\ WithStatus(wrec[w], wcall[w]).status = wcall[w].status
    BY <1>1, PlainStatus
  <2>. QED
    BY <2>1 DEF WriteRecord, StoreRecord
<1>3. /\ queue[wjob[w]] = 0
      /\ spc[wjob[w]] \notin {"new", "created", "hit", "miss"}
      /\ \A v \in Workers \ {w} : wjob[v] # wjob[w]
  BY <1>1 DEF NotYetSent, SingleDelivery
<1>4. UNCHANGED <<spc, queue, cache, wjob, wcall, hpc, hjob, hrec>>
  BY DEF WriteRecord, Task, routerVars, historyVars
<1>5. JobPhase'
  BY <1>1, <1>2, <1>3, <1>4 DEF JobPhase
<1>6. TaskPhase'
  <2>1. \A v \in Workers \ {w} : wpc[v] # "idle" =>
          wjob[v] \in Jobs /\ rec'[wjob[v]] = rec[wjob[v]]
    BY <1>2, <1>3 DEF WorkerReady
  <2>2. \A v \in Workers \ {w} : wpc'[v] = wpc[v] /\ wrec'[v] = wrec[v]
    BY DEF WriteRecord, StoreRecord
  <2>3. wpc'[w] = IF wcall[w].status = "RUNNING" THEN "validate" ELSE "ack"
    BY DEF WriteRecord
  <2>. QED
    BY <1>1, <1>2, <1>4, <2>1, <2>2, <2>3 DEF TaskPhase
<1>7. TurnPhase'
  <2>1. \A d \in Devices : hpc[d] # "chat" =>
          hjob[d] \in Jobs /\ rec'[hjob[d]] = rec[hjob[d]]
    BY <1>1, <1>2 DEF HistoryTypeOK, HistoryReady, TurnPhase
  <2>. QED
    BY <1>4, <2>1 DEF TurnPhase
<1>. QED
  BY <1>5, <1>6, <1>7

\* The other steps of a task write no record; each call it begins fits the
\* status that the task has recorded.
LEMMA PhaseTask ==
  ASSUME Unrepeated, DeliveryInv, PhaseInv, NEW w \in Workers,
         Task(w) \/ Fault(w), ~WriteRecord(w)
  PROVE  PhaseInv'
<1>. USE PlainCalls
     DEF DeliveryInv, TypeInv, TypeOK, StoreTypeOK, WorkerTypeOK, GoTo
<1>1. /\ TaskStep(w) \/ LoseProcess(w)
      /\ UNCHANGED <<spc, historyVars>>
  BY UnrepeatedFaults DEF Task, Fault, routerVars
<1>2. UNCHANGED rec
  BY <1>1
     DEF TaskStep, Take, ReadRecord, RaiseOutageIn, Validate, Build,
         BuildFails, BuildRaises, StartRun, RunnerFails, RunSucceeds, RunFails,
         Parse, ParseFails, ClearArtifact, CopyArtifact, CopyRaises, Publish,
         Ack, LoseProcess, storeVars
<1>3. TurnPhase'
  BY <1>1, <1>2 DEF PhaseInv, TurnPhase, historyVars
<1>4. JobPhase'
  <2>1. \A j \in Jobs : queue'[j] > 0 => queue[j] > 0
    <3>1. ASSUME NEW i \in Jobs, Take(w, i)
          PROVE  \A j \in Jobs : queue'[j] > 0 => queue[j] > 0
      BY <3>1 DEF Take
    <3>2. CASE queue' = queue
      BY <3>2
    <3>. QED
      BY <1>1, <3>1, <3>2, QueueSteps DEF Unrepeated, FaultStep
  <2>2. \A k \in Keys : cache[k] # None => cache'[k] # None
    <3>1. CASE Publish(w)
      <4>1. [ref |-> wjob[w], result |-> wresult[w]] \in Entry
        BY <3>1 DEF Publish, WorkerReady, Entry
      <4>. DEFINE entry == [ref |-> wjob[w], result |-> wresult[w]]
      <4>2. cache' \in {cache, [cache EXCEPT ![KeyOf[wjob[w]]] = entry]}
        BY <3>1 DEF Publish
      <4>. HIDE DEF entry
      <4>3. entry # None
        BY <4>1 DEF entry
      <4>. QED
        BY <4>2, <4>3
    <3>2. CASE cache' = cache
      BY <3>2
    <3>. QED
      BY <1>1, <3>1, <3>2
         DEF TaskStep, Take, ReadRecord, WriteRecord, RaiseOutageIn, Validate,
             Build, BuildFails, BuildRaises, StartRun, RunnerFails,
             RunSucceeds, RunFails, Parse, ParseFails, ClearArtifact,
             CopyArtifact, CopyRaises, Ack, LoseProcess, storeVars
  <2>. QED
    BY <1>1, <1>2, <2>1, <2>2 DEF PhaseInv, JobPhase
<1>5. TaskPhase'
  <2>. SUFFICES ASSUME NEW v \in Workers PROVE TaskPhase!(v)'
    BY DEF TaskPhase
  <2>1. CASE v # w
    <3>1. /\ wpc'[v] = wpc[v] /\ wjob'[v] = wjob[v]
          /\ wcall'[v] = wcall[v] /\ wrec'[v] = wrec[v]
      BY <1>1, <2>1, OthersStay DEF FaultStep
    <3>. QED
      BY <1>2, <3>1 DEF PhaseInv, TaskPhase
  <2>2. CASE v = w
    <3>. USE <1>2, <2>2 DEF PhaseInv, TaskPhase, Begin, Fail, Raise
    <3>1. ASSUME NEW j \in Jobs, Take(w, j) PROVE TaskPhase!(v)'
      BY <3>1 DEF Take, JobPhase
    <3>2. CASE ReadRecord(w)
      BY <3>2 DEF ReadRecord
    <3>3. CASE RaiseOutageIn(w)
      BY <3>3 DEF RaiseOutageIn
    <3>4. CASE \/ Validate(w) \/ Build(w) \/ BuildFails(w) \/ BuildRaises(w)
      BY <3>4 DEF Validate, Build, BuildFails, BuildRaises
    <3>5. CASE StartRun(w) \/ RunnerFails(w) \/ RunSucceeds(w) \/ RunFails(w)
      BY <3>5 DEF StartRun, RunnerFails, RunSucceeds, RunFails
    <3>6. CASE \/ Parse(w) \/ ParseFails(w) \/ ClearArtifact(w)
               \/ CopyArtifact(w) \/ CopyRaises(w)
      BY <3>6 DEF Parse, ParseFails, ClearArtifact, CopyArtifact, CopyRaises
    <3>7. CASE Publish(w)
      BY <3>7 DEF Publish
    <3>8. CASE Ack(w) \/ LoseProcess(w)
      BY <3>8 DEF Ack, LoseProcess, Rest
    <3>. QED
      BY <1>1, <3>1, <3>2, <3>3, <3>4, <3>5, <3>6, <3>7, <3>8 DEF TaskStep
  <2>. QED
    BY <2>1, <2>2
<1>. QED
  BY <1>3, <1>4, <1>5 DEF PhaseInv

\* A chat turn writes back the outcome it read, which is still the one there.
LEMMA PhaseTurn ==
  ASSUME DeliveryInv, PhaseInv, NEW d \in Devices, Turn(d)
  PROVE  PhaseInv'
<1>. USE DEF DeliveryInv, TypeInv, TypeOK, StoreTypeOK, HistoryTypeOK,
         HistoryReady, TurnTo, EndTurn
<1>0. None \notin Record
  OBVIOUS
<1>1. /\ HistoryStep(d)
      /\ UNCHANGED <<spc, queue, cache, wpc, wjob, wcall, wrec>>
  BY DEF Turn, routerVars, workerVars, HistoryStep, SeeCompleted,
         ReadForUpdate, WriteOwner, WriteNote, TurnRaises, storeVars
<1>2. \A e \in Devices \ {d} :
        hpc'[e] = hpc[e] /\ hjob'[e] = hjob[e] /\ hrec'[e] = hrec[e]
  BY <1>1 DEF HistoryStep, SeeCompleted, ReadForUpdate, WriteOwner, WriteNote,
              TurnRaises
<1>3. ASSUME NEW j \in Jobs, SeeCompleted(d, j) PROVE PhaseInv'
  BY <1>1, <1>2, <1>3 DEF SeeCompleted, PublicView, storeVars, PhaseInv,
     JobPhase, TaskPhase, TurnPhase
<1>4. CASE ReadForUpdate(d)
  <2>1. /\ hrec'[d] = rec[hjob[d]] /\ hjob' = hjob /\ rec' = rec
        /\ hpc[d] # "chat"
    BY <1>4 DEF ReadForUpdate, storeVars
  <2>2. TurnPhase'
    BY <1>2, <2>1 DEF PhaseInv, TurnPhase, SameOutcome
  <2>. QED
    BY <1>1, <2>1, <2>2 DEF PhaseInv, JobPhase, TaskPhase
<1>5. CASE WriteOwner(d) \/ WriteNote(d)
  <2>1. /\ hjob[d] \in Jobs /\ hrec[d] \in Record
        /\ SameOutcome(hrec[d], rec[hjob[d]])
        /\ rec[hjob[d]].status = "COMPLETED"
        /\ Plain(rec[hjob[d]]) /\ rec[hjob[d]] # None
    BY <1>5 DEF WriteOwner, WriteNote, PhaseInv, TurnPhase, JobPhase
  <2>2. PICK r : /\ rec' = [rec EXCEPT ![hjob[d]] = r]
                 /\ SameOutcome(r, rec[hjob[d]])
    <3>1. /\ SameOutcome(WithOwner(hrec[d], d), rec[hjob[d]])
          /\ SameOutcome(WithNote(hrec[d], hnote[d]), rec[hjob[d]])
      <4>1. /\ SameOutcome(WithOwner(hrec[d], d), hrec[d])
            /\ SameOutcome(WithNote(hrec[d], hnote[d]), hrec[d])
        BY <2>1, TurnOutcome
      <4>. QED
        BY <2>1, <4>1, SameOutcomeTransitive
    <3>. QED
      BY <1>5, <3>1 DEF WriteOwner, WriteNote
  <2>3. Plain(r) /\ r.status = "COMPLETED"
    BY <2>1, <2>2, PlainOutcome DEF SameOutcome
  <2>4. \A j \in Jobs : rec[j] # None => SameOutcome(rec'[j], rec[j])
    BY <2>2 DEF SameOutcome
  <2>5. JobPhase'
    BY <1>1, <2>1, <2>2, <2>3 DEF PhaseInv, JobPhase, RouterReady
  <2>6. TaskPhase'
    <3>1. \A w \in Workers : wpc[w] = "write" => wjob[w] # hjob[d]
      BY <2>1 DEF PhaseInv, TaskPhase
    <3>2. \A w \in Workers : wpc[w] # "idle" =>
            wjob[w] \in Jobs /\ rec'[wjob[w]].status = rec[wjob[w]].status
      BY <2>4 DEF WorkerTypeOK, WorkerReady, SameOutcome
    <3>. QED
      BY <1>1, <2>2, <3>1, <3>2 DEF PhaseInv, TaskPhase
  <2>7. TurnPhase'
    <3>1. \A e \in Devices : hpc[e] # "chat" =>
            hjob[e] \in Jobs /\ SameOutcome(rec'[hjob[e]], rec[hjob[e]])
      BY <2>4
    <3>2. hpc'[d] \in {"chat", "readNote"}
          /\ (hpc'[d] # "chat" => hjob'[d] = hjob[d])
      BY <1>5 DEF WriteOwner, WriteNote
    <3>3. ASSUME NEW e \in Devices, hpc'[e] # "chat"
          PROVE  /\ rec'[hjob'[e]].status = "COMPLETED"
                 /\ hpc'[e] \in {"writeOwner", "writeNote"} =>
                      SameOutcome(hrec'[e], rec'[hjob'[e]])
      <4>1. hpc[e] # "chat" /\ hjob'[e] = hjob[e]
        BY <1>2, <1>5, <3>2, <3>3 DEF WriteOwner, WriteNote
      <4>2. rec'[hjob[e]].status = "COMPLETED"
        BY <3>1, <4>1 DEF PhaseInv, TurnPhase, SameOutcome
      <4>3. hpc'[e] \in {"writeOwner", "writeNote"} =>
              hrec'[e] = hrec[e] /\ SameOutcome(hrec[e], rec[hjob[e]])
        BY <1>2, <3>2 DEF PhaseInv, TurnPhase
      <4>4. SameOutcome(rec[hjob[e]], rec'[hjob[e]])
        BY <3>1, <4>1 DEF SameOutcome
      <4>. QED
        BY <4>1, <4>2, <4>3, <4>4, SameOutcomeTransitive
    <3>. QED
      BY <3>3 DEF TurnPhase
  <2>. QED
    BY <2>5, <2>6, <2>7 DEF PhaseInv
<1>6. CASE TurnRaises(d)
  BY <1>1, <1>2, <1>6 DEF TurnRaises, storeVars, PhaseInv, JobPhase, TaskPhase,
     TurnPhase
<1>. QED
  BY <1>1, <1>3, <1>4, <1>5, <1>6 DEF HistoryStep

\* The order of writers is inductive.
LEMMA PhaseNext ==
  ASSUME Unrepeated, DeliveryInv, PhaseInv, [Next]_vars
  PROVE  PhaseInv'
<1>1. ASSUME NEW j \in Jobs, Submission(j) PROVE PhaseInv'
  BY <1>1, PhaseSubmission
<1>2. ASSUME NEW w \in Workers, Task(w) \/ Fault(w) PROVE PhaseInv'
  <2>1. CASE WriteRecord(w) /\ Task(w)
    BY <2>1, PhaseWrite
  <2>2. Fault(w) => ~WriteRecord(w)
    BY UnrepeatedFaults
       DEF Fault, LoseProcess, WriteRecord, DeliveryInv, TypeInv, TypeOK,
           WorkerTypeOK, Rest, GoTo
  <2>. QED
    BY <1>2, <2>1, <2>2, PhaseTask
<1>3. ASSUME NEW d \in Devices, Turn(d) PROVE PhaseInv'
  BY <1>3, PhaseTurn
<1>4. CASE UNCHANGED <<rec, cache, queue, spc, wpc, wjob, wcall, wrec, hpc,
                       hjob, hrec>>
  BY <1>4 DEF PhaseInv, JobPhase, TaskPhase, TurnPhase
<1>5. ASSUME NEW c \in Cases, Orphan(c) PROVE PhaseInv'
  BY <1>4, <1>5 DEF Orphan, OrphanEnds, storeVars, routerVars, historyVars
<1>6. CASE Outage \/ Recovery \/ UNCHANGED vars
  BY <1>4, <1>6 DEF Outage, Recovery, GoDown, ComeBack, vars, storeVars,
                    routerVars, workerVars, historyVars
<1>. QED
  BY <1>1, <1>2, <1>3, <1>5, <1>6 DEF Next

-----------------------------------------------------------------------------
\* What a step writes over a record, and on which terms.
LEMMA RecordWrites ==
  ASSUME Unrepeated, DeliveryInv, PhaseInv, [Next]_vars
  PROVE  \/ rec' = rec
         \/ \E j \in Jobs : Submission(j) /\ (Create(j) \/ Serve(j))
         \/ \E w \in Workers : Task(w) /\ WriteRecord(w)
         \/ \E d \in Devices : Turn(d) /\ (WriteOwner(d) \/ WriteNote(d))
<1>1. \A w \in Workers : ~(Fault(w) /\ WriteUnanswered(w))
  BY DEF Unrepeated, WriteUnanswered, DeliveryInv, TypeInv, TypeOK,
         WorkerTypeOK
<1>. QED
  BY <1>1, RecordSteps

\* Only a chat turn writes over a final record, and it repeats the outcome.
LEMMA OutcomeKept ==
  ASSUME Unrepeated, DeliveryInv, PhaseInv, [Next]_vars,
         NEW j \in Jobs, Final(j)
  PROVE  SameOutcome(rec'[j], rec[j])
<1>. USE DEF DeliveryInv, TypeInv, TypeOK, StoreTypeOK, Final, Terminal
<1>0. /\ None \notin Record
      /\ rec[j] # None /\ rec[j].status \in {"COMPLETED", "FAILED"}
      /\ SameOutcome(rec[j], rec[j])
  BY DEF SameOutcome
<1>1. ASSUME NEW i \in Jobs, Create(i) \/ Serve(i) PROVE rec'[j] = rec[j]
  <2>1. i # j
    BY <1>0, <1>1 DEF Create, Serve, PhaseInv, JobPhase
  <2>. QED
    BY <1>1, <2>1 DEF Create, Serve
<1>2. ASSUME NEW w \in Workers, WriteRecord(w) PROVE rec'[j] = rec[j]
  <2>1. wjob[w] # j
    BY <1>0, <1>2 DEF WriteRecord, PhaseInv, TaskPhase
  <2>. QED
    BY <1>2, <2>1 DEF WriteRecord, StoreRecord
<1>3. ASSUME NEW d \in Devices, WriteOwner(d) \/ WriteNote(d)
      PROVE  SameOutcome(rec'[j], rec[j])
  <2>1. /\ hrec[d] \in Record
        /\ SameOutcome(hrec[d], rec[hjob[d]])
    BY <1>3 DEF WriteOwner, WriteNote, PhaseInv, TurnPhase, HistoryTypeOK,
                HistoryReady
  <2>2. /\ SameOutcome(WithOwner(hrec[d], d), hrec[d])
        /\ SameOutcome(WithNote(hrec[d], hnote[d]), hrec[d])
    BY <2>1, TurnOutcome
  <2>3. /\ SameOutcome(WithOwner(hrec[d], d), rec[hjob[d]])
        /\ SameOutcome(WithNote(hrec[d], hnote[d]), rec[hjob[d]])
    BY <2>1, <2>2, SameOutcomeTransitive
  <2>. QED
    BY <1>0, <1>3, <2>3 DEF WriteOwner, WriteNote
<1>. QED
  BY <1>0, <1>1, <1>2, <1>3, RecordWrites

\* The invariant that the theorems of this module share.
OutcomeInv == DeliveryInv /\ PhaseInv

LEMMA OutcomeInvInit == Init => OutcomeInv
BY DeliveryInit, PhaseInit DEF OutcomeInv

LEMMA OutcomeInvNext ==
  ASSUME Unrepeated, OutcomeInv, [Next]_vars
  PROVE  OutcomeInv'
BY DeliveryNext, PhaseNext DEF OutcomeInv, NoRepeats, RunOnce, Unrepeated

\* COMPLETED and FAILED are final: job_store.py:4 promises PENDING, RUNNING
\* and then one of them, and neither an outage, a killed process nor a chat
\* turn's read-modify-write of the whole record takes a job out of its
\* outcome or changes what the job shows.
THEOREM OutcomesFinal ==
  ASSUME Unrepeated
  PROVE  Spec => TerminalStable
<1>1. Init => OutcomeInv
  BY OutcomeInvInit
<1>2. OutcomeInv /\ [Next]_vars => OutcomeInv'
  BY OutcomeInvNext
<1>3. OutcomeInv /\ [Next]_vars =>
        [\A j \in Jobs :
           Final(j) => PublicView(rec'[j]) = PublicView(rec[j])]_vars
  <2>. SUFFICES ASSUME OutcomeInv, [Next]_vars, NEW j \in Jobs, Final(j)
                PROVE  PublicView(rec'[j]) = PublicView(rec[j])
    OBVIOUS
  <2>1. SameOutcome(rec'[j], rec[j])
    BY OutcomeKept DEF OutcomeInv
  <2>. QED
    BY <2>1 DEF SameOutcome, PublicView
<1>. QED
  BY <1>1, <1>2, <1>3, PTL DEF Spec, TerminalStable

\* A history card never shows a result together with an error, although
\* _list_view shows every field whatever the status (job_store.py:140-152)
\* and set_status never clears one.
THEOREM OutcomesSingle ==
  ASSUME Unrepeated
  PROVE  Spec => []OneOutcome
<1>1. Init => OutcomeInv
  BY OutcomeInvInit
<1>2. OutcomeInv /\ [Next]_vars => OutcomeInv'
  BY OutcomeInvNext
<1>3. OutcomeInv => OneOutcome
  <2>. SUFFICES ASSUME OutcomeInv, NEW j \in Jobs, rec[j] # None
                PROVE  rec[j].result = None \/ rec[j].error = None
    BY DEF OneOutcome, ListView
  <2>1. Plain(rec[j]) /\ rec[j] \in Record
    BY DEF OutcomeInv, DeliveryInv, TypeInv, TypeOK, StoreTypeOK, PhaseInv,
           JobPhase
  <2>. QED
    BY <2>1 DEF Plain, Record, Status, Terminal
<1>. QED
  BY <1>1, <1>2, <1>3, PTL DEF Spec

-----------------------------------------------------------------------------
OwnerStays(j) ==
  rec[j] # None /\ rec[j].owner # None =>
    rec'[j] # None /\ rec'[j].owner = rec[j].owner

\* set_status puts back the owner it read, which is the one there.
LEMMA StatusKeepsOwner ==
  ASSUME DeliveryInv, PhaseInv, NEW i \in Jobs,
         \/ Create(i) \/ Serve(i)
         \/ \E w \in Workers : WriteRecord(w) /\ wjob[w] = i
  PROVE  /\ rec'[i] # None
         /\ rec[i] = None => rec'[i].owner = None
         /\ rec[i] # None => rec'[i].owner = rec[i].owner
         /\ \A j \in Jobs \ {i} : rec'[j] = rec[j]
<1>. USE DEF DeliveryInv, TypeInv, TypeOK, StoreTypeOK
<1>0. None \notin Record
  OBVIOUS
<1>1. CASE Create(i)
  <2>1. rec[i] = None
    BY <1>1 DEF Create, PhaseInv, JobPhase
  <2>2. NewRecord # None /\ NewRecord.owner = None
    BY RecordTypes DEF NewRecord
  <2>. QED
    BY <1>1, <2>1, <2>2 DEF Create
<1>2. CASE Serve(i)
  <2>1. rec[i] \in Record /\ CompletedCall(sentry[i]) \in Call
    BY <1>2, RecordTypes DEF Serve, RouterReady, RouterTypeOK
  <2>2. WithStatus(rec[i], CompletedCall(sentry[i])) \in Record
    BY <2>1, RecordTypes
  <2>3. WithStatus(rec[i], CompletedCall(sentry[i])).owner = rec[i].owner
    BY DEF WithStatus
  <2>. QED
    BY <1>0, <1>2, <2>1, <2>2, <2>3 DEF Serve
<1>3. ASSUME NEW w \in Workers, WriteRecord(w), wjob[w] = i
      PROVE  /\ rec'[i] # None
             /\ rec[i] = None => rec'[i].owner = None
             /\ rec[i] # None => rec'[i].owner = rec[i].owner
             /\ \A j \in Jobs \ {i} : rec'[j] = rec[j]
  <2>1. rec[i] \in Record /\ wrec[w] = rec[i] /\ wcall[w] \in Call
    BY <1>3 DEF WriteRecord, WorkerReady, WorkerTypeOK, PhaseInv, TaskPhase
  <2>2. WithStatus(wrec[w], wcall[w]) \in Record
    BY <2>1, RecordTypes
  <2>3. WithStatus(wrec[w], wcall[w]).owner = wrec[w].owner
    BY DEF WithStatus
  <2>. QED
    BY <1>0, <1>3, <2>1, <2>2, <2>3 DEF WriteRecord, StoreRecord
<1>. QED
  BY <1>1, <1>2, <1>3

\* set_owner writes the only device there is, set_interpretation the owner
\* that is there.
LEMMA TurnKeepsOwner ==
  ASSUME OneAsker, DeliveryInv, PhaseInv, OwnerSound,
         NEW d \in Devices, Turn(d), WriteOwner(d) \/ WriteNote(d)
  PROVE  /\ hjob[d] \in Jobs /\ rec[hjob[d]] # None
         /\ rec'[hjob[d]] # None
         /\ rec'[hjob[d]].owner \in {d, rec[hjob[d]].owner}
         /\ OwnerStays(hjob[d])
         /\ \A j \in Jobs \ {hjob[d]} : rec'[j] = rec[j]
<1>. USE DEF DeliveryInv, TypeInv, TypeOK, StoreTypeOK, HistoryTypeOK,
         HistoryReady
<1>1. /\ hjob[d] \in Jobs /\ hrec[d] \in Record /\ rec[hjob[d]] \in Record
      /\ hjob[d] \in Asks[d] /\ hpc[d] \in {"writeOwner", "writeNote"}
      /\ None \notin Record
  BY DEF WriteOwner, WriteNote, OwnerSound
<1>2. rec[hjob[d]].owner # None => rec[hjob[d]].owner = d
  <2>1. rec[hjob[d]].owner \in Devices \cup {None}
    BY <1>1 DEF Record
  <2>. QED
    BY <1>1, <2>1 DEF OwnerSound, OneAsker
<1>3. CASE WriteOwner(d)
  <2>1. /\ WithOwner(hrec[d], d) \in Record
        /\ WithOwner(hrec[d], d).owner = d
    BY <1>1, RecordTypes DEF WithOwner, Record
  <2>2. rec' = [rec EXCEPT ![hjob[d]] = WithOwner(hrec[d], d)]
    BY <1>3 DEF WriteOwner
  <2>. QED
    BY <1>1, <1>2, <2>1, <2>2 DEF OwnerStays
<1>4. CASE WriteNote(d)
  <2>1. /\ hnote[d] \in Output \cup {None}
        /\ WithNote(hrec[d], hnote[d]) \in Record
        /\ WithNote(hrec[d], hnote[d]).owner = hrec[d].owner
    BY <1>1, RecordTypes DEF WithNote, Record
  <2>2. hrec[d].owner = rec[hjob[d]].owner
    BY <1>4 DEF WriteNote, OwnerSound
  <2>3. rec' = [rec EXCEPT ![hjob[d]] = WithNote(hrec[d], hnote[d])]
    BY <1>4 DEF WriteNote
  <2>. QED
    BY <1>1, <2>1, <2>2, <2>3 DEF OwnerStays
<1>. QED
  BY <1>3, <1>4

\* No step takes an owner away.
LEMMA OwnersStay ==
  ASSUME Unrepeated, OneAsker, DeliveryInv, PhaseInv, OwnerSound, [Next]_vars
  PROVE  \A j \in Jobs : OwnerStays(j)
<1>1. ASSUME NEW i \in Jobs, Create(i) \/ Serve(i)
      PROVE  \A j \in Jobs : OwnerStays(j)
  BY <1>1, StatusKeepsOwner DEF OwnerStays
<1>2. ASSUME NEW w \in Workers, WriteRecord(w)
      PROVE  \A j \in Jobs : OwnerStays(j)
  <2>1. wjob[w] \in Jobs
    BY <1>2 DEF WriteRecord, DeliveryInv, TypeInv, TypeOK, WorkerTypeOK,
                WorkerReady
  <2>. QED
    BY <1>2, <2>1, StatusKeepsOwner DEF OwnerStays
<1>3. ASSUME NEW d \in Devices, Turn(d), WriteOwner(d) \/ WriteNote(d)
      PROVE  \A j \in Jobs : OwnerStays(j)
  BY <1>3, TurnKeepsOwner DEF OwnerStays
<1>4. CASE rec' = rec
  BY <1>4 DEF OwnerStays
<1>. QED
  BY <1>1, <1>2, <1>3, <1>4, RecordWrites

\* The owner of a record, and the one a turn has read.
LEMMA OwnerSoundNext ==
  ASSUME Unrepeated, OneAsker, DeliveryInv, PhaseInv, OwnerSound, [Next]_vars
  PROVE  OwnerSound'
<1>. USE DEF DeliveryInv, TypeInv, TypeOK, StoreTypeOK, HistoryTypeOK,
         HistoryReady, TurnTo, EndTurn
<1>1. ASSUME NEW j \in Jobs, rec'[j] # None, rec'[j].owner # None
      PROVE  j \in Asks[rec'[j].owner]
  <2>1. ASSUME NEW i \in Jobs,
               \/ Create(i) \/ Serve(i)
               \/ \E w \in Workers : WriteRecord(w) /\ wjob[w] = i
        PROVE  j \in Asks[rec'[j].owner]
    BY <1>1, <2>1, StatusKeepsOwner DEF OwnerSound
  <2>2. \A w \in Workers : WriteRecord(w) => wjob[w] \in Jobs
    BY DEF WriteRecord, WorkerTypeOK, WorkerReady
  <2>3. ASSUME NEW d \in Devices, Turn(d), WriteOwner(d) \/ WriteNote(d)
        PROVE  j \in Asks[rec'[j].owner]
    <3>1. hjob[d] \in Asks[d]
      BY <2>3 DEF WriteOwner, WriteNote, OwnerSound
    <3>. QED
      BY <1>1, <2>3, <3>1, TurnKeepsOwner DEF OwnerSound
  <2>4. CASE rec' = rec
    BY <1>1, <2>4 DEF OwnerSound
  <2>. QED
    BY <2>1, <2>2, <2>3, <2>4, RecordWrites
<1>2. ASSUME NEW d \in Devices, hpc'[d] # "chat"
      PROVE  hjob'[d] \in Asks[d]
  <2>1. CASE \E e \in Devices : Turn(e)
    <3>1. PICK e \in Devices : HistoryStep(e)
      BY <2>1 DEF Turn
    <3>. QED
      BY <1>2, <3>1 DEF HistoryStep, SeeCompleted, ReadForUpdate, WriteOwner,
         WriteNote, TurnRaises, OwnerSound
  <2>2. CASE UNCHANGED historyVars
    BY <1>2, <2>2 DEF historyVars, OwnerSound
  <2>. QED
    BY <2>1, <2>2 DEF Next, vars, Submission, Task, Fault, Orphan, Outage,
                      Recovery
<1>3. ASSUME NEW d \in Devices, hpc[d] = "writeNote", hpc'[d] = "writeNote",
             hjob'[d] = hjob[d], hrec'[d] = hrec[d]
      PROVE  hrec'[d].owner = rec'[hjob'[d]].owner
  <2>1. /\ hjob[d] \in Jobs /\ rec[hjob[d]] # None
        /\ rec[hjob[d]].status = "COMPLETED" /\ hjob[d] \in Asks[d]
        /\ hrec[d].owner = rec[hjob[d]].owner
    BY <1>3 DEF PhaseInv, TurnPhase, OwnerSound
  <2>2. ASSUME NEW i \in Jobs, Create(i) \/ Serve(i)
        PROVE  rec'[hjob[d]] = rec[hjob[d]]
    <3>1. i # hjob[d]
      BY <2>1, <2>2 DEF Create, Serve, PhaseInv, JobPhase
    <3>. QED
      BY <2>1, <2>2, <3>1, StatusKeepsOwner
  <2>3. ASSUME NEW w \in Workers, WriteRecord(w)
        PROVE  rec'[hjob[d]] = rec[hjob[d]]
    <3>1. wjob[w] # hjob[d] /\ wjob[w] \in Jobs
      BY <2>1, <2>3 DEF WriteRecord, PhaseInv, TaskPhase, WorkerTypeOK,
                        WorkerReady
    <3>. QED
      BY <2>1, <2>3, <3>1, StatusKeepsOwner
  <2>4. ASSUME NEW e \in Devices, Turn(e), WriteOwner(e) \/ WriteNote(e)
        PROVE  rec'[hjob[d]].owner = rec[hjob[d]].owner
    <3>1. CASE e = d
      BY <1>3, <2>4, <3>1 DEF WriteOwner, WriteNote
    <3>2. CASE e # d
      <4>1. hjob[e] \in Asks[e]
        BY <2>4 DEF WriteOwner, WriteNote, OwnerSound
      <4>2. hjob[e] # hjob[d]
        BY <2>1, <3>2, <4>1 DEF OneAsker
      <4>. QED
        BY <2>1, <2>4, <4>2, TurnKeepsOwner
    <3>. QED
      BY <3>1, <3>2
  <2>. QED
    BY <1>3, <2>1, <2>2, <2>3, <2>4, RecordWrites
<1>4. ASSUME NEW d \in Devices, hpc'[d] = "writeNote"
      PROVE  hrec'[d].owner = rec'[hjob'[d]].owner
  <2>1. CASE \E e \in Devices : Turn(e)
    <3>1. PICK e \in Devices : Turn(e)
      BY <2>1
    <3>2. CASE e = d
      <4>1. ReadForUpdate(d)
        BY <1>4, <3>1, <3>2 DEF Turn, HistoryStep, SeeCompleted, WriteOwner,
                                WriteNote, TurnRaises
      <4>. QED
        BY <4>1 DEF ReadForUpdate, storeVars
    <3>3. CASE e # d
      <4>1. UNCHANGED <<hpc[d], hjob[d], hrec[d]>>
        BY <3>1, <3>3 DEF Turn, HistoryStep, SeeCompleted, ReadForUpdate,
           WriteOwner, WriteNote, TurnRaises
      <4>. QED
        BY <1>3, <1>4, <4>1
    <3>. QED
      BY <3>2, <3>3
  <2>2. CASE UNCHANGED historyVars
    BY <1>3, <1>4, <2>2 DEF historyVars
  <2>. QED
    BY <2>1, <2>2 DEF Next, vars, Submission, Task, Fault, Orphan, Outage,
                      Recovery
<1>. QED
  BY <1>1, <1>2, <1>4 DEF OwnerSound

\* A job that entered a device's history stays in it, as long as no other
\* device asks about it: the workers' and the other turns' read-modify-write
\* of the whole record never brings back a record without its owner
\* (job_store.py:94-106 and 119-137).
THEOREM HistoriesGrow ==
  ASSUME Unrepeated, OneAsker
  PROVE  Spec => HistoryKept
<1>. DEFINE Inv == OutcomeInv /\ OwnerSound
<1>1. Init => Inv
  <2>1. Init => OwnerSound
    BY DEF Init, StoreInit, HistoryInit, OwnerSound
  <2>. QED
    BY <2>1, OutcomeInvInit
<1>2. Inv /\ [Next]_vars => Inv'
  BY OutcomeInvNext, OwnerSoundNext DEF OutcomeInv
<1>3. Inv /\ [Next]_vars =>
        [\A d \in Devices : History(d) \subseteq History(d)']_vars
  <2>. SUFFICES ASSUME Inv, [Next]_vars, NEW d \in Devices, NEW j \in History(d)
                PROVE  j \in History(d)'
    OBVIOUS
  <2>1. j \in Jobs /\ rec[j] # None /\ rec[j].owner = d /\ d # None
    BY DEF History
  <2>2. OwnerStays(j)
    BY <2>1, OwnersStay DEF OutcomeInv
  <2>. QED
    BY <2>1, <2>2 DEF OwnerStays, History
<1>. QED
  BY <1>1, <1>2, <1>3, PTL DEF Spec, HistoryKept

-----------------------------------------------------------------------------
\* What one write shows of the lifecycle.
LEMMA LifecycleWrite ==
  ASSUME TypeInv, NEW j \in Jobs, NEW r \in Record,
         rec' = [rec EXCEPT ![j] = r]
  PROVE  /\ statusOf' = [statusOf EXCEPT ![j] = r.status]
         /\ answerOf' = [answerOf EXCEPT ![j] =
                           IF r.status = "COMPLETED" THEN r.result ELSE None]
<1>1. /\ r # None
      /\ rec'[j] = r
      /\ \A i \in Jobs \ {j} : rec'[i] = rec[i]
  BY DEF TypeInv, TypeOK, StoreTypeOK
<1>2. PublicView(r).result =
        IF r.status = "COMPLETED" THEN r.result ELSE None
  BY DEF PublicView
<1>3. statusOf' = [statusOf EXCEPT ![j] = r.status]
  <2>1. statusOf' = [i \in Jobs |-> IF i = j THEN r.status ELSE statusOf[i]]
    <3>1. ASSUME NEW i \in Jobs
          PROVE  (IF rec'[i] = None THEN "none" ELSE rec'[i].status)
                   = IF i = j THEN r.status ELSE statusOf[i]
      BY <1>1 DEF statusOf
    <3>. QED
      BY <3>1, Zenon DEF statusOf
  <2>. QED
    BY <2>1 DEF statusOf
<1>4. answerOf' = [answerOf EXCEPT ![j] = PublicView(r).result]
  <2>1. answerOf' = [i \in Jobs |-> IF i = j THEN PublicView(r).result
                                   ELSE answerOf[i]]
    <3>1. ASSUME NEW i \in Jobs
          PROVE  (IF rec'[i] = None THEN None ELSE PublicView(rec'[i]).result)
                   = IF i = j THEN PublicView(r).result ELSE answerOf[i]
      BY <1>1 DEF answerOf
    <3>. QED
      BY <3>1, Zenon DEF answerOf
  <2>. QED
    BY <2>1 DEF answerOf
<1>. QED
  BY <1>2, <1>3, <1>4

\* Where a job is in the lifecycle.
LEMMA LifecycleView ==
  ASSUME NEW j \in Jobs
  PROVE  /\ rec[j] = None => statusOf[j] = "none" /\ answerOf[j] = None
         /\ rec[j] # None => statusOf[j] = rec[j].status
         /\ rec[j] # None /\ rec[j].status # "COMPLETED" => answerOf[j] = None
         /\ rec[j] # None /\ rec[j].status = "COMPLETED" =>
              answerOf[j] = rec[j].result
         /\ answerOf = [answerOf EXCEPT ![j] = answerOf[j]]
         /\ statusOf = [statusOf EXCEPT ![j] = statusOf[j]]
BY DEF statusOf, answerOf, PublicView

\* A submission submits its job, or completes it from the cache.
LEMMA LifecycleSubmission ==
  ASSUME OutcomeInv, SoundInv, NEW j \in Jobs, Create(j) \/ Serve(j)
  PROVE  Lifecycle!Submit(j) \/ Lifecycle!Recall(j)
<1>. USE DEF OutcomeInv, DeliveryInv
<1>1. UNCHANGED knownKeys
  BY DEF Create, Serve, knownKeys
<1>2. CASE Create(j)
  <2>1. statusOf[j] = "none" /\ answerOf[j] = None
    BY <1>2, LifecycleView DEF Create, PhaseInv, JobPhase
  <2>2. NewRecord \in Record /\ NewRecord.status = "PENDING"
    BY RecordTypes DEF NewRecord
  <2>3. /\ statusOf' = [statusOf EXCEPT ![j] = "PENDING"]
        /\ answerOf' = [answerOf EXCEPT ![j] = None]
    BY <1>2, <2>2, LifecycleWrite DEF Create
  <2>. QED
    BY <1>1, <2>1, <2>3, LifecycleView DEF Lifecycle!Submit, Lifecycle!Move
<1>3. CASE Serve(j)
  <2>. DEFINE r == WithStatus(rec[j], CompletedCall(sentry[j]))
  <2>1. /\ rec[j] \in Record /\ sentry[j] \in Entry
        /\ rec[j] # None /\ rec[j].status = "PENDING"
        /\ cache[KeyOf[j]] # None
        /\ sentry[j].result = KeyOf[j]
    BY <1>3 DEF Serve, RouterReady, TypeInv, TypeOK, RouterTypeOK,
       StoreTypeOK, PhaseInv, JobPhase, SoundInv, ServedSound, Answers
  <2>2. r \in Record
    BY <2>1, RecordTypes
  <2>3. r.status = "COMPLETED" /\ r.result = KeyOf[j]
    BY <2>1 DEF WithStatus, Given, CompletedCall, Output
  <2>4. rec' = [rec EXCEPT ![j] = r]
    BY <1>3 DEF Serve
  <2>. HIDE DEF r
  <2>5. /\ statusOf' = [statusOf EXCEPT ![j] = "COMPLETED"]
        /\ answerOf' = [answerOf EXCEPT ![j] = KeyOf[j]]
    BY <2>2, <2>3, <2>4, LifecycleWrite
  <2>6. statusOf[j] = "PENDING" /\ KeyOf[j] \in knownKeys
    BY <2>1, LifecycleView DEF knownKeys
  <2>. QED
    BY <1>1, <2>5, <2>6 DEF Lifecycle!Recall, Lifecycle!Move
<1>. QED
  BY <1>2, <1>3

\* A worker's write starts, completes or rejects its job.
LEMMA LifecycleTask ==
  ASSUME OutcomeInv, SoundInv, NEW w \in Workers, WriteRecord(w)
  PROVE  \E j \in Jobs : \/ Lifecycle!Start(j)
                         \/ Lifecycle!Complete(j)
                         \/ Lifecycle!Reject(j)
<1>. USE DEF OutcomeInv, DeliveryInv
<1>. DEFINE j == wjob[w]
            r == WithStatus(wrec[w], wcall[w])
<1>1. /\ j \in Jobs /\ wcall[w] \in Call /\ rec[j] \in Record
      /\ rec[j] # None /\ rec[j] = wrec[w]
      /\ \/ wcall[w].status = "RUNNING" /\ rec[j].status = "PENDING"
         \/ wcall[w].status = "COMPLETED" /\ rec[j].status = "RUNNING"
         \/ /\ wcall[w].status = "FAILED"
            /\ rec[j].status \in {"PENDING", "RUNNING"}
      /\ wcall[w].status = "COMPLETED" => wcall[w].result = KeyOf[j]
  BY DEF WriteRecord, WorkerReady, TypeInv, TypeOK, WorkerTypeOK, StoreTypeOK,
         PhaseInv, TaskPhase, SoundInv, TaskSound, Answers
<1>2. r \in Record
  BY <1>1, RecordTypes
<1>3. /\ r.status = wcall[w].status
      /\ wcall[w].status = "COMPLETED" => r.result = KeyOf[j]
  BY <1>1 DEF WithStatus, Given, Output
<1>4. rec' = [rec EXCEPT ![j] = r] /\ UNCHANGED knownKeys
  BY DEF WriteRecord, StoreRecord, knownKeys
<1>. HIDE DEF j, r
<1>5. /\ statusOf' = [statusOf EXCEPT ![j] = r.status]
      /\ answerOf' = [answerOf EXCEPT ![j] =
                        IF r.status = "COMPLETED" THEN r.result ELSE None]
  BY <1>1, <1>2, <1>4, LifecycleWrite
<1>6. /\ statusOf[j] = rec[j].status
      /\ answerOf = [answerOf EXCEPT ![j] = None]
  BY <1>1, LifecycleView
<1>7. CASE wcall[w].status = "RUNNING"
  BY <1>1, <1>3, <1>4, <1>5, <1>6, <1>7 DEF Lifecycle!Start, Lifecycle!Move
<1>8. CASE wcall[w].status = "COMPLETED"
  BY <1>1, <1>3, <1>4, <1>5, <1>6, <1>8 DEF Lifecycle!Complete, Lifecycle!Move
<1>9. CASE wcall[w].status = "FAILED"
  BY <1>1, <1>3, <1>4, <1>5, <1>6, <1>9 DEF Lifecycle!Reject, Lifecycle!Move
<1>. QED
  BY <1>1, <1>7, <1>8, <1>9

\* A chat turn's write is not seen.
LEMMA LifecycleTurn ==
  ASSUME OutcomeInv, NEW d \in Devices, WriteOwner(d) \/ WriteNote(d)
  PROVE  UNCHANGED <<statusOf, answerOf, knownKeys>>
<1>. USE DEF OutcomeInv, DeliveryInv
<1>. DEFINE j == hjob[d]
<1>1. /\ j \in Jobs /\ hrec[d] \in Record /\ rec[j] \in Record
      /\ rec[j] # None
      /\ SameOutcome(hrec[d], rec[j])
      /\ hnote[d] \in Output \cup {None}
  BY DEF WriteOwner, WriteNote, PhaseInv, TurnPhase, HistoryReady, TypeInv,
         TypeOK, HistoryTypeOK, StoreTypeOK
<1>2. PICK r \in Record : /\ rec' = [rec EXCEPT ![j] = r]
                          /\ SameOutcome(r, rec[j])
  <2>1. WithOwner(hrec[d], d) \in Record /\ WithNote(hrec[d], hnote[d]) \in Record
    BY <1>1, RecordTypes
  <2>2. /\ SameOutcome(WithOwner(hrec[d], d), rec[j])
        /\ SameOutcome(WithNote(hrec[d], hnote[d]), rec[j])
    BY <1>1, TurnOutcome, SameOutcomeTransitive
  <2>. QED
    BY <2>1, <2>2 DEF WriteOwner, WriteNote
<1>3. UNCHANGED knownKeys
  BY DEF WriteOwner, WriteNote, knownKeys
<1>. HIDE DEF j
<1>4. /\ statusOf' = [statusOf EXCEPT ![j] = r.status]
      /\ answerOf' = [answerOf EXCEPT ![j] =
                        IF r.status = "COMPLETED" THEN r.result ELSE None]
  BY <1>1, <1>2, LifecycleWrite
<1>5. r.status = rec[j].status /\ r.result = rec[j].result
  BY <1>2 DEF SameOutcome
<1>. QED
  BY <1>1, <1>3, <1>4, <1>5, LifecycleView

\* The cache learns the answer of a job that is RUNNING, from nobody else.
LEMMA LifecycleLearns ==
  ASSUME OutcomeInv, [Next]_vars
  PROVE  \/ UNCHANGED knownKeys
         \/ UNCHANGED rec /\ \E j \in Jobs : Lifecycle!Learn(j)
<1>. USE DEF OutcomeInv, DeliveryInv
<1>1. ASSUME NEW w \in Workers, Publish(w)
      PROVE  \/ UNCHANGED knownKeys
             \/ UNCHANGED rec /\ \E j \in Jobs : Lifecycle!Learn(j)
  <2>. DEFINE j == wjob[w]
              entry == [ref |-> j, result |-> wresult[w]]
  <2>1. /\ j \in Jobs /\ rec[j] # None /\ rec[j].status = "RUNNING"
        /\ KeyOf[j] \in Keys
        /\ entry \in Entry
    BY <1>1 DEF Publish, WorkerReady, TypeInv, TypeOK, WorkerTypeOK,
       StoreTypeOK, PhaseInv, TaskPhase, Entry
  <2>2. entry # None
    BY <2>1
  <2>3. /\ cache' \in {cache, [cache EXCEPT ![KeyOf[j]] = entry]}
        /\ rec' = rec
    BY <1>1 DEF Publish
  <2>. HIDE DEF j, entry
  <2>4. CASE cache' = cache
    BY <2>4 DEF knownKeys
  <2>5. CASE cache' = [cache EXCEPT ![KeyOf[j]] = entry]
    <3>1. knownKeys' = knownKeys \cup {KeyOf[j]}
      BY <2>1, <2>2, <2>5 DEF knownKeys, TypeInv, TypeOK, StoreTypeOK
    <3>2. UNCHANGED <<statusOf, answerOf>>
      BY <2>3 DEF statusOf, answerOf
    <3>3. statusOf[j] = "RUNNING"
      BY <2>1, LifecycleView
    <3>. QED
      BY <2>1, <2>3, <3>1, <3>2, <3>3 DEF Lifecycle!Learn
  <2>. QED
    BY <2>3, <2>4, <2>5
<1>2. CASE UNCHANGED cache
  BY <1>2 DEF knownKeys
<1>3. UNCHANGED cache \/ \E w \in Workers : Publish(w)
  <2>1. ASSUME NEW j \in Jobs, Submission(j) PROVE UNCHANGED cache
    BY <2>1 DEF Submission, RouterStep, Create, LookUp, Serve, Dispatch,
                Answer, RaiseOutage, RaiseUnhashable, storeVars
  <2>2. ASSUME NEW w \in Workers, TaskStep(w) \/ FaultStep(w), ~Publish(w)
        PROVE  UNCHANGED cache
    BY <2>2
       DEF TaskStep, FaultStep, Take, ReadRecord, WriteRecord, WriteUnanswered,
           RaiseOutageIn, Validate, Build, BuildFails, BuildRaises, StartRun,
           RunnerFails, RunSucceeds, RunFails, Parse, ParseFails,
           ClearArtifact, CopyArtifact, CopyRaises, Ack, AckLost, Redeliver,
           Crash, LoseProcess, storeVars
  <2>3. ASSUME NEW d \in Devices, Turn(d) PROVE UNCHANGED cache
    BY <2>3 DEF Turn, HistoryStep, SeeCompleted, ReadForUpdate, WriteOwner,
                WriteNote, TurnRaises, storeVars
  <2>4. ASSUME NEW c \in Cases, Orphan(c) PROVE UNCHANGED cache
    BY <2>4 DEF Orphan, OrphanEnds, storeVars
  <2>5. CASE Outage \/ Recovery \/ UNCHANGED vars
    BY <2>5 DEF Outage, Recovery, GoDown, ComeBack, vars, storeVars
  <2>. QED
    BY <2>1, <2>2, <2>3, <2>4, <2>5 DEF Next, Task, Fault
<1>. QED
  BY <1>1, <1>2, <1>3

\* A step of the service is a step of the lifecycle, or is not seen in it.
LEMMA LifecycleNext ==
  ASSUME Unrepeated, OutcomeInv, SoundInv, [Next]_vars
  PROVE  Lifecycle!Next \/ UNCHANGED <<statusOf, answerOf, knownKeys>>
<1>1. ASSUME NEW j \in Jobs, Create(j) \/ Serve(j) PROVE Lifecycle!Next
  BY <1>1, LifecycleSubmission DEF Lifecycle!Next
<1>2. ASSUME NEW w \in Workers, WriteRecord(w) PROVE Lifecycle!Next
  BY <1>2, LifecycleTask DEF Lifecycle!Next
<1>3. ASSUME NEW d \in Devices, WriteOwner(d) \/ WriteNote(d)
      PROVE  UNCHANGED <<statusOf, answerOf, knownKeys>>
  BY <1>3, LifecycleTurn
<1>4. CASE rec' = rec
  <2>1. UNCHANGED <<statusOf, answerOf>>
    BY <1>4 DEF statusOf, answerOf
  <2>. QED
    BY <2>1, LifecycleLearns DEF Lifecycle!Next
<1>. QED
  BY <1>1, <1>2, <1>3, <1>4, RecordWrites DEF OutcomeInv

\* The job service is an implementation of the lifecycle that
\* job_store.py:4 and README.md:156-165 promise: PENDING, RUNNING, then one
\* final status, with the answer to the job's own payload and no other.
THEOREM ServiceImplementsLifecycle ==
  ASSUME OwnDirectory, Unrepeated
  PROVE  Spec => ImplementsLifecycle
<1>. DEFINE Inv == OutcomeInv /\ SoundInv
<1>1. Init => Inv
  BY OutcomeInvInit, SoundInit
<1>2. Inv /\ [Next]_vars => Inv'
  <2>. SUFFICES ASSUME Inv, [Next]_vars PROVE Inv'
    OBVIOUS
  <2>1. TypeInv /\ CaseExclusive
    BY Apart DEF OutcomeInv, DeliveryInv
  <2>. QED
    BY <2>1, OutcomeInvNext, SoundNext
<1>3. Init => Lifecycle!Init
  BY DEF Init, StoreInit, Lifecycle!Init, statusOf, answerOf, knownKeys
<1>4. Inv /\ [Next]_vars => [Lifecycle!Next]_(Lifecycle!lifecycleVars)
  BY LifecycleNext DEF Lifecycle!lifecycleVars
<1>. QED
  BY <1>1, <1>2, <1>3, <1>4, PTL
     DEF Spec, ImplementsLifecycle, Lifecycle!Spec

=============================================================================
