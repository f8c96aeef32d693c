---------------------------- MODULE JobSoundness ----------------------------
(***************************************************************************)
(* That one delivery of a job exists at a time, and that what is cached    *)
(* and shown is the answer to the payload it is cached and shown for.      *)
(*                                                                         *)
(* Neither holds of every deployment, so each is proved under a condition  *)
(* on the constants: NoRepeats, under which the broker repeats no delivery *)
(* that is still being run; and OwnDirectory, under which no two tasks     *)
(* can meet in one case directory.                                         *)
(***************************************************************************)
EXTENDS JobPipelineProofs

USE JobStoreAssumption, RouterAssumption, WorkerAssumption, HistoryAssumption

\* The broker repeats a delivery only when its worker is gone.
NoRepeats == MaxRedeliveries = 0

-----------------------------------------------------------------------------
\* A job is dispatched once: until then it is neither queued nor being run.
NotYetSent ==
  \A j \in Jobs :
    spc[j] \in {"new", "created", "hit", "miss", "served"} =>
      queue[j] = 0 /\ \A w \in Workers : wjob[w] # j

DeliveryInv == TypeInv /\ NotYetSent /\ SingleDelivery

\* Nothing is sent at the start.
LEMMA DeliveryInit == Init => DeliveryInv
<1>. SUFFICES ASSUME Init PROVE DeliveryInv
  OBVIOUS
<1>1. /\ \A j \in Jobs : queue[j] = 0
      /\ \A w \in Workers : wjob[w] = None
  BY DEF Init, StoreInit, WorkerInit
<1>. QED
  BY <1>1, InitType DEF DeliveryInv, NotYetSent, SingleDelivery

\* Who leaves queue, submissions and assignments alone leaves the rest too.
LEMMA DeliveryFrame ==
  ASSUME NotYetSent, SingleDelivery, UNCHANGED <<spc, queue, wjob>>
  PROVE  NotYetSent' /\ SingleDelivery'
BY DEF NotYetSent, SingleDelivery

\* A submission sends its job at most once, and before that nobody else does.
LEMMA DeliverySubmission ==
  ASSUME DeliveryInv, NEW j \in Jobs, Submission(j)
  PROVE  NotYetSent' /\ SingleDelivery'
<1>. USE DEF DeliveryInv, NotYetSent, SingleDelivery, TypeInv, TypeOK,
         StoreTypeOK, RouterTypeOK, Advance, storeVars
<1>1. RouterStep(j) /\ wjob' = wjob
  BY DEF Submission, workerVars
<1>2. CASE Create(j)
  BY <1>1, <1>2 DEF Create
<1>3. CASE LookUp(j)
  BY <1>1, <1>3 DEF LookUp
<1>4. CASE Serve(j)
  BY <1>1, <1>4 DEF Serve
<1>5. CASE Dispatch(j)
  BY <1>1, <1>5 DEF Dispatch
<1>6. CASE Answer(j)
  BY <1>1, <1>6 DEF Answer
<1>7. CASE RaiseOutage(j)
  BY <1>1, <1>7 DEF RaiseOutage
<1>8. CASE RaiseUnhashable(j)
  BY <1>1, <1>8 DEF RaiseUnhashable
<1>. QED
  BY <1>1, <1>2, <1>3, <1>4, <1>5, <1>6, <1>7, <1>8 DEF RouterStep

\* The steps inside a task leave its delivery alone.
LEMMA DeliveryInside ==
  ASSUME NEW w \in Workers, TaskStep(w), ~Ack(w),
         \A j \in Jobs : ~Take(w, j)
  PROVE  UNCHANGED <<queue, wjob>>
<1>1. \/ ReadRecord(w) \/ WriteRecord(w) \/ RaiseOutageIn(w)
      \/ Validate(w) \/ Build(w) \/ BuildFails(w) \/ BuildRaises(w)
      \/ StartRun(w) \/ RunnerFails(w) \/ RunSucceeds(w) \/ RunFails(w)
      \/ Parse(w) \/ ParseFails(w) \/ ClearArtifact(w) \/ CopyArtifact(w)
      \/ CopyRaises(w) \/ Publish(w)
  BY DEF TaskStep
<1>. QED
  BY <1>1
     DEF ReadRecord, WriteRecord, RaiseOutageIn, Validate, Build, BuildFails,
         BuildRaises, StartRun, RunnerFails, RunSucceeds, RunFails, Parse,
         ParseFails, ClearArtifact, CopyArtifact, CopyRaises, Publish,
         storeVars

\* A worker takes a delivery off the queue, and a crash puts it back when
\* the worker no longer has it.
LEMMA DeliveryTask ==
  ASSUME NoRepeats, DeliveryInv, NEW w \in Workers, TaskStep(w) \/ FaultStep(w),
         UNCHANGED routerVars
  PROVE  NotYetSent' /\ SingleDelivery'
<1>. USE DEF DeliveryInv, NotYetSent, SingleDelivery, TypeInv, TypeOK,
         StoreTypeOK, WorkerTypeOK, routerVars, storeVars
<1>1. ASSUME NEW j \in Jobs, Take(w, j) PROVE NotYetSent' /\ SingleDelivery'
  <2>1. queue[j] = 1
    BY <1>1 DEF Take
  <2>2. /\ queue' = [queue EXCEPT ![j] = 0]
        /\ wjob' = [wjob EXCEPT ![w] = j]
    BY <1>1, <2>1 DEF Take
  <2>3. /\ spc[j] \notin {"new", "created", "hit", "miss", "served"}
        /\ \A v \in Workers : wjob[v] # j
    BY <2>1
  <2>. QED
    BY <1>1, <2>2, <2>3 DEF Take
<1>2. CASE Ack(w) \/ LoseProcess(w)
  BY <1>2 DEF Ack, LoseProcess, Rest
<1>3. CASE Crash(w)
  <2>1. wjob[w] \in Jobs /\ queue[wjob[w]] = 0
    BY <1>3 DEF Crash, WorkerReady
  <2>2. /\ queue' = [queue EXCEPT ![wjob[w]] = 1]
        /\ wjob' = [wjob EXCEPT ![w] = None]
    BY <1>3, <2>1 DEF Crash, Rest
  <2>3. /\ spc[wjob[w]] \notin {"new", "created", "hit", "miss", "served"}
        /\ \A v \in Workers : wjob[v] = wjob[w] => v = w
    BY <2>1
  <2>. QED
    BY <2>1, <2>2, <2>3
<1>4. ~AckLost(w) /\ ~Redeliver(w)
  BY DEF NoRepeats, AckLost, Redeliver
<1>5. CASE WriteUnanswered(w)
  BY <1>5, DeliveryFrame DEF WriteUnanswered
<1>6. CASE TaskStep(w) /\ ~Ack(w) /\ \A j \in Jobs : ~Take(w, j)
  BY <1>6, DeliveryInside, DeliveryFrame
<1>. QED
  BY <1>1, <1>2, <1>3, <1>4, <1>5, <1>6 DEF FaultStep

\* The delivery invariant is inductive.
LEMMA DeliveryNext ==
  ASSUME NoRepeats, DeliveryInv, [Next]_vars
  PROVE  DeliveryInv'
<1>1. TypeInv'
  BY NextType DEF DeliveryInv
<1>2. NotYetSent' /\ SingleDelivery'
  <2>1. ASSUME NEW j \in Jobs, Submission(j)
        PROVE  NotYetSent' /\ SingleDelivery'
    BY <2>1, DeliverySubmission
  <2>2. ASSUME NEW w \in Workers, Task(w) \/ Fault(w)
        PROVE  NotYetSent' /\ SingleDelivery'
    BY <2>2, DeliveryTask DEF Task, Fault
  <2>3. ASSUME NEW c \in Cases, Orphan(c) PROVE NotYetSent' /\ SingleDelivery'
    BY <2>3, DeliveryFrame
       DEF DeliveryInv, Orphan, OrphanEnds, storeVars, routerVars
  <2>4. ASSUME NEW d \in Devices, Turn(d) PROVE NotYetSent' /\ SingleDelivery'
    BY <2>4, DeliveryFrame
       DEF DeliveryInv, Turn, HistoryStep, SeeCompleted, ReadForUpdate,
           WriteOwner, WriteNote, TurnRaises, storeVars, routerVars, workerVars
  <2>5. CASE Outage \/ Recovery \/ UNCHANGED vars
    BY <2>5, DeliveryFrame
       DEF DeliveryInv, Outage, Recovery, GoDown, ComeBack, vars, storeVars,
           routerVars, workerVars
  <2>. QED
    BY <2>1, <2>2, <2>3, <2>4, <2>5 DEF Next
<1>. QED
  BY <1>1, <1>2 DEF DeliveryInv

\* Unless the broker repeats a delivery that is still being run, no two
\* workers ever run the same job, however often they crash: acks_late with
\* prefetch 1 hands a job on only when its worker is gone (worker.py:47-51).
THEOREM DeliveredOnce ==
  ASSUME NoRepeats
  PROVE  Spec => []SingleDelivery
<1>1. Init => DeliveryInv
  BY DeliveryInit
<1>2. DeliveryInv /\ [Next]_vars => DeliveryInv'
  BY DeliveryNext
<1>3. DeliveryInv => SingleDelivery
  BY DEF DeliveryInv
<1>. QED
  BY <1>1, <1>2, <1>3, PTL DEF Spec

-----------------------------------------------------------------------------
(***************************************************************************)
(* Either there is one worker, or payloads differ and none is delivered    *)
(* twice; payloads have case names of their own, and a solver ends with    *)
(* the worker that started it.                                             *)
(***************************************************************************)
OwnDirectory ==
  /\ SolversOutlive = FALSE
  /\ \A k, l \in Keys : CaseOf[k] = CaseOf[l] => k = l
  /\ \/ \A v, w \in Workers : v = w
     \/ NoRepeats /\ \A i, j \in Jobs : KeyOf[i] = KeyOf[j] => i = j

\* No two workers are in one case directory.
CaseExclusive ==
  \A v, w \in Workers :
    /\ wjob[v] # None
    /\ wjob[w] # None
    /\ CaseDir(v) = CaseDir(w)
    => v = w

\* result and ref answer the payload of j.
Answers(j, ref, result) ==
  /\ result = KeyOf[j]
  /\ ref # None
  /\ KeyOf[ref] = KeyOf[j]

\* The answer is right at every stage of its way through a worker ...
TaskSound ==
  \A w \in Workers :
    /\ wpc[w] = "run" => input[CaseDir(w)] = KeyOf[wjob[w]]
    /\ wpc[w] = "running" =>
         wsolve[w] = KeyOf[wjob[w]] /\ KeyOf[wjob[w]] \in ran[CaseDir(w)]
    /\ wpc[w] = "parse" => output[CaseDir(w)] = KeyOf[wjob[w]]
    /\ wpc[w] \in {"clear", "copy", "publish"} =>
         wresult[w] = KeyOf[wjob[w]]
    /\ wjob[w] # None /\ wcall[w].status = "COMPLETED" =>
         Answers(wjob[w], wcall[w].ref, wcall[w].result)

\* ... on its way from the cache to a submission ...
ServedSound ==
  \A j \in Jobs : spc[j] = "hit" =>
    Answers(j, sentry[j].ref, sentry[j].result)

\* ... and in the record a chat turn is about to write back.
TurnSound ==
  \A d \in Devices :
    hpc[d] \in {"writeOwner", "writeNote"} /\ hrec[d].status = "COMPLETED" =>
      Answers(hjob[d], hrec[d].ref, hrec[d].result)

\* A case directory has seen its own payload only.
DirectorySound == \A c \in Cases, k \in Keys : k \in ran[c] => CaseOf[k] = c

SoundInv ==
  /\ orphans = {}
  /\ DirectorySound
  /\ TaskSound
  /\ ServedSound
  /\ TurnSound
  /\ CacheSound
  /\ CompletedSound

\* Under OwnDirectory the tasks of two workers never meet.
LEMMA Apart ==
  ASSUME OwnDirectory, TypeInv, NoRepeats => SingleDelivery
  PROVE  CaseExclusive
<1>. SUFFICES ASSUME NEW v \in Workers, NEW w \in Workers,
                     wjob[v] # None, wjob[w] # None, CaseDir(v) = CaseDir(w)
              PROVE  v = w
  BY DEF CaseExclusive
<1>1. wjob[v] \in Jobs /\ wjob[w] \in Jobs
  BY DEF TypeInv, TypeOK, WorkerTypeOK
<1>2. KeyOf[wjob[v]] = KeyOf[wjob[w]]
  BY <1>1 DEF OwnDirectory, CaseDir
<1>. QED
  BY <1>1, <1>2 DEF OwnDirectory, SingleDelivery

\* Empty cache, no jobs.
LEMMA SoundInit == Init => SoundInv
BY DEF Init, StoreInit, RouterInit, WorkerInit, HistoryInit, SoundInv,
       DirectorySound, TaskSound, ServedSound, TurnSound, CacheSound, CompletedSound,
       RunningCall

\* A record carries the answer of its last COMPLETED call; updating the owner
\* or the note changes nothing of it.
LEMMA AnswerKept ==
  ASSUME NEW j \in Jobs, NEW r, NEW c \in Call,
         c.status = "COMPLETED" => Answers(j, c.ref, c.result)
  PROVE  WithStatus(r, c).status = "COMPLETED" =>
           Answers(j, WithStatus(r, c).ref, WithStatus(r, c).result)
<1>1. KeyOf[j] # None
  BY DEF Output
<1>. QED
  BY <1>1 DEF WithStatus, Given, Answers

\* A submission serves the answer it found under its own key.
LEMMA SoundSubmission ==
  ASSUME TypeInv, SoundInv, NEW j \in Jobs, Submission(j)
  PROVE  SoundInv'
<1>. USE DEF TypeInv, TypeOK, StoreTypeOK, RouterTypeOK, SoundInv, CacheSound,
         CompletedSound, ServedSound, Answers, Advance, storeVars
<1>1. RouterStep(j) /\ UNCHANGED <<workerVars, historyVars>>
  BY DEF Submission
<1>2. orphans' = {} /\ DirectorySound' /\ TaskSound' /\ TurnSound'
  BY <1>1 DEF DirectorySound, TaskSound, TurnSound, workerVars, dirVars,
              historyVars, CaseDir
<1>3. CASE Create(j)
  BY <1>2, <1>3 DEF Create, NewRecord
<1>4. CASE LookUp(j)
  <2>. DEFINE found == IF redis = "up" THEN cache[KeyOf[j]] ELSE None
  <2>1. /\ sentry' = [sentry EXCEPT ![j] = found]
        /\ spc' = [spc EXCEPT ![j] = IF found = None THEN "miss" ELSE "hit"]
        /\ UNCHANGED storeVars
    BY <1>4 DEF LookUp
  <2>2. found # None => Answers(j, found.ref, found.result)
    BY DEF Entry
  <2>. QED
    BY <1>2, <2>1, <2>2
<1>5. CASE Serve(j)
  <2>1. sentry[j] \in Entry /\ Answers(j, sentry[j].ref, sentry[j].result)
    BY <1>5 DEF Serve, RouterReady
  <2>2. rec' = [rec EXCEPT ![j] = WithStatus(rec[j], CompletedCall(sentry[j]))]
    BY <1>5 DEF Serve
  <2>3. /\ WithStatus(rec[j], CompletedCall(sentry[j])).ref = sentry[j].ref
        /\ WithStatus(rec[j], CompletedCall(sentry[j])).result =
             sentry[j].result
    BY <2>1 DEF WithStatus, Given, CompletedCall, Entry
  <2>4. CompletedSound'
    BY <2>1, <2>2, <2>3
  <2>. QED
    BY <1>2, <1>5, <2>4 DEF Serve
<1>6. CASE Dispatch(j)
  BY <1>2, <1>6 DEF Dispatch
<1>7. CASE Answer(j)
  BY <1>2, <1>7 DEF Answer
<1>8. CASE RaiseOutage(j)
  BY <1>2, <1>8 DEF RaiseOutage
<1>9. CASE RaiseUnhashable(j)
  BY <1>2, <1>9 DEF RaiseUnhashable
<1>. QED
  BY <1>1, <1>3, <1>4, <1>5, <1>6, <1>7, <1>8, <1>9 DEF RouterStep

\* A worker that runs a task is alone in its directory.
LEMMA Alone ==
  ASSUME TypeInv, CaseExclusive, NEW w \in Workers, wpc[w] # "idle"
  PROVE  /\ Neighbours(w) = {}
         /\ wjob[w] \in Jobs /\ CaseDir(w) \in Cases
         /\ \A v \in Workers \ {w} :
              wpc[v] # "idle" => CaseDir(v) # CaseDir(w)
<1>1. \A v \in Workers : wpc[v] # "idle" => wjob[v] \in Jobs
  BY DEF TypeInv, TypeOK, WorkerTypeOK, WorkerReady
<1>2. \A v \in Workers \ {w} : wpc[v] # "idle" => CaseDir(v) # CaseDir(w)
  BY <1>1 DEF CaseExclusive
<1>3. Neighbours(w) = {}
  BY <1>2 DEF Neighbours
<1>4. CaseDir(w) \in Cases
  BY <1>1 DEF CaseDir
<1>. QED
  BY <1>1, <1>2, <1>3, <1>4

\* The calls that record no answer.
LEMMA NoAnswer ==
  /\ RunningCall.status # "COMPLETED"
  /\ \A s \in Stages : FailedCall(s).status # "COMPLETED"
BY DEF RunningCall, FailedCall

\* What a task writes to Redis is the answer it carries.
LEMMA TaskWritesSound ==
  ASSUME TypeInv, SoundInv, NEW w \in Workers, TaskStep(w) \/ FaultStep(w)
  PROVE  CacheSound' /\ CompletedSound'
<1>. USE DEF TypeInv, TypeOK, StoreTypeOK, WorkerTypeOK, SoundInv, CacheSound,
         CompletedSound, TaskSound, storeVars
<1>1. CASE WriteRecord(w) \/ WriteUnanswered(w)
  <2>. DEFINE j == wjob[w]
              r == WithStatus(wrec[w], wcall[w])
  <2>1. j \in Jobs /\ wcall[w] \in Call
    BY <1>1 DEF WriteRecord, WriteUnanswered, WorkerReady
  <2>2. r.status = "COMPLETED" => Answers(j, r.ref, r.result)
    <3>1. wcall[w].status = "COMPLETED" =>
            Answers(j, wcall[w].ref, wcall[w].result)
      BY <2>1
    <3>. QED
      BY <2>1, <3>1, AnswerKept
  <2>3. rec' = [rec EXCEPT ![j] = r] /\ cache' = cache
    BY <1>1 DEF WriteRecord, WriteUnanswered, StoreRecord
  <2>. HIDE DEF j, r
  <2>. QED
    BY <2>1, <2>2, <2>3 DEF Answers
<1>2. CASE Publish(w)
  <2>. DEFINE j == wjob[w]
              entry == [ref |-> j, result |-> wresult[w]]
  <2>1. j \in Jobs /\ wresult[w] = KeyOf[j]
    BY <1>2 DEF Publish, WorkerReady
  <2>2. entry.ref = j /\ entry.result = KeyOf[j]
    BY <2>1
  <2>3. rec' = rec /\ cache' \in {cache, [cache EXCEPT ![KeyOf[j]] = entry]}
    BY <1>2 DEF Publish
  <2>. HIDE DEF j, entry
  <2>. QED
    BY <2>1, <2>2, <2>3
<1>3. CASE UNCHANGED <<rec, cache>>
  BY <1>3
<1>. QED
  BY <1>1, <1>2, <1>3
     DEF TaskStep, FaultStep, Take, ReadRecord, RaiseOutageIn, Validate, Build,
         BuildFails, BuildRaises, StartRun, RunnerFails, RunSucceeds, RunFails,
         Parse, ParseFails, ClearArtifact, CopyArtifact, CopyRaises, Ack,
         AckLost, Redeliver, Crash, LoseProcess

\* A task hands its own answer from one stage to the next, and leaves the
\* other tasks' directories and solvers alone.
LEMMA TaskStaysSound ==
  ASSUME TypeInv, SoundInv, CaseExclusive, OwnDirectory,
         NEW w \in Workers, TaskStep(w) \/ FaultStep(w)
  PROVE  orphans' = {} /\ DirectorySound' /\ TaskSound'
<1>. USE Alone, NoAnswer
     DEF TypeInv, TypeOK, WorkerTypeOK, SoundInv, DirectorySound, TaskSound,
         GoTo, dirVars, CaseDir, Stages
<1>. SolversOutlive = FALSE
  BY DEF OwnDirectory
<1>1. ASSUME NEW j \in Jobs, Take(w, j)
      PROVE  orphans' = {} /\ DirectorySound' /\ TaskSound'
  BY <1>1 DEF Take, Begin
<1>2. CASE ReadRecord(w)
  BY <1>2 DEF ReadRecord
<1>3. CASE WriteRecord(w)
  BY <1>3 DEF WriteRecord, StoreRecord
<1>4. CASE WriteUnanswered(w)
  BY <1>4 DEF WriteUnanswered, StoreRecord, Raise, Fail, Begin
<1>5. CASE RaiseOutageIn(w)
  BY <1>5 DEF RaiseOutageIn, Raise, Fail, Begin
<1>6. CASE Validate(w)
  BY <1>6 DEF Validate, Fail, Begin
<1>7. CASE Build(w)
  BY <1>7 DEF Build, WriteInput
<1>8. CASE BuildFails(w)
  BY <1>8 DEF BuildFails, Fail, Begin
<1>9. CASE BuildRaises(w)
  BY <1>9 DEF BuildRaises, WriteInput, Raise, Fail, Begin
<1>10. CASE StartRun(w)
  BY <1>10 DEF StartRun
<1>11. CASE RunnerFails(w)
  BY <1>11 DEF RunnerFails, Fail, Begin, Abandon
<1>12. CASE RunSucceeds(w)
  <2>1. \A k \in ran[CaseDir(w)] : k = KeyOf[wjob[w]]
    BY <1>12 DEF RunSucceeds, OwnDirectory
  <2>2. ran[CaseDir(w)] = {KeyOf[wjob[w]]}
    BY <1>12, <2>1 DEF RunSucceeds
  <2>3. output' = [output EXCEPT ![CaseDir(w)] = wsolve[w]]
    BY <1>12, <2>2 DEF RunSucceeds
  <2>. QED
    BY <1>12, <2>3 DEF RunSucceeds
<1>13. CASE RunFails(w)
  BY <1>13 DEF RunFails, Fail, Begin
<1>14. CASE Parse(w)
  BY <1>14 DEF Parse
<1>15. CASE ParseFails(w)
  BY <1>15 DEF ParseFails, Raise, Fail, Begin
<1>16. CASE ClearArtifact(w)
  BY <1>16 DEF ClearArtifact
<1>17. CASE CopyArtifact(w)
  BY <1>17 DEF CopyArtifact
<1>18. CASE CopyRaises(w)
  BY <1>18 DEF CopyRaises, Raise, Fail, Begin
<1>19. CASE Publish(w)
  <2>. DEFINE j == wjob[w]
              entry == [ref |-> j, result |-> wresult[w]]
  <2>1. j \in Jobs /\ wresult[w] = KeyOf[j]
    BY <1>19 DEF Publish
  <2>2. /\ CompletedCall(entry).ref = j
        /\ CompletedCall(entry).result = KeyOf[j]
    BY <2>1 DEF CompletedCall
  <2>3. Answers(j, CompletedCall(entry).ref, CompletedCall(entry).result)
    BY <2>1, <2>2 DEF Answers
  <2>4. /\ wcall' = [wcall EXCEPT ![w] = CompletedCall(entry)]
        /\ wpc' = [wpc EXCEPT ![w] = "read"]
        /\ UNCHANGED <<wjob, wsolve, wresult, input, output, ran, orphans>>
    BY <1>19 DEF Publish, Begin
  <2>. HIDE DEF entry
  <2>. QED
    BY <2>3, <2>4
<1>20. CASE Ack(w)
  BY <1>20 DEF Ack, Rest
<1>21. CASE AckLost(w)
  BY <1>21 DEF AckLost, Rest
<1>22. CASE Redeliver(w)
  BY <1>22 DEF Redeliver
<1>23. CASE Crash(w)
  BY <1>23 DEF Crash, Rest, Abandon
<1>24. CASE LoseProcess(w)
  BY <1>24 DEF LoseProcess, Rest, Abandon
<1>. QED
  BY <1>1, <1>2, <1>3, <1>4, <1>5, <1>6, <1>7, <1>8, <1>9, <1>10, <1>11,
     <1>12, <1>13, <1>14, <1>15, <1>16, <1>17, <1>18, <1>19, <1>20, <1>21,
     <1>22, <1>23, <1>24 DEF TaskStep, FaultStep

\* The other processes do not notice.
LEMMA SoundTask ==
  ASSUME TypeInv, SoundInv, CaseExclusive, OwnDirectory,
         NEW w \in Workers, TaskStep(w) \/ FaultStep(w),
         UNCHANGED <<routerVars, historyVars>>
  PROVE  SoundInv'
<1>1. ServedSound' /\ TurnSound'
  BY DEF SoundInv, ServedSound, TurnSound, Answers, routerVars, historyVars
<1>. QED
  BY <1>1, TaskWritesSound, TaskStaysSound DEF SoundInv

\* A chat turn writes back the answer it read: get and set of _update may
\* undo another actor's update, but never with a wrong answer.
LEMMA SoundTurn ==
  ASSUME TypeInv, SoundInv, NEW d \in Devices, Turn(d)
  PROVE  SoundInv'
<1>. USE DEF TypeInv, TypeOK, StoreTypeOK, HistoryTypeOK, HistoryReady,
         SoundInv, CacheSound, CompletedSound, TurnSound, Answers, TurnTo,
         storeVars
<1>1. HistoryStep(d) /\ UNCHANGED <<routerVars, workerVars>>
  BY DEF Turn
<1>2. orphans' = {} /\ DirectorySound' /\ TaskSound' /\ ServedSound'
  BY <1>1 DEF DirectorySound, TaskSound, ServedSound, workerVars, dirVars, routerVars, CaseDir
<1>3. ASSUME NEW j \in Jobs, SeeCompleted(d, j) PROVE SoundInv'
  BY <1>2, <1>3 DEF SeeCompleted
<1>4. CASE ReadForUpdate(d)
  <2>1. hjob[d] \in Jobs /\ rec[hjob[d]] # None
    BY <1>4 DEF ReadForUpdate
  <2>. QED
    BY <1>2, <1>4, <2>1 DEF ReadForUpdate
<1>5. CASE WriteOwner(d)
  <2>. DEFINE r == WithOwner(hrec[d], d)
  <2>1. hjob[d] \in Jobs /\ hrec[d] \in Record
    BY <1>5 DEF WriteOwner
  <2>2. r.status = "COMPLETED" => Answers(hjob[d], r.ref, r.result)
    BY <1>5, <2>1 DEF WriteOwner, WithOwner, Record
  <2>3. rec' = [rec EXCEPT ![hjob[d]] = r] /\ cache' = cache
    BY <1>5 DEF WriteOwner
  <2>4. CacheSound' /\ CompletedSound'
    <3>. HIDE DEF r
    <3>. QED
      BY <2>1, <2>2, <2>3
  <2>5. TurnSound'
    BY <1>5 DEF WriteOwner, EndTurn
  <2>. QED
    BY <1>2, <2>4, <2>5
<1>6. CASE WriteNote(d)
  <2>. DEFINE r == WithNote(hrec[d], hnote[d])
  <2>1. hjob[d] \in Jobs /\ hrec[d] \in Record
    BY <1>6 DEF WriteNote
  <2>2. r.status = "COMPLETED" => Answers(hjob[d], r.ref, r.result)
    BY <1>6, <2>1 DEF WriteNote, WithNote, Record
  <2>3. rec' = [rec EXCEPT ![hjob[d]] = r] /\ cache' = cache
    BY <1>6 DEF WriteNote
  <2>4. CacheSound' /\ CompletedSound'
    <3>. HIDE DEF r
    <3>. QED
      BY <2>1, <2>2, <2>3
  <2>5. TurnSound'
    BY <1>6 DEF WriteNote, EndTurn
  <2>. QED
    BY <1>2, <2>4, <2>5
<1>7. CASE TurnRaises(d)
  BY <1>2, <1>7 DEF TurnRaises, EndTurn
<1>. QED
  BY <1>1, <1>3, <1>4, <1>5, <1>6, <1>7 DEF HistoryStep

\* The answers stay right in every step of a deployment that keeps its tasks
\* apart.
LEMMA SoundNext ==
  ASSUME OwnDirectory, TypeInv, SoundInv, CaseExclusive, [Next]_vars
  PROVE  SoundInv'
<1>1. ASSUME NEW j \in Jobs, Submission(j) PROVE SoundInv'
  BY <1>1, SoundSubmission
<1>2. ASSUME NEW w \in Workers, Task(w) \/ Fault(w) PROVE SoundInv'
  BY <1>2, SoundTask DEF Task, Fault
<1>3. ASSUME NEW c \in Cases, Orphan(c) PROVE SoundInv'
  BY <1>3 DEF SoundInv, Orphan, OrphanEnds
<1>4. ASSUME NEW d \in Devices, Turn(d) PROVE SoundInv'
  BY <1>4, SoundTurn
<1>5. CASE Outage \/ Recovery \/ UNCHANGED vars
  BY <1>5
     DEF SoundInv, DirectorySound, TaskSound, ServedSound, TurnSound,
         CacheSound, CompletedSound, Answers, Outage, Recovery, GoDown, ComeBack, vars,
         storeVars, routerVars, workerVars, dirVars, historyVars, CaseDir
<1>. QED
  BY <1>1, <1>2, <1>3, <1>4, <1>5 DEF Next

\* What is cached and what is shown are right together: a submission copies
\* the one into the other, and a worker writes both.
LEMMA SoundAlways ==
  ASSUME OwnDirectory
  PROVE  Spec => [](CacheSound /\ CompletedSound)
<1>. DEFINE Inv == /\ TypeInv /\ SoundInv
                   /\ NoRepeats => NotYetSent /\ SingleDelivery
<1>1. Init => Inv
  BY InitType, SoundInit, DeliveryInit DEF DeliveryInv
<1>2. Inv /\ [Next]_vars => Inv'
  <2>. SUFFICES ASSUME Inv, [Next]_vars PROVE Inv'
    OBVIOUS
  <2>1. TypeInv'
    BY NextType
  <2>2. CaseExclusive
    BY Apart
  <2>3. SoundInv'
    BY <2>2, SoundNext
  <2>4. ASSUME NoRepeats PROVE NotYetSent' /\ SingleDelivery'
    BY <2>4, DeliveryNext DEF DeliveryInv
  <2>. QED
    BY <2>1, <2>3, <2>4 DEF NoRepeats
<1>3. Inv => CacheSound /\ CompletedSound
  BY DEF SoundInv
<1>. QED
  BY <1>1, <1>2, <1>3, PTL DEF Spec

\* In a deployment that keeps its tasks apart, whatever fails or is repeated
\* and in whatever order the steps of submissions, workers and chat turns
\* come, the cache holds nothing but the answer to the payload it is keyed by
\* (cache.py:111-121).
THEOREM CacheKept ==
  ASSUME OwnDirectory
  PROVE  Spec => []CacheSound
BY SoundAlways, PTL

\* ... and a COMPLETED job shows nothing but the answer to its own payload
\* (worker.py:142-146, router.py:53-72).
THEOREM AnswersSound ==
  ASSUME OwnDirectory
  PROVE  Spec => []CompletedSound
BY SoundAlways, PTL

=============================================================================
