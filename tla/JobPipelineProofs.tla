------------------------- MODULE JobPipelineProofs --------------------------
(***************************************************************************)
(* What is proved of JobPipeline, for any sets of jobs, workers, devices   *)
(* and payloads and any number of faults.                                  *)
(*                                                                         *)
(* TypeOK is not inductive: a step applies an operator to what it finds in *)
(* the record, the cache entry or the directory it was promised, so the    *)
(* invariant also says that these are there when they are needed           *)
(* (RouterReady, WorkerReady, HistoryReady).                               *)
(***************************************************************************)
EXTENDS JobPipeline, TLAPS

-----------------------------------------------------------------------------
\* A step of a submission, a task or a chat turn finds what it works on: the
\* record it updates, the entry it serves, the files it reads.
RouterReady ==
  \A j \in Jobs :
    /\ spc[j] \in {"created", "hit", "miss", "served", "sent", "returned"} =>
         rec[j] # None
    /\ spc[j] = "hit" => sentry[j] # None
    /\ queue[j] > 0 => rec[j] # None

WorkerReady ==
  \A w \in Workers :
    /\ wpc[w] # "idle" => wjob[w] # None /\ rec[wjob[w]] # None
    /\ wpc[w] = "write" => wrec[w] # None
    /\ wpc[w] = "run" => input[CaseDir(w)] # None
    /\ wpc[w] = "running" => wsolve[w] # None
    /\ wpc[w] = "parse" => output[CaseDir(w)] # None
    /\ wpc[w] \in {"clear", "copy", "publish"} => wresult[w] # None

HistoryReady ==
  \A d \in Devices :
    /\ hpc[d] # "chat" => hjob[d] # None /\ rec[hjob[d]] # None
    /\ hpc[d] \in {"writeOwner", "writeNote"} => hrec[d] # None

TypeInv == TypeOK /\ RouterReady /\ WorkerReady /\ HistoryReady

USE JobStoreAssumption, RouterAssumption, WorkerAssumption, HistoryAssumption

\* The operators on records return records, the calls are calls.
LEMMA RecordTypes ==
  /\ NewRecord \in Record
  /\ \A r \in Record, c \in Call : WithStatus(r, c) \in Record
  /\ \A r \in Record, d \in Devices : WithOwner(r, d) \in Record
  /\ \A r \in Record, t \in Output \cup {None} : WithNote(r, t) \in Record
  /\ RunningCall \in Call
  /\ \A s \in Stages : FailedCall(s) \in Call
  /\ \A e \in Entry : CompletedCall(e) \in Call
  /\ \A r \in Record : PublicView(r).status \in Status
BY DEF NewRecord, Record, Call, WithStatus, Given, WithOwner, WithNote,
       RunningCall, FailedCall, CompletedCall, Entry, Status, Stages,
       Terminal, PublicView

\* The calls that name no cache entry.
LEMMA CallTypes ==
  /\ RunningCall \in Call
  /\ FailedCall("validation") \in Call
  /\ FailedCall("build") \in Call
  /\ FailedCall("solver") \in Call
  /\ FailedCall("parse") \in Call
  /\ FailedCall("worker") \in Call
BY RecordTypes DEF Stages

\* Everything is there at the start, because nobody needs anything yet.
LEMMA InitType == Init => TypeInv
BY RecordTypes
   DEF Init, StoreInit, RouterInit, WorkerInit, HistoryInit, TypeInv, TypeOK,
       StoreTypeOK, RouterTypeOK, WorkerTypeOK, HistoryTypeOK, RouterReady,
       WorkerReady, HistoryReady

\* A submission creates the record before it queues or serves the job.
LEMMA SubmissionType ==
  ASSUME TypeInv, NEW j \in Jobs, Submission(j)
  PROVE  TypeInv'
<1>. USE RecordTypes DEF TypeInv, TypeOK, StoreTypeOK, RouterTypeOK,
         RouterReady, WorkerReady, HistoryReady
<1>1. UNCHANGED <<workerVars, historyVars>> /\ RouterStep(j)
  BY DEF Submission
<1>2. WorkerTypeOK' /\ HistoryTypeOK'
  BY <1>1 DEF WorkerTypeOK, HistoryTypeOK, workerVars, dirVars, faultVars,
              historyVars
<1>. USE <1>2 DEF workerVars, dirVars, historyVars, storeVars, CaseDir, Advance
<1>3. CASE Create(j)
  BY <1>1, <1>3 DEF Create
<1>4. CASE LookUp(j)
  BY <1>1, <1>4 DEF LookUp
<1>5. CASE Serve(j)
  <2>1. rec[j] \in Record /\ sentry[j] \in Entry
    BY <1>5 DEF Serve
  <2>2. WithStatus(rec[j], CompletedCall(sentry[j])) \in Record
    BY <2>1
  <2>. QED
    <3>1. StoreTypeOK' /\ RouterTypeOK'
      BY <1>5, <2>2 DEF Serve
    <3>2. \A i \in Jobs : rec[i] # None => rec'[i] # None
      BY <1>5, <2>2 DEF Serve
    <3>3. RouterReady'
      BY <1>5, <2>2 DEF Serve
    <3>4. WorkerReady' /\ HistoryReady'
      BY <1>1, <1>5, <3>2 DEF WorkerTypeOK, HistoryTypeOK
    <3>. QED
      BY <3>1, <3>3, <3>4
<1>6. CASE Dispatch(j)
  BY <1>1, <1>6 DEF Dispatch
<1>7. CASE Answer(j)
  BY <1>1, <1>7 DEF Answer
<1>8. CASE RaiseOutage(j)
  BY <1>1, <1>8 DEF RaiseOutage
<1>9. CASE RaiseUnhashable(j)
  BY <1>1, <1>9 DEF RaiseUnhashable
<1>. QED
  BY <1>1, <1>3, <1>4, <1>5, <1>6, <1>7, <1>8, <1>9 DEF RouterStep

\* No record disappears, and only recorded jobs are queued.
RecKept == \A j \in Jobs : rec[j] # None => rec'[j] # None
QueueBacked == \A j \in Jobs : queue[j] > 0 => rec[j] # None

\* What a step of a worker leaves in Redis.
LEMMA TaskStoreType ==
  ASSUME TypeInv, NEW w \in Workers, TaskStep(w) \/ FaultStep(w),
         UNCHANGED <<routerVars, historyVars>>
  PROVE  StoreTypeOK' /\ RecKept /\ QueueBacked'
<1>. USE DEF TypeInv, TypeOK, StoreTypeOK, WorkerTypeOK, WorkerReady,
         RouterReady, RecKept, QueueBacked, storeVars
<1>1. ASSUME NEW j \in Jobs, Take(w, j)
      PROVE  StoreTypeOK' /\ RecKept /\ QueueBacked'
  BY <1>1, CallTypes DEF Take, Begin, RouterReady
<1>2. CASE ReadRecord(w)
  BY <1>2 DEF ReadRecord
<1>3. CASE WriteRecord(w)
  <2>1. wjob[w] \in Jobs /\ WithStatus(wrec[w], wcall[w]) \in Record
    BY <1>3, RecordTypes DEF WriteRecord
  <2>. QED
    BY <1>3, <2>1 DEF WriteRecord, StoreRecord
<1>4. CASE WriteUnanswered(w)
  <2>1. wjob[w] \in Jobs /\ WithStatus(wrec[w], wcall[w]) \in Record
    BY <1>4, RecordTypes DEF WriteUnanswered
  <2>. QED
    BY <1>4, <2>1 DEF WriteUnanswered, StoreRecord
<1>5. CASE RaiseOutageIn(w)
  BY <1>5 DEF RaiseOutageIn, Raise, Fail, Begin
<1>6. CASE Validate(w)
  BY <1>6 DEF Validate, Fail, Begin
<1>7. CASE Build(w)
  BY <1>7 DEF Build, WriteInput
<1>8. CASE BuildFails(w)
  BY <1>8 DEF BuildFails, Fail, Begin
<1>9. CASE BuildRaises(w)
  BY <1>9 DEF BuildRaises, WriteInput, Raise, Fail, Begin
<1>10. CASE StartRun(w)
  BY <1>10 DEF StartRun
<1>11. CASE RunnerFails(w)
  BY <1>11 DEF RunnerFails, Fail, Begin, Abandon
<1>12. CASE RunSucceeds(w)
  BY <1>12 DEF RunSucceeds
<1>13. CASE RunFails(w)
  BY <1>13 DEF RunFails, Fail, Begin
<1>14. CASE Parse(w)
  BY <1>14 DEF Parse
<1>15. CASE ParseFails(w)
  BY <1>15 DEF ParseFails, Raise, Fail, Begin
<1>16. CASE ClearArtifact(w)
  BY <1>16 DEF ClearArtifact
<1>17. CASE CopyArtifact(w)
  BY <1>17 DEF CopyArtifact
<1>18. CASE CopyRaises(w)
  BY <1>18 DEF CopyRaises, Raise, Fail, Begin
<1>19. CASE Publish(w)
  <2>1. wresult[w] \in Output /\ wjob[w] \in Jobs
    BY <1>19 DEF Publish
  <2>2. [ref |-> wjob[w], result |-> wresult[w]] \in Entry
    BY <2>1 DEF Entry
  <2>. QED
    BY <1>19, <2>1, <2>2 DEF Publish
<1>20. CASE Ack(w)
  BY <1>20 DEF Ack, Rest
<1>21. CASE AckLost(w)
  BY <1>21 DEF AckLost, Rest
<1>22. CASE Redeliver(w)
  BY <1>22 DEF Redeliver
<1>23. CASE Crash(w)
  BY <1>23 DEF Crash, Rest, Abandon
<1>24. CASE LoseProcess(w)
  BY <1>24 DEF LoseProcess, Rest, Abandon
<1>. QED
  BY <1>1, <1>2, <1>3, <1>4, <1>5, <1>6, <1>7, <1>8, <1>9, <1>10, <1>11,
     <1>12, <1>13, <1>14, <1>15, <1>16, <1>17, <1>18, <1>19, <1>20, <1>21,
     <1>22, <1>23, <1>24 DEF TaskStep, FaultStep

\* What it leaves in the workers' own state and in the directories.
LEMMA TaskWorkerType ==
  ASSUME TypeInv, NEW w \in Workers, TaskStep(w) \/ FaultStep(w),
         UNCHANGED <<routerVars, historyVars>>
  PROVE  WorkerTypeOK'
<1>. USE CallTypes DEF TypeInv, TypeOK, StoreTypeOK, WorkerTypeOK, GoTo,
         dirVars, faultVars, CaseDir
<1>1. ASSUME NEW j \in Jobs, Take(w, j) PROVE WorkerTypeOK'
  BY <1>1, CallTypes DEF Take, Begin, RouterReady
<1>2. CASE ReadRecord(w)
  BY <1>2 DEF ReadRecord, WorkerReady
<1>3. CASE WriteRecord(w)
  BY <1>3 DEF WriteRecord, StoreRecord
<1>4. CASE WriteUnanswered(w)
  BY <1>4 DEF WriteUnanswered, StoreRecord, Raise, Fail, Begin
<1>5. CASE RaiseOutageIn(w)
  BY <1>5 DEF RaiseOutageIn, Raise, Fail, Begin
<1>6. CASE Validate(w)
  <2>1. wcall' \in [Workers -> Call]
    BY <1>6 DEF Validate, Fail, Begin
  <2>. QED
    BY <1>6, <2>1 DEF Validate, Fail, Begin
<1>7. CASE Build(w)
  <2>1. wjob[w] \in Jobs /\ KeyOf[wjob[w]] \in Keys
    BY <1>7 DEF Build, WorkerReady
  <2>2. input' \in [Cases -> Output \cup {None}]
    BY <1>7, <2>1 DEF Build, WriteInput, Output
  <2>3. wsolve' \in [Workers -> Output \cup {None}]
    BY <1>7 DEF Build, WriteInput, Output
  <2>. QED
    BY <1>7, <2>2, <2>3 DEF Build
<1>8. CASE BuildFails(w)
  BY <1>8 DEF BuildFails, Fail, Begin
<1>9. CASE BuildRaises(w)
  <2>1. wjob[w] \in Jobs /\ KeyOf[wjob[w]] \in Keys
    BY <1>9 DEF BuildRaises, WorkerReady
  <2>2. input' \in [Cases -> Output \cup {None}]
    BY <1>9, <2>1 DEF BuildRaises, WriteInput, Output
  <2>3. wsolve' \in [Workers -> Output \cup {None}]
    BY <1>9 DEF BuildRaises, WriteInput, Output
  <2>4. wcall' \in [Workers -> Call] /\ wpc' = [wpc EXCEPT ![w] = "read"]
    BY <1>9 DEF BuildRaises, Raise, Fail, Begin
  <2>. QED
    BY <1>9, <2>2, <2>3, <2>4 DEF BuildRaises, Raise, Fail, Begin
<1>10. CASE StartRun(w)
  <2>1. input[CaseDir(w)] \in Output \cup {None}
    BY <1>10 DEF StartRun, WorkerReady
  <2>2. wsolve' \in [Workers -> Output \cup {None}]
    BY <1>10, <2>1 DEF StartRun, Output
  <2>3. ran' \in [Cases -> SUBSET Keys]
    BY <1>10 DEF StartRun, WorkerReady
  <2>. QED
    BY <1>10, <2>2, <2>3 DEF StartRun, Output
<1>11. CASE RunnerFails(w)
  BY <1>11 DEF RunnerFails, Fail, Begin, Abandon, WorkerReady
<1>12. CASE RunSucceeds(w)
  <2>1. PICK found \in {wsolve[w], Torn} :
               output' = [output EXCEPT ![CaseDir(w)] = found]
    BY <1>12 DEF RunSucceeds
  <2>2. output' \in [Cases -> Output \cup {None}]
    BY <2>1 DEF Output
  <2>. QED
    BY <1>12, <2>2 DEF RunSucceeds
<1>13. CASE RunFails(w)
  BY <1>13 DEF RunFails, Fail, Begin
<1>14. CASE Parse(w)
  BY <1>14 DEF Parse, WorkerReady
<1>15. CASE ParseFails(w)
  BY <1>15 DEF ParseFails, Raise, Fail, Begin
<1>16. CASE ClearArtifact(w)
  BY <1>16 DEF ClearArtifact
<1>17. CASE CopyArtifact(w)
  BY <1>17 DEF CopyArtifact
<1>18. CASE CopyRaises(w)
  <2>1. art' \in [Jobs -> Output \cup {None}]
    BY <1>18 DEF CopyRaises, Output
  <2>2. wcall' \in [Workers -> Call]
    BY <1>18 DEF CopyRaises, Raise, Fail, Begin
  <2>. QED
    BY <1>18, <2>1, <2>2 DEF CopyRaises, Raise, Fail, Begin
<1>19. CASE Publish(w)
  <2>1. [ref |-> wjob[w], result |-> wresult[w]] \in Entry
    BY <1>19 DEF Publish, WorkerReady, Entry
  <2>2. CompletedCall([ref |-> wjob[w], result |-> wresult[w]]) \in Call
    BY <2>1, RecordTypes
  <2>. QED
    BY <1>19, <2>2 DEF Publish, Begin
<1>20. CASE Ack(w)
  BY <1>20 DEF Ack, Rest
<1>21. CASE AckLost(w)
  BY <1>21 DEF AckLost, Rest
<1>22. CASE Redeliver(w)
  BY <1>22 DEF Redeliver
<1>23. CASE Crash(w)
  BY <1>23 DEF Crash, Rest, Abandon, WorkerReady
<1>24. CASE LoseProcess(w)
  BY <1>24 DEF LoseProcess, Rest, Abandon, WorkerReady
<1>. QED
  BY <1>1, <1>2, <1>3, <1>4, <1>5, <1>6, <1>7, <1>8, <1>9, <1>10, <1>11,
     <1>12, <1>13, <1>14, <1>15, <1>16, <1>17, <1>18, <1>19, <1>20, <1>21,
     <1>22, <1>23, <1>24 DEF TaskStep, FaultStep

\* What a worker needs for its next step is there.
LEMMA TaskReadyType ==
  ASSUME TypeInv, NEW w \in Workers, TaskStep(w) \/ FaultStep(w),
         UNCHANGED <<routerVars, historyVars>>
  PROVE  WorkerReady'
<1>. USE TaskStoreType, TaskWorkerType
     DEF TypeInv, TypeOK, StoreTypeOK, WorkerTypeOK, WorkerReady, RecKept, GoTo,
         dirVars, storeVars, CaseDir
<1>1. ASSUME NEW j \in Jobs, Take(w, j) PROVE WorkerReady'
  BY <1>1, CallTypes DEF Take, Begin, RouterReady
<1>2. CASE ReadRecord(w)
  BY <1>2 DEF ReadRecord
<1>3. CASE WriteRecord(w)
  BY <1>3 DEF WriteRecord, StoreRecord
<1>4. CASE WriteUnanswered(w)
  BY <1>4 DEF WriteUnanswered, StoreRecord, Raise, Fail, Begin
<1>5. CASE RaiseOutageIn(w)
  BY <1>5 DEF RaiseOutageIn, Raise, Fail, Begin
<1>6. CASE Validate(w)
  BY <1>6 DEF Validate, Fail, Begin
<1>7. CASE Build(w)
  <2>. SUFFICES ASSUME NEW v \in Workers PROVE WorkerReady!(v)'
    BY DEF WorkerReady
  <2>. QED
    BY <1>7 DEF Build, WriteInput, Output
<1>8. CASE BuildFails(w)
  BY <1>8 DEF BuildFails, Fail, Begin
<1>9. CASE BuildRaises(w)
  <2>. SUFFICES ASSUME NEW v \in Workers PROVE WorkerReady!(v)'
    BY DEF WorkerReady
  <2>. QED
    BY <1>9 DEF BuildRaises, WriteInput, Raise, Fail, Begin, Output
<1>10. CASE StartRun(w)
  <2>. SUFFICES ASSUME NEW v \in Workers PROVE WorkerReady!(v)'
    BY DEF WorkerReady
  <2>. QED
    BY <1>10 DEF StartRun, Output
<1>11. CASE RunnerFails(w)
  BY <1>11 DEF RunnerFails, Fail, Begin, Abandon
<1>12. CASE RunSucceeds(w)
  <2>1. PICK found \in {wsolve[w], Torn} :
               output' = [output EXCEPT ![CaseDir(w)] = found]
    BY <1>12 DEF RunSucceeds
  <2>2. found # None
    BY <1>12 DEF RunSucceeds, Output
  <2>. SUFFICES ASSUME NEW v \in Workers PROVE WorkerReady!(v)'
    BY DEF WorkerReady
  <2>. QED
    BY <1>12, <2>1, <2>2 DEF RunSucceeds
<1>13. CASE RunFails(w)
  BY <1>13 DEF RunFails, Fail, Begin
<1>14. CASE Parse(w)
  BY <1>14 DEF Parse
<1>15. CASE ParseFails(w)
  BY <1>15 DEF ParseFails, Raise, Fail, Begin
<1>16. CASE ClearArtifact(w)
  BY <1>16 DEF ClearArtifact
<1>17. CASE CopyArtifact(w)
  BY <1>17 DEF CopyArtifact
<1>18. CASE CopyRaises(w)
  BY <1>18 DEF CopyRaises, Raise, Fail, Begin
<1>19. CASE Publish(w)
  BY <1>19 DEF Publish, Begin
<1>20. CASE Ack(w)
  BY <1>20 DEF Ack, Rest
<1>21. CASE AckLost(w)
  BY <1>21 DEF AckLost, Rest
<1>22. CASE Redeliver(w)
  BY <1>22 DEF Redeliver
<1>23. CASE Crash(w)
  BY <1>23 DEF Crash, Rest, Abandon
<1>24. CASE LoseProcess(w)
  BY <1>24 DEF LoseProcess, Rest, Abandon
<1>. QED
  BY <1>1, <1>2, <1>3, <1>4, <1>5, <1>6, <1>7, <1>8, <1>9, <1>10, <1>11,
     <1>12, <1>13, <1>14, <1>15, <1>16, <1>17, <1>18, <1>19, <1>20, <1>21,
     <1>22, <1>23, <1>24 DEF TaskStep, FaultStep

\* Every step of a task, and every fault it meets, preserves the invariant.
LEMMA TaskType ==
  ASSUME TypeInv, NEW w \in Workers, TaskStep(w) \/ FaultStep(w),
         UNCHANGED <<routerVars, historyVars>>
  PROVE  TypeInv'
<1>1. StoreTypeOK' /\ RecKept /\ QueueBacked' /\ WorkerTypeOK' /\ WorkerReady'
  BY TaskStoreType, TaskWorkerType, TaskReadyType
<1>2. RouterTypeOK' /\ HistoryTypeOK'
  BY DEF TypeInv, TypeOK, RouterTypeOK, HistoryTypeOK, routerVars, historyVars
<1>3. RouterReady'
  BY <1>1 DEF TypeInv, RouterReady, RecKept, QueueBacked, routerVars
<1>4. HistoryReady'
  BY <1>1 DEF TypeInv, TypeOK, HistoryTypeOK, HistoryReady, RecKept,
              historyVars
<1>. QED
  BY <1>1, <1>2, <1>3, <1>4 DEF TypeInv, TypeOK

\* A solver left behind touches only result files.
LEMMA OrphanType ==
  ASSUME TypeInv, NEW c \in Cases, Orphan(c)
  PROVE  TypeInv'
<1>1. output' \in [Cases -> Output \cup {None}]
  BY DEF TypeInv, TypeOK, WorkerTypeOK, Orphan, OrphanEnds, Output
<1>2. WorkerTypeOK'
  BY <1>1 DEF TypeInv, TypeOK, WorkerTypeOK, Orphan, OrphanEnds, faultVars
<1>3. WorkerReady'
  BY DEF TypeInv, TypeOK, WorkerTypeOK, WorkerReady, Orphan, OrphanEnds, Output,
         storeVars, CaseDir
<1>. QED
  BY <1>2, <1>3
     DEF TypeInv, TypeOK, StoreTypeOK, RouterTypeOK, HistoryTypeOK,
         RouterReady, HistoryReady, Orphan, OrphanEnds, storeVars, routerVars,
         historyVars

\* A chat turn rewrites only records that exist.
LEMMA TurnType ==
  ASSUME TypeInv, NEW d \in Devices, Turn(d)
  PROVE  TypeInv'
<1>. USE DEF TypeInv, TypeOK, StoreTypeOK, HistoryTypeOK, HistoryReady, RecKept,
         TurnTo, storeVars
<1>1. UNCHANGED <<routerVars, workerVars>> /\ HistoryStep(d)
  BY DEF Turn
<1>2. /\ StoreTypeOK' /\ HistoryTypeOK' /\ HistoryReady'
      /\ RecKept /\ queue' = queue
  <2>1. ASSUME NEW j \in Jobs, SeeCompleted(d, j)
        PROVE  StoreTypeOK' /\ HistoryTypeOK' /\ HistoryReady' /\ RecKept
               /\ queue' = queue
    <3>1. PublicView(rec[j]).result \in Output \cup {None}
      BY <2>1 DEF SeeCompleted, PublicView, Record
    <3>. QED
      BY <2>1, <3>1 DEF SeeCompleted
  <2>2. CASE ReadForUpdate(d)
    BY <2>2 DEF ReadForUpdate
  <2>3. CASE WriteOwner(d)
    <3>1. WithOwner(hrec[d], d) \in Record
      BY <2>3, RecordTypes DEF WriteOwner
    <3>. QED
      BY <2>3, <3>1 DEF WriteOwner, EndTurn
  <2>4. CASE WriteNote(d)
    <3>1. WithNote(hrec[d], hnote[d]) \in Record
      BY <2>4, RecordTypes DEF WriteNote
    <3>. QED
      BY <2>4, <3>1 DEF WriteNote, EndTurn
  <2>5. CASE TurnRaises(d)
    BY <2>5 DEF TurnRaises, EndTurn
  <2>. QED
    BY <1>1, <2>1, <2>2, <2>3, <2>4, <2>5 DEF HistoryStep
<1>3. RouterTypeOK' /\ RouterReady'
  BY <1>1, <1>2 DEF RouterTypeOK, RouterReady, routerVars
<1>4. WorkerTypeOK' /\ WorkerReady'
  BY <1>1, <1>2 DEF WorkerTypeOK, WorkerReady, workerVars, dirVars, faultVars,
                    CaseDir
<1>. QED
  BY <1>2, <1>3, <1>4

\* Nothing but the link to Redis changes in an outage.
LEMMA LinkType ==
  ASSUME TypeInv, Outage \/ Recovery
  PROVE  TypeInv'
<1>1. /\ StoreTypeOK'
      /\ UNCHANGED <<rec, queue, routerVars, workerVars, historyVars>>
  BY DEF TypeInv, TypeOK, StoreTypeOK, Outage, Recovery, GoDown, ComeBack
<1>. QED
  BY <1>1 DEF TypeInv, TypeOK, RouterTypeOK, WorkerTypeOK, HistoryTypeOK,
       RouterReady, WorkerReady, HistoryReady, routerVars, workerVars, dirVars,
       faultVars, historyVars, CaseDir

\* The invariant is inductive.
LEMMA NextType == TypeInv /\ [Next]_vars => TypeInv'
<1>. SUFFICES ASSUME TypeInv, [Next]_vars PROVE TypeInv'
  OBVIOUS
<1>1. ASSUME NEW j \in Jobs, Submission(j) PROVE TypeInv'
  BY <1>1, SubmissionType
<1>2. ASSUME NEW w \in Workers, Task(w) \/ Fault(w) PROVE TypeInv'
  BY <1>2, TaskType DEF Task, Fault
<1>3. ASSUME NEW c \in Cases, Orphan(c) PROVE TypeInv'
  BY <1>3, OrphanType
<1>4. ASSUME NEW d \in Devices, Turn(d) PROVE TypeInv'
  BY <1>4, TurnType
<1>5. CASE Outage \/ Recovery
  BY <1>5, LinkType
<1>6. CASE UNCHANGED vars
  BY <1>6 DEF TypeInv, TypeOK, StoreTypeOK, RouterTypeOK, WorkerTypeOK,
       HistoryTypeOK, RouterReady, WorkerReady, HistoryReady, vars, storeVars,
       routerVars, workerVars, dirVars, faultVars, historyVars, CaseDir
<1>. QED
  BY <1>1, <1>2, <1>3, <1>4, <1>5, <1>6 DEF Next

\* No step of the service finds a record, an entry, a file or a result that
\* is not there, or leaves anything of the wrong shape behind: in particular
\* set_status never takes its early return for a missing record.
THEOREM TypeCorrect == Spec => []TypeOK
<1>1. Init => TypeInv
  BY InitType
<1>2. TypeInv /\ [Next]_vars => TypeInv'
  BY NextType
<1>3. TypeInv => TypeOK
  BY DEF TypeInv
<1>. QED
  BY <1>1, <1>2, <1>3, PTL DEF Spec

=============================================================================
