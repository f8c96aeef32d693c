------------------------------ MODULE JobRuns ------------------------------
(***************************************************************************)
(* That the artifacts of a COMPLETED job stay where it says they are, and  *)
(* that no job is forgotten.                                               *)
(*                                                                         *)
(* Both rest on how often a task is run.  RunOnce says that the broker     *)
(* hands none out again, be it while its worker is still at it or after    *)
(* that worker has died.  Outages, writes without a reply and killed task  *)
(* processes are in either way.                                            *)
(***************************************************************************)
EXTENDS JobSoundness

USE JobStoreAssumption, RouterAssumption, WorkerAssumption, HistoryAssumption

RunOnce == MaxCrashes = 0 /\ MaxRedeliveries = 0

-----------------------------------------------------------------------------
\* w can no longer touch the artifacts of its job or set it to RUNNING.
Finishing(w) ==
  \/ wpc[w] = "ack"
  \/ wpc[w] \in {"read", "write"} /\ wcall[w].status \in Terminal

\* The run of j, if there is one, is over but for its outcome.
Over(j) ==
  /\ spc[j] \notin {"new", "created", "hit", "miss"}
  /\ queue[j] = 0
  /\ \A w \in Workers : wjob[w] = j => Finishing(w)

\* A final outcome ends the run, and a chat turn works on final jobs only.
FinalOver ==
  /\ \A j \in Jobs : Final(j) => Over(j)
  /\ \A d \in Devices :
       /\ hpc[d] # "chat" => Final(hjob[d])
       /\ hpc[d] \in {"writeOwner", "writeNote"} => hrec[d].status \in Terminal

-----------------------------------------------------------------------------
\* The artifacts of r are whole, and nobody will replace them.
Archived(r) == Over(r) /\ art[r] = KeyOf[r]

\* r is the result_ref of a cache entry or a COMPLETED record, or under way
\* to one.
Cited(r) ==
  \/ \E k \in Keys : cache[k] # None /\ cache[k].ref = r
  \/ \E j \in Jobs :
       rec[j] # None /\ rec[j].status = "COMPLETED" /\ rec[j].ref = r
  \/ \E j \in Jobs : spc[j] = "hit" /\ sentry[j].ref = r
  \/ \E w \in Workers :
       wjob[w] # None /\ wcall[w].status = "COMPLETED" /\ wcall[w].ref = r
  \/ \E d \in Devices :
       /\ hpc[d] \in {"writeOwner", "writeNote"}
       /\ hrec[d].status = "COMPLETED" /\ hrec[d].ref = r

CitedArchived == \A r \in Jobs : Cited(r) => Archived(r)

\* What a worker copies is its own output, and so is the copy.
CopySound ==
  \A w \in Workers :
    /\ wpc[w] \in {"clear", "copy"} => output[CaseDir(w)] = KeyOf[wjob[w]]
    /\ wpc[w] = "publish" => art[wjob[w]] = KeyOf[wjob[w]]

-----------------------------------------------------------------------------
\* A step of one worker leaves the others where they are.
LEMMA OthersStay ==
  ASSUME TypeInv, NEW w \in Workers, TaskStep(w) \/ FaultStep(w),
         NEW v \in Workers, v # w
  PROVE  /\ wpc'[v] = wpc[v] /\ wjob'[v] = wjob[v]
         /\ wcall'[v] = wcall[v] /\ wrec'[v] = wrec[v]
<1>. USE DEF TypeInv, TypeOK, WorkerTypeOK, GoTo, Begin, Fail, Raise, Rest
<1>1. CASE \/ \E j \in Jobs : Take(w, j)
           \/ ReadRecord(w) \/ WriteRecord(w) \/ RaiseOutageIn(w)
           \/ WriteUnanswered(w)
  BY <1>1 DEF Take, ReadRecord, WriteRecord, RaiseOutageIn, WriteUnanswered,
              StoreRecord
<1>2. CASE \/ Validate(w) \/ Build(w) \/ BuildFails(w) \/ BuildRaises(w)
           \/ StartRun(w) \/ RunnerFails(w) \/ RunSucceeds(w) \/ RunFails(w)
  BY <1>2 DEF Validate, Build, BuildFails, BuildRaises, StartRun, RunnerFails,
              RunSucceeds, RunFails
<1>3. CASE \/ Parse(w) \/ ParseFails(w) \/ ClearArtifact(w)
           \/ CopyArtifact(w) \/ CopyRaises(w) \/ Publish(w)
  BY <1>3 DEF Parse, ParseFails, ClearArtifact, CopyArtifact, CopyRaises,
              Publish
<1>4. CASE Ack(w) \/ AckLost(w) \/ Redeliver(w) \/ Crash(w) \/ LoseProcess(w)
  BY <1>4 DEF Ack, AckLost, Redeliver, Crash, LoseProcess
<1>. QED
  BY <1>1, <1>2, <1>3, <1>4 DEF TaskStep, FaultStep

\* The faults left under RunOnce.
LEMMA RunOnceFaults ==
  ASSUME RunOnce, TypeInv, NEW w \in Workers, FaultStep(w)
  PROVE  WriteUnanswered(w) \/ LoseProcess(w)
BY DEF RunOnce, FaultStep, AckLost, Redeliver, Crash, TypeInv, TypeOK,
       WorkerTypeOK

\* A worker that is finishing its job goes on finishing it, or rests.
LEMMA FinishingStays ==
  ASSUME RunOnce, TypeInv, NEW w \in Workers, wjob[w] # None, Finishing(w),
         TaskStep(w) \/ FaultStep(w)
  PROVE  \/ wjob'[w] = None
         \/ wjob'[w] = wjob[w] /\ Finishing(w)'
<1>. USE DEF TypeInv, TypeOK, WorkerTypeOK, Finishing, GoTo, Terminal
<1>1. FailedCall("worker").status \in Terminal
  BY DEF FailedCall
<1>2. CASE ReadRecord(w) \/ WriteRecord(w)
  BY <1>2 DEF ReadRecord, WriteRecord, StoreRecord
<1>3. CASE RaiseOutageIn(w) \/ WriteUnanswered(w)
  BY <1>1, <1>3 DEF RaiseOutageIn, WriteUnanswered, Raise, Fail, Begin
<1>4. CASE Ack(w) \/ LoseProcess(w)
  BY <1>4 DEF Ack, LoseProcess, Rest
<1>. QED
  BY <1>2, <1>3, <1>4, RunOnceFaults
     DEF TaskStep, Take, Validate, Build, BuildFails, BuildRaises, StartRun,
         RunnerFails, RunSucceeds, RunFails, Parse, ParseFails, ClearArtifact,
         CopyArtifact, CopyRaises, Publish

\* A delivery that is taken or put back is of a job that is not over.
LEMMA QueueSteps ==
  ASSUME RunOnce, TypeInv, NEW w \in Workers, TaskStep(w) \/ FaultStep(w)
  PROVE  \/ \E j \in Jobs : Take(w, j)
         \/ queue' = queue /\ (wjob'[w] = wjob[w] \/ wjob'[w] = None)
<1>1. CASE WriteUnanswered(w) \/ LoseProcess(w) \/ Ack(w)
  BY <1>1 DEF WriteUnanswered, LoseProcess, Ack, Rest, storeVars, TypeInv,
              TypeOK, WorkerTypeOK
<1>2. CASE TaskStep(w) /\ ~Ack(w) /\ \A j \in Jobs : ~Take(w, j)
  BY <1>2, DeliveryInside
<1>. QED
  BY <1>1, <1>2, RunOnceFaults

\* A run that is over stays over: nothing takes the job up again.
LEMMA OverStays ==
  ASSUME RunOnce, DeliveryInv, NEW j \in Jobs, Over(j), [Next]_vars
  PROVE  Over(j)'
<1>. USE DEF DeliveryInv, TypeInv, TypeOK, StoreTypeOK, RouterTypeOK,
         WorkerTypeOK
<1>1. ASSUME NEW i \in Jobs, Submission(i) PROVE Over(j)'
  <2>1. UNCHANGED <<wpc, wjob, wcall>> /\ RouterStep(i)
    BY <1>1 DEF Submission, workerVars
  <2>2. /\ spc'[j] \notin {"new", "created", "hit", "miss"}
        /\ queue'[j] = 0
    BY <2>1 DEF Over, RouterStep, Create, LookUp, Serve, Dispatch, Answer,
                RaiseOutage, RaiseUnhashable, Advance, storeVars
  <2>. QED
    BY <2>1, <2>2 DEF Over, Finishing
<1>2. ASSUME NEW w \in Workers, Task(w) \/ Fault(w) PROVE Over(j)'
  <2>1. (TaskStep(w) \/ FaultStep(w)) /\ spc' = spc
    BY <1>2 DEF Task, Fault, routerVars
  <2>2. \A v \in Workers \ {w} :
          wjob'[v] = j => Finishing(v)'
    BY <2>1, OthersStay DEF Over, Finishing
  <2>3. queue'[j] = 0 /\ (wjob'[w] = j => wjob[w] = j)
    <3>1. ASSUME NEW i \in Jobs, Take(w, i)
          PROVE  queue'[j] = 0 /\ (wjob'[w] = j => wjob[w] = j)
      <4>1. i # j
        BY <3>1 DEF Take, Over
      <4>. QED
        BY <3>1, <4>1 DEF Take, Over
    <3>. QED
      BY <2>1, <3>1, QueueSteps DEF Over
  <2>4. wjob'[w] = j => Finishing(w)'
    BY <2>1, <2>3, FinishingStays DEF Over
  <2>. QED
    BY <2>1, <2>2, <2>3, <2>4 DEF Over
<1>3. CASE UNCHANGED <<spc, queue, wpc, wjob, wcall>>
  BY <1>3 DEF Over, Finishing
<1>4. ASSUME NEW c \in Cases, Orphan(c)
      PROVE  UNCHANGED <<spc, queue, wpc, wjob, wcall>>
  BY <1>4 DEF Orphan, OrphanEnds, storeVars, routerVars
<1>5. ASSUME NEW d \in Devices, Turn(d)
      PROVE  UNCHANGED <<spc, queue, wpc, wjob, wcall>>
  BY <1>5 DEF Turn, HistoryStep, SeeCompleted, ReadForUpdate, WriteOwner,
              WriteNote, TurnRaises, storeVars, routerVars, workerVars
<1>6. CASE Outage \/ Recovery \/ UNCHANGED vars
  BY <1>3, <1>6 DEF Outage, Recovery, GoDown, ComeBack, vars, storeVars,
                    routerVars, workerVars
<1>. QED
  BY <1>1, <1>2, <1>3, <1>4, <1>5, <1>6 DEF Next

-----------------------------------------------------------------------------
\* Who writes records.
LEMMA RecordSteps ==
  ASSUME [Next]_vars
  PROVE  \/ rec' = rec
         \/ \E j \in Jobs : Submission(j) /\ (Create(j) \/ Serve(j))
         \/ \E w \in Workers : \/ Task(w) /\ WriteRecord(w)
                               \/ Fault(w) /\ WriteUnanswered(w)
         \/ \E d \in Devices : Turn(d) /\ (WriteOwner(d) \/ WriteNote(d))
<1>1. ASSUME NEW j \in Jobs, Submission(j)
      PROVE  rec' = rec \/ Create(j) \/ Serve(j)
  BY <1>1 DEF Submission, RouterStep, LookUp, Dispatch, Answer, RaiseOutage,
              RaiseUnhashable, storeVars
<1>2. ASSUME NEW w \in Workers, Task(w)
      PROVE  rec' = rec \/ WriteRecord(w)
  BY <1>2
     DEF Task, TaskStep, Take, ReadRecord, RaiseOutageIn, Validate, Build,
         BuildFails, BuildRaises, StartRun, RunnerFails, RunSucceeds, RunFails,
         Parse, ParseFails, ClearArtifact, CopyArtifact, CopyRaises, Publish,
         Ack, storeVars
<1>3. ASSUME NEW w \in Workers, Fault(w)
      PROVE  rec' = rec \/ WriteUnanswered(w)
  BY <1>3 DEF Fault, FaultStep, AckLost, Redeliver, Crash, LoseProcess,
              storeVars
<1>4. ASSUME NEW d \in Devices, Turn(d)
      PROVE  rec' = rec \/ WriteOwner(d) \/ WriteNote(d)
  BY <1>4 DEF Turn, HistoryStep, SeeCompleted, ReadForUpdate, TurnRaises,
              storeVars
<1>5. ASSUME NEW c \in Cases, Orphan(c) PROVE rec' = rec
  BY <1>5 DEF Orphan, OrphanEnds, storeVars
<1>6. CASE Outage \/ Recovery \/ UNCHANGED vars
  BY <1>6 DEF Outage, Recovery, GoDown, ComeBack, vars, storeVars
<1>. QED
  BY <1>1, <1>2, <1>3, <1>4, <1>5, <1>6 DEF Next

\* A final job may change its outcome under RunOnce (a worker that was not
\* told of its write records another one), but it stays final.
LEMMA FinalStays ==
  ASSUME RunOnce, DeliveryInv, FinalOver, NEW j \in Jobs, Final(j),
         [Next]_vars
  PROVE  Final(j)'
<1>. USE DEF DeliveryInv, TypeInv, TypeOK, StoreTypeOK, Final
<1>0. Over(j) /\ None \notin Record
  BY DEF FinalOver
<1>1. ASSUME NEW i \in Jobs, Create(i) \/ Serve(i) PROVE Final(j)'
  <2>1. i # j
    BY <1>0, <1>1 DEF Over, Create, Serve
  <2>. QED
    BY <1>1, <2>1 DEF Create, Serve
<1>2. ASSUME NEW w \in Workers, WriteRecord(w) \/ WriteUnanswered(w)
      PROVE  Final(j)'
  <2>1. /\ rec' = [rec EXCEPT ![wjob[w]] = WithStatus(wrec[w], wcall[w])]
        /\ wpc[w] = "write" /\ wrec[w] \in Record /\ wcall[w] \in Call
    BY <1>2 DEF WriteRecord, WriteUnanswered, StoreRecord, WorkerTypeOK,
                WorkerReady
  <2>2. WithStatus(wrec[w], wcall[w]) \in Record
    BY <2>1, RecordTypes
  <2>3. wjob[w] = j => wcall[w].status \in Terminal
    BY <1>0, <2>1 DEF Over, Finishing
  <2>4. WithStatus(wrec[w], wcall[w]).status = wcall[w].status
    BY DEF WithStatus
  <2>. QED
    BY <1>0, <2>1, <2>2, <2>3, <2>4
<1>3. ASSUME NEW d \in Devices, WriteOwner(d) \/ WriteNote(d)
      PROVE  Final(j)'
  <2>1. hrec[d] \in Record /\ hrec[d].status \in Terminal
    BY <1>3 DEF WriteOwner, WriteNote, HistoryTypeOK, HistoryReady, FinalOver
  <2>2. /\ hnote[d] \in Output \cup {None}
        /\ WithOwner(hrec[d], d) \in Record
        /\ WithNote(hrec[d], hnote[d]) \in Record
    BY <2>1, RecordTypes DEF HistoryTypeOK
  <2>3. /\ WithOwner(hrec[d], d).status = hrec[d].status
        /\ WithNote(hrec[d], hnote[d]).status = hrec[d].status
    BY <2>1 DEF WithOwner, WithNote, Record
  <2>. QED
    BY <1>0, <1>3, <2>1, <2>2, <2>3 DEF WriteOwner, WriteNote
<1>. QED
  BY <1>1, <1>2, <1>3, RecordSteps

\* A job becomes final when its run is over.
LEMMA BecomesOver ==
  ASSUME RunOnce, DeliveryInv, FinalOver, NEW j \in Jobs, ~Final(j), Final(j)',
         [Next]_vars
  PROVE  Over(j)'
<1>. USE DEF DeliveryInv, TypeInv, TypeOK, StoreTypeOK, RouterTypeOK,
             WorkerTypeOK, Final
<1>0. None \notin Record
  OBVIOUS
<1>1. ASSUME NEW i \in Jobs, Submission(i), Create(i) \/ Serve(i)
      PROVE  Over(j)'
  <2>1. NewRecord.status \notin Terminal
    BY DEF NewRecord, Terminal
  <2>2. i = j /\ Serve(i)
    BY <1>1, <2>1 DEF Create, Serve
  <2>3. UNCHANGED <<queue, wjob>> /\ spc' = [spc EXCEPT ![j] = "served"]
    BY <1>1, <2>2 DEF Serve, Advance, Submission, workerVars
  <2>4. queue[j] = 0 /\ \A w \in Workers : wjob[w] # j
    BY <2>2 DEF Serve, NotYetSent
  <2>. QED
    BY <2>3, <2>4 DEF Over
<1>2. ASSUME NEW w \in Workers, Task(w) \/ Fault(w),
             WriteRecord(w) \/ WriteUnanswered(w)
      PROVE  Over(j)'
  <2>1. /\ rec' = [rec EXCEPT ![wjob[w]] = WithStatus(wrec[w], wcall[w])]
        /\ wpc[w] = "write" /\ wjob' = wjob
    BY <1>2 DEF WriteRecord, WriteUnanswered, StoreRecord
  <2>2. wjob[w] = j
    BY <2>1
  <2>3. wcall[w].status \in Terminal
    BY <2>1, <2>2 DEF WithStatus
  <2>4. Finishing(w)'
    <3>1. FailedCall("worker").status \in Terminal
      BY DEF FailedCall, Terminal
    <3>. QED
      BY <1>2, <2>3, <3>1 DEF WriteRecord, WriteUnanswered, Raise, Fail, Begin,
                              GoTo, Finishing, Terminal
  <2>5. \A v \in Workers : wjob[v] = j => v = w
    BY <2>2 DEF SingleDelivery
  <2>6. queue[j] = 0 /\ spc[j] \notin {"new", "created", "hit", "miss"}
    BY <2>2 DEF SingleDelivery, NotYetSent
  <2>7. queue' = queue /\ spc' = spc
    BY <1>2 DEF WriteRecord, WriteUnanswered, Task, Fault, routerVars
  <2>. QED
    BY <2>1, <2>4, <2>5, <2>6, <2>7 DEF Over
<1>3. ASSUME NEW d \in Devices, WriteOwner(d) \/ WriteNote(d)
      PROVE  FALSE
  <2>1. hjob[d] # j
    BY <1>3 DEF WriteOwner, WriteNote, FinalOver
  <2>. QED
    BY <1>3, <2>1 DEF WriteOwner, WriteNote
<1>. QED
  BY <1>1, <1>2, <1>3, RecordSteps

LEMMA FinalOverInit == Init => FinalOver
BY DEF Init, StoreInit, HistoryInit, FinalOver, Final

\* A job that is final has been run, and a chat turn works on final jobs.
LEMMA FinalOverNext ==
  ASSUME RunOnce, DeliveryInv, FinalOver, [Next]_vars
  PROVE  FinalOver'
<1>1. \A j \in Jobs : Final(j)' => Over(j)'
  BY BecomesOver, OverStays DEF FinalOver
<1>. SUFFICES ASSUME NEW d \in Devices
              PROVE  /\ hpc'[d] # "chat" => Final(hjob[d])'
                     /\ hpc'[d] \in {"writeOwner", "writeNote"} =>
                          hrec'[d].status \in Terminal
  BY <1>1 DEF FinalOver
<1>. USE DEF DeliveryInv, TypeInv, TypeOK, HistoryTypeOK, HistoryReady
<1>2. \A j \in Jobs : Final(j) => Final(j)'
  BY FinalStays
<1>3. ASSUME UNCHANGED <<hpc[d], hjob[d], hrec[d]>>
      PROVE  /\ hpc'[d] # "chat" => Final(hjob[d])'
             /\ hpc'[d] \in {"writeOwner", "writeNote"} =>
                  hrec'[d].status \in Terminal
  <2>1. hpc[d] # "chat" => hjob[d] \in Jobs /\ Final(hjob[d])
    BY DEF FinalOver
  <2>2. ASSUME NEW j \in Jobs, j = hjob[d], hpc[d] # "chat" PROVE Final(j)'
    BY <1>2, <2>1, <2>2
  <2>. QED
    BY <1>3, <2>1, <2>2 DEF FinalOver, Final
<1>4. CASE \E e \in Devices : Turn(e)
  <2>1. PICK e \in Devices : Turn(e)
    BY <1>4
  <2>2. CASE e # d
    BY <2>1, <2>2, <1>3 DEF Turn, HistoryStep, SeeCompleted, ReadForUpdate,
       WriteOwner, WriteNote, TurnRaises, TurnTo, EndTurn
  <2>3. ASSUME NEW j \in Jobs, SeeCompleted(d, j)
        PROVE  /\ hpc'[d] # "chat" => Final(hjob[d])'
               /\ hpc'[d] \in {"writeOwner", "writeNote"} =>
                    hrec'[d].status \in Terminal
    <3>1. Final(j)
      BY <2>3 DEF SeeCompleted, PublicView, Final, Terminal
    <3>2. hpc'[d] = "readOwner" /\ hjob'[d] = j
      BY <2>3 DEF SeeCompleted, TurnTo
    <3>. QED
      BY <1>2, <3>1, <3>2 DEF Final
  <2>4. CASE ReadForUpdate(d)
    <3>1. hjob[d] \in Jobs /\ Final(hjob[d]) /\ UNCHANGED <<hjob, rec>>
      BY <2>4 DEF ReadForUpdate, FinalOver, storeVars
    <3>2. hrec'[d] = rec[hjob[d]]
      BY <2>4 DEF ReadForUpdate
    <3>. QED
      BY <3>1, <3>2 DEF Final
  <2>5. CASE WriteOwner(d)
    <3>1. hjob[d] \in Jobs /\ Final(hjob[d])
      BY <2>5 DEF WriteOwner, FinalOver
    <3>2. \/ hpc'[d] = "chat"
          \/ hpc'[d] = "readNote" /\ hjob'[d] = hjob[d]
      BY <2>5 DEF WriteOwner, EndTurn, TurnTo
    <3>3. ASSUME NEW j \in Jobs, j = hjob[d] PROVE Final(j)'
      BY <1>2, <3>1, <3>3
    <3>. QED
      BY <3>1, <3>2, <3>3 DEF Final
  <2>6. CASE WriteNote(d) \/ TurnRaises(d)
    BY <2>6 DEF WriteNote, TurnRaises, EndTurn, TurnTo
  <2>. QED
    BY <2>1, <2>2, <2>3, <2>4, <2>5, <2>6 DEF Turn, HistoryStep
<1>5. CASE \A e \in Devices : ~Turn(e)
  <2>1. historyVars' = historyVars
    BY <1>5 DEF Next, vars, Submission, Task, Fault, Orphan, Outage, Recovery
  <2>. QED
    BY <1>3, <2>1 DEF historyVars
<1>. QED
  BY <1>4, <1>5

-----------------------------------------------------------------------------
\* Who writes artifact directories.
LEMMA ArtSteps ==
  ASSUME [Next]_vars
  PROVE  \/ art' = art
         \/ \E w \in Workers : /\ Task(w)
                               /\ \/ ClearArtifact(w)
                                  \/ CopyArtifact(w)
                                  \/ CopyRaises(w)
<1>1. ASSUME NEW j \in Jobs, Submission(j) PROVE art' = art
  BY <1>1 DEF Submission, workerVars, dirVars
<1>2. ASSUME NEW w \in Workers, Task(w)
      PROVE  art' = art \/ ClearArtifact(w) \/ CopyArtifact(w) \/ CopyRaises(w)
  BY <1>2
     DEF Task, TaskStep, Take, ReadRecord, WriteRecord, RaiseOutageIn,
         Validate, Build, BuildFails, BuildRaises, StartRun, RunnerFails,
         RunSucceeds, RunFails, Parse, ParseFails, Publish, Ack, dirVars
<1>3. ASSUME NEW w \in Workers, Fault(w) PROVE art' = art
  BY <1>3 DEF Fault, FaultStep, WriteUnanswered, AckLost, Redeliver, Crash,
              LoseProcess, dirVars
<1>4. ASSUME NEW d \in Devices, Turn(d) PROVE art' = art
  BY <1>4 DEF Turn, workerVars, dirVars
<1>5. ASSUME NEW c \in Cases, Orphan(c) PROVE art' = art
  BY <1>5 DEF Orphan, OrphanEnds
<1>6. CASE Outage \/ Recovery \/ UNCHANGED vars
  BY <1>6 DEF Outage, Recovery, vars, workerVars, dirVars
<1>. QED
  BY <1>1, <1>2, <1>3, <1>4, <1>5, <1>6 DEF Next

\* Archived files stay.
LEMMA ArchivedStays ==
  ASSUME RunOnce, DeliveryInv, NEW r \in Jobs, Archived(r), [Next]_vars
  PROVE  Archived(r)'
<1>1. Over(r)'
  BY OverStays DEF Archived
<1>2. ASSUME NEW w \in Workers,
             ClearArtifact(w) \/ CopyArtifact(w) \/ CopyRaises(w)
      PROVE  art'[r] = art[r]
  <2>1. wpc[w] \in {"clear", "copy"}
    BY <1>2 DEF ClearArtifact, CopyArtifact, CopyRaises
  <2>2. wjob[w] # r
    BY <2>1 DEF Archived, Over, Finishing
  <2>. QED
    BY <1>2, <2>2 DEF ClearArtifact, CopyArtifact, CopyRaises, DeliveryInv,
                      TypeInv, TypeOK, WorkerTypeOK
<1>3. art'[r] = art[r]
  BY <1>2, ArtSteps
<1>. QED
  BY <1>1, <1>3 DEF Archived

\* A worker that writes its result to the cache has archived its files.
LEMMA PublishArchives ==
  ASSUME DeliveryInv, CopySound, NEW w \in Workers, Task(w), Publish(w)
  PROVE  wjob[w] \in Jobs /\ Archived(wjob[w])'
<1>. USE DEF DeliveryInv, TypeInv, TypeOK, WorkerTypeOK
<1>1. wjob[w] \in Jobs
  BY DEF Publish, WorkerReady
<1>. DEFINE j == wjob[w]
<1>2. queue[j] = 0 /\ spc[j] \notin {"new", "created", "hit", "miss"}
  BY <1>1 DEF SingleDelivery, NotYetSent
<1>3. \A v \in Workers : wjob[v] = j => v = w
  BY <1>1 DEF SingleDelivery
<1>4. UNCHANGED <<queue, spc, wjob, art>> /\ art[j] = KeyOf[j]
  BY DEF Publish, Task, routerVars, dirVars, CopySound
<1>5. wpc'[w] = "read" /\ wcall'[w].status = "COMPLETED"
  BY DEF Publish, Begin, GoTo, CompletedCall
<1>6. ASSUME NEW i \in Jobs, i = j PROVE Archived(i)'
  BY <1>2, <1>3, <1>4, <1>5, <1>6 DEF Archived, Over, Finishing, Terminal
<1>. QED
  BY <1>1, <1>4, <1>6 DEF Archived, Over, Finishing

\* A reference that a submission shows was in the cache before.
LEMMA SubmissionCites ==
  ASSUME TypeInv, NEW j \in Jobs, Submission(j), NEW r \in Jobs, Cited(r)'
  PROVE  Cited(r)
<1>. USE DEF TypeInv, TypeOK, StoreTypeOK, RouterTypeOK, Advance
<1>0. None \notin Record
  OBVIOUS
<1>1. RouterStep(j) /\ UNCHANGED <<wjob, wcall, hpc, hrec, cache>>
  BY DEF Submission, workerVars, historyVars, RouterStep, Create, LookUp,
         Serve, Dispatch, Answer, RaiseOutage, RaiseUnhashable, storeVars
<1>2. CASE Create(j)
  <2>1. NewRecord.status # "COMPLETED"
    BY DEF NewRecord
  <2>. QED
    BY <1>0, <1>1, <1>2, <2>1 DEF Create, Cited
<1>3. CASE LookUp(j)
  BY <1>1, <1>3 DEF LookUp, Cited, storeVars
<1>4. CASE Serve(j)
  <2>1. sentry[j] \in Entry /\ spc[j] = "hit"
    BY <1>4 DEF Serve, RouterReady
  <2>2. WithStatus(rec[j], CompletedCall(sentry[j])).ref = sentry[j].ref
    BY <2>1 DEF WithStatus, CompletedCall, Given, Entry
  <2>3. rec' = [rec EXCEPT ![j] = WithStatus(rec[j], CompletedCall(sentry[j]))]
    BY <1>4 DEF Serve
  <2>4. sentry' = sentry /\ spc' = [spc EXCEPT ![j] = "served"]
    BY <1>4 DEF Serve
  <2>. QED
    BY <1>1, <2>1, <2>2, <2>3, <2>4 DEF Cited
<1>5. CASE Dispatch(j) \/ Answer(j) \/ RaiseOutage(j) \/ RaiseUnhashable(j)
  <2>1. UNCHANGED <<rec, sentry>> /\ \A i \in Jobs : spc'[i] = "hit" => spc[i] = "hit"
    BY <1>5 DEF Dispatch, Answer, RaiseOutage, RaiseUnhashable, storeVars
  <2>. QED
    BY <1>1, <2>1 DEF Cited
<1>. QED
  BY <1>1, <1>2, <1>3, <1>4, <1>5 DEF RouterStep

\* A worker names its own job when it publishes, and else what it named.
LEMMA TaskCites ==
  ASSUME TypeInv, TaskSound, NEW w \in Workers, Task(w) \/ Fault(w),
         NEW r \in Jobs, Cited(r)'
  PROVE  Cited(r) \/ (Publish(w) /\ Task(w) /\ wjob[w] = r)
<1>. USE DEF TypeInv, TypeOK, StoreTypeOK, WorkerTypeOK
<1>0. None \notin Record
  OBVIOUS
<1>1. /\ TaskStep(w) \/ FaultStep(w)
      /\ UNCHANGED <<spc, sentry, hpc, hrec>>
  BY DEF Task, Fault, routerVars, historyVars
<1>2. \A v \in Workers \ {w} : wjob'[v] = wjob[v] /\ wcall'[v] = wcall[v]
  BY <1>1, OthersStay
<1>3. CASE Publish(w) /\ Task(w)
  <2>. DEFINE entry == [ref |-> wjob[w], result |-> wresult[w]]
  <2>1. entry.ref = wjob[w] /\ CompletedCall(entry).ref = wjob[w]
    BY DEF CompletedCall
  <2>2. /\ cache' \in {cache, [cache EXCEPT ![KeyOf[wjob[w]]] = entry]}
        /\ wcall' = [wcall EXCEPT ![w] = CompletedCall(entry)]
        /\ UNCHANGED <<rec, wjob>>
    BY <1>3 DEF Publish, Begin
  <2>. HIDE DEF entry
  <2>. QED
    BY <1>1, <1>2, <1>3, <2>1, <2>2 DEF Cited
<1>4. CASE WriteRecord(w) \/ WriteUnanswered(w)
  <2>1. /\ rec' = [rec EXCEPT ![wjob[w]] = WithStatus(wrec[w], wcall[w])]
        /\ UNCHANGED <<wjob, cache>> /\ wjob[w] \in Jobs
    BY <1>4 DEF WriteRecord, WriteUnanswered, StoreRecord, WorkerReady
  <2>2. wcall[w].status = "COMPLETED" => wcall[w].ref # None
    BY <2>1 DEF TaskSound, Answers
  <2>3. /\ WithStatus(wrec[w], wcall[w]).status = wcall[w].status
        /\ wcall[w].status = "COMPLETED" =>
             WithStatus(wrec[w], wcall[w]).ref = wcall[w].ref
    BY <2>2 DEF WithStatus, Given
  <2>4. wcall'[w].status = "COMPLETED" => wcall'[w] = wcall[w]
    BY <1>4 DEF WriteRecord, WriteUnanswered, Raise, Fail, Begin, FailedCall
  <2>. QED
    BY <1>0, <1>1, <1>2, <2>1, <2>3, <2>4 DEF Cited
<1>5. CASE /\ ~(Publish(w) /\ Task(w))
           /\ ~WriteRecord(w) /\ ~WriteUnanswered(w)
  <2>1. ~Publish(w) \/ FaultStep(w)
    BY <1>1, <1>5 DEF Task, Fault
  <2>2. /\ UNCHANGED <<rec, cache>>
        /\ wjob'[w] # None /\ wcall'[w].status = "COMPLETED" =>
             wjob'[w] = wjob[w] /\ wcall'[w] = wcall[w]
    <3>. USE DEF GoTo, Begin, Fail, Raise, Rest, storeVars
    <3>1. RunningCall.status # "COMPLETED"
          /\ \A s : FailedCall(s).status # "COMPLETED"
      BY DEF RunningCall, FailedCall
    <3>2. CASE \/ \E j \in Jobs : Take(w, j)
               \/ ReadRecord(w) \/ RaiseOutageIn(w) \/ Ack(w)
      BY <3>1, <3>2 DEF Take, ReadRecord, RaiseOutageIn, Ack
    <3>3. CASE \/ Validate(w) \/ Build(w) \/ BuildFails(w) \/ BuildRaises(w)
               \/ StartRun(w) \/ RunnerFails(w) \/ RunSucceeds(w)
               \/ RunFails(w)
      BY <3>1, <3>3 DEF Validate, Build, BuildFails, BuildRaises, StartRun,
                        RunnerFails, RunSucceeds, RunFails
    <3>4. CASE \/ Parse(w) \/ ParseFails(w) \/ ClearArtifact(w)
               \/ CopyArtifact(w) \/ CopyRaises(w)
      BY <3>1, <3>4 DEF Parse, ParseFails, ClearArtifact, CopyArtifact,
                        CopyRaises
    <3>5. CASE AckLost(w) \/ Redeliver(w) \/ Crash(w) \/ LoseProcess(w)
      BY <3>1, <3>5 DEF AckLost, Redeliver, Crash, LoseProcess
    <3>. QED
      BY <1>1, <1>5, <2>1, <3>2, <3>3, <3>4, <3>5 DEF TaskStep, FaultStep
  <2>. QED
    BY <1>1, <1>2, <2>2 DEF Cited
<1>. QED
  BY <1>3, <1>4, <1>5

\* A chat turn names what it read in a record.
LEMMA TurnCites ==
  ASSUME TypeInv, NEW d \in Devices, Turn(d), NEW r \in Jobs, Cited(r)'
  PROVE  Cited(r)
<1>. USE DEF TypeInv, TypeOK, StoreTypeOK, HistoryTypeOK, HistoryReady, TurnTo,
         EndTurn
<1>0. None \notin Record
  OBVIOUS
<1>1. /\ HistoryStep(d)
      /\ UNCHANGED <<spc, sentry, wjob, wcall, cache>>
  BY DEF Turn, routerVars, workerVars, HistoryStep, SeeCompleted,
         ReadForUpdate, WriteOwner, WriteNote, TurnRaises, storeVars
<1>2. CASE (\E j \in Jobs : SeeCompleted(d, j)) \/ TurnRaises(d)
  <2>1. rec' = rec /\ hrec' \in {hrec, [hrec EXCEPT ![d] = None]}
        /\ hpc' \in {[hpc EXCEPT ![d] = "readOwner"],
                     [hpc EXCEPT ![d] = "chat"]}
    BY <1>2 DEF SeeCompleted, TurnRaises, storeVars
  <2>. QED
    BY <1>1, <2>1 DEF Cited
<1>3. CASE ReadForUpdate(d)
  <2>1. /\ hjob[d] \in Jobs /\ rec[hjob[d]] # None
        /\ hrec' = [hrec EXCEPT ![d] = rec[hjob[d]]]
        /\ UNCHANGED rec
        /\ \A e \in Devices \ {d} : hpc'[e] = hpc[e]
    BY <1>3 DEF ReadForUpdate, storeVars
  <2>. QED
    BY <1>1, <2>1 DEF Cited
<1>4. CASE WriteOwner(d) \/ WriteNote(d)
  <2>1. hrec[d] \in Record /\ hpc[d] \in {"writeOwner", "writeNote"}
    BY <1>4 DEF WriteOwner, WriteNote
  <2>2. PICK s : /\ s.status = hrec[d].status /\ s.ref = hrec[d].ref
                 /\ rec' = [rec EXCEPT ![hjob[d]] = s]
    BY <1>4, <2>1 DEF WriteOwner, WriteNote, WithOwner, WithNote, Record
  <2>3. hpc'[d] \in {"chat", "readNote"}
        /\ \A e \in Devices \ {d} : hpc'[e] = hpc[e] /\ hrec'[e] = hrec[e]
    BY <1>4 DEF WriteOwner, WriteNote
  <2>. QED
    BY <1>1, <2>1, <2>2, <2>3 DEF Cited
<1>. QED
  BY <1>1, <1>2, <1>3, <1>4 DEF HistoryStep

\* Whatever is cited stays archived, and nothing is cited before it is.
LEMMA CitedArchivedNext ==
  ASSUME RunOnce, DeliveryInv, TaskSound, CopySound, CitedArchived,
         [Next]_vars
  PROVE  CitedArchived'
<1>. SUFFICES ASSUME NEW r \in Jobs, Cited(r)'
              PROVE  Archived(r)'
  BY DEF CitedArchived
<1>0. TypeInv
  BY DEF DeliveryInv
<1>1. \/ Cited(r)
      \/ \E w \in Workers : Publish(w) /\ Task(w) /\ wjob[w] = r
  <2>1. ASSUME NEW j \in Jobs, Submission(j) PROVE Cited(r)
    BY <1>0, <2>1, SubmissionCites
  <2>2. ASSUME NEW w \in Workers, Task(w) \/ Fault(w)
        PROVE  Cited(r) \/ (Publish(w) /\ Task(w) /\ wjob[w] = r)
    BY <1>0, <2>2, TaskCites
  <2>3. ASSUME NEW d \in Devices, Turn(d) PROVE Cited(r)
    BY <1>0, <2>3, TurnCites
  <2>4. ASSUME NEW c \in Cases, Orphan(c) PROVE Cited(r)
    BY <2>4 DEF Orphan, OrphanEnds, storeVars, routerVars, historyVars, Cited
  <2>5. CASE Outage \/ Recovery \/ UNCHANGED vars
    BY <2>5 DEF Outage, Recovery, GoDown, ComeBack, vars, storeVars,
       routerVars, workerVars, historyVars, Cited
  <2>. QED
    BY <2>1, <2>2, <2>3, <2>4, <2>5 DEF Next
<1>2. CASE Cited(r)
  BY <1>2, ArchivedStays DEF CitedArchived
<1>3. ASSUME NEW w \in Workers, Publish(w), Task(w), wjob[w] = r
      PROVE  Archived(r)'
  <2>1. wjob' = wjob
    BY <1>3 DEF Publish
  <2>. QED
    BY <1>3, <2>1, PublishArchives DEF Archived, Over, Finishing
<1>. QED
  BY <1>1, <1>2, <1>3

\* The output and the copy are the worker's own while nobody else can be in
\* its directory or have its job.
LEMMA CopySoundTask ==
  ASSUME DeliveryInv, TaskSound, CaseExclusive, CopySound, OwnDirectory,
         NEW w \in Workers, TaskStep(w) \/ FaultStep(w)
  PROVE  CopySound'
<1>. USE DEF DeliveryInv, TypeInv, TypeOK, WorkerTypeOK, GoTo, CaseDir, dirVars
<1>1. \A v \in Workers \ {w} : wpc'[v] = wpc[v] /\ wjob'[v] = wjob[v]
  BY OthersStay
<1>2. \A v \in Workers : wpc[v] # "idle" => wjob[v] \in Jobs
  BY DEF WorkerReady
<1>3. CASE UNCHANGED <<output, art>> /\ ~ClearArtifact(w) /\ ~CopyArtifact(w)
  <2>1. wpc'[w] \in {"clear", "copy", "publish"} =>
          \/ wpc'[w] = wpc[w] /\ wjob'[w] = wjob[w]
          \/ Parse(w)
    <3>. USE DEF Begin, Fail, Raise, Rest
    <3>1. CASE \/ \E j \in Jobs : Take(w, j)
               \/ ReadRecord(w) \/ WriteRecord(w) \/ RaiseOutageIn(w)
               \/ Ack(w) \/ FaultStep(w)
      BY <3>1 DEF Take, ReadRecord, WriteRecord, RaiseOutageIn, Ack, FaultStep,
                  WriteUnanswered, AckLost, Redeliver, Crash, LoseProcess
    <3>2. CASE \/ Validate(w) \/ Build(w) \/ BuildFails(w) \/ BuildRaises(w)
               \/ StartRun(w) \/ RunnerFails(w) \/ RunSucceeds(w)
               \/ RunFails(w) \/ ParseFails(w) \/ Publish(w) \/ CopyRaises(w)
      BY <3>2 DEF Validate, Build, BuildFails, BuildRaises, StartRun,
           RunnerFails, RunSucceeds, RunFails, ParseFails, Publish, CopyRaises
    <3>. QED
      BY <1>3, <3>1, <3>2 DEF TaskStep
  <2>2. CASE Parse(w)
    BY <1>1, <2>2 DEF CopySound, TaskSound, Parse
  <2>. QED
    BY <1>1, <1>3, <2>1, <2>2 DEF CopySound
<1>4. CASE StartRun(w) \/ RunSucceeds(w)
  <2>1. PICK x : output' = [output EXCEPT ![CaseDir(w)] = x]
    BY <1>4 DEF StartRun, RunSucceeds
  <2>2. UNCHANGED <<wjob, art>> /\ wpc'[w] \in {"running", "parse"}
    BY <1>4 DEF StartRun, RunSucceeds
  <2>3. \A v \in Workers \ {w} : wpc[v] # "idle" => CaseDir(v) # CaseDir(w)
    BY <1>4, Alone DEF StartRun, RunSucceeds
  <2>. QED
    BY <1>1, <2>1, <2>2, <2>3 DEF CopySound
<1>5. CASE ClearArtifact(w) \/ CopyArtifact(w) \/ CopyRaises(w)
  <2>1. PICK x : /\ art' = [art EXCEPT ![wjob[w]] = x]
                 /\ CopyArtifact(w) => x = output[CaseDir(w)]
    BY <1>5 DEF ClearArtifact, CopyArtifact, CopyRaises
  <2>2. UNCHANGED <<wjob, output>> /\ wpc[w] \in {"clear", "copy"}
        /\ (wpc'[w] = "publish" => CopyArtifact(w))
        /\ (wpc'[w] = "clear" => FALSE)
        /\ wjob[w] \in Jobs
    BY <1>2, <1>5 DEF ClearArtifact, CopyArtifact, CopyRaises, Raise, Fail,
                      Begin
  <2>3. \A v \in Workers \ {w} : wpc[v] = "publish" => wjob[v] # wjob[w]
    <3>1. \A v \in Workers \ {w} : wpc[v] = "publish" => wjob[v] \in Jobs
                                      /\ wjob[v] # None
      BY <1>2
    <3>. QED
      BY <2>2, <3>1 DEF CaseExclusive
  <2>. QED
    BY <1>1, <1>2, <2>1, <2>2, <2>3 DEF CopySound
<1>6. UNCHANGED <<output, art>> \/ StartRun(w) \/ RunSucceeds(w)
      \/ ClearArtifact(w) \/ CopyArtifact(w) \/ CopyRaises(w)
  BY DEF TaskStep, FaultStep, Take, ReadRecord, WriteRecord, RaiseOutageIn,
         Validate, Build, BuildFails, BuildRaises, RunnerFails, RunFails,
         Parse, ParseFails, Publish, Ack, WriteUnanswered, AckLost, Redeliver,
         Crash, LoseProcess
<1>. QED
  BY <1>3, <1>4, <1>5, <1>6

LEMMA CopySoundNext ==
  ASSUME DeliveryInv, TaskSound, orphans = {}, CaseExclusive, CopySound,
         OwnDirectory, [Next]_vars
  PROVE  CopySound'
<1>1. ASSUME NEW w \in Workers, Task(w) \/ Fault(w) PROVE CopySound'
  BY <1>1, CopySoundTask DEF Task, Fault
<1>2. ASSUME NEW c \in Cases, Orphan(c) PROVE CopySound'
  BY <1>2 DEF Orphan, OrphanEnds
<1>3. CASE workerVars' = workerVars
  BY <1>3 DEF CopySound, workerVars, dirVars, CaseDir
<1>. QED
  BY <1>1, <1>2, <1>3
     DEF Next, Submission, Turn, Outage, Recovery, vars

\* If tasks are kept apart and none is run twice, the files that a COMPLETED
\* job refers to, its own or those of the job it was answered from, are there
\* and whole, whatever else fails: the copy is made before the cache entry
\* and the status (worker.py:142-146), and only a second run of the same job
\* would remove it (artifact_store.py, store).
THEOREM ArtifactsKept ==
  ASSUME OwnDirectory, RunOnce
  PROVE  Spec => []ArtifactBehind
<1>. DEFINE Inv == /\ DeliveryInv /\ SoundInv
                   /\ CopySound /\ CitedArchived
<1>0. NoRepeats
  BY DEF NoRepeats, RunOnce
<1>1. Init => Inv
  <2>1. Init => CopySound /\ CitedArchived
    BY DEF Init, StoreInit, RouterInit, WorkerInit, HistoryInit, CopySound,
           CitedArchived, Cited
  <2>. QED
    BY <2>1, DeliveryInit, SoundInit
<1>2. Inv /\ [Next]_vars => Inv'
  <2>. SUFFICES ASSUME Inv, [Next]_vars PROVE Inv'
    OBVIOUS
  <2>1. DeliveryInv'
    BY <1>0, DeliveryNext
  <2>2. CaseExclusive
    BY Apart DEF DeliveryInv
  <2>3. SoundInv'
    BY <2>2, SoundNext DEF DeliveryInv
  <2>4. CopySound'
    BY <2>2, CopySoundNext DEF SoundInv
  <2>5. CitedArchived'
    BY CitedArchivedNext DEF SoundInv
  <2>. QED
    BY <2>1, <2>3, <2>4, <2>5
<1>3. Inv => ArtifactBehind
  <2>. SUFFICES ASSUME Inv, NEW j \in Jobs, rec[j] # None,
                       rec[j].status = "COMPLETED"
                PROVE  art[rec[j].ref] = KeyOf[j]
    BY DEF ArtifactBehind
  <2>1. rec[j] \in Record /\ rec[j].ref # None /\ KeyOf[rec[j].ref] = KeyOf[j]
    BY DEF SoundInv, CompletedSound, DeliveryInv, TypeInv, TypeOK, StoreTypeOK
  <2>2. rec[j].ref \in Jobs
    BY <2>1 DEF Record
  <2>3. Cited(rec[j].ref)
    BY DEF Cited
  <2>. QED
    BY <2>1, <2>2, <2>3 DEF CitedArchived, Archived
<1>. QED
  BY <1>1, <1>2, <1>3, PTL DEF Spec

-----------------------------------------------------------------------------
\* Redis stays up, no task process is killed, and every payload has a key.
NothingLost ==
  /\ MaxOutages = 0
  /\ MaxLosses = 0
  /\ \A j \in Jobs : KeyOf[j] \notin Unhashable

\* Nobody asks about a job in a chat turn.
NobodyAsks == \A d \in Devices : Asks[d] = {}

\* An idle worker has no job; a worker never calls set_status with PENDING,
\* and with a stage of failure only together with FAILED.
TaskBasics ==
  \A w \in Workers :
    /\ wpc[w] = "idle" => wjob[w] = None
    /\ wcall[w].status # "PENDING"
    /\ wcall[w].error # None => wcall[w].status = "FAILED"

\* A chat turn writes back no open record.
TurnWritesFinal ==
  \A d \in Devices : hpc[d] \in {"writeOwner", "writeNote"} =>
    hrec[d].status \in Terminal

AccountedInv == TypeInv /\ redis = "up" /\ TaskBasics /\ Accounted

LEMMA TaskBasicsNext ==
  ASSUME TypeInv, TaskBasics, [Next]_vars
  PROVE  TaskBasics'
<1>. USE DEF TaskBasics, TypeInv, TypeOK, WorkerTypeOK, GoTo
<1>1. ASSUME NEW w \in Workers, TaskStep(w) \/ FaultStep(w)
      PROVE  /\ wpc'[w] = "idle" => wjob'[w] = None
             /\ \/ wcall'[w] = wcall[w]
                \/ wcall'[w] = RunningCall
                \/ \E s \in Stages : wcall'[w] = FailedCall(s)
                \/ \E entry : wcall'[w] = CompletedCall(entry)
  <2>. USE DEF Begin, Fail, Raise, Rest, Stages
  <2>1. CASE \/ \E j \in Jobs : Take(w, j)
             \/ ReadRecord(w) \/ WriteRecord(w) \/ RaiseOutageIn(w)
             \/ Ack(w) \/ FaultStep(w)
    BY <2>1 DEF Take, ReadRecord, WriteRecord, RaiseOutageIn, Ack, FaultStep,
                WriteUnanswered, AckLost, Redeliver, Crash, LoseProcess
  <2>2. CASE \/ Validate(w) \/ Build(w) \/ BuildFails(w) \/ BuildRaises(w)
             \/ StartRun(w) \/ RunnerFails(w) \/ RunSucceeds(w)
             \/ RunFails(w)
    BY <2>2 DEF Validate, Build, BuildFails, BuildRaises, StartRun,
         RunnerFails, RunSucceeds, RunFails
  <2>3. CASE \/ Parse(w) \/ ParseFails(w) \/ ClearArtifact(w)
             \/ CopyArtifact(w) \/ CopyRaises(w)
    BY <2>3 DEF Parse, ParseFails, ClearArtifact, CopyArtifact, CopyRaises
  <2>4. CASE Publish(w)
    BY <2>4 DEF Publish
  <2>. QED
    BY <1>1, <2>1, <2>2, <2>3, <2>4 DEF TaskStep
<1>2. ASSUME NEW w \in Workers, Task(w) \/ Fault(w) PROVE TaskBasics'
  <2>1. TaskStep(w) \/ FaultStep(w)
    BY <1>2 DEF Task, Fault
  <2>2. \A v \in Workers \ {w} :
          wcall'[v] = wcall[v] /\ wpc'[v] = wpc[v] /\ wjob'[v] = wjob[v]
    BY <2>1, OthersStay
  <2>3. (wpc'[w] = "idle" => wjob'[w] = None)
        /\ wcall'[w].status # "PENDING"
        /\ (wcall'[w].error # None => wcall'[w].status = "FAILED")
    <3>1. /\ RunningCall.status = "RUNNING" /\ RunningCall.error = None
          /\ \A t : FailedCall(t).status = "FAILED"
          /\ \A e : /\ CompletedCall(e).status = "COMPLETED"
                    /\ CompletedCall(e).error = None
      BY DEF RunningCall, FailedCall, CompletedCall
    <3>. QED
      BY <1>1, <2>1, <3>1
  <2>. QED
    BY <2>2, <2>3
<1>3. CASE UNCHANGED <<wcall, wpc, wjob>>
  BY <1>3
<1>. QED
  BY <1>2, <1>3 DEF Next, Submission, Orphan, OrphanEnds, Turn, Outage,
                    Recovery, vars, workerVars

\* A submission leaves its job to the queue.
LEMMA AccountedSubmission ==
  ASSUME NothingLost, AccountedInv, NEW i \in Jobs, Submission(i)
  PROVE  Accounted'
<1>. USE DEF AccountedInv, TypeInv, TypeOK, StoreTypeOK, RouterTypeOK, Advance
<1>. SUFFICES ASSUME NEW j \in Jobs, Open(j)'
              PROVE  \/ spc'[j] \in {"created", "hit", "miss"}
                     \/ queue'[j] > 0
                     \/ \E w \in Workers : wjob'[w] = j /\ wpc'[w] # "ack"
  BY DEF Accounted
<1>1. RouterStep(i) /\ UNCHANGED <<wjob, wpc>>
  BY DEF Submission, workerVars
<1>2. UNCHANGED <<rec, spc, queue>> => Open(j)
  BY DEF Open
<1>3. CASE i # j
  <2>1. rec'[j] = rec[j] /\ spc'[j] = spc[j] /\ queue'[j] = queue[j]
    BY <1>1, <1>3 DEF RouterStep, Create, LookUp, Serve, Dispatch, Answer,
                      RaiseOutage, RaiseUnhashable, storeVars
  <2>. QED
    BY <1>1, <2>1 DEF Accounted, Open
<1>4. CASE i = j
  <2>1. CASE Create(j)
    BY <2>1 DEF Create
  <2>2. CASE LookUp(j)
    BY <2>2 DEF LookUp
  <2>3. CASE Serve(j)
    <3>1. rec'[j] = WithStatus(rec[j], CompletedCall(sentry[j]))
      BY <2>3 DEF Serve
    <3>. QED
      BY <3>1 DEF Open, WithStatus, CompletedCall, Terminal
  <2>4. CASE Dispatch(j)
    BY <2>4 DEF Dispatch
  <2>5. CASE Answer(j)
    <3>1. Open(j) /\ queue' = queue /\ spc[j] \in {"served", "sent"}
      BY <2>5 DEF Answer, Open, storeVars
    <3>. QED
      BY <1>1, <3>1 DEF Accounted
  <2>6. ~RaiseOutage(j) /\ ~RaiseUnhashable(j)
    BY DEF NothingLost, RaiseOutage, RaiseUnhashable
  <2>. QED
    BY <1>1, <1>4, <2>1, <2>2, <2>3, <2>4, <2>5, <2>6 DEF RouterStep
<1>. QED
  BY <1>3, <1>4

\* A worker has its job until it has recorded how it ended.
LEMMA WorkerKeeps ==
  ASSUME NothingLost, AccountedInv, NEW w \in Workers,
         TaskStep(w) \/ FaultStep(w),
         NEW j \in Jobs, wjob[w] = j, wpc[w] # "ack", Open(j)'
  PROVE  queue'[j] > 0 \/ (wjob'[w] = j /\ wpc'[w] # "ack")
<1>. USE DEF AccountedInv, TypeInv, TypeOK, StoreTypeOK, WorkerTypeOK, GoTo,
         Begin, Fail, Raise
<1>0. wpc[w] # "idle" => wcall[w] \in Call /\ wjob[w] \in Jobs
  OBVIOUS
<1>1. CASE WriteRecord(w) \/ WriteUnanswered(w)
  <2>1. rec'[j] = WithStatus(wrec[w], wcall[w]) /\ wjob' = wjob
        /\ wpc[w] = "write"
    BY <1>1 DEF WriteRecord, WriteUnanswered, StoreRecord
  <2>2. wcall[w].status \notin Terminal
    BY <2>1 DEF Open, WithStatus
  <2>3. wcall[w].status = "RUNNING" /\ wcall[w].error = None
    BY <2>2 DEF TaskBasics, Call, Status, Terminal
  <2>4. wcall[w].error # "worker"
    BY <2>3 DEF Stages
  <2>5. wpc'[w] \in {"validate", "read"}
    BY <1>1, <2>3, <2>4 DEF WriteRecord, WriteUnanswered
  <2>. QED
    BY <2>1, <2>5
<1>2. CASE ReadRecord(w) \/ Publish(w) \/ Redeliver(w)
           \/ \E i \in Jobs : Take(w, i)
  <2>1. CASE \E i \in Jobs : Take(w, i)
    BY <2>1 DEF Take, TaskBasics
  <2>2. CASE ReadRecord(w) \/ Publish(w) \/ Redeliver(w)
    BY <2>2 DEF ReadRecord, Publish, Redeliver
  <2>. QED
    BY <1>2, <2>1, <2>2
<1>3. CASE \/ Validate(w) \/ Build(w) \/ BuildFails(w) \/ BuildRaises(w)
           \/ StartRun(w) \/ RunnerFails(w) \/ RunSucceeds(w) \/ RunFails(w)
  BY <1>3 DEF Validate, Build, BuildFails, BuildRaises, StartRun, RunnerFails,
              RunSucceeds, RunFails
<1>4. CASE \/ Parse(w) \/ ParseFails(w) \/ ClearArtifact(w)
           \/ CopyArtifact(w) \/ CopyRaises(w)
  BY <1>4 DEF Parse, ParseFails, ClearArtifact, CopyArtifact, CopyRaises
<1>5. CASE Crash(w)
  BY <1>5 DEF Crash, Rest
<1>6. ~Ack(w) /\ ~AckLost(w) /\ ~LoseProcess(w) /\ ~RaiseOutageIn(w)
  BY DEF NothingLost, Ack, AckLost, LoseProcess, RaiseOutageIn
<1>. QED
  BY <1>1, <1>2, <1>3, <1>4, <1>5, <1>6 DEF TaskStep, FaultStep

LEMMA AccountedTask ==
  ASSUME NothingLost, AccountedInv, NEW w \in Workers, Task(w) \/ Fault(w)
  PROVE  Accounted'
<1>. SUFFICES ASSUME NEW j \in Jobs, Open(j)'
              PROVE  \/ spc'[j] \in {"created", "hit", "miss"}
                     \/ queue'[j] > 0
                     \/ \E v \in Workers : wjob'[v] = j /\ wpc'[v] # "ack"
  BY DEF Accounted
<1>1. (TaskStep(w) \/ FaultStep(w)) /\ spc' = spc /\ TypeInv
  BY DEF Task, Fault, routerVars, AccountedInv
<1>2. \A v \in Workers \ {w} : wjob'[v] = wjob[v] /\ wpc'[v] = wpc[v]
  BY <1>1, OthersStay
<1>3. CASE wjob[w] = j /\ wpc[w] # "ack"
  BY <1>1, <1>3, WorkerKeeps
<1>4. CASE ~(wjob[w] = j /\ wpc[w] # "ack") /\ Open(j)
  <2>1. CASE \E v \in Workers : wjob[v] = j /\ wpc[v] # "ack"
    BY <1>2, <1>4, <2>1
  <2>2. CASE spc[j] \in {"created", "hit", "miss"}
    BY <1>1, <2>2
  <2>3. CASE queue[j] > 0
    <3>. USE DEF TypeInv, TypeOK, StoreTypeOK, WorkerTypeOK
    <3>1. ASSUME NEW i \in Jobs, Take(w, i)
          PROVE  \/ queue'[j] > 0
                 \/ wjob'[w] = j /\ wpc'[w] # "ack"
      BY <1>1, <2>3, <3>1 DEF Take, Begin, GoTo
    <3>2. CASE WriteUnanswered(w) \/ LoseProcess(w) \/ Ack(w)
      BY <2>3, <3>2 DEF WriteUnanswered, LoseProcess, Ack, storeVars
    <3>3. CASE AckLost(w) \/ Redeliver(w) \/ Crash(w)
      <4>1. wjob[w] \in Jobs /\ queue' = [queue EXCEPT ![wjob[w]] = @ + 1]
        BY <1>1, <3>3 DEF AckLost, Redeliver, Crash, WorkerReady
      <4>2. queue[j] \in Nat /\ queue'[j] \in {queue[j], queue[j] + 1}
        BY <1>1, <4>1
      <4>. QED
        BY <2>3, <4>2
    <3>4. CASE TaskStep(w) /\ ~Ack(w) /\ \A i \in Jobs : ~Take(w, i)
      BY <2>3, <3>4, DeliveryInside
    <3>. QED
      BY <1>1, <3>1, <3>2, <3>3, <3>4 DEF FaultStep
  <2>. QED
    BY <1>4, <2>1, <2>2, <2>3 DEF AccountedInv, Accounted
<1>5. CASE ~(wjob[w] = j /\ wpc[w] # "ack") /\ ~Open(j)
  <2>1. rec'[j] # rec[j]
    BY <1>5 DEF Open
  <2>2. (Task(w) /\ WriteRecord(w)) \/ (Fault(w) /\ WriteUnanswered(w))
        \/ rec' = rec
    BY <1>1
       DEF Task, TaskStep, Take, ReadRecord, RaiseOutageIn, Validate, Build,
           BuildFails, BuildRaises, StartRun, RunnerFails, RunSucceeds,
           RunFails, Parse, ParseFails, ClearArtifact, CopyArtifact,
           CopyRaises, Publish, Ack, Fault, FaultStep, AckLost, Redeliver,
           Crash, LoseProcess, storeVars
  <2>3. rec' = [rec EXCEPT ![wjob[w]] = WithStatus(wrec[w], wcall[w])]
        /\ wpc[w] = "write"
    BY <2>1, <2>2 DEF WriteRecord, WriteUnanswered, StoreRecord
  <2>. QED
    BY <1>1, <1>5, <2>1, <2>3 DEF TypeInv, TypeOK, StoreTypeOK
<1>. QED
  BY <1>3, <1>4, <1>5

LEMMA AccountedTurn ==
  ASSUME AccountedInv, TurnWritesFinal, NEW d \in Devices, Turn(d)
  PROVE  Accounted'
<1>. USE DEF AccountedInv, TypeInv, TypeOK, StoreTypeOK, HistoryTypeOK,
         HistoryReady
<1>1. UNCHANGED <<spc, queue, wjob, wpc>>
  BY DEF Turn, HistoryStep, SeeCompleted, ReadForUpdate, WriteOwner, WriteNote,
         TurnRaises, storeVars, routerVars, workerVars
<1>2. ASSUME NEW j \in Jobs, Open(j)' PROVE rec'[j] = rec[j]
  <2>1. CASE WriteOwner(d) \/ WriteNote(d)
    <3>1. hrec[d] \in Record /\ hrec[d].status \in Terminal
      BY <2>1 DEF WriteOwner, WriteNote, TurnWritesFinal
    <3>2. PICK s : s.status \in Terminal /\ rec' = [rec EXCEPT ![hjob[d]] = s]
      BY <2>1, <3>1 DEF WriteOwner, WriteNote, WithOwner, WithNote, Record
    <3>. QED
      BY <1>2, <3>2 DEF Open
  <2>2. CASE ~WriteOwner(d) /\ ~WriteNote(d)
    BY <2>2 DEF Turn, HistoryStep, SeeCompleted, ReadForUpdate, TurnRaises,
                storeVars
  <2>. QED
    BY <2>1, <2>2
<1>. QED
  BY <1>1, <1>2 DEF Accounted, Open

\* Every process hands the jobs it has on, or ends them.
LEMMA AccountedNext ==
  ASSUME NothingLost, AccountedInv, TurnWritesFinal, [Next]_vars
  PROVE  AccountedInv'
<1>1. TypeInv' /\ TaskBasics'
  BY NextType, TaskBasicsNext DEF AccountedInv
<1>2. redis' = "up"
  <2>1. ~Outage /\ ~Recovery
    BY DEF NothingLost, AccountedInv, TypeInv, TypeOK, StoreTypeOK, Outage,
           Recovery, GoDown, ComeBack
  <2>2. ASSUME NEW j \in Jobs, Submission(j) PROVE redis' = redis
    BY <2>2 DEF Submission, RouterStep, Create, LookUp, Serve, Dispatch, Answer,
                RaiseOutage, RaiseUnhashable, storeVars
  <2>3. ASSUME NEW w \in Workers, Task(w) PROVE redis' = redis
    BY <2>3
       DEF Task, TaskStep, Take, ReadRecord, WriteRecord, RaiseOutageIn,
           Validate, Build, BuildFails, BuildRaises, StartRun, RunnerFails,
           RunSucceeds, RunFails, Parse, ParseFails, ClearArtifact,
           CopyArtifact, CopyRaises, Publish, Ack, storeVars
  <2>4. ASSUME NEW w \in Workers, Fault(w) PROVE redis' = redis
    BY <2>4 DEF Fault, FaultStep, WriteUnanswered, AckLost, Redeliver, Crash,
                LoseProcess, storeVars
  <2>5. ASSUME NEW d \in Devices, Turn(d) PROVE redis' = redis
    BY <2>5 DEF Turn, HistoryStep, SeeCompleted, ReadForUpdate, WriteOwner,
                WriteNote, TurnRaises, storeVars
  <2>6. ASSUME NEW c \in Cases, Orphan(c) PROVE redis' = redis
    BY <2>6 DEF Orphan, OrphanEnds, storeVars
  <2>. QED
    BY <2>1, <2>2, <2>3, <2>4, <2>5, <2>6
       DEF Next, AccountedInv, vars, storeVars
<1>3. Accounted'
  <2>1. ASSUME NEW j \in Jobs, Submission(j) PROVE Accounted'
    BY <2>1, AccountedSubmission
  <2>2. ASSUME NEW w \in Workers, Task(w) \/ Fault(w) PROVE Accounted'
    BY <2>2, AccountedTask
  <2>3. ASSUME NEW d \in Devices, Turn(d) PROVE Accounted'
    BY <2>3, AccountedTurn
  <2>4. CASE UNCHANGED <<rec, spc, queue, wjob, wpc>>
    BY <2>4 DEF AccountedInv, Accounted, Open
  <2>5. ASSUME NEW c \in Cases, Orphan(c)
        PROVE  UNCHANGED <<rec, spc, queue, wjob, wpc>>
    BY <2>5 DEF Orphan, OrphanEnds, storeVars, routerVars
  <2>6. CASE Outage \/ Recovery \/ UNCHANGED vars
    BY <2>4, <2>6 DEF Outage, Recovery, GoDown, ComeBack, vars, storeVars,
                      routerVars, workerVars
  <2>. QED
    BY <2>1, <2>2, <2>3, <2>4, <2>5, <2>6 DEF Next
<1>. QED
  BY <1>1, <1>2, <1>3 DEF AccountedInv

\* Nobody who never asked has a chat turn.
LEMMA NoTurns ==
  ASSUME NobodyAsks, \A d \in Devices : hpc[d] = "chat", TypeInv, [Next]_vars
  PROVE  \A d \in Devices : hpc'[d] = "chat"
<1>1. \A d \in Devices : ~Turn(d)
  BY DEF NobodyAsks, Turn, HistoryStep, SeeCompleted, ReadForUpdate,
         WriteOwner, WriteNote, TurnRaises
<1>. QED
  BY <1>1 DEF Next, vars, Submission, Task, Fault, Orphan, Outage, Recovery,
              historyVars

\* While Redis stays up and no task process is killed, a job that has no
\* outcome yet is always in somebody's hands: its submission's, the queue's
\* or a worker's that has not finished with it.  This takes in workers that
\* die (their delivery returns) and deliveries that are repeated, as long as
\* no chat turn can write an old record back over the outcome of the second
\* run; chat turns are in when no task is run twice.
THEOREM NothingForgotten ==
  ASSUME NothingLost, NobodyAsks \/ RunOnce
  PROVE  Spec => []Accounted
<1>. DEFINE Inv == /\ AccountedInv
                   /\ NobodyAsks => \A d \in Devices : hpc[d] = "chat"
                   /\ RunOnce => DeliveryInv /\ FinalOver
<1>1. Init => Inv
  <2>1. Init => redis = "up" /\ TaskBasics /\ Accounted
    BY DEF Init, StoreInit, WorkerInit, TaskBasics, Accounted, Open, RunningCall
  <2>2. Init => \A d \in Devices : hpc[d] = "chat"
    BY DEF Init, HistoryInit
  <2>. QED
    BY <2>1, <2>2, InitType, DeliveryInit, FinalOverInit DEF AccountedInv
<1>2. Inv /\ [Next]_vars => Inv'
  <2>. SUFFICES ASSUME Inv, [Next]_vars PROVE Inv'
    OBVIOUS
  <2>1. TurnWritesFinal
    BY DEF TurnWritesFinal, FinalOver
  <2>2. AccountedInv'
    BY <2>1, AccountedNext
  <2>3. ASSUME NobodyAsks PROVE \A d \in Devices : hpc'[d] = "chat"
    BY <2>3, NoTurns DEF AccountedInv
  <2>4. ASSUME RunOnce PROVE DeliveryInv' /\ FinalOver'
    BY <2>4, DeliveryNext, FinalOverNext DEF NoRepeats, RunOnce
  <2>. QED
    BY <2>2, <2>3, <2>4 DEF NobodyAsks, RunOnce
<1>3. Inv => Accounted
  BY DEF AccountedInv
<1>. QED
  BY <1>1, <1>2, <1>3, PTL DEF Spec

=============================================================================
