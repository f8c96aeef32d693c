---------------------------- MODULE CaseResults ----------------------------
(***************************************************************************)
(* That a result is read from what its own run has written, and that a run *)
(* that ended well has one, for any number of jobs, requests and case      *)
(* directories.                                                            *)
(***************************************************************************)
EXTENDS CaseWorkspaceProofs, FunctionTheorems

-----------------------------------------------------------------------------
(***************************************************************************)
(* The invariant: what the solver at work, and those before it, have left. *)
(***************************************************************************)

\* The payloads whose OpenFOAM case has been built in c.
CasesBuilt(c) ==
  {q \in built[c] \cap CFDPayloads : OpenFOAMInput(q) # Invalid}

\* A time directory beyond 0, whole or torn, was due to be written in a case
\* that was built there.
TimesSound ==
  \A c \in Cases : \A t \in DOMAIN dir[c].time :
    IF t = 0 THEN dir[c].time[t] = Start
    ELSE \E q \in CasesBuilt(c) : t \in WrittenTimes(CaseFiles(q))

BuiltSound ==
  task.step \in {"write", "run", "parse"} => task.valid \in built[Here]

\* All that the solver at work writes, of which task.due is still to come.
AllDue == IF IsOpenFOAM(task.job) THEN WrittenTimes(task.input)
                                  ELSE ThermoSteps(task.input)

Done == AllDue \ task.due

DueSound ==
  task.step \in {"run", "parse"} =>
    /\ task.due \subseteq AllDue
    /\ task.step = "parse" => task.due = {}
    /\ \A s \in Done, u \in task.due : s < u

\* The times that are written are there, and whole.
WrittenSound ==
  task.step \in {"run", "parse"} /\ IsOpenFOAM(task.job) =>
    \A t \in Done : /\ t \in DOMAIN dir[Here].time
                    /\ dir[Here].time[t] = task.input

\* A log with a header and a row for each step in S, in their order, among
\* which there may be warnings, but none before the first row.
Table(log, S) ==
  /\ Len(log) >= 2 /\ log[1].kind = "echo" /\ log[2].kind = "header"
  /\ Len(log) >= 3 => log[3].kind = "row"
  /\ \A i \in 3..Len(log) :
       log[i].kind = "row" =>
         /\ log[i].step \in S
         /\ \A k \in 3..Len(log) :
              k > i /\ log[k].kind = "row" => log[i].step < log[k].step
  /\ \A s \in S : \E i \in 3..Len(log) : log[i].kind = "row" /\ log[i].step = s

LogSound ==
  task.step \in {"run", "parse"} /\ ~IsOpenFOAM(task.job) =>
    Table(dir[Here].log, Done)

RunSound == DueSound /\ WrittenSound /\ LogSound

Progress == TimesSound /\ BuiltSound /\ RunSound

-----------------------------------------------------------------------------
\* What a case is to write is finite, and none of it is the directory 0.
LEMMA WrittenBounds ==
  ASSUME NEW q \in CFDPayloads, OpenFOAMInput(q) # Invalid
  PROVE  \E b \in Nat : WrittenTimes(CaseFiles(q)) \subseteq 1..b
<1>1. /\ CaseFiles(q)["controlDict"].iterations = q.iterations
      /\ CaseFiles(q)["U"].inlet_velocity = q.inlet_velocity
  <2>1. /\ CaseFiles(q)["controlDict"] = ControlDict(q)
        /\ CaseFiles(q)["U"] = FieldU(q)
    BY DEF CaseFiles, Over, DissipationField
  <2>. QED
    BY <2>1 DEF ControlDict, FieldU
<1>2. q.iterations \in Nat /\ ConvergesAt[q.inlet_velocity] \in Nat
  BY RequestsAssumption, WorkspaceAssumption
<1>3. LastIteration(CaseFiles(q)) \in Nat
  BY <1>1, <1>2 DEF LastIteration
<1>. QED
  BY <1>3 DEF WrittenTimes

\* A case reaches a last time.
LEMMA ReachMax ==
  ASSUME NEW q \in CFDPayloads, OpenFOAMInput(q) # Invalid
  PROVE  LET R == {0} \cup WrittenTimes(CaseFiles(q))
         IN R \subseteq Nat /\ Max(R) \in R /\ \A t \in R : t <= Max(R)
<1>. DEFINE R == {0} \cup WrittenTimes(CaseFiles(q))
<1>1. PICK b \in Nat : WrittenTimes(CaseFiles(q)) \subseteq 1..b
  BY WrittenBounds
<1>2. R \in SUBSET Nat /\ R # {} /\ \A t \in R : t <= b
  BY <1>1
<1>. HIDE DEF R
<1>3. LatestTimeDir(R) \in R /\ \A t \in R : t <= LatestTimeDir(R)
  BY <1>2, LatestIsThere
<1>4. \E x \in R : \A y \in R : x >= y
  BY <1>2, <1>3
<1>5. Max(R) \in R /\ \A y \in R : Max(R) >= y
  BY <1>4 DEF Max
<1>. QED
  BY <1>2, <1>5 DEF R

\* The first row is due in every run; the steps are numbers.
LEMMA FirstRow ==
  ASSUME NEW p \in MDPayloads
  PROVE  0 \in ThermoSteps(Script(p)) /\ ThermoSteps(Script(p)) \subseteq Nat
<1>1. /\ Script(p).n_steps = p.n_steps
      /\ Script(p).output_frequency = p.output_frequency
  BY DEF Script, LAMMPSFields, Over, LatticeSpec, PotentialSpec, EnsembleSpec
<1>2. p.n_steps \in Nat /\ p.output_frequency \in Nat \ {0}
  BY RequestsAssumption
<1>3. 0 \in 0..p.n_steps /\ 0 % p.output_frequency = 0
  BY <1>2
<1>. QED
  BY <1>1, <1>2, <1>3 DEF ThermoSteps

-----------------------------------------------------------------------------
(***************************************************************************)
(* What the parser finds in a table.                                       *)
(***************************************************************************)

\* The header is the second line; the echo before it is none.
LEMMA HeaderFound ==
  ASSUME NEW log \in Seq(Lines), NEW S, Table(log, S)
  PROVE  SelectInSeq(log, IsHeader) = 2
<1>. DEFINE I == {i \in 1..Len(log) : IsHeader(log[i])}
<1>1. Len(log) \in Nat /\ Len(log) >= 2
  BY DEF Table
<1>2. 2 \in I /\ 1 \notin I
  BY <1>1 DEF Table, IsHeader
<1>3. I \in SUBSET Nat /\ \A i \in I : i >= 1
  OBVIOUS
<1>4. SelectInSeq(log, IsHeader) = IF I # {} THEN Min(I) ELSE 0
  BY DEF SelectInSeq
<1>. HIDE DEF I
<1>5. Min(I) \in I /\ Min(I) <= 2
  BY <1>2, <1>3, LeastIsThere
<1>6. Min(I) \in Nat /\ Min(I) >= 1 /\ Min(I) # 1
  BY <1>2, <1>3, <1>5
<1>. QED
  BY <1>2, <1>4, <1>5, <1>6

\* As many rows as there are steps up to the last one of them.
LEMMA RowsCounted ==
  ASSUME NEW S \in SUBSET Nat, NEW n \in Nat \ {0}, NEW f,
         \A i \in 1..n : f[i] \in S,
         \A i, k \in 1..n : i < k => f[i] < f[k],
         \A s \in S : s <= f[n] => \E i \in 1..n : f[i] = s
  PROVE  Cardinality({s \in S : s <= f[n]}) = n
<1>. DEFINE U == {s \in S : s <= f[n]}
            g == [i \in 1..n |-> f[i]]
<1>1. n \in 1..n
  OBVIOUS
<1>2. \A i \in 1..n : f[i] \in U
  <2>. SUFFICES ASSUME NEW i \in 1..n PROVE f[i] <= f[n]
    OBVIOUS
  <2>1. i = n \/ i < n
    OBVIOUS
  <2>2. f[i] \in Nat /\ f[n] \in Nat
    BY <1>1
  <2>. QED
    BY <1>1, <2>1, <2>2
<1>3. g \in [1..n -> U]
  BY <1>2
<1>4. \A i, k \in 1..n : g[i] = g[k] => i = k
  <2>. SUFFICES ASSUME NEW i \in 1..n, NEW k \in 1..n, f[i] = f[k]
                PROVE  i = k
    OBVIOUS
  <2>1. f[i] \in Nat /\ f[k] \in Nat
    OBVIOUS
  <2>2. ~(i < k) /\ ~(k < i)
    BY <2>1
  <2>. QED
    BY <2>2
<1>5. \A s \in U : \E i \in 1..n : g[i] = s
  OBVIOUS
<1>. HIDE DEF U, g
<1>6. g \in Bijection(1..n, U)
  BY <1>3, <1>4, <1>5, Fun_IsBij
<1>7. IsFiniteSet(1..n) /\ Cardinality(1..n) = n
  <2>1. Cardinality(1..n) = IF 1 > n THEN 0 ELSE n - 1 + 1
    BY FS_Interval
  <2>. QED
    BY <2>1, FS_Interval
<1>8. Cardinality(U) = n
  BY <1>6, <1>7, FS_Bijection, Fun_ExistsBij
<1>. QED
  BY <1>8 DEF U

\* The parser takes the rows up to the first warning: at least the first one,
\* and as many as there are steps up to the last one it takes.
LEMMA TableParsed ==
  ASSUME NEW log \in Seq(Lines), NEW S \in SUBSET Nat, 0 \in S, Table(log, S)
  PROVE  LET rows == ParseThermo(log)
         IN /\ ThermoColumns(log) /\ rows # <<>>
            /\ Last(rows).step \in S
            /\ Len(rows) = Cardinality({s \in S : s <= Last(rows).step})
<1>. DEFINE rows == ParseThermo(log)
<1>1. SelectInSeq(log, IsHeader) = 2
  BY HeaderFound
<1>. DEFINE h == SelectInSeq(log, IsHeader)
<1>0. PICK n \in Nat :
        /\ rows = [i \in 1..n |-> log[h + i]]
        /\ h + n <= Len(log)
        /\ \A i \in 1..n : log[h + i].kind = "row"
        /\ h # 0 /\ h + n < Len(log) => log[h + n + 1].kind # "row"
  BY RowsFollow
<1>. HIDE DEF h
<1>2. /\ rows = [i \in 1..n |-> log[2 + i]]
      /\ 2 + n <= Len(log)
      /\ \A i \in 1..n : log[2 + i].kind = "row"
      /\ 2 + n < Len(log) => log[2 + n + 1].kind # "row"
  BY <1>0, <1>1 DEF h
<1>3. Len(log) \in Nat
  OBVIOUS
<1>4. /\ \A i \in 3..Len(log) : log[i].kind = "row" => log[i].step \in S
      /\ \A i, k \in 3..Len(log) :
           log[i].kind = "row" /\ log[k].kind = "row" /\ k > i => log[i].step < log[k].step
      /\ \A s \in S : \E i \in 3..Len(log) : log[i].kind = "row" /\ log[i].step = s
      /\ Len(log) >= 3 => log[3].kind = "row"
      /\ log[2].kind = "header"
  BY DEF Table
<1>. HIDE DEF rows
<1>5. n # 0
  <2>1. \E i \in 3..Len(log) : log[i].kind = "row"
    BY <1>4
  <2>2. Len(log) >= 3 /\ log[3].kind = "row"
    BY <1>3, <1>4, <2>1
  <2>. SUFFICES ASSUME n = 0 PROVE FALSE
    OBVIOUS
  <2>3. 2 + n < Len(log) /\ 2 + n + 1 = 3
    BY <1>3, <2>2
  <2>4. log[2 + n + 1].kind # "row"
    BY <1>2, <2>3
  <2>. QED
    BY <2>2, <2>3, <2>4
<1>6. Len(rows) = n /\ rows # <<>> /\ Last(rows) = log[2 + n]
  <2>1. Len(rows) = n /\ DOMAIN rows = 1..n
    BY <1>2
  <2>2. rows # <<>> /\ Last(rows) = rows[n]
    BY <1>5, <2>1 DEF Last
  <2>3. rows[n] = log[2 + n]
    BY <1>2, <1>5
  <2>. QED
    BY <2>1, <2>2, <2>3
<1>. DEFINE f == [i \in 1..n |-> log[2 + i].step]
<1>7. \A i \in 1..n : 2 + i \in 3..Len(log) /\ log[2 + i].kind = "row"
  BY <1>2, <1>3
<1>8. \A i \in 1..n : f[i] \in S
  BY <1>4, <1>7
<1>9. \A i, k \in 1..n : i < k => f[i] < f[k]
  BY <1>4, <1>7
<1>10. \A s \in S : s <= f[n] => \E i \in 1..n : f[i] = s
  <2>. SUFFICES ASSUME NEW s \in S, s <= f[n]
                PROVE  \E i \in 1..n : f[i] = s
    OBVIOUS
  <2>1. PICK i \in 3..Len(log) : log[i].kind = "row" /\ log[i].step = s
    BY <1>4
  <2>2. n \in 1..n /\ f[n] = log[2 + n].step /\ f[n] \in Nat /\ s \in Nat
    <3>1. n \in 1..n
      BY <1>5
    <3>2. f[n] = log[2 + n].step
      BY <3>1
    <3>3. f[n] \in S
      BY <1>8, <3>1
    <3>. QED
      BY <3>1, <3>2, <3>3
  <2>3. ~(i > 2 + n)
    <3>1. 2 + n \in 3..Len(log) /\ log[2 + n].kind = "row"
      BY <1>7, <2>2
    <3>2. i > 2 + n => log[2 + n].step < log[i].step
      BY <1>4, <2>1, <3>1
    <3>. QED
      BY <2>1, <2>2, <3>2
  <2>4. i - 2 \in 1..n /\ 2 + (i - 2) = i
    BY <2>1, <2>3
  <2>5. f[i - 2] = s
    BY <2>1, <2>4
  <2>. QED
    BY <2>4, <2>5
<1>11. n \in 1..n /\ f[n] = Last(rows).step
  BY <1>5, <1>6
<1>. HIDE DEF f
<1>12. Cardinality({s \in S : s <= f[n]}) = n
  <2>. n \in Nat \ {0}
    BY <1>5
  <2>. QED
    BY <1>8, <1>9, <1>10, RowsCounted
<1>13. ThermoColumns(log)
  BY <1>1, <1>4 DEF ThermoColumns
<1>. QED
  BY <1>6, <1>8, <1>11, <1>12, <1>13 DEF rows

-----------------------------------------------------------------------------
(***************************************************************************)
(* Every step keeps the invariant.                                         *)
(***************************************************************************)

LEMMA ProgressInit == Init => Progress
<1>. SUFFICES ASSUME Init PROVE Progress
  OBVIOUS
<1>1. task.step = "idle" /\ \A c \in Cases : DOMAIN dir[c].time = {}
  BY DEF Init, Idle, Empty
<1>. QED
  BY <1>1 DEF Progress, TimesSound, BuiltSound, RunSound, DueSound,
              WrittenSound, LogSound

\* Time directories stay, and more may have been built.
LEMMA TimesKept ==
  ASSUME TimesSound,
         \A c \in Cases : /\ built[c] \subseteq built'[c]
                          /\ dir'[c].time = dir[c].time
  PROVE  TimesSound'
BY DEF TimesSound, CasesBuilt

\* One time directory is written.
LEMMA TimesGrow ==
  ASSUME TimesSound, NEW h \in Cases, NEW t,
         \A c \in Cases : built[c] \subseteq built'[c],
         \A c \in Cases \ {h} : dir'[c].time = dir[c].time,
         DOMAIN dir'[h].time = DOMAIN dir[h].time \cup {t},
         \A u \in DOMAIN dir[h].time \ {t} :
           dir'[h].time[u] = dir[h].time[u],
         IF t = 0 THEN dir'[h].time[t] = Start
         ELSE \E q \in CasesBuilt(h) : t \in WrittenTimes(CaseFiles(q))
  PROVE  TimesSound'
<1>1. \A c \in Cases : CasesBuilt(c) \subseteq CasesBuilt(c)'
  BY DEF CasesBuilt
<1>2. ASSUME NEW c \in Cases, NEW u \in DOMAIN dir'[c].time
      PROVE  IF u = 0 THEN dir'[c].time[u] = Start
             ELSE \E q \in CasesBuilt(c)' : u \in WrittenTimes(CaseFiles(q))
  <2>1. CASE c = h /\ u = t
    BY <1>1, <2>1
  <2>2. CASE ~(c = h /\ u = t)
    <3>1. u \in DOMAIN dir[c].time /\ dir'[c].time[u] = dir[c].time[u]
      BY <1>2, <2>2
    <3>. QED
      BY <1>1, <3>1 DEF TimesSound
  <2>. QED
    BY <2>1, <2>2
<1>. QED
  BY <1>2 DEF TimesSound

\* One directory changes.
LEMMA DirAt ==
  ASSUME DirsSound, NEW h \in Cases, NEW d, dir' = [dir EXCEPT ![h] = d]
  PROVE  dir'[h] = d /\ \A c \in Cases \ {h} : dir'[c] = dir[c]
<1>1. dir = [c \in Cases |-> dir[c]]
  BY DEF DirsSound
<1>. QED
  BY <1>1

LEMMA BuiltAt ==
  ASSUME DirsSound, NEW h \in Cases, NEW p,
         built' = [built EXCEPT ![h] = @ \cup {p}]
  PROVE  p \in built'[h] /\ \A c \in Cases : built[c] \subseteq built'[c]
BY DEF DirsSound

\* The worker is not at its case's files or after them.
LEMMA AwaySound ==
  ASSUME task'.step \notin {"write", "run", "parse"}
  PROVE  BuiltSound' /\ RunSound'
BY DEF BuiltSound, RunSound, DueSound, WrittenSound, LogSound

LEMMA AwayKept ==
  ASSUME Progress, task'.step \notin {"write", "run", "parse"},
         UNCHANGED dirVars
  PROVE  Progress'
<1>1. TimesSound'
  BY TimesKept DEF Progress, dirVars
<1>. QED
  BY <1>1, AwaySound DEF Progress

LEMMA IdleKept ==
  ASSUME IInv, Progress,
         \/ \E j \in Jobs : Take(j)
         \/ Validate \/ ParseCase \/ ParseLog \/ Crash
  PROVE  Progress'
<1>. USE DEF Fail, Complete
<1>0. task \in Tasks /\ Idle.step = "idle"
  BY IdleType DEF IInv, TaskSound
<1>1. CASE \E j \in Jobs : Take(j)
  <2>1. task'.step = "validate" /\ UNCHANGED dirVars
    BY <1>1 DEF Take, Idle
  <2>. QED
    BY <2>1, AwayKept
<1>2. CASE Validate
  <2>0. /\ \/ task' = Idle
           \/ \E v : task' = [task EXCEPT !.valid = v, !.step = "build"]
        /\ UNCHANGED dirVars
    BY <1>2 DEF Validate
  <2>1. task'.step \in {"idle", "build"}
    BY <1>0, <2>0 DEF Tasks
  <2>. QED
    BY <2>0, <2>1, AwayKept
<1>3. CASE ParseCase \/ ParseLog \/ Crash
  <2>1. task'.step = "idle" /\ UNCHANGED dirVars
    BY <1>0, <1>3 DEF ParseCase, ParseLog, Crash
  <2>. QED
    BY <2>1, AwayKept
<1>. QED
  BY <1>1, <1>2, <1>3

\* What the worker is doing is none of the others' business.
LEMMA TaskKept ==
  ASSUME IInv, Progress, UNCHANGED <<task, dirVars>>,
         task.step # "idle" => raw'[task.job] = raw[task.job]
  PROVE  Progress'
<1>1. TimesSound'
  BY TimesKept DEF Progress, dirVars
<1>2. BuiltSound' /\ RunSound'
  BY DEF Progress, BuiltSound, RunSound, DueSound, WrittenSound, LogSound,
         IsOpenFOAM, Here, AllDue, Done, dirVars
<1>. QED
  BY <1>1, <1>2 DEF Progress

LEMMA BoundaryKept ==
  ASSUME IInv, Progress, NEW j \in Jobs, NEW r \in Requests,
         Submit(j, r) \/ Refuse(j, r)
  PROVE  Progress'
<1>1. /\ stage[j] = "new" /\ UNCHANGED <<task, dirVars>>
      /\ raw' = [raw EXCEPT ![j] = r]
  BY DEF Submit, Refuse
<1>2. task.step # "idle" => raw'[task.job] = raw[task.job]
  BY <1>1, AtWork DEF IInv, JobsSound
<1>. QED
  BY <1>1, <1>2, TaskKept

LEMMA PlaceMeshKept ==
  ASSUME IInv, Progress, PlaceMesh
  PROVE  Progress'
<1>. DEFINE h == Here
            time == Over(dir[h].time, [t \in {0} |-> Start])
            made == [dir[h] EXCEPT !.time = time]
<1>1. /\ task.step = "build" /\ IsOpenFOAM(task.job)
      /\ built' = [built EXCEPT ![h] = @ \cup {task.valid}]
  BY DEF PlaceMesh, At
<1>2. /\ h \in Cases /\ task \in Tasks /\ task.step \in Busy
      /\ DirsSound /\ DirSound(dir[h], built[h])
  BY <1>1, AtHere DEF Busy, IInv, TaskSound
<1>3. PICK d : dir' = [dir EXCEPT ![h] = d] /\ d.time = time
  <2>. DEFINE ref == task.valid.polymesh_ref
              mesh == {m \in made.mesh : m.name \notin MeshFiles[ref]}
                        \cup [name : MeshFiles[ref], of : {ref}]
  <2>1. \/ dir' = [dir EXCEPT ![h] = made]
        \/ dir' = [dir EXCEPT ![h] = [made EXCEPT !.mesh = mesh]]
    BY DEF PlaceMesh
  <2>. HIDE DEF h, time, mesh
  <2>2. made = [file |-> dir[h].file, mesh |-> dir[h].mesh, time |-> time,
                log |-> dir[h].log]
    BY <1>2, DirFields
  <2>. HIDE DEF made
  <2>3. made.time = time /\ [made EXCEPT !.mesh = mesh].time = time
    BY <2>2
  <2>. QED
    BY <2>1, <2>3
<1>4. /\ task'.step \in {"idle", "write"}
      /\ task'.step = "write" => task'.valid = task.valid
  <2>1. \/ task' = Idle
        \/ \E left : task' = [task EXCEPT !.step = "write", !.left = left]
    BY DEF PlaceMesh, Fail
  <2>. QED
    BY <1>2, <2>1, IdleType DEF Tasks
<1>5. /\ DOMAIN time = DOMAIN dir[h].time \cup {0}
      /\ \A u \in DOMAIN dir[h].time : time[u] = dir[h].time[u]
      /\ 0 \notin DOMAIN dir[h].time => time[0] = Start
  BY DEF Over
<1>6. time[0] = Start
  BY <1>2, <1>5 DEF Progress, TimesSound
<1>7. (Here)' = h \/ task'.step = "idle"
  BY <1>4 DEF Here
<1>. HIDE DEF h, time
<1>8. dir'[h].time = time /\ \A c \in Cases \ {h} : dir'[c] = dir[c]
  BY <1>2, <1>3, DirAt
<1>9. task.valid \in built'[h] /\ \A c \in Cases : built[c] \subseteq built'[c]
  BY <1>1, <1>2, BuiltAt
<1>10. TimesSound'
  <2>1. \A u \in DOMAIN dir[h].time \ {0} : dir'[h].time[u] = dir[h].time[u]
    BY <1>5, <1>8
  <2>. QED
    BY <1>2, <1>5, <1>6, <1>8, <1>9, <2>1, TimesGrow DEF Progress
<1>11. BuiltSound' /\ RunSound'
  BY <1>4, <1>7, <1>9
     DEF BuiltSound, RunSound, DueSound, WrittenSound, LogSound
<1>. QED
  BY <1>10, <1>11 DEF Progress

LEMMA WriteKept ==
  ASSUME IInv, Progress, WriteCaseFile \/ WriteScript
  PROVE  Progress'
<1>. DEFINE h == Here
<1>1. /\ task.step \in Busy /\ task'.step = "write"
      /\ task'.valid = task.valid
  <2>1. task.step \in Busy /\ task \in Tasks
    BY DEF WriteCaseFile, WriteScript, At, Busy, IInv, TaskSound
  <2>2. \/ task.step = "write" /\ \E left : task' = [task EXCEPT !.left = left]
        \/ task' = [task EXCEPT !.step = "write"]
    BY DEF WriteCaseFile, WriteScript, At
  <2>. QED
    BY <2>1, <2>2 DEF Tasks
<1>2. /\ h \in Cases /\ DirsSound /\ DirSound(dir[h], built[h])
  BY <1>1, AtHere DEF IInv
<1>3. PICK d : dir' = [dir EXCEPT ![h] = d] /\ d.time = dir[h].time
  <2>1. \E x : dir' = [dir EXCEPT ![h] = [dir[h] EXCEPT !.file = x]]
    BY DEF WriteCaseFile, WriteScript
  <2>2. PICK x : dir' = [dir EXCEPT ![h] = [dir[h] EXCEPT !.file = x]]
    BY <2>1
  <2>. HIDE DEF h
  <2>3. [dir[h] EXCEPT !.file = x]
          = [file |-> x, mesh |-> dir[h].mesh, time |-> dir[h].time,
             log |-> dir[h].log]
    BY <1>2, DirFields
  <2>4. [dir[h] EXCEPT !.file = x].time = dir[h].time
    BY <2>3
  <2>. QED
    BY <2>2, <2>4
<1>4. task.valid \in built'[h] /\ \A c \in Cases : built[c] \subseteq built'[c]
  <2>1. CASE WriteCaseFile
    BY <2>1 DEF WriteCaseFile, Progress, BuiltSound, At
  <2>2. CASE WriteScript
    BY <1>2, <2>2, BuiltAt DEF WriteScript
  <2>. QED
    BY <2>1, <2>2
<1>5. (Here)' = h
  BY <1>1 DEF Here
<1>. HIDE DEF h
<1>6. dir'[h].time = dir[h].time /\ \A c \in Cases \ {h} : dir'[c] = dir[c]
  BY <1>2, <1>3, DirAt
<1>7. TimesSound'
  BY <1>4, <1>6, TimesKept DEF Progress
<1>8. BuiltSound' /\ RunSound'
  BY <1>1, <1>4, <1>5
     DEF BuiltSound, RunSound, DueSound, WrittenSound, LogSound
<1>. QED
  BY <1>7, <1>8 DEF Progress

\* The log that LAMMPS begins has a header and no row.
LEMMA TableBegun ==
  LET log == <<Line("echo", None), Line("header", None)>>
  IN log \in Seq(Lines) /\ Table(log, {})
<1>. DEFINE e == Line("echo", None)
            b == Line("header", None)
<1>1. e \in Lines /\ b \in Lines /\ e.kind = "echo" /\ b.kind = "header"
  BY DEF Line, Lines
<1>. HIDE DEF e, b
<1>2. <<e, b>> \in Seq(Lines) /\ Len(<<e, b>>) = 2
  BY <1>1
<1>3. <<e, b>>[1] = e /\ <<e, b>>[2] = b
  OBVIOUS
<1>. DEFINE log == <<e, b>>
<1>. HIDE DEF log
<1>4. Table(log, {})
  BY <1>1, <1>2, <1>3 DEF Table, log
<1>. QED
  BY <1>2, <1>4 DEF log, e, b

LEMMA StartKept ==
  ASSUME IInv, Progress, StartSolver
  PROVE  Progress'
<1>. DEFINE h == Here
            foam == IsOpenFOAM(task.job)
            input == IF foam THEN CaseReads(dir[h].file)
                     ELSE dir[h].file["in.lammps"]
            due == IF foam THEN WrittenTimes(input) ELSE ThermoSteps(input)
            log == <<Line("echo", None), Line("header", None)>>
            d == [dir[h] EXCEPT !.log = log]
<1>1. /\ task.step = "write" /\ UNCHANGED <<jobVars, built>>
      /\ task' = [task EXCEPT !.step = "run", !.input = input, !.due = due]
      /\ dir' = IF foam THEN dir ELSE [dir EXCEPT ![h] = d]
  BY DEF StartSolver, At
<1>2. /\ h \in Cases /\ DirsSound /\ DirSound(dir[h], built[h])
      /\ task \in Tasks
  BY <1>1, AtHere DEF Busy, IInv, TaskSound
<1>. HIDE DEF input
<1>3. /\ task'.step = "run" /\ task'.job = task.job
      /\ task'.valid = task.valid /\ task'.input = input /\ task'.due = due
  BY <1>1, <1>2 DEF Tasks
<1>4. IsOpenFOAM(task.job)' = foam /\ (Here)' = h
  BY <1>1, <1>3 DEF IsOpenFOAM, Here, jobVars
<1>5. AllDue' = due /\ Done' = {}
  <2>1. AllDue' = due
    BY <1>3, <1>4 DEF AllDue, WrittenTimes, LastIteration, ThermoSteps
  <2>. QED
    BY <1>3, <2>1 DEF Done
<1>. HIDE DEF due
<1>6. d.log = log /\ d.time = dir[h].time
  <2>. HIDE DEF h, log
  <2>1. d = [file |-> dir[h].file, mesh |-> dir[h].mesh,
             time |-> dir[h].time, log |-> log]
    BY <1>2, DirFields
  <2>. QED
    BY <2>1
<1>7. ~foam => Table(dir'[h].log, {})
  <2>. HIDE DEF h, d
  <2>1. ~foam => dir'[h] = d
    BY <1>1, <1>2, DirAt
  <2>. QED
    BY <1>6, <2>1, TableBegun
<1>8. TimesSound'
  <2>. HIDE DEF h, d, foam, log
  <2>1. \A c \in Cases : dir'[c].time = dir[c].time
    BY <1>1, <1>2, <1>6, DirAt
  <2>. QED
    BY <1>1, <2>1, TimesKept DEF Progress
<1>9. BuiltSound'
  BY <1>1, <1>3, <1>4 DEF Progress, BuiltSound
<1>. HIDE DEF h, foam, d, log
<1>10. RunSound'
  <2>1. DueSound'
    BY <1>3, <1>5 DEF DueSound
  <2>2. WrittenSound'
    BY <1>5 DEF WrittenSound
  <2>3. LogSound'
    BY <1>4, <1>5, <1>7 DEF LogSound
  <2>. QED
    BY <2>1, <2>2, <2>3 DEF RunSound
<1>. QED
  BY <1>8, <1>9, <1>10 DEF Progress

\* A row joins the table, or a warning after a row.
LEMMA TableGrows ==
  ASSUME NEW log \in Seq(Lines), NEW S \in SUBSET Nat, Table(log, S),
         NEW t \in Nat, \A s \in S : s < t
  PROVE  Table(Append(log, Line("row", t)), S \cup {t})
<1>. DEFINE l == Line("row", t)
            n == Len(log)
            new == Append(log, l)
<1>1. l.kind = "row" /\ l.step = t
  BY DEF Line
<1>2. n \in Nat /\ n >= 2
  BY DEF Table
<1>3. Len(new) = n + 1 /\ new[n + 1] = l /\ \A i \in 1..n : new[i] = log[i]
  OBVIOUS
<1>. HIDE DEF l, n, new
<1>4. \A i \in 3..Len(new) : i = n + 1 \/ i \in 3..n
  BY <1>2, <1>3
<1>5. \A i \in 3..n : new[i] = log[i] /\ i \in 3..Len(new)
  BY <1>2, <1>3
<1>6. n + 1 \in 3..Len(new)
  BY <1>2, <1>3
<1>7. Len(new) >= 2 /\ new[1].kind = "echo" /\ new[2].kind = "header"
  BY <1>2, <1>3 DEF Table, n
<1>8. new[3].kind = "row"
  <2>1. CASE n = 2
    BY <1>1, <1>3, <2>1
  <2>2. CASE n >= 3
    BY <1>2, <1>3, <2>2 DEF Table, n
  <2>. QED
    BY <1>2, <2>1, <2>2
<1>9. \A i \in 3..n : log[i].kind = "row" => log[i].step \in S
  BY DEF Table, n
<1>10. ASSUME NEW i \in 3..Len(new), new[i].kind = "row"
       PROVE  /\ new[i].step \in S \cup {t}
              /\ \A k \in 3..Len(new) :
                   k > i /\ new[k].kind = "row" => new[i].step < new[k].step
  <2>1. CASE i = n + 1
    BY <1>1, <1>2, <1>3, <2>1
  <2>2. CASE i \in 3..n
    <3>1. new[i] = log[i] /\ log[i].step \in S
      BY <1>5, <1>9, <1>10, <2>2
    <3>2. \A k \in 3..n : k > i /\ log[k].kind = "row" =>
            log[i].step < log[k].step
      BY <1>10, <2>2, <3>1 DEF Table, n
    <3>3. log[i].step < t
      BY <3>1
    <3>. QED
      BY <1>1, <1>3, <1>4, <1>5, <3>1, <3>2, <3>3
  <2>. QED
    BY <1>4, <2>1, <2>2
<1>11. ASSUME NEW s \in S \cup {t}
       PROVE  \E i \in 3..Len(new) : new[i].kind = "row" /\ new[i].step = s
  <2>1. CASE s = t
    BY <1>1, <1>3, <1>6, <2>1
  <2>2. CASE s \in S
    <3>1. PICK i \in 3..n : log[i].kind = "row" /\ log[i].step = s
      BY <2>2 DEF Table, n
    <3>. QED
      BY <1>5, <3>1
  <2>. QED
    BY <2>1, <2>2
<1>12. Table(new, S \cup {t})
  BY <1>7, <1>8, <1>10, <1>11 DEF Table
<1>. QED
  BY <1>12 DEF new, l

LEMMA TableWarned ==
  ASSUME NEW log \in Seq(Lines), NEW S \in SUBSET Nat, Table(log, S),
         Last(log).kind = "row"
  PROVE  Table(Append(log, Line("warning", None)), S)
<1>. DEFINE l == Line("warning", None)
            n == Len(log)
            new == Append(log, l)
<1>1. l.kind = "warning"
  BY DEF Line
<1>2. n \in Nat /\ n >= 3 /\ log[3].kind = "row"
  <2>1. n \in Nat /\ n >= 2 /\ log[2].kind = "header"
    BY DEF Table
  <2>2. log[n].kind = "row"
    BY DEF Last
  <2>3. n # 2
    BY <2>1, <2>2
  <2>4. n >= 3 => log[3].kind = "row"
    BY DEF Table
  <2>. HIDE DEF n
  <2>5. n >= 3
    BY <2>1, <2>3
  <2>. QED
    BY <2>1, <2>4, <2>5
<1>3. Len(new) = n + 1 /\ new[n + 1] = l /\ \A i \in 1..n : new[i] = log[i]
  OBVIOUS
<1>. HIDE DEF l, n, new
<1>4. \A i \in 3..Len(new) : new[i].kind = "row" =>
        i \in 3..n /\ new[i] = log[i]
  BY <1>1, <1>2, <1>3
<1>5. \A i \in 3..n : i \in 3..Len(new) /\ new[i] = log[i]
  BY <1>2, <1>3
<1>6. /\ Len(new) >= 2 /\ new[1].kind = "echo" /\ new[2].kind = "header"
      /\ new[3].kind = "row"
  BY <1>2, <1>3 DEF Table, n
<1>7. /\ \A i \in 3..n : log[i].kind = "row" =>
           /\ log[i].step \in S
           /\ \A k \in 3..n : k > i /\ log[k].kind = "row" =>
                log[i].step < log[k].step
      /\ \A s \in S : \E i \in 3..n : log[i].kind = "row" /\ log[i].step = s
  BY DEF Table, n
<1>8. ASSUME NEW i \in 3..Len(new), new[i].kind = "row"
      PROVE  /\ new[i].step \in S
             /\ \A k \in 3..Len(new) :
                  k > i /\ new[k].kind = "row" => new[i].step < new[k].step
  BY <1>4, <1>7, <1>8
<1>9. \A s \in S : \E i \in 3..Len(new) : new[i].kind = "row" /\ new[i].step = s
  BY <1>5, <1>7
<1>10. Table(new, S)
  BY <1>6, <1>8, <1>9 DEF Table
<1>. QED
  BY <1>10 DEF new, l

\* What is written in the case directory, by the solver of the job at hand.
LEMMA PutKept ==
  ASSUME IInv, Progress, task.step = "run", NEW t \in task.due, NEW x,
         UNCHANGED built, dir' = Put(t, x)
  PROVE  /\ TimesSound'
         /\ IsOpenFOAM(task.job) =>
              dir'[Here].time = Written(t, x, dir[Here].time)
         /\ ~IsOpenFOAM(task.job) =>
              dir'[Here].log = Append(dir[Here].log, Line("row", t))
<1>. DEFINE h == Here
            time == Written(t, x, dir[h].time)
            log == Append(dir[h].log, Line("row", t))
<1>1. /\ h \in Cases /\ DirsSound /\ DirSound(dir[h], built[h])
      /\ task.valid \in built[h]
  BY AtHere DEF Busy, IInv, Progress, BuiltSound
<1>2. CASE IsOpenFOAM(task.job)
  <2>. DEFINE d == [dir[h] EXCEPT !.time = time]
  <2>1. dir' = [dir EXCEPT ![h] = d]
    BY <1>2 DEF Put
  <2>2. task.valid \in CasesBuilt(h)
    BY <1>1, <1>2, AtHere DEF Busy, CasesBuilt
  <2>3. t \in WrittenTimes(CaseFiles(task.valid)) /\ t # 0
    <3>1. AllDue = WrittenTimes(CaseFiles(task.valid))
      BY <1>2 DEF AllDue, IInv, WorkSound, InputSound
    <3>2. t \in AllDue
      BY DEF Progress, RunSound, DueSound
    <3>3. PICK b \in Nat : WrittenTimes(CaseFiles(task.valid)) \subseteq 1..b
      BY <2>2, WrittenBounds DEF CasesBuilt
    <3>4. t \in 1..b
      BY <3>1, <3>2, <3>3
    <3>. QED
      BY <3>1, <3>2, <3>4
  <2>4. /\ DOMAIN time = DOMAIN dir[h].time \cup {t}
        /\ \A u \in DOMAIN dir[h].time \ {t} : time[u] = dir[h].time[u]
    BY DEF Written, Over
  <2>. HIDE DEF h, time
  <2>5. d.time = time
    <3>1. d = [file |-> dir[h].file, mesh |-> dir[h].mesh, time |-> time,
               log |-> dir[h].log]
      BY <1>1, DirFields
    <3>. QED
      BY <3>1
  <2>. HIDE DEF d
  <2>6. dir'[h] = d /\ \A c \in Cases \ {h} : dir'[c] = dir[c]
    BY <1>1, <2>1, DirAt
  <2>7. TimesSound'
    BY <1>1, <2>2, <2>3, <2>4, <2>5, <2>6, TimesGrow DEF Progress
  <2>. QED
    BY <1>2, <2>5, <2>6, <2>7 DEF h, time
<1>3. CASE ~IsOpenFOAM(task.job)
  <2>. DEFINE d == [dir[h] EXCEPT !.log = log]
  <2>1. dir' = [dir EXCEPT ![h] = d]
    BY <1>3 DEF Put
  <2>. HIDE DEF h, log
  <2>2. d.log = log /\ d.time = dir[h].time
    <3>1. d = [file |-> dir[h].file, mesh |-> dir[h].mesh,
               time |-> dir[h].time, log |-> log]
      BY <1>1, DirFields
    <3>. QED
      BY <3>1
  <2>. HIDE DEF d
  <2>3. dir'[h] = d /\ \A c \in Cases \ {h} : dir'[c] = dir[c]
    BY <1>1, <2>1, DirAt
  <2>4. TimesSound'
    BY <2>2, <2>3, TimesKept DEF Progress
  <2>. QED
    BY <1>3, <2>2, <2>3, <2>4 DEF h, log
<1>. QED
  BY <1>2, <1>3

LEMMA WritesKept ==
  ASSUME IInv, Progress, NEW t \in task.due, SolverWrites(t)
  PROVE  Progress'
<1>. DEFINE h == Here
            foam == IsOpenFOAM(task.job)
<1>1. /\ task.step = "run" /\ IsNext(t) /\ dir' = Put(t, task.input)
      /\ task' = [task EXCEPT !.due = @ \ {t}]
      /\ UNCHANGED <<jobVars, built>>
  BY DEF SolverWrites, At
<1>2. /\ task \in Tasks /\ task.due \subseteq Nat
      /\ h \in Cases /\ DirSound(dir[h], built[h]) /\ task.valid \in built[h]
  BY <1>1, AtHere DEF IInv, TaskSound, Tasks, Busy, Progress, BuiltSound
<1>3. /\ task'.step = "run" /\ task'.job = task.job
      /\ task'.valid = task.valid /\ task'.input = task.input
      /\ task'.due = task.due \ {t}
  BY <1>1, <1>2 DEF Tasks
<1>4. IsOpenFOAM(task.job)' = foam /\ (Here)' = h
  BY <1>1, <1>3 DEF IsOpenFOAM, Here, jobVars
<1>5. AllDue' = AllDue
  BY <1>3, <1>4 DEF AllDue, WrittenTimes, LastIteration, ThermoSteps
<1>6. /\ task.due \subseteq AllDue
      /\ \A s \in Done, u \in task.due : s < u
  BY <1>1 DEF Progress, RunSound, DueSound
<1>7. Done' = Done \cup {t}
  BY <1>3, <1>5, <1>6 DEF Done
<1>8. /\ TimesSound'
      /\ foam => dir'[h].time = Written(t, task.input, dir[h].time)
      /\ ~foam => dir'[h].log = Append(dir[h].log, Line("row", t))
  BY <1>1, PutKept
<1>9. DueSound'
  <2>1. ASSUME NEW s \in Done \cup {t}, NEW u \in task.due \ {t} PROVE s < u
    <3>1. CASE s = t
      BY <1>1, <1>2, <3>1 DEF IsNext
    <3>2. CASE s \in Done
      BY <1>6, <3>2
    <3>. QED
      BY <3>1, <3>2
  <2>2. task'.due \subseteq AllDue'
    BY <1>3, <1>5, <1>6
  <2>. QED
    BY <1>3, <1>7, <2>1, <2>2 DEF DueSound
<1>10. WrittenSound'
  <2>. SUFFICES ASSUME foam, NEW s \in Done \cup {t}
                PROVE  /\ s \in DOMAIN dir'[h].time
                       /\ dir'[h].time[s] = task.input
    BY <1>3, <1>4, <1>7 DEF WrittenSound
  <2>1. s # t => /\ s \in DOMAIN dir[h].time
                 /\ dir[h].time[s] = task.input
    BY <1>1 DEF Progress, RunSound, WrittenSound
  <2>. HIDE DEF h, foam
  <2>. QED
    BY <1>8, <2>1 DEF Written, Over
<1>11. LogSound'
  <2>. SUFFICES ASSUME ~foam PROVE Table(dir'[h].log, Done \cup {t})
    BY <1>3, <1>4, <1>7 DEF LogSound
  <2>1. Table(dir[h].log, Done)
    BY <1>1 DEF Progress, RunSound, LogSound
  <2>2. dir[h].log \in Seq(Lines)
    BY <1>2 DEF DirSound
  <2>3. Done \in SUBSET Nat
    <3>1. task.valid \in MDPayloads /\ AllDue = ThermoSteps(Script(task.valid))
      BY <1>1, AtHere DEF Busy, AllDue, IInv, WorkSound, InputSound
    <3>. QED
      BY <3>1, FirstRow DEF Done
  <2>4. \A s \in Done : s < t
    BY <1>6
  <2>. HIDE DEF h, foam
  <2>. QED
    BY <1>2, <1>8, <2>1, <2>2, <2>3, <2>4, TableGrows
<1>12. BuiltSound'
  BY <1>1, <1>2, <1>3, <1>4 DEF BuiltSound
<1>. QED
  BY <1>8, <1>9, <1>10, <1>11, <1>12 DEF Progress, RunSound

LEMMA WarnsKept ==
  ASSUME IInv, Progress, SolverWarns
  PROVE  Progress'
<1>. DEFINE h == Here
            log == Append(dir[h].log, Line("warning", None))
            d == [dir[h] EXCEPT !.log = log]
<1>1. /\ task.step = "run" /\ ~IsOpenFOAM(task.job)
      /\ Last(dir[h].log).kind = "row" /\ dir' = [dir EXCEPT ![h] = d]
      /\ UNCHANGED <<jobVars, task, built>>
  BY DEF SolverWarns, At
<1>2. /\ h \in Cases /\ DirsSound /\ DirSound(dir[h], built[h])
      /\ task.valid \in MDPayloads
  BY <1>1, AtHere DEF IInv, Busy
<1>3. dir[h].log \in Seq(Lines) /\ Table(dir[h].log, Done)
  BY <1>1, <1>2 DEF DirSound, Progress, RunSound, LogSound
<1>4. Done \in SUBSET Nat
  <2>1. AllDue = ThermoSteps(Script(task.valid))
    BY <1>1 DEF AllDue, IInv, WorkSound, InputSound
  <2>. QED
    BY <1>2, <2>1, FirstRow DEF Done
<1>5. /\ IsOpenFOAM(task.job)' = IsOpenFOAM(task.job) /\ (Here)' = h
      /\ AllDue' = AllDue /\ Done' = Done
  BY <1>1 DEF IsOpenFOAM, Here, jobVars, AllDue, Done
<1>. HIDE DEF h
<1>6. Table(log, Done)
  BY <1>1, <1>3, <1>4, TableWarned
<1>. HIDE DEF log
<1>7. d.log = log /\ d.time = dir[h].time
  <2>1. d = [file |-> dir[h].file, mesh |-> dir[h].mesh,
             time |-> dir[h].time, log |-> log]
    BY <1>2, DirFields
  <2>. QED
    BY <2>1
<1>. HIDE DEF d
<1>8. dir'[h] = d /\ \A c \in Cases \ {h} : dir'[c] = dir[c]
  BY <1>1, <1>2, DirAt
<1>9. TimesSound'
  BY <1>1, <1>7, <1>8, TimesKept DEF Progress
<1>10. LogSound'
  BY <1>5, <1>6, <1>7, <1>8 DEF LogSound
<1>11. DueSound'
  BY <1>1, <1>5 DEF Progress, RunSound, DueSound
<1>12. WrittenSound'
  BY <1>1, <1>5 DEF WrittenSound
<1>13. BuiltSound'
  BY <1>1, <1>5 DEF Progress, BuiltSound, h
<1>. QED
  BY <1>9, <1>10, <1>11, <1>12, <1>13 DEF Progress, RunSound

LEMMA EndsKept ==
  ASSUME IInv, Progress, SolverEnds
  PROVE  Progress'
<1>1. /\ task.step = "run" /\ task.due = {}
      /\ task' = [task EXCEPT !.step = "parse"]
      /\ UNCHANGED <<jobVars, dirVars>> /\ task \in Tasks
  BY DEF SolverEnds, At, IInv, TaskSound
<1>2. /\ task'.step = "parse" /\ task'.job = task.job
      /\ task'.valid = task.valid /\ task'.input = task.input
      /\ task'.due = {}
  BY <1>1 DEF Tasks
<1>3. /\ IsOpenFOAM(task.job)' = IsOpenFOAM(task.job) /\ (Here)' = Here
  BY <1>1, <1>2 DEF IsOpenFOAM, Here, jobVars
<1>4. AllDue' = AllDue /\ Done' = Done
  BY <1>1, <1>2, <1>3
     DEF AllDue, Done, WrittenTimes, LastIteration, ThermoSteps
<1>5. TimesSound'
  BY <1>1, TimesKept DEF Progress, dirVars
<1>6. DueSound'
  BY <1>2 DEF DueSound
<1>7. WrittenSound' /\ LogSound' /\ BuiltSound'
  BY <1>1, <1>2, <1>3, <1>4
     DEF Progress, RunSound, WrittenSound, LogSound, BuiltSound, dirVars
<1>. QED
  BY <1>5, <1>6, <1>7 DEF Progress, RunSound

LEMMA FailsKept ==
  ASSUME IInv, Progress, SolverFails
  PROVE  Progress'
<1>1. task.step = "run" /\ task' = Idle /\ UNCHANGED built
  BY DEF SolverFails, At, Fail
<1>2. task'.step = "idle"
  BY <1>1, IdleType
<1>3. TimesSound'
  <2>1. CASE dir' = dir
    BY <1>1, <2>1, TimesKept DEF Progress
  <2>2. ASSUME NEW t \in task.due, dir' = Put(t, Torn) PROVE TimesSound'
    BY <1>1, <2>2, PutKept
  <2>. QED
    BY <2>1, <2>2 DEF SolverFails
<1>. QED
  BY <1>2, <1>3, AwaySound DEF Progress

LEMMA ProgressNext ==
  ASSUME IInv, Progress, [Next]_vars
  PROVE  Progress'
<1>1. CASE UNCHANGED vars
  BY <1>1, TaskKept DEF vars, jobVars
<1>. QED
  BY <1>1, BoundaryKept, IdleKept, PlaceMeshKept, WriteKept, StartKept,
     WritesKept, WarnsKept, EndsKept, FailsKept
     DEF Next

-----------------------------------------------------------------------------
(***************************************************************************)
(* What the parsers find.                                                  *)
(***************************************************************************)

\* The last time of a case, 0 if it writes none.
LastTime(p) == Max({0} \cup WrittenTimes(CaseFiles(p)))

\* The latest time directory is the last one of the job's own case, and then
\* what the job has written, or another case there was to run longer.
LEMMA CaseParsed ==
  ASSUME IInv, Progress, task.step = "parse", IsOpenFOAM(task.job)
  PROVE  LET p == payload[task.job]
             latest == LatestTimeDir(DOMAIN dir[Here].time)
             content == dir[Here].time[latest]
         IN /\ \/ /\ latest = LastTime(p)
                  /\ LastTime(p) # 0 => content = CaseFiles(p)
               \/ \E q \in CasesBuilt(Here) : LastTime(q) > LastTime(p)
            /\ content = Torn => \E q \in CasesBuilt(Here) : q # p
<1>. DEFINE p == payload[task.job]
            time == dir[Here].time
            latest == LatestTimeDir(DOMAIN time)
            W == WrittenTimes(CaseFiles(p))
            last == LastTime(p)
<1>1. /\ task.valid = p /\ Here \in Cases /\ DirSound(dir[Here], built[Here])
      /\ p \in CFDPayloads /\ OpenFOAMInput(p) # Invalid
      /\ 0 \in DOMAIN time /\ task.input = CaseFiles(p)
  BY AtHere DEF Busy, IInv, WorkSound, TimeSound, InputSound
<1>2. \A t \in W : t \in DOMAIN time /\ time[t] = CaseFiles(p)
  <2>1. Done = W
    BY <1>1 DEF Done, AllDue, Progress, RunSound, DueSound
  <2>. QED
    BY <1>1, <2>1 DEF Progress, RunSound, WrittenSound
<1>3. /\ latest \in DOMAIN time /\ \A t \in DOMAIN time : t <= latest
      /\ DOMAIN time \in SUBSET Nat
  <2>1. /\ DOMAIN time \in SUBSET Nat
        /\ \E u \in Nat : \A t \in DOMAIN time : t <= u
    BY <1>1 DEF DirSound
  <2>. QED
    BY <1>1, <2>1, LatestIsThere
<1>4. last \in {0} \cup W /\ last \in Nat
  BY <1>1, ReachMax DEF LastTime
<1>5. IF latest = 0 THEN time[latest] = Start
      ELSE \E q \in CasesBuilt(Here) : latest \in WrittenTimes(CaseFiles(q))
  BY <1>1, <1>3 DEF Progress, TimesSound
<1>6. ASSUME NEW q \in CasesBuilt(Here), latest \in WrittenTimes(CaseFiles(q))
      PROVE  LastTime(q) >= latest /\ LastTime(q) \in Nat
  <2>1. q \in CFDPayloads /\ OpenFOAMInput(q) # Invalid
    BY DEF CasesBuilt
  <2>2. LET R == {0} \cup WrittenTimes(CaseFiles(q))
        IN R \subseteq Nat /\ Max(R) \in R /\ \A t \in R : t <= Max(R)
    BY <2>1, ReachMax
  <2>. QED
    BY <1>6, <2>2 DEF LastTime
<1>. HIDE DEF time, latest, W, last
<1>7. latest >= last
  BY <1>1, <1>2, <1>3, <1>4
<1>8. \/ latest = last /\ (last # 0 => time[latest] = CaseFiles(p))
      \/ \E q \in CasesBuilt(Here) : LastTime(q) > last
  <2>1. CASE latest = last
    BY <1>2, <1>4, <2>1
  <2>2. CASE latest > last
    BY <1>3, <1>4, <1>5, <1>6, <2>2
  <2>. QED
    BY <1>3, <1>4, <1>7, <2>1, <2>2
<1>9. ASSUME time[latest] = Torn PROVE \E q \in CasesBuilt(Here) : q # p
  <2>1. Torn # Start /\ Torn # CaseFiles(p)
    BY <1>1, RequestsAssumption
  <2>2. PICK q \in CasesBuilt(Here) : latest \in WrittenTimes(CaseFiles(q))
    BY <1>5, <1>9, <2>1
  <2>3. latest \notin W
    BY <1>2, <1>9, <2>1
  <2>. QED
    BY <2>2, <2>3 DEF W
<1>. QED
  BY <1>8, <1>9 DEF time, latest, last

\* The log has a table, and the last row that is read is one of this run.
LEMMA LogParsed ==
  ASSUME IInv, Progress, task.step = "parse", ~IsOpenFOAM(task.job)
  PROVE  LET log == dir[Here].log
             rows == ParseThermo(log)
             S == ThermoSteps(Script(payload[task.job]))
         IN /\ ThermoColumns(log) /\ rows # <<>>
            /\ Last(rows).step \in S
            /\ Len(rows) = Cardinality({s \in S : s <= Last(rows).step})
<1>. DEFINE p == payload[task.job]
            S == ThermoSteps(Script(p))
<1>1. /\ task.valid = p /\ DirSound(dir[Here], built[Here])
      /\ p \in MDPayloads /\ task.input = Script(p)
  BY AtHere DEF Busy, IInv, WorkSound, InputSound
<1>2. Done = S
  BY <1>1 DEF Done, AllDue, Progress, RunSound, DueSound
<1>3. dir[Here].log \in Seq(Lines) /\ Table(dir[Here].log, S)
  BY <1>1, <1>2 DEF DirSound, Progress, RunSound, LogSound
<1>4. 0 \in S /\ S \in SUBSET Nat
  BY <1>1, FirstRow
<1>. HIDE DEF S
<1>5. LET rows == ParseThermo(dir[Here].log)
      IN /\ ThermoColumns(dir[Here].log) /\ rows # <<>>
         /\ Last(rows).step \in S
         /\ Len(rows) = Cardinality({s \in S : s <= Last(rows).step})
  BY <1>3, <1>4, TableParsed
<1>. QED
  BY <1>5 DEF S

-----------------------------------------------------------------------------
\* An outcome is final, and only a parser completes a job or fails it at that
\* stage; what has been built somewhere stays built.
LEMMA OutcomeKept ==
  ASSUME IInv, [Next]_vars
  PROVE  /\ \A c \in Cases : built[c] \subseteq built'[c]
         /\ \A j \in Jobs :
              /\ stage[j] \in {"completed", "failed"} =>
                   /\ stage'[j] = stage[j] /\ raw'[j] = raw[j]
                   /\ payload'[j] = payload[j] /\ error'[j] = error[j]
                   /\ result'[j] = result[j]
              /\ stage'[j] = "completed" =>
                   stage[j] = "completed" \/ (task.job = j /\ (ParseCase \/ ParseLog))
              /\ error'[j] = "parse" =>
                   error[j] = "parse" \/ (task.job = j /\ (ParseCase \/ ParseLog))
<1>. DEFINE Kept(j) ==
              /\ stage[j] \in {"completed", "failed"} =>
                   /\ stage'[j] = stage[j] /\ raw'[j] = raw[j]
                   /\ payload'[j] = payload[j] /\ error'[j] = error[j]
                   /\ result'[j] = result[j]
              /\ stage'[j] = "completed" =>
                   stage[j] = "completed" \/ (task.job = j /\ (ParseCase \/ ParseLog))
              /\ error'[j] = "parse" =>
                   error[j] = "parse" \/ (task.job = j /\ (ParseCase \/ ParseLog))
<1>0. /\ stage \in [Jobs -> Stages]
      /\ error \in [Jobs -> Where \cup {None}]
      /\ result \in [Jobs -> Summaries \cup {None}]
      /\ task.step # "idle" => task.job \in Jobs /\ stage[task.job] = "running"
      /\ task # Idle => task.step # "idle"
  BY DEF IInv, JobsSound, TaskSound
<1>1. \A c \in Cases : built[c] \subseteq built'[c]
  <2>1. CASE PlaceMesh \/ WriteScript
    <3>1. built' = [built EXCEPT ![Here] = @ \cup {task.valid}]
      BY <2>1 DEF PlaceMesh, WriteScript
    <3>. QED
      BY <3>1 DEF IInv, DirsSound
  <2>2. CASE ~(PlaceMesh \/ WriteScript)
    <3>1. built' = built
      BY <2>2 DEF Next, Submit, Refuse, Take, Validate, WriteCaseFile,
                  StartSolver, SolverWrites, SolverWarns, SolverEnds,
                  SolverFails, ParseCase, ParseLog, Crash, vars, dirVars
    <3>. QED
      BY <3>1
  <2>. QED
    BY <2>1, <2>2
<1>2. ASSUME NEW j \in Jobs, NEW i \in Jobs,
             \/ \E r \in Requests : Submit(i, r) \/ Refuse(i, r)
             \/ Take(i)
      PROVE  Kept(j)
  BY <1>0, <1>2 DEF Submit, Refuse, Take, IInv, JobsSound
<1>3. ASSUME NEW j \in Jobs, UNCHANGED jobVars PROVE Kept(j)
  BY <1>3 DEF jobVars
<1>4. ASSUME NEW j \in Jobs, NEW w \in {"validation", "build", "solver"},
             Fail(w), task.step # "idle"
      PROVE  Kept(j)
  BY <1>0, <1>4 DEF Fail, Where
<1>5. ASSUME NEW j \in Jobs, ParseCase \/ ParseLog PROVE Kept(j)
  <2>1. /\ task.step = "parse"
        /\ \/ \E s : Complete(s)
           \/ Fail("parse")
    BY <1>5 DEF ParseCase, ParseLog, At
  <2>2. CASE Fail("parse")
    BY <1>0, <1>5, <2>1, <2>2 DEF Fail
  <2>3. CASE \E s : Complete(s)
    BY <1>0, <1>5, <2>1, <2>3 DEF Complete
  <2>. QED
    BY <2>1, <2>2, <2>3
<1>6. ASSUME NEW j \in Jobs, Crash PROVE Kept(j)
  BY <1>0, <1>6 DEF Crash
<1>7. ASSUME NEW j \in Jobs PROVE Kept(j)
  <2>1. CASE Validate \/ PlaceMesh \/ SolverFails
    <3>1. /\ task.step # "idle"
          /\ UNCHANGED jobVars \/ \E w \in {"validation", "build", "solver"} : Fail(w)
      BY <2>1 DEF Validate, PlaceMesh, SolverFails, At
    <3>. QED
      BY <1>3, <1>4, <3>1
  <2>2. CASE \/ WriteCaseFile \/ WriteScript \/ StartSolver
             \/ \E t \in task.due : SolverWrites(t)
             \/ SolverWarns \/ SolverEnds \/ UNCHANGED vars
    <3>1. UNCHANGED jobVars
      BY <2>2 DEF WriteCaseFile, WriteScript, StartSolver, SolverWrites,
                  SolverWarns, SolverEnds, vars
    <3>. QED
      BY <1>3, <3>1
  <2>3. CASE \E i \in Jobs : \/ \E r \in Requests : Submit(i, r) \/ Refuse(i, r)
                             \/ Take(i)
    BY <1>2, <2>3
  <2>. QED
    BY <1>5, <1>6, <2>1, <2>2, <2>3 DEF Next
<1>. QED
  BY <1>1, <1>7

-----------------------------------------------------------------------------
(***************************************************************************)
(* What holds of every execution.                                          *)
(***************************************************************************)

LEMMA ProgressAlways == Spec => []Progress
<1>1. IInv /\ Progress /\ [Next]_vars => Progress'
  BY ProgressNext
<1>. QED
  BY <1>1, IInvInit, ProgressInit, Invariance, PTL DEF Spec

\* What is required of a result, of the payload it answers and of what has
\* been built in its directory.
CaseResult(res, p, b) ==
  \/ res.time = LastTime(p) /\ (LastTime(p) # 0 => res.of = CaseFiles(p))
  \/ \E q \in b : "iterations" \in DOMAIN q /\ LastTime(q) > LastTime(p)

LogResult(res, p) ==
  LET S == ThermoSteps(Script(p))
  IN /\ res.steps \in S
     /\ res.points = Cardinality({s \in S : s <= res.steps})

\* A payload of OpenFOAM has a bound for its iterations and names a case.
LEMMA OpenFOAMPayload ==
  ASSUME IInv, NEW j \in Jobs, payload[j] # None, IsOpenFOAM(j)
  PROVE  /\ payload[j] \in CFDPayloads /\ payload[j].case_name \in Cases
<1>1. Made(j)
  BY DEF IInv, JobsSound
<1>. QED
  BY <1>1, RequestsAssumption DEF Made, IsOpenFOAM, Accepted, CFDPayloads

LEMMA HasIterations ==
  ASSUME NEW q \in CFDPayloads
  PROVE  "iterations" \in DOMAIN q
<1>1. "iterations" \in DOMAIN OpenFOAMFields
  BY DEF OpenFOAMFields, MeshSpec, FluidProperties, BoundaryConditions,
         SolverControls, Over
<1>. QED
  BY <1>1, Revalidation

ResultSound(j) ==
  stage[j] = "completed" =>
    IF IsOpenFOAM(j)
    THEN CaseResult(result[j], payload[j], built[payload[j].case_name])
    ELSE LogResult(result[j], payload[j])

\* The requirement in the words of the proof.
LEMMA ResultForm ==
  ASSUME IInv
  PROVE  (\A j \in Jobs : ResultSound(j)) => ResultOwn
<1>. SUFFICES ASSUME \A j \in Jobs : ResultSound(j), NEW j \in Jobs,
                     stage[j] = "completed"
              PROVE  IF IsOpenFOAM(j)
                     THEN LET own == CaseFiles(payload[j])
                              Reached(q) ==
                                IF "iterations" \in DOMAIN q
                                THEN {0} \cup WrittenTimes(CaseFiles(q))
                                ELSE {0}
                              last == Max(Reached(payload[j]))
                          IN \/ /\ result[j].time = last
                                /\ last # 0 => result[j].of = own
                             \/ \E q \in built[payload[j].case_name] :
                                   Max(Reached(q)) > last
                     ELSE LogResult(result[j], payload[j])
  BY DEF ResultOwn, LogResult
<1>1. CASE IsOpenFOAM(j)
  <2>1. "iterations" \in DOMAIN payload[j]
    <3>1. payload[j] # None
      BY DEF IInv, JobsSound
    <3>. QED
      BY <1>1, <3>1, OpenFOAMPayload, HasIterations
  <2>2. CaseResult(result[j], payload[j], built[payload[j].case_name])
    BY <1>1 DEF ResultSound
  <2>. QED
    BY <1>1, <2>1, <2>2 DEF CaseResult, LastTime
<1>2. CASE ~IsOpenFOAM(j)
  BY <1>2 DEF ResultSound
<1>. QED
  BY <1>1, <1>2

LEMMA ResultNext ==
  ASSUME IInv, Progress, [Next]_vars, NEW j \in Jobs, ResultSound(j)
  PROVE  ResultSound(j)'
<1>. SUFFICES ASSUME stage'[j] = "completed"
              PROVE  IF raw'[j].solver = "openfoam"
                     THEN CaseResult(result'[j], payload'[j],
                                     built'[payload'[j].case_name])
                     ELSE LogResult(result'[j], payload'[j])
  BY DEF ResultSound, IsOpenFOAM, CaseResult, LogResult, LastTime,
         WrittenTimes, LastIteration, ThermoSteps
<1>1. CASE stage[j] = "completed"
  <2>1. /\ raw'[j] = raw[j] /\ payload'[j] = payload[j]
        /\ result'[j] = result[j]
    BY <1>1, OutcomeKept
  <2>2. CASE IsOpenFOAM(j)
    <3>1. payload[j] # None
      BY <1>1 DEF IInv, JobsSound
    <3>2. built[payload[j].case_name] \subseteq built'[payload[j].case_name]
      BY <2>2, <3>1, OpenFOAMPayload, OutcomeKept
    <3>. QED
      BY <1>1, <2>1, <2>2, <3>2 DEF ResultSound, CaseResult, IsOpenFOAM
  <2>3. CASE ~IsOpenFOAM(j)
    BY <1>1, <2>1, <2>3 DEF ResultSound, IsOpenFOAM
  <2>. QED
    BY <2>2, <2>3
<1>2. CASE stage[j] # "completed"
  <2>1. task.job = j /\ (ParseCase \/ ParseLog)
    BY <1>2, OutcomeKept
  <2>2. /\ task.step = "parse" /\ UNCHANGED <<raw, payload, built>>
    BY <2>1 DEF ParseCase, ParseLog, At, Complete, Fail, dirVars
  <2>3. task.valid = payload[j] /\ result \in [Jobs -> Summaries \cup {None}]
    BY <2>1, <2>2 DEF IInv, TaskSound, Busy, JobsSound
  <2>4. ~Fail("parse")
    BY <1>2, <2>1 DEF Fail, IInv, JobsSound
  <2>5. CASE IsOpenFOAM(j)
    <3>. DEFINE latest == LatestTimeDir(DOMAIN dir[Here].time)
                content == dir[Here].time[latest]
    <3>1. Complete([time |-> latest, of |-> content])
      BY <2>1, <2>4, <2>5 DEF ParseCase, ParseLog
    <3>2. \/ latest = LastTime(payload[j])
             /\ (LastTime(payload[j]) # 0 => content = CaseFiles(payload[j]))
          \/ \E q \in CasesBuilt(Here) : LastTime(q) > LastTime(payload[j])
      BY <2>1, <2>2, <2>5, CaseParsed
    <3>. HIDE DEF latest, content
    <3>3. result'[j].time = latest /\ result'[j].of = content
      BY <2>1, <2>3, <3>1 DEF Complete
    <3>4. CaseResult(result'[j], payload[j], built[Here])
      <4>1. \A q \in CasesBuilt(Here) : q \in built[Here] /\ "iterations" \in DOMAIN q
        BY HasIterations DEF CasesBuilt
      <4>. QED
        BY <3>2, <3>3, <4>1 DEF CaseResult
    <3>5. Here = payload[j].case_name
      BY <2>3 DEF Here
    <3>. QED
      BY <2>2, <2>5, <3>4, <3>5 DEF IsOpenFOAM
  <2>6. CASE ~IsOpenFOAM(j)
    <3>. DEFINE rows == ParseThermo(dir[Here].log)
    <3>1. Complete([steps |-> Last(rows).step, points |-> Len(rows)])
      BY <2>1, <2>4, <2>6 DEF ParseCase, ParseLog
    <3>2. LET S == ThermoSteps(Script(payload[j]))
          IN /\ Last(rows).step \in S
             /\ Len(rows) = Cardinality({s \in S : s <= Last(rows).step})
      BY <2>1, <2>2, <2>6, LogParsed
    <3>. HIDE DEF rows
    <3>3. /\ result'[j].steps = Last(rows).step
          /\ result'[j].points = Len(rows)
      BY <2>1, <2>3, <3>1 DEF Complete
    <3>4. LogResult(result'[j], payload[j])
      BY <3>2, <3>3 DEF LogResult
    <3>. QED
      BY <2>2, <2>6, <3>4 DEF IsOpenFOAM
  <2>. QED
    BY <2>5, <2>6
<1>. QED
  BY <1>1, <1>2

\* A result is that of the last time its own run was due to write, or of the
\* rows of its own table, for any history of the directory: earlier runs,
\* runs that were killed in the middle of a file, other cases of the same
\* name.  The one exception is a case that was to run longer there
\* (output_parser.py:32).
THEOREM ResultsOwn == Spec => []ResultOwn
<1>. DEFINE Sound == \A j \in Jobs : ResultSound(j)
<1>1. Init => Sound
  BY DEF Init, ResultSound
<1>2. IInv /\ Progress /\ Sound /\ [Next]_vars => Sound'
  BY ResultNext
<1>3. IInv /\ Sound => ResultOwn
  BY ResultForm
<1>. HIDE DEF Sound
<1>. QED
  BY <1>1, <1>2, <1>3, Invariance, ProgressAlways, PTL DEF Spec

LEMMA ParsedNext ==
  ASSUME IInv, Progress, SuccessParsed, [Next]_vars
  PROVE  SuccessParsed'
<1>. SUFFICES ASSUME NEW j \in Jobs, error'[j] = "parse"
              PROVE  /\ raw'[j].solver = "openfoam"
                     /\ \E q \in built'[payload'[j].case_name] : q # payload'[j]
  BY DEF SuccessParsed, IsOpenFOAM
<1>1. CASE error[j] = "parse"
  <2>1. stage[j] = "failed"
    BY <1>1, RequestsAssumption DEF IInv, JobsSound
  <2>2. raw'[j] = raw[j] /\ payload'[j] = payload[j]
    BY <2>1, OutcomeKept
  <2>3. IsOpenFOAM(j) /\ \E q \in built[payload[j].case_name] : q # payload[j]
    BY <1>1 DEF SuccessParsed
  <2>4. payload[j] # None
    BY <2>1 DEF IInv, JobsSound
  <2>5. built[payload[j].case_name] \subseteq built'[payload[j].case_name]
    BY <2>3, <2>4, OpenFOAMPayload, OutcomeKept
  <2>. QED
    BY <2>2, <2>3, <2>5 DEF IsOpenFOAM
<1>2. CASE error[j] # "parse"
  <2>1. task.job = j /\ (ParseCase \/ ParseLog)
    BY <1>2, OutcomeKept
  <2>2. task.step = "parse" /\ UNCHANGED <<raw, payload, built>>
    BY <2>1 DEF ParseCase, ParseLog, At, Complete, Fail, dirVars
  <2>3. task.valid = payload[j]
    BY <2>1, <2>2 DEF IInv, TaskSound, Busy
  <2>4. IsOpenFOAM(j)
    <3>. SUFFICES ASSUME ~IsOpenFOAM(j) PROVE FALSE
      OBVIOUS
    <3>1. ThermoColumns(dir[Here].log) /\ ParseThermo(dir[Here].log) # <<>>
      BY <2>1, <2>2, LogParsed
    <3>2. \E s : Complete(s)
      BY <2>1, <3>1 DEF ParseCase, ParseLog
    <3>. QED
      BY <1>2, <3>2 DEF Complete
  <2>. DEFINE latest == LatestTimeDir(DOMAIN dir[Here].time)
  <2>5. dir[Here].time[latest] = Torn
    <3>1. ASSUME Complete([time |-> latest, of |-> dir[Here].time[latest]])
          PROVE  FALSE
      BY <1>2, <3>1 DEF Complete
    <3>. QED
      BY <2>1, <2>4, <3>1 DEF ParseCase, ParseLog
  <2>6. \E q \in CasesBuilt(Here) : q # payload[j]
    BY <2>1, <2>2, <2>4, <2>5, CaseParsed
  <2>7. Here = payload[j].case_name
    BY <2>3 DEF Here
  <2>. QED
    BY <2>2, <2>4, <2>6, <2>7 DEF CasesBuilt, IsOpenFOAM
<1>. QED
  BY <1>1, <1>2

\* A run that ended with status zero is never failed for its output: LAMMPS's
\* table is found among echoes and warnings, and OpenFOAM's latest time is
\* whole unless a longer run of another payload was killed in that directory
\* (output_parser.py:32, worker.py:137).
THEOREM SuccessIsParsed == Spec => []SuccessParsed
<1>1. Init => SuccessParsed
  BY RequestsAssumption DEF Init, SuccessParsed
<1>2. IInv /\ Progress /\ SuccessParsed /\ [Next]_vars => SuccessParsed'
  BY ParsedNext
<1>. QED
  BY <1>1, <1>2, Invariance, ProgressAlways, PTL DEF Spec

=============================================================================
