------------------------- MODULE CaseWorkspaceProofs -------------------------
(***************************************************************************)
(* What validation, a case's files and a solver's results keep to, for any *)
(* number of jobs, requests and case directories.                          *)
(***************************************************************************)
EXTENDS CaseWorkspace, FiniteSetTheorems, WellFoundedInduction, TLAPS

-----------------------------------------------------------------------------
(***************************************************************************)
(* Validation.                                                             *)
(***************************************************************************)

LEMMA OverFields ==
  ASSUME NEW f, NEW g
  PROVE  /\ DOMAIN Over(f, g) = DOMAIN f \cup DOMAIN g
         /\ \A x \in DOMAIN f : Over(f, g)[x] = f[x]
         /\ \A x \in DOMAIN g \ DOMAIN f : Over(f, g)[x] = g[x]
BY DEF Over

\* A payload has every field; its model's defaults add nothing to it.
LEMMA OverWhole ==
  ASSUME NEW f, NEW g, f = [x \in DOMAIN f |-> f[x]], DOMAIN g \subseteq DOMAIN f
  PROVE  Over(f, g) = f
BY DEF Over

LEMMA OpenFOAMDefaults ==
  /\ {"case_name", "polymesh_ref", "inlet_velocity", "inlet_k",
      "inlet_turbulence_dissipation", "turbulence_intensity",
      "turbulence_model", "turbulence_length_scale"} \subseteq DOMAIN OpenFOAMFields
  /\ OpenFOAMFields["inlet_velocity"] = Required
  /\ OpenFOAMFields["inlet_k"] = None
  /\ OpenFOAMFields["inlet_turbulence_dissipation"] = None
BY DEF OpenFOAMFields, MeshSpec, FluidProperties, BoundaryConditions,
       SolverControls, Over

\* What is derived, and what is not.
LEMMA DeriveFields ==
  ASSUME NEW p,
         {"inlet_k", "inlet_turbulence_dissipation"} \subseteq DOMAIN p
  PROVE  /\ Derive(p) = [x \in DOMAIN p |-> Derive(p)[x]]
         /\ \A x \in DOMAIN p \ {"inlet_k", "inlet_turbulence_dissipation"} :
              Derive(p)[x] = p[x]
         /\ Derive(p).inlet_k =
              IF p.inlet_k = None THEN Energy(p) ELSE p.inlet_k
         /\ Derive(p).inlet_turbulence_dissipation =
              IF p.inlet_turbulence_dissipation = None
              THEN Dissipation(p, Derive(p).inlet_k)
              ELSE p.inlet_turbulence_dissipation
BY DEF Derive

\* Nothing is derived where nothing is missing.
LEMMA DeriveWhole ==
  ASSUME NEW p, p = [x \in DOMAIN p |-> p[x]],
         None \notin {p.inlet_k, p.inlet_turbulence_dissipation}
  PROVE  Derive(p) = p
BY DEF Derive

\* What the model accepts: the request with the defaults, and the derived
\* values in place of what is missing.
LEMMA AcceptedFields ==
  ASSUME NEW req, OpenFOAMInput(req) # Invalid
  PROVE  LET p == Over(req, OpenFOAMFields)
         IN /\ OpenFOAMInput(req) = Derive(p)
            /\ DOMAIN p = DOMAIN OpenFOAMFields
            /\ DOMAIN req \subseteq DOMAIN OpenFOAMFields
            /\ \A f \in DOMAIN p :
                 /\ p[f] \notin {Bad, Zero, Required}
                 /\ p[f] = None => OpenFOAMFields[f] = None
            /\ SafeSegment(p.case_name) /\ SafeRelpath(p.polymesh_ref)
<1>. DEFINE p == Over(req, OpenFOAMFields)
<1>1. /\ OpenFOAMInput(req) = Derive(p)
      /\ InRange(req, OpenFOAMFields) /\ SafeRelpath(p.polymesh_ref)
  BY DEF OpenFOAMInput
<1>2. DOMAIN p = DOMAIN OpenFOAMFields
  <2>1. DOMAIN req \subseteq DOMAIN OpenFOAMFields
    BY <1>1 DEF InRange
  <2>. QED
    BY <2>1, OverFields
<1>3. /\ DOMAIN req \subseteq DOMAIN OpenFOAMFields
      /\ \A f \in DOMAIN p :
           /\ p[f] \notin {Bad, Zero, Required}
           /\ p[f] = None => OpenFOAMFields[f] = None
      /\ SafeSegment(p.case_name)
  BY <1>1 DEF InRange
<1>. HIDE DEF p
<1>4. /\ OpenFOAMInput(req) = Derive(p)
      /\ DOMAIN p = DOMAIN OpenFOAMFields
      /\ DOMAIN req \subseteq DOMAIN OpenFOAMFields
      /\ \A f \in DOMAIN p :
           /\ p[f] \notin {Bad, Zero, Required}
           /\ p[f] = None => OpenFOAMFields[f] = None
      /\ SafeSegment(p.case_name) /\ SafeRelpath(p.polymesh_ref)
  BY <1>1, <1>2, <1>3
<1>. QED
  BY <1>4 DEF p

\* The second validation of a payload gives it back or refuses it, and that
\* only if a derived value has underflowed.
LEMMA Revalidation ==
  ASSUME NEW P \in CFDPayloads
  PROVE  /\ P # Invalid
         /\ DOMAIN P = DOMAIN OpenFOAMFields
         /\ OpenFOAMInput(P) \in {P, Invalid}
         /\ OpenFOAMInput(P) = Invalid => Underflowing(P)
<1>1. PICK req : P = OpenFOAMInput(req) /\ P # Invalid
  BY DEF CFDPayloads, Accepted, ModelValidate
<1>. DEFINE D == DOMAIN OpenFOAMFields
            p == Over(req, OpenFOAMFields)
<1>2. /\ P = Derive(p) /\ DOMAIN p = D
      /\ \A f \in D : /\ p[f] \notin {Bad, Zero, Required}
                      /\ p[f] = None => OpenFOAMFields[f] = None
      /\ SafeSegment(p.case_name) /\ SafeRelpath(p.polymesh_ref)
  BY <1>1, AcceptedFields
<1>. HIDE DEF p
<1>3. /\ P = [x \in D |-> P[x]]
      /\ \A x \in D \ {"inlet_k", "inlet_turbulence_dissipation"} : P[x] = p[x]
      /\ P.inlet_k = IF p.inlet_k = None THEN Energy(p) ELSE p.inlet_k
      /\ P.inlet_turbulence_dissipation =
           IF p.inlet_turbulence_dissipation = None
           THEN Dissipation(p, P.inlet_k)
           ELSE p.inlet_turbulence_dissipation
  BY <1>2, OpenFOAMDefaults, DeriveFields
<1>4. DOMAIN P = D /\ Over(P, OpenFOAMFields) = P
  <2>1. DOMAIN P = D
    BY <1>3
  <2>. QED
    BY <1>3, <2>1, OverWhole
<1>5. /\ P.inlet_velocity = p.inlet_velocity
      /\ P.turbulence_intensity = p.turbulence_intensity
      /\ P.turbulence_model = p.turbulence_model
      /\ P.turbulence_length_scale = p.turbulence_length_scale
      /\ P.case_name = p.case_name /\ P.polymesh_ref = p.polymesh_ref
  BY <1>3, OpenFOAMDefaults
<1>6. /\ <<P.inlet_velocity, P.turbulence_intensity>>
           \notin {None, Bad, Zero, Required}
      /\ <<P.turbulence_model, P.inlet_k, P.turbulence_length_scale>>
           \notin {None, Bad, Zero, Required}
      /\ Zero \notin {None, Bad, Required}
  BY RequestsAssumption
<1>7. /\ P.inlet_k \notin {None, Bad, Required}
      /\ P.inlet_k = Zero =>
           {P.inlet_velocity, P.turbulence_intensity} \cap Underflows # {}
  BY <1>2, <1>3, <1>5, <1>6, OpenFOAMDefaults DEF Energy
<1>8. /\ P.inlet_turbulence_dissipation \notin {None, Bad, Required}
      /\ P.inlet_turbulence_dissipation = Zero =>
           \/ P.inlet_k = Zero \/ P.inlet_k \in Underflows
           \/ P.turbulence_length_scale \in Underflows
  BY <1>2, <1>3, <1>5, <1>6, OpenFOAMDefaults DEF Dissipation
<1>9. Derive(P) = P
  BY <1>3, <1>4, <1>7, <1>8, DeriveWhole
<1>10. OpenFOAMInput(P) \in {P, Invalid}
  BY <1>4, <1>9 DEF OpenFOAMInput
<1>11. P.inlet_k # Zero /\ P.inlet_turbulence_dissipation # Zero =>
         OpenFOAMInput(P) = P
  <2>. SUFFICES ASSUME P.inlet_k # Zero,
                       P.inlet_turbulence_dissipation # Zero
                PROVE  OpenFOAMInput(P) = P
    OBVIOUS
  <2>1. \A f \in D : /\ P[f] \notin {Bad, Zero, Required}
                     /\ P[f] = None => OpenFOAMFields[f] = None
    BY <1>2, <1>3, <1>7, <1>8, OpenFOAMDefaults
  <2>2. InRange(P, OpenFOAMFields)
    BY <1>2, <1>4, <1>5, <2>1 DEF InRange
  <2>. QED
    BY <1>2, <1>4, <1>5, <1>7, <1>8, <1>9, <2>2 DEF OpenFOAMInput
<1>. QED
  BY <1>1, <1>4, <1>7, <1>8, <1>10, <1>11 DEF Underflowing

\* LAMMPS derives nothing, and a payload of its model is one.
LEMMA RevalidationMD ==
  ASSUME NEW P \in MDPayloads
  PROVE  P # Invalid /\ LAMMPSInput(P) = P
<1>1. PICK req : P = LAMMPSInput(req) /\ P # Invalid
  BY DEF MDPayloads, Accepted, ModelValidate
<1>2. P = Over(req, LAMMPSFields) /\ InRange(req, LAMMPSFields)
  BY <1>1 DEF LAMMPSInput
<1>3. P = [x \in DOMAIN LAMMPSFields |-> P[x]]
  BY <1>2 DEF InRange, Over
<1>4. DOMAIN P = DOMAIN LAMMPSFields /\ Over(P, LAMMPSFields) = P
  <2>1. DOMAIN P = DOMAIN LAMMPSFields
    BY <1>3
  <2>. QED
    BY <1>3, <2>1, OverWhole
<1>5. InRange(P, LAMMPSFields)
  BY <1>2, <1>4 DEF InRange
<1>. QED
  BY <1>1, <1>4, <1>5 DEF LAMMPSInput

-----------------------------------------------------------------------------
(***************************************************************************)
(* Files.                                                                  *)
(***************************************************************************)

\* The files of every case; the dissipation field is the tenth.
Common == {"controlDict", "fvSchemes", "fvSolution", "transportProperties",
           "momentumTransport", "U", "p", "k", "nut"}

FileNames == Common \cup {"epsilon", "omega", "in.lammps"}

LEMMA CaseFilesFields ==
  ASSUME NEW p
  PROVE  /\ DOMAIN CaseFiles(p) = Common \cup {DissipationField(p)}
         /\ CaseFiles(p) = [f \in DOMAIN CaseFiles(p) |-> CaseFiles(p)[f]]
         /\ DissipationField(p) \in {"epsilon", "omega"}
         /\ DissipationField(CaseFiles(p)["momentumTransport"])
              = DissipationField(p)
<1>1. DissipationField(p) \in {"epsilon", "omega"}
  BY DEF DissipationField
<1>2. DOMAIN CaseFiles(p) = Common \cup {DissipationField(p)}
  BY DEF CaseFiles, Over, Common
<1>3. CaseFiles(p) = [f \in DOMAIN CaseFiles(p) |-> CaseFiles(p)[f]]
  BY DEF CaseFiles, Over
<1>4. CaseFiles(p)["momentumTransport"] = MomentumTransport(p)
  BY <1>1 DEF CaseFiles, Over
<1>5. DissipationField(MomentumTransport(p)) = DissipationField(p)
  BY DEF DissipationField, MomentumTransport
<1>. QED
  BY <1>1, <1>2, <1>3, <1>4, <1>5

\* The order of writing leaves no file out.
LEMMA OrderCovers ==
  ASSUME NEW p
  PROVE  /\ CaseOrder(p) \in Seq(DOMAIN CaseFiles(p))
         /\ \A n \in DOMAIN CaseFiles(p) :
              \E i \in 1..Len(CaseOrder(p)) : CaseOrder(p)[i] = n
<1>1. DOMAIN CaseFiles(p) = Common \cup {DissipationField(p)}
  BY CaseFilesFields
<1>. DEFINE d == DissipationField(p)
            o == CaseOrder(p)
<1>2. /\ Len(o) = 10
      /\ o[1] = "controlDict" /\ o[2] = "fvSchemes" /\ o[3] = "fvSolution"
      /\ o[4] = "transportProperties" /\ o[5] = "momentumTransport"
      /\ o[6] = "U" /\ o[7] = "p" /\ o[8] = "k" /\ o[9] = d /\ o[10] = "nut"
  BY DEF CaseOrder
<1>3. o \in Seq(Common \cup {d})
  BY DEF CaseOrder, Common
<1>. HIDE DEF d, o
<1>4. \A n \in Common \cup {d} : \E i \in 1..Len(o) : o[i] = n
  BY <1>2 DEF Common
<1>. QED
  BY <1>1, <1>3, <1>4 DEF d, o

\* What a case's files are for the solver does not depend on what else is in
\* its directory.
LEMMA ReadsOwn ==
  ASSUME NEW p, NEW file, DOMAIN file \subseteq FileNames,
         \A n \in DOMAIN CaseFiles(p) :
           n \in DOMAIN file /\ file[n] = CaseFiles(p)[n]
  PROVE  CaseReads(file) = CaseFiles(p)
<1>. DEFINE d == DissipationField(p)
<1>1. /\ DOMAIN CaseFiles(p) = Common \cup {d}
      /\ CaseFiles(p) = [f \in DOMAIN CaseFiles(p) |-> CaseFiles(p)[f]]
      /\ d \in {"epsilon", "omega"}
      /\ DissipationField(CaseFiles(p)["momentumTransport"]) = d
  BY CaseFilesFields
<1>2. file["momentumTransport"] = CaseFiles(p)["momentumTransport"]
  BY <1>1 DEF Common
<1>3. DOMAIN file \ ({"epsilon", "omega", "in.lammps"} \ {d})
        = Common \cup {d}
  BY <1>1 DEF FileNames, Common
<1>4. CaseReads(file) = [f \in Common \cup {d} |-> file[f]]
  BY <1>1, <1>2, <1>3 DEF CaseReads
<1>. HIDE DEF d
<1>. QED
  BY <1>1, <1>4

LEMMA WrittenFields ==
  ASSUME NEW n, NEW content, NEW files
  PROVE  /\ DOMAIN Written(n, content, files) = DOMAIN files \cup {n}
         /\ Written(n, content, files)[n] = content
         /\ \A x \in DOMAIN files \ {n} :
              Written(n, content, files)[x] = files[x]
BY DEF Written, Over

\* The names still to be written.
Ahead(left, n) == \E i \in 1..Len(left) : left[i] = n

LEMMA AheadTail ==
  ASSUME NEW S, NEW s \in Seq(S), s # <<>>
  PROVE  /\ Head(s) \in S /\ Tail(s) \in Seq(S)
         /\ \A n : Ahead(s, n) => n = Head(s) \/ Ahead(Tail(s), n)
<1>1. Head(s) \in S /\ Tail(s) \in Seq(S)
  OBVIOUS
<1>2. ASSUME NEW n, NEW i \in 1..Len(s), s[i] = n, n # Head(s)
      PROVE  Ahead(Tail(s), n)
  <2>1. i # 1
    BY <1>2
  <2>2. i - 1 \in 1..Len(Tail(s)) /\ Tail(s)[i - 1] = n
    BY <1>2, <2>1
  <2>. QED
    BY <2>2 DEF Ahead
<1>. QED
  BY <1>1, <1>2 DEF Ahead

\* The latest time directory is there, and is the latest.
LEMMA LatestIsThere ==
  ASSUME NEW T \in SUBSET Nat, T # {},
         NEW b \in Nat, \A t \in T : t <= b
  PROVE  /\ LatestTimeDir(T) \in T
         /\ \A u \in T : u <= LatestTimeDir(T)
<1>. DEFINE R == {x \in Nat \X Nat : x[1] < x[2]}
            S == {b - t : t \in T}
<1>1. IsWellFoundedOn(R, Nat)
  BY NatLessThanWellFounded DEF OpToRel
<1>2. S \subseteq Nat /\ S # {}
  <2>1. ASSUME NEW t \in T PROVE b - t \in Nat
    OBVIOUS
  <2>2. PICK t \in T : TRUE
    OBVIOUS
  <2>3. b - t \in S
    OBVIOUS
  <2>. QED
    BY <2>1, <2>3
<1>3. PICK x \in S : \A y \in S : ~(<<y, x>> \in R)
  BY <1>1, <1>2, WFMin
<1>4. PICK t \in T : x = b - t
  OBVIOUS
<1>5. \A u \in T : u <= t
  <2>. SUFFICES ASSUME NEW u \in T PROVE u <= t
    OBVIOUS
  <2>1. b - u \in S /\ b - u \in Nat /\ b - t \in Nat
    BY <1>2
  <2>2. ~(b - u < b - t)
    BY <1>3, <1>4, <2>1
  <2>. QED
    BY <2>1, <2>2
<1>. QED
  BY <1>5 DEF LatestTimeDir

-----------------------------------------------------------------------------
(***************************************************************************)
(* The invariant.                                                          *)
(***************************************************************************)

Steps == {"idle", "validate", "build", "write", "run", "parse"}

\* From the validation to the result.
Busy == {"build", "write", "run", "parse"}

Where == {"validation", "build", "solver", "parse"}

Inputs == {None} \cup {CaseFiles(p) : p \in CFDPayloads}
                 \cup {Script(p) : p \in MDPayloads}

Tasks == [job : Jobs \cup {None}, step : Steps, valid : Payloads \cup {None},
          left : Seq(FileNames), input : Inputs, due : SUBSET Nat]

Lines == [kind : {"echo", "header", "row", "warning"}, step : Nat \cup {None}]

\* A job's payload is what its solver's model has made of its request.
Made(j) ==
  \/ raw[j] \in Accepted("openfoam") /\ payload[j] = OpenFOAMInput(raw[j].fields)
  \/ raw[j] \in Accepted("lammps") /\ payload[j] = LAMMPSInput(raw[j].fields)

JobsSound ==
  /\ stage \in [Jobs -> Stages]
  /\ raw \in [Jobs -> Requests \cup {None}]
  /\ payload \in [Jobs -> Payloads \cup {None}]
  /\ error \in [Jobs -> Where \cup {None}]
  /\ result \in [Jobs -> Summaries \cup {None}]
  /\ \A j \in Jobs :
       /\ raw[j] = None <=> stage[j] = "new"
       /\ payload[j] = None <=> stage[j] \in {"new", "refused"}
       /\ error[j] # None <=> stage[j] = "failed"
       /\ result[j] # None <=> stage[j] = "completed"
       /\ payload[j] # None => Made(j)

TaskSound ==
  /\ task \in Tasks
  /\ task.step = "idle" => task = Idle
  /\ task.step # "idle" => task.job \in Jobs
  /\ \A j \in Jobs : stage[j] = "running" <=> task.job = j
  /\ task.step = "validate" => task.valid = None /\ task.left = <<>>
  /\ task.step \in Busy =>
       /\ task.valid = payload[task.job]
       /\ IsOpenFOAM(task.job) => OpenFOAMInput(task.valid) # Invalid
       /\ task.step = "build" \/ ~IsOpenFOAM(task.job) => task.left = <<>>

\* What is in a directory: files of cases, meshes that were placed there, time
\* directories (finitely many) and a log.
DirSound(d, b) ==
  /\ d = [file |-> d.file, mesh |-> d.mesh, time |-> d.time, log |-> d.log]
  /\ DOMAIN d.file \subseteq FileNames
  /\ \A m \in d.mesh :
       \E q \in b : "polymesh_ref" \in DOMAIN q /\ m.of = q.polymesh_ref
  /\ DOMAIN d.time \subseteq Nat
  /\ \E u \in Nat : \A t \in DOMAIN d.time : t <= u
  /\ \A t \in DOMAIN d.time : d.time[t] \in Contents
  /\ d.log \in Seq(Lines)
  /\ \A i \in 1..Len(d.log) : d.log[i].kind = "row" => d.log[i].step \in Nat

DirsSound ==
  /\ dir = [c \in Cases |-> dir[c]]
  /\ built \in [Cases -> SUBSET Payloads]
  /\ \A c \in Cases : DirSound(dir[c], built[c])

\* Each file of the case is either still to be written or that of this job.
FilesSound ==
  task.step = "write" =>
    IF IsOpenFOAM(task.job)
    THEN /\ task.left \in Seq(DOMAIN CaseFiles(task.valid))
         /\ \A n \in DOMAIN CaseFiles(task.valid) :
              \/ Ahead(task.left, n)
              \/ /\ n \in DOMAIN dir[Here].file
                 /\ dir[Here].file[n] = CaseFiles(task.valid)[n]
    ELSE dir[Here].file["in.lammps"] = Script(task.valid)

\* The solver has started from this job's files.
InputSound ==
  task.step \in {"run", "parse"} =>
    task.input = IF IsOpenFOAM(task.job) THEN CaseFiles(task.valid)
                                         ELSE Script(task.valid)

\* The directory 0 is there before the mesh is.
TimeSound ==
  task.step \in {"write", "run", "parse"} /\ IsOpenFOAM(task.job) =>
    0 \in DOMAIN dir[Here].time

WorkSound == FilesSound /\ InputSound /\ TimeSound

IInv == /\ JobsSound /\ TaskSound /\ DirsSound /\ WorkSound
        /\ crashes \in 0..MaxCrashes

LEMMA IdleType ==
  /\ Idle \in Tasks /\ Idle.step = "idle" /\ Idle.job = None
  /\ Idle.valid = None /\ Idle.left = <<>>
<1>1. <<>> \in Seq(FileNames) /\ {} \in SUBSET Nat
  OBVIOUS
<1>2. None \in Jobs \cup {None} /\ "idle" \in Steps /\ None \in Inputs
  BY DEF Steps, Inputs
<1>. DEFINE left == <<>>
            due == {}
<1>. HIDE DEF left, due
<1>3. [job |-> None, step |-> "idle", valid |-> None, left |-> left,
       input |-> None, due |-> due] \in Tasks
  BY <1>1, <1>2 DEF Tasks, left, due
<1>. QED
  BY <1>3 DEF Idle, left, due

LEMMA IInvInit == Init => IInv
<1>. SUFFICES ASSUME Init PROVE IInv
  OBVIOUS
<1>1. JobsSound
  BY RequestsAssumption DEF Init, JobsSound, Stages
<1>2. Idle \in Tasks /\ Idle.step = "idle" /\ Idle.job = None
  BY IdleType
<1>3. TaskSound
  BY <1>2, RequestsAssumption DEF Init, TaskSound, Busy
<1>4. DirsSound
  <2>1. Empty = [file |-> <<>>, mesh |-> {}, time |-> <<>>, log |-> <<>>]
    BY DEF Empty
  <2>2. /\ DOMAIN Empty.file = {} /\ DOMAIN Empty.time = {}
        /\ Empty.mesh = {} /\ Empty.log = <<>> /\ Len(Empty.log) = 0
        /\ Empty.log \in Seq(Lines)
    BY <2>1
  <2>3. ASSUME NEW c \in Cases PROVE DirSound(dir[c], built[c])
    <3>1. dir[c] = Empty
      BY DEF Init
    <3>2. \E u \in Nat : \A t \in DOMAIN dir[c].time : t <= u
      BY <2>2, <3>1
    <3>. QED
      BY <2>1, <2>2, <3>1, <3>2 DEF DirSound
  <2>. QED
    BY <2>3 DEF Init, DirsSound
<1>5. WorkSound /\ crashes \in 0..MaxCrashes
  BY <1>2, WorkspaceAssumption
     DEF Init, WorkSound, FilesSound, InputSound, TimeSound
<1>. QED
  BY <1>1, <1>3, <1>4, <1>5 DEF IInv

-----------------------------------------------------------------------------
(***************************************************************************)
(* Steps.                                                                  *)
(***************************************************************************)

\* What the worker's job is, and where.
LEMMA AtWork ==
  ASSUME IInv, task.step # "idle"
  PROVE  /\ task.job \in Jobs /\ stage[task.job] = "running"
         /\ payload[task.job] # None /\ Made(task.job)
         /\ IsOpenFOAM(task.job) =>
              /\ payload[task.job] \in CFDPayloads
              /\ payload[task.job] = OpenFOAMInput(raw[task.job].fields)
         /\ ~IsOpenFOAM(task.job) =>
              /\ raw[task.job].solver = "lammps"
              /\ payload[task.job] \in MDPayloads
              /\ payload[task.job] = LAMMPSInput(raw[task.job].fields)
<1>1. task.job \in Jobs /\ stage[task.job] = "running"
  BY DEF IInv, TaskSound
<1>2. payload[task.job] # None /\ Made(task.job)
  BY <1>1 DEF IInv, JobsSound
<1>. QED
  BY <1>1, <1>2 DEF Made, IsOpenFOAM, Accepted, CFDPayloads, MDPayloads

LEMMA AtHere ==
  ASSUME IInv, task.step \in Busy
  PROVE  /\ task.valid = payload[task.job]
         /\ Here \in Cases /\ DirSound(dir[Here], built[Here])
         /\ task.valid \in Payloads
         /\ IsOpenFOAM(task.job) => task.valid \in CFDPayloads
                                    /\ OpenFOAMInput(task.valid) # Invalid
         /\ ~IsOpenFOAM(task.job) => task.valid \in MDPayloads
<1>1. task.step # "idle" /\ task.valid = payload[task.job]
  BY DEF IInv, TaskSound, Busy
<1>2. /\ IsOpenFOAM(task.job) => task.valid \in CFDPayloads
      /\ ~IsOpenFOAM(task.job) => task.valid \in MDPayloads
  BY <1>1, AtWork
<1>3. Here \in Cases
  BY <1>2, RequestsAssumption DEF Here
<1>. QED
  BY <1>1, <1>2, <1>3 DEF IInv, DirsSound, TaskSound, Payloads

LEMMA JobsFrame ==
  ASSUME JobsSound, UNCHANGED jobVars
  PROVE  JobsSound'
BY DEF JobsSound, jobVars, Made

LEMMA DirsFrame ==
  ASSUME DirsSound, UNCHANGED dirVars
  PROVE  DirsSound'
BY DEF DirsSound, DirSound, dirVars

\* The worker is rid of its job.
LEMMA DroppedSound ==
  ASSUME IInv, task.step # "idle",
         NEW where \in Stages \ {"running"},
         stage' = [stage EXCEPT ![task.job] = where],
         task' = Idle
  PROVE  TaskSound' /\ WorkSound'
<1>1. Idle \in Tasks /\ Idle.step = "idle" /\ Idle.job = None
  BY IdleType
<1>2. WorkSound'
  BY <1>1 DEF WorkSound, FilesSound, InputSound, TimeSound
<1>3. TaskSound'
  BY <1>1, AtWork, RequestsAssumption
     DEF IInv, JobsSound, TaskSound, Busy
<1>. QED
  BY <1>2, <1>3

LEMMA FailSound ==
  ASSUME IInv, task.step # "idle", NEW where \in Where, Fail(where)
  PROVE  JobsSound' /\ TaskSound' /\ WorkSound'
<1>1. TaskSound' /\ WorkSound'
  BY DroppedSound DEF Fail, Stages
<1>2. JobsSound'
  BY AtWork, RequestsAssumption
     DEF Fail, IInv, JobsSound, Made, Where, Stages
<1>. QED
  BY <1>1, <1>2

LEMMA CompleteSound ==
  ASSUME IInv, task.step # "idle", NEW summary \in Summaries,
         Complete(summary)
  PROVE  JobsSound' /\ TaskSound' /\ WorkSound'
<1>1. TaskSound' /\ WorkSound'
  BY DroppedSound DEF Complete, Stages
<1>2. JobsSound'
  BY AtWork, RequestsAssumption
     DEF Complete, IInv, JobsSound, Made, Stages
<1>. QED
  BY <1>1, <1>2

\* The worker goes on with its job.
LEMMA WorkingSound ==
  ASSUME IInv, task.step \in Busy, UNCHANGED jobVars,
         task' \in Tasks, task'.step \in Busy \ {"build"},
         task'.job = task.job, task'.valid = task.valid,
         ~IsOpenFOAM(task.job) => task'.left = <<>>
  PROVE  JobsSound' /\ TaskSound'
<1>1. JobsSound'
  BY JobsFrame DEF IInv
<1>2. TaskSound'
  BY DEF IInv, TaskSound, jobVars, IsOpenFOAM, Busy
<1>. QED
  BY <1>1, <1>2

-----------------------------------------------------------------------------
(***************************************************************************)
(* The rows of a log.                                                      *)
(***************************************************************************)

LEMMA LeastIsThere ==
  ASSUME NEW S \in SUBSET Nat, S # {}
  PROVE  Min(S) \in S /\ \A y \in S : Min(S) <= y
<1>. DEFINE R == {x \in Nat \X Nat : x[1] < x[2]}
<1>1. IsWellFoundedOn(R, Nat)
  BY NatLessThanWellFounded DEF OpToRel
<1>2. PICK x \in S : \A y \in S : ~(<<y, x>> \in R)
  BY <1>1, WFMin
<1>3. ASSUME NEW y \in S PROVE x <= y
  <2>1. x \in Nat /\ y \in Nat /\ ~(<<y, x>> \in R)
    BY <1>2
  <2>. QED
    BY <2>1
<1>. QED
  BY <1>3 DEF Min

\* The rows that the parser takes follow the header in the log, up to the
\* first line that is not one.
LEMMA RowsFollow ==
  ASSUME NEW log \in Seq(Lines)
  PROVE  LET h == SelectInSeq(log, IsHeader)
         IN /\ h \in 0..Len(log)
            /\ \E n \in Nat :
                 /\ ParseThermo(log) = [i \in 1..n |-> log[h + i]]
                 /\ h + n <= Len(log)
                 /\ \A i \in 1..n : log[h + i].kind = "row"
                 /\ h # 0 /\ h + n < Len(log) =>
                      log[h + n + 1].kind # "row"
<1>. DEFINE I == {i \in 1..Len(log) : IsHeader(log[i])}
            h == SelectInSeq(log, IsHeader)
            R == {i \in DOMAIN log : i > h
                    /\ \A m \in (h + 1)..i : log[m].kind = "row"}
            M == {i \in Nat : i > h /\ i \notin R}
            e == Min(M)
            Follows(n) ==
              /\ ParseThermo(log) = [i \in 1..n |-> log[h + i]]
              /\ h + n <= Len(log)
              /\ \A i \in 1..n : log[h + i].kind = "row"
              /\ h # 0 /\ h + n < Len(log) => log[h + n + 1].kind # "row"
<1>1. Len(log) \in Nat /\ DOMAIN log = 1..Len(log)
  OBVIOUS
<1>2. h \in 0..Len(log)
  <2>1. h = IF I # {} THEN Min(I) ELSE 0
    BY DEF SelectInSeq
  <2>2. I \in SUBSET Nat /\ I \subseteq 1..Len(log)
    BY <1>1
  <2>3. CASE I = {}
    BY <1>1, <2>1, <2>3
  <2>4. CASE I # {}
    <3>1. Min(I) \in I
      BY <2>2, <2>4, LeastIsThere
    <3>. QED
      BY <1>1, <2>1, <2>2, <2>4, <3>1
  <2>. QED
    BY <2>3, <2>4
<1>3. ASSUME h = 0 PROVE \E n \in Nat : Follows(n)
  <2>1. ParseThermo(log) = <<>>
    BY <1>3 DEF ParseThermo
  <2>2. ParseThermo(log) = [i \in 1..0 |-> log[h + i]]
    BY <2>1
  <2>3. h \in Nat /\ h + 0 <= Len(log)
    BY <1>1, <1>3
  <2>. HIDE DEF h
  <2>4. Follows(0)
    BY <1>1, <1>3, <2>2, <2>3
  <2>. QED
    BY <2>4
<1>4. ASSUME h # 0 PROVE \E n \in Nat : Follows(n)
  <2>1. ParseThermo(log) = [i \in 1..Cardinality(R) |-> log[h + i]]
    BY <1>4 DEF ParseThermo
  <2>. HIDE DEF h
  <2>2. e \in M /\ \A i \in M : e <= i
    <3>1. Len(log) + 1 \in M
      BY <1>1, <1>2
    <3>2. M \in SUBSET Nat
      OBVIOUS
    <3>. HIDE DEF M
    <3>. QED
      BY <3>1, <3>2, LeastIsThere
  <2>. HIDE DEF e
  <2>3. R = (h + 1)..(e - 1)
    <3>1. ASSUME NEW i \in R PROVE i \in (h + 1)..(e - 1)
      <4>1. i \in Nat /\ i > h /\ i <= Len(log)
        BY <1>1
      <4>2. SUFFICES ASSUME e <= i PROVE FALSE
        BY <1>2, <2>2, <4>1
      <4>3. e \in DOMAIN log /\ e > h
        BY <1>1, <1>2, <2>2, <4>1, <4>2
      <4>4. \A m \in (h + 1)..e : log[m].kind = "row"
        BY <1>2, <2>2, <4>1, <4>2
      <4>. QED
        BY <2>2, <4>3, <4>4
    <3>2. ASSUME NEW i \in (h + 1)..(e - 1) PROVE i \in R
      <4>1. i \in Nat /\ i > h /\ ~(e <= i)
        BY <1>2, <2>2
      <4>. QED
        BY <2>2, <4>1
    <3>. QED
      BY <3>1, <3>2
  <2>4. e - 1 - h \in Nat /\ h \in Nat /\ e \in Nat
    BY <1>2, <2>2
  <2>5. Cardinality(R) = e - 1 - h
    <3>1. Cardinality((h + 1)..(e - 1)) =
            IF h + 1 > e - 1 THEN 0 ELSE (e - 1) - (h + 1) + 1
      BY <2>4, FS_Interval
    <3>2. h + 1 > e - 1 => e - 1 - h = 0
      BY <2>4
    <3>3. (e - 1) - (h + 1) + 1 = e - 1 - h
      BY <2>4
    <3>4. Cardinality((h + 1)..(e - 1)) = e - 1 - h
      BY <3>1, <3>2, <3>3
    <3>. QED
      BY <2>3, <3>4
  <2>6. h + (e - 1 - h) <= Len(log)
    <3>1. Len(log) + 1 \in M
      BY <1>1, <1>2
    <3>. QED
      BY <1>1, <2>2, <2>4, <3>1
  <2>7. \A i \in 1..(e - 1 - h) : log[h + i].kind = "row"
    <3>. SUFFICES ASSUME NEW i \in 1..(e - 1 - h)
                  PROVE  log[h + i].kind = "row"
      OBVIOUS
    <3>1. h + i \in R /\ h + i \in (h + 1)..(h + i)
      BY <2>3, <2>4
    <3>. QED
      BY <3>1
  <2>8. h + (e - 1 - h) < Len(log) => log[h + (e - 1 - h) + 1].kind # "row"
    <3>. SUFFICES ASSUME e - 1 < Len(log), log[e].kind = "row" PROVE FALSE
      BY <2>4
    <3>1. e \in DOMAIN log /\ e > h
      BY <1>1, <1>2, <2>2, <2>4
    <3>2. \A m \in (h + 1)..e : m = e \/ m \in (h + 1)..(e - 1)
      BY <2>4
    <3>3. \A m \in (h + 1)..e : log[m].kind = "row"
      <4>1. ASSUME NEW m \in (h + 1)..(e - 1) PROVE log[m].kind = "row"
        <5>1. m \in R /\ m \in (h + 1)..m
          BY <2>3, <2>4
        <5>. QED
          BY <5>1
      <4>. QED
        BY <3>2, <4>1
    <3>. QED
      BY <2>2, <3>1, <3>3
  <2>. DEFINE n == e - 1 - h
  <2>9. n \in Nat /\ Follows(n)
    BY <2>1, <2>4, <2>5, <2>6, <2>7, <2>8
  <2>. HIDE DEF n, Follows
  <2>. QED
    BY <2>9
<1>. QED
  BY <1>2, <1>3, <1>4

-----------------------------------------------------------------------------
(***************************************************************************)
(* Directories.                                                            *)
(***************************************************************************)

\* A directory, one field at a time.
LEMMA DirFields ==
  ASSUME NEW d, NEW b, DirSound(d, b), NEW x
  PROVE  /\ [d EXCEPT !.file = x] =
              [file |-> x, mesh |-> d.mesh, time |-> d.time, log |-> d.log]
         /\ [d EXCEPT !.mesh = x] =
              [file |-> d.file, mesh |-> x, time |-> d.time, log |-> d.log]
         /\ [d EXCEPT !.time = x] =
              [file |-> d.file, mesh |-> d.mesh, time |-> x, log |-> d.log]
         /\ [d EXCEPT !.log = x] =
              [file |-> d.file, mesh |-> d.mesh, time |-> d.time, log |-> x]
         /\ DOMAIN d.file \subseteq FileNames
         /\ DOMAIN d.time \subseteq Nat
         /\ \A t \in DOMAIN d.time : d.time[t] \in Contents
         /\ \E u \in Nat : \A t \in DOMAIN d.time : t <= u
         /\ d.log \in Seq(Lines)
<1>1. d = [file |-> d.file, mesh |-> d.mesh, time |-> d.time, log |-> d.log]
  BY DEF DirSound
<1>2. PICK f, m, t, l : d = [file |-> f, mesh |-> m, time |-> t, log |-> l]
  BY <1>1
<1>3. d.file = f /\ d.mesh = m /\ d.time = t /\ d.log = l
  BY <1>2
<1>4. /\ [d EXCEPT !.file = x] =
           [file |-> x, mesh |-> m, time |-> t, log |-> l]
      /\ [d EXCEPT !.mesh = x] =
           [file |-> f, mesh |-> x, time |-> t, log |-> l]
      /\ [d EXCEPT !.time = x] =
           [file |-> f, mesh |-> m, time |-> x, log |-> l]
      /\ [d EXCEPT !.log = x] =
           [file |-> f, mesh |-> m, time |-> t, log |-> x]
  BY <1>2
<1>. QED
  BY <1>3, <1>4 DEF DirSound

LEMMA FileKept ==
  ASSUME NEW d, NEW b, DirSound(d, b), NEW n \in FileNames, NEW x
  PROVE  DirSound([d EXCEPT !.file = Written(n, x, d.file)], b)
<1>. DEFINE f == Written(n, x, d.file)
<1>1. DOMAIN f \subseteq FileNames
  <2>1. DOMAIN d.file \subseteq FileNames
    BY DirFields
  <2>2. DOMAIN f = DOMAIN d.file \cup {n}
    BY WrittenFields
  <2>. QED
    BY <2>1, <2>2
<1>. HIDE DEF f
<1>2. PICK e : e = [d EXCEPT !.file = f]
  OBVIOUS
<1>3. e = [file |-> f, mesh |-> d.mesh, time |-> d.time, log |-> d.log]
  BY <1>2, DirFields
<1>4. e.file = f /\ e.mesh = d.mesh /\ e.time = d.time /\ e.log = d.log
  BY <1>3
<1>5. DirSound(e, b)
  BY <1>1, <1>3, <1>4 DEF DirSound
<1>. QED
  BY <1>2, <1>5 DEF f

LEMMA TimeKept ==
  ASSUME NEW d, NEW b, DirSound(d, b), NEW t \in Nat, NEW f,
         DOMAIN f = DOMAIN d.time \cup {t},
         \A u \in DOMAIN f : f[u] \in Contents
  PROVE  DirSound([d EXCEPT !.time = f], b)
<1>1. /\ DOMAIN f = DOMAIN d.time \cup {t}
      /\ \A u \in DOMAIN f : f[u] \in Contents
  OBVIOUS
<1>2. PICK u \in Nat : \A v \in DOMAIN d.time : v <= u
  BY DirFields
<1>. DEFINE w == IF t <= u THEN u ELSE t
<1>3. w \in Nat /\ t <= w /\ u <= w
  OBVIOUS
<1>4. DOMAIN f \subseteq Nat /\ DOMAIN d.time \subseteq Nat
  BY <1>1, DirFields
<1>5. \A v \in DOMAIN f : v <= w
  BY <1>1, <1>2, <1>3, <1>4
<1>. HIDE DEF w
<1>6. PICK e : e = [d EXCEPT !.time = f]
  OBVIOUS
<1>7. e = [file |-> d.file, mesh |-> d.mesh, time |-> f, log |-> d.log]
  BY <1>6, DirFields
<1>8. e.file = d.file /\ e.mesh = d.mesh /\ e.time = f /\ e.log = d.log
  BY <1>7
<1>9. DirSound(e, b)
  BY <1>1, <1>3, <1>4, <1>5, <1>7, <1>8 DEF DirSound
<1>. QED
  BY <1>6, <1>9

LEMMA TimeWritten ==
  ASSUME NEW d, NEW b, DirSound(d, b), NEW t \in Nat, NEW x \in Contents
  PROVE  DirSound([d EXCEPT !.time = Written(t, x, d.time)], b)
<1>. DEFINE f == Written(t, x, d.time)
<1>1. \A u \in DOMAIN d.time : d.time[u] \in Contents
  BY DirFields
<1>2. /\ DOMAIN f = DOMAIN d.time \cup {t} /\ f[t] = x
      /\ \A u \in DOMAIN d.time \ {t} : f[u] = d.time[u]
  BY DEF Written, Over
<1>. HIDE DEF f
<1>3. \A u \in DOMAIN f : f[u] \in Contents
  BY <1>1, <1>2
<1>4. DirSound([d EXCEPT !.time = f], b)
  BY <1>2, <1>3, TimeKept
<1>. QED
  BY <1>4 DEF f

LEMMA LogKept ==
  ASSUME NEW d, NEW b, DirSound(d, b), NEW log \in Seq(Lines),
         \A i \in 1..Len(log) : log[i].kind = "row" => log[i].step \in Nat
  PROVE  DirSound([d EXCEPT !.log = log], b)
<1>1. PICK e : e = [d EXCEPT !.log = log]
  OBVIOUS
<1>2. e = [file |-> d.file, mesh |-> d.mesh, time |-> d.time, log |-> log]
  BY <1>1, DirFields
<1>3. e.file = d.file /\ e.mesh = d.mesh /\ e.time = d.time /\ e.log = log
  BY <1>2
<1>4. DirSound(e, b)
  BY <1>2, <1>3 DEF DirSound
<1>. QED
  BY <1>1, <1>4

LEMMA LogLonger ==
  ASSUME NEW d, NEW b, DirSound(d, b), NEW l \in Lines,
         l.kind = "row" => l.step \in Nat
  PROVE  DirSound([d EXCEPT !.log = Append(d.log, l)], b)
<1>. DEFINE log == Append(d.log, l)
<1>1. d.log \in Seq(Lines)
  BY DEF DirSound
<1>2. log \in Seq(Lines)
  BY <1>1
<1>3. \A i \in 1..Len(log) : log[i].kind = "row" => log[i].step \in Nat
  BY <1>1 DEF DirSound
<1>. HIDE DEF log
<1>. QED
  BY <1>2, <1>3, LogKept DEF log

\* One directory changes, and more may have been built in it.
LEMMA HereKept ==
  ASSUME IInv, task.step \in Busy, NEW d,
         dir' = [dir EXCEPT ![Here] = d],
         built' \in [Cases -> SUBSET Payloads],
         \A c \in Cases : built[c] \subseteq built'[c],
         DirSound(d, built'[Here])
  PROVE  DirsSound' /\ dir'[Here] = d
<1>1. Here \in Cases /\ DirsSound
  BY AtHere DEF IInv
<1>. DEFINE h == Here
<1>. HIDE DEF h
<1>2. /\ h \in Cases /\ dir = [c \in Cases |-> dir[c]]
      /\ dir' = [dir EXCEPT ![h] = d] /\ DirSound(d, built'[h])
  BY <1>1 DEF DirsSound, h
<1>3. dir'[h] = d /\ dir' = [c \in Cases |-> dir'[c]]
  BY <1>2
<1>4. ASSUME NEW c \in Cases PROVE DirSound(dir'[c], built'[c])
  <2>1. CASE c = h
    BY <1>2, <1>3, <2>1
  <2>2. CASE c # h
    <3>1. dir'[c] = dir[c] /\ DirSound(dir[c], built[c])
      BY <1>1, <1>2, <2>2 DEF DirsSound
    <3>. QED
      BY <3>1 DEF DirSound
  <2>. QED
    BY <2>1, <2>2
<1>. QED
  BY <1>3, <1>4 DEF DirsSound, h

LEMMA DueNat ==
  ASSUME NEW p
  PROVE  /\ p \in CFDPayloads /\ OpenFOAMInput(p) # Invalid =>
              WrittenTimes(CaseFiles(p)) \subseteq Nat
         /\ p \in MDPayloads => ThermoSteps(Script(p)) \subseteq Nat
<1>1. ASSUME p \in CFDPayloads, OpenFOAMInput(p) # Invalid
      PROVE  WrittenTimes(CaseFiles(p)) \subseteq Nat
  <2>1. /\ CaseFiles(p)["controlDict"] = ControlDict(p)
        /\ CaseFiles(p)["U"] = FieldU(p)
    BY DEF CaseFiles, Over, DissipationField
  <2>2. /\ CaseFiles(p)["controlDict"].iterations = p.iterations
        /\ CaseFiles(p)["U"].inlet_velocity = p.inlet_velocity
    BY <2>1 DEF ControlDict, FieldU
  <2>3. p.iterations \in Nat /\ ConvergesAt[p.inlet_velocity] \in Nat
    BY <1>1, RequestsAssumption, WorkspaceAssumption
  <2>4. LastIteration(CaseFiles(p)) \in Nat
    BY <2>2, <2>3 DEF LastIteration
  <2>. QED
    BY <2>4 DEF WrittenTimes
<1>2. ASSUME p \in MDPayloads PROVE ThermoSteps(Script(p)) \subseteq Nat
  <2>1. Script(p).n_steps = p.n_steps
    BY DEF Script, LAMMPSFields, Over, LatticeSpec, PotentialSpec,
           EnsembleSpec
  <2>2. p.n_steps \in Nat
    BY <1>2, RequestsAssumption
  <2>. QED
    BY <2>1, <2>2 DEF ThermoSteps
<1>. QED
  BY <1>1, <1>2

-----------------------------------------------------------------------------
(***************************************************************************)
(* Every step keeps the invariant.                                         *)
(***************************************************************************)

\* A request comes in while the worker is at another job, or at none.
LEMMA BoundarySound ==
  ASSUME IInv, NEW j \in Jobs, NEW r \in Requests,
         Submit(j, r) \/ Refuse(j, r)
  PROVE  IInv'
<1>1. /\ stage[j] = "new" /\ UNCHANGED <<error, result, task, dirVars, crashes>>
      /\ raw' = [raw EXCEPT ![j] = r]
  BY DEF Submit, Refuse
<1>2. PICK s \in Stages \ {"new", "running"}, p \in Payloads \cup {None} :
        /\ stage' = [stage EXCEPT ![j] = s]
        /\ payload' = [payload EXCEPT ![j] = p]
        /\ p = None <=> s = "refused"
        /\ s \in {"queued", "refused"}
        /\ p # None =>
             \/ r \in Accepted("openfoam") /\ p = OpenFOAMInput(r.fields)
             \/ r \in Accepted("lammps") /\ p = LAMMPSInput(r.fields)
  <2>1. CASE Submit(j, r)
    <3>. DEFINE p == ModelValidate(r.solver, r.fields)
    <3>1. \/ r \in Accepted("openfoam") /\ p = OpenFOAMInput(r.fields)
          \/ r \in Accepted("lammps") /\ p = LAMMPSInput(r.fields)
      BY <2>1 DEF Submit, Accepted, ModelValidate
    <3>2. p \in Payloads /\ p # None
      BY <3>1, RequestsAssumption DEF Payloads, CFDPayloads, MDPayloads
    <3>3. /\ stage' = [stage EXCEPT ![j] = "queued"]
          /\ payload' = [payload EXCEPT ![j] = p]
      BY <2>1 DEF Submit
    <3>. HIDE DEF p
    <3>. QED
      BY <3>1, <3>2, <3>3 DEF Stages
  <2>2. CASE Refuse(j, r)
    <3>1. payload[j] = None /\ payload \in [Jobs -> Payloads \cup {None}]
      BY <1>1 DEF IInv, JobsSound
    <3>2. payload' = [payload EXCEPT ![j] = None]
      BY <2>2, <3>1 DEF Refuse
    <3>3. stage' = [stage EXCEPT ![j] = "refused"]
      BY <2>2 DEF Refuse
    <3>. QED
      BY <3>2, <3>3 DEF Stages
  <2>. QED
    BY <2>1, <2>2
<1>3. JobsSound'
  <2>1. /\ stage' \in [Jobs -> Stages]
        /\ raw' \in [Jobs -> Requests \cup {None}]
        /\ payload' \in [Jobs -> Payloads \cup {None}]
        /\ error' \in [Jobs -> Where \cup {None}]
        /\ result' \in [Jobs -> Summaries \cup {None}]
    BY <1>1, <1>2 DEF IInv, JobsSound
  <2>2. ASSUME NEW i \in Jobs
        PROVE  /\ raw'[i] = None <=> stage'[i] = "new"
               /\ payload'[i] = None <=> stage'[i] \in {"new", "refused"}
               /\ error'[i] # None <=> stage'[i] = "failed"
               /\ result'[i] # None <=> stage'[i] = "completed"
               /\ payload'[i] # None => Made(i)'
    <3>1. CASE i = j
      BY <1>1, <1>2, <3>1, RequestsAssumption DEF IInv, JobsSound, Made
    <3>2. CASE i # j
      BY <1>1, <1>2, <3>2 DEF IInv, JobsSound, Made
    <3>. QED
      BY <3>1, <3>2
  <2>. QED
    BY <2>1, <2>2 DEF JobsSound
<1>4. task.step # "idle" =>
        /\ task.job \in Jobs /\ task.job # j
        /\ raw'[task.job] = raw[task.job]
        /\ payload'[task.job] = payload[task.job]
  BY <1>1, <1>2, AtWork DEF IInv, JobsSound
<1>5. TaskSound'
  <2>1. ASSUME NEW i \in Jobs PROVE stage'[i] = "running" <=> task'.job = i
    BY <1>1, <1>2 DEF IInv, JobsSound, TaskSound
  <2>. QED
    BY <1>1, <1>4, <2>1 DEF IInv, TaskSound, IsOpenFOAM, Busy
<1>6. WorkSound'
  BY <1>1, <1>4
     DEF IInv, WorkSound, FilesSound, InputSound, TimeSound, IsOpenFOAM, Here,
         dirVars
<1>. QED
  BY <1>1, <1>3, <1>5, <1>6, DirsFrame DEF IInv

LEMMA TakeSound ==
  ASSUME IInv, NEW j \in Jobs, Take(j)
  PROVE  IInv'
<1>1. /\ task = Idle /\ stage[j] = "queued"
      /\ stage' = [stage EXCEPT ![j] = "running"]
      /\ task' = [Idle EXCEPT !.job = j, !.step = "validate"]
      /\ UNCHANGED <<raw, payload, error, result, dirVars, crashes>>
  BY DEF Take
<1>2. /\ task' \in Tasks /\ task'.job = j /\ task'.step = "validate"
      /\ task'.valid = None /\ task'.left = <<>>
  BY <1>1, IdleType DEF Tasks, Steps
<1>3. JobsSound'
  BY <1>1 DEF IInv, JobsSound, Made, Stages
<1>4. TaskSound'
  BY <1>1, <1>2, IdleType, RequestsAssumption
     DEF IInv, JobsSound, TaskSound, Busy
<1>5. WorkSound'
  BY <1>2 DEF WorkSound, FilesSound, InputSound, TimeSound
<1>. QED
  BY <1>1, <1>3, <1>4, <1>5, DirsFrame DEF IInv

\* The worker's validation gives the payload back, or ends the job.
LEMMA ValidateSound ==
  ASSUME IInv, Validate
  PROVE  IInv'
<1>. DEFINE valid == ModelValidate(raw[task.job].solver, payload[task.job])
<1>1. /\ task.step = "validate" /\ UNCHANGED <<dirVars, crashes>>
      /\ IF valid = Invalid THEN Fail("validation")
         ELSE /\ task' = [task EXCEPT !.valid = valid, !.step = "build"]
              /\ UNCHANGED jobVars
  BY DEF Validate, At
<1>2. CASE valid = Invalid
  <2>1. JobsSound' /\ TaskSound' /\ WorkSound'
    BY <1>1, <1>2, FailSound DEF Where
  <2>. QED
    BY <1>1, <2>1, DirsFrame DEF IInv
<1>3. CASE valid # Invalid
  <2>1. /\ valid = payload[task.job]
        /\ IsOpenFOAM(task.job) => OpenFOAMInput(valid) # Invalid
    <3>1. CASE IsOpenFOAM(task.job)
      BY <1>1, <1>3, <3>1, AtWork, Revalidation DEF ModelValidate, IsOpenFOAM
    <3>2. CASE ~IsOpenFOAM(task.job)
      BY <1>1, <1>3, <3>2, AtWork, RevalidationMD
         DEF ModelValidate, IsOpenFOAM
    <3>. QED
      BY <3>1, <3>2
  <2>2. valid \in Payloads
    BY <1>1, <2>1, AtWork DEF IInv, JobsSound
  <2>. HIDE DEF valid
  <2>3. /\ task' \in Tasks /\ task'.job = task.job /\ task'.step = "build"
        /\ task'.valid = valid /\ task'.left = <<>> /\ task.job \in Jobs
    BY <1>1, <1>3, <2>2 DEF IInv, TaskSound, Tasks, Steps
  <2>4. JobsSound'
    BY <1>1, <1>3, JobsFrame DEF IInv
  <2>5. TaskSound'
    BY <1>1, <1>3, <2>1, <2>3
       DEF IInv, TaskSound, jobVars, IsOpenFOAM, Busy
  <2>6. WorkSound'
    BY <2>3 DEF WorkSound, FilesSound, InputSound, TimeSound
  <2>. QED
    BY <1>1, <2>4, <2>5, <2>6, DirsFrame DEF IInv
<1>. QED
  BY <1>2, <1>3

\* A directory is made and, if its mesh is there, the mesh is put into it.
LEMMA MeshKept ==
  ASSUME NEW d, NEW b, DirSound(d, b), NEW q, NEW names, NEW keep,
         keep \subseteq d.mesh, "polymesh_ref" \in DOMAIN q
  PROVE  DirSound([d EXCEPT !.mesh = keep \cup
                     [name : names, of : {q.polymesh_ref}]], b \cup {q})
<1>. DEFINE placed == [name : names, of : {q.polymesh_ref}]
<1>1. \A m \in placed : m.of = q.polymesh_ref
  OBVIOUS
<1>. HIDE DEF placed
<1>. DEFINE mesh == keep \cup placed
<1>2. \A m \in mesh : \E p \in b \cup {q} :
        "polymesh_ref" \in DOMAIN p /\ m.of = p.polymesh_ref
  <2>1. \A m \in d.mesh : \E p \in b :
          "polymesh_ref" \in DOMAIN p /\ m.of = p.polymesh_ref
    BY DEF DirSound
  <2>. QED
    BY <1>1, <2>1
<1>. HIDE DEF mesh
<1>3. PICK e : e = [d EXCEPT !.mesh = mesh]
  OBVIOUS
<1>4. e = [file |-> d.file, mesh |-> mesh, time |-> d.time, log |-> d.log]
  BY <1>3, DirFields
<1>5. e.file = d.file /\ e.mesh = mesh /\ e.time = d.time /\ e.log = d.log
  BY <1>4
<1>6. DirSound(e, b \cup {q})
  BY <1>2, <1>4, <1>5 DEF DirSound
<1>. QED
  BY <1>3, <1>6 DEF mesh, placed

LEMMA MoreBuilt ==
  ASSUME NEW d, NEW b, DirSound(d, b), NEW q
  PROVE  DirSound(d, b \cup {q})
BY DEF DirSound

LEMMA PlaceMeshSound ==
  ASSUME IInv, PlaceMesh
  PROVE  IInv'
<1>. DEFINE ref == task.valid.polymesh_ref
            h == Here
            zero == Over(dir[h].time, [t \in {0} |-> Start])
            made == [dir[h] EXCEPT !.time = zero]
            keep == {m \in made.mesh : m.name \notin MeshFiles[ref]}
            placed == [made EXCEPT !.mesh =
                         keep \cup [name : MeshFiles[ref], of : {ref}]]
<1>1. /\ task.step = "build" /\ IsOpenFOAM(task.job)
      /\ built' = [built EXCEPT ![h] = @ \cup {task.valid}]
      /\ UNCHANGED crashes
      /\ \/ dir' = [dir EXCEPT ![h] = made] /\ Fail("build")
         \/ /\ dir' = [dir EXCEPT ![h] = placed]
            /\ task' = [task EXCEPT !.step = "write",
                                    !.left = CaseOrder(task.valid)]
            /\ UNCHANGED jobVars
  BY DEF PlaceMesh, At
<1>2. /\ h \in Cases /\ DirSound(dir[h], built[h]) /\ task.step \in Busy
      /\ task.valid \in CFDPayloads /\ task.valid \in Payloads
      /\ task.step # "idle"
  BY <1>1, AtHere DEF Busy
<1>3. "polymesh_ref" \in DOMAIN task.valid
  BY <1>2, Revalidation, OpenFOAMDefaults
<1>4. /\ built' \in [Cases -> SUBSET Payloads]
      /\ \A c \in Cases : built[c] \subseteq built'[c]
      /\ built'[h] = built[h] \cup {task.valid}
  <2>. HIDE DEF h
  <2>. QED
    BY <1>1, <1>2 DEF IInv, DirsSound
<1>5. DirSound(made, built[h]) /\ 0 \in DOMAIN zero
  <2>1. /\ \A u \in DOMAIN dir[h].time : dir[h].time[u] \in Contents
        /\ Start \in Contents
    BY <1>2, DirFields DEF Contents
  <2>2. /\ DOMAIN zero = DOMAIN dir[h].time \cup {0}
        /\ \A u \in DOMAIN dir[h].time : zero[u] = dir[h].time[u]
        /\ 0 \notin DOMAIN dir[h].time => zero[0] = Start
    BY DEF Over
  <2>. HIDE DEF zero, h
  <2>3. \A u \in DOMAIN zero : zero[u] \in Contents
    BY <2>1, <2>2
  <2>4. DirSound(made, built[h])
    BY <1>2, <2>2, <2>3, TimeKept
  <2>. QED
    BY <2>2, <2>4
<1>6. made.time = zero
  <2>. HIDE DEF zero, h
  <2>1. made = [file |-> dir[h].file, mesh |-> dir[h].mesh, time |-> zero,
                log |-> dir[h].log]
    BY <1>2, DirFields
  <2>. QED
    BY <2>1
<1>7. CASE dir' = [dir EXCEPT ![h] = made] /\ Fail("build")
  <2>1. DirSound(made, built'[h])
    <3>. HIDE DEF made, h
    <3>1. DirSound(made, built[h] \cup {task.valid})
      BY <1>5, MoreBuilt
    <3>. QED
      BY <1>4, <3>1
  <2>2. DirsSound'
    <3>. HIDE DEF made
    <3>. QED
      BY <1>2, <1>4, <1>7, <2>1, HereKept
  <2>3. JobsSound' /\ TaskSound' /\ WorkSound'
    BY <1>2, <1>7, FailSound DEF Where
  <2>. QED
    BY <1>1, <2>2, <2>3 DEF IInv
<1>8. CASE /\ dir' = [dir EXCEPT ![h] = placed]
           /\ task' = [task EXCEPT !.step = "write",
                                   !.left = CaseOrder(task.valid)]
           /\ UNCHANGED jobVars
  <2>. DEFINE order == CaseOrder(task.valid)
  <2>1. /\ order \in Seq(DOMAIN CaseFiles(task.valid))
        /\ \A n \in DOMAIN CaseFiles(task.valid) : Ahead(order, n)
        /\ DOMAIN CaseFiles(task.valid) \subseteq FileNames
    <3>1. DOMAIN CaseFiles(task.valid) \subseteq FileNames
      BY CaseFilesFields DEF FileNames
    <3>. QED
      BY <3>1, OrderCovers DEF Ahead
  <2>2. order \in Seq(FileNames)
    BY <2>1
  <2>. HIDE DEF order
  <2>3. /\ task' \in Tasks /\ task'.step = "write" /\ task'.left = order
        /\ task'.job = task.job /\ task'.valid = task.valid
    BY <1>8, <2>2 DEF IInv, TaskSound, Tasks, Steps, order
  <2>4. JobsSound' /\ TaskSound'
    BY <1>1, <1>2, <1>8, <2>3, WorkingSound DEF Busy
  <2>5. DirSound(placed, built'[h]) /\ placed.time = zero
    <3>. HIDE DEF made, h
    <3>1. keep \subseteq made.mesh
      OBVIOUS
    <3>. HIDE DEF keep
    <3>2. DirSound(placed, built[h] \cup {task.valid})
      BY <1>3, <1>5, <3>1, MeshKept
    <3>3. placed.time = made.time
      <4>1. placed = [file |-> made.file,
                      mesh |-> keep \cup [name : MeshFiles[ref], of : {ref}],
                      time |-> made.time, log |-> made.log]
        BY <1>5, DirFields
      <4>. QED
        BY <4>1
    <3>. HIDE DEF placed
    <3>. QED
      BY <1>4, <1>6, <3>2, <3>3
  <2>. HIDE DEF placed
  <2>6. DirsSound' /\ dir'[h] = placed
    BY <1>2, <1>4, <1>8, <2>5, HereKept
  <2>7. WorkSound'
    <3>1. IsOpenFOAM(task.job)' /\ (Here)' = h
      BY <1>1, <1>8, <2>3 DEF IsOpenFOAM, jobVars, Here
    <3>2. FilesSound'
      BY <2>1, <2>3, <3>1 DEF FilesSound, Ahead
    <3>3. InputSound'
      BY <2>3 DEF InputSound
    <3>4. TimeSound'
      BY <1>5, <2>5, <2>6, <3>1 DEF TimeSound
    <3>. QED
      BY <3>2, <3>3, <3>4 DEF WorkSound
  <2>. QED
    BY <1>1, <2>4, <2>6, <2>7 DEF IInv
<1>. QED
  BY <1>1, <1>7, <1>8

LEMMA WriteCaseFileSound ==
  ASSUME IInv, WriteCaseFile
  PROVE  IInv'
<1>. DEFINE h == Here
            n == Head(task.left)
            x == CaseFiles(task.valid)[n]
            file == Written(n, x, dir[h].file)
            d == [dir[h] EXCEPT !.file = file]
            C == CaseFiles(task.valid)
<1>1. /\ task.step = "write" /\ task.left # <<>>
      /\ dir' = [dir EXCEPT ![h] = d]
      /\ task' = [task EXCEPT !.left = Tail(@)]
      /\ UNCHANGED <<jobVars, built, crashes>>
  BY DEF WriteCaseFile, At
<1>2. /\ h \in Cases /\ DirSound(dir[h], built[h]) /\ task.step \in Busy
      /\ task.step # "idle" /\ task \in Tasks
  BY <1>1, AtHere DEF Busy, IInv, TaskSound
<1>3. IsOpenFOAM(task.job)
  BY <1>1, <1>2 DEF IInv, TaskSound
<1>4. /\ task.left \in Seq(DOMAIN C)
      /\ \A i \in DOMAIN C :
           \/ Ahead(task.left, i)
           \/ i \in DOMAIN dir[h].file /\ dir[h].file[i] = C[i]
  BY <1>1, <1>3 DEF IInv, WorkSound, FilesSound
<1>5. /\ n \in DOMAIN C /\ Tail(task.left) \in Seq(DOMAIN C)
      /\ \A i : Ahead(task.left, i) => i = n \/ Ahead(Tail(task.left), i)
  BY <1>1, <1>4, AheadTail
<1>6. DOMAIN C \subseteq FileNames
  BY CaseFilesFields DEF FileNames
<1>7. /\ DOMAIN file = DOMAIN dir[h].file \cup {n} /\ file[n] = C[n]
      /\ \A i \in DOMAIN dir[h].file \ {n} : file[i] = dir[h].file[i]
  BY DEF Written, Over
<1>. HIDE DEF C, h, n, x, file
<1>8. DirSound(d, built[h])
  BY <1>2, <1>5, <1>6, FileKept DEF file
<1>9. d.file = file /\ d.time = dir[h].time
  <2>1. d = [file |-> file, mesh |-> dir[h].mesh, time |-> dir[h].time,
             log |-> dir[h].log]
    BY <1>2, DirFields
  <2>. QED
    BY <2>1
<1>. HIDE DEF d
<1>10. DirsSound' /\ dir'[h] = d
  <2>1. built' \in [Cases -> SUBSET Payloads]
    BY <1>1 DEF IInv, DirsSound
  <2>. QED
    BY <1>1, <1>2, <1>8, <2>1, HereKept DEF h
<1>11. Tail(task.left) \in Seq(FileNames)
  <2>1. task.left \in Seq(FileNames)
    BY <1>2 DEF Tasks
  <2>. QED
    BY <1>1, <2>1, AheadTail
<1>12. /\ task' \in Tasks /\ task'.step = "write"
       /\ task'.left = Tail(task.left)
       /\ task'.job = task.job /\ task'.valid = task.valid
  BY <1>1, <1>2, <1>11 DEF Tasks
<1>13. JobsSound' /\ TaskSound'
  BY <1>1, <1>2, <1>3, <1>12, WorkingSound DEF Busy
<1>14. WorkSound'
  <2>1. IsOpenFOAM(task.job)' /\ (Here)' = h
    BY <1>1, <1>3, <1>12 DEF IsOpenFOAM, jobVars, Here, h
  <2>2. ASSUME NEW i \in DOMAIN C
        PROVE  \/ Ahead(task'.left, i)
               \/ i \in DOMAIN dir'[h].file /\ dir'[h].file[i] = C[i]
    BY <1>4, <1>5, <1>7, <1>9, <1>10, <1>12
  <2>3. CaseFiles(task.valid)' = C
    BY <1>12 DEF C
  <2>4. FilesSound'
    BY <1>5, <1>12, <2>1, <2>2, <2>3 DEF FilesSound, Ahead
  <2>5. InputSound'
    BY <1>12 DEF InputSound
  <2>6. TimeSound'
    <3>1. 0 \in DOMAIN dir[h].time
      BY <1>1, <1>3 DEF IInv, WorkSound, TimeSound, h
    <3>. QED
      BY <1>9, <1>10, <2>1, <3>1 DEF TimeSound
  <2>. QED
    BY <2>4, <2>5, <2>6 DEF WorkSound
<1>. QED
  BY <1>1, <1>10, <1>13, <1>14 DEF IInv

LEMMA WriteScriptSound ==
  ASSUME IInv, WriteScript
  PROVE  IInv'
<1>. DEFINE h == Here
            x == Script(task.valid)
            file == Written("in.lammps", x, dir[h].file)
            d == [dir[h] EXCEPT !.file = file]
<1>1. /\ task.step = "build" /\ ~IsOpenFOAM(task.job)
      /\ dir' = [dir EXCEPT ![h] = d]
      /\ built' = [built EXCEPT ![h] = @ \cup {task.valid}]
      /\ task' = [task EXCEPT !.step = "write"]
      /\ UNCHANGED <<jobVars, crashes>>
  BY DEF WriteScript, At
<1>2. /\ h \in Cases /\ DirSound(dir[h], built[h]) /\ task.step \in Busy
      /\ task.step # "idle" /\ task \in Tasks /\ task.left = <<>>
      /\ task.valid \in Payloads
  BY <1>1, AtHere DEF Busy, IInv, TaskSound
<1>3. file["in.lammps"] = x
  BY DEF Written, Over
<1>. HIDE DEF h, x, file
<1>4. DirSound(d, built[h])
  BY <1>2, FileKept DEF file, FileNames
<1>5. d.file = file
  <2>1. d = [file |-> file, mesh |-> dir[h].mesh, time |-> dir[h].time,
             log |-> dir[h].log]
    BY <1>2, DirFields
  <2>. QED
    BY <2>1
<1>. HIDE DEF d
<1>6. DirsSound' /\ dir'[h] = d
  <2>1. /\ built' \in [Cases -> SUBSET Payloads]
        /\ \A c \in Cases : built[c] \subseteq built'[c]
        /\ built'[h] = built[h] \cup {task.valid}
    BY <1>1, <1>2 DEF IInv, DirsSound
  <2>2. DirSound(d, built'[h])
    <3>1. DirSound(d, built[h] \cup {task.valid})
      BY <1>4, MoreBuilt
    <3>. QED
      BY <2>1, <3>1
  <2>. QED
    BY <1>1, <1>2, <2>1, <2>2, HereKept DEF h
<1>7. /\ task' \in Tasks /\ task'.step = "write" /\ task'.left = <<>>
      /\ task'.job = task.job /\ task'.valid = task.valid
  BY <1>1, <1>2 DEF Tasks, Steps
<1>8. JobsSound' /\ TaskSound'
  BY <1>1, <1>2, <1>7, WorkingSound DEF Busy
<1>9. WorkSound'
  <2>1. ~IsOpenFOAM(task.job)' /\ (Here)' = h
    BY <1>1, <1>7 DEF IsOpenFOAM, jobVars, Here, h
  <2>2. Script(task.valid)' = x
    BY <1>7 DEF x
  <2>. QED
    BY <1>3, <1>5, <1>6, <1>7, <2>1, <2>2
       DEF WorkSound, FilesSound, InputSound, TimeSound
<1>. QED
  BY <1>1, <1>6, <1>8, <1>9 DEF IInv

\* A solver reads the files of its own job.
LEMMA StartReads ==
  ASSUME IInv, task.step = "write", task.left = <<>>
  PROVE  /\ IsOpenFOAM(task.job) =>
              CaseReads(dir[Here].file) = CaseFiles(task.valid)
         /\ ~IsOpenFOAM(task.job) =>
              dir[Here].file["in.lammps"] = Script(task.valid)
<1>1. ~IsOpenFOAM(task.job) =>
        dir[Here].file["in.lammps"] = Script(task.valid)
  BY DEF IInv, WorkSound, FilesSound
<1>2. ASSUME IsOpenFOAM(task.job)
      PROVE  CaseReads(dir[Here].file) = CaseFiles(task.valid)
  <2>1. \A n : ~Ahead(task.left, n)
    BY DEF Ahead
  <2>2. \A n \in DOMAIN CaseFiles(task.valid) :
          /\ n \in DOMAIN dir[Here].file
          /\ dir[Here].file[n] = CaseFiles(task.valid)[n]
    BY <1>2, <2>1 DEF IInv, WorkSound, FilesSound
  <2>3. DOMAIN dir[Here].file \subseteq FileNames
    BY AtHere, DirFields DEF Busy
  <2>. QED
    BY <2>2, <2>3, ReadsOwn
<1>. QED
  BY <1>1, <1>2

LEMMA StartSolverSound ==
  ASSUME IInv, StartSolver
  PROVE  IInv'
<1>. DEFINE h == Here
            foam == IsOpenFOAM(task.job)
            input == IF foam THEN CaseReads(dir[h].file)
                     ELSE dir[h].file["in.lammps"]
            due == IF foam THEN WrittenTimes(input) ELSE ThermoSteps(input)
            log == <<Line("echo", None), Line("header", None)>>
            d == [dir[h] EXCEPT !.log = log]
<1>1. /\ task.step = "write" /\ task.left = <<>>
      /\ task' = [task EXCEPT !.step = "run", !.input = input, !.due = due]
      /\ dir' = IF foam THEN dir ELSE [dir EXCEPT ![h] = d]
      /\ UNCHANGED <<jobVars, built, crashes>>
  BY DEF StartSolver, At
<1>2. /\ h \in Cases /\ DirSound(dir[h], built[h]) /\ task.step \in Busy
      /\ task.step # "idle" /\ task \in Tasks
      /\ foam => task.valid \in CFDPayloads /\ OpenFOAMInput(task.valid) # Invalid
      /\ ~foam => task.valid \in MDPayloads
  BY <1>1, AtHere DEF Busy, IInv, TaskSound
<1>3. input = IF foam THEN CaseFiles(task.valid) ELSE Script(task.valid)
  BY <1>1, StartReads
<1>4. due \subseteq Nat
  BY <1>2, <1>3, DueNat
<1>5. input \in Inputs
  BY <1>2, <1>3 DEF Inputs
<1>. HIDE DEF due, input
<1>6. /\ task' \in Tasks /\ task'.step = "run" /\ task'.left = <<>>
      /\ task'.job = task.job /\ task'.valid = task.valid
      /\ task'.input = input /\ task'.due = due
  BY <1>1, <1>2, <1>4, <1>5 DEF Tasks, Steps
<1>7. JobsSound' /\ TaskSound'
  BY <1>1, <1>2, <1>6, WorkingSound DEF Busy
<1>8. DirsSound'
  <2>1. CASE foam
    BY <1>1, <2>1, DirsFrame DEF IInv, dirVars
  <2>2. CASE ~foam
    <3>1. /\ Line("echo", None) \in Lines /\ Line("header", None) \in Lines
          /\ Line("echo", None).kind # "row"
          /\ Line("header", None).kind # "row"
      BY DEF Line, Lines
    <3>2. log \in Seq(Lines) /\ \A i \in 1..Len(log) : log[i].kind # "row"
      BY <3>1
    <3>. HIDE DEF log, h
    <3>3. DirSound(d, built[h])
      BY <1>2, <3>2, LogKept
    <3>. HIDE DEF d
    <3>4. built' \in [Cases -> SUBSET Payloads]
      BY <1>1 DEF IInv, DirsSound
    <3>. QED
      BY <1>1, <1>2, <2>2, <3>3, <3>4, HereKept DEF h
  <2>. QED
    BY <2>1, <2>2
<1>9. WorkSound'
  <2>1. IsOpenFOAM(task.job)' = foam /\ (Here)' = h
    BY <1>1, <1>6 DEF IsOpenFOAM, jobVars, Here
  <2>2. InputSound'
    BY <1>3, <1>6, <2>1 DEF InputSound
  <2>3. TimeSound'
    BY <1>1, <1>6, <2>1 DEF IInv, WorkSound, TimeSound
  <2>. QED
    BY <1>6, <2>2, <2>3 DEF WorkSound, FilesSound
<1>. QED
  BY <1>1, <1>7, <1>8, <1>9 DEF IInv

\* What the solver leaves in its directory: a time directory of its input, or
\* a torn one, or a row.
LEMMA PutSound ==
  ASSUME IInv, task.step = "run", NEW t \in task.due, NEW x,
         IsOpenFOAM(task.job) => x \in Contents,
         UNCHANGED built, dir' = Put(t, x)
  PROVE  /\ DirsSound'
         /\ IsOpenFOAM(task.job) => 0 \in DOMAIN dir'[Here].time
<1>. DEFINE h == Here
            time == Written(t, x, dir[h].time)
            l == Line("row", t)
            log == Append(dir[h].log, l)
<1>1. /\ h \in Cases /\ DirSound(dir[h], built[h]) /\ task.step \in Busy
      /\ t \in Nat
  BY AtHere DEF Busy, IInv, TaskSound, Tasks
<1>2. built' \in [Cases -> SUBSET Payloads] /\ built'[h] = built[h]
  BY DEF IInv, DirsSound
<1>3. CASE IsOpenFOAM(task.job)
  <2>. DEFINE d == [dir[h] EXCEPT !.time = time]
  <2>1. dir' = [dir EXCEPT ![h] = d]
    BY <1>3 DEF Put
  <2>2. 0 \in DOMAIN time
    <3>1. 0 \in DOMAIN dir[h].time
      BY <1>3 DEF IInv, WorkSound, TimeSound
    <3>2. DOMAIN time = DOMAIN dir[h].time \cup {t}
      BY DEF Written, Over
    <3>. QED
      BY <3>1, <3>2
  <2>. HIDE DEF h
  <2>3. DirSound(d, built[h])
    BY <1>1, <1>3, TimeWritten
  <2>. HIDE DEF time
  <2>4. d.time = time
    <3>1. d = [file |-> dir[h].file, mesh |-> dir[h].mesh, time |-> time,
               log |-> dir[h].log]
      BY <1>1, DirFields
    <3>. QED
      BY <3>1
  <2>. HIDE DEF d
  <2>5. DirsSound' /\ dir'[h] = d
    BY <1>1, <1>2, <2>1, <2>3, HereKept DEF h
  <2>. QED
    BY <2>2, <2>4, <2>5 DEF h
<1>4. CASE ~IsOpenFOAM(task.job)
  <2>. DEFINE d == [dir[h] EXCEPT !.log = log]
  <2>1. dir' = [dir EXCEPT ![h] = d]
    BY <1>4 DEF Put
  <2>2. l \in Lines /\ l.step \in Nat
    BY <1>1 DEF Line, Lines
  <2>. HIDE DEF h, l
  <2>3. DirSound(d, built[h])
    BY <1>1, <2>2, LogLonger
  <2>. HIDE DEF d
  <2>. QED
    BY <1>1, <1>2, <1>4, <2>1, <2>3, HereKept DEF h
<1>. QED
  BY <1>3, <1>4

\* The solver goes on.
LEMMA RunsOn ==
  ASSUME IInv, task.step = "run", UNCHANGED <<jobVars, crashes>>,
         task' \in Tasks, task'.step \in {"run", "parse"},
         task'.job = task.job, task'.valid = task.valid,
         task'.left = task.left, task'.input = task.input,
         DirsSound',
         IsOpenFOAM(task.job) => 0 \in DOMAIN dir'[Here].time
  PROVE  IInv'
<1>1. JobsSound' /\ TaskSound'
  <2>1. ~IsOpenFOAM(task.job) => task.left = <<>>
    BY DEF IInv, TaskSound, Busy
  <2>. QED
    BY <2>1, WorkingSound DEF Busy
<1>2. (IsOpenFOAM(task.job))' = IsOpenFOAM(task.job) /\ (Here)' = Here
  BY DEF IsOpenFOAM, jobVars, Here
<1>3. InputSound'
  BY <1>2 DEF IInv, WorkSound, InputSound
<1>4. FilesSound' /\ TimeSound'
  BY <1>2 DEF FilesSound, TimeSound
<1>. QED
  BY <1>1, <1>3, <1>4 DEF IInv, WorkSound

LEMMA SolverSound ==
  ASSUME IInv,
         \/ \E t \in task.due : SolverWrites(t)
         \/ SolverWarns \/ SolverEnds
  PROVE  IInv'
<1>0. task \in Tasks
  BY DEF IInv, TaskSound
<1>1. ASSUME NEW t \in task.due, SolverWrites(t) PROVE IInv'
  <2>1. /\ task.step = "run" /\ dir' = Put(t, task.input)
        /\ task' = [task EXCEPT !.due = @ \ {t}]
        /\ UNCHANGED <<jobVars, built, crashes>>
    BY <1>1 DEF SolverWrites, At
  <2>2. IsOpenFOAM(task.job) => task.input \in Contents
    BY <2>1, AtHere DEF IInv, WorkSound, InputSound, Contents, Busy
  <2>3. /\ DirsSound'
        /\ IsOpenFOAM(task.job) => 0 \in DOMAIN dir'[Here].time
    BY <2>1, <2>2, PutSound
  <2>4. /\ task' \in Tasks /\ task'.step = "run"
        /\ task'.job = task.job /\ task'.valid = task.valid
        /\ task'.left = task.left /\ task'.input = task.input
    BY <1>0, <2>1 DEF Tasks
  <2>. QED
    BY <2>1, <2>3, <2>4, RunsOn
<1>2. CASE SolverWarns
  <2>. DEFINE h == Here
              l == Line("warning", None)
              d == [dir[h] EXCEPT !.log = Append(dir[h].log, l)]
  <2>1. /\ task.step = "run" /\ ~IsOpenFOAM(task.job)
        /\ dir' = [dir EXCEPT ![h] = d]
        /\ UNCHANGED <<jobVars, task, built, crashes>>
    BY <1>2 DEF SolverWarns, At
  <2>2. /\ h \in Cases /\ DirSound(dir[h], built[h]) /\ task.step \in Busy
        /\ built' \in [Cases -> SUBSET Payloads] /\ built'[h] = built[h]
    BY <2>1, AtHere DEF Busy, IInv, DirsSound
  <2>3. l \in Lines /\ l.kind # "row"
    BY DEF Line, Lines
  <2>4. DirsSound'
    <3>. HIDE DEF h, l
    <3>1. DirSound(d, built[h])
      BY <2>2, <2>3, LogLonger
    <3>. HIDE DEF d
    <3>. QED
      BY <2>1, <2>2, <3>1, HereKept DEF h
  <2>. QED
    BY <1>0, <2>1, <2>4, RunsOn
<1>3. CASE SolverEnds
  <2>1. /\ task.step = "run" /\ task' = [task EXCEPT !.step = "parse"]
        /\ UNCHANGED <<jobVars, dirVars, crashes>>
    BY <1>3 DEF SolverEnds, At
  <2>2. /\ task' \in Tasks /\ task'.step = "parse"
        /\ task'.job = task.job /\ task'.valid = task.valid
        /\ task'.left = task.left /\ task'.input = task.input
    BY <1>0, <2>1 DEF Tasks, Steps
  <2>3. DirsSound'
    BY <2>1, DirsFrame DEF IInv
  <2>4. IsOpenFOAM(task.job) => 0 \in DOMAIN dir'[Here].time
    BY <2>1 DEF IInv, WorkSound, TimeSound, dirVars
  <2>. QED
    BY <2>1, <2>2, <2>3, <2>4, RunsOn
<1>. QED
  BY <1>1, <1>2, <1>3

LEMMA SolverFailsSound ==
  ASSUME IInv, SolverFails
  PROVE  IInv'
<1>1. task.step = "run" /\ Fail("solver") /\ UNCHANGED <<built, crashes>>
  BY DEF SolverFails, At
<1>2. JobsSound' /\ TaskSound' /\ WorkSound'
  BY <1>1, FailSound DEF Where
<1>3. DirsSound'
  <2>1. CASE dir' = dir
    BY <1>1, <2>1, DirsFrame DEF IInv, dirVars
  <2>2. ASSUME NEW t \in task.due, dir' = Put(t, Torn) PROVE DirsSound'
    BY <1>1, <2>2, PutSound DEF Contents
  <2>. QED
    BY <2>1, <2>2 DEF SolverFails
<1>. QED
  BY <1>1, <1>2, <1>3 DEF IInv

LEMMA ParseCaseSound ==
  ASSUME IInv, ParseCase
  PROVE  IInv'
<1>. DEFINE time == dir[Here].time
            latest == LatestTimeDir(DOMAIN time)
<1>1. /\ task.step = "parse" /\ IsOpenFOAM(task.job)
      /\ \/ Complete([time |-> latest, of |-> time[latest]])
         \/ Fail("parse")
      /\ UNCHANGED <<dirVars, crashes>>
  BY DEF ParseCase, At
<1>2. latest \in Nat /\ time[latest] \in Contents
  <2>1. DirSound(dir[Here], built[Here]) /\ 0 \in DOMAIN time
    BY <1>1, AtHere DEF Busy, IInv, WorkSound, TimeSound
  <2>2. /\ DOMAIN time \in SUBSET Nat /\ DOMAIN time # {}
        /\ \A t \in DOMAIN time : time[t] \in Contents
        /\ \E u \in Nat : \A t \in DOMAIN time : t <= u
    BY <2>1, DirFields
  <2>. HIDE DEF time
  <2>3. latest \in DOMAIN time
    BY <2>2, LatestIsThere
  <2>. QED
    BY <2>2, <2>3
<1>. HIDE DEF time, latest
<1>3. [time |-> latest, of |-> time[latest]] \in Summaries
  BY <1>2 DEF Summaries
<1>4. JobsSound' /\ TaskSound' /\ WorkSound'
  BY <1>1, <1>3, CompleteSound, FailSound DEF Where
<1>. QED
  BY <1>1, <1>4, DirsFrame DEF IInv

LEMMA ParseLogSound ==
  ASSUME IInv, ParseLog
  PROVE  IInv'
<1>. DEFINE log == dir[Here].log
            rows == ParseThermo(log)
<1>1. /\ task.step = "parse" /\ ~IsOpenFOAM(task.job)
      /\ \/ /\ rows # <<>>
            /\ Complete([steps |-> Last(rows).step, points |-> Len(rows)])
         \/ Fail("parse")
      /\ UNCHANGED <<dirVars, crashes>>
  BY DEF ParseLog, At
<1>2. /\ log \in Seq(Lines)
      /\ \A i \in 1..Len(log) : log[i].kind = "row" => log[i].step \in Nat
  BY <1>1, AtHere DEF Busy, DirSound
<1>3. ASSUME rows # <<>>
      PROVE  [steps |-> Last(rows).step, points |-> Len(rows)] \in Summaries
  <2>. DEFINE h == SelectInSeq(log, IsHeader)
  <2>1. PICK n \in Nat :
          /\ rows = [i \in 1..n |-> log[h + i]]
          /\ h + n <= Len(log)
          /\ \A i \in 1..n : log[h + i].kind = "row"
    BY <1>2, RowsFollow
  <2>0. h \in Nat
    BY <1>2, RowsFollow
  <2>. HIDE DEF log, rows, h
  <2>2. Len(rows) = n /\ n # 0
    BY <1>3, <2>1
  <2>3. Last(rows) = log[h + n]
    BY <2>1, <2>2 DEF Last
  <2>4. Last(rows).step \in Nat
    BY <1>2, <2>0, <2>1, <2>2, <2>3
  <2>. QED
    BY <2>2, <2>4 DEF Summaries
<1>. HIDE DEF log, rows
<1>4. JobsSound' /\ TaskSound' /\ WorkSound'
  BY <1>1, <1>3, CompleteSound, FailSound DEF Where
<1>. QED
  BY <1>1, <1>4, DirsFrame DEF IInv

LEMMA CrashSound ==
  ASSUME IInv, Crash
  PROVE  IInv'
<1>1. /\ task # Idle /\ crashes < MaxCrashes
      /\ stage' = [stage EXCEPT ![task.job] = "queued"]
      /\ task' = Idle /\ crashes' = crashes + 1
      /\ UNCHANGED <<raw, payload, error, result, dirVars>>
  BY DEF Crash
<1>2. task.step # "idle"
  BY <1>1 DEF IInv, TaskSound
<1>3. TaskSound' /\ WorkSound'
  BY <1>1, <1>2, DroppedSound DEF Stages
<1>4. JobsSound'
  BY <1>1, <1>2, AtWork DEF IInv, JobsSound, Made, Stages
<1>5. crashes' \in 0..MaxCrashes
  BY <1>1, WorkspaceAssumption DEF IInv
<1>. QED
  BY <1>1, <1>3, <1>4, <1>5, DirsFrame DEF IInv

LEMMA IInvNext ==
  ASSUME IInv, [Next]_vars
  PROVE  IInv'
<1>1. CASE UNCHANGED vars
  BY <1>1, JobsFrame, DirsFrame
     DEF vars, jobVars, dirVars, IInv, TaskSound, WorkSound, FilesSound,
         InputSound, TimeSound, IsOpenFOAM, Here
<1>. QED
  BY <1>1, BoundarySound, TakeSound, ValidateSound, PlaceMeshSound,
     WriteCaseFileSound, WriteScriptSound, StartSolverSound, SolverSound,
     SolverFailsSound, ParseCaseSound, ParseLogSound, CrashSound
     DEF Next

-----------------------------------------------------------------------------
(***************************************************************************)
(* What holds of every execution.                                          *)
(***************************************************************************)

LEMMA Invariance == Spec => []IInv
<1>1. IInv /\ [Next]_vars => IInv'
  BY IInvNext
<1>. QED
  BY <1>1, IInvInit, PTL DEF Spec

\* A job's record says what its stage says, in whatever order requests come
\* in, runs fail and the worker dies (worker.py, jobs.py): a payload from the
\* queue on, a result when it is COMPLETED, a stage of failure when it is
\* FAILED, and at most one job RUNNING.
THEOREM WorkspaceTypeCorrect == Spec => []TypeOK
<1>1. IInv => TypeOK
  <2>. SUFFICES ASSUME IInv PROVE TypeOK
    OBVIOUS
  <2>1. /\ stage \in [Jobs -> Stages] /\ raw \in [Jobs -> Requests \cup {None}]
        /\ error \in [Jobs -> Where \cup {None}]
        /\ task.step \in Steps /\ crashes \in 0..MaxCrashes
    BY DEF IInv, JobsSound, TaskSound, Tasks
  <2>2. ASSUME NEW j \in Jobs
        PROVE  /\ raw[j] \in Requests \cup {None}
               /\ raw[j] = None <=> stage[j] = "new"
               /\ payload[j] = None <=> stage[j] \in {"new", "refused"}
               /\ error[j] \in {None, "validation", "build", "solver", "parse"}
               /\ error[j] # None <=> stage[j] = "failed"
               /\ result[j] # None <=> stage[j] = "completed"
               /\ stage[j] = "running" <=> task.job = j
    BY <2>1 DEF IInv, JobsSound, TaskSound, Where
  <2>. QED
    BY <2>1, <2>2 DEF TypeOK, Steps
<1>. QED
  BY <1>1, Invariance, PTL

\* The files a solver starts from are those of its own job, and so is the
\* mesh where no other one was placed before, whatever other cases and
\* interrupted builds have left in the directory (case_builder.py:279-319).
THEOREM StartsFromOwn == Spec => []InputOwn
<1>1. IInv => InputOwn
  <2>. SUFFICES ASSUME IInv, At("run") PROVE InputOwn
    BY DEF InputOwn
  <2>1. /\ task.step = "run" /\ task.valid = payload[task.job]
        /\ DirSound(dir[Here], built[Here])
    BY AtHere DEF At, Busy
  <2>2. task.input = IF IsOpenFOAM(task.job) THEN CaseFiles(payload[task.job])
                                             ELSE Script(payload[task.job])
    BY <2>1 DEF IInv, WorkSound, InputSound
  <2>3. \A m \in dir[Here].mesh :
          \E q \in built[Here] :
            "polymesh_ref" \in DOMAIN q /\ m.of = q.polymesh_ref
    BY <2>1 DEF DirSound
  <2>. QED
    BY <2>2, <2>3 DEF InputOwn
<1>. QED
  BY <1>1, Invariance, PTL

-----------------------------------------------------------------------------
\* A validation in the worker has failed on a derived value that underflowed.
Underflowed ==
  \A j \in Jobs :
    error[j] = "validation" => Underflowing(payload[j])

\* A FAILED job keeps its record.
LEMMA UnderflowedNext ==
  ASSUME IInv, Underflowed, [Next]_vars
  PROVE  Underflowed'
<1>1. ASSUME UNCHANGED <<payload, error>> PROVE Underflowed'
  BY <1>1 DEF Underflowed
<1>2. ASSUME NEW j \in Jobs, NEW r \in Requests, Submit(j, r) \/ Refuse(j, r)
      PROVE  Underflowed'
  <2>1. UNCHANGED error /\ error[j] = None
    BY <1>2 DEF Submit, Refuse, IInv, JobsSound
  <2>2. \A i \in Jobs \ {j} : payload'[i] = payload[i]
    BY <1>2 DEF Submit, Refuse, IInv, JobsSound
  <2>. QED
    BY <2>1, <2>2, RequestsAssumption DEF Underflowed
<1>3. CASE Validate
  <2>. DEFINE p == payload[task.job]
              valid == ModelValidate(raw[task.job].solver, p)
  <2>1. /\ task.step = "validate"
        /\ IF valid = Invalid THEN Fail("validation") ELSE UNCHANGED jobVars
    BY <1>3 DEF Validate, At
  <2>2. CASE valid # Invalid
    BY <1>1, <2>1, <2>2 DEF jobVars
  <2>3. CASE valid = Invalid
    <3>1. Underflowing(p)
      <4>1. CASE IsOpenFOAM(task.job)
        BY <2>1, <2>3, <4>1, AtWork, Revalidation
           DEF ModelValidate, IsOpenFOAM
      <4>2. CASE ~IsOpenFOAM(task.job)
        BY <2>1, <2>3, <4>2, AtWork, RevalidationMD
           DEF ModelValidate, IsOpenFOAM
      <4>. QED
        BY <4>1, <4>2
    <3>2. \A i \in Jobs \ {task.job} : error'[i] = error[i]
      BY <2>1, <2>3 DEF Fail, IInv, JobsSound
    <3>. QED
      BY <2>1, <2>3, <3>1, <3>2 DEF Fail, Underflowed
  <2>. QED
    BY <2>2, <2>3
<1>4. ASSUME NEW where \in Where \ {"validation"}, task.step # "idle",
             Fail(where)
      PROVE  Underflowed'
  BY <1>4, AtWork DEF Fail, Underflowed, IInv, JobsSound
<1>5. CASE PlaceMesh \/ SolverFails \/ ParseCase \/ ParseLog
  <2>1. task.step # "idle"
    BY <1>5 DEF PlaceMesh, SolverFails, ParseCase, ParseLog, At
  <2>2. \/ UNCHANGED <<payload, error>>
        \/ Fail("build") \/ Fail("solver") \/ Fail("parse")
    BY <1>5 DEF PlaceMesh, SolverFails, ParseCase, ParseLog, Complete, jobVars
  <2>. QED
    BY <1>1, <1>4, <2>1, <2>2 DEF Where
<1>6. \/ UNCHANGED <<payload, error>>
      \/ \E j \in Jobs, r \in Requests : Submit(j, r) \/ Refuse(j, r)
      \/ Validate \/ PlaceMesh \/ SolverFails \/ ParseCase \/ ParseLog
  BY DEF Next, vars, Take, WriteCaseFile, WriteScript, StartSolver,
         SolverWrites, SolverWarns, SolverEnds, Crash, jobVars
<1>. QED
  BY <1>1, <1>2, <1>3, <1>5, <1>6

\* What the worker validates is the payload that was keyed and queued, and it
\* refuses none unless a derived value underflowed: _derive_turbulence_inlets
\* is idempotent and leaves nothing that the bounds exclude but zeros
\* (schemas/openfoam.py:17-23, simulations.py:175-177).
THEOREM RevalidationAgrees == Spec => []RevalidatesSame
<1>1. Init => Underflowed
  BY RequestsAssumption DEF Init, Underflowed
<1>2. IInv /\ Underflowed /\ [Next]_vars => Underflowed'
  BY UnderflowedNext
<1>3. IInv /\ Underflowed => RevalidatesSame
  <2>. SUFFICES ASSUME IInv, Underflowed PROVE RevalidatesSame
    OBVIOUS
  <2>1. task.valid # None => task.step \in Busy
    BY IdleType DEF IInv, TaskSound, Tasks, Steps, Busy
  <2>. QED
    BY <2>1, AtHere DEF RevalidatesSame, Underflowed
<1>. QED
  BY <1>1, <1>2, <1>3, Invariance, PTL DEF Spec

-----------------------------------------------------------------------------
\* What a request states is in the payload.
LEMMA StatedKept ==
  ASSUME NEW req, NEW f \in DOMAIN req
  PROVE  /\ OpenFOAMInput(req) # Invalid =>
              req[f] \in {None, OpenFOAMInput(req)[f]}
         /\ LAMMPSInput(req) # Invalid => req[f] = LAMMPSInput(req)[f]
<1>1. ASSUME OpenFOAMInput(req) # Invalid
      PROVE  req[f] \in {None, OpenFOAMInput(req)[f]}
  <2>. DEFINE p == Over(req, OpenFOAMFields)
  <2>1. /\ OpenFOAMInput(req) = Derive(p)
        /\ DOMAIN p = DOMAIN OpenFOAMFields
        /\ f \in DOMAIN OpenFOAMFields
    BY <1>1, AcceptedFields
  <2>2. p[f] = req[f]
    BY OverFields
  <2>. HIDE DEF p
  <2>3. /\ \A x \in DOMAIN p \ {"inlet_k", "inlet_turbulence_dissipation"} :
             Derive(p)[x] = p[x]
        /\ p.inlet_k \in {None, Derive(p).inlet_k}
        /\ p.inlet_turbulence_dissipation
             \in {None, Derive(p).inlet_turbulence_dissipation}
    BY <2>1, OpenFOAMDefaults, DeriveFields
  <2>. QED
    BY <2>1, <2>2, <2>3
<1>2. ASSUME LAMMPSInput(req) # Invalid
      PROVE  req[f] = LAMMPSInput(req)[f]
  BY <1>2, OverFields DEF LAMMPSInput
<1>. QED
  BY <1>1, <1>2

\* What is derived from an intensity or a length scale that the request
\* states, where the second validation finds no zero.
LEMMA DerivedStated ==
  ASSUME NEW req, NEW P, P = OpenFOAMInput(req), P # Invalid,
         OpenFOAMInput(P) # Invalid
  PROVE  /\ "inlet_k" \notin DOMAIN req \/ req.inlet_k = None =>
              P.inlet_k = <<req.inlet_velocity, P.turbulence_intensity>>
         /\ \/ "inlet_turbulence_dissipation" \notin DOMAIN req
            \/ req.inlet_turbulence_dissipation = None
            => P.inlet_turbulence_dissipation =
                 <<P.turbulence_model, P.inlet_k, P.turbulence_length_scale>>
<1>. DEFINE D == DOMAIN OpenFOAMFields
            p == Over(req, OpenFOAMFields)
<1>1. /\ P = Derive(p) /\ DOMAIN p = D
      /\ \A f \in D : p[f] \notin {Bad, Zero, Required}
  BY AcceptedFields
<1>2. /\ \A f \in DOMAIN req : p[f] = req[f]
      /\ \A f \in D \ DOMAIN req : p[f] = OpenFOAMFields[f]
  BY OverFields
<1>. HIDE DEF p
<1>3. /\ DOMAIN P = D
      /\ \A x \in D \ {"inlet_k", "inlet_turbulence_dissipation"} : P[x] = p[x]
      /\ P.inlet_k = IF p.inlet_k = None THEN Energy(p) ELSE p.inlet_k
      /\ P.inlet_turbulence_dissipation =
           IF p.inlet_turbulence_dissipation = None
           THEN Dissipation(p, P.inlet_k)
           ELSE p.inlet_turbulence_dissipation
  <2>1. P = [x \in D |-> P[x]]
    BY <1>1, OpenFOAMDefaults, DeriveFields
  <2>2. DOMAIN P = D
    BY <2>1
  <2>. QED
    BY <1>1, <2>2, OpenFOAMDefaults, DeriveFields
<1>4. P.inlet_k # Zero /\ P.inlet_turbulence_dissipation # Zero
  <2>. DEFINE o == Over(P, OpenFOAMFields)
  <2>1. \A f \in DOMAIN o : o[f] # Zero
    BY AcceptedFields
  <2>2. /\ DOMAIN o = DOMAIN P \cup DOMAIN OpenFOAMFields
        /\ \A x \in DOMAIN P : o[x] = P[x]
    BY OverFields
  <2>. HIDE DEF o
  <2>3. \A x \in DOMAIN P : P[x] # Zero
    BY <2>1, <2>2
  <2>. QED
    BY <1>3, <2>3, OpenFOAMDefaults
<1>5. p.inlet_velocity = req.inlet_velocity
  BY <1>1, <1>2, OpenFOAMDefaults
<1>6. /\ "inlet_k" \notin DOMAIN req \/ req.inlet_k = None => p.inlet_k = None
      /\ \/ "inlet_turbulence_dissipation" \notin DOMAIN req
         \/ req.inlet_turbulence_dissipation = None
         => p.inlet_turbulence_dissipation = None
  BY <1>2, OpenFOAMDefaults
<1>7. /\ P.turbulence_intensity = p.turbulence_intensity
      /\ P.turbulence_model = p.turbulence_model
      /\ P.turbulence_length_scale = p.turbulence_length_scale
  BY <1>3, OpenFOAMDefaults
<1>8. Energy(p) \in {Zero, <<p.inlet_velocity, p.turbulence_intensity>>}
  BY DEF Energy
<1>9. Dissipation(p, P.inlet_k) \in
        {Zero, <<p.turbulence_model, P.inlet_k, p.turbulence_length_scale>>}
  BY DEF Dissipation
<1>. QED
  BY <1>3, <1>4, <1>5, <1>6, <1>7, <1>8, <1>9

\* A file holds values of the payload, and the name of the dissipation field.
LEMMA FileHolds ==
  ASSUME NEW p, NEW n \in DOMAIN CaseFiles(p),
         NEW f \in DOMAIN CaseFiles(p)[n]
  PROVE  \/ f \in {"field", "zero", "relaxation_factors"}
         \/ CaseFiles(p)[n][f] = p[f]
<1>1. n \in Common \cup {DissipationField(p)}
  BY CaseFilesFields
<1>2. CASE n = DissipationField(p)
  <2>1. CaseFiles(p)[n] = FieldDissipation(p)
    BY <1>2 DEF CaseFiles, Over
  <2>. QED
    BY <2>1 DEF FieldDissipation
<1>3. CASE n # DissipationField(p)
  <2>1. \/ CaseFiles(p)[n] = ControlDict(p)
        \/ CaseFiles(p)[n] = FvSchemes(p)
        \/ CaseFiles(p)[n] = FvSolution(p)
        \/ CaseFiles(p)[n] = TransportProperties(p)
        \/ CaseFiles(p)[n] = MomentumTransport(p)
        \/ CaseFiles(p)[n] = FieldU(p)
        \/ CaseFiles(p)[n] = FieldP(p)
        \/ CaseFiles(p)[n] = FieldK(p)
        \/ CaseFiles(p)[n] = FieldNut
    BY <1>1, <1>3 DEF CaseFiles, Over, Common
  <2>. QED
    BY <2>1 DEF ControlDict, FvSchemes, FvSolution, TransportProperties,
                MomentumTransport, FieldU, FieldP, FieldK, FieldNut
<1>. QED
  BY <1>2, <1>3

\* The fields that files hold as they are.
Verbatim == {"kinematic_viscosity", "turbulence_model", "inlet_velocity",
             "outlet_pressure", "inlet_k", "inlet_turbulence_dissipation",
             "iterations", "convergence_residual", "write_interval"}

\* There is a file for each of them.
LEMMA FileOf ==
  ASSUME NEW p
  PROVE  /\ \A f \in Verbatim :
              \E n \in DOMAIN CaseFiles(p) : f \in DOMAIN CaseFiles(p)[n]
         /\ CaseFiles(p)["fvSolution"] = FvSolution(p)
         /\ CaseFiles(p)["k"] = FieldK(p)
         /\ CaseFiles(p)["momentumTransport"] = MomentumTransport(p)
         /\ CaseFiles(p)[DissipationField(p)] = FieldDissipation(p)
<1>. DEFINE C == CaseFiles(p)
            d == DissipationField(p)
<1>1. DOMAIN C = Common \cup {d} /\ d \in {"epsilon", "omega"}
  BY CaseFilesFields
<1>2. /\ C["controlDict"] = ControlDict(p) /\ C["fvSolution"] = FvSolution(p)
      /\ C["transportProperties"] = TransportProperties(p)
      /\ C["momentumTransport"] = MomentumTransport(p)
      /\ C["U"] = FieldU(p) /\ C["p"] = FieldP(p) /\ C["k"] = FieldK(p)
      /\ C[d] = FieldDissipation(p)
  BY <1>1 DEF CaseFiles, Over
<1>3. /\ {"iterations", "write_interval"} \subseteq DOMAIN ControlDict(p)
      /\ "convergence_residual" \in DOMAIN FvSolution(p)
      /\ "kinematic_viscosity" \in DOMAIN TransportProperties(p)
      /\ "turbulence_model" \in DOMAIN MomentumTransport(p)
      /\ "inlet_velocity" \in DOMAIN FieldU(p)
      /\ "outlet_pressure" \in DOMAIN FieldP(p)
      /\ "inlet_k" \in DOMAIN FieldK(p)
      /\ "inlet_turbulence_dissipation" \in DOMAIN FieldDissipation(p)
  BY DEF ControlDict, FvSolution, TransportProperties, MomentumTransport,
         FieldU, FieldP, FieldK, FieldDissipation
<1>. HIDE DEF C
<1>4. \A f \in Verbatim : \E n \in DOMAIN C : f \in DOMAIN C[n]
  BY <1>1, <1>2, <1>3 DEF Verbatim, Common
<1>. QED
  BY <1>2, <1>4 DEF C

\* Every field of a CFD request.
LEMMA OpenFOAMNames ==
  DOMAIN OpenFOAMFields =
    Verbatim \cup {"case_name", "polymesh_ref", "turbulence_intensity",
                   "turbulence_length_scale", "relaxation_factors"}
BY DEF OpenFOAMFields, MeshSpec, FluidProperties, BoundaryConditions,
       SolverControls, Over, Verbatim

-----------------------------------------------------------------------------
\* The mesh that a job's solver runs on is in the directory.
MeshPlaced ==
  task.step \in {"write", "run", "parse"} /\ IsOpenFOAM(task.job) =>
    [name : MeshFiles[task.valid.polymesh_ref], of : {task.valid.polymesh_ref}]
      \subseteq dir[Here].mesh

LEMMA MeshStays ==
  ASSUME MeshPlaced, UNCHANGED raw, task.step \in {"write", "run"},
         task'.job = task.job, task'.valid = task.valid,
         IsOpenFOAM(task.job) => dir'[Here].mesh = dir[Here].mesh
  PROVE  MeshPlaced'
<1>1. (Here)' = Here
  BY DEF Here
<1>2. IsOpenFOAM(task.job)' <=> IsOpenFOAM(task.job)
  BY DEF IsOpenFOAM
<1>. QED
  BY <1>1, <1>2 DEF MeshPlaced

\* Writing files and times leaves the mesh as it is.
LEMMA MeshUntouched ==
  ASSUME IInv, task.step \in Busy, NEW x,
         \/ dir' = [dir EXCEPT ![Here] = [dir[Here] EXCEPT !.file = x]]
         \/ dir' = [dir EXCEPT ![Here] = [dir[Here] EXCEPT !.time = x]]
  PROVE  dir'[Here].mesh = dir[Here].mesh
<1>. DEFINE h == Here
<1>1. /\ h \in Cases /\ DirSound(dir[h], built[h])
      /\ dir = [c \in Cases |-> dir[c]]
  BY AtHere DEF IInv, DirsSound
<1>. DEFINE f == [file |-> x, mesh |-> dir[h].mesh, time |-> dir[h].time,
                  log |-> dir[h].log]
            t == [file |-> dir[h].file, mesh |-> dir[h].mesh, time |-> x,
                  log |-> dir[h].log]
<1>2. /\ [dir[h] EXCEPT !.file = x] = f
      /\ [dir[h] EXCEPT !.time = x] = t
  BY <1>1, DirFields
<1>3. f.mesh = dir[h].mesh /\ t.mesh = dir[h].mesh
  OBVIOUS
<1>. HIDE DEF f, t, h
<1>4. dir'[h] \in {f, t}
  BY <1>1, <1>2 DEF h
<1>. QED
  BY <1>3, <1>4 DEF h

LEMMA MeshPlacedNext ==
  ASSUME IInv, MeshPlaced, [Next]_vars
  PROVE  MeshPlaced'
<1>1. CASE UNCHANGED vars
  BY <1>1 DEF vars, jobVars, dirVars, MeshPlaced, IsOpenFOAM, Here
<1>2. ASSUME NEW j \in Jobs, NEW r \in Requests, Submit(j, r) \/ Refuse(j, r)
      PROVE  MeshPlaced'
  <2>1. /\ stage[j] = "new" /\ raw' = [raw EXCEPT ![j] = r]
        /\ UNCHANGED <<task, dir>>
    BY <1>2 DEF Submit, Refuse, dirVars
  <2>2. task.step # "idle" => raw'[task.job] = raw[task.job]
    BY <2>1, AtWork DEF IInv, JobsSound
  <2>. QED
    BY <2>1, <2>2 DEF MeshPlaced, IsOpenFOAM, Here
<1>3. ASSUME task'.step \in {"idle", "validate", "build"} PROVE MeshPlaced'
  BY <1>3 DEF MeshPlaced
<1>4. ASSUME task' = Idle PROVE MeshPlaced'
  BY <1>3, <1>4, IdleType
<1>5. ASSUME NEW j \in Jobs, Take(j) PROVE MeshPlaced'
  <2>1. task'.step = "validate"
    BY <1>5 DEF Take, Idle
  <2>. QED
    BY <1>3, <2>1
<1>6. CASE Validate
  <2>1. task \in Tasks
    BY DEF IInv, TaskSound
  <2>2. task' = Idle \/ task'.step = "build"
    BY <1>6, <2>1 DEF Validate, Fail, Tasks
  <2>. QED
    BY <1>3, <1>4, <2>2
<1>7. CASE PlaceMesh
  <2>. DEFINE h == Here
              ref == task.valid.polymesh_ref
              zero == Over(dir[h].time, [t \in {0} |-> Start])
              made == [dir[h] EXCEPT !.time = zero]
              mesh == {m \in made.mesh : m.name \notin MeshFiles[ref]}
                        \cup [name : MeshFiles[ref], of : {ref}]
  <2>1. /\ task.step = "build"
        /\ \/ task' = Idle
           \/ /\ dir' = [dir EXCEPT ![h] = [made EXCEPT !.mesh = mesh]]
              /\ task' = [task EXCEPT !.step = "write",
                                      !.left = CaseOrder(task.valid)]
    BY <1>7 DEF PlaceMesh, Fail, At
  <2>2. /\ h \in Cases /\ DirSound(dir[h], built[h]) /\ task \in Tasks
        /\ dir = [c \in Cases |-> dir[c]]
    BY <2>1, AtHere DEF Busy, IInv, TaskSound, DirsSound
  <2>3. CASE task' # Idle
    <3>. DEFINE d == [file |-> dir[h].file, mesh |-> mesh, time |-> zero,
                      log |-> dir[h].log]
    <3>1. [made EXCEPT !.mesh = mesh] = d
      <4>. HIDE DEF zero, h
      <4>1. made = [file |-> dir[h].file, mesh |-> dir[h].mesh,
                    time |-> zero, log |-> dir[h].log]
        BY <2>2, DirFields
      <4>. HIDE DEF mesh, made
      <4>. QED
        BY <4>1
    <3>2. d.mesh = mesh /\ [name : MeshFiles[ref], of : {ref}] \subseteq mesh
      OBVIOUS
    <3>3. task'.valid = task.valid
      BY <2>1, <2>2, <2>3 DEF Tasks
    <3>4. (Here)' = h
      BY <3>3 DEF Here
    <3>. HIDE DEF d, mesh, made, h
    <3>5. dir'[h] = d
      BY <2>1, <2>2, <2>3, <3>1
    <3>. QED
      BY <3>2, <3>3, <3>4, <3>5 DEF MeshPlaced
  <2>. QED
    BY <1>4, <2>3
<1>8. CASE WriteCaseFile
  <2>1. /\ task.step = "write" /\ UNCHANGED raw
        /\ task' = [task EXCEPT !.left = Tail(@)]
        /\ \E x : dir' = [dir EXCEPT ![Here] = [dir[Here] EXCEPT !.file = x]]
    BY <1>8 DEF WriteCaseFile, At, jobVars
  <2>2. dir'[Here].mesh = dir[Here].mesh
    BY <2>1, MeshUntouched DEF Busy
  <2>3. task'.job = task.job /\ task'.valid = task.valid
    BY <2>1 DEF IInv, TaskSound, Tasks
  <2>. QED
    BY <2>1, <2>2, <2>3, MeshStays
<1>9. CASE WriteScript \/ SolverWarns
  <2>1. /\ ~IsOpenFOAM(task.job) /\ UNCHANGED raw
        /\ task' = task \/ task' = [task EXCEPT !.step = "write"]
    BY <1>9 DEF WriteScript, SolverWarns, jobVars
  <2>2. task'.job = task.job
    BY <2>1 DEF IInv, TaskSound, Tasks
  <2>. QED
    BY <2>1, <2>2 DEF MeshPlaced, IsOpenFOAM
<1>10. CASE StartSolver
  <2>1. /\ task.step = "write" /\ UNCHANGED raw
        /\ IsOpenFOAM(task.job) => dir' = dir
        /\ \E i, d : task' = [task EXCEPT !.step = "run", !.input = i,
                                          !.due = d]
    BY <1>10 DEF StartSolver, At, jobVars
  <2>2. task'.job = task.job /\ task'.valid = task.valid
    BY <2>1 DEF IInv, TaskSound, Tasks
  <2>. QED
    BY <2>1, <2>2, MeshStays
<1>11. ASSUME NEW t \in task.due, SolverWrites(t) PROVE MeshPlaced'
  <2>1. /\ task.step = "run" /\ UNCHANGED raw
        /\ task' = [task EXCEPT !.due = @ \ {t}]
        /\ dir' = Put(t, task.input)
    BY <1>11 DEF SolverWrites, At, jobVars
  <2>2. IsOpenFOAM(task.job) => dir'[Here].mesh = dir[Here].mesh
    BY <2>1, MeshUntouched DEF Put, Busy
  <2>3. task'.job = task.job /\ task'.valid = task.valid
    BY <2>1 DEF IInv, TaskSound, Tasks
  <2>. QED
    BY <2>1, <2>2, <2>3, MeshStays
<1>12. CASE SolverEnds
  <2>1. /\ task.step = "run" /\ UNCHANGED <<raw, dir>>
        /\ task' = [task EXCEPT !.step = "parse"]
    BY <1>12 DEF SolverEnds, At, jobVars, dirVars
  <2>2. task'.job = task.job /\ task'.valid = task.valid
    BY <2>1 DEF IInv, TaskSound, Tasks
  <2>. QED
    BY <2>1, <2>2, MeshStays
<1>13. CASE SolverFails \/ ParseCase \/ ParseLog \/ Crash
  <2>1. task' = Idle
    BY <1>13 DEF SolverFails, ParseCase, ParseLog, Crash, Fail, Complete
  <2>. QED
    BY <1>4, <2>1
<1>. QED
  BY <1>1, <1>2, <1>5, <1>6, <1>7, <1>8, <1>9, <1>10, <1>11, <1>12, <1>13
     DEF Next

\* What a request states is what its solver is given, through validation,
\* derivation, the queue, the second validation and the files, for each
\* request that is accepted: in a file, in what is derived from it, in the
\* mesh or the directory, and never only in some of the files
\* (schemas/openfoam.py:17-23, case_builder.py:279-319).  A relaxation factor
\* of a field that the case does not have is not.
THEOREM StatedReaches == Spec => []StatedValuesReach
<1>1. IInv /\ MeshPlaced => StatedValuesReach
  <2>. SUFFICES ASSUME IInv, MeshPlaced, At("run") PROVE StatedValuesReach
    BY DEF StatedValuesReach
  <2>. DEFINE stated == raw[task.job].fields
              P == payload[task.job]
  <2>1. /\ task.step = "run" /\ task.step # "idle"
        /\ task.valid = payload[task.job]
        /\ IsOpenFOAM(task.job) => OpenFOAMInput(task.valid) # Invalid
    BY AtHere DEF At, Busy
  <2>2. task.input = IF IsOpenFOAM(task.job) THEN CaseFiles(P) ELSE Script(P)
    BY <2>1 DEF IInv, WorkSound, InputSound
  <2>3. CASE IsOpenFOAM(task.job)
    <3>1. /\ P = OpenFOAMInput(stated) /\ P # Invalid
          /\ OpenFOAMInput(P) # Invalid /\ task.input = CaseFiles(P)
          /\ task.valid = P
      BY <2>1, <2>2, <2>3, AtWork, Revalidation
    <3>2. DOMAIN stated \subseteq DOMAIN OpenFOAMFields
      BY <3>1, AcceptedFields
    <3>3. [name : MeshFiles[P.polymesh_ref], of : {P.polymesh_ref}]
             \subseteq dir[Here].mesh
      BY <2>1, <2>3, <3>1 DEF MeshPlaced
    <3>. HIDE DEF stated, P
    <3>. SUFFICES ASSUME NEW f \in DOMAIN stated, stated[f] # None
                  PROVE  ReachesFoam(stated, f)
      BY <2>3 DEF StatedValuesReach, stated
    <3>4. P[f] = stated[f]
      BY <3>1, StatedKept
    <3>. DEFINE C == CaseFiles(P)
                active == DissipationField(C["momentumTransport"])
    <3>5. /\ active = DissipationField(P)
          /\ C["k"].inlet_k = P.inlet_k
          /\ C["momentumTransport"].turbulence_model = P.turbulence_model
          /\ C[active].inlet_turbulence_dissipation =
               P.inlet_turbulence_dissipation
          /\ C["fvSolution"].relaxation_factors = Relaxation(P)
      <4>1. active = DissipationField(P)
        BY CaseFilesFields
      <4>2. /\ C["k"] = FieldK(P) /\ C["fvSolution"] = FvSolution(P)
            /\ C["momentumTransport"] = MomentumTransport(P)
            /\ C[DissipationField(P)] = FieldDissipation(P)
        BY FileOf
      <4>. HIDE DEF C, active
      <4>. QED
        BY <4>1, <4>2
           DEF FieldK, FvSolution, MomentumTransport, FieldDissipation
    <3>6. CASE f = "case_name"
      BY <3>1, <3>4, <3>6 DEF ReachesFoam, Here
    <3>7. CASE f = "polymesh_ref"
      BY <3>3, <3>4, <3>7 DEF ReachesFoam
    <3>8. CASE f = "turbulence_intensity"
      <4>1. \/ "inlet_k" \in DOMAIN stated /\ stated["inlet_k"] # None
            \/ C["k"].inlet_k = <<stated.inlet_velocity, stated[f]>>
        BY <3>1, <3>4, <3>5, <3>8, DerivedStated
      <4>. QED
        BY <3>1, <3>8, <4>1 DEF ReachesFoam
    <3>9. CASE f = "turbulence_length_scale"
      <4>1. \/ /\ "inlet_turbulence_dissipation" \in DOMAIN stated
               /\ stated["inlet_turbulence_dissipation"] # None
            \/ C[active].inlet_turbulence_dissipation =
                 <<C["momentumTransport"].turbulence_model, C["k"].inlet_k,
                   stated[f]>>
        <5>. HIDE DEF C, active
        <5>. QED
          BY <3>1, <3>4, <3>5, <3>9, DerivedStated
      <4>. QED
        BY <3>1, <3>9, <4>1 DEF ReachesFoam
    <3>10. CASE f = "relaxation_factors"
      <4>1. ASSUME NEW x \in DOMAIN stated[f] \cap {"U", "p", "k", active}
            PROVE  C["fvSolution"].relaxation_factors[x] = stated[f][x]
        <5>1. /\ P.relaxation_factors = stated[f]
              /\ x \in {"U", "p", "k", DissipationField(P)}
          BY <3>4, <3>5, <3>10
        <5>2. Relaxation(P)[x] = stated[f][x]
          BY <5>1 DEF Relaxation
        <5>. QED
          BY <3>5, <5>2
      <4>. QED
        BY <3>1, <3>10, <4>1 DEF ReachesFoam
    <3>11. CASE f \in Verbatim
      <4>. DEFINE Given == {C[n][f] : n \in {m \in DOMAIN C :
                                               f \in DOMAIN C[m]}}
      <4>1. PICK n \in DOMAIN C : f \in DOMAIN C[n]
        BY <3>11, FileOf
      <4>2. \A m \in DOMAIN C : f \in DOMAIN C[m] => C[m][f] = P[f]
        <5>1. f \notin {"field", "zero", "relaxation_factors"}
          BY <3>11 DEF Verbatim
        <5>. QED
          BY <5>1, FileHolds
      <4>. HIDE DEF C
      <4>3. Given = {stated[f]}
        BY <3>4, <4>1, <4>2
      <4>4. f \notin {"case_name", "polymesh_ref", "turbulence_intensity",
                      "turbulence_length_scale", "relaxation_factors"}
        BY <3>11 DEF Verbatim
      <4>. QED
        BY <3>1, <4>3, <4>4 DEF ReachesFoam, C
    <3>. QED
      BY <3>2, <3>6, <3>7, <3>8, <3>9, <3>10, <3>11, OpenFOAMNames
  <2>4. CASE ~IsOpenFOAM(task.job)
    <3>1. /\ P = LAMMPSInput(stated) /\ P # Invalid /\ task.valid = P
          /\ task.input = Script(P)
      BY <2>1, <2>2, <2>4, AtWork, RevalidationMD
    <3>2. \A f \in DOMAIN stated : stated[f] = P[f]
      BY <3>1, StatedKept
    <3>3. DOMAIN stated \subseteq DOMAIN LAMMPSFields
      BY <3>1 DEF LAMMPSInput, InRange
    <3>4. \A f \in DOMAIN LAMMPSFields \ {"case_name"} : Script(P)[f] = P[f]
      BY DEF Script
    <3>. HIDE DEF stated, P
    <3>5. ASSUME NEW f \in DOMAIN stated
          PROVE  IF f = "case_name" THEN Here = stated[f]
                 ELSE task.input[f] = stated[f]
      BY <3>1, <3>2, <3>3, <3>4 DEF Here
    <3>. QED
      BY <2>4, <3>5 DEF StatedValuesReach, stated
  <2>. QED
    BY <2>3, <2>4
<1>2. Init => MeshPlaced
  BY IdleType DEF Init, MeshPlaced
<1>3. IInv /\ MeshPlaced /\ [Next]_vars => MeshPlaced'
  BY MeshPlacedNext
<1>. QED
  BY <1>1, <1>2, <1>3, Invariance, PTL DEF Spec

=============================================================================
