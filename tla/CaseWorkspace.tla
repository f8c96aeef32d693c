---------------------------- MODULE CaseWorkspace ----------------------------
(***************************************************************************)
(* From a request to a result: validation at the boundary (MCP tool or     *)
(* HTTP route), the same validation in the worker, the files of a case, a  *)
(* solver that reads them and writes its own beside them, and the parser   *)
(* that reads those.  A case directory is never cleared: the next job with *)
(* its name, or a repetition of the same one, finds what the last one left.*)
(*                                                                         *)
(* One worker, one job at a time, so that what is asked here is what a     *)
(* directory's past does to a job, not what a neighbour does (Worker).     *)
(* The solver is external: it reads its input when it starts, writes what  *)
(* the input asks for, and ends or is killed.                              *)
(***************************************************************************)
EXTENDS SolverFiles

CONSTANTS
  Jobs,
  Requests,     \* what a tool or a route may be called with
  Cases,        \* the case names in them
  MeshFiles,    \* the files of each polyMesh that exists under /work
  ConvergesAt,  \* the iteration at which each inlet velocity converges
  MaxCrashes    \* bound: how often the worker crashes

ASSUME WorkspaceAssumption ==
  /\ MaxCrashes \in Nat
  /\ \A v \in DOMAIN ConvergesAt : ConvergesAt[v] \in Nat \ {0}
  \* No case is built where a mesh is kept.
  /\ \A c \in Cases : \A m \in DOMAIN MeshFiles : c[1] # m[1]

\* The payloads that the input models make of the requests they accept.
Accepted(solver) ==
  {r \in Requests : r.solver = solver
                      /\ ModelValidate(solver, r.fields) # Invalid}

CFDPayloads == {OpenFOAMInput(r.fields) : r \in Accepted("openfoam")}

MDPayloads == {LAMMPSInput(r.fields) : r \in Accepted("lammps")}

Payloads == CFDPayloads \cup MDPayloads

\* What a file of a time directory may be made of, and what a parser returns.
Contents == {Start, Torn} \cup {CaseFiles(p) : p \in CFDPayloads}

Summaries == [time : Nat, of : Contents] \cup [steps : Nat, points : Nat]

\* Requests name cases, and numbers where numbers are due; what is computed
\* is a value like any other; null is no job, request, payload or result;
\* and a torn time directory is none that was left whole.
ASSUME RequestsAssumption ==
  /\ \A p \in CFDPayloads :
       /\ p.case_name \in Cases
       /\ p.iterations \in Nat \ {0} /\ p.write_interval \in Nat \ {0}
       /\ OpenFOAMInput(p) # Invalid => p.inlet_velocity \in DOMAIN ConvergesAt
       /\ {<<p.inlet_velocity, p.turbulence_intensity>>,
           <<p.turbulence_model, p.inlet_k, p.turbulence_length_scale>>}
            \cap {None, Bad, Zero, Required} = {}
  /\ \A p \in MDPayloads :
       /\ p.case_name \in Cases
       /\ p.n_steps \in Nat \ {0} /\ p.output_frequency \in Nat \ {0}
  /\ None \notin Jobs \cup Requests \cup Payloads \cup Summaries
  /\ None \notin {"validation", "build", "solver", "parse"}
  /\ Torn \notin {Start} \cup {CaseFiles(p) : p \in CFDPayloads}
  /\ Zero \notin {None, Bad, Required}

VARIABLES
  stage,    \* of each job
  raw,      \* the request it was made from
  payload,  \* what the router was given
  error,    \* the stage in the record of a FAILED job
  result,   \* the result of a COMPLETED one
  task,     \* what the worker is doing
  dir,      \* the case directories
  built,    \* history: the payloads built in each directory
  crashes

jobVars == <<stage, raw, payload, error, result>>
dirVars == <<dir, built>>
vars == <<jobVars, task, dirVars, crashes>>

Stages ==
  {"new", "refused", "queued", "running", "completed", "failed"}

Empty == [file |-> <<>>, mesh |-> {}, time |-> <<>>, log |-> <<>>]

Idle == [job |-> None, step |-> "idle", valid |-> None, left |-> <<>>,
         input |-> None, due |-> {}]

Init ==
  /\ stage = [j \in Jobs |-> "new"]
  /\ raw = [j \in Jobs |-> None]
  /\ payload = [j \in Jobs |-> None]
  /\ error = [j \in Jobs |-> None]
  /\ result = [j \in Jobs |-> None]
  /\ task = Idle
  /\ dir = [c \in Cases |-> Empty]
  /\ built = [c \in Cases |-> {}]
  /\ crashes = 0

-----------------------------------------------------------------------------
(***************************************************************************)
(* The boundary.                                                           *)
(***************************************************************************)

\* Mutant: the job is given the request with its defaults, as it was before
\* the derivation.
SubmitFilled(j, r) ==
  /\ stage[j] = "new"
  /\ r.solver \in {"openfoam", "lammps"}
  /\ ModelValidate(r.solver, r.fields) # Invalid
  /\ stage' = [stage EXCEPT ![j] = "queued"]
  /\ raw' = [raw EXCEPT ![j] = r]
  /\ payload' = [payload EXCEPT ![j] =
                   IF r.solver = "lammps" THEN Over(r.fields, LAMMPSFields)
                   ELSE Over(r.fields, OpenFOAMFields)]
  /\ UNCHANGED <<error, result, task, dirVars, crashes>>

\* run_cfd_simulation, run_md_simulation and their routes: a valid request is
\* dumped and becomes a job.
Submit(j, r) ==
  /\ stage[j] = "new"
  /\ r.solver \in {"openfoam", "lammps"}
  /\ ModelValidate(r.solver, r.fields) # Invalid
  /\ stage' = [stage EXCEPT ![j] = "queued"]
  /\ raw' = [raw EXCEPT ![j] = r]
  /\ payload' = [payload EXCEPT ![j] = ModelValidate(r.solver, r.fields)]
  /\ UNCHANGED <<error, result, task, dirVars, crashes>>

\* An invalid request, or a structural one (NOT_IMPLEMENTED): there is no job.
Refuse(j, r) ==
  /\ stage[j] = "new"
  /\ \/ ModelValidate(r.solver, r.fields) = Invalid
     \/ r.solver = "freecad"
  /\ stage' = [stage EXCEPT ![j] = "refused"]
  /\ raw' = [raw EXCEPT ![j] = r]
  /\ UNCHANGED <<payload, error, result, task, dirVars, crashes>>

-----------------------------------------------------------------------------
(***************************************************************************)
(* The worker.                                                             *)
(***************************************************************************)

Take(j) ==
  /\ task = Idle
  /\ stage[j] = "queued"
  /\ stage' = [stage EXCEPT ![j] = "running"]
  /\ task' = [Idle EXCEPT !.job = j, !.step = "validate"]
  /\ UNCHANGED <<raw, payload, error, result, dirVars, crashes>>

At(step) == task.step = step

IsOpenFOAM(j) == raw[j].solver = "openfoam"

\* The directory of the job at hand.
Here == task.valid.case_name

Fail(where) ==
  /\ stage' = [stage EXCEPT ![task.job] = "failed"]
  /\ error' = [error EXCEPT ![task.job] = where]
  /\ task' = Idle
  /\ UNCHANGED <<raw, payload, result>>

\* connector.validate_inputs
Validate ==
  /\ At("validate")
  /\ LET valid == ModelValidate(raw[task.job].solver, payload[task.job])
     IN IF valid = Invalid THEN Fail("validation")
        ELSE /\ task' = [task EXCEPT !.valid = valid, !.step = "build"]
             /\ UNCHANGED jobVars
  /\ UNCHANGED <<dirVars, crashes>>

\* build_case up to the mesh: the directories are made before it is looked
\* for, and its files are copied over those of an earlier mesh.
PlaceMesh ==
  /\ At("build")
  /\ IsOpenFOAM(task.job)
  /\ LET ref == task.valid.polymesh_ref
         made == [dir[Here] EXCEPT !.time = Over(@, [t \in {0} |-> Start])]
     IN IF ref \notin DOMAIN MeshFiles
        THEN /\ dir' = [dir EXCEPT ![Here] = made]
             /\ Fail("build")
        ELSE /\ dir' = [dir EXCEPT ![Here] =
                  [made EXCEPT !.mesh =
                     {m \in @ : m.name \notin MeshFiles[ref]}
                       \cup [name : MeshFiles[ref], of : {ref}]]]
             /\ task' = [task EXCEPT !.step = "write",
                                     !.left = CaseOrder(task.valid)]
             /\ UNCHANGED jobVars
  /\ built' = [built EXCEPT ![Here] = @ \cup {task.valid}]
  /\ UNCHANGED crashes

\* Mutant: a file that is there is kept.
WriteIfMissing ==
  /\ At("write")
  /\ task.left # <<>>
  /\ LET name == Head(task.left)
     IN dir' = [dir EXCEPT ![Here].file =
                  Over(@, Written(name, CaseFiles(task.valid)[name], <<>>))]
  /\ task' = [task EXCEPT !.left = Tail(@)]
  /\ UNCHANGED <<jobVars, built, crashes>>

\* The rest of build_case, file by file.
WriteCaseFile ==
  /\ At("write")
  /\ task.left # <<>>
  /\ LET name == Head(task.left)
     IN dir' = [dir EXCEPT ![Here].file =
                  Written(name, CaseFiles(task.valid)[name], @)]
  /\ task' = [task EXCEPT !.left = Tail(@)]
  /\ UNCHANGED <<jobVars, built, crashes>>

\* build_script
WriteScript ==
  /\ At("build")
  /\ ~IsOpenFOAM(task.job)
  /\ dir' = [dir EXCEPT ![Here].file =
               Written("in.lammps", Script(task.valid), @)]
  /\ built' = [built EXCEPT ![Here] = @ \cup {task.valid}]
  /\ task' = [task EXCEPT !.step = "write"]
  /\ UNCHANGED <<jobVars, crashes>>

-----------------------------------------------------------------------------
(***************************************************************************)
(* The solver.                                                             *)
(***************************************************************************)

\* The iteration at which simpleFoam stops, and the times it writes: every
\* interval and, if it converged, the last one.
LastIteration(input) ==
  LET bound == input["controlDict"].iterations
      converges == ConvergesAt[input["U"].inlet_velocity]
  IN IF converges < bound THEN converges ELSE bound

WrittenTimes(input) ==
  {t \in 1..LastIteration(input) :
     \/ t % input["controlDict"].write_interval = 0
     \/ t = ConvergesAt[input["U"].inlet_velocity]}

\* The thermo rows of a LAMMPS run: every interval, the first and the last.
ThermoSteps(script) ==
  {s \in 0..script.n_steps :
     s % script.output_frequency = 0 \/ s = script.n_steps}

\* connector.run: the solver starts; LAMMPS begins its log anew.
StartSolver ==
  /\ At("write")
  /\ task.left = <<>>
  /\ LET file == dir[Here].file
         input == IF IsOpenFOAM(task.job) THEN CaseReads(file)
                  ELSE file["in.lammps"]
     IN /\ task' = [task EXCEPT !.step = "run", !.input = input,
                      !.due = IF IsOpenFOAM(task.job) THEN WrittenTimes(input)
                              ELSE ThermoSteps(input)]
        /\ dir' = IF IsOpenFOAM(task.job) THEN dir
                  ELSE [dir EXCEPT ![Here].log =
                          <<Line("echo", None), Line("header", None)>>]
  /\ UNCHANGED <<jobVars, built, crashes>>

\* The times and the steps that are due are written in their order.
IsNext(t) == t \in task.due /\ \A u \in task.due : t <= u

Put(t, content) ==
  IF IsOpenFOAM(task.job)
  THEN [dir EXCEPT ![Here].time = Written(t, content, @)]
  ELSE [dir EXCEPT ![Here].log = Append(@, Line("row", t))]

SolverWrites(t) ==
  /\ At("run")
  /\ IsNext(t)
  /\ dir' = Put(t, task.input)
  /\ task' = [task EXCEPT !.due = @ \ {t}]
  /\ UNCHANGED <<jobVars, built, crashes>>

\* LAMMPS prints a warning among the rows.
SolverWarns ==
  /\ At("run")
  /\ ~IsOpenFOAM(task.job)
  /\ Last(dir[Here].log).kind = "row"
  /\ dir' = [dir EXCEPT ![Here].log = Append(@, Line("warning", None))]
  /\ UNCHANGED <<jobVars, task, built, crashes>>

\* Exit status zero.
SolverEnds ==
  /\ At("run")
  /\ task.due = {}
  /\ task' = [task EXCEPT !.step = "parse"]
  /\ UNCHANGED <<jobVars, dirVars, crashes>>

\* Killed or diverged, perhaps in the middle of a file: a non-zero status,
\* which becomes a solver-stage error.
SolverFails ==
  /\ At("run")
  /\ \/ dir' = dir
     \/ \E t \in task.due : IsNext(t) /\ IsOpenFOAM(task.job)
                             /\ dir' = Put(t, Torn)
  /\ Fail("solver")
  /\ UNCHANGED <<built, crashes>>

-----------------------------------------------------------------------------
(***************************************************************************)
(* The parsers.                                                            *)
(***************************************************************************)

Complete(summary) ==
  /\ stage' = [stage EXCEPT ![task.job] = "completed"]
  /\ result' = [result EXCEPT ![task.job] = summary]
  /\ task' = Idle
  /\ UNCHANGED <<raw, payload, error>>

\* The fields of the latest time directory; a torn one may parse or not.
ParseCase ==
  /\ At("parse")
  /\ IsOpenFOAM(task.job)
  /\ LET latest == LatestTimeDir(DOMAIN dir[Here].time)
         content == dir[Here].time[latest]
     IN \/ Complete([time |-> latest, of |-> content])
        \/ content = Torn /\ Fail("parse")
  /\ UNCHANGED <<dirVars, crashes>>

\* The rows of the first thermo table in the log.
ParseLog ==
  /\ At("parse")
  /\ ~IsOpenFOAM(task.job)
  /\ LET log == dir[Here].log
         rows == ParseThermo(log)
     IN IF ThermoColumns(log) /\ rows # <<>>
        THEN Complete([steps |-> Last(rows).step, points |-> Len(rows)])
        ELSE Fail("parse")
  /\ UNCHANGED <<dirVars, crashes>>

\* Mutant: the delivery is not repeated.
CrashForgotten ==
  /\ task # Idle
  /\ crashes < MaxCrashes
  /\ task' = Idle
  /\ crashes' = crashes + 1
  /\ UNCHANGED <<jobVars, dirVars>>

\* The worker dies; the delivery is repeated.
Crash ==
  /\ task # Idle
  /\ crashes < MaxCrashes
  /\ stage' = [stage EXCEPT ![task.job] = "queued"]
  /\ task' = Idle
  /\ crashes' = crashes + 1
  /\ UNCHANGED <<raw, payload, error, result, dirVars>>

Next ==
  \/ \E j \in Jobs : \/ \E r \in Requests : Submit(j, r) \/ Refuse(j, r)
                     \/ Take(j)
  \/ Validate
  \/ PlaceMesh
  \/ WriteCaseFile
  \/ WriteScript
  \/ StartSolver
  \/ \E t \in task.due : SolverWrites(t)
  \/ SolverWarns
  \/ SolverEnds
  \/ SolverFails
  \/ ParseCase
  \/ ParseLog
  \/ Crash

Spec == Init /\ [][Next]_vars

-----------------------------------------------------------------------------
(***************************************************************************)
(* Requirements.                                                           *)
(***************************************************************************)

\* The type invariant, with what ties a stage to the rest of a job's record.
TypeOK ==
  /\ stage \in [Jobs -> Stages]
  /\ \A j \in Jobs :
       /\ raw[j] \in Requests \cup {None}
       /\ raw[j] = None <=> stage[j] = "new"
       /\ payload[j] = None <=> stage[j] \in {"new", "refused"}
       /\ error[j] \in {None, "validation", "build", "solver", "parse"}
       /\ error[j] # None <=> stage[j] = "failed"
       /\ result[j] # None <=> stage[j] = "completed"
       /\ stage[j] = "running" <=> task.job = j
  /\ task.step \in {"idle", "validate", "build", "write", "run", "parse"}
  /\ crashes \in 0..MaxCrashes

\* A solver starts from the files of its own job and no others, also in a
\* directory that another case or an interrupted build has left, and where
\* the turbulence model was another one (case_builder.py:279-319).
InputOwn ==
  At("run") =>
    IF IsOpenFOAM(task.job)
    THEN /\ task.input = CaseFiles(payload[task.job])
         \* Of the mesh that holds where no other mesh was placed before.
         /\ (\A q \in built[Here] : "polymesh_ref" \in DOMAIN q =>
               q.polymesh_ref = task.valid.polymesh_ref)
            => \A m \in dir[Here].mesh : m.of = task.valid.polymesh_ref
    ELSE task.input = Script(payload[task.job])

\* A value that a CFD request states reaches the solver: the name and the
\* mesh as the directory and the mesh in it, the intensity and the length
\* scale in what is derived from them, unless that is stated itself, of the
\* relaxation factors those of the case's four fields, and every other field
\* in each file that holds it, of which there is one.
ReachesFoam(stated, f) ==
  LET input == task.input
      States(g) == g \in DOMAIN stated /\ stated[g] # None
      Given(g) == {input[n][g] : n \in {m \in DOMAIN input :
                                          g \in DOMAIN input[m]}}
      active == DissipationField(input["momentumTransport"])
  IN CASE f = "case_name" -> Here = stated[f]
       [] f = "polymesh_ref" ->
            [name : MeshFiles[stated[f]], of : {stated[f]}]
              \subseteq dir[Here].mesh
       [] f = "turbulence_intensity" ->
            \/ States("inlet_k")
            \/ input["k"].inlet_k = <<stated.inlet_velocity, stated[f]>>
       [] f = "turbulence_length_scale" ->
            \/ States("inlet_turbulence_dissipation")
            \/ input[active].inlet_turbulence_dissipation =
                 <<input["momentumTransport"].turbulence_model,
                   input["k"].inlet_k, stated[f]>>
       [] f = "relaxation_factors" ->
            \A x \in DOMAIN stated[f] \cap {"U", "p", "k", active} :
              input["fvSolution"].relaxation_factors[x] = stated[f][x]
       [] OTHER -> Given(f) = {stated[f]}

\* What a request states is what the solver is given, through validation,
\* derivation, the queue, the second validation and the files; only what it
\* leaves out is derived (schemas/openfoam.py:17-23).  None of it is lost but
\* relaxation factors of other fields (case_builder.py:120-127).
StatedValuesReach ==
  At("run") =>
    LET stated == raw[task.job].fields
    IN \A f \in DOMAIN stated :
         stated[f] # None =>
           IF IsOpenFOAM(task.job) THEN ReachesFoam(stated, f)
           ELSE IF f = "case_name" THEN Here = stated[f]
           ELSE task.input[f] = stated[f]

\* The worker's validation gives back the payload that was keyed and queued,
\* and refuses none that the boundary has accepted, except where a derived
\* value underflows (simulations.py:175-177: identical payloads and keys).
RevalidatesSame ==
  /\ task.valid # None => task.valid = payload[task.job]
  /\ \A j \in Jobs :
       error[j] = "validation" => Underflowing(payload[j])

\* A result is read from what this very run has written: the last time it
\* was due to write (0 if none), or the rows of its own table.  The exception
\* is a directory where another payload was to run longer (output_parser.py:32).
ResultOwn ==
  \A j \in Jobs :
    stage[j] = "completed" =>
      IF IsOpenFOAM(j)
      THEN LET own == CaseFiles(payload[j])
               Reached(q) == IF "iterations" \in DOMAIN q
                             THEN {0} \cup WrittenTimes(CaseFiles(q)) ELSE {0}
               last == Max(Reached(payload[j]))
           IN \/ /\ result[j].time = last
                 /\ last # 0 => result[j].of = own
              \/ \E q \in built[payload[j].case_name] :
                    Max(Reached(q)) > last
      ELSE /\ result[j].steps \in ThermoSteps(Script(payload[j]))
           /\ result[j].points =
                Cardinality({s \in ThermoSteps(Script(payload[j])) :
                               s <= result[j].steps})

\* A run that ended well has a result: the parser finds what the solver has
\* written, unless another payload was built in its directory (a longer run
\* of which may have been killed there).
SuccessParsed ==
  \A j \in Jobs :
    error[j] = "parse" =>
      /\ IsOpenFOAM(j)
      /\ \E q \in built[payload[j].case_name] : q # payload[j]

=============================================================================
