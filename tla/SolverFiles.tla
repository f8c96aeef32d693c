----------------------------- MODULE SolverFiles -----------------------------
(***************************************************************************)
(* What the connectors write for a solver and read back from it.  A file's *)
(* content is the record of the payload's fields that its text is made of. *)
(***************************************************************************)
EXTENDS SimulationInput, FiniteSets, SequencesExt

CONSTANTS
  Torn,   \* a time directory whose writer was killed
  Start   \* the directory 0 of a case that no solver has written

\* A directory in which `name` has been written.
Written(name, content, files) == Over([x \in {name} |-> content], files)

-----------------------------------------------------------------------------
(***************************************************************************)
(* OpenFOAM (case_builder.py, output_parser.py).                           *)
(***************************************************************************)

DissipationField(p) ==
  IF p.turbulence_model = "kEpsilon" THEN "epsilon" ELSE "omega"

ControlDict(p) ==
  [iterations |-> p.iterations, write_interval |-> p.write_interval]

FvSchemes(p) == [field |-> DissipationField(p)]

\* The factors of the four fields; one stated for any other is left out.
Relaxation(p) ==
  LET rf == p.relaxation_factors
  IN [x \in {"U", "p", "k", DissipationField(p)} |->
        IF rf # None /\ x \in DOMAIN rf THEN rf[x] ELSE Default]

FvSolution(p) ==
  [convergence_residual |-> p.convergence_residual,
   relaxation_factors |-> Relaxation(p), field |-> DissipationField(p)]

TransportProperties(p) == [kinematic_viscosity |-> p.kinematic_viscosity]

MomentumTransport(p) == [turbulence_model |-> p.turbulence_model]

FieldU(p) == [inlet_velocity |-> p.inlet_velocity]

FieldP(p) == [outlet_pressure |-> p.outlet_pressure]

FieldK(p) == [inlet_k |-> p.inlet_k]

FieldDissipation(p) ==
  [inlet_turbulence_dissipation |-> p.inlet_turbulence_dissipation]

FieldNut == [zero |-> 0]

\* The files of a case, and their contents.
CaseFiles(p) ==
  Over([f \in {DissipationField(p)} |-> FieldDissipation(p)],
       [controlDict |-> ControlDict(p), fvSchemes |-> FvSchemes(p),
        fvSolution |-> FvSolution(p),
        transportProperties |-> TransportProperties(p),
        momentumTransport |-> MomentumTransport(p), U |-> FieldU(p),
        p |-> FieldP(p), k |-> FieldK(p), nut |-> FieldNut])

\* The order in which build_case writes them.
CaseOrder(p) ==
  <<"controlDict", "fvSchemes", "fvSolution", "transportProperties",
    "momentumTransport", "U", "p", "k", DissipationField(p), "nut">>

\* What simpleFoam reads of the files in a case: all of these, and the
\* dissipation field of the model that momentumTransport names.
CaseReads(file) ==
  [f \in DOMAIN file \ ({"epsilon", "omega", "in.lammps"}
                          \ {DissipationField(file["momentumTransport"])})
     |-> file[f]]

\* Mutant: by name, so that 4 comes after 12.
LatestByName(times) ==
  LET Digit(t) == IF t < 10 THEN t ELSE t \div 10
  IN CHOOSE t \in times : \A u \in times : Digit(u) <= Digit(t)

\* _latest_time_dir
LatestTimeDir(times) == CHOOSE t \in times : \A u \in times : u <= t

-----------------------------------------------------------------------------
(***************************************************************************)
(* LAMMPS (script_builder.py, output_parser.py).                           *)
(***************************************************************************)

\* render_script: everything but the case's name.
Script(p) == [f \in DOMAIN LAMMPSFields \ {"case_name"} |-> p[f]]

Line(kind, step) == [kind |-> kind, step |-> step]

\* Mutant: any line that has the words of the header.
HeaderAnywhere(line) == line.kind \in {"echo", "header"}

\* The header starts with `Step`; the echo of thermo_style does not.
IsHeader(line) == line.kind = "header"

\* _parse_thermo: the rows from the first header up to the first line that is
\* not a row.
ParseThermo(log) ==
  LET head == SelectInSeq(log, IsHeader)
      rows == {i \in DOMAIN log : i > head
                 /\ \A m \in (head + 1)..i : log[m].kind = "row"}
  IN IF head = 0 THEN <<>> ELSE [i \in 1..Cardinality(rows) |-> log[head + i]]

\* The required columns are those of a header that LAMMPS has printed.
ThermoColumns(log) ==
  LET head == SelectInSeq(log, IsHeader)
  IN head # 0 /\ log[head].kind = "header"

=============================================================================
