--------------------------- MODULE MCCaseWorkspace ---------------------------
(***************************************************************************)
(* Requests for CaseWorkspace, each there for something the code decides.  *)
(***************************************************************************)
EXTENDS CaseWorkspace

CONSTANTS j1, j2, given, flow, tiny, huge

Words0 == {".", "..", "duct", "step", "melt", "mesh", "other", "beam"}

Duct == <<"duct">>
Step == <<"step">>
Melt == <<"melt">>

Seeded == <<"mesh">>
Other == <<"other">>

\* The second mesh has a file that the first one lacks.
TwoMeshes == Seeded :> {"points", "faces"} @@ Other :> {"points", "zones"}

\* Multiples of 4 up to 12; `flow` converges before, `Still` never does.
Convergence == flow :> 10 @@ Still :> 99

CFD(fields) == [solver |-> "openfoam", fields |-> fields]
MD(fields) == [solver |-> "lammps", fields |-> fields]
FEM(fields) == [solver |-> "freecad", fields |-> fields]

Plain == [case_name |-> Duct, kinematic_viscosity |-> given,
          inlet_velocity |-> flow]

CFDRequests == {CFD(f) : f \in {
  Plain,
  \* the defaults stated, nulls included
  Plain @@ [iterations |-> IterationsDefault, inlet_k |-> None,
            write_interval |-> IntervalDefault, outlet_pressure |-> given,
            convergence_residual |-> given],
  \* ends before its first write; a factor of the other model's field
  Plain @@ [iterations |-> 3,
            relaxation_factors |-> [p |-> given, omega |-> given]],
  \* the other model, one inlet value stated, the other one derived
  Plain @@ [turbulence_model |-> "kOmegaSST", inlet_k |-> given,
            turbulence_intensity |-> given, turbulence_length_scale |-> given,
            relaxation_factors |-> [U |-> given, omega |-> given, T |-> given]],
  Plain @@ [inlet_turbulence_dissipation |-> given, polymesh_ref |-> Other,
            turbulence_intensity |-> given],
  \* no flow: both values stated, and only one
  [Plain EXCEPT !.inlet_velocity = Still]
    @@ [inlet_k |-> given, inlet_turbulence_dissipation |-> given],
  [Plain EXCEPT !.inlet_velocity = Still] @@ [inlet_k |-> given],
  \* what is derived underflows: from the velocity, the intensity, a stated
  \* energy or a length scale
  [Plain EXCEPT !.inlet_velocity = tiny],
  Plain @@ [turbulence_intensity |-> tiny],
  Plain @@ [inlet_k |-> tiny],
  Plain @@ [turbulence_model |-> "kOmegaSST", turbulence_length_scale |-> huge],
  \* a mesh that is not there, paths that are not safe, unknown, bad fields
  Plain @@ [polymesh_ref |-> Step],
  Plain @@ [polymesh_ref |-> <<"..", "mesh">>],
  [Plain EXCEPT !.case_name = <<"duct", "x">>],
  [Plain EXCEPT !.kinematic_viscosity = Bad],
  Plain @@ [replicate |-> given]}}

MeltFields ==
  [case_name |-> Melt, reduced_density |-> given, replicate |-> given,
   cutoff |-> given, temperature |-> given, timestep |-> given,
   n_steps |-> 5, output_frequency |-> 2]

MDRequests == {MD(f) : f \in {
  MeltFields,
  [MeltFields EXCEPT !.n_steps = 1],
  [MeltFields EXCEPT !.case_name = Duct] @@ [epsilon |-> given, sigma |-> given],
  [MeltFields EXCEPT !.replicate = Bad]}}

FEMRequests == {FEM(f) : f \in {
  [case_name |-> <<"beam">>, geometry_ref |-> <<"beam">>],
  [case_name |-> <<"beam">>, geometry_ref |-> <<"", "beam">>]}}

AllRequests == CFDRequests \cup MDRequests \cup FEMRequests

AllCases == {Duct, Melt}

=============================================================================
