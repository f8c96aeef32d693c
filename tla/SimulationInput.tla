--------------------------- MODULE SimulationInput ---------------------------
(***************************************************************************)
(* The input models of the solvers (mcp_server/schemas): what a request    *)
(* may state, what is filled in for what it does not, and which requests   *)
(* are refused.  A request is a function from the fields it states to      *)
(* their values (sub-models flattened); a payload has every field.         *)
(*                                                                         *)
(* Values are abstract: Bad is any value outside a field's range, and a    *)
(* derived turbulence value is the tuple of what it is computed from.      *)
(* Paths are sequences of segments.                                        *)
(***************************************************************************)
EXTENDS Naturals, Sequences

CONSTANTS
  None,         \* null
  Required,     \* in place of a default: the field must be stated
  Bad,          \* outside the field's range
  Zero,         \* a derived value that underflows to 0.0
  Default,      \* the default of a field whose value does not matter here
  Still,        \* an inlet velocity of magnitude zero
  Underflows,   \* values so small (length scales: so large) that what is
                \* derived from them is 0.0
  Words,        \* path segments that SEGMENT_RE matches
  MeshDefault,  \* mesh/constant/polyMesh
  IterationsDefault, IntervalDefault,
  Invalid       \* not a payload: a ValidationError

ASSUME InputAssumption ==
  /\ MeshDefault \in Seq(Words)
  /\ IterationsDefault \in Nat \ {0}
  /\ IntervalDefault \in Nat \ {0}

\* validate_safe_segment and validate_safe_relpath.
SafeSegment(path) == Len(path) = 1 /\ path[1] \in Words \ {".", ".."}

SafeRelpath(path) ==
  path # <<>> /\ \A i \in DOMAIN path : path[i] \in Words \ {".", ".."}

\* What f states, and g for the rest: defaults under a request, the files of
\* a directory under those that are written to it.
Over(f, g) ==
  [x \in DOMAIN f \cup DOMAIN g |-> IF x \in DOMAIN f THEN f[x] ELSE g[x]]

-----------------------------------------------------------------------------
\* The fields of each model and their defaults.
MeshSpec == [polymesh_ref |-> MeshDefault]

FluidProperties ==
  [kinematic_viscosity |-> Required, turbulence_model |-> "kEpsilon"]

BoundaryConditions ==
  [inlet_velocity |-> Required, outlet_pressure |-> Default, inlet_k |-> None,
   inlet_turbulence_dissipation |-> None, turbulence_intensity |-> Default,
   turbulence_length_scale |-> Default]

SolverControls ==
  [iterations |-> IterationsDefault, convergence_residual |-> Default,
   write_interval |-> IntervalDefault, relaxation_factors |-> None]

OpenFOAMFields ==
  Over([case_name |-> Required],
       Over(Over(MeshSpec, FluidProperties),
            Over(BoundaryConditions, SolverControls)))

LatticeSpec == [reduced_density |-> Required, replicate |-> Required]

PotentialSpec ==
  [epsilon |-> Default, sigma |-> Default, cutoff |-> Required]

EnsembleSpec == [temperature |-> Required]

LAMMPSFields ==
  Over([case_name |-> Required, timestep |-> Required, n_steps |-> Required,
        output_frequency |-> Required],
       Over(LatticeSpec, Over(PotentialSpec, EnsembleSpec)))

FreecadFields ==
  [case_name |-> Required, geometry_ref |-> Required,
   analysis_type |-> "static"]

\* Every field is known, stated if it must be, and in its range.
InRange(raw, fields) ==
  LET p == Over(raw, fields)
  IN /\ DOMAIN raw \subseteq DOMAIN fields
     /\ \A f \in DOMAIN p : /\ p[f] \notin {Bad, Zero, Required}
                            /\ p[f] = None => fields[f] = None
     /\ SafeSegment(p.case_name)

-----------------------------------------------------------------------------
\* Of these values of a payload a derived one may be 0.0.
Underflowing(p) ==
  {p.inlet_velocity, p.inlet_k, p.turbulence_intensity,
   p.turbulence_length_scale} \cap Underflows # {}

\* k = 1.5 (|U| I)^2
Energy(p) ==
  IF {p.inlet_velocity, p.turbulence_intensity} \cap Underflows # {} THEN Zero
  ELSE <<p.inlet_velocity, p.turbulence_intensity>>

\* epsilon or omega, by the model, from k and the length scale.  k^1.5 of
\* epsilon may underflow, the root of k in omega does not; a length scale
\* may be too large for either.
Dissipation(p, k) ==
  IF \/ k = Zero
     \/ k \in Underflows /\ p.turbulence_model = "kEpsilon"
     \/ p.turbulence_length_scale \in Underflows
  THEN Zero
  ELSE <<p.turbulence_model, k, p.turbulence_length_scale>>

\* Mutant: what was stated is derived again when the other one is missing.
DeriveBoth(p) ==
  IF None \notin {p.inlet_k, p.inlet_turbulence_dissipation} THEN p
  ELSE [p EXCEPT !.inlet_k = Energy(p),
                 !.inlet_turbulence_dissipation = Dissipation(p, Energy(p))]

\* _derive_turbulence_inlets: each of the two is derived if it is missing,
\* the dissipation from whatever k then is.  The result is not checked again.
Derive(p) ==
  LET k == IF p.inlet_k = None THEN Energy(p) ELSE p.inlet_k
  IN [p EXCEPT !.inlet_k = k,
               !.inlet_turbulence_dissipation =
                  IF @ = None THEN Dissipation(p, k) ELSE @]

OpenFOAMInput(raw) ==
  LET p == Over(raw, OpenFOAMFields)
      missing == None \in {p.inlet_k, p.inlet_turbulence_dissipation}
  IN IF /\ InRange(raw, OpenFOAMFields)
        /\ SafeRelpath(p.polymesh_ref)
        /\ ~(missing /\ p.inlet_velocity = Still)
     THEN Derive(p) ELSE Invalid

LAMMPSInput(raw) ==
  IF InRange(raw, LAMMPSFields) THEN Over(raw, LAMMPSFields) ELSE Invalid

FreecadInput(raw) ==
  IF InRange(raw, FreecadFields) /\ SafeRelpath(raw.geometry_ref)
  THEN Over(raw, FreecadFields) ELSE Invalid

\* model_validate of the solver's model.
ModelValidate(solver, raw) ==
  CASE solver = "openfoam" -> OpenFOAMInput(raw)
    [] solver = "lammps" -> LAMMPSInput(raw)
    [] solver = "freecad" -> FreecadInput(raw)

=============================================================================
