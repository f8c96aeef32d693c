---------------------------- MODULE MCChatStream ----------------------------
(***************************************************************************)
(* Small instances of ChatStream for TLC.                                  *)
(***************************************************************************)
EXTENDS ChatStream, TLC

CONSTANTS j1, j2, j3, j4, k1, k2, k3, t1, t2, d1, openfoam, lammps

\* Two jobs of one payload, so that a later turn can find the earlier one's
\* prose; one of another payload, the next try when the first one fails; and
\* one of the other solver's, for the turn that is not given its own tool.
TwoAndOneEach == j1 :> k1 @@ j2 :> k1 @@ j3 :> k2 @@ j4 :> k3
OneEach == j1 :> k1 @@ j2 :> k2

TwoAndOneLAMMPS == k1 :> openfoam @@ k2 :> openfoam @@ k3 :> lammps
BothOpenFOAM == k1 :> openfoam @@ k2 :> openfoam

\* Everything is listed; or the tool of the bound turn's solver is not.
Everything == {openfoam, lammps, Poll}
FirstMayMiss == t1 :> {Everything, {lammps, Poll}} @@ t2 :> {Everything}
AllListed == t1 :> {Everything}

\* One turn bound to its solver by the page and one that is not.
BoundAndFree == t1 :> openfoam @@ t2 :> None
Bound == t1 :> openfoam

FirstKnown == t1 :> d1 @@ t2 :> None
Known == t1 :> d1

Both == t1 :> {k1, k2, None}
AllAndTheFirst == t1 :> {k1, k2, k3, None} @@ t2 :> {k1}
SecondAsks == t1 :> {} @@ t2 :> {j1}
NoneAsked == t1 :> {}

=============================================================================
