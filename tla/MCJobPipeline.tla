--------------------------- MODULE MCJobPipeline ----------------------------
(***************************************************************************)
(* Small instances of JobPipeline for TLC.                                 *)
(***************************************************************************)
EXTENDS JobPipeline, TLC

CONSTANTS j1, j2, j3, k1, k2, c1, c2, d1, d2

\* Two identical requests, or two different ones.
SameKey == j1 :> k1 @@ j2 :> k1
OwnKeys == j1 :> k1 @@ j2 :> k2
SameKeyAndOne == j1 :> k1 @@ j2 :> k1 @@ j3 :> k2

\* A case name of its own for each payload, or one that two payloads share.
OwnCases == k1 :> c1 @@ k2 :> c2
SharedCase == k1 :> c1 @@ k2 :> c1

\* One device asks about the first job, nobody about any, everyone about all.
AskFirst == d1 :> {j1}
AskNone == <<>>
AskAll == d1 :> {j1, j2} @@ d2 :> {j1, j2}

=============================================================================
