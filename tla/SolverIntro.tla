---------------------------- MODULE SolverIntro ----------------------------
(***************************************************************************)
(* POST /api/solver-intro (mcp_server/routes/simulations.py): the text that *)
(* introduces a solver, from the cache or from the language model.  The    *)
(* prompt is fixed per solver, so the solver stands for it.  Requests run  *)
(* concurrently: one LLM call per request that misses.                     *)
(***************************************************************************)
CONSTANTS
  Introduced,  \* the solvers the page has a prompt for
  Visits,      \* bound: requests under way at once
  None,
  Blank        \* the empty text

ASSUME IntroAssumption ==
  None \notin Introduced /\ Blank \notin Introduced \cup {None}

VARIABLES
  intro,  \* intro:<prompt> in Redis
  asked,  \* the solver each request is about, None while it is idle
  stage,  \* where each request is
  text    \* what it answers with: the solver the text introduces, or Blank

introVars == <<intro, asked, stage, text>>

Texts == Introduced \cup {None, Blank}

IntroTypeOK ==
  /\ intro \in [Introduced -> Texts]
  /\ asked \in [Visits -> Introduced \cup {None}]
  /\ stage \in [Visits -> {"idle", "lookup", "model", "answered"}]
  /\ text \in [Visits -> Texts]

IntroInit ==
  /\ intro = [s \in Introduced |-> None]
  /\ asked = [v \in Visits |-> None]
  /\ stage = [v \in Visits |-> "idle"]
  /\ text = [v \in Visits |-> None]

Reach(v, to, words) ==
  /\ stage' = [stage EXCEPT ![v] = to]
  /\ text' = [text EXCEPT ![v] = words]

\* The request arrives.
Ask(v, s) ==
  /\ stage[v] = "idle"
  /\ asked' = [asked EXCEPT ![v] = s]
  /\ Reach(v, "lookup", None)
  /\ UNCHANGED intro

\* cache.get_intro: a hit is served as it is; an outage looks like a
\* miss, and so does an entry whose 28 days are over.
GetIntro(v) ==
  /\ stage[v] = "lookup"
  /\ \/ intro[asked[v]] # None /\ Reach(v, "answered", intro[asked[v]])
     \/ Reach(v, "model", None)
  /\ UNCHANGED <<intro, asked>>

\* cache.store_intro, for a text that is not empty; an outage is swallowed.
StoreIntro(s, words) ==
  \/ UNCHANGED intro
  \/ words # Blank /\ intro' = [intro EXCEPT ![s] = words]

\* One completion of the prompt, which may be an empty message; storing it
\* and answering follow without another await.
Generate(v) ==
  /\ stage[v] = "model"
  /\ \E words \in {asked[v], Blank} :
        StoreIntro(asked[v], words) /\ Reach(v, "answered", words)
  /\ UNCHANGED asked

\* The model raises: an HTTP 500, to the page the same as an empty answer.
ModelRaises(v) ==
  /\ stage[v] = "model"
  /\ Reach(v, "answered", Blank)
  /\ UNCHANGED <<intro, asked>>

\* The page has read the answer.
Forget(v) ==
  /\ stage[v] = "answered"
  /\ asked' = [asked EXCEPT ![v] = None]
  /\ Reach(v, "idle", None)
  /\ UNCHANGED intro

Serve(v) == GetIntro(v) \/ Generate(v) \/ ModelRaises(v)

=============================================================================
