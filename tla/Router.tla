------------------------------- MODULE Router -------------------------------
(***************************************************************************)
(* mcp_server/router.py: submit_job, one process per submission.  Each     *)
(* Redis round trip is a step; between two of them the workers and the     *)
(* other submissions run.  A Redis or broker error at any step is raised   *)
(* to the caller, except by cache.get, which turns it into a miss.         *)
(***************************************************************************)
EXTENDS JobStore

CONSTANT Unhashable   \* payloads with an inf or a nan, which have no key

ASSUME RouterAssumption == Unhashable \subseteq Keys

VARIABLES
  spc,      \* where each submission is
  sentry,   \* the cache entry a submission found
  sview     \* the status in the view submit_job returned

routerVars == <<spc, sentry, sview>>

RouterTypeOK ==
  /\ spc \in [Jobs -> {"new", "created", "hit", "miss", "served", "sent",
                       "returned", "aborted"}]
  /\ sentry \in [Jobs -> Entry \cup {None}]
  /\ sview \in [Jobs -> Status \cup {None}]

RouterInit ==
  /\ spc = [j \in Jobs |-> "new"]
  /\ sentry = [j \in Jobs |-> None]
  /\ sview = [j \in Jobs |-> None]

Advance(j, pc) == spc' = [spc EXCEPT ![j] = pc]

-----------------------------------------------------------------------------
\* job_store.create_job(job_id, solver_name, payload)
Create(j) ==
  /\ spc[j] = "new"
  /\ redis = "up"
  /\ rec' = [rec EXCEPT ![j] = NewRecord]
  /\ Advance(j, "created")
  /\ UNCHANGED <<cache, queue, redis, outages, sentry, sview>>

\* cache.cache_key, then cache.get; an outage reads as a miss.
LookUp(j) ==
  /\ spc[j] = "created"
  /\ KeyOf[j] \notin Unhashable
  /\ LET found == IF redis = "up" THEN cache[KeyOf[j]] ELSE None
     IN /\ sentry' = [sentry EXCEPT ![j] = found]
        /\ Advance(j, IF found = None THEN "miss" ELSE "hit")
  /\ UNCHANGED <<storeVars, sview>>

\* Mutant: no return after a hit; the job is dispatched as well.
ServeAndDispatch(j) ==
  /\ spc[j] = "hit"
  /\ redis = "up"
  /\ rec' = [rec EXCEPT ![j] = WithStatus(rec[j], CompletedCall(sentry[j]))]
  /\ Advance(j, "miss")
  /\ UNCHANGED <<cache, queue, redis, outages, sentry, sview>>

\* The hit branch's set_status.  Nobody else knows the id of a job that was
\* neither returned nor dispatched, so its get and set are one step.
Serve(j) ==
  /\ spc[j] = "hit"
  /\ redis = "up"
  /\ rec' = [rec EXCEPT ![j] = WithStatus(rec[j], CompletedCall(sentry[j]))]
  /\ Advance(j, "served")
  /\ UNCHANGED <<cache, queue, redis, outages, sentry, sview>>

\* run_simulation.delay
Dispatch(j) ==
  /\ spc[j] = "miss"
  /\ redis = "up"
  /\ queue' = [queue EXCEPT ![j] = @ + 1]
  /\ Advance(j, "sent")
  /\ UNCHANGED <<rec, cache, redis, outages, sentry, sview>>

\* return job_store.get_job(job_id)
Answer(j) ==
  /\ spc[j] \in {"served", "sent"}
  /\ redis = "up"
  /\ sview' = [sview EXCEPT ![j] = PublicView(rec[j]).status]
  /\ Advance(j, "returned")
  /\ UNCHANGED <<storeVars, sentry>>

\* Any call but cache.get raises while Redis is down.
RaiseOutage(j) ==
  /\ spc[j] \in {"new", "hit", "miss", "served", "sent"}
  /\ redis = "down"
  /\ Advance(j, "aborted")
  /\ UNCHANGED <<storeVars, sentry, sview>>

\* log10 of an inf or a nan raises in _normalise.
RaiseUnhashable(j) ==
  /\ spc[j] = "created"
  /\ KeyOf[j] \in Unhashable
  /\ Advance(j, "aborted")
  /\ UNCHANGED <<storeVars, sentry, sview>>

RouterStep(j) ==
  \/ Create(j)
  \/ LookUp(j)
  \/ Serve(j)
  \/ Dispatch(j)
  \/ Answer(j)
  \/ RaiseOutage(j)
  \/ RaiseUnhashable(j)

=============================================================================
