------------------------------ MODULE JobStore ------------------------------
(***************************************************************************)
(* execution/job_store.py and the solver half of execution/cache.py: the   *)
(* job records under job:<id>, the results under cache:<sha256> and the    *)
(* Celery queue, all in one Redis that can be unreachable for a while.     *)
(*                                                                         *)
(* A payload is known only by its cache key (KeyOf), and what a solver run *)
(* leaves on disk, parses to or copies away is known only by the key of    *)
(* the input it was computed from: the member k of Keys is "what a clean   *)
(* run of input k produces", and Torn is any incomplete or mixed content.  *)
(***************************************************************************)
EXTENDS Naturals

CONSTANTS
  Jobs,         \* job ids (uuid4, never reused)
  Keys,         \* cache keys: the SHA-256 of the normalised (solver, payload)
  Devices,      \* browser device ids that history is scoped to
  KeyOf,        \* the cache key of each job's payload
  None,         \* Python's None
  Torn,         \* incomplete or mixed files
  MaxOutages    \* bound: how often Redis becomes unreachable

Output == Keys \cup {Torn}

Terminal == {"COMPLETED", "FAILED"}
Status == {"PENDING", "RUNNING"} \cup Terminal

\* Where a failure is recorded to have happened (the code and the message
\* that go with the stage are left out).
Stages == {"validation", "build", "solver", "parse", "worker"}

Record == [status: Status, ref: Jobs \cup {None}, result: Output \cup {None},
           error: Stages \cup {None}, owner: Devices \cup {None},
           note: Output \cup {None}]

\* The arguments of one set_status call.
Call == [status: Status, ref: Jobs \cup {None}, result: Output \cup {None},
         error: Stages \cup {None}]

Entry == [ref: Jobs, result: Output]

ASSUME JobStoreAssumption ==
  /\ KeyOf \in [Jobs -> Keys]
  /\ None \notin Jobs \cup Output \cup Devices \cup Stages
  /\ None \notin Record \cup Entry
  /\ Torn \notin Keys
  /\ MaxOutages \in Nat

VARIABLES
  rec,       \* job:<id>: the record, None while it does not exist
  cache,     \* cache:<key>: [ref, result], None on a miss
  queue,     \* Celery: how many deliveries of a job's task are waiting
  redis,     \* "up" or "down"
  outages    \* how many outages have begun

storeVars == <<rec, cache, queue, redis, outages>>

StoreTypeOK ==
  /\ rec \in [Jobs -> Record \cup {None}]
  /\ cache \in [Keys -> Entry \cup {None}]
  /\ queue \in [Jobs -> Nat]
  /\ redis \in {"up", "down"}
  /\ outages \in 0 .. MaxOutages

StoreInit ==
  /\ rec = [j \in Jobs |-> None]
  /\ cache = [k \in Keys |-> None]
  /\ queue = [j \in Jobs |-> 0]
  /\ redis = "up"
  /\ outages = 0

-----------------------------------------------------------------------------
\* create_job: the record a new job starts from.
NewRecord == [status |-> "PENDING", ref |-> None, result |-> None,
              error |-> None, owner |-> None, note |-> None]

\* `x if given is None else given`: an argument left out keeps the field.
Given(arg, old) == IF arg = None THEN old ELSE arg

\* The record set_status writes back over the one it read.
WithStatus(r, c) ==
  [status |-> c.status, ref |-> Given(c.ref, r.ref),
   result |-> Given(c.result, r.result), error |-> Given(c.error, r.error),
   owner |-> r.owner, note |-> r.note]

\* _update(job_id, owner=d) and _update(job_id, interpretation=t).
WithOwner(r, d) == [r EXCEPT !.owner = d]
WithNote(r, t) == [r EXCEPT !.note = t]

\* The calls the router and the worker make.
RunningCall == [status |-> "RUNNING", ref |-> None, result |-> None,
                error |-> None]
\* Mutant: an outcome that is not a job status.
FailedAsError(stage) == [status |-> "ERROR", ref |-> None, result |-> None,
                         error |-> stage]

FailedCall(stage) == [status |-> "FAILED", ref |-> None, result |-> None,
                      error |-> stage]
CompletedCall(entry) == [status |-> "COMPLETED", ref |-> entry.ref,
                         result |-> entry.result, error |-> None]

\* _public_view: what GET /jobs/<id> and the MCP tools return.
PublicView(r) ==
  [status |-> r.status,
   ref |-> IF r.status = "COMPLETED" THEN r.ref ELSE None,
   result |-> IF r.status = "COMPLETED" THEN r.result ELSE None,
   error |-> IF r.status = "FAILED" THEN r.error ELSE None]

\* _list_view: what a history card shows; every field, whatever the status.
ListView(r) ==
  [status |-> r.status, ref |-> r.ref, result |-> r.result,
   error |-> r.error, note |-> r.note]

\* list_jobs(owner): the jobs in one device's history.
History(d) == {j \in Jobs : rec[j] # None /\ rec[j].owner = d}

-----------------------------------------------------------------------------
\* Redis becomes unreachable, and comes back with what it held.
GoDown ==
  /\ redis = "up"
  /\ outages < MaxOutages
  /\ redis' = "down"
  /\ outages' = outages + 1
  /\ UNCHANGED <<rec, cache, queue>>

ComeBack ==
  /\ redis = "down"
  /\ redis' = "up"
  /\ UNCHANGED <<rec, cache, queue, outages>>

=============================================================================
