---------------------------- MODULE JobLifecycle ----------------------------
(***************************************************************************)
(* What the job service promises, without Redis, queue, workers or files:  *)
(* every job goes PENDING -> RUNNING -> COMPLETED | FAILED, straight to    *)
(* COMPLETED when its answer is already known or to FAILED when it could   *)
(* not be started; the only answer a job can complete with is the one its  *)
(* own payload asks for; and a final status is final.                      *)
(***************************************************************************)
CONSTANTS Jobs, Keys, KeyOf, None

VARIABLES
  status,   \* "none" before a job is submitted
  answer,   \* what each completed job answers
  known     \* the payloads whose answer has been computed and kept

lifecycleVars == <<status, answer, known>>

Init ==
  /\ status = [j \in Jobs |-> "none"]
  /\ answer = [j \in Jobs |-> None]
  /\ known = {}

Move(j, from, to) ==
  /\ status[j] = from
  /\ status' = [status EXCEPT ![j] = to]

Submit(j) ==
  /\ Move(j, "none", "PENDING")
  /\ UNCHANGED <<answer, known>>

Start(j) ==
  /\ Move(j, "PENDING", "RUNNING")
  /\ UNCHANGED <<answer, known>>

\* A running job has computed its answer; later jobs may reuse it.
Learn(j) ==
  /\ status[j] = "RUNNING"
  /\ known' = known \cup {KeyOf[j]}
  /\ UNCHANGED <<status, answer>>

Complete(j) ==
  /\ Move(j, "RUNNING", "COMPLETED")
  /\ answer' = [answer EXCEPT ![j] = KeyOf[j]]
  /\ UNCHANGED known

Recall(j) ==
  /\ KeyOf[j] \in known
  /\ Move(j, "PENDING", "COMPLETED")
  /\ answer' = [answer EXCEPT ![j] = KeyOf[j]]
  /\ UNCHANGED known

Reject(j) ==
  /\ \E from \in {"PENDING", "RUNNING"} : Move(j, from, "FAILED")
  /\ UNCHANGED <<answer, known>>

Next ==
  \E j \in Jobs : Submit(j) \/ Start(j) \/ Learn(j) \/ Complete(j)
                  \/ Recall(j) \/ Reject(j)

Spec == Init /\ [][Next]_lifecycleVars

=============================================================================
