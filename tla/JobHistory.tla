----------------------------- MODULE JobHistory -----------------------------
(***************************************************************************)
(* The end of GET /api/chat (mcp_server/routes/simulations.py): when a     *)
(* tool result showed a COMPLETED job, the chat turn tags the job with the *)
(* device it serves (set_owner) and with the prose about its result        *)
(* (set_interpretation).  Each is a get and a set of the whole record.     *)
(* One process per device: a browser runs one chat turn at a time.         *)
(***************************************************************************)
EXTENDS JobStore

CONSTANT Asks   \* the jobs each device asks about, by submitting or by id

ASSUME HistoryAssumption == Asks \in [Devices -> SUBSET Jobs]

VARIABLES
  hpc,     \* the step of each device's chat turn
  hjob,    \* the completed job it saw, None between turns
  hrec,    \* the record _update has read
  hnote    \* the result its prose is about, None if there is none

historyVars == <<hpc, hjob, hrec, hnote>>

HistoryTypeOK ==
  /\ hpc \in [Devices -> {"chat", "readOwner", "writeOwner", "readNote",
                          "writeNote"}]
  /\ hjob \in [Devices -> Jobs \cup {None}]
  /\ hrec \in [Devices -> Record \cup {None}]
  /\ hnote \in [Devices -> Output \cup {None}]

HistoryInit ==
  /\ hpc = [d \in Devices |-> "chat"]
  /\ hjob = [d \in Devices |-> None]
  /\ hrec = [d \in Devices |-> None]
  /\ hnote = [d \in Devices |-> None]

TurnTo(d, pc) == hpc' = [hpc EXCEPT ![d] = pc]

\* The turn is over; nothing of it is kept on the server.
EndTurn(d) ==
  /\ TurnTo(d, "chat")
  /\ hjob' = [hjob EXCEPT ![d] = None]
  /\ hrec' = [hrec EXCEPT ![d] = None]
  /\ hnote' = [hnote EXCEPT ![d] = None]

\* on_tool_end: a submit result or a status poll shows j COMPLETED with a
\* result; the agent's prose about it may come out empty (None).
SeeCompleted(d, j) ==
  /\ hpc[d] = "chat"
  /\ redis = "up"
  /\ j \in Asks[d]
  /\ rec[j] # None
  /\ LET view == PublicView(rec[j])
     IN /\ view.status = "COMPLETED"
        /\ view.result # None
        /\ \E prose \in {view.result, None} :
              hnote' = [hnote EXCEPT ![d] = prose]
  /\ hjob' = [hjob EXCEPT ![d] = j]
  /\ TurnTo(d, "readOwner")
  /\ UNCHANGED <<storeVars, hrec>>

\* _update: client.get
ReadForUpdate(d) ==
  /\ hpc[d] \in {"readOwner", "readNote"}
  /\ redis = "up"
  /\ hrec' = [hrec EXCEPT ![d] = rec[hjob[d]]]
  /\ TurnTo(d, IF hpc[d] = "readOwner" THEN "writeOwner" ELSE "writeNote")
  /\ UNCHANGED <<storeVars, hjob, hnote>>

\* Mutant: one read of the record serves both updates.
WriteOwnerThenNote(d) ==
  /\ hpc[d] = "writeOwner"
  /\ redis = "up"
  /\ rec' = [rec EXCEPT ![hjob[d]] = WithOwner(hrec[d], d)]
  /\ TurnTo(d, "writeNote")
  /\ UNCHANGED <<cache, queue, redis, outages, hjob, hrec, hnote>>

\* set_owner: client.set.  Without prose there is nothing more to save.
WriteOwner(d) ==
  /\ hpc[d] = "writeOwner"
  /\ redis = "up"
  /\ rec' = [rec EXCEPT ![hjob[d]] = WithOwner(hrec[d], d)]
  /\ IF hnote[d] = None
     THEN EndTurn(d)
     ELSE /\ hrec' = [hrec EXCEPT ![d] = None]
          /\ TurnTo(d, "readNote")
          /\ UNCHANGED <<hjob, hnote>>
  /\ UNCHANGED <<cache, queue, redis, outages>>

\* set_interpretation: client.set
WriteNote(d) ==
  /\ hpc[d] = "writeNote"
  /\ redis = "up"
  /\ rec' = [rec EXCEPT ![hjob[d]] = WithNote(hrec[d], hnote[d])]
  /\ EndTurn(d)
  /\ UNCHANGED <<cache, queue, redis, outages>>

\* A Redis error here is outside the generator's try: the stream just ends.
TurnRaises(d) ==
  /\ hpc[d] # "chat"
  /\ redis = "down"
  /\ EndTurn(d)
  /\ UNCHANGED storeVars

HistoryStep(d) ==
  \/ \E j \in Jobs : SeeCompleted(d, j)
  \/ ReadForUpdate(d)
  \/ WriteOwner(d)
  \/ WriteNote(d)
  \/ TurnRaises(d)

=============================================================================
