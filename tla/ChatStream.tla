----------------------------- MODULE ChatStream -----------------------------
(***************************************************************************)
(* GET /api/chat (mcp_server/routes/simulations.py): one process per chat  *)
(* turn.  It builds the agent, then handles the agent's events one by one  *)
(* (tool starts, tool ends, text), keeps the few locals named below, and   *)
(* at the end caches and persists the prose it has collected.              *)
(*                                                                         *)
(* The language model behind the agent is external: between events it may  *)
(* call any tool it was given, several at once, write text, stop or raise. *)
(* The jobs keep the promise of the job service (JobLifecycle): a final    *)
(* status is final, a completed job answers its own payload.  Tool         *)
(* arguments are named by the cache key of the payload they validate to    *)
(* (None if they do not), and a text by the answer it is about.            *)
(*                                                                         *)
(* Turns run in several server processes, so that every call of Redis is a *)
(* step of its own: an update of a job's record (job_store.py:119-127) is  *)
(* a get and, some time later, a set of the whole record.                  *)
(***************************************************************************)
EXTENDS Naturals, FiniteSets

CONSTANTS
  Jobs, Keys, KeyOf,   \* as in JobLifecycle: the payload of each job
  None,
  Turns,        \* chat requests
  Devices,      \* browser identifiers
  DeviceOf,     \* the device a turn sends, None if it is blank
  Solvers,      \* registered solvers
  SolverOf,     \* the solver whose tool takes the payload of each key
  Poll,         \* the tool get_job_status
  Lists,        \* bound: the sets of tools discovery may list to each turn
  Selected,     \* the solver the page sends with each turn, None if none
  Streams,      \* the turns whose model streams its text
  Wanted,       \* what each turn's agent may be led to run: payloads, and
                \* None if it may also state arguments that are invalid
  AsksFor,      \* the earlier jobs each turn's engineer may ask about
  MaxCalls,     \* bound: tool calls the agent has in flight at once
  Disciplined,  \* whether the agent follows one simulation at a time
  Absent,       \* the entry interp_key while `found` does not have it
  Chatter,      \* text about no result
  Mixed         \* text about more than one thing

ASSUME ChatAssumption ==
  /\ KeyOf \in [Jobs -> Keys]
  /\ DeviceOf \in [Turns -> Devices \cup {None}]
  /\ SolverOf \in [Keys -> Solvers]
  /\ Lists \in [Turns -> SUBSET SUBSET (Solvers \cup {Poll})]
  /\ Selected \in [Turns -> Solvers \cup {None}]
  /\ Streams \subseteq Turns
  /\ Wanted \in [Turns -> SUBSET (Keys \cup {None})]
  /\ AsksFor \in [Turns -> SUBSET Jobs]
  /\ MaxCalls \in Nat \ {0}
  /\ Disciplined \in BOOLEAN
  /\ None \notin Jobs \cup Keys \cup Devices \cup Solvers
  /\ Poll \notin Solvers \cup {None}
  /\ Absent \notin Keys \cup {None}
  /\ Chatter \notin Keys \cup {None}
  /\ Mixed \notin Keys \cup {None, Chatter}

VARIABLES
  status,  \* the jobs' status, PENDING and RUNNING taken together
  prose,   \* the interpretation cache: interp:<key>
  owner,   \* the device in each job's record
  note,    \* the interpretation in each job's record
  phase,   \* where each turn is
  turn,    \* its locals, while it runs
  calls,   \* its tool calls, started and not ended
  told     \* what its `done` told the page

storeVars == <<prose, owner, note>>
turnVars == <<phase, turn, calls, told>>
vars == <<status, storeVars, turnVars>>

Statuses == {"none", "open", "COMPLETED", "FAILED"}

Text == Keys \cup {None, Chatter, Mixed}

\* What a turn writes of a job's record, and so may write back.
Record == [owner : Devices \cup {None}, note : Text]

Locals == [
  tools : SUBSET (Solvers \cup {Poll}),   \* given to its agent
  solver : Solvers \cup {None},        \* current_solver["name"]
  job : Jobs \cup {None},              \* found["job_id"]
  result : Keys \cup {None},           \* found["result"]
  args : Keys \cup {None},             \* found["sim_args"]
  key : Keys \cup {None, Absent},      \* found["interp_key"]
  cached : Text,                       \* found["interp_cached"]
  seen : Jobs \cup {None},             \* last_seen_job_id
  state : Statuses,                    \* the status seen with it
  segment : Text,                      \* text since the last tool result
  text : Text,                         \* final_text: all text of the turn
  record : Record,                     \* job_store._update's copy
  late : BOOLEAN]                      \* whether the 120 s are over

Call == [args : Keys \cup {None}, job : Jobs \cup {None}]

\* What `done` carries; `given` is history: the tools the agent had.
Done == [job : Jobs \cup {None}, result : Keys \cup {None}, prose : Text,
         solver : Solvers \cup {None}, given : SUBSET (Solvers \cup {Poll})]

Fresh(t) ==
  [tools |-> {}, solver |-> Selected[t], job |-> None, result |-> None,
   args |-> None, key |-> Absent, cached |-> None, seen |-> None,
   state |-> "none", segment |-> None, text |-> None,
   record |-> [owner |-> None, note |-> None], late |-> FALSE]

Silent == [job |-> None, result |-> None, prose |-> None, solver |-> None,
           given |-> {}]

\* "broken": by an outage while the turn was being persisted.
Ended == {"done", "error", "lost", "broken"}

\* Before and between the calls of Redis that persist a turn.
Persisting == {"owner", "owning", "note", "noting"}

\* The type invariant; what a turn has told, it has told in `done`.
TypeOK ==
  /\ status \in [Jobs -> Statuses]
  /\ prose \in [Keys -> Text]
  /\ owner \in [Jobs -> Devices \cup {None}]
  /\ note \in [Jobs -> Text]
  /\ phase \in [Turns -> {"sent", "stream", "replay", "store"}
                            \cup Persisting \cup Ended]
  /\ turn \in [Turns -> Locals]
  /\ calls \in [Turns -> SUBSET Call]
  /\ told \in [Turns -> Done]
  /\ \A t \in Turns : told[t] # Silent => phase[t] = "done"

Init ==
  /\ status = [j \in Jobs |-> "none"]
  /\ prose = [k \in Keys |-> None]
  /\ owner = [j \in Jobs |-> None]
  /\ note = [j \in Jobs |-> None]
  /\ phase = [t \in Turns |-> "sent"]
  /\ turn = [t \in Turns |-> Fresh(t)]
  /\ calls = [t \in Turns |-> {}]
  /\ told = [t \in Turns |-> Silent]

GoTo(t, to) == phase' = [phase EXCEPT ![t] = to]

\* The generator is over, and its locals with it.  A tool call that is under
\* way goes on without it.
End(t, how, words) ==
  /\ GoTo(t, how)
  /\ turn' = [turn EXCEPT ![t] = Fresh(t)]
  /\ calls' = [calls EXCEPT ![t] = {c \in @ : c.job = None}]
  /\ told' = [told EXCEPT ![t] = words]

-----------------------------------------------------------------------------
(***************************************************************************)
(* Opening the turn.                                                       *)
(***************************************************************************)

\* A blank message is answered at once, with an empty `done`.
AnswerBlank(t) ==
  /\ phase[t] = "sent"
  /\ End(t, "done", Silent)
  /\ UNCHANGED <<status, storeVars>>

\* Mutant: the agent keeps every tool, whatever solver is selected.
BuildUnbound(t) ==
  /\ phase[t] = "sent"
  /\ \E listed \in Lists[t] :
        turn' = [turn EXCEPT ![t].tools = listed]
  /\ GoTo(t, "stream")
  /\ UNCHANGED <<status, storeVars, calls, told>>

\* build_agent: the tools the MCP server lists, narrowed to the run tool of
\* the selected solver and the poll tool.  If that run tool is not listed,
\* all the others are kept.
BuildAgent(t) ==
  /\ phase[t] = "sent"
  /\ \E listed \in Lists[t] :
        turn' = [turn EXCEPT ![t].tools =
                   IF Selected[t] \in listed
                   THEN listed \cap {Selected[t], Poll} ELSE listed]
  /\ GoTo(t, "stream")
  /\ UNCHANGED <<status, storeVars, calls, told>>

\* Mutant: the error is told together with what was found.
AgentRaisesLate(t) ==
  /\ phase[t] \in {"sent", "stream"}
  /\ End(t, "error", [job |-> turn[t].job, result |-> turn[t].result,
                      prose |-> turn[t].cached, solver |-> turn[t].solver,
                      given |-> turn[t].tools])
  /\ UNCHANGED <<status, storeVars>>

\* Anything raised by the agent or the model (the recursion limit included)
\* becomes an error event.
AgentRaises(t) ==
  /\ phase[t] \in {"sent", "stream"}
  /\ End(t, "error", Silent)
  /\ UNCHANGED <<status, storeVars>>

-----------------------------------------------------------------------------
(***************************************************************************)
(* Events.  The clock is looked at when an event arrives, and only then.   *)
(***************************************************************************)

Event(t) == phase[t] = "stream" /\ ~turn[t].late

\* 120 s have passed since the agent was built.
Tick(t) ==
  /\ phase[t] = "stream"
  /\ ~turn[t].late
  /\ turn' = [turn EXCEPT ![t].late = TRUE]
  /\ UNCHANGED <<status, storeVars, phase, calls, told>>

\* Mutant: the message has to name a job.
TimeoutWithJob(t) ==
  /\ phase[t] = "stream"
  /\ turn[t].late
  /\ turn[t].seen # None
  /\ End(t, "error", Silent)
  /\ UNCHANGED <<status, storeVars>>

\* The first event after that ends the turn.
Timeout(t) ==
  /\ phase[t] = "stream"
  /\ turn[t].late
  /\ End(t, "error", Silent)
  /\ UNCHANGED <<status, storeVars>>

\* The agent's choice of its next call.  The prompts ask for one simulation
\* at a time: submit, poll that job, summarise; submit again if it failed.
MayRun(t) ==
  /\ Cardinality(calls[t]) < MaxCalls
  /\ Disciplined => turn[t].seen = None \/ turn[t].state = "FAILED"

MayPoll(t, j) ==
  /\ Poll \in turn[t].tools
  /\ Cardinality(calls[t]) < MaxCalls
  /\ status[j] # "none"
  /\ KeyOf[j] \in Wanted[t] \/ j \in AsksFor[t]
  /\ Disciplined =>
       /\ turn[t].state # "COMPLETED"
       /\ \/ turn[t].seen = j
          \/ turn[t].seen = None /\ turn[t].args = None /\ j \in AsksFor[t]

Runnable(t, s) == {k \in Wanted[t] : k # None => SolverOf[k] = s}

\* on_tool_start of a run tool: its solver if none is bound, its arguments;
\* a call that states none leaves those of the call before it.
StartRun(t, s, args) ==
  /\ Event(t)
  /\ MayRun(t)
  /\ s \in turn[t].tools
  /\ \E kept \in {args} \cup (IF args = None THEN {turn[t].args} ELSE {}) :
        turn' = [turn EXCEPT ![t].solver = IF @ = None THEN s ELSE @,
                             ![t].args = kept]
  /\ calls' = [calls EXCEPT ![t] = @ \cup {[args |-> args, job |-> None]}]
  /\ UNCHANGED <<status, storeVars, phase, told>>

\* on_tool_start of get_job_status.
StartPoll(t, j) ==
  /\ Event(t)
  /\ MayPoll(t, j)
  /\ calls' = [calls EXCEPT ![t] = @ \cup {[args |-> None, job |-> j]}]
  /\ UNCHANGED <<status, storeVars, phase, turn, told>>

\* The MCP server runs the call: router.submit_job makes a job.  The call is
\* under way even if the turn has ended meanwhile.
Submit(t, c, j) ==
  /\ c \in calls[t]
  /\ c.job = None
  /\ KeyOf[j] = c.args
  /\ status[j] = "none"
  /\ status' = [status EXCEPT ![j] = "open"]
  /\ calls' = [calls EXCEPT ![t] = (@ \ {c}) \cup {[c EXCEPT !.job = j]}]
  /\ UNCHANGED <<storeVars, phase, turn, told>>

\* The call is refused (invalid arguments) or raises (Redis, broker), before
\* or after it made the job: on_tool_error is none of the events handled.
ToolFails(t, c) ==
  /\ Event(t)
  /\ c \in calls[t]
  /\ calls' = [calls EXCEPT ![t] = @ \ {c}]
  /\ UNCHANGED <<status, storeVars, phase, turn, told>>

\* _interpretation_cache_key: no key without a solver, without arguments or
\* for arguments that the solver's input model rejects.
InterpretationKey(s, args) ==
  IF args = None THEN None
  ELSE IF s = SolverOf[args] THEN args ELSE None

\* cache.get_interpretation; an outage looks like a miss.
Interpretations(key) == IF key = None THEN {None} ELSE {prose[key], None}

\* The locals when job j's result has been read from a tool's output.
Shown(t, j) ==
  [turn[t] EXCEPT !.seen = j, !.state = status[j],
                  !.job = IF status[j] = "COMPLETED" THEN j ELSE @,
                  !.result = IF status[j] = "COMPLETED" THEN KeyOf[j] ELSE @]

\* on_tool_end.  A COMPLETED result is kept, and the first one decides the
\* key under which the prose to come is looked for: if it is there, the turn
\* leaves the loop.
ToolEnd(t, c) ==
  /\ Event(t)
  /\ c \in calls[t]
  /\ c.job # None
  /\ calls' = [calls EXCEPT ![t] = @ \ {c}]
  /\ LET now == [Shown(t, c.job) EXCEPT !.segment = None]
         key == InterpretationKey(now.solver, now.args)
     IN IF now.state # "COMPLETED" \/ now.key # Absent
        THEN turn' = [turn EXCEPT ![t] = now] /\ UNCHANGED phase
        ELSE \E text \in Interpretations(key) :
               /\ turn' = [turn EXCEPT ![t] = [now EXCEPT !.key = key,
                                                          !.cached = text]]
               /\ GoTo(t, IF text = None THEN "stream" ELSE "replay")
  /\ UNCHANGED <<status, storeVars, told>>

\* What the model writes about after the last tool result.
Subject(t) ==
  IF turn[t].state = "COMPLETED" THEN KeyOf[turn[t].seen] ELSE Chatter

Joined(text, more) == IF text \in {None, more} THEN more ELSE Mixed

\* on_chat_model_stream, once no call is in flight.
Write(t) ==
  /\ Event(t)
  /\ t \in Streams
  /\ calls[t] = {}
  /\ turn' = [turn EXCEPT ![t].segment = Joined(@, Subject(t)),
                          ![t].text = Joined(@, Subject(t))]
  /\ UNCHANGED <<status, storeVars, phase, calls, told>>

\* on_chat_model_end of a model that does not stream: the whole message is
\* taken, but only while the turn has no text yet.
WriteWhole(t) ==
  /\ Event(t)
  /\ t \notin Streams
  /\ calls[t] = {}
  /\ turn[t].text = None
  /\ turn' = [turn EXCEPT ![t].segment = Subject(t), ![t].text = Subject(t)]
  /\ UNCHANGED <<status, storeVars, phase, calls, told>>

\* The agent's last event.
AgentEnds(t) ==
  /\ Event(t)
  /\ calls[t] = {}
  /\ GoTo(t, "store")
  /\ UNCHANGED <<status, storeVars, turn, calls, told>>

-----------------------------------------------------------------------------
(***************************************************************************)
(* After the loop.                                                         *)
(***************************************************************************)

\* A hit: the cached prose is streamed instead of the model's.
Replay(t) ==
  /\ phase[t] = "replay"
  /\ turn' = [turn EXCEPT ![t].text = Joined(@, turn[t].cached)]
  /\ GoTo(t, "owner")
  /\ UNCHANGED <<status, storeVars, calls, told>>

\* Mutant: the whole answer of the turn is cached.
StoreWhole(t) ==
  /\ phase[t] = "store"
  /\ \/ /\ turn[t].result # None
        /\ turn[t].key \notin {None, Absent}
        /\ turn[t].segment # None
        /\ prose' = [prose EXCEPT ![turn[t].key] = turn[t].text]
     \/ UNCHANGED prose
  /\ GoTo(t, "owner")
  /\ UNCHANGED <<status, owner, note, turn, calls, told>>

\* A miss: the segment is cached, if there is one; an outage is swallowed.
Store(t) ==
  /\ phase[t] = "store"
  /\ \/ /\ turn[t].result # None
        /\ turn[t].key \notin {None, Absent}
        /\ turn[t].segment # None
        /\ prose' = [prose EXCEPT ![turn[t].key] = turn[t].segment]
     \/ UNCHANGED prose
  /\ GoTo(t, "owner")
  /\ UNCHANGED <<status, owner, note, turn, calls, told>>

\* job_store._update begins: the record as it is now.
Copy(t, to) ==
  /\ turn' = [turn EXCEPT ![t].record =
                [owner |-> owner[turn[t].job], note |-> note[turn[t].job]]]
  /\ GoTo(t, to)
  /\ UNCHANGED <<status, storeVars, calls, told>>

\* Mutant: a turn served from the cache counts as attributed already.
ReadForOwnerOnMiss(t) ==
  /\ phase[t] = "owner"
  /\ IF turn[t].job # None /\ DeviceOf[t] # None /\ turn[t].cached = None
     THEN Copy(t, "owning")
     ELSE /\ GoTo(t, "note")
          /\ UNCHANGED <<status, storeVars, turn, calls, told>>

\* job_store.set_owner is called if a job was found and the device is known.
ReadForOwner(t) ==
  /\ phase[t] = "owner"
  /\ IF turn[t].job # None /\ DeviceOf[t] # None
     THEN Copy(t, "owning")
     ELSE /\ GoTo(t, "note")
          /\ UNCHANGED <<status, storeVars, turn, calls, told>>

\* ... and writes the record back, with the interpretation it was read with.
SetOwner(t) ==
  /\ phase[t] = "owning"
  /\ owner' = [owner EXCEPT ![turn[t].job] = DeviceOf[t]]
  /\ note' = [note EXCEPT ![turn[t].job] = turn[t].record.note]
  /\ GoTo(t, "note")
  /\ UNCHANGED <<status, prose, turn, calls, told>>

\* Mutant: everything the turn wrote.
WholeText(t) == turn[t].text

\* interpretation_text
Interpretation(t) ==
  IF turn[t].cached # None THEN turn[t].cached ELSE turn[t].segment

\* What `done` tells.
Found(t) == [job |-> turn[t].job, result |-> turn[t].result,
             prose |-> Interpretation(t), solver |-> turn[t].solver,
             given |-> turn[t].tools]

\* job_store.set_interpretation is called if a job was found and there is an
\* interpretation; if not, `done` comes at once.
ReadForNote(t) ==
  /\ phase[t] = "note"
  /\ IF turn[t].job # None /\ Interpretation(t) # None
     THEN Copy(t, "noting")
     ELSE End(t, "done", Found(t)) /\ UNCHANGED <<status, storeVars>>

\* ... and writes the record back, with the owner it was read with; then
\* `done`.
SetNote(t) ==
  /\ phase[t] = "noting"
  /\ owner' = [owner EXCEPT ![turn[t].job] = turn[t].record.owner]
  /\ note' = [note EXCEPT ![turn[t].job] = Interpretation(t)]
  /\ End(t, "done", Found(t))
  /\ UNCHANGED <<status, prose>>

\* Redis fails while the turn is persisted: nothing catches it, and the
\* stream ends without a last event.
Breaks(t) ==
  /\ phase[t] \in Persisting
  /\ turn[t].job # None
  /\ End(t, "broken", Silent)
  /\ UNCHANGED <<status, storeVars>>

\* The browser goes away; the generator is closed at its next yield.
Disconnect(t) ==
  /\ phase[t] \in {"sent", "stream", "replay"}
  /\ End(t, "lost", Silent)
  /\ UNCHANGED <<status, storeVars>>

-----------------------------------------------------------------------------
\* The steps the server takes on its own, the agent's next event included once
\* the time is over.
ServerStep(t) ==
  \/ AnswerBlank(t)
  \/ BuildAgent(t)
  \/ Timeout(t)
  \/ Replay(t)
  \/ Store(t)
  \/ ReadForOwner(t)
  \/ SetOwner(t)
  \/ ReadForNote(t)
  \/ SetNote(t)

\* What the agent, its model and its tools do.
AgentStep(t) ==
  \/ AgentRaises(t)
  \/ \E s \in Solvers : \E args \in Runnable(t, s) : StartRun(t, s, args)
  \/ \E j \in Jobs : StartPoll(t, j)
  \/ \E c \in calls[t] : \/ \E j \in Jobs : Submit(t, c, j)
                         \/ ToolFails(t, c)
                         \/ ToolEnd(t, c)
  \/ Write(t)
  \/ WriteWhole(t)
  \/ AgentEnds(t)

TurnStep(t) == ServerStep(t) \/ AgentStep(t)

\* Workers and the router's cache hits: a job ends, COMPLETED with the answer
\* to its own payload (JobLifecycle), or FAILED.
Settle(j) ==
  /\ status[j] = "open"
  /\ \E outcome \in {"COMPLETED", "FAILED"} :
        status' = [status EXCEPT ![j] = outcome]
  /\ UNCHANGED <<storeVars, turnVars>>

Next ==
  \/ \E t \in Turns : TurnStep(t) \/ Tick(t) \/ Breaks(t) \/ Disconnect(t)
  \/ \E j \in Jobs : Settle(j)

Spec == Init /\ [][Next]_vars

\* The server goes on, the clock runs, and an agent that is still at work
\* after 120 s has another event.  Before that the agent owes nothing, no job
\* has to make progress, and nobody has to disconnect.
FairSpec == Spec /\ \A t \in Turns : WF_vars(ServerStep(t) \/ Tick(t))

-----------------------------------------------------------------------------
(***************************************************************************)
(* Requirements.                                                           *)
(***************************************************************************)

\* The prose cached under a key interprets the answer to that key's payload,
\* never another one's and never narration, and there is such an answer
\* (cache.py:17-19: what is served in place of the model's last call).
InterpretationsSound ==
  \A k \in Keys :
     prose[k] # None =>
       /\ prose[k] = k
       /\ \E j \in Jobs : status[j] = "COMPLETED" /\ KeyOf[j] = k

\* The interpretation in a job's record is about that job's result, although
\* turns on the same payload write and read the cache at the same time
\* (simulations.py:464-476).
NotesSound == \A j \in Jobs : note[j] \in {None, KeyOf[j]}

\* What `done` tells the page belongs together: job, result, prose and, when
\* the page has bound the turn to a solver, the solver whose card shows them
\* (simulations.py:477-485; unbound, the first run tool's solver stays).  But
\* an agent that was not given the selected solver's tool, because discovery
\* did not list it, runs another solver under the selected one's name
\* (agent.py:225-235).
DoneSound ==
  \A t \in Turns :
     told[t].job # None =>
       /\ told[t].result = KeyOf[told[t].job]
       /\ told[t].prose \in {None, told[t].result}
       /\ Selected[t] # None =>
            \/ told[t].solver = SolverOf[told[t].result]
            \/ Selected[t] \notin told[t].given

\* A turn without a device that has persisted the job, and may have written
\* back a record it had read before there was an owner.
BlankTurn(j) == \E u \in Turns : DeviceOf[u] = None /\ told[u].job = j

\* A turn that writes the owner of the job and has not written its
\* interpretation: it still will, or has none, or broke off.
HalfPersisted(j) ==
  \E u \in Turns :
     /\ DeviceOf[u] # None
     /\ \/ phase[u] \in {"note", "noting"} /\ turn[u].job = j
        \/ told[u].job = j /\ told[u].prose = None
        \/ phase[u] = "broken"

\* A job that a turn reports is in a device's history by then, together with
\* the prose reported, since the page reloads its history on `done`
\* (simulations.py:464-476); only an update of the same record by another
\* turn, begun before and finished after, can take the owner out again
\* (a turn without a device) or the prose (one that has not got to its own).
DoneRecorded ==
  \A t \in Turns :
     told[t].job # None =>
       /\ DeviceOf[t] # None =>
            owner[told[t].job] # None \/ BlankTurn(told[t].job)
       /\ told[t].prose # None =>
            note[told[t].job] # None \/ HalfPersisted(told[t].job)

\* Every turn ends, also when its job stays RUNNING for ever and the agent
\* goes on polling it (simulations.py:341-345).
TurnEnds == <>(\A t \in Turns : phase[t] \in Ended)

=============================================================================
