-------------------------- MODULE ChatStreamProofs --------------------------
(***************************************************************************)
(* What a chat turn keeps, caches and tells, for any number of turns, jobs *)
(* and payloads.                                                           *)
(***************************************************************************)
EXTENDS ChatStream, FiniteSetTheorems, TLAPS

USE ChatAssumption

-----------------------------------------------------------------------------
\* Locals, in which a status was seen with its job.
Local(L) == L \in Locals /\ (L.seen = None => L.state = "none")

TypeInv == TypeOK /\ \A t \in Turns : Local(turn[t])

Phases == {"sent", "stream", "replay", "store"} \cup Persisting \cup Ended

\* A step of a turn, as opposed to one of a job.
Step(t) == TurnStep(t) \/ Tick(t) \/ Breaks(t) \/ Disconnect(t)

\* The turn goes on, in phase p, with locals L and calls C.
GoesOn(t, p, L, C) ==
  /\ phase' = [phase EXCEPT ![t] = p]
  /\ turn' = [turn EXCEPT ![t] = L]
  /\ calls' = [calls EXCEPT ![t] = C]
  /\ UNCHANGED told

\* What a turn keeps while it streams, and what it keeps of a tool's result.
LEMMA LocalsTypes ==
  ASSUME NEW L, Local(L)
  PROVE  /\ \A x \in SUBSET (Solvers \cup {Poll}) :
              Local([L EXCEPT !.tools = x])
         /\ Local([L EXCEPT !.late = TRUE])
         /\ \A s \in Solvers \cup {None}, a \in Keys \cup {None} :
              Local([L EXCEPT !.solver = s, !.args = a])
         /\ \A g \in Text, x \in Text :
              Local([L EXCEPT !.segment = g, !.text = x])
         /\ \A x \in Text : Local([L EXCEPT !.text = x])
         /\ Local([L EXCEPT !.segment = None])
         /\ \A x \in Record : Local([L EXCEPT !.record = x])
         /\ \A k \in Keys \cup {None, Absent}, x \in Text :
              Local([L EXCEPT !.key = k, !.cached = x])
         /\ \A n \in Jobs, s \in Statuses,
               j \in Jobs \cup {None}, r \in Keys \cup {None} :
              Local([L EXCEPT !.seen = n, !.state = s, !.job = j,
                              !.result = r])
<1>. USE DEF Local, Locals
<1>1. \A x \in SUBSET (Solvers \cup {Poll}) : Local([L EXCEPT !.tools = x])
  OBVIOUS
<1>2. Local([L EXCEPT !.late = TRUE])
  OBVIOUS
<1>3. \A a \in Solvers \cup {None}, b \in Keys \cup {None} :
        Local([L EXCEPT !.solver = a, !.args = b])
  OBVIOUS
<1>4. \A g \in Text, x \in Text : Local([L EXCEPT !.segment = g, !.text = x])
  OBVIOUS
<1>5. \A x \in Text : Local([L EXCEPT !.text = x])
  OBVIOUS
<1>6. Local([L EXCEPT !.segment = None])
  BY DEF Text
<1>7. \A k \in Keys \cup {None, Absent}, x \in Text :
        Local([L EXCEPT !.key = k, !.cached = x])
  OBVIOUS
<1>8. \A n \in Jobs, a \in Statuses,
         j \in Jobs \cup {None}, r \in Keys \cup {None} :
        Local([L EXCEPT !.seen = n, !.state = a, !.job = j, !.result = r])
  OBVIOUS
<1>9. \A x \in Record : Local([L EXCEPT !.record = x])
  OBVIOUS
<1>. QED
  BY <1>1, <1>2, <1>3, <1>4, <1>5, <1>6, <1>7, <1>8, <1>9

LEMMA FreshType ==
  /\ \A t \in Turns : Local(Fresh(t))
  /\ Silent \in Done
BY DEF Fresh, Local, Locals, Silent, Done, Statuses, Text, Record

LEMMA TextTypes ==
  /\ \A x \in Text, y \in Text : Joined(x, y) \in Text
  /\ Keys \subseteq Text /\ None \in Text /\ Chatter \in Text
BY DEF Joined, Text

LEMMA SubjectType ==
  ASSUME TypeInv, NEW t \in Turns
  PROVE  Subject(t) \in Text
BY DEF TypeInv, Local, Locals, Subject, Text

\* The generator's end leaves nothing of the turn but what it said.
LEMMA EndType ==
  ASSUME TypeInv, NEW t \in Turns, phase[t] \notin Ended,
         NEW how \in Ended, NEW words \in Done,
         how = "done" \/ words = Silent,
         End(t, how, words), UNCHANGED status,
         prose' \in [Keys -> Text],
         owner' \in [Jobs -> Devices \cup {None}],
         note' \in [Jobs -> Text]
  PROVE  TypeInv'
<1>. USE FreshType DEF TypeInv, TypeOK, End, GoTo
<1>1. /\ status' \in [Jobs -> Statuses]
      /\ phase' \in [Turns -> {"sent", "stream", "replay", "store"}
                                 \cup Persisting \cup Ended]
      /\ turn' \in [Turns -> Locals]
      /\ told' \in [Turns -> Done]
  BY DEF Ended, Local
<1>2. calls' \in [Turns -> SUBSET Call]
  OBVIOUS
<1>3. \A u \in Turns : told'[u] # Silent => phase'[u] = "done"
  BY DEF Ended
<1>4. \A u \in Turns : Local(turn'[u])
  OBVIOUS
<1>. QED
  BY <1>1, <1>2, <1>3, <1>4

\* A turn that goes on.
LEMMA GoesOnType ==
  ASSUME TypeInv, NEW t \in Turns, phase[t] \notin Ended,
         NEW p \in Phases, NEW L, Local(L), NEW C \in SUBSET Call,
         GoesOn(t, p, L, C), UNCHANGED <<status, owner, note>>,
         prose' \in [Keys -> Text]
  PROVE  TypeInv'
BY DEF TypeInv, TypeOK, GoesOn, Phases, Ended, Local


\* What a step of a turn finds.
LEMMA StepFinds ==
  ASSUME TypeInv, NEW t \in Turns
  PROVE  /\ Local(turn[t])
         /\ calls[t] \in SUBSET Call
         /\ phase[t] \in Phases
         /\ phase = [phase EXCEPT ![t] = phase[t]]
         /\ turn = [turn EXCEPT ![t] = turn[t]]
         /\ calls = [calls EXCEPT ![t] = calls[t]]
         /\ status \in [Jobs -> Statuses]
         /\ prose \in [Keys -> Text]
         /\ owner \in [Jobs -> Devices \cup {None}]
         /\ note \in [Jobs -> Text]
BY DEF TypeInv, TypeOK, Phases

\* What comes of a tool's result.
Read(t, j) == [Shown(t, j) EXCEPT !.segment = None]

LEMMA ReadType ==
  ASSUME TypeInv, NEW t \in Turns, NEW j \in Jobs
  PROVE  /\ Local(Read(t, j))
         /\ InterpretationKey(Read(t, j).solver, Read(t, j).args)
              \in Keys \cup {None}
         /\ \A k \in Keys \cup {None} : Interpretations(k) \subseteq Text
<1>1. Local(Shown(t, j))
  <2>. DEFINE jb == IF status[j] = "COMPLETED" THEN j ELSE turn[t].job
              rs == IF status[j] = "COMPLETED" THEN KeyOf[j]
                                               ELSE turn[t].result
  <2>1. /\ Local(turn[t])
        /\ status[j] \in Statuses
        /\ jb \in Jobs \cup {None}
        /\ rs \in Keys \cup {None}
    BY StepFinds DEF Local, Locals
  <2>2. Shown(t, j) = [turn[t] EXCEPT !.seen = j, !.state = status[j],
                                      !.job = jb, !.result = rs]
    BY DEF Shown
  <2>. HIDE DEF jb, rs
  <2>3. Local([turn[t] EXCEPT !.seen = j, !.state = status[j], !.job = jb,
                              !.result = rs])
    BY <2>1, LocalsTypes
  <2>. QED
    BY <2>2, <2>3
<1>2. Local(Read(t, j))
  BY <1>1, LocalsTypes DEF Read
<1>3. \A s : \A a \in Keys \cup {None} :
        InterpretationKey(s, a) \in Keys \cup {None}
  BY DEF InterpretationKey
<1>4. Read(t, j).args \in Keys \cup {None}
  BY <1>2 DEF Local, Locals
<1>5. \A k \in Keys \cup {None} : Interpretations(k) \subseteq Text
  BY StepFinds, TextTypes DEF Interpretations
<1>. QED
  BY <1>2, <1>3, <1>4, <1>5

\* What can come of a tool's result: the turn streams on, or looks for prose
\* that is cached.
ReadOn(t, c) ==
  /\ Read(t, c.job).state # "COMPLETED" \/ Read(t, c.job).key # Absent
  /\ GoesOn(t, "stream", Read(t, c.job), calls[t] \ {c})

LookedUp(t, c, k, text) ==
  [Read(t, c.job) EXCEPT !.key = k, !.cached = text]

ReadAndLook(t, c, k, text) ==
  /\ Read(t, c.job).state = "COMPLETED"
  /\ k = InterpretationKey(Read(t, c.job).solver, Read(t, c.job).args)
  /\ text \in Interpretations(k)
  /\ GoesOn(t, IF text = None THEN "stream" ELSE "replay",
            LookedUp(t, c, k, text), calls[t] \ {c})

LEMMA ToolEndSteps ==
  ASSUME TypeInv, NEW t \in Turns, NEW c, ToolEnd(t, c)
  PROVE  /\ phase[t] = "stream"
         /\ c \in calls[t] /\ c.job \in Jobs
         /\ UNCHANGED <<status, storeVars>>
         /\ \/ ReadOn(t, c)
            \/ \E k \in Keys \cup {None}, text \in Text :
                 ReadAndLook(t, c, k, text)
<1>1. /\ phase[t] = "stream"
      /\ c \in calls[t] /\ c.job \in Jobs
      /\ UNCHANGED <<status, storeVars>>
      /\ calls' = [calls EXCEPT ![t] = calls[t] \ {c}]
      /\ phase = [phase EXCEPT ![t] = phase[t]]
      /\ UNCHANGED told
  <2>1. c \in calls[t] /\ c \in Call
    BY StepFinds DEF ToolEnd
  <2>2. c.job \in Jobs
    BY <2>1 DEF ToolEnd, Call
  <2>. QED
    BY <2>1, <2>2, StepFinds DEF ToolEnd, Event
<1>. DEFINE now == Read(t, c.job)
            key == InterpretationKey(now.solver, now.args)
<1>2. CASE now.state # "COMPLETED" \/ now.key # Absent
  <2>1. turn' = [turn EXCEPT ![t] = now] /\ UNCHANGED phase
    BY <1>2 DEF ToolEnd, Read
  <2>. QED
    BY <1>1, <1>2, <2>1 DEF ReadOn, GoesOn
<1>3. CASE now.state = "COMPLETED" /\ now.key = Absent
  <2>1. PICK text \in Interpretations(key) :
          /\ turn' = [turn EXCEPT ![t] =
                       [now EXCEPT !.key = key, !.cached = text]]
          /\ GoTo(t, IF text = None THEN "stream" ELSE "replay")
    BY <1>3 DEF ToolEnd, Read
  <2>2. key \in Keys \cup {None} /\ text \in Text
    BY <1>1, ReadType
  <2>3. ReadAndLook(t, c, key, text)
    BY <1>1, <1>3, <2>1 DEF ReadAndLook, GoesOn, GoTo, LookedUp
  <2>. QED
    BY <1>1, <2>2, <2>3
<1>. QED
  BY <1>2, <1>3

LEMMA ToolEndType ==
  ASSUME TypeInv, NEW t \in Turns, NEW c, ToolEnd(t, c)
  PROVE  TypeInv'
<1>1. /\ phase[t] = "stream" /\ c.job \in Jobs
      /\ UNCHANGED <<status, owner, note>>
      /\ prose' \in [Keys -> Text]
      /\ Local(Read(t, c.job))
      /\ "stream" \in Phases /\ "replay" \in Phases
      /\ "stream" \notin Ended
      /\ calls[t] \ {c} \in SUBSET Call
  BY ToolEndSteps, StepFinds, ReadType DEF storeVars, Phases, Ended
<1>2. CASE ReadOn(t, c)
  BY <1>1, <1>2, GoesOnType DEF ReadOn
<1>3. ASSUME NEW k \in Keys \cup {None}, NEW text \in Text,
             ReadAndLook(t, c, k, text)
      PROVE  TypeInv'
  <2>1. Local(LookedUp(t, c, k, text))
    BY <1>1, LocalsTypes DEF LookedUp
  <2>. QED
    BY <1>1, <1>3, <2>1, GoesOnType DEF ReadAndLook
<1>. QED
  BY <1>2, <1>3, ToolEndSteps

LEMMA RunnableType ==
  \A t \in Turns : \A s : Runnable(t, s) \subseteq Keys \cup {None}
BY DEF Runnable

\* Every step finds what it works on, and leaves what it should.
LEMMA StepType ==
  ASSUME TypeInv, NEW t \in Turns, Step(t)
  PROVE  TypeInv'
<1>0. /\ Local(turn[t]) /\ calls[t] \in SUBSET Call
      /\ phase = [phase EXCEPT ![t] = phase[t]]
      /\ turn = [turn EXCEPT ![t] = turn[t]]
      /\ calls = [calls EXCEPT ![t] = calls[t]]
      /\ prose \in [Keys -> Text]
      /\ owner \in [Jobs -> Devices \cup {None}]
      /\ note \in [Jobs -> Text]
      /\ {"sent", "stream", "replay", "store"} \cup Persisting \subseteq Phases
      /\ ({"sent", "stream", "replay", "store"} \cup Persisting) \cap Ended = {}
      /\ {"owner", "owning", "note", "noting"} = Persisting
  BY StepFinds DEF Phases, Ended, Persisting
<1>1. CASE AnswerBlank(t) \/ AgentRaises(t) \/ Timeout(t) \/ Breaks(t)
           \/ Disconnect(t)
  BY <1>0, <1>1, FreshType, EndType
     DEF AnswerBlank, AgentRaises, Timeout, Breaks, Disconnect, storeVars,
         Ended
<1>2. CASE BuildAgent(t)
  <2>1. PICK x \in SUBSET (Solvers \cup {Poll}) :
          turn' = [turn EXCEPT ![t].tools = x]
    BY <1>2 DEF BuildAgent
  <2>. DEFINE L == [turn[t] EXCEPT !.tools = x]
  <2>2. Local(L)
    BY <1>0, LocalsTypes
  <2>3. GoesOn(t, "stream", L, calls[t])
    BY <1>0, <1>2, <2>1 DEF BuildAgent, GoesOn, GoTo
  <2>. HIDE DEF L
  <2>. QED
    BY <1>0, <1>2, <2>2, <2>3, GoesOnType DEF BuildAgent, storeVars
<1>3. CASE Tick(t)
  <2>. DEFINE L == [turn[t] EXCEPT !.late = TRUE]
  <2>1. Local(L)
    BY <1>0, LocalsTypes
  <2>2. GoesOn(t, "stream", L, calls[t])
    BY <1>0, <1>3 DEF Tick, GoesOn
  <2>. HIDE DEF L
  <2>. QED
    BY <1>0, <1>3, <2>1, <2>2, GoesOnType DEF Tick, storeVars
<1>4. ASSUME NEW s \in Solvers, NEW a \in Keys \cup {None}, StartRun(t, s, a)
      PROVE  TypeInv'
  <2>1. PICK kept \in Keys \cup {None} :
          turn' = [turn EXCEPT ![t].solver = IF @ = None THEN s ELSE @,
                               ![t].args = kept]
    BY <1>0, <1>4 DEF StartRun, Local, Locals
  <2>. DEFINE sv == IF turn[t].solver = None THEN s ELSE turn[t].solver
  <2>2. sv \in Solvers \cup {None}
    BY <1>0 DEF Local, Locals
  <2>3. turn' = [turn EXCEPT ![t] = [turn[t] EXCEPT !.solver = sv,
                                                    !.args = kept]]
    BY <2>1
  <2>. HIDE DEF sv
  <2>. DEFINE L == [turn[t] EXCEPT !.solver = sv, !.args = kept]
              C == calls[t] \cup {[args |-> a, job |-> None]}
  <2>4. Local(L)
    BY <1>0, <2>2, LocalsTypes
  <2>5. C \in SUBSET Call
    BY <1>0 DEF Call
  <2>6. GoesOn(t, "stream", L, C)
    BY <1>0, <1>4, <2>3 DEF StartRun, Event, GoesOn
  <2>. HIDE DEF L, C
  <2>. QED
    BY <1>0, <1>4, <2>4, <2>5, <2>6, GoesOnType DEF StartRun, Event, storeVars
<1>5. ASSUME NEW j \in Jobs, StartPoll(t, j) PROVE TypeInv'
  <2>. DEFINE C == calls[t] \cup {[args |-> None, job |-> j]}
  <2>1. C \in SUBSET Call
    BY <1>0 DEF Call
  <2>2. GoesOn(t, "stream", turn[t], C)
    BY <1>0, <1>5 DEF StartPoll, Event, GoesOn
  <2>. HIDE DEF C
  <2>. QED
    BY <1>0, <1>5, <2>1, <2>2, GoesOnType DEF StartPoll, Event, storeVars
<1>6. ASSUME NEW c, NEW j \in Jobs, Submit(t, c, j) PROVE TypeInv'
  <2>1. [c EXCEPT !.job = j] \in Call
    BY <1>0, <1>6 DEF Submit, Call
  <2>. QED
    BY <1>6, <2>1 DEF Submit, TypeInv, TypeOK, storeVars, Statuses
<1>7. ASSUME NEW c, ToolFails(t, c) PROVE TypeInv'
  <2>. DEFINE C == calls[t] \ {c}
  <2>1. C \in SUBSET Call
    BY <1>0
  <2>2. GoesOn(t, "stream", turn[t], C)
    BY <1>0, <1>7 DEF ToolFails, Event, GoesOn
  <2>. HIDE DEF C
  <2>. QED
    BY <1>0, <1>7, <2>1, <2>2, GoesOnType DEF ToolFails, Event, storeVars
<1>8. ASSUME NEW c, ToolEnd(t, c) PROVE TypeInv'
  BY <1>8, ToolEndType
<1>9. CASE Write(t) \/ WriteWhole(t)
  <2>1. PICK g \in Text, x \in Text :
          turn' = [turn EXCEPT ![t].segment = g, ![t].text = x]
    <3>1. turn[t].segment \in Text /\ turn[t].text \in Text
      BY <1>0 DEF Local, Locals
    <3>. QED
      BY <1>9, <3>1, TextTypes, SubjectType DEF Write, WriteWhole
  <2>. DEFINE L == [turn[t] EXCEPT !.segment = g, !.text = x]
  <2>2. Local(L)
    BY <1>0, LocalsTypes
  <2>3. GoesOn(t, "stream", L, calls[t])
    <3>1. turn' = [turn EXCEPT ![t] = L]
      BY <2>1
    <3>. QED
      BY <1>0, <1>9, <3>1 DEF Write, WriteWhole, Event, GoesOn
  <2>. HIDE DEF L
  <2>. QED
    BY <1>0, <1>9, <2>2, <2>3, GoesOnType
       DEF Write, WriteWhole, Event, storeVars
<1>10. CASE AgentEnds(t)
  <2>1. GoesOn(t, "store", turn[t], calls[t])
    BY <1>0, <1>10 DEF AgentEnds, GoesOn, GoTo
  <2>. QED
    BY <1>0, <1>10, <2>1, GoesOnType DEF AgentEnds, Event, storeVars
<1>11. CASE Replay(t)
  <2>. DEFINE x == Joined(turn[t].text, turn[t].cached)
              L == [turn[t] EXCEPT !.text = x]
  <2>1. x \in Text
    BY <1>0, TextTypes DEF Local, Locals
  <2>2. Local(L)
    BY <1>0, <2>1, LocalsTypes
  <2>3. GoesOn(t, "owner", L, calls[t])
    BY <1>0, <1>11 DEF Replay, GoesOn, GoTo
  <2>. HIDE DEF L, x
  <2>. QED
    BY <1>0, <1>11, <2>2, <2>3, GoesOnType DEF Replay, storeVars
<1>12. CASE Store(t)
  <2>1. turn[t].segment \in Text /\ turn[t].key \in Keys \cup {None, Absent}
    BY <1>0 DEF Local, Locals
  <2>2. prose' \in [Keys -> Text]
    BY <1>0, <1>12, <2>1 DEF Store
  <2>3. GoesOn(t, "owner", turn[t], calls[t])
    BY <1>0, <1>12 DEF Store, GoesOn, GoTo
  <2>. QED
    BY <1>0, <1>12, <2>2, <2>3, GoesOnType DEF Store
<1>13. ASSUME NEW p \in Persisting, turn[t].job \in Jobs, Copy(t, p),
              phase[t] \notin Ended
       PROVE  TypeInv'
  <2>. DEFINE x == [owner |-> owner[turn[t].job], note |-> note[turn[t].job]]
              L == [turn[t] EXCEPT !.record = x]
  <2>1. x \in Record
    BY <1>0, <1>13 DEF Record
  <2>. HIDE DEF x
  <2>2. Local(L)
    BY <1>0, <2>1, LocalsTypes
  <2>3. GoesOn(t, p, L, calls[t])
    BY <1>0, <1>13 DEF Copy, GoesOn, GoTo, x
  <2>. HIDE DEF L
  <2>. QED
    BY <1>0, <1>13, <2>2, <2>3, GoesOnType DEF Copy, storeVars
<1>14. turn[t].job # None => turn[t].job \in Jobs
  BY <1>0 DEF Local, Locals
<1>15. CASE ReadForOwner(t)
  <2>1. CASE Copy(t, "owning") /\ turn[t].job # None
    BY <1>0, <1>13, <1>14, <1>15, <2>1 DEF ReadForOwner
  <2>2. CASE /\ GoTo(t, "note")
             /\ UNCHANGED <<status, storeVars, turn, calls, told>>
    <3>1. GoesOn(t, "note", turn[t], calls[t])
      BY <1>0, <2>2 DEF GoesOn, GoTo
    <3>. QED
      BY <1>0, <1>15, <2>2, <3>1, GoesOnType DEF ReadForOwner, storeVars
  <2>. QED
    BY <1>15, <2>1, <2>2 DEF ReadForOwner
<1>16. turn[t].record.owner \in Devices \cup {None}
       /\ turn[t].record.note \in Text
  BY <1>0 DEF Local, Locals, Record
<1>17. CASE SetOwner(t)
  <2>1. /\ owner' \in [Jobs -> Devices \cup {None}]
        /\ note' \in [Jobs -> Text]
    BY <1>0, <1>16, <1>17 DEF SetOwner
  <2>2. /\ phase' \in [Turns -> {"sent", "stream", "replay", "store"}
                                \cup Persisting \cup Ended]
        /\ phase[t] # "done"
        /\ \A u \in Turns \ {t} : phase'[u] = phase[u]
    BY <1>17 DEF SetOwner, GoTo, TypeInv, TypeOK, Persisting
  <2>3. UNCHANGED <<status, prose, turn, calls, told>>
    BY <1>17 DEF SetOwner
  <2>. QED
    BY <2>1, <2>2, <2>3 DEF TypeInv, TypeOK
<1>18. Found(t) \in Done /\ Interpretation(t) \in Text
  BY <1>0 DEF Found, Done, Interpretation, Local, Locals
<1>19. CASE ReadForNote(t)
  <2>1. CASE Copy(t, "noting") /\ turn[t].job # None
    BY <1>0, <1>13, <1>14, <1>19, <2>1 DEF ReadForNote
  <2>2. CASE End(t, "done", Found(t)) /\ UNCHANGED <<status, storeVars>>
    BY <1>0, <1>18, <1>19, <2>2, EndType DEF ReadForNote, storeVars, Ended
  <2>. QED
    BY <1>19, <2>1, <2>2 DEF ReadForNote
<1>20. CASE SetNote(t)
  <2>1. /\ owner' \in [Jobs -> Devices \cup {None}]
        /\ note' \in [Jobs -> Text]
    BY <1>0, <1>16, <1>18, <1>20 DEF SetNote
  <2>. QED
    BY <1>0, <1>18, <1>20, <2>1, EndType DEF SetNote, Ended
<1>21. CASE AgentStep(t)
  BY <1>1, <1>4, <1>5, <1>6, <1>7, <1>8, <1>9, <1>10, <1>21, RunnableType
     DEF AgentStep
<1>. QED
  BY <1>1, <1>2, <1>3, <1>11, <1>12, <1>15, <1>17, <1>19, <1>20, <1>21
     DEF Step, TurnStep, ServerStep

LEMMA TypeInit == Init => TypeInv
BY FreshType, TextTypes DEF Init, TypeInv, TypeOK, Local, Statuses, Ended

LEMMA TypeNext ==
  ASSUME TypeInv, [Next]_vars
  PROVE  TypeInv'
<1>1. ASSUME NEW j \in Jobs, Settle(j) PROVE TypeInv'
  BY <1>1 DEF Settle, TypeInv, TypeOK, storeVars, turnVars, Statuses
<1>2. CASE UNCHANGED vars
  BY <1>2 DEF vars, storeVars, turnVars, TypeInv, TypeOK
<1>. QED
  BY <1>1, <1>2, StepType DEF Next, Step

\* Every local of a turn, every record and every call keeps its type, since
\* each event finds what the handlers before it left (simulations.py:341-485);
\* and only `done` tells the page a job.
THEOREM StreamTypeCorrect == Spec => []TypeOK
<1>1. TypeInv => TypeOK
  BY DEF TypeInv
<1>. QED
  BY <1>1, TypeInit, TypeNext, PTL DEF Spec

-----------------------------------------------------------------------------
(***************************************************************************)
(* What follows holds of an agent that keeps to its prompts: it has one    *)
(* call in flight at a time and runs no second simulation unless the first *)
(* one failed.  (The run two_simulations shows what one does that does     *)
(* not.)                                                                   *)
(***************************************************************************)
OneSimulation == Disciplined /\ MaxCalls = 1

\* A call runs the job it asked for; while its turn streams, the turn has
\* seen no result yet, and its arguments are those of the call (or, when a
\* job is polled, those of the job or none).
CallSound(t, c) ==
  /\ c.args # None /\ c.job # None => KeyOf[c.job] = c.args
  /\ phase[t] = "stream" =>
       /\ turn[t].state # "COMPLETED"
       /\ c.args # None => turn[t].args = c.args
       /\ c.args = None /\ c.job # None =>
            \/ c.job = turn[t].seen
            \/ turn[t].seen = None /\ turn[t].args = None

CallsSound(t) ==
  /\ calls[t] = {} \/ \E c \in Call : calls[t] = {c}
  /\ \A c \in calls[t] : CallSound(t, c)
  /\ phase[t] \in {"sent", "replay", "store"} \cup Persisting =>
       calls[t] = {}

\* The job, the result, the key and the prose that a turn keeps are those of
\* the job it has seen COMPLETED, if there is one, and so is the copy of that
\* job's record.
LocalsSound(L) ==
  /\ L.state \in {"COMPLETED", "FAILED"} => status[L.seen] = L.state
  /\ L.job = None => L.result = None /\ L.key = Absent
  /\ L.job # None =>
       /\ L.job = L.seen
       /\ L.state = "COMPLETED"
       /\ L.result = KeyOf[L.job]
       /\ L.key \in {None, KeyOf[L.job]}
  /\ L.state = "COMPLETED" => L.job # None
  /\ L.seen # None => L.args \in {None, KeyOf[L.seen]} \/ L.state = "FAILED"
  /\ L.cached \in {None, L.key}
  /\ L.segment # None =>
       L.segment = IF L.state = "COMPLETED" THEN KeyOf[L.seen] ELSE Chatter
  /\ L.record.note # None => L.job # None /\ L.record.note = KeyOf[L.job]

TurnSound(t) == CallsSound(t) /\ LocalsSound(turn[t])

StreamInv ==
  /\ \A t \in Turns : TurnSound(t)
  /\ InterpretationsSound
  /\ NotesSound

-----------------------------------------------------------------------------
\* A final status is final.
StatusGrows ==
  \A j \in Jobs : status[j] \in {"COMPLETED", "FAILED"} =>
                    status'[j] = status[j]

Untouched(t) ==
  /\ phase'[t] = phase[t]
  /\ turn'[t] = turn[t]
  /\ calls'[t] = calls[t]
  /\ told'[t] = told[t]

\* A step of one turn leaves the others alone, and no final status changes.
LEMMA StepFrame ==
  ASSUME TypeInv, NEW t \in Turns, Step(t)
  PROVE  StatusGrows /\ \A u \in Turns \ {t} : Untouched(u)
<1>. USE DEF TypeInv, TypeOK, StatusGrows, Untouched, GoTo, End, storeVars
<1>1. CASE \/ AnswerBlank(t) \/ AgentRaises(t) \/ Timeout(t) \/ Breaks(t)
           \/ Disconnect(t) \/ SetNote(t)
  BY <1>1 DEF AnswerBlank, AgentRaises, Timeout, Breaks, Disconnect, SetNote
<1>2. CASE \/ BuildAgent(t) \/ Tick(t) \/ Write(t) \/ WriteWhole(t)
           \/ AgentEnds(t) \/ Replay(t) \/ Store(t) \/ SetOwner(t)
           \/ ReadForOwner(t) \/ ReadForNote(t)
  BY <1>2 DEF BuildAgent, Tick, Write, WriteWhole, AgentEnds, Replay, Store,
              SetOwner, ReadForOwner, ReadForNote, Copy
<1>3. ASSUME NEW s, NEW a, StartRun(t, s, a)
      PROVE  StatusGrows /\ \A u \in Turns \ {t} : Untouched(u)
  BY <1>3 DEF StartRun
<1>4. ASSUME NEW c,
             \/ \E j \in Jobs : StartPoll(t, j) \/ Submit(t, c, j)
             \/ ToolFails(t, c)
      PROVE  StatusGrows /\ \A u \in Turns \ {t} : Untouched(u)
  BY <1>4 DEF StartPoll, Submit, ToolFails
<1>5. ASSUME NEW c, ToolEnd(t, c)
      PROVE  StatusGrows /\ \A u \in Turns \ {t} : Untouched(u)
  BY <1>5, ToolEndSteps DEF ReadOn, ReadAndLook, GoesOn
<1>. QED
  BY <1>1, <1>2, <1>3, <1>4, <1>5 DEF Step, TurnStep, ServerStep, AgentStep

\* A turn that is left alone is as sound as it was.
LEMMA UntouchedSound ==
  ASSUME TypeInv, NEW t \in Turns, TurnSound(t), Untouched(t), StatusGrows
  PROVE  TurnSound(t)'
<1>1. CallsSound(t)'
  BY DEF TurnSound, CallsSound, CallSound, Untouched
<1>2. LocalsSound(turn[t])'
  <2>1. turn[t].state \in {"COMPLETED", "FAILED"} => turn[t].seen \in Jobs
    BY DEF TypeInv, Local, Locals
  <2>. QED
    BY <2>1 DEF TurnSound, LocalsSound, Untouched, StatusGrows
<1>. QED
  BY <1>1, <1>2 DEF TurnSound

\* With one call at a time, the agent starts one only when none is in flight.
LEMMA NoneInFlight ==
  ASSUME OneSimulation, NEW t \in Turns, CallsSound(t),
         Cardinality(calls[t]) < MaxCalls
  PROVE  calls[t] = {}
<1>. SUFFICES ASSUME NEW c, calls[t] = {c} PROVE FALSE
  BY DEF CallsSound
<1>1. Cardinality(calls[t]) = 1
  BY FS_Singleton
<1>2. Cardinality(calls[t]) < 1
  BY DEF OneSimulation
<1>. QED
  BY <1>1, <1>2

\* L and M agree on what was read of the tools.
SameReading(L, M) ==
  /\ L.seen = M.seen /\ L.state = M.state
  /\ L.job = M.job /\ L.result = M.result
  /\ L.args = M.args /\ L.key = M.key /\ L.cached = M.cached

LEMMA SameReadingSound ==
  ASSUME NEW L, NEW M, LocalsSound(L), SameReading(M, L),
         M.segment = L.segment, M.record = L.record
  PROVE  LocalsSound(M)
BY DEF SameReading, LocalsSound

\* The end of a turn.
LEMMA EndSound ==
  ASSUME TypeInv, NEW t \in Turns, TurnSound(t),
         NEW how \in Ended, NEW words, End(t, how, words)
  PROVE  TurnSound(t)'
<1>. USE DEF TypeInv, TypeOK, End, GoTo
<1>1. turn'[t] = Fresh(t) /\ phase'[t] = how /\ how \notin
        {"sent", "stream", "replay", "store"} \cup Persisting
  BY DEF Ended, Persisting
<1>2. calls'[t] = {c \in calls[t] : c.job = None}
  OBVIOUS
<1>3. LocalsSound(turn[t])'
  BY <1>1 DEF LocalsSound, Fresh
<1>4. CallsSound(t)'
  BY <1>1, <1>2 DEF TurnSound, CallsSound, CallSound
<1>. QED
  BY <1>3, <1>4 DEF TurnSound

\* The text a turn collects, and the clock, decide nothing.
LEMMA PlainSound ==
  ASSUME TypeInv, NEW t \in Turns, TurnSound(t), UNCHANGED status,
         calls'[t] = calls[t],
         \/ calls[t] = {}
         \/ phase[t] = "stream" /\ phase'[t] = "stream",
         SameReading(turn'[t], turn[t]), turn'[t].segment = turn[t].segment,
         turn'[t].record = turn[t].record
  PROVE  TurnSound(t)'
<1>1. LocalsSound(turn'[t])
  BY SameReadingSound DEF TurnSound
<1>2. LocalsSound(turn[t])'
  BY <1>1 DEF LocalsSound
<1>3. CallsSound(t)'
  <2>1. CASE calls[t] = {}
    BY <2>1 DEF CallsSound
  <2>2. CASE phase[t] = "stream" /\ phase'[t] = "stream"
    BY <2>2 DEF TurnSound, CallsSound, CallSound, SameReading
  <2>. QED
    BY <2>1, <2>2
<1>. QED
  BY <1>2, <1>3 DEF TurnSound

\* What a tool's result changes.
LEMMA ReadFields ==
  ASSUME TypeInv, NEW t \in Turns, NEW j \in Jobs
  PROVE  /\ Read(t, j).seen = j /\ Read(t, j).state = status[j]
         /\ Read(t, j).segment = None
         /\ Read(t, j).job = IF status[j] = "COMPLETED" THEN j
                             ELSE turn[t].job
         /\ Read(t, j).result = IF status[j] = "COMPLETED" THEN KeyOf[j]
                                ELSE turn[t].result
         /\ Read(t, j).args = turn[t].args
         /\ Read(t, j).key = turn[t].key
         /\ Read(t, j).cached = turn[t].cached
         /\ Read(t, j).solver = turn[t].solver
         /\ Read(t, j).tools = turn[t].tools
         /\ Read(t, j).record = turn[t].record
<1>. DEFINE S == Shown(t, j)
<1>1. /\ S.seen = j /\ S.state = status[j]
      /\ S.job = IF status[j] = "COMPLETED" THEN j ELSE turn[t].job
      /\ S.result = IF status[j] = "COMPLETED" THEN KeyOf[j]
                    ELSE turn[t].result
      /\ S.args = turn[t].args /\ S.key = turn[t].key
      /\ S.cached = turn[t].cached /\ S.solver = turn[t].solver
      /\ S.tools = turn[t].tools /\ S.record = turn[t].record
      /\ DOMAIN S = DOMAIN turn[t]
  BY DEF Shown, TypeInv, Local, Locals
<1>2. Read(t, j) = [S EXCEPT !.segment = None] /\ "segment" \in DOMAIN S
  BY <1>1 DEF Read, TypeInv, Local, Locals
<1>. HIDE DEF S
<1>. QED
  BY <1>1, <1>2

\* A job that is seen is seen with the arguments it was submitted with, or
\* with none, unless it FAILED.
LEMMA SeenWithArguments ==
  ASSUME TypeInv, NEW t \in Turns, TurnSound(t), phase[t] = "stream",
         NEW c \in calls[t], c.job \in Jobs
  PROVE  /\ turn[t].args \in {None, KeyOf[c.job]} \/ status[c.job] = "FAILED"
         /\ turn[t].job = None /\ turn[t].key = Absent
         /\ turn[t].cached \in {None, Absent}
         /\ turn[t].record.note = None
         /\ calls[t] = {c}
<1>1. CallSound(t, c) /\ LocalsSound(turn[t]) /\ calls[t] = {c}
  BY DEF TurnSound, CallsSound
<1>2. turn[t].args \in {None, KeyOf[c.job]} \/ status[c.job] = "FAILED"
  <2>1. CASE c.args # None
    BY <1>1, <2>1 DEF CallSound
  <2>2. CASE c.args = None /\ c.job = turn[t].seen
    BY <1>1, <2>2 DEF LocalsSound
  <2>. QED
    BY <1>1, <2>1, <2>2 DEF CallSound
<1>3. turn[t].job = None /\ turn[t].key = Absent
  BY <1>1 DEF CallSound, LocalsSound
<1>. QED
  BY <1>1, <1>2, <1>3 DEF LocalsSound

LEMMA ToolEndSound ==
  ASSUME TypeInv, InterpretationsSound, NEW t \in Turns, TurnSound(t),
         NEW c, ToolEnd(t, c)
  PROVE  TurnSound(t)'
<1>1. /\ c \in calls[t] /\ c.job \in Jobs /\ phase[t] = "stream"
      /\ UNCHANGED status
  BY ToolEndSteps
<1>2. /\ turn[t].args \in {None, KeyOf[c.job]} \/ status[c.job] = "FAILED"
      /\ turn[t].job = None /\ turn[t].result = None /\ turn[t].key = Absent
      /\ turn[t].cached \in {None, Absent}
      /\ turn[t].record.note = None
      /\ calls[t] = {c}
  BY <1>1, SeenWithArguments DEF TurnSound, LocalsSound
<1>. DEFINE now == Read(t, c.job)
<1>3. /\ Local(now)
      /\ now.seen = c.job /\ now.state = status[c.job]
      /\ now.segment = None
      /\ now.job = IF status[c.job] = "COMPLETED" THEN c.job ELSE None
      /\ now.result = IF status[c.job] = "COMPLETED" THEN KeyOf[c.job]
                      ELSE None
      /\ now.args = turn[t].args
      /\ now.key = Absent
      /\ now.cached \in {None, Absent}
      /\ now.record.note = None
  BY <1>1, <1>2, ReadType, ReadFields
<1>4. CASE ReadOn(t, c)
  <2>1. turn'[t] = now /\ calls'[t] = {}
    BY <1>2, <1>4 DEF ReadOn, GoesOn, TypeInv, TypeOK
  <2>. HIDE DEF now
  <2>2. now.state # "COMPLETED"
    BY <1>3, <1>4 DEF ReadOn, now
  <2>3. LocalsSound(now)
    BY <1>2, <1>3, <2>2 DEF LocalsSound
  <2>4. LocalsSound(turn[t])'
    BY <1>1, <2>1, <2>3 DEF LocalsSound
  <2>5. CallsSound(t)'
    BY <2>1 DEF CallsSound
  <2>. QED
    BY <2>4, <2>5 DEF TurnSound
<1>5. ASSUME NEW k \in Keys \cup {None}, NEW text \in Text,
             ReadAndLook(t, c, k, text)
      PROVE  TurnSound(t)'
  <2>. DEFINE L == LookedUp(t, c, k, text)
  <2>1. turn'[t] = L /\ calls'[t] = {}
    BY <1>2, <1>5 DEF ReadAndLook, GoesOn, TypeInv, TypeOK
  <2>2. now.state = "COMPLETED" /\ status[c.job] = "COMPLETED"
    BY <1>3, <1>5 DEF ReadAndLook
  <2>3. k \in {None, KeyOf[c.job]}
    <3>1. k \in {None, now.args}
      BY <1>5 DEF ReadAndLook, InterpretationKey
    <3>. QED
      BY <1>2, <1>3, <2>2, <3>1
  <2>4. text \in {None, k}
    BY <1>5 DEF ReadAndLook, Interpretations, InterpretationsSound
  <2>. HIDE DEF now
  <2>5. /\ L.seen = now.seen /\ L.state = now.state /\ L.job = now.job
        /\ L.result = now.result /\ L.args = now.args
        /\ L.segment = now.segment /\ L.key = k /\ L.cached = text
        /\ L.record = now.record
    BY <1>3 DEF LookedUp, Local, Locals, now
  <2>. HIDE DEF L
  <2>6. LocalsSound(L)
    BY <1>1, <1>2, <1>3, <2>2, <2>3, <2>4, <2>5 DEF LocalsSound
  <2>7. LocalsSound(turn[t])'
    BY <1>1, <2>1, <2>6 DEF LocalsSound
  <2>8. CallsSound(t)'
    BY <2>1 DEF CallsSound
  <2>. QED
    BY <2>7, <2>8 DEF TurnSound
<1>. QED
  BY <1>4, <1>5, ToolEndSteps

\* A call is started: by an agent that has no result yet, or a FAILED one.
LEMMA StartRunSound ==
  ASSUME OneSimulation, TypeInv, NEW t \in Turns, TurnSound(t),
         NEW s, NEW a \in Keys \cup {None}, StartRun(t, s, a)
  PROVE  TurnSound(t)'
<1>1. /\ calls[t] = {} /\ phase[t] = "stream"
      /\ turn[t].seen = None \/ turn[t].state = "FAILED"
  BY NoneInFlight DEF StartRun, Event, MayRun, TurnSound, OneSimulation
<1>. DEFINE c == [args |-> a, job |-> None]
            L == turn'[t]
<1>2. /\ calls'[t] = {c} /\ c \in Call /\ phase'[t] = "stream"
      /\ UNCHANGED status
  BY <1>1 DEF StartRun, TypeInv, TypeOK, Call
<1>3. /\ L.seen = turn[t].seen /\ L.state = turn[t].state
      /\ L.job = turn[t].job /\ L.result = turn[t].result
      /\ L.key = turn[t].key /\ L.cached = turn[t].cached
      /\ L.segment = turn[t].segment /\ L.record = turn[t].record
      /\ a # None => L.args = a
  BY DEF StartRun, TypeInv, TypeOK, Locals
<1>4. LocalsSound(L)
  <2>. HIDE DEF L
  <2>. QED
    BY <1>1, <1>3 DEF LocalsSound, TurnSound
<1>5. LocalsSound(turn[t])'
  BY <1>2, <1>4 DEF LocalsSound
<1>6. turn[t].state # "COMPLETED"
  BY <1>1 DEF TypeInv, Local
<1>7. CallsSound(t)'
  BY <1>2, <1>3, <1>6 DEF CallsSound, CallSound, Persisting
<1>. QED
  BY <1>5, <1>7 DEF TurnSound

LEMMA StartPollSound ==
  ASSUME OneSimulation, TypeInv, NEW t \in Turns, TurnSound(t),
         NEW j \in Jobs, StartPoll(t, j)
  PROVE  TurnSound(t)'
<1>1. /\ calls[t] = {} /\ phase[t] = "stream"
      /\ turn[t].state # "COMPLETED"
      /\ turn[t].seen = j \/ (turn[t].seen = None /\ turn[t].args = None)
  BY NoneInFlight DEF StartPoll, Event, MayPoll, TurnSound, OneSimulation
<1>. DEFINE c == [args |-> None, job |-> j]
<1>2. /\ calls'[t] = {c} /\ c \in Call
      /\ UNCHANGED <<status, phase, turn>>
  BY <1>1 DEF StartPoll, TypeInv, TypeOK, Call
<1>3. LocalsSound(turn[t])'
  BY <1>2 DEF LocalsSound, TurnSound
<1>4. CallsSound(t)'
  BY <1>1, <1>2 DEF CallsSound, CallSound, Persisting
<1>. QED
  BY <1>3, <1>4 DEF TurnSound

\* The job that a call makes is of the payload it asked for.
LEMMA SubmitSound ==
  ASSUME TypeInv, NEW t \in Turns, TurnSound(t),
         NEW c, NEW j \in Jobs, Submit(t, c, j), StatusGrows
  PROVE  TurnSound(t)'
<1>1. /\ calls[t] = {c} /\ c \in Call /\ c.job = None /\ c.args = KeyOf[j]
      /\ CallSound(t, c)
      /\ UNCHANGED <<phase, turn>>
  BY DEF Submit, TurnSound, CallsSound, TypeInv, TypeOK
<1>. DEFINE e == [c EXCEPT !.job = j]
<1>2. e \in Call /\ e.args = c.args /\ e.job = j /\ c.args # None
  BY <1>1 DEF Call
<1>3. calls'[t] = {e}
  BY <1>1 DEF Submit, TypeInv, TypeOK
<1>. HIDE DEF e
<1>4. CallsSound(t)'
  BY <1>1, <1>2, <1>3 DEF TurnSound, CallsSound, CallSound
<1>5. LocalsSound(turn[t])'
  <2>1. turn[t].state \in {"COMPLETED", "FAILED"} => turn[t].seen \in Jobs
    BY DEF TypeInv, Local, Locals
  <2>. QED
    BY <1>1, <2>1 DEF TurnSound, LocalsSound, StatusGrows
<1>. QED
  BY <1>4, <1>5 DEF TurnSound

LEMMA ToolFailsSound ==
  ASSUME TypeInv, NEW t \in Turns, TurnSound(t), NEW c, ToolFails(t, c)
  PROVE  TurnSound(t)'
<1>1. /\ calls'[t] = {} /\ UNCHANGED <<status, turn>>
  BY DEF ToolFails, TurnSound, CallsSound, TypeInv, TypeOK
<1>2. CallsSound(t)'
  BY <1>1 DEF CallsSound
<1>. QED
  BY <1>1, <1>2 DEF TurnSound, LocalsSound

\* The model writes about the result it has been shown.
LEMMA WriteSound ==
  ASSUME TypeInv, NEW t \in Turns, TurnSound(t), Write(t) \/ WriteWhole(t)
  PROVE  TurnSound(t)'
<1>1. /\ calls[t] = {} /\ calls' = calls /\ UNCHANGED status
      /\ LocalsSound(turn[t])
  BY DEF Write, WriteWhole, TurnSound
<1>2. turn[t].segment \in {None, Subject(t)}
  BY <1>1 DEF LocalsSound, Subject
<1>3. /\ SameReading(turn'[t], turn[t]) /\ turn'[t].segment = Subject(t)
      /\ turn'[t].record = turn[t].record
  BY <1>2 DEF Write, WriteWhole, Joined, SameReading, TypeInv, TypeOK, Locals
<1>4. LocalsSound(turn'[t])
  BY <1>1, <1>3 DEF LocalsSound, SameReading, Subject
<1>5. LocalsSound(turn[t])'
  BY <1>1, <1>4 DEF LocalsSound
<1>6. CallsSound(t)'
  BY <1>1 DEF CallsSound
<1>. QED
  BY <1>5, <1>6 DEF TurnSound

\* The copy of a record is as sound as the record.
LEMMA CopySound ==
  ASSUME TypeInv, NotesSound, NEW t \in Turns, TurnSound(t),
         NEW p \in Persisting, phase[t] \in Persisting,
         turn[t].job # None, Copy(t, p)
  PROVE  TurnSound(t)'
<1>1. /\ calls[t] = {} /\ calls' = calls /\ UNCHANGED status
      /\ LocalsSound(turn[t]) /\ Local(turn[t])
  BY DEF Copy, TurnSound, CallsSound, TypeInv
<1>. DEFINE x == [owner |-> owner[turn[t].job], note |-> note[turn[t].job]]
<1>2. x.note \in {None, KeyOf[turn[t].job]}
  BY <1>1 DEF NotesSound, Local, Locals
<1>. HIDE DEF x
<1>3. turn'[t] = [turn[t] EXCEPT !.record = x]
  BY DEF Copy, x, TypeInv, TypeOK
<1>4. /\ SameReading(turn'[t], turn[t])
      /\ turn'[t].segment = turn[t].segment
      /\ turn'[t].record = x
  BY <1>1, <1>3 DEF Local, Locals, SameReading
<1>5. LocalsSound(turn'[t])
  BY <1>1, <1>2, <1>4 DEF LocalsSound, SameReading
<1>6. LocalsSound(turn[t])'
  BY <1>1, <1>5 DEF LocalsSound
<1>7. CallsSound(t)'
  BY <1>1 DEF CallsSound
<1>. QED
  BY <1>6, <1>7 DEF TurnSound

\* Every step of a turn leaves it sound.
LEMMA StepSound ==
  ASSUME OneSimulation, TypeInv, InterpretationsSound, NotesSound,
         NEW t \in Turns, TurnSound(t), Step(t)
  PROVE  TurnSound(t)'
<1>. USE DEF storeVars
<1>1. CASE \/ AnswerBlank(t) \/ AgentRaises(t) \/ Timeout(t) \/ Breaks(t)
           \/ Disconnect(t)
  BY <1>1, EndSound
     DEF AnswerBlank, AgentRaises, Timeout, Breaks, Disconnect, Ended
<1>2. CASE SetNote(t)
  BY <1>2, EndSound DEF SetNote, Ended
<1>3. CASE \/ BuildAgent(t) \/ AgentEnds(t) \/ Replay(t) \/ Store(t)
           \/ SetOwner(t)
           \/ ReadForOwner(t) /\ UNCHANGED turn
  <2>1. calls[t] = {} /\ calls' = calls /\ UNCHANGED status
    BY <1>3 DEF BuildAgent, AgentEnds, Replay, Store, SetOwner, ReadForOwner,
                Copy, TurnSound, CallsSound, Persisting
  <2>2. /\ SameReading(turn'[t], turn[t])
        /\ turn'[t].segment = turn[t].segment
        /\ turn'[t].record = turn[t].record
    BY <1>3 DEF BuildAgent, AgentEnds, Replay, Store, SetOwner, SameReading,
                TypeInv, TypeOK, Locals
  <2>. QED
    BY <2>1, <2>2, PlainSound
<1>11. CASE ReadForOwner(t) /\ ~UNCHANGED turn
  BY <1>11, CopySound DEF ReadForOwner, Persisting
<1>12. CASE ReadForNote(t)
  <2>1. CASE Copy(t, "noting") /\ turn[t].job # None
    BY <1>12, <2>1, CopySound DEF ReadForNote, Persisting
  <2>2. CASE End(t, "done", Found(t))
    BY <2>2, EndSound DEF Ended
  <2>. QED
    BY <1>12, <2>1, <2>2 DEF ReadForNote
<1>4. CASE Tick(t)
  <2>1. /\ SameReading(turn'[t], turn[t])
        /\ turn'[t].segment = turn[t].segment
        /\ turn'[t].record = turn[t].record
    BY <1>4 DEF Tick, SameReading, TypeInv, TypeOK, Locals
  <2>. QED
    BY <1>4, <2>1, PlainSound DEF Tick
<1>5. ASSUME NEW s \in Solvers,
             NEW a \in Runnable(t, s),
             StartRun(t, s, a)
      PROVE  TurnSound(t)'
  BY <1>5, StartRunSound, RunnableType
<1>6. ASSUME NEW j \in Jobs, StartPoll(t, j) PROVE TurnSound(t)'
  BY <1>6, StartPollSound
<1>7. ASSUME NEW c, NEW j \in Jobs, Submit(t, c, j) PROVE TurnSound(t)'
  BY <1>7, SubmitSound, StepFrame
<1>8. ASSUME NEW c, ToolFails(t, c) PROVE TurnSound(t)'
  BY <1>8, ToolFailsSound
<1>9. ASSUME NEW c, ToolEnd(t, c) PROVE TurnSound(t)'
  BY <1>9, ToolEndSound
<1>10. CASE Write(t) \/ WriteWhole(t)
  BY <1>10, WriteSound
<1>. QED
  BY <1>1, <1>2, <1>3, <1>4, <1>5, <1>6, <1>7, <1>8, <1>9, <1>10, <1>11,
     <1>12 DEF Step, TurnStep, ServerStep, AgentStep

-----------------------------------------------------------------------------
\* What a turn says of the job it found is about that job's result.
LEMMA InterpretationSound ==
  ASSUME NEW t \in Turns, LocalsSound(turn[t]), turn[t].job # None
  PROVE  /\ turn[t].result = KeyOf[turn[t].job]
         /\ Interpretation(t) \in {None, KeyOf[turn[t].job]}
BY DEF LocalsSound, Interpretation

\* Only the end of the loop writes the cache, and only with prose about the
\* result of the payload it is keyed by.
LEMMA ProseSound ==
  ASSUME TypeInv, InterpretationsSound, NEW t \in Turns, TurnSound(t), Step(t)
  PROVE  InterpretationsSound'
<1>1. StatusGrows
  BY StepFrame
<1>2. \A k \in Keys :
        (\E j \in Jobs : status[j] = "COMPLETED" /\ KeyOf[j] = k) =>
          \E j \in Jobs : status'[j] = "COMPLETED" /\ KeyOf[j] = k
  BY <1>1 DEF StatusGrows
<1>3. CASE UNCHANGED prose
  BY <1>2, <1>3 DEF InterpretationsSound
<1>4. CASE Store(t) /\ prose' # prose
  <2>. DEFINE L == turn[t]
  <2>1. /\ L.result # None
        /\ L.key \notin {None, Absent}
        /\ L.segment # None
        /\ prose' = [prose EXCEPT ![L.key] = L.segment]
    BY <1>4 DEF Store
  <2>2. LocalsSound(L) /\ Local(L)
    BY DEF TurnSound, TypeInv
  <2>. HIDE DEF L
  <2>3. /\ L.job # None /\ L.job = L.seen /\ L.state = "COMPLETED"
        /\ L.key = KeyOf[L.seen] /\ L.segment = KeyOf[L.seen]
        /\ status[L.seen] = "COMPLETED" /\ L.seen \in Jobs
    BY <2>1, <2>2 DEF LocalsSound, Local, Locals
  <2>4. prose' = [prose EXCEPT ![KeyOf[L.seen]] = KeyOf[L.seen]]
    BY <2>1, <2>3
  <2>. QED
    BY <1>2, <2>3, <2>4 DEF InterpretationsSound, TypeInv, TypeOK
<1>. QED
  BY <1>3, <1>4, ToolEndSteps
     DEF Step, TurnStep, ServerStep, AgentStep, AnswerBlank, BuildAgent, AgentRaises, Timeout,
         StartRun, StartPoll, Submit, ToolFails, Write, WriteWhole, AgentEnds,
         Replay, ReadForOwner, ReadForNote, Copy, SetOwner, SetNote, Breaks,
         Disconnect, Tick, storeVars

\* The two updates of a record write notes: one back, and one of its own.
LEMMA NoteSound ==
  ASSUME TypeInv, NotesSound, NEW t \in Turns, TurnSound(t), Step(t)
  PROVE  NotesSound'
<1>0. /\ turn[t].job \in Jobs \cup {None} /\ LocalsSound(turn[t])
      /\ note \in [Jobs -> Text]
  BY DEF TypeInv, TypeOK, Local, Locals, TurnSound
<1>1. CASE UNCHANGED note
  BY <1>1 DEF NotesSound
<1>2. CASE SetNote(t)
  <2>1. note' = [note EXCEPT ![turn[t].job] = Interpretation(t)]
    BY <1>2 DEF SetNote
  <2>2. turn[t].job # None => Interpretation(t) \in {None, KeyOf[turn[t].job]}
    BY <1>0, InterpretationSound
  <2>. QED
    BY <1>0, <2>1, <2>2 DEF NotesSound
<1>3. CASE SetOwner(t)
  <2>1. note' = [note EXCEPT ![turn[t].job] = turn[t].record.note]
    BY <1>3 DEF SetOwner
  <2>2. turn[t].job # None => turn[t].record.note \in {None, KeyOf[turn[t].job]}
    BY <1>0 DEF LocalsSound
  <2>. QED
    BY <1>0, <2>1, <2>2 DEF NotesSound
<1>. QED
  BY <1>1, <1>2, <1>3, ToolEndSteps
     DEF Step, TurnStep, ServerStep, AgentStep, AnswerBlank, BuildAgent,
         AgentRaises, Timeout, StartRun, StartPoll, Submit, ToolFails, Write,
         WriteWhole, AgentEnds, Replay, Store, ReadForOwner, ReadForNote, Copy,
         Breaks, Disconnect, Tick, storeVars

LEMMA StreamInit == Init => StreamInv
BY DEF Init, StreamInv, TurnSound, CallsSound, LocalsSound, Fresh,
       InterpretationsSound, NotesSound

LEMMA StreamNext ==
  ASSUME OneSimulation, TypeInv, StreamInv, [Next]_vars
  PROVE  StreamInv'
<1>. USE DEF StreamInv
<1>1. ASSUME NEW t \in Turns, Step(t) PROVE StreamInv'
  <2>1. ASSUME NEW u \in Turns PROVE TurnSound(u)'
    <3>1. CASE u = t
      BY <1>1, <3>1, StepSound
    <3>2. CASE u # t
      BY <1>1, <3>2, StepFrame, UntouchedSound
    <3>. QED
      BY <3>1, <3>2
  <2>. QED
    BY <1>1, <2>1, ProseSound, NoteSound
<1>2. ASSUME StatusGrows, UNCHANGED <<storeVars, turnVars>> PROVE StreamInv'
  <2>1. \A t \in Turns : TurnSound(t)'
    BY <1>2, UntouchedSound DEF Untouched, turnVars
  <2>2. InterpretationsSound' /\ NotesSound'
    BY <1>2 DEF StatusGrows, InterpretationsSound, NotesSound, storeVars
  <2>. QED
    BY <2>1, <2>2
<1>3. ASSUME NEW j \in Jobs, Settle(j) PROVE StreamInv'
  BY <1>2, <1>3 DEF Settle, StatusGrows, TypeInv, TypeOK
<1>4. CASE UNCHANGED vars
  BY <1>2, <1>4 DEF vars, StatusGrows
<1>. QED
  BY <1>1, <1>3, <1>4 DEF Next, Step

\* With an agent that runs one simulation at a time, the prose cached for a
\* payload interprets that payload's own result, in whatever order turns on
\* the same payload read and write it and whenever they are cut off
\* (simulations.py:420-470).
THEOREM InterpretationsKept ==
  ASSUME OneSimulation
  PROVE  Spec => []InterpretationsSound
<1>1. TypeInv /\ StreamInv /\ [Next]_vars => (TypeInv /\ StreamInv)'
  BY TypeNext, StreamNext
<1>2. StreamInv => InterpretationsSound
  BY DEF StreamInv
<1>. QED
  BY <1>1, <1>2, TypeInit, StreamInit, PTL DEF Spec

\* ... and so does the interpretation in a job's record, whether it is the
\* model's or the cached one (simulations.py:464-476).
THEOREM NotesKept ==
  ASSUME OneSimulation
  PROVE  Spec => []NotesSound
<1>1. TypeInv /\ StreamInv /\ [Next]_vars => (TypeInv /\ StreamInv)'
  BY TypeNext, StreamNext
<1>2. StreamInv => NotesSound
  BY DEF StreamInv
<1>. QED
  BY <1>1, <1>2, TypeInit, StreamInit, PTL DEF Spec

-----------------------------------------------------------------------------
(***************************************************************************)
(* What `done` tells.                                                      *)
(***************************************************************************)

\* The engineer of a turn that is bound to a solver asks about jobs of that
\* solver.
AsksWithin ==
  \A t \in Turns : \A j \in AsksFor[t] :
    Selected[t] # None => SolverOf[KeyOf[j]] = Selected[t]

\* A turn that is bound to a solver keeps its name, and if its agent was given
\* that solver's tool, runs and sees nothing of another one.
BoundSound(t) ==
  Selected[t] # None =>
    /\ turn[t].solver = Selected[t]
    /\ phase[t] = "sent" => turn[t].seen = None /\ calls[t] = {}
    /\ Selected[t] \in turn[t].tools =>
         /\ turn[t].tools \subseteq {Selected[t], Poll}
         /\ turn[t].seen # None => SolverOf[KeyOf[turn[t].seen]] = Selected[t]
         /\ \A c \in calls[t] :
              /\ c.args # None => SolverOf[c.args] = Selected[t]
              /\ c.job # None => SolverOf[KeyOf[c.job]] = Selected[t]

\* What one turn has told (DoneSound is this for every turn).
ToldSound(t) ==
  told[t].job # None =>
    /\ told[t].result = KeyOf[told[t].job]
    /\ told[t].prose \in {None, told[t].result}
    /\ Selected[t] # None => \/ told[t].solver = SolverOf[told[t].result]
                            \/ Selected[t] \notin told[t].given

LEMMA BoundStep ==
  ASSUME OneSimulation, AsksWithin, TypeInv, NEW t \in Turns, BoundSound(t),
         Step(t)
  PROVE  BoundSound(t)'
<1>. SUFFICES ASSUME Selected[t] # None PROVE BoundSound(t)'
  BY DEF BoundSound
<1>. USE DEF BoundSound, TypeInv, TypeOK, GoTo
<1>0. /\ Local(turn[t]) /\ turn[t] \in Locals /\ Selected[t] \in Solvers
      /\ Selected[t] # Poll
  BY DEF Local
<1>1. ASSUME NEW how \in Ended, NEW words, End(t, how, words)
      PROVE  BoundSound(t)'
  BY <1>1 DEF End, Fresh, Ended
<1>2. CASE \/ AnswerBlank(t) \/ AgentRaises(t) \/ Timeout(t) \/ Breaks(t)
           \/ Disconnect(t) \/ SetNote(t)
           \/ ReadForNote(t) /\ End(t, "done", Found(t))
  BY <1>1, <1>2 DEF AnswerBlank, AgentRaises, Timeout, Breaks, Disconnect,
                    SetNote, Ended
<1>3. CASE BuildAgent(t)
  <2>1. PICK listed \in SUBSET (Solvers \cup {Poll}) :
          turn' = [turn EXCEPT ![t].tools =
                     IF Selected[t] \in listed
                     THEN listed \cap {Selected[t], Poll} ELSE listed]
    BY <1>3 DEF BuildAgent
  <2>2. /\ turn'[t].solver = Selected[t] /\ turn'[t].seen = None
        /\ calls'[t] = {} /\ phase'[t] = "stream"
    BY <1>0, <1>3, <2>1 DEF BuildAgent, Locals
  <2>3. turn'[t].tools = IF Selected[t] \in listed
                         THEN listed \cap {Selected[t], Poll} ELSE listed
    BY <1>0, <2>1 DEF Locals
  <2>. QED
    BY <2>2, <2>3
<1>4. CASE \/ Tick(t) \/ Write(t) \/ WriteWhole(t) \/ AgentEnds(t)
           \/ Replay(t) \/ Store(t) \/ ReadForOwner(t) \/ SetOwner(t)
           \/ ReadForNote(t) /\ Copy(t, "noting")
  <2>1. calls'[t] = calls[t] /\ phase'[t] # "sent"
    BY <1>4 DEF Tick, Write, WriteWhole, AgentEnds, Replay, Store, SetOwner,
                ReadForOwner, Copy, Event
  <2>2. /\ turn'[t].tools = turn[t].tools /\ turn'[t].seen = turn[t].seen
        /\ turn'[t].solver = turn[t].solver
    <3>1. CASE turn' = turn
      BY <3>1
    <3>2. CASE Tick(t) \/ Replay(t)
      BY <1>0, <3>2 DEF Tick, Replay, Locals
    <3>3. CASE Write(t) \/ WriteWhole(t)
      BY <1>0, <3>3 DEF Write, WriteWhole, Locals
    <3>4. ASSUME NEW to, Copy(t, to)
          PROVE  /\ turn'[t].tools = turn[t].tools
                 /\ turn'[t].seen = turn[t].seen
                 /\ turn'[t].solver = turn[t].solver
      BY <1>0, <3>4 DEF Copy, Locals
    <3>. QED
      BY <1>4, <3>1, <3>2, <3>3, <3>4
         DEF AgentEnds, Store, SetOwner, ReadForOwner
  <2>. QED
    BY <2>1, <2>2
<1>5. ASSUME NEW s \in Solvers, NEW a \in Runnable(t, s), StartRun(t, s, a)
      PROVE  BoundSound(t)'
  <2>1. /\ turn'[t].tools = turn[t].tools /\ turn'[t].seen = turn[t].seen
        /\ turn'[t].solver = turn[t].solver
        /\ calls'[t] = calls[t] \cup {[args |-> a, job |-> None]}
        /\ phase'[t] # "sent"
    BY <1>0, <1>5 DEF StartRun, Event, Locals
  <2>2. Selected[t] \in turn[t].tools =>
          s = Selected[t] /\ (a # None => SolverOf[a] = Selected[t])
    BY <1>0, <1>5 DEF StartRun, Runnable
  <2>. QED
    BY <2>1, <2>2
<1>6. ASSUME NEW j \in Jobs, StartPoll(t, j) PROVE BoundSound(t)'
  <2>1. SolverOf[KeyOf[j]] = Selected[t] \/ Selected[t] \notin turn[t].tools
    BY <1>6 DEF StartPoll, MayPoll, OneSimulation, AsksWithin
  <2>2. /\ turn' = turn /\ phase'[t] # "sent"
        /\ calls'[t] = calls[t] \cup {[args |-> None, job |-> j]}
    BY <1>6 DEF StartPoll, Event
  <2>. QED
    BY <2>1, <2>2
<1>7. ASSUME NEW c \in calls[t], NEW j \in Jobs, Submit(t, c, j)
      PROVE  BoundSound(t)'
  <2>. DEFINE e == [c EXCEPT !.job = j]
  <2>1. c \in Call /\ c.args # None /\ c.args = KeyOf[j]
    BY <1>7 DEF Submit
  <2>2. e.args = c.args /\ e.job = j
    BY <2>1 DEF Call
  <2>3. turn' = turn /\ phase' = phase /\ calls'[t] = (calls[t] \ {c}) \cup {e}
    BY <1>7 DEF Submit
  <2>. HIDE DEF e
  <2>. QED
    BY <1>7, <2>1, <2>2, <2>3
<1>8. ASSUME NEW c, ToolFails(t, c) PROVE BoundSound(t)'
  BY <1>8 DEF ToolFails, Event
<1>9. ASSUME NEW c, ToolEnd(t, c) PROVE BoundSound(t)'
  <2>. DEFINE now == Read(t, c.job)
  <2>1. /\ c \in calls[t] /\ c.job \in Jobs
        /\ Local(now) /\ now.seen = c.job
        /\ now.tools = turn[t].tools /\ now.solver = turn[t].solver
    BY <1>9, ToolEndSteps, ReadType, ReadFields
  <2>2. /\ turn'[t].seen = now.seen /\ turn'[t].tools = now.tools
        /\ turn'[t].solver = now.solver
        /\ calls'[t] = calls[t] \ {c} /\ phase'[t] # "sent"
    <3>1. CASE ReadOn(t, c)
      BY <3>1 DEF ReadOn, GoesOn
    <3>2. ASSUME NEW k, NEW text, ReadAndLook(t, c, k, text)
          PROVE  /\ turn'[t].seen = now.seen /\ turn'[t].tools = now.tools
                 /\ turn'[t].solver = now.solver
                 /\ calls'[t] = calls[t] \ {c} /\ phase'[t] # "sent"
      <4>1. /\ turn'[t] = LookedUp(t, c, k, text)
            /\ calls'[t] = calls[t] \ {c} /\ phase'[t] # "sent"
        BY <3>2 DEF ReadAndLook, GoesOn
      <4>. HIDE DEF now
      <4>2. LookedUp(t, c, k, text) = [now EXCEPT !.key = k, !.cached = text]
        BY DEF LookedUp, now
      <4>. QED
        BY <2>1, <4>1, <4>2 DEF Local, Locals
    <3>. QED
      BY <1>9, <3>1, <3>2, ToolEndSteps
  <2>3. c.job # None
    BY <2>1
  <2>. HIDE DEF now
  <2>. QED
    BY <2>1, <2>2, <2>3
<1>10. ReadForNote(t) => Copy(t, "noting") \/ End(t, "done", Found(t))
  BY DEF ReadForNote
<1>. QED
  BY <1>2, <1>3, <1>4, <1>5, <1>6, <1>7, <1>8, <1>9, <1>10
     DEF Step, TurnStep, ServerStep, AgentStep

\* A turn tells a job in `done` only, and then all that it found.
LEMMA ToldWhen ==
  ASSUME TypeInv, NEW t \in Turns, Step(t)
  PROVE  \/ told'[t] = told[t]
         \/ told'[t] = Silent
         \/ /\ SetNote(t) \/ ReadForNote(t)
            /\ told'[t] = Found(t)
<1>1. CASE \/ SetNote(t)
           \/ ReadForNote(t) /\ End(t, "done", Found(t))
  BY <1>1 DEF SetNote, End, TypeInv, TypeOK
<1>2. CASE \/ ReadForNote(t) /\ Copy(t, "noting")
           \/ ReadForOwner(t)
  BY <1>2 DEF ReadForOwner, Copy
<1>. QED
  BY <1>1, <1>2, ToolEndSteps
     DEF Step, TurnStep, ServerStep, AgentStep, AnswerBlank, BuildAgent,
         AgentRaises, Timeout, StartRun, StartPoll, Submit, ToolFails, Write,
         WriteWhole, AgentEnds, Replay, Store, SetOwner, ReadForNote, Breaks,
         Disconnect, Tick, ReadOn, ReadAndLook, GoesOn, End, TypeInv, TypeOK

LEMMA ToldStep ==
  ASSUME TypeInv, NEW t \in Turns, TurnSound(t), BoundSound(t), ToldSound(t),
         Step(t)
  PROVE  ToldSound(t)'
<1>1. CASE told'[t] = told[t]
  BY <1>1 DEF ToldSound
<1>2. CASE told'[t] = Silent
  BY <1>2 DEF ToldSound, Silent
<1>3. CASE told'[t] = Found(t)
  <2>1. turn[t].job # None => turn[t].job = turn[t].seen
    BY DEF TurnSound, LocalsSound
  <2>2. turn[t].job # None =>
          /\ turn[t].result = KeyOf[turn[t].job]
          /\ Interpretation(t) \in {None, KeyOf[turn[t].job]}
    BY InterpretationSound DEF TurnSound
  <2>3. turn[t].job # None /\ Selected[t] # None =>
          \/ turn[t].solver = SolverOf[KeyOf[turn[t].job]]
          \/ Selected[t] \notin turn[t].tools
    BY <2>1 DEF BoundSound
  <2>. QED
    BY <1>3, <2>2, <2>3 DEF ToldSound, Found
<1>. QED
  BY <1>1, <1>2, <1>3, ToldWhen

\* What the page is told on `done` belongs together: the job, its result and
\* the prose about it, and the bound solver's card shows a result of that
\* solver (simulations.py:477-485) whenever the agent was given that solver's
\* tool, if the agent runs one simulation at a time and the engineer asks
\* about that solver's jobs only.
THEOREM DoneTold ==
  ASSUME OneSimulation, AsksWithin
  PROVE  Spec => []DoneSound
<1>. DEFINE Inv == /\ TypeInv /\ StreamInv
                   /\ \A t \in Turns : BoundSound(t) /\ ToldSound(t)
<1>1. Init => Inv
  <2>1. Init => \A t \in Turns : BoundSound(t) /\ ToldSound(t)
    BY DEF Init, BoundSound, ToldSound, Fresh, Silent
  <2>. QED
    BY <2>1, TypeInit, StreamInit
<1>2. Inv /\ [Next]_vars => Inv'
  <2>. SUFFICES ASSUME Inv, [Next]_vars PROVE Inv'
    OBVIOUS
  <2>1. TypeInv' /\ StreamInv'
    BY TypeNext, StreamNext
  <2>2. ASSUME NEW u \in Turns, Untouched(u)
        PROVE  BoundSound(u)' /\ ToldSound(u)'
    BY <2>2 DEF Untouched, BoundSound, ToldSound
  <2>3. ASSUME NEW t \in Turns, Step(t), NEW u \in Turns
        PROVE  BoundSound(u)' /\ ToldSound(u)'
    <3>1. CASE u = t
      BY <2>3, <3>1, BoundStep, ToldStep DEF StreamInv
    <3>2. CASE u # t
      BY <2>2, <2>3, <3>2, StepFrame
    <3>. QED
      BY <3>1, <3>2
  <2>4. ASSUME UNCHANGED turnVars, NEW u \in Turns
        PROVE  BoundSound(u)' /\ ToldSound(u)'
    BY <2>2, <2>4 DEF Untouched, turnVars
  <2>5. \A u \in Turns : BoundSound(u)' /\ ToldSound(u)'
    BY <2>3, <2>4 DEF Next, Step, Settle, vars
  <2>. QED
    BY <2>1, <2>5
<1>3. Inv => DoneSound
  BY DEF DoneSound, ToldSound
<1>. QED
  BY <1>1, <1>2, <1>3, PTL DEF Spec

-----------------------------------------------------------------------------
(***************************************************************************)
(* What is recorded by the time of `done`, whatever the agent does.        *)
(***************************************************************************)

\* DoneRecorded, of one job.
Owned(j) == owner[j] # None \/ BlankTurn(j)
Noted(j) == note[j] # None \/ HalfPersisted(j)

\* A turn that has begun an update has something to write, and one with a
\* device gets to its second update with the job owned, and with a copy of the
\* record that is.
Persists(t) ==
  /\ phase[t] = "owning" => turn[t].job # None /\ DeviceOf[t] # None
  /\ phase[t] = "noting" => turn[t].job # None /\ Interpretation(t) # None
  /\ DeviceOf[t] # None /\ turn[t].job # None =>
       /\ phase[t] \in {"note", "noting"} => Owned(turn[t].job)
       /\ phase[t] = "noting" =>
            turn[t].record.owner # None \/ BlankTurn(turn[t].job)

\* What one turn has told is recorded (DoneRecorded is this for every turn).
Recorded(t) ==
  told[t].job # None =>
    /\ DeviceOf[t] # None => Owned(told[t].job)
    /\ told[t].prose # None => Noted(told[t].job)

RecordInv == TypeInv /\ \A t \in Turns : Persists(t) /\ Recorded(t)

\* The steps that neither write a record nor copy one: of a turn that is not
\* being persisted, and of a call that outlives its turn.
Quiet(t) ==
  /\ UNCHANGED <<owner, note>>
  /\ told'[t] = told[t]
  /\ \/ phase'[t] = phase[t] /\ turn'[t] = turn[t]
     \/ /\ phase[t] \notin Persisting \cup {"done", "broken"}
        /\ phase'[t] \notin {"owning", "note", "noting"}

LEMMA QuietSteps ==
  ASSUME TypeInv, NEW t \in Turns, Step(t)
  PROVE  \/ Quiet(t)
         \/ ReadForOwner(t) \/ SetOwner(t) \/ ReadForNote(t) \/ SetNote(t)
         \/ Breaks(t)
<1>. USE DEF TypeInv, TypeOK, GoTo, Quiet, storeVars, Persisting, Ended
<1>1. CASE AnswerBlank(t) \/ AgentRaises(t) \/ Timeout(t) \/ Disconnect(t)
  BY <1>1 DEF AnswerBlank, AgentRaises, Timeout, Disconnect, End
<1>2. CASE \/ BuildAgent(t) \/ Tick(t) \/ Write(t) \/ WriteWhole(t)
           \/ AgentEnds(t) \/ Replay(t) \/ Store(t)
  BY <1>2 DEF BuildAgent, Tick, Write, WriteWhole, AgentEnds, Replay, Store,
              Event
<1>3. ASSUME \/ \E s, a : StartRun(t, s, a)
             \/ \E j : StartPoll(t, j)
             \/ \E c : ToolFails(t, c)
      PROVE  Quiet(t)
  BY <1>3 DEF StartRun, StartPoll, ToolFails, Event
<1>4. ASSUME NEW c, NEW j, Submit(t, c, j) PROVE Quiet(t)
  BY <1>4 DEF Submit
<1>5. ASSUME NEW c, ToolEnd(t, c) PROVE Quiet(t)
  BY <1>5, ToolEndSteps DEF ReadOn, ReadAndLook, GoesOn
<1>. QED
  BY <1>1, <1>2, <1>3, <1>4, <1>5 DEF Step, TurnStep, ServerStep, AgentStep

\* What has been told stays told.
LEMMA ToldStays ==
  ASSUME TypeInv, NEW t \in Turns, Step(t), NEW u \in Turns,
         told[u].job # None
  PROVE  told'[u] = told[u]
<1>1. CASE u # t
  BY <1>1, StepFrame DEF Untouched
<1>2. CASE u = t
  <2>1. phase[t] = "done"
    BY <1>2 DEF TypeInv, TypeOK, Silent
  <2>2. Quiet(t)
    BY <2>1, QuietSteps DEF ReadForOwner, SetOwner, ReadForNote, SetNote,
                            Breaks, Persisting
  <2>. QED
    BY <1>2, <2>2 DEF Quiet
<1>. QED
  BY <1>1, <1>2

LEMMA BlankStays ==
  ASSUME TypeInv, NEW t \in Turns, Step(t), NEW j \in Jobs, BlankTurn(j)
  PROVE  BlankTurn(j)'
BY ToldStays DEF BlankTurn

\* What an update begins with and what it leaves.
LEMMA UpdateSteps ==
  ASSUME RecordInv, NEW t \in Turns
  PROVE  /\ SetOwner(t) =>
              /\ turn[t].job \in Jobs /\ DeviceOf[t] # None
              /\ owner' = [owner EXCEPT ![turn[t].job] = DeviceOf[t]]
              /\ note' = [note EXCEPT ![turn[t].job] = turn[t].record.note]
              /\ phase'[t] = "note" /\ turn' = turn /\ told' = told
         /\ SetNote(t) =>
              /\ turn[t].job \in Jobs /\ Interpretation(t) # None
              /\ owner' = [owner EXCEPT ![turn[t].job] = turn[t].record.owner]
              /\ note' = [note EXCEPT ![turn[t].job] = Interpretation(t)]
              /\ phase'[t] = "done" /\ turn'[t] = Fresh(t)
              /\ told'[t] = Found(t)
         /\ Breaks(t) =>
              /\ UNCHANGED <<owner, note>>
              /\ phase'[t] = "broken" /\ turn'[t] = Fresh(t)
              /\ told'[t] = Silent
         /\ ReadForOwner(t) =>
              /\ UNCHANGED <<owner, note, told>> /\ phase[t] = "owner"
              /\ \/ /\ turn[t].job # None /\ DeviceOf[t] # None
                    /\ phase'[t] = "owning" /\ turn'[t].job = turn[t].job
                 \/ /\ turn[t].job = None \/ DeviceOf[t] = None
                    /\ phase'[t] = "note" /\ turn' = turn
         /\ ReadForNote(t) =>
              /\ UNCHANGED <<owner, note>> /\ phase[t] = "note"
              /\ \/ /\ turn[t].job \in Jobs /\ Interpretation(t) # None
                    /\ phase'[t] = "noting" /\ told' = told
                    /\ turn'[t].job = turn[t].job
                    /\ Interpretation(t)' = Interpretation(t)
                    /\ turn'[t].record.owner = owner[turn[t].job]
                 \/ /\ turn[t].job = None \/ Interpretation(t) = None
                    /\ phase'[t] = "done" /\ turn'[t] = Fresh(t)
                    /\ told'[t] = Found(t)
<1>. USE DEF RecordInv, TypeInv, TypeOK, GoTo, storeVars
<1>0. turn[t] \in Locals /\ turn[t].job \in Jobs \cup {None} /\ Persists(t)
  BY DEF Locals
<1>1. SetOwner(t) =>
        /\ turn[t].job \in Jobs /\ DeviceOf[t] # None
        /\ owner' = [owner EXCEPT ![turn[t].job] = DeviceOf[t]]
        /\ note' = [note EXCEPT ![turn[t].job] = turn[t].record.note]
        /\ phase'[t] = "note" /\ turn' = turn /\ told' = told
  BY <1>0 DEF SetOwner, Persists
<1>2. SetNote(t) =>
        /\ turn[t].job \in Jobs /\ Interpretation(t) # None
        /\ owner' = [owner EXCEPT ![turn[t].job] = turn[t].record.owner]
        /\ note' = [note EXCEPT ![turn[t].job] = Interpretation(t)]
        /\ phase'[t] = "done" /\ turn'[t] = Fresh(t)
        /\ told'[t] = Found(t)
  BY <1>0 DEF SetNote, Persists, End
<1>3. Breaks(t) =>
        /\ UNCHANGED <<owner, note>>
        /\ phase'[t] = "broken" /\ turn'[t] = Fresh(t)
        /\ told'[t] = Silent
  BY DEF Breaks, End
<1>4. ASSUME NEW to, Copy(t, to), turn[t].job # None
      PROVE  /\ UNCHANGED <<owner, note, told>> /\ phase'[t] = to
             /\ turn'[t].job = turn[t].job
             /\ Interpretation(t)' = Interpretation(t)
             /\ turn'[t].record.owner = owner[turn[t].job]
  <2>. DEFINE x == [owner |-> owner[turn[t].job], note |-> note[turn[t].job]]
  <2>1. x.owner = owner[turn[t].job]
    OBVIOUS
  <2>. HIDE DEF x
  <2>2. turn'[t] = [turn[t] EXCEPT !.record = x]
    BY <1>4 DEF Copy, x
  <2>3. /\ turn'[t].job = turn[t].job /\ turn'[t].record = x
        /\ turn'[t].cached = turn[t].cached
        /\ turn'[t].segment = turn[t].segment
    BY <1>0, <2>2 DEF Locals
  <2>. QED
    BY <1>4, <2>1, <2>3 DEF Copy, Interpretation
<1>5. ReadForOwner(t) =>
        /\ UNCHANGED <<owner, note, told>> /\ phase[t] = "owner"
        /\ \/ /\ turn[t].job # None /\ DeviceOf[t] # None
              /\ phase'[t] = "owning" /\ turn'[t].job = turn[t].job
           \/ /\ turn[t].job = None \/ DeviceOf[t] = None
              /\ phase'[t] = "note" /\ turn' = turn
  BY <1>4 DEF ReadForOwner
<1>6. ReadForNote(t) =>
        /\ UNCHANGED <<owner, note>> /\ phase[t] = "note"
        /\ \/ /\ turn[t].job \in Jobs /\ Interpretation(t) # None
              /\ phase'[t] = "noting" /\ told' = told
              /\ turn'[t].job = turn[t].job
              /\ Interpretation(t)' = Interpretation(t)
              /\ turn'[t].record.owner = owner[turn[t].job]
           \/ /\ turn[t].job = None \/ Interpretation(t) = None
              /\ phase'[t] = "done" /\ turn'[t] = Fresh(t)
              /\ told'[t] = Found(t)
  <2>1. CASE turn[t].job # None /\ Interpretation(t) # None
    BY <1>0, <1>4, <2>1 DEF ReadForNote
  <2>2. CASE turn[t].job = None \/ Interpretation(t) = None
    BY <2>2 DEF ReadForNote, End
  <2>. QED
    BY <2>1, <2>2
<1>. QED
  BY <1>1, <1>2, <1>3, <1>5, <1>6

\* An owned job stays owned: what a turn writes back over the owner is its own
\* device, or the owner it has read; and that of a turn without a device is
\* excepted.
LEMMA OwnedStays ==
  ASSUME RecordInv, NEW t \in Turns, Step(t), NEW j \in Jobs, Owned(j)
  PROVE  Owned(j)'
<1>. USE DEF Owned
<1>0. TypeInv /\ Persists(t) /\ owner \in [Jobs -> Devices \cup {None}]
  BY DEF RecordInv, TypeInv, TypeOK
<1>1. CASE BlankTurn(j)
  BY <1>0, <1>1, BlankStays
<1>2. CASE UNCHANGED owner /\ owner[j] # None
  BY <1>2
<1>3. CASE SetOwner(t) /\ owner[j] # None
  BY <1>0, <1>3, UpdateSteps
<1>4. CASE SetNote(t) /\ turn[t].job = j
  <2>1. /\ owner' = [owner EXCEPT ![j] = turn[t].record.owner]
        /\ told'[t] = Found(t)
    BY <1>4, UpdateSteps
  <2>2. Found(t).job = j /\ owner'[j] = turn[t].record.owner
    BY <1>0, <1>4, <2>1 DEF Found
  <2>3. phase[t] = "noting"
    BY <1>4 DEF SetNote
  <2>4. CASE DeviceOf[t] = None
    BY <2>1, <2>2, <2>4 DEF BlankTurn
  <2>5. CASE DeviceOf[t] # None
    <3>1. turn[t].record.owner # None \/ BlankTurn(j)
      BY <1>0, <1>4, <2>3, <2>5 DEF Persists
    <3>. QED
      BY <1>0, <2>2, <3>1, BlankStays
  <2>. QED
    BY <2>4, <2>5
<1>5. CASE SetNote(t) /\ turn[t].job # j /\ owner[j] # None
  BY <1>0, <1>5, UpdateSteps
<1>6. UNCHANGED owner \/ SetOwner(t) \/ SetNote(t)
  BY <1>0, QuietSteps, UpdateSteps DEF Quiet
<1>. QED
  BY <1>1, <1>2, <1>3, <1>4, <1>5, <1>6

\* A note stays as well, but for the time between the two updates of a turn,
\* or for ever if it does not get to the second.
LEMMA NotedStays ==
  ASSUME RecordInv, NEW t \in Turns, Step(t), NEW j \in Jobs, Noted(j)
  PROVE  Noted(j)'
<1>. USE DEF Noted
<1>0. TypeInv /\ note \in [Jobs -> Text]
  BY DEF RecordInv, TypeInv, TypeOK
<1>1. CASE SetOwner(t)
  <2>1. /\ DeviceOf[t] # None /\ phase'[t] = "note" /\ turn' = turn
        /\ told' = told /\ turn[t].job \in Jobs
        /\ note' = [note EXCEPT ![turn[t].job] = turn[t].record.note]
    BY <1>1, UpdateSteps
  <2>2. CASE turn[t].job = j
    BY <2>1, <2>2 DEF HalfPersisted
  <2>3. CASE turn[t].job # j /\ note[j] # None
    BY <1>0, <2>1, <2>3
  <2>4. ASSUME turn[t].job # j, NEW u \in Turns, DeviceOf[u] # None,
               \/ phase[u] \in {"note", "noting"} /\ turn[u].job = j
               \/ told[u].job = j /\ told[u].prose = None
               \/ phase[u] = "broken"
        PROVE  HalfPersisted(j)'
    <3>1. u # t => phase'[u] = phase[u]
      BY <1>0, StepFrame DEF Untouched
    <3>2. phase[t] = "owning"
      BY <1>1 DEF SetOwner
    <3>. QED
      BY <2>1, <2>4, <3>1, <3>2 DEF HalfPersisted
  <2>. QED
    BY <2>2, <2>3, <2>4 DEF HalfPersisted
<1>2. CASE SetNote(t) /\ turn[t].job = j
  BY <1>0, <1>2, UpdateSteps
<1>3. CASE note[j] # None /\ note'[j] = note[j]
  BY <1>3
<1>4. ASSUME NEW u \in Turns, DeviceOf[u] # None,
             \/ phase[u] \in {"note", "noting"} /\ turn[u].job = j
             \/ told[u].job = j /\ told[u].prose = None
             \/ phase[u] = "broken",
             ~SetOwner(t), ~(SetNote(t) /\ turn[t].job = j)
      PROVE  HalfPersisted(j)'
  <2>1. CASE u # t
    BY <1>0, <1>4, <2>1, StepFrame DEF Untouched, HalfPersisted
  <2>2. CASE told[u].job = j
    <3>1. told'[u] = told[u]
      BY <1>0, <2>2, ToldStays
    <3>2. CASE told[u].prose = None
      BY <1>4, <2>2, <3>1, <3>2 DEF HalfPersisted
    <3>3. CASE u = t /\ told[u].prose # None
      <4>1. phase[t] = "done"
        BY <1>0, <2>2, <3>3 DEF TypeInv, TypeOK, Silent
      <4>. QED
        BY <1>4, <3>3, <4>1
    <3>. QED
      BY <2>1, <3>2, <3>3
  <2>3. CASE u = t /\ phase[t] = "broken"
    <3>1. Quiet(t)
      BY <1>0, <2>3, QuietSteps
         DEF ReadForOwner, SetOwner, ReadForNote, SetNote, Breaks, Persisting
    <3>. QED
      BY <1>4, <2>3, <3>1 DEF Quiet, HalfPersisted
  <2>4. CASE u = t /\ phase[t] \in {"note", "noting"} /\ turn[t].job = j
    <3>1. CASE Quiet(t)
      BY <1>4, <2>4, <3>1 DEF Quiet, Persisting, HalfPersisted
    <3>2. CASE Breaks(t)
      BY <1>4, <2>4, <3>2, UpdateSteps DEF HalfPersisted
    <3>3. CASE ReadForNote(t)
      <4>1. CASE phase'[t] = "noting" /\ turn'[t].job = turn[t].job
        BY <1>4, <2>4, <4>1 DEF HalfPersisted
      <4>2. CASE told'[t] = Found(t) /\ Interpretation(t) = None
        <5>1. Found(t).job = j /\ Found(t).prose = None
          BY <2>4, <4>2 DEF Found
        <5>. QED
          BY <1>4, <2>4, <4>2, <5>1 DEF HalfPersisted
      <4>. QED
        BY <2>4, <3>3, <4>1, <4>2, UpdateSteps
    <3>4. ~ReadForOwner(t)
      BY <2>4 DEF ReadForOwner
    <3>. QED
      BY <1>0, <1>4, <2>4, <3>1, <3>2, <3>3, <3>4, QuietSteps
  <2>. QED
    BY <1>4, <2>1, <2>2, <2>3, <2>4
<1>5. SetOwner(t) \/ SetNote(t) \/ note' = note
  BY <1>0, QuietSteps, UpdateSteps DEF Quiet
<1>6. SetNote(t) /\ turn[t].job # j => note'[j] = note[j]
  BY <1>0, UpdateSteps
<1>. QED
  BY <1>1, <1>2, <1>3, <1>4, <1>5, <1>6 DEF HalfPersisted

\* The turn that steps persists as it should.
LEMMA PersistsStep ==
  ASSUME RecordInv, NEW t \in Turns, Step(t)
  PROVE  Persists(t)'
<1>0. /\ TypeInv /\ Persists(t) /\ turn[t].job \in Jobs \cup {None}
      /\ Fresh(t).job = None
  BY DEF RecordInv, TypeInv, TypeOK, Locals, Fresh
<1>1. CASE Quiet(t) /\ phase'[t] = phase[t] /\ turn'[t] = turn[t]
  BY <1>0, <1>1, OwnedStays, BlankStays DEF Persists, Interpretation
<1>2. CASE phase'[t] \notin {"owning", "note", "noting"}
  BY <1>2 DEF Persists
<1>3. CASE ReadForOwner(t)
  BY <1>0, <1>3, UpdateSteps DEF Persists
<1>4. CASE SetOwner(t)
  <2>1. /\ owner'[turn[t].job] # None /\ phase'[t] = "note" /\ turn' = turn
    BY <1>4, UpdateSteps DEF RecordInv, TypeInv, TypeOK
  <2>. QED
    BY <2>1 DEF Persists, Owned
<1>5. CASE ReadForNote(t) /\ phase'[t] = "noting"
  <2>1. /\ turn[t].job \in Jobs /\ Interpretation(t) # None
        /\ turn'[t].job = turn[t].job
        /\ Interpretation(t)' = Interpretation(t)
        /\ turn'[t].record.owner = owner[turn[t].job]
        /\ phase[t] = "note"
    BY <1>5, UpdateSteps
  <2>2. DeviceOf[t] # None => Owned(turn[t].job) /\ Owned(turn[t].job)'
    BY <1>0, <2>1, OwnedStays DEF Persists
  <2>3. DeviceOf[t] # None =>
          turn'[t].record.owner # None \/ BlankTurn(turn[t].job)'
    BY <1>0, <2>1, <2>2, BlankStays DEF Owned
  <2>. QED
    BY <1>5, <2>1, <2>2, <2>3 DEF Persists, Owned, BlankTurn
<1>6. SetNote(t) \/ Breaks(t) => phase'[t] \notin {"owning", "note", "noting"}
  BY UpdateSteps
<1>7. ReadForNote(t) => phase'[t] \in {"noting", "done"}
  BY UpdateSteps
<1>. QED
  BY <1>0, <1>1, <1>2, <1>3, <1>4, <1>5, <1>6, <1>7, QuietSteps DEF Quiet

LEMMA RecordedStep ==
  ASSUME RecordInv, NEW t \in Turns, Step(t)
  PROVE  Recorded(t)'
<1>0. /\ TypeInv /\ Persists(t) /\ Recorded(t)
      /\ told[t].job \in Jobs \cup {None}
      /\ turn[t].job \in Jobs \cup {None}
      /\ note \in [Jobs -> Text]
  BY DEF RecordInv, TypeInv, TypeOK, Locals, Done
<1>4. /\ \A j \in Jobs : Owned(j) => Owned(j)'
      /\ \A j \in Jobs : Noted(j) => Noted(j)'
  BY OwnedStays, NotedStays
<1>1. CASE told'[t] = told[t]
  BY <1>0, <1>1, <1>4
     DEF Recorded, Owned, Noted, BlankTurn, HalfPersisted
<1>2. CASE told'[t] = Silent
  BY <1>2 DEF Recorded, Silent
<1>3. CASE told'[t] = Found(t) /\ (SetNote(t) \/ ReadForNote(t))
  <2>1. CASE turn[t].job = None
    BY <1>3, <2>1 DEF Recorded, Found
  <2>2. ASSUME NEW j \in Jobs, turn[t].job = j PROVE Recorded(t)'
    <3>1. told'[t].job = j /\ told'[t].prose = Interpretation(t)
      BY <1>3, <2>2 DEF Found
    <3>2. phase[t] \in {"note", "noting"}
      BY <1>3 DEF SetNote, ReadForNote
    <3>3. DeviceOf[t] # None => Owned(j)'
      BY <1>0, <1>4, <2>2, <3>2 DEF Persists
    <3>4. Interpretation(t) # None => note'[j] # None
      <4>1. CASE SetNote(t)
        BY <1>0, <2>2, <4>1, UpdateSteps
      <4>2. CASE ReadForNote(t) /\ Interpretation(t) # None
        <5>1. told' = told /\ told[t] = Silent
          BY <1>0, <2>2, <3>2, <4>2, UpdateSteps DEF TypeInv, TypeOK
        <5>. QED
          BY <3>1, <4>2, <5>1 DEF Silent
      <4>. QED
        BY <1>3, <4>1, <4>2
    <3>. QED
      BY <3>1, <3>3, <3>4
         DEF Recorded, Owned, Noted, BlankTurn, HalfPersisted
  <2>. QED
    BY <1>0, <2>1, <2>2
<1>. QED
  BY <1>0, <1>1, <1>2, <1>3, ToldWhen

\* A job that the page is told of is in its device's history by then, with
\* the prose it was told, since set_owner, set_interpretation and `done` come
\* in this order, and an outage ends the turn instead (simulations.py:464-485):
\* nothing but another turn's update of the same record, begun before and
\* finished after, can undo it (job_store.py:119-127), and only that of a turn
\* without a device takes an owner out.  The agent may do what it likes.
THEOREM TellsWhatIsRecorded == Spec => []DoneRecorded
<1>1. Init => RecordInv
  <2>1. Init => \A t \in Turns : Persists(t) /\ Recorded(t)
    BY DEF Init, Persists, Recorded, Fresh, Silent
  <2>. QED
    BY <2>1, TypeInit DEF RecordInv
<1>2. RecordInv /\ [Next]_vars => RecordInv'
  <2>. SUFFICES ASSUME RecordInv, [Next]_vars PROVE RecordInv'
    OBVIOUS
  <2>1. TypeInv'
    BY TypeNext DEF RecordInv
  <2>2. ASSUME NEW t \in Turns, Step(t), NEW u \in Turns
        PROVE  Persists(u)' /\ Recorded(u)'
    <3>1. CASE u = t
      BY <2>2, <3>1, PersistsStep, RecordedStep
    <3>2. CASE u # t
      <4>1. /\ Untouched(u) /\ TypeInv /\ Persists(u) /\ Recorded(u)
            /\ told[u].job \in Jobs \cup {None}
            /\ turn[u].job \in Jobs \cup {None}
        BY <2>2, <3>2, StepFrame
           DEF RecordInv, TypeInv, TypeOK, Locals, Done
      <4>2. /\ \A j \in Jobs : Owned(j) => Owned(j)'
            /\ \A j \in Jobs : Noted(j) => Noted(j)'
            /\ \A j \in Jobs : BlankTurn(j) => BlankTurn(j)'
        BY <2>2, <4>1, OwnedStays, NotedStays, BlankStays
      <4>3. Persists(u)'
        BY <4>1, <4>2
           DEF Persists, Untouched, Interpretation, Owned, BlankTurn
      <4>4. Recorded(u)'
        BY <4>1, <4>2 DEF Recorded, Untouched, Owned, Noted, BlankTurn,
                          HalfPersisted
      <4>. QED
        BY <4>3, <4>4
    <3>. QED
      BY <3>1, <3>2
  <2>3. ASSUME UNCHANGED <<storeVars, turnVars>>, NEW u \in Turns
        PROVE  Persists(u)' /\ Recorded(u)'
    BY <2>3 DEF RecordInv, Persists, Recorded, Owned, Noted, BlankTurn,
                HalfPersisted, Interpretation, storeVars, turnVars
  <2>4. \A u \in Turns : Persists(u)' /\ Recorded(u)'
    BY <2>2, <2>3 DEF Next, Step, Settle, vars
  <2>. QED
    BY <2>1, <2>4 DEF RecordInv
<1>3. RecordInv => DoneRecorded
  BY DEF RecordInv, DoneRecorded, Recorded, Owned, Noted
<1>. QED
  BY <1>1, <1>2, <1>3, PTL DEF Spec

=============================================================================
