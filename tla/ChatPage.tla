------------------------------ MODULE ChatPage ------------------------------
(***************************************************************************)
(* The browser page (mcp_server/static/app.js): its views, the current     *)
(* conversation, the introductions it fetches (SolverIntro) and the event  *)
(* streams it opens, one for each message.  The page is one thread; every  *)
(* await and every event callback is an action of its own, so whatever the *)
(* engineer does in between may come first.  The server's side of a stream *)
(* is that of ChatStream: it answers with one `done` or one `error`, or    *)
(* breaks off without either.                                              *)
(***************************************************************************)
EXTENDS Naturals, Sequences, SolverIntro

CONSTANTS
  Solvers,   \* the rows of the sidebar; not Introduced: FreeCAD's fixed text
  Messages,  \* messages the engineer sends
  Patient,   \* those whose answer is waited for in the conversation
  Fallback   \* "Ready. Describe your simulation."

ASSUME PageAssumption ==
  /\ Introduced \subseteq Solvers
  /\ Patient \subseteq Messages
  /\ None \notin Solvers \cup {"done", "error"}
  /\ Fallback \notin Solvers \cup {None, Blank}

VARIABLES
  view,          \* currentView
  activeSolver,
  chatHistory,   \* the conversation on the page and sent along
  solverIntros,  \* the page's own introductions, for the session
  sending,       \* whether btn-send is disabled
  sent,          \* the solver each message was sent with
  stream,        \* where each message's handler is
  conn,          \* its EventSource
  mail,          \* the last event, on its way to the page
  turns          \* how many turns the server has begun for it

pageVars == <<view, activeSolver, chatHistory, solverIntros>>
streamVars == <<sending, sent, stream, conn, mail, turns>>
vars == <<pageVars, streamVars, introVars>>

Entry == [role : {"intro"}, of : Solvers, text : Solvers \cup {Fallback}]
           \cup [role : {"user"}, of : Messages]
           \cup [role : {"answer"}, of : Messages, card : Solvers \cup {None}]

\* The type invariant; the button is disabled only for a stream in progress.
TypeOK ==
  /\ IntroTypeOK
  /\ view \in {"faq", "chat", "result"}
  /\ activeSolver \in Solvers \cup {None}
  /\ \A i \in DOMAIN chatHistory : chatHistory[i] \in Entry
  /\ solverIntros \in [Solvers -> Solvers \cup {None, Fallback}]
  /\ sent \in [Messages -> Solvers \cup {None}]
  /\ stream \in [Messages -> {"unsent", "open", "reload", "over"}]
  /\ conn \in [Messages -> {"none", "connecting", "live", "ended",
                            "reconnecting", "closed"}]
  /\ mail \in [Messages -> {None, "done", "error"}]
  /\ turns \in [Messages -> Nat]
  /\ sending \in BOOLEAN
  /\ sending => \E m \in Messages : stream[m] \in {"open", "reload"}

Init ==
  /\ IntroInit
  /\ view = "faq"
  /\ activeSolver = None
  /\ chatHistory = <<>>
  /\ solverIntros = [s \in Solvers |-> None]
  /\ sending = FALSE
  /\ sent = [m \in Messages |-> None]
  /\ stream = [m \in Messages |-> "unsent"]
  /\ conn = [m \in Messages |-> "none"]
  /\ mail = [m \in Messages |-> None]
  /\ turns = [m \in Messages |-> 0]

-----------------------------------------------------------------------------
(***************************************************************************)
(* Views and introductions.                                                *)
(***************************************************************************)

\* A patient engineer stays until the answer is there.
MayLeave == \A m \in Patient : stream[m] # "open"

IntroBubble(s, words) == [role |-> "intro", of |-> s, text |-> words]

\* showFAQ
ShowFAQ ==
  /\ MayLeave
  /\ \/ view = "chat"
     \/ view = "result" /\ activeSolver = None
  /\ view' = "faq"
  /\ activeSolver' = None
  /\ chatHistory' = <<>>
  /\ UNCHANGED <<solverIntros, streamVars, introVars>>

\* showResult of a job in the sidebar; the conversation stays as it is.
ShowResult ==
  /\ MayLeave
  /\ view # "result"
  /\ view' = "result"
  /\ UNCHANGED <<activeSolver, chatHistory, solverIntros, streamVars,
                 introVars>>

\* The part of showChat before its await: a new conversation, with the
\* introduction if the page has it.
OpenChat(s) ==
  /\ MayLeave
  /\ view' = "chat"
  /\ activeSolver' = s
  /\ chatHistory' = IF solverIntros[s] = None THEN <<>>
                    ELSE <<IntroBubble(s, solverIntros[s])>>

\* showChat with an introduction at hand; back from the result view, or a
\* row of the sidebar.
ShowKnown(s) ==
  /\ solverIntros[s] # None
  /\ OpenChat(s)
  /\ UNCHANGED <<solverIntros, streamVars, introVars>>

\* showChat of a solver whose introduction is fixed: nothing is fetched, and
\* nothing else runs before it is shown.
ShowFixed(s) ==
  /\ solverIntros[s] = None
  /\ s \notin Introduced
  /\ MayLeave
  /\ view' = "chat"
  /\ activeSolver' = s
  /\ chatHistory' = <<IntroBubble(s, s)>>
  /\ solverIntros' = [solverIntros EXCEPT ![s] = s]
  /\ UNCHANGED <<streamVars, introVars>>

\* showChat up to getSolverIntro's fetch.
ShowUnknown(s, v) ==
  /\ solverIntros[s] = None
  /\ s \in Introduced
  /\ OpenChat(s)
  /\ Ask(v, s)
  /\ UNCHANGED <<solverIntros, streamVars>>

\* Mutant: the answer is shown wherever the engineer is by now.
ShowArrivedAnywhere(v) ==
  /\ Forget(v)
  /\ LET s == asked[v]
         words == IF text[v] = Blank THEN Fallback ELSE text[v]
     IN /\ solverIntros' = [solverIntros EXCEPT ![s] = words]
        /\ chatHistory' = Append(chatHistory, IntroBubble(s, words))
  /\ UNCHANGED <<view, activeSolver, streamVars>>

\* The rest of showChat: an answer that is empty, an HTTP error or no answer
\* at all give the fallback text; the guard discards the introduction of a
\* conversation that was left.
ShowArrived(v) ==
  /\ Forget(v)
  /\ LET s == asked[v]
     IN IF activeSolver # s \/ view # "chat"
        THEN UNCHANGED <<solverIntros, chatHistory>>
        ELSE \E words \in {Fallback, text[v]} \ {Blank} :
               /\ solverIntros' = [solverIntros EXCEPT ![s] = words]
               /\ chatHistory' = Append(chatHistory, IntroBubble(s, words))
  /\ UNCHANGED <<view, activeSolver, streamVars>>

-----------------------------------------------------------------------------
(***************************************************************************)
(* Messages.                                                               *)
(***************************************************************************)

\* sendChat.  The button is disabled, but Enter calls it as well, so a
\* message may be sent while another one is being answered.
Send(m) ==
  /\ view = "chat"
  /\ stream[m] = "unsent"
  /\ chatHistory' = Append(chatHistory, [role |-> "user", of |-> m])
  /\ sending' = TRUE
  /\ sent' = [sent EXCEPT ![m] = activeSolver]
  /\ stream' = [stream EXCEPT ![m] = "open"]
  /\ conn' = [conn EXCEPT ![m] = "connecting"]
  /\ UNCHANGED <<view, activeSolver, solverIntros, mail, turns, introVars>>

\* The server takes the request, the page's own or one that the browser
\* repeats, and begins a turn.
Accept(m) ==
  /\ conn[m] \in {"connecting", "reconnecting"}
  /\ conn' = [conn EXCEPT ![m] = "live"]
  /\ turns' = [turns EXCEPT ![m] = @ + 1]
  /\ UNCHANGED <<pageVars, introVars, sending, sent, stream, mail>>

\* The turn ends with its last event, and the response with it.
Answer(m, last) ==
  /\ conn[m] = "live"
  /\ conn' = [conn EXCEPT ![m] = "ended"]
  /\ mail' = [mail EXCEPT ![m] = last]
  /\ UNCHANGED <<pageVars, introVars, sending, sent, stream, turns>>

\* The server cannot be reached, or the response breaks off.
Drop(m) ==
  /\ conn[m] \in {"connecting", "reconnecting", "live"}
  /\ conn' = [conn EXCEPT ![m] = "ended"]
  /\ UNCHANGED <<pageVars, introVars, sending, sent, stream, mail, turns>>

\* Mutant: the source is left to the browser.
LeaveOpen(state) == state

\* What eventSource.close() makes of a source, in whatever state it is.
Close(state) == "closed"

\* Mutant: finish() leaves the button as it is.
ProceedForgetful(m, to) ==
  /\ stream' = [stream EXCEPT ![m] = to]
  /\ sending' = sending

\* Moves message m's handler on; `over` is finish().
Proceed(m, to) ==
  /\ stream' = [stream EXCEPT ![m] = to]
  /\ sending' = (sending /\ to # "over")

\* Whether the answer of m has a card, and under which solver: the one that
\* is selected now, or else the one the server reports, the turn's own.
Cards(m) ==
  {None, IF activeSolver # None THEN activeSolver ELSE sent[m]}

AnswerEntry(m, card) == [role |-> "answer", of |-> m, card |-> card]

\* `done`: the answer, unless it is empty, joins the conversation that is on
\* the page; with a job, the history is loaded again before the button is
\* given back.
OnDone(m) ==
  /\ mail[m] = "done"
  /\ mail' = [mail EXCEPT ![m] = None]
  /\ conn' = [conn EXCEPT ![m] = Close(@)]
  /\ \/ UNCHANGED chatHistory
     \/ \E card \in Cards(m) :
          chatHistory' = Append(chatHistory, AnswerEntry(m, card))
  /\ \E next \in {"reload", "over"} : Proceed(m, next)
  /\ UNCHANGED <<view, activeSolver, solverIntros, sent, turns, introVars>>

\* Mutant: the answer joins the conversation when the history is there.
ReloadedShows(m) ==
  /\ stream[m] = "reload"
  /\ Proceed(m, "over")
  /\ chatHistory' = Append(chatHistory, AnswerEntry(m, None))
  /\ UNCHANGED <<view, activeSolver, solverIntros, introVars, sent, conn,
                 mail, turns>>

\* Mutant: a load that fails raises, and finish() is not reached.
ReloadedOrRaised(m) ==
  /\ stream[m] = "reload"
  /\ \E to \in {"over", "raised"} : Proceed(m, to)
  /\ UNCHANGED <<pageVars, introVars, sent, conn, mail, turns>>

\* loadJobsFromBackend has returned; it swallows its errors.
Reloaded(m) ==
  /\ stream[m] = "reload"
  /\ Proceed(m, "over")
  /\ UNCHANGED <<pageVars, introVars, sent, conn, mail, turns>>

\* `error`: a bubble, and nothing in the history.
OnError(m) ==
  /\ mail[m] = "error"
  /\ mail' = [mail EXCEPT ![m] = None]
  /\ conn' = [conn EXCEPT ![m] = Close(@)]
  /\ Proceed(m, "over")
  /\ UNCHANGED <<pageVars, introVars, sent, turns>>

\* A response has ended and its source is not closed: the browser is about to
\* connect again by itself, and calls onerror before it does.
OnConnectionError(m) ==
  /\ conn[m] = "ended"
  /\ mail[m] = None
  /\ conn' = [conn EXCEPT ![m] = Close("reconnecting")]
  /\ Proceed(m, "over")
  /\ UNCHANGED <<pageVars, introVars, sent, mail, turns>>

-----------------------------------------------------------------------------
Visit ==
  \/ ShowFAQ
  \/ ShowResult
  \/ \E s \in Solvers : \/ ShowKnown(s)
                        \/ ShowFixed(s)
                        \/ \E v \in Visits : ShowUnknown(s, v)
  \/ \E m \in Messages : Send(m)

StreamStep(m) ==
  \/ Accept(m)
  \/ \E last \in {"done", "error"} : Answer(m, last)
  \/ Drop(m)
  \/ OnDone(m)
  \/ Reloaded(m)
  \/ OnError(m)
  \/ OnConnectionError(m)

Next ==
  \/ Visit
  \/ \E v \in Visits : \/ Serve(v) /\ UNCHANGED <<pageVars, streamVars>>
                       \/ ShowArrived(v)
  \/ \E m \in Messages : StreamStep(m)

Spec == Init /\ [][Next]_vars

\* The server's turns end (ChatStream), a connection is made or refused, and
\* the page handles the events it gets.  The engineer need not do anything.
FairSpec == Spec /\ \A m \in Messages : WF_vars(StreamStep(m))

-----------------------------------------------------------------------------
(***************************************************************************)
(* Requirements.                                                           *)
(***************************************************************************)

\* An introduction stands only in a conversation with its own solver, however
\* fast the engineer moves between solvers while introductions are fetched
\* (app.js:121-122).
IntroInPlace ==
  \A i \in DOMAIN chatHistory :
     chatHistory[i].role = "intro" => chatHistory[i].of = activeSolver

\* The answer to a message whose answer the engineer waits for comes after
\* that message in its own conversation, with no card but of its own solver,
\* although the answers to other messages arrive in between
\* (app.js:461-495).
AnswersInPlace ==
  \A i \in DOMAIN chatHistory :
     LET entry == chatHistory[i]
     IN entry.role = "answer" /\ entry.of \in Patient =>
          /\ sent[entry.of] = activeSolver
          /\ entry.card \in {None, sent[entry.of]}
          /\ \E k \in 1..(i - 1) :
               chatHistory[k] = [role |-> "user", of |-> entry.of]

AnswersTo(m) ==
  {i \in DOMAIN chatHistory :
     chatHistory[i].role = "answer" /\ chatHistory[i].of = m}

\* A message is run by the server at most once and answered at most once in
\* the conversation: a browser repeats the request of a source whose response
\* has ended, and only close() keeps it from doing so, in whichever handler
\* comes to run, also before the one of done waits for the history
\* (app.js:462,518,530).
OneTurnPerMessage ==
  \A m \in Messages :
     turns[m] <= 1 /\ \A i, k \in AnswersTo(m) : i = k

\* Every message gives the button back in the end, whatever becomes of its
\* stream and wherever the engineer has gone.
StreamSettles ==
  \A m \in Messages :
     stream[m] = "open" ~> (stream[m] = "over" /\ conn[m] = "closed"
                            /\ ~sending)

=============================================================================
