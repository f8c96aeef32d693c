--------------------------- MODULE ChatPageProofs ---------------------------
(***************************************************************************)
(* What is proved of ChatPage and SolverIntro, for any sets of solvers,    *)
(* messages and concurrent requests and a conversation of any length.      *)
(*                                                                         *)
(* TypeOK is not inductive: the page shows what a request answered, so a   *)
(* request under way has to be about a solver, and an answer has to be a   *)
(* text (RequestReady).                                                    *)
(***************************************************************************)
EXTENDS ChatPage, TLAPS

USE PageAssumption, IntroAssumption

-----------------------------------------------------------------------------
\* A request under way is about an introduced solver, and answers with a text.
RequestReady ==
  \A v \in Visits :
    /\ stage[v] # "idle" => asked[v] \in Introduced
    /\ stage[v] = "answered" => text[v] # None

TypeInv == TypeOK /\ chatHistory \in Seq(Entry) /\ RequestReady

\* What one more bubble does to a conversation.
LEMMA AppendFacts ==
  ASSUME NEW S, NEW s \in Seq(S), NEW e \in S
  PROVE  /\ Append(s, e) \in Seq(S)
         /\ DOMAIN s = 1..Len(s)
         /\ DOMAIN Append(s, e) = 1..(Len(s) + 1)
         /\ \A i \in 1..Len(s) : Append(s, e)[i] = s[i]
         /\ Append(s, e)[Len(s) + 1] = e
         /\ Len(s) \in Nat
OBVIOUS

\* A conversation of one bubble.
LEMMA OneBubble ==
  ASSUME NEW S, NEW e \in S
  PROVE  /\ <<e>> \in Seq(S)
         /\ DOMAIN <<e>> = {1}
         /\ <<e>>[1] = e
OBVIOUS

\* The empty conversation.
LEMMA NoBubble == <<>> \in Seq(Entry) /\ DOMAIN <<>> = {}
OBVIOUS

\* The bubbles the page makes are entries of the conversation.
LEMMA EntryTypes ==
  /\ \A s \in Solvers, words \in Solvers \cup {Fallback} :
        IntroBubble(s, words) \in Entry
  /\ \A m \in Messages : [role |-> "user", of |-> m] \in Entry
  /\ \A m \in Messages, card \in Solvers \cup {None} :
        AnswerEntry(m, card) \in Entry
BY DEF IntroBubble, AnswerEntry, Entry

\* A conversation in Seq(Entry) holds entries.
LEMMA EntriesTyped ==
  ASSUME NEW h \in Seq(Entry)
  PROVE  \A i \in DOMAIN h : h[i] \in Entry
OBVIOUS

\* At the start nothing is under way.
LEMMA InitType == Init => TypeInv
<1>. SUFFICES ASSUME Init PROVE TypeInv
  OBVIOUS
<1>1. IntroTypeOK /\ RequestReady
  BY DEF Init, IntroInit, IntroTypeOK, RequestReady, Texts
<1>2. chatHistory \in Seq(Entry) /\ \A i \in DOMAIN chatHistory : chatHistory[i] \in Entry
  BY NoBubble DEF Init
<1>3. TypeOK
  BY <1>1, <1>2 DEF Init, TypeOK
<1>. QED
  BY <1>1, <1>2, <1>3 DEF TypeInv

\* The part of the type invariant that is about the page and its streams.
HistoryTyped == chatHistory \in Seq(Entry)

StreamsTyped ==
  /\ sent \in [Messages -> Solvers \cup {None}]
  /\ stream \in [Messages -> {"unsent", "open", "reload", "over"}]
  /\ conn \in [Messages -> {"none", "connecting", "live", "ended",
                            "reconnecting", "closed"}]
  /\ mail \in [Messages -> {None, "done", "error"}]
  /\ turns \in [Messages -> Nat]
  /\ sending \in BOOLEAN
  /\ sending => \E m \in Messages : stream[m] \in {"open", "reload"}

PageTyped ==
  /\ view \in {"faq", "chat", "result"}
  /\ activeSolver \in Solvers \cup {None}
  /\ solverIntros \in [Solvers -> Solvers \cup {None, Fallback}]

RequestsTyped == IntroTypeOK /\ RequestReady

LEMMA TypeParts ==
  TypeInv <=> RequestsTyped /\ PageTyped /\ HistoryTyped /\ StreamsTyped
<1>1. HistoryTyped => \A i \in DOMAIN chatHistory : chatHistory[i] \in Entry
  BY EntriesTyped DEF HistoryTyped
<1>. QED
  BY <1>1 DEF TypeInv, TypeOK, RequestsTyped, PageTyped, HistoryTyped,
              StreamsTyped

LEMMA TypePartsNext ==
  ASSUME RequestsTyped', PageTyped', HistoryTyped', StreamsTyped'
  PROVE  TypeInv'
BY TypeParts, PTL

\* A request keeps its solver until the page has read the answer.
LEMMA RequestType ==
  ASSUME TypeInv, NEW v \in Visits,
         Serve(v) \/ Forget(v) \/ \E s \in Introduced : Ask(v, s)
  PROVE  RequestsTyped'
<1>. USE DEF RequestsTyped, IntroTypeOK, RequestReady, Reach, Texts
<1>1. RequestsTyped
  BY TypeParts
<1>2. CASE Forget(v)
  BY <1>1, <1>2 DEF Forget
<1>3. CASE \E s \in Introduced : Ask(v, s)
  BY <1>1, <1>3 DEF Ask
<1>4. CASE GetIntro(v)
  BY <1>1, <1>4 DEF GetIntro
<1>5. CASE Generate(v)
  BY <1>1, <1>5 DEF Generate, StoreIntro
<1>6. CASE ModelRaises(v)
  BY <1>1, <1>6 DEF ModelRaises
<1>. QED
  BY <1>2, <1>3, <1>4, <1>5, <1>6 DEF Serve

\* A request that nobody moves stays as it is.
LEMMA RequestsStay ==
  ASSUME TypeInv, UNCHANGED introVars
  PROVE  RequestsTyped'
BY TypeParts DEF RequestsTyped, IntroTypeOK, RequestReady, introVars

\* Streams that nobody moves stay as they are.
LEMMA StreamsStay ==
  ASSUME TypeInv, UNCHANGED streamVars
  PROVE  StreamsTyped'
BY TypeParts DEF StreamsTyped, streamVars

\* Moving between views keeps the page typed.
LEMMA ViewType ==
  ASSUME TypeInv,
         ShowFAQ \/ ShowResult
           \/ \E s \in Solvers : \/ ShowKnown(s)
                                 \/ ShowFixed(s)
                                 \/ \E v \in Visits : ShowUnknown(s, v)
  PROVE  TypeInv'
<1>1. PageTyped /\ HistoryTyped /\ UNCHANGED streamVars
  BY TypeParts DEF ShowFAQ, ShowResult, ShowKnown, ShowFixed, ShowUnknown
<1>2. StreamsTyped'
  BY <1>1, StreamsStay
<1>. USE DEF PageTyped, HistoryTyped
<1>3. CASE ShowFAQ
  <2>1. PageTyped' /\ HistoryTyped'
    BY <1>1, <1>3, NoBubble DEF ShowFAQ
  <2>2. RequestsTyped'
    BY <1>3, RequestsStay DEF ShowFAQ
  <2>. QED
    BY <1>2, <2>1, <2>2, TypePartsNext
<1>4. CASE ShowResult
  <2>1. PageTyped' /\ HistoryTyped'
    BY <1>1, <1>4 DEF ShowResult
  <2>2. RequestsTyped'
    BY <1>4, RequestsStay DEF ShowResult
  <2>. QED
    BY <1>2, <2>1, <2>2, TypePartsNext
<1>5. ASSUME NEW s \in Solvers, OpenChat(s)
      PROVE  /\ view' = "chat" /\ activeSolver' = s
             /\ HistoryTyped'
  <2>1. CASE solverIntros[s] = None
    BY <1>5, <2>1, NoBubble DEF OpenChat
  <2>2. CASE solverIntros[s] # None
    <3>1. IntroBubble(s, solverIntros[s]) \in Entry
      BY <1>1, <2>2, EntryTypes
    <3>. QED
      BY <1>5, <2>2, <3>1, OneBubble DEF OpenChat
  <2>. QED
    BY <2>1, <2>2
<1>6. ASSUME NEW s \in Solvers, ShowKnown(s)
      PROVE  TypeInv'
  <2>1. PageTyped' /\ HistoryTyped'
    BY <1>1, <1>5, <1>6 DEF ShowKnown
  <2>2. RequestsTyped'
    BY <1>6, RequestsStay DEF ShowKnown
  <2>. QED
    BY <1>2, <2>1, <2>2, TypePartsNext
<1>7. ASSUME NEW s \in Solvers, ShowFixed(s)
      PROVE  TypeInv'
  <2>1. HistoryTyped'
    BY <1>7, EntryTypes, OneBubble DEF ShowFixed
  <2>2. PageTyped'
    BY <1>1, <1>7 DEF ShowFixed
  <2>3. RequestsTyped'
    BY <1>7, RequestsStay DEF ShowFixed
  <2>. QED
    BY <1>2, <2>1, <2>2, <2>3, TypePartsNext
<1>8. ASSUME NEW s \in Solvers, NEW v \in Visits, ShowUnknown(s, v)
      PROVE  TypeInv'
  <2>1. PageTyped' /\ HistoryTyped'
    BY <1>1, <1>5, <1>8 DEF ShowUnknown
  <2>2. RequestsTyped'
    BY <1>8, RequestType DEF ShowUnknown
  <2>. QED
    BY <1>2, <2>1, <2>2, TypePartsNext
<1>. QED
  BY <1>3, <1>4, <1>6, <1>7, <1>8

\* An introduction that arrives is a text of an introduced solver.
LEMMA ArrivalType ==
  ASSUME TypeInv, NEW v \in Visits, ShowArrived(v)
  PROVE  TypeInv'
<1>1. RequestsTyped /\ PageTyped /\ HistoryTyped /\ StreamsTyped
  BY TypeParts
<1>2. RequestsTyped'
  BY RequestType DEF ShowArrived
<1>3. StreamsTyped'
  BY StreamsStay DEF ShowArrived
<1>4. asked[v] \in Solvers /\ text[v] \in Solvers \cup {Blank}
  BY <1>1 DEF ShowArrived, Forget, RequestsTyped, RequestReady, IntroTypeOK,
              Texts
<1>5. UNCHANGED <<view, activeSolver>>
  BY DEF ShowArrived
<1>6. CASE UNCHANGED <<solverIntros, chatHistory>>
  BY <1>1, <1>2, <1>3, <1>5, <1>6, TypePartsNext DEF PageTyped, HistoryTyped
<1>7. ASSUME NEW words \in {Fallback, text[v]} \ {Blank},
             solverIntros' = [solverIntros EXCEPT ![asked[v]] = words],
             chatHistory' = Append(chatHistory, IntroBubble(asked[v], words))
      PROVE  TypeInv'
  <2>1. words \in Solvers \cup {Fallback}
    BY <1>4
  <2>2. IntroBubble(asked[v], words) \in Entry
    BY <1>4, <2>1, EntryTypes
  <2>3. HistoryTyped'
    BY <1>1, <1>7, <2>2, AppendFacts DEF HistoryTyped
  <2>4. PageTyped'
    BY <1>1, <1>4, <1>5, <1>7, <2>1 DEF PageTyped
  <2>. QED
    BY <1>2, <1>3, <2>3, <2>4, TypePartsNext
<1>. QED
  BY <1>6, <1>7 DEF ShowArrived

\* finish() gives the button back; any other step leaves its stream open.
LEMMA ProceedType ==
  ASSUME StreamsTyped, NEW m \in Messages, NEW to \in {"reload", "over"},
         Proceed(m, to)
  PROVE  /\ stream' \in [Messages -> {"unsent", "open", "reload", "over"}]
         /\ sending' \in BOOLEAN
         /\ sending' => \E n \in Messages : stream'[n] \in {"open", "reload"}
<1>1. stream' \in [Messages -> {"unsent", "open", "reload", "over"}]
  BY DEF StreamsTyped, Proceed
<1>2. sending' \in BOOLEAN
  BY DEF StreamsTyped, Proceed
<1>3. ASSUME sending' PROVE to = "reload"
  BY <1>3 DEF Proceed
<1>4. to = "reload" => stream'[m] \in {"open", "reload"}
  BY DEF StreamsTyped, Proceed
<1>. QED
  BY <1>1, <1>2, <1>3, <1>4

\* Sending a message, and every step of its stream, keep the types.
LEMMA StreamType ==
  ASSUME TypeInv, NEW m \in Messages, Send(m) \/ StreamStep(m)
  PROVE  TypeInv'
<1>1. RequestsTyped /\ PageTyped /\ HistoryTyped /\ StreamsTyped
  BY TypeParts
<1>2. UNCHANGED <<view, activeSolver, solverIntros, introVars>>
  BY DEF Send, StreamStep, Accept, Answer, Drop, OnDone, Reloaded, OnError,
         OnConnectionError, pageVars
<1>3. RequestsTyped' /\ PageTyped'
  BY <1>1, <1>2, RequestsStay DEF PageTyped
<1>. SUFFICES HistoryTyped' /\ StreamsTyped'
  BY <1>3, TypePartsNext
<1>4. UNCHANGED chatHistory => HistoryTyped'
  BY <1>1 DEF HistoryTyped
<1>5. CASE Send(m)
  <2>1. HistoryTyped'
    BY <1>1, <1>5, EntryTypes, AppendFacts DEF HistoryTyped, Send
  <2>2. stream'[m] = "open" /\ sending'
    BY <1>1, <1>5 DEF Send, StreamsTyped
  <2>3. StreamsTyped'
    BY <1>1, <1>5, <2>2 DEF Send, StreamsTyped, PageTyped
  <2>. QED
    BY <2>1, <2>3
<1>6. CASE Accept(m)
  BY <1>1, <1>4, <1>6 DEF Accept, StreamsTyped, pageVars
<1>7. ASSUME NEW last \in {"done", "error"}, Answer(m, last)
      PROVE  HistoryTyped' /\ StreamsTyped'
  BY <1>1, <1>4, <1>7 DEF Answer, StreamsTyped, pageVars
<1>8. CASE Drop(m)
  BY <1>1, <1>4, <1>8 DEF Drop, StreamsTyped, pageVars
<1>9. CASE OnDone(m)
  <2>1. Cards(m) \subseteq Solvers \cup {None}
    BY <1>1 DEF Cards, PageTyped, StreamsTyped
  <2>2. ASSUME NEW card \in Cards(m),
               chatHistory' = Append(chatHistory, AnswerEntry(m, card))
        PROVE  HistoryTyped'
    BY <1>1, <2>1, <2>2, EntryTypes, AppendFacts DEF HistoryTyped
  <2>3. HistoryTyped'
    BY <1>4, <1>9, <2>2 DEF OnDone
  <2>4. StreamsTyped'
    BY <1>1, <1>9, ProceedType DEF OnDone, Close, StreamsTyped
  <2>. QED
    BY <2>3, <2>4
<1>10. CASE Reloaded(m)
  BY <1>1, <1>4, <1>10, ProceedType DEF Reloaded, StreamsTyped, pageVars
<1>11. CASE OnError(m)
  BY <1>1, <1>4, <1>11, ProceedType
     DEF OnError, Close, StreamsTyped, pageVars
<1>12. CASE OnConnectionError(m)
  BY <1>1, <1>4, <1>12, ProceedType
     DEF OnConnectionError, Close, StreamsTyped, pageVars
<1>. QED
  BY <1>5, <1>6, <1>7, <1>8, <1>9, <1>10, <1>11, <1>12 DEF StreamStep

\* Every step keeps the types.
LEMMA NextType == TypeInv /\ [Next]_vars => TypeInv'
<1>. SUFFICES ASSUME TypeInv, [Next]_vars PROVE TypeInv'
  OBVIOUS
<1>1. RequestsTyped /\ PageTyped /\ HistoryTyped /\ StreamsTyped
  BY TypeParts
<1>2. CASE Visit
  BY <1>2, ViewType, StreamType DEF Visit
<1>3. ASSUME NEW v \in Visits, Serve(v), UNCHANGED <<pageVars, streamVars>>
      PROVE  TypeInv'
  <2>1. RequestsTyped' /\ StreamsTyped'
    BY <1>3, RequestType, StreamsStay
  <2>2. PageTyped' /\ HistoryTyped'
    BY <1>1, <1>3 DEF PageTyped, HistoryTyped, pageVars
  <2>. QED
    BY <2>1, <2>2, TypePartsNext
<1>4. ASSUME NEW v \in Visits, ShowArrived(v)
      PROVE  TypeInv'
  BY <1>4, ArrivalType
<1>5. ASSUME NEW m \in Messages, StreamStep(m)
      PROVE  TypeInv'
  BY <1>5, StreamType
<1>6. CASE UNCHANGED vars
  <2>1. RequestsTyped' /\ StreamsTyped'
    BY <1>6, RequestsStay, StreamsStay DEF vars
  <2>2. PageTyped' /\ HistoryTyped'
    BY <1>1, <1>6 DEF PageTyped, HistoryTyped, vars, pageVars
  <2>. QED
    BY <2>1, <2>2, TypePartsNext
<1>. QED
  BY <1>2, <1>3, <1>4, <1>5, <1>6 DEF Next

\* Every variable of the page keeps its type, and the button is disabled only
\* for a stream in progress, however views, requests and streams interleave.
THEOREM PageTypeCorrect == Spec => []TypeOK
<1>1. TypeInv => TypeOK
  BY DEF TypeInv
<1>. QED
  BY <1>1, InitType, NextType, PTL DEF Spec

-----------------------------------------------------------------------------
\* A source whose response may still come, or has ended and was not closed, is
\* that of an open stream; one that has begun a turn is never made again; and
\* an event that waits to be handled is the last one of its source.
TurnOf(m) ==
  /\ turns[m] <= 1
  /\ conn[m] # "reconnecting"
  /\ conn[m] \in {"none", "connecting"} => turns[m] = 0
  /\ conn[m] \in {"connecting", "live", "ended"} => stream[m] = "open"
  /\ mail[m] # None => conn[m] = "ended"
  /\ stream[m] = "unsent" => conn[m] = "none"

TurnInv == \A m \in Messages : TurnOf(m)

\* What one stream does is nothing to the others.
LEMMA TurnOthers ==
  ASSUME TurnInv, NEW m \in Messages,
         \A n \in Messages \ {m} :
           /\ turns'[n] = turns[n] /\ conn'[n] = conn[n]
           /\ stream'[n] = stream[n] /\ mail'[n] = mail[n],
         TurnOf(m)'
  PROVE  TurnInv'
BY DEF TurnInv, TurnOf

LEMMA TurnStep ==
  ASSUME TypeInv, TurnInv, NEW m \in Messages, Send(m) \/ StreamStep(m)
  PROVE  TurnInv'
<1>1. StreamsTyped
  BY TypeParts
<1>2. TurnOf(m)
  BY DEF TurnInv
<1>. USE <1>1 DEF StreamsTyped
<1>3. CASE Send(m)
  BY <1>2, <1>3, TurnOthers DEF Send, TurnOf
<1>4. CASE Accept(m)
  <2>1. /\ conn[m] = "connecting" /\ stream[m] = "open" /\ turns[m] = 0
        /\ mail[m] = None
    BY <1>2, <1>4 DEF Accept, TurnOf
  <2>2. /\ conn' = [conn EXCEPT ![m] = "live"]
        /\ turns' = [turns EXCEPT ![m] = turns[m] + 1]
        /\ UNCHANGED <<stream, mail>>
    BY <1>4 DEF Accept
  <2>3. TurnOf(m)'
    BY <2>1, <2>2 DEF TurnOf
  <2>. QED
    BY <2>2, <2>3, TurnOthers
<1>5. ASSUME NEW last \in {"done", "error"}, Answer(m, last)
      PROVE  TurnInv'
  BY <1>2, <1>5, TurnOthers DEF Answer, TurnOf
<1>6. CASE Drop(m)
  BY <1>2, <1>6, TurnOthers DEF Drop, TurnOf
<1>7. CASE OnDone(m)
  <2>1. PICK to \in {"reload", "over"} :
          /\ stream' = [stream EXCEPT ![m] = to]
          /\ conn' = [conn EXCEPT ![m] = "closed"]
          /\ mail' = [mail EXCEPT ![m] = None]
          /\ UNCHANGED turns
    BY <1>7 DEF OnDone, Close, Proceed
  <2>2. TurnOf(m)'
    BY <1>2, <2>1 DEF TurnOf
  <2>. QED
    BY <2>1, <2>2, TurnOthers
<1>8. CASE Reloaded(m)
  BY <1>2, <1>8, TurnOthers DEF Reloaded, Proceed, TurnOf
<1>9. CASE OnError(m)
  BY <1>2, <1>9, TurnOthers DEF OnError, Close, Proceed, TurnOf
<1>10. CASE OnConnectionError(m)
  BY <1>2, <1>10, TurnOthers DEF OnConnectionError, Close, Proceed, TurnOf
<1>. QED
  BY <1>3, <1>4, <1>5, <1>6, <1>7, <1>8, <1>9, <1>10 DEF StreamStep

LEMMA TurnInit == Init => TurnInv
BY DEF Init, TurnInv, TurnOf

LEMMA TurnNext == TypeInv /\ TurnInv /\ [Next]_vars => TurnInv'
<1>. SUFFICES ASSUME TypeInv, TurnInv, [Next]_vars PROVE TurnInv'
  OBVIOUS
<1>1. UNCHANGED streamVars => TurnInv'
  BY DEF TurnInv, TurnOf, streamVars
<1>2. Visit => TurnInv'
  BY <1>1, TurnStep DEF Visit, ShowFAQ, ShowResult, ShowKnown, ShowFixed,
                        ShowUnknown
<1>3. ASSUME NEW v \in Visits, ShowArrived(v) PROVE UNCHANGED streamVars
  BY <1>3 DEF ShowArrived
<1>. QED
  BY <1>1, <1>2, <1>3, TurnStep DEF Next, vars

-----------------------------------------------------------------------------
\* A message whose stream is not done with has no answer yet, and none has two.
OnceAnswered ==
  \A m \in Messages :
    /\ stream[m] \in {"unsent", "open"} => AnswersTo(m) = {}
    /\ \A i, k \in AnswersTo(m) : i = k

\* A conversation that stays, or starts again, has no more answers than before.
LEMMA OnceKept ==
  ASSUME OnceAnswered,
         \A m \in Messages : AnswersTo(m)' \subseteq AnswersTo(m),
         \A m \in Messages : stream'[m] \in {"unsent", "open"} =>
            stream[m] \in {"unsent", "open"}
  PROVE  OnceAnswered'
BY DEF OnceAnswered

LEMMA OnceGrown ==
  ASSUME chatHistory \in Seq(Entry), NEW e \in Entry,
         chatHistory' = Append(chatHistory, e)
  PROVE  \A m \in Messages :
           AnswersTo(m)' = IF e.role = "answer" /\ e.of = m
                           THEN AnswersTo(m) \cup {Len(chatHistory) + 1}
                           ELSE AnswersTo(m)
<1>1. /\ Len(chatHistory) \in Nat
      /\ DOMAIN chatHistory = 1..Len(chatHistory)
      /\ DOMAIN chatHistory' = 1..(Len(chatHistory) + 1)
      /\ \A k \in 1..Len(chatHistory) : chatHistory'[k] = chatHistory[k]
      /\ chatHistory'[Len(chatHistory) + 1] = e
  BY AppendFacts
<1>2. 1..(Len(chatHistory) + 1) =
        1..Len(chatHistory) \cup {Len(chatHistory) + 1}
  BY <1>1
<1>. QED
  BY <1>1, <1>2 DEF AnswersTo

\* A conversation of at most one introduction has no answer.
LEMMA OnceFresh ==
  ASSUME NEW s, NEW words,
         chatHistory' \in {<<>>, <<IntroBubble(s, words)>>}
  PROVE  \A m \in Messages : AnswersTo(m)' = {}
<1>1. CASE chatHistory' = <<>>
  BY <1>1 DEF AnswersTo
<1>2. CASE chatHistory' = <<IntroBubble(s, words)>>
  <2>1. IntroBubble(s, words).role = "intro"
    BY DEF IntroBubble
  <2>2. DOMAIN chatHistory' = {1} /\ chatHistory'[1].role = "intro"
    BY <1>2, <2>1
  <2>. QED
    BY <2>2 DEF AnswersTo
<1>. QED
  BY <1>1, <1>2

LEMMA OnceStream ==
  ASSUME TypeInv, TurnInv, OnceAnswered, NEW m \in Messages,
         Send(m) \/ StreamStep(m)
  PROVE  OnceAnswered'
<1>1. StreamsTyped /\ chatHistory \in Seq(Entry)
  BY TypeParts DEF TypeInv
<1>2. TurnOf(m)
  BY DEF TurnInv
<1>3. ASSUME UNCHANGED chatHistory,
             \/ UNCHANGED stream
             \/ \E to \in {"reload", "over"} : stream' = [stream EXCEPT ![m] = to]
      PROVE  OnceAnswered'
  <2>1. \A n \in Messages : AnswersTo(n)' \subseteq AnswersTo(n)
    BY <1>3 DEF AnswersTo
  <2>2. \A n \in Messages : stream'[n] \in {"unsent", "open"} =>
            stream[n] \in {"unsent", "open"}
    BY <1>1, <1>3 DEF StreamsTyped
  <2>. QED
    BY <2>1, <2>2, OnceKept
<1>4. CASE Send(m)
  <2>. DEFINE e == [role |-> "user", of |-> m]
  <2>1. e \in Entry /\ e.role = "user"
    BY EntryTypes
  <2>2. /\ chatHistory' = Append(chatHistory, e)
        /\ stream[m] = "unsent" /\ stream' = [stream EXCEPT ![m] = "open"]
    BY <1>4 DEF Send
  <2>. HIDE DEF e
  <2>3. \A n \in Messages : AnswersTo(n)' \subseteq AnswersTo(n)
    BY <1>1, <2>1, <2>2, OnceGrown
  <2>4. \A n \in Messages : stream'[n] \in {"unsent", "open"} =>
            stream[n] \in {"unsent", "open"}
    BY <1>1, <2>2 DEF StreamsTyped
  <2>. QED
    BY <2>3, <2>4, OnceKept
<1>5. CASE OnDone(m)
  <2>1. /\ stream[m] = "open" /\ AnswersTo(m) = {}
        /\ \E to \in {"reload", "over"} : stream' = [stream EXCEPT ![m] = to]
    BY <1>2, <1>5 DEF OnDone, Proceed, TurnOf, OnceAnswered
  <2>2. CASE UNCHANGED chatHistory
    BY <1>3, <2>1, <2>2
  <2>3. ASSUME NEW card \in Cards(m),
               chatHistory' = Append(chatHistory, AnswerEntry(m, card))
        PROVE  OnceAnswered'
    <3>. DEFINE e == AnswerEntry(m, card)
    <3>1. Cards(m) \subseteq Solvers \cup {None}
      BY TypeParts DEF Cards, PageTyped, StreamsTyped
    <3>2. e \in Entry /\ e.role = "answer" /\ e.of = m
      BY <3>1, EntryTypes DEF AnswerEntry
    <3>. HIDE DEF e
    <3>3. \A n \in Messages :
            AnswersTo(n)' = IF n = m THEN AnswersTo(n) \cup {Len(chatHistory) + 1}
                            ELSE AnswersTo(n)
      BY <1>1, <2>3, <3>2, OnceGrown DEF e
    <3>4. /\ stream'[m] \notin {"unsent", "open"}
          /\ \A n \in Messages \ {m} : stream'[n] = stream[n]
      BY <1>1, <2>1 DEF StreamsTyped
    <3>5. ASSUME NEW n \in Messages
          PROVE  /\ stream'[n] \in {"unsent", "open"} => AnswersTo(n)' = {}
                 /\ \A i, k \in AnswersTo(n)' : i = k
      <4>1. CASE n = m
        <5>1. AnswersTo(n)' = {Len(chatHistory) + 1}
          BY <2>1, <3>3, <4>1
        <5>. QED
          BY <3>4, <4>1, <5>1
      <4>2. CASE n # m
        BY <3>3, <3>4, <4>2 DEF OnceAnswered
      <4>. QED
        BY <4>1, <4>2
    <3>. QED
      BY <3>5 DEF OnceAnswered
  <2>. QED
    BY <1>5, <2>2, <2>3 DEF OnDone
<1>6. Accept(m) \/ Drop(m) \/ (\E last \in {"done", "error"} : Answer(m, last))
        => OnceAnswered'
  BY <1>3 DEF Accept, Drop, Answer, pageVars
<1>7. Reloaded(m) \/ OnError(m) \/ OnConnectionError(m) => OnceAnswered'
  BY <1>3 DEF Reloaded, OnError, OnConnectionError, Proceed, pageVars
<1>. QED
  BY <1>4, <1>5, <1>6, <1>7 DEF StreamStep

LEMMA OnceNext ==
  TypeInv /\ TurnInv /\ OnceAnswered /\ [Next]_vars => OnceAnswered'
<1>. SUFFICES ASSUME TypeInv, TurnInv, OnceAnswered, [Next]_vars
              PROVE  OnceAnswered'
  OBVIOUS
<1>1. ASSUME UNCHANGED stream,
             \A m \in Messages : AnswersTo(m)' \subseteq AnswersTo(m)
      PROVE  OnceAnswered'
  BY <1>1, OnceKept
<1>2. ASSUME UNCHANGED <<stream, chatHistory>> PROVE OnceAnswered'
  BY <1>1, <1>2 DEF AnswersTo
<1>3. ASSUME NEW s \in Solvers, NEW words, UNCHANGED stream,
             chatHistory' \in {<<>>, <<IntroBubble(s, words)>>}
      PROVE  OnceAnswered'
  <2>1. \A m \in Messages : AnswersTo(m)' = {}
    BY <1>3, OnceFresh
  <2>. QED
    BY <1>1, <1>3, <2>1
<1>4. CASE ShowFAQ
  <2>1. UNCHANGED stream /\ chatHistory' = <<>>
    BY <1>4 DEF ShowFAQ, streamVars
  <2>2. \A m \in Messages : AnswersTo(m)' = {}
    BY <2>1, OnceFresh
  <2>. QED
    BY <1>1, <2>1, <2>2
<1>5. CASE ShowResult
  BY <1>2, <1>5 DEF ShowResult, streamVars
<1>6. ASSUME NEW s \in Solvers,
             \/ ShowKnown(s) \/ ShowFixed(s)
             \/ \E v \in Visits : ShowUnknown(s, v)
      PROVE  OnceAnswered'
  <2>1. /\ UNCHANGED stream
        /\ \E words : chatHistory' \in {<<>>, <<IntroBubble(s, words)>>}
    BY <1>6 DEF ShowKnown, ShowFixed, ShowUnknown, OpenChat, streamVars
  <2>. QED
    BY <1>3, <2>1
<1>7. ASSUME NEW v \in Visits, ShowArrived(v) PROVE OnceAnswered'
  <2>1. UNCHANGED stream
    BY <1>7 DEF ShowArrived, streamVars
  <2>2. CASE UNCHANGED chatHistory
    BY <1>2, <2>1, <2>2
  <2>3. ASSUME NEW words \in {Fallback, text[v]} \ {Blank},
               chatHistory' = Append(chatHistory, IntroBubble(asked[v], words))
        PROVE  OnceAnswered'
    <3>. DEFINE e == IntroBubble(asked[v], words)
    <3>1. e.role = "intro" /\ e \in Entry
      <4>1. asked[v] \in Solvers /\ words \in Solvers \cup {Fallback}
        BY <1>7, <2>3, TypeParts DEF ShowArrived, Forget, RequestsTyped,
                                     RequestReady, IntroTypeOK, Texts
      <4>. QED
        BY <4>1, EntryTypes DEF IntroBubble
    <3>2. chatHistory \in Seq(Entry) /\ chatHistory' = Append(chatHistory, e)
      BY <2>3 DEF TypeInv
    <3>. HIDE DEF e
    <3>3. \A m \in Messages : AnswersTo(m)' \subseteq AnswersTo(m)
      BY <3>1, <3>2, OnceGrown
    <3>. QED
      BY <1>1, <2>1, <3>3
  <2>. QED
    BY <1>7, <2>2, <2>3 DEF ShowArrived
<1>8. ASSUME NEW m \in Messages, Send(m) \/ StreamStep(m) PROVE OnceAnswered'
  BY <1>8, OnceStream
<1>9. UNCHANGED <<pageVars, streamVars>> => OnceAnswered'
  BY <1>2 DEF pageVars, streamVars
<1>. QED
  BY <1>4, <1>5, <1>6, <1>7, <1>8, <1>9 DEF Next, Visit, vars

\* Although a browser repeats the request of a source that is left open when
\* its response ends, no message is run twice, however its stream breaks off:
\* each handler closes the source that it was called for.  Nor is a message
\* answered twice: a source that is closed has no more events.
THEOREM TurnsCorrect == Spec => []OneTurnPerMessage
<1>1. Init => OnceAnswered
  BY DEF Init, OnceAnswered, AnswersTo
<1>2. TurnInv /\ OnceAnswered => OneTurnPerMessage
  BY DEF TurnInv, TurnOf, OnceAnswered, OneTurnPerMessage
<1>. QED
  BY <1>1, <1>2, InitType, NextType, TurnInit, TurnNext, OnceNext, PTL DEF Spec

-----------------------------------------------------------------------------
\* IntroInPlace and AnswersInPlace, of the bubble at one place.
IntroAt(i) ==
  chatHistory[i].role = "intro" => chatHistory[i].of = activeSolver

UserEntry(m) == [role |-> "user", of |-> m]

AnswerAt(i) ==
  chatHistory[i].role = "answer" /\ chatHistory[i].of \in Patient =>
    /\ stream[chatHistory[i].of] # "unsent"
    /\ sent[chatHistory[i].of] = activeSolver
    /\ chatHistory[i].card \in {None, sent[chatHistory[i].of]}
    /\ \E k \in 1..(i - 1) : chatHistory[k] = UserEntry(chatHistory[i].of)

\* While an answer is waited for, the engineer is still in the conversation
\* with the solver it was asked of, and the question stands in it.
Waiting ==
  \A m \in Patient :
    stream[m] = "open" =>
      /\ sent[m] = activeSolver
      /\ \E k \in 1..Len(chatHistory) : chatHistory[k] = UserEntry(m)

PlaceInv ==
  /\ \A i \in 1..Len(chatHistory) : IntroAt(i) /\ AnswerAt(i)
  /\ Waiting

\* The three kinds of bubble.
LEMMA EntryKinds ==
  /\ \A s, words : /\ IntroBubble(s, words).role = "intro"
                   /\ IntroBubble(s, words).of = s
  /\ \A m : UserEntry(m).role = "user"
  /\ \A m, card : /\ AnswerEntry(m, card).role = "answer"
                  /\ AnswerEntry(m, card).of = m
                  /\ AnswerEntry(m, card).card = card
BY DEF IntroBubble, UserEntry, AnswerEntry

\* What stands in the conversation stays in place when a bubble is added, if
\* neither the solver nor what was sent of an answered message changes.
LEMMA PlaceKept ==
  ASSUME PlaceInv, chatHistory \in Seq(Entry), NEW e \in Entry,
         chatHistory' = Append(chatHistory, e),
         activeSolver' = activeSolver,
         \A m \in Patient : stream[m] # "unsent" =>
            stream'[m] # "unsent" /\ sent'[m] = sent[m]
  PROVE  \A i \in 1..Len(chatHistory) : IntroAt(i)' /\ AnswerAt(i)'
<1>. TAKE i \in 1..Len(chatHistory)
<1>1. /\ Len(chatHistory) \in Nat
      /\ \A k \in 1..Len(chatHistory) : chatHistory'[k] = chatHistory[k]
  BY AppendFacts
<1>2. IntroAt(i) /\ AnswerAt(i) /\ chatHistory'[i] = chatHistory[i]
  BY <1>1 DEF PlaceInv
<1>3. IntroAt(i)'
  BY <1>2 DEF IntroAt
<1>4. \A k \in 1..(i - 1) : chatHistory'[k] = chatHistory[k]
  BY <1>1
<1>5. AnswerAt(i)'
  BY <1>2, <1>4 DEF AnswerAt
<1>. QED
  BY <1>3, <1>5

\* The same when nothing is added.
LEMMA PlaceSame ==
  ASSUME PlaceInv, chatHistory \in Seq(Entry),
         chatHistory' = chatHistory,
         activeSolver' = activeSolver,
         \A m \in Patient : stream[m] # "unsent" =>
            stream'[m] # "unsent" /\ sent'[m] = sent[m],
         \A m \in Patient : stream'[m] = "open" => stream[m] = "open"
  PROVE  PlaceInv'
<1>1. ASSUME NEW i \in 1..Len(chatHistory)
      PROVE  IntroAt(i)' /\ AnswerAt(i)'
  <2>1. IntroAt(i) /\ AnswerAt(i)
    BY DEF PlaceInv
  <2>. QED
    BY <2>1 DEF IntroAt, AnswerAt
<1>2. Waiting'
  BY DEF PlaceInv, Waiting
<1>. QED
  BY <1>1, <1>2 DEF PlaceInv

\* A new conversation holds at most the introduction of its own solver, and
\* nobody is waiting.
LEMMA PlaceFresh ==
  ASSUME NEW s, NEW words,
         chatHistory' = <<>>
           \/ (chatHistory' = <<IntroBubble(s, words)>> /\ activeSolver' = s),
         MayLeave, UNCHANGED stream
  PROVE  PlaceInv'
<1>1. Waiting'
  BY DEF Waiting, MayLeave
<1>2. CASE chatHistory' = <<>>
  <2>1. 1..Len(chatHistory') = {}
    BY <1>2
  <2>. QED
    BY <1>1, <2>1 DEF PlaceInv
<1>3. CASE chatHistory' = <<IntroBubble(s, words)>> /\ activeSolver' = s
  <2>1. /\ 1..Len(chatHistory') = {1}
        /\ chatHistory'[1] = IntroBubble(s, words)
    BY <1>3
  <2>2. IntroAt(1)' /\ AnswerAt(1)'
    BY <1>3, <2>1, EntryKinds DEF IntroAt, AnswerAt
  <2>. QED
    BY <1>1, <2>1, <2>2 DEF PlaceInv
<1>. QED
  BY <1>2, <1>3

\* A bubble that is itself in place can be added, and nobody starts to wait
\* but for a question that is added.
LEMMA PlaceGrown ==
  ASSUME PlaceInv, chatHistory \in Seq(Entry), NEW e \in Entry,
         chatHistory' = Append(chatHistory, e),
         activeSolver' = activeSolver,
         \A m \in Patient : stream[m] # "unsent" =>
            stream'[m] # "unsent" /\ sent'[m] = sent[m],
         \A m \in Patient : stream'[m] = "open" =>
            stream[m] = "open" \/ (sent'[m] = activeSolver /\ e = UserEntry(m)),
         e.role = "intro" => e.of = activeSolver,
         e.role = "answer" /\ e.of \in Patient =>
           /\ stream'[e.of] # "unsent"
           /\ sent'[e.of] = activeSolver
           /\ e.card \in {None, sent'[e.of]}
           /\ \E k \in 1..Len(chatHistory) : chatHistory[k] = UserEntry(e.of)
  PROVE  PlaceInv'
<1>1. /\ Len(chatHistory) \in Nat
      /\ Len(chatHistory') = Len(chatHistory) + 1
      /\ \A k \in 1..Len(chatHistory) : chatHistory'[k] = chatHistory[k]
      /\ chatHistory'[Len(chatHistory) + 1] = e
  BY AppendFacts
<1>2. \A i \in 1..Len(chatHistory') : IntroAt(i)' /\ AnswerAt(i)'
  <2>1. ASSUME NEW i \in 1..Len(chatHistory')
        PROVE  i \in 1..Len(chatHistory) \/ i = Len(chatHistory) + 1
    BY <1>1, <2>1
  <2>2. ASSUME NEW i \in 1..Len(chatHistory)
        PROVE  IntroAt(i)' /\ AnswerAt(i)'
    BY PlaceKept
  <2>3. ASSUME NEW i, i = Len(chatHistory) + 1
        PROVE  IntroAt(i)' /\ AnswerAt(i)'
    <3>1. chatHistory'[i] = e /\ i - 1 = Len(chatHistory)
      BY <1>1, <2>3
    <3>2. IntroAt(i)'
      BY <3>1 DEF IntroAt
    <3>3. ASSUME e.role = "answer", e.of \in Patient
          PROVE  \E k \in 1..(i - 1) : chatHistory'[k] = UserEntry(e.of)
      BY <1>1, <3>1, <3>3
    <3>4. AnswerAt(i)'
      BY <3>1, <3>3 DEF AnswerAt, UserEntry
    <3>. QED
      BY <3>2, <3>4
  <2>. QED
    BY <2>1, <2>2, <2>3
<1>3. ASSUME NEW m \in Patient, stream'[m] = "open"
      PROVE  /\ sent'[m] = activeSolver'
             /\ \E k \in 1..Len(chatHistory') : chatHistory'[k] = UserEntry(m)
  <2>1. CASE stream[m] = "open"
    <3>1. PICK k \in 1..Len(chatHistory) : chatHistory[k] = UserEntry(m)
      BY <2>1 DEF PlaceInv, Waiting
    <3>2. k \in 1..Len(chatHistory') /\ chatHistory'[k] = UserEntry(m)
      BY <1>1, <3>1
    <3>3. sent'[m] = activeSolver'
      BY <2>1 DEF PlaceInv, Waiting
    <3>. QED
      BY <3>2, <3>3
  <2>2. CASE sent'[m] = activeSolver /\ e = UserEntry(m)
    <3>1. Len(chatHistory) + 1 \in 1..Len(chatHistory')
      BY <1>1
    <3>. QED
      BY <1>1, <2>2, <3>1
  <2>. QED
    BY <1>3, <2>1, <2>2
<1>4. Waiting'
  BY <1>3 DEF Waiting, UserEntry
<1>. QED
  BY <1>2, <1>4 DEF PlaceInv

\* Moving between views starts a new conversation, or leaves it alone.
LEMMA ViewPlaces ==
  ASSUME TypeInv, PlaceInv,
         ShowFAQ \/ ShowResult
           \/ \E s \in Solvers : \/ ShowKnown(s)
                                 \/ ShowFixed(s)
                                 \/ \E v \in Visits : ShowUnknown(s, v)
  PROVE  PlaceInv'
<1>1. CASE ShowResult
  BY <1>1, PlaceSame DEF ShowResult, streamVars, TypeInv
<1>2. CASE ShowFAQ
  <2>1. chatHistory' = <<>> /\ MayLeave /\ UNCHANGED stream
    BY <1>2 DEF ShowFAQ, streamVars
  <2>. QED
    BY <2>1, PlaceFresh
<1>3. ASSUME NEW s \in Solvers, OpenChat(s), UNCHANGED stream
      PROVE  PlaceInv'
  BY <1>3, PlaceFresh DEF OpenChat
<1>4. ASSUME NEW s \in Solvers, ShowKnown(s)
      PROVE  PlaceInv'
  BY <1>3, <1>4 DEF ShowKnown, streamVars
<1>5. ASSUME NEW s \in Solvers, ShowFixed(s)
      PROVE  PlaceInv'
  <2>1. /\ chatHistory' = <<IntroBubble(s, s)>> /\ activeSolver' = s
        /\ MayLeave /\ UNCHANGED stream
    BY <1>5 DEF ShowFixed, streamVars
  <2>. QED
    BY <2>1, PlaceFresh
<1>6. ASSUME NEW s \in Solvers, NEW v \in Visits, ShowUnknown(s, v)
      PROVE  PlaceInv'
  BY <1>3, <1>6 DEF ShowUnknown, streamVars
<1>. QED
  BY <1>1, <1>2, <1>4, <1>5, <1>6

\* An introduction that arrives is shown only to its own solver's
\* conversation.
LEMMA ArrivalPlaces ==
  ASSUME TypeInv, PlaceInv, NEW v \in Visits, ShowArrived(v)
  PROVE  PlaceInv'
<1>1. chatHistory \in Seq(Entry) /\ TypeInv'
  BY ArrivalType DEF TypeInv
<1>2. activeSolver' = activeSolver /\ stream' = stream /\ sent' = sent
  BY DEF ShowArrived, streamVars
<1>3. CASE UNCHANGED chatHistory
  BY <1>1, <1>2, <1>3, PlaceSame
<1>4. ASSUME NEW words \in {Fallback, text[v]} \ {Blank},
             activeSolver = asked[v],
             chatHistory' = Append(chatHistory, IntroBubble(asked[v], words))
      PROVE  PlaceInv'
  <2>1. asked[v] \in Solvers /\ words \in Solvers \cup {Fallback}
    BY <1>4, TypeParts DEF ShowArrived, Forget, RequestsTyped, RequestReady,
                           IntroTypeOK, Texts
  <2>2. IntroBubble(asked[v], words) \in Entry
    BY <2>1, EntryTypes
  <2>3. PICK e \in Entry : /\ chatHistory' = Append(chatHistory, e)
                           /\ e.role = "intro" /\ e.of = activeSolver
    BY <1>4, <2>2, EntryKinds
  <2>. QED
    BY <1>1, <1>2, <2>3, PlaceGrown
<1>. QED
  BY <1>3, <1>4 DEF ShowArrived

\* A question is added to the conversation it is asked in, and an answer that
\* was waited for to the conversation that holds its question.
LEMMA StreamPlaces ==
  ASSUME TypeInv, TurnInv, PlaceInv, NEW m \in Messages,
         Send(m) \/ StreamStep(m)
  PROVE  PlaceInv'
<1>1. StreamsTyped /\ chatHistory \in Seq(Entry)
  BY TypeParts DEF TypeInv
<1>0. TurnOf(m)
  BY DEF TurnInv
<1>. USE DEF StreamsTyped
<1>2. CASE Send(m)
  <2>1. /\ chatHistory' = Append(chatHistory, UserEntry(m))
        /\ activeSolver' = activeSolver
        /\ sent' = [sent EXCEPT ![m] = activeSolver]
        /\ stream[m] = "unsent"
        /\ stream' = [stream EXCEPT ![m] = "open"]
    BY <1>2 DEF Send, UserEntry
  <2>2. UserEntry(m) \in Entry
    BY EntryTypes DEF UserEntry
  <2>3. \A n \in Patient : stream[n] # "unsent" =>
           stream'[n] # "unsent" /\ sent'[n] = sent[n]
    BY <1>1, <2>1
  <2>4. \A n \in Patient : stream'[n] = "open" =>
           stream[n] = "open"
             \/ (sent'[n] = activeSolver /\ UserEntry(m) = UserEntry(n))
    BY <1>1, <2>1
  <2>5. UserEntry(m).role = "user"
    BY EntryKinds
  <2>. QED
    BY <1>1, <2>1, <2>2, <2>3, <2>4, <2>5, PlaceGrown
<1>3. ASSUME UNCHANGED <<chatHistory, activeSolver, sent>>,
             UNCHANGED stream
               \/ \E to \in {"reload", "over"} :
                     Proceed(m, to) /\ stream[m] # "unsent"
      PROVE  PlaceInv'
  <2>1. \A n \in Patient :
           /\ stream[n] # "unsent" => stream'[n] # "unsent"
           /\ stream'[n] = "open" => stream[n] = "open"
    BY <1>1, <1>3 DEF Proceed
  <2>. QED
    BY <1>1, <1>3, <2>1, PlaceSame
<1>4. Accept(m) \/ Drop(m) \/ (\E last \in {"done", "error"} : Answer(m, last))
        => PlaceInv'
  BY <1>3 DEF Accept, Drop, Answer, pageVars
<1>5. Reloaded(m) \/ OnError(m) \/ OnConnectionError(m) => PlaceInv'
  BY <1>0, <1>3 DEF Reloaded, OnError, OnConnectionError, pageVars, TurnOf
<1>6. CASE OnDone(m)
  <2>1. CASE UNCHANGED chatHistory
    BY <1>0, <1>3, <1>6, <2>1 DEF OnDone, TurnOf
  <2>2. ASSUME NEW card \in Cards(m),
               chatHistory' = Append(chatHistory, AnswerEntry(m, card))
        PROVE  PlaceInv'
    <3>1. /\ activeSolver' = activeSolver /\ sent' = sent
          /\ stream[m] = "open"
          /\ \E to \in {"reload", "over"} : stream' = [stream EXCEPT ![m] = to]
      BY <1>0, <1>6 DEF OnDone, Proceed, TurnOf
    <3>2. Cards(m) \subseteq Solvers \cup {None}
      BY TypeParts DEF Cards, PageTyped
    <3>3. AnswerEntry(m, card) \in Entry
      BY <3>2, EntryTypes
    <3>4. \A n \in Patient :
             /\ stream[n] # "unsent" => stream'[n] # "unsent"
             /\ stream'[n] = "open" => stream[n] = "open"
      BY <1>1, <3>1
    <3>5. ASSUME m \in Patient
          PROVE  /\ stream'[m] # "unsent"
                 /\ sent'[m] = activeSolver
                 /\ card \in {None, sent'[m]}
                 /\ \E k \in 1..Len(chatHistory) :
                       chatHistory[k] = UserEntry(m)
      BY <1>1, <3>1, <3>4, <3>5 DEF PlaceInv, Waiting, Cards
    <3>6. PICK e \in Entry : /\ chatHistory' = Append(chatHistory, e)
                             /\ e.role = "answer"
                             /\ e.of = m /\ e.card = card
      BY <2>2, <3>3, EntryKinds
    <3>. QED
      BY <1>1, <3>1, <3>4, <3>5, <3>6, PlaceGrown
  <2>. QED
    BY <1>6, <2>1, <2>2 DEF OnDone
<1>. QED
  BY <1>2, <1>4, <1>5, <1>6 DEF StreamStep

\* Every step keeps the bubbles in place.
LEMMA NextPlaces ==
  TypeInv /\ TurnInv /\ PlaceInv /\ [Next]_vars => PlaceInv'
<1>. SUFFICES ASSUME TypeInv, TurnInv, PlaceInv, [Next]_vars PROVE PlaceInv'
  OBVIOUS
<1>1. CASE Visit
  BY <1>1, ViewPlaces, StreamPlaces DEF Visit
<1>2. UNCHANGED <<pageVars, streamVars>> => PlaceInv'
  BY PlaceSame DEF pageVars, streamVars, TypeInv
<1>3. ASSUME NEW v \in Visits, ShowArrived(v) PROVE PlaceInv'
  BY <1>3, ArrivalPlaces
<1>4. ASSUME NEW m \in Messages, StreamStep(m) PROVE PlaceInv'
  BY <1>4, StreamPlaces
<1>. QED
  BY <1>1, <1>2, <1>3, <1>4 DEF Next, vars

\* An empty conversation has nothing out of place, and nobody waits.
LEMMA InitPlaces == Init => PlaceInv
<1>. SUFFICES ASSUME Init PROVE PlaceInv
  OBVIOUS
<1>1. 1..Len(chatHistory) = {}
  BY DEF Init
<1>2. \A m \in Patient : stream[m] # "open"
  BY DEF Init
<1>. QED
  BY <1>1, <1>2 DEF PlaceInv, Waiting

\* An introduction stands only in a conversation with its own solver, however
\* the engineer moves while introductions are fetched.
THEOREM IntrosPlaced == Spec => []IntroInPlace
<1>1. TypeInv /\ PlaceInv => IntroInPlace
  BY AppendFacts DEF TypeInv, PlaceInv, IntroAt, IntroInPlace
<1>. QED
  BY <1>1, InitType, NextType, TurnInit, TurnNext, InitPlaces, NextPlaces,
     PTL DEF Spec

\* The answer to a message whose answer is waited for comes after its question
\* in the conversation with its own solver, whatever other streams do.
THEOREM AnswersPlaced == Spec => []AnswersInPlace
<1>1. TypeInv /\ PlaceInv => AnswersInPlace
  BY AppendFacts DEF TypeInv, PlaceInv, AnswerAt, AnswersInPlace, UserEntry
<1>. QED
  BY <1>1, InitType, NextType, TurnInit, TurnNext, InitPlaces, NextPlaces,
     PTL DEF Spec

=============================================================================
