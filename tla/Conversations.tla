---------------------------- MODULE Conversations ----------------------------
(***************************************************************************)
(* One conversation (defaults/conversations.py, conversations_pg.py) and   *)
(* the requests that ask in it: POST /ask, which answers when everything   *)
(* is done, and POST /ask/stream, which answers while it goes on           *)
(* (api/app.py, _ask_pipeline, ask_stream).                                *)
(*                                                                         *)
(* Each access to the store is a step: it runs in a thread, or on a        *)
(* connection of PostgreSQL.  What analyst, planner, engine and reasoner   *)
(* do in between is one step that ends one way or another.                 *)
(***************************************************************************)
EXTENDS Naturals, Sequences, FiniteSets

CONSTANTS
  MaxAsked,      \* bound: requests, numbered as they begin
  MaxOpen,       \* bound: requests under way at the same time
  HistoryTurns,  \* limit of _conversation_history(), in messages
  NoHistory      \* None: no messages yet, or the store could not be read

ASSUME ConversationsAssumption ==
  MaxAsked \in Nat /\ MaxOpen \in Nat /\ HistoryTurns \in Nat \ {0}

Asked == 1 .. MaxAsked

VARIABLES
  messages,      \* table messages, in order
  ask            \* per request, where it is and what it has

convVars == <<messages, ask>>

Kinds == {"result", "clarification", "placeholder"}

Messages == [of : Asked, role : {"user", "assistant"}, kind : Kinds \cup {"question"}]

\* history: the first and the last of the messages that were read.  earlier:
\* the requests that were answered when this one began.
Progress == [at : {"new", "history", "analyse", "plan", "user", "answer",
                   "replied", "failed", "left"},
             endpoint : {"ask", "stream"}, complex : BOOLEAN, kind : Kinds,
             history : (Nat \X Nat) \cup {NoHistory}, earlier : SUBSET Asked]

ConvTypeOK ==
  /\ messages \in Seq(Messages)
  /\ ask \in [Asked -> Progress]

ConvInit ==
  /\ messages = <<>>
  /\ ask = [r \in Asked |-> [at |-> "new", endpoint |-> "ask", complex |-> FALSE,
              kind |-> "result", history |-> NoHistory, earlier |-> {}]]

Over == {"new", "replied", "failed", "left"}

Move(r, at) == ask' = [ask EXCEPT ![r].at = at]

\* The request is over; of what it had, only what it was answered matters.
End(r, at) == ask' = [ask EXCEPT ![r].at = at, ![r].complex = FALSE,
                        ![r].history = NoHistory, ![r].earlier = {}]

Record(r, kind) == ask' = [ask EXCEPT ![r].at = "user", ![r].kind = kind]

\* The conversation is there.  A stream records its turn, with a placeholder
\* for the answer, before it starts.
BeginAsk(r, endpoint, complex) ==
  /\ ask[r].at = "new" /\ \A q \in 1 .. r - 1 : ask[q].at # "new"
  /\ Cardinality({q \in Asked : ask[q].at \notin Over}) < MaxOpen
  /\ ask' = [ask EXCEPT ![r] =
       [at |-> IF endpoint = "ask" THEN "history" ELSE "user",
        endpoint |-> endpoint, complex |-> complex,
        kind |-> IF endpoint = "ask" THEN "result" ELSE "placeholder",
        history |-> NoHistory, earlier |-> {q \in Asked : ask[q].at = "replied"}]]
  /\ UNCHANGED messages

\* Fault: the first messages are taken, not the last.
FirstMessages(n) == <<1, IF n < HistoryTurns THEN n ELSE HistoryTurns>>

\* messages[-limit:]
LastMessages(n) == <<IF n < HistoryTurns THEN 1 ELSE n - HistoryTurns + 1, n>>

\* _conversation_history(): the last messages, or None, whatever goes wrong.
ReadHistory(r) ==
  /\ ask[r].at = "history"
  /\ \E history \in {NoHistory, LastMessages(Len(messages))} :
       /\ messages = <<>> => history = NoHistory
       /\ ask' = [ask EXCEPT ![r].history = history,
                             ![r].at = IF ask[r].complex THEN "analyse" ELSE "plan"]
  /\ UNCHANGED messages

-----------------------------------------------------------------------------
(* What becomes of the question.                                           *)

\* The analyst answers all of it.
Analysed(r) ==
  /\ ask[r].at = "analyse"
  /\ Record(r, "result")
  /\ UNCHANGED messages

\* The analyst declines; or raises, which /ask takes for the same.  A stream
\* reads the history again before it plans.
AnalystDeclines(r) ==
  /\ ask[r].at = "analyse"
  /\ ask' = [ask EXCEPT ![r].complex = FALSE,
                        ![r].at = IF ask[r].endpoint = "ask" THEN "plan" ELSE "history"]
  /\ UNCHANGED messages

\* Fault: what is asked back is not part of the conversation.
ClarifiesUnrecorded(r) ==
  /\ ask[r].at = "plan"
  /\ ask' = [ask EXCEPT ![r].kind = "clarification", ![r].at = "replied",
                        ![r].history = NoHistory, ![r].earlier = {}]
  /\ UNCHANGED messages

\* The planner asks back.
Clarifies(r) ==
  /\ ask[r].at = "plan"
  /\ Record(r, "clarification")
  /\ UNCHANGED messages

\* Planned, executed and explained.  The stream has recorded its turn already.
Answers(r) ==
  /\ ask[r].at = "plan"
  /\ IF ask[r].endpoint = "ask" THEN Record(r, "result") ELSE End(r, "replied")
  /\ UNCHANGED messages

\* Analyst, planner, engine, reasoner or the store raise: an error status, or
\* an error event of the stream.  What is recorded stays.
AskFails(r) ==
  /\ ask[r].at \notin Over
  /\ End(r, "failed")
  /\ UNCHANGED messages

Streaming(r) ==
  /\ ask[r].endpoint = "stream" /\ ask[r].at \notin Over
  /\ ask[r].kind = "placeholder" => ask[r].at \notin {"user", "answer"}

\* The client of a stream goes away, and the generator is cancelled.
Leave(r) ==
  /\ Streaming(r)
  /\ End(r, "left")
  /\ UNCHANGED messages

-----------------------------------------------------------------------------
(* _record_turn(): the question, then the answer.                          *)

RecordQuestion(r) ==
  /\ ask[r].at = "user"
  /\ messages' = Append(messages, [of |-> r, role |-> "user", kind |-> "question"])
  /\ Move(r, "answer")

RecordAnswer(r) ==
  /\ ask[r].at = "answer"
  /\ messages' = Append(messages, [of |-> r, role |-> "assistant", kind |-> ask[r].kind])
  /\ IF ask[r].kind = "placeholder" THEN Move(r, "history") ELSE End(r, "replied")

ConvNext == \E r \in Asked :
  \/ \E endpoint \in {"ask", "stream"}, complex \in BOOLEAN : BeginAsk(r, endpoint, complex)
  \/ ReadHistory(r) \/ Analysed(r) \/ AnalystDeclines(r) \/ Clarifies(r) \/ Answers(r)
  \/ AskFails(r) \/ Leave(r) \/ RecordQuestion(r) \/ RecordAnswer(r)

ConvSpec == ConvInit /\ [][ConvNext]_convVars

-----------------------------------------------------------------------------
(* Properties.                                                             *)

Of(r, role) == {n \in DOMAIN messages : messages[n].of = r /\ messages[n].role = role}

\* However turns interleave, the answers of a request follow its questions one
\* by one, and when the client has its answer the conversation shows it: what
\* was answered, or the placeholder of a stream (_record_turn and its callers).
TurnsRecorded ==
  \A r \in Asked :
    /\ \A n \in Of(r, "assistant") :
         Cardinality({m \in Of(r, "user") : m < n}) = Cardinality({m \in Of(r, "assistant") : m <= n})
    /\ ask[r].at = "replied" => \E n \in Of(r, "assistant") : messages[n].kind = ask[r].kind

\* The planner of r gets message n, or as many messages as the history holds
\* came after it.
Heard(r, n) ==
  \/ n \in ask[r].history[1] .. ask[r].history[2]
  \/ ask[r].history[2] - n >= HistoryTurns

\* What follows up a turn is planned with it: of every request that was answered
\* before this one began, the planner gets the question and, unless it was
\* streamed as it was explained, what was answered.  Of such a stream nothing
\* but "[streamed result]" is kept.  What as many messages as the history holds
\* have followed is not read any more (_conversation_history, _record_turn).
FollowUpSeesTurns ==
  \A r \in Asked : ask[r].history # NoHistory =>
    \A q \in ask[r].earlier :
      /\ \E n \in Of(q, "user") : Heard(r, n)
      /\ ask[q].kind # "placeholder" =>
           \E n \in Of(q, "assistant") : messages[n].kind = ask[q].kind /\ Heard(r, n)

=============================================================================
