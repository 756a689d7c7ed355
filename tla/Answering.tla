------------------------------ MODULE Answering ------------------------------
(***************************************************************************)
(* From the rows of a source to an answer: Engine.execute masks them       *)
(* (engine/masking.py), models explain, check and follow them up           *)
(* (engine/reasoner.py, verifier.py, suggestions.py, analyst.py), the      *)
(* output guardrail scans the text (defaults/guardrails.py), and the turn  *)
(* is recorded.  POST /ask, POST /ask/stream and the tool data.ask of the  *)
(* MCP server do this in orders of their own; a replay does none of it.    *)
(*                                                                         *)
(* A result is the labels of its columns and the table its plan reads      *)
(* first; values are either in clear or masked.  A text is the set of      *)
(* categories the guardrail would find in it, and models write anything.   *)
(***************************************************************************)
EXTENDS Naturals

CONSTANTS
  Results,     \* what plans return: [source, labels]
  Tagged,      \* <<table, column>>: the catalog's sensitive, pii and secret ones
  Categories,  \* of sensitive text: email, card, ...
  MaxSteps     \* max_steps of the analyst

ASSUME AnsweringAssumption == MaxSteps \in Nat \ {0}

VARIABLE answer

answerVars == <<answer>>

Endpoints == {"ask", "stream", "tool", "replay"}

\* clear: the columns whose values somebody was given, masked ones not.
\* prompted: those in the prompts of models.  cut: what was sent in two chunks.
\* turns: the answers recorded, but for the placeholder of a stream.
NewAnswer == [at |-> "new", endpoint |-> "ask", steps |-> 1, left |-> 1, clear |-> {},
              prompted |-> {}, text |-> {}, cut |-> {}, turns |-> {},
              redacted |-> {}, audited |-> {}, reported |-> {}]

AnsweringInit == answer = NewAnswer

Several == answer.steps > 1

\* The analyst makes several steps of what looks complex; a tool has none.
Decompose ==
  /\ answer.at = "new"
  /\ \E endpoint \in {"ask", "stream", "tool"}, steps \in 1 .. MaxSteps :
       /\ endpoint = "tool" => steps = 1
       /\ answer' = [answer EXCEPT !.at = "query", !.endpoint = endpoint,
                                   !.steps = steps, !.left = steps]

-----------------------------------------------------------------------------
(* Engine.execute                                                          *)

\* TagBasedMaskingPolicy: the tagged columns of the plan's source, by name.
SensitiveLabels(result) == { label \in result.labels : <<result.source, label>> \in Tagged }

\* mask_result(): an alias, or a column of a joined table, is as it is.
InClear(result) == {result.source} \X (result.labels \ SensitiveLabels(result))

\* After the last step the answer is made of all of them.
NextStep == IF answer.left > 1 THEN "query" ELSE "explain"

\* Fault: what the source returned is passed on.
ExecuteUnmasked ==
  /\ answer.at = "query"
  /\ \E result \in Results :
       answer' = [answer EXCEPT !.at = NextStep, !.left = @ - 1,
                                !.clear = @ \cup ({result.source} \X result.labels)]

Execute ==
  /\ answer.at = "query"
  /\ \E result \in Results :
       answer' = [answer EXCEPT !.at = NextStep, !.left = @ - 1,
                                !.clear = @ \cup InClear(result)]

\* A step of several that the planner asks back about goes without rows.
SkipStep ==
  /\ answer.at = "query" /\ Several
  /\ answer' = [answer EXCEPT !.at = NextStep, !.left = @ - 1]

\* The source rejects the query, or the catalog masking needs is not there.
QueryFails == answer.at = "query" /\ answer' = [answer EXCEPT !.at = "failed"]

\* POST /ask takes an error of the analyst that is none of its own for a no.
FallBack ==
  /\ answer.at = "query" /\ Several /\ answer.endpoint = "ask"
  /\ answer' = [NewAnswer EXCEPT !.at = "query"]

\* The planner asks back: its text is recorded and sent as it is.
Clarify ==
  /\ answer.at = "query" /\ ~ Several
  /\ \E text \in SUBSET Categories :
       answer' = [answer EXCEPT !.at = "clarified", !.text = text,
                    !.turns = IF answer.endpoint = "tool" THEN {} ELSE {text}]

\* Checkpoint replay: the stored plan's rows, straight from the connector.
ReplayPlan ==
  /\ answer.at = "new"
  /\ \E result \in Results :
       answer' = [answer EXCEPT !.at = "done", !.endpoint = "replay",
                                !.clear = {result.source} \X result.labels]

-----------------------------------------------------------------------------
(* What models make of it.  None of them can fail a request.               *)

Prompting(record) == [record EXCEPT !.prompted = @ \cup record.clear]

\* explain() and _synthesize(): text, or a summary that names columns, rows or
\* questions when the model fails or has nothing to say.
Explain ==
  /\ answer.at = "explain" /\ (answer.endpoint = "stream" => Several)
  /\ \E text \in SUBSET Categories :
       answer' = [Prompting(answer) EXCEPT !.text = text,
                    !.at = IF answer.endpoint = "tool" THEN "follow" ELSE "scan"]

\* stream_explanation(): each chunk is scanned by itself as it is sent.
StreamChunk ==
  /\ answer.at = "explain" /\ answer.endpoint = "stream" /\ ~ Several
  /\ \E found \in Categories :
       \/ answer' = [Prompting(answer) EXCEPT !.redacted = @ \cup {found}]
       \/ answer' = [Prompting(answer) EXCEPT !.cut = @ \cup {found}, !.text = @ \cup {found}]

\* The model ends, or fails and a summary is sent; the rows follow.
StreamEnds ==
  /\ answer.at = "explain" /\ answer.endpoint = "stream" /\ ~ Several
  /\ answer' = [Prompting(answer) EXCEPT !.at = "audit"]

\* sanitize_output()
Scan ==
  /\ answer.at = "scan"
  /\ answer' = [answer EXCEPT !.text = {}, !.redacted = answer.text,
                  !.at = IF answer.endpoint = "ask" THEN "audit" ELSE "record"]

-----------------------------------------------------------------------------
(* What is kept of it, and what is sent.                                   *)

\* _audit_output_redactions(), before the turn of POST /ask, after the text of
\* a stream; the sink may fail, which is only logged.
Audit ==
  /\ answer.at = "audit"
  /\ answer' = [answer EXCEPT !.audited = answer.redacted,
                  !.at = IF answer.endpoint = "ask" THEN "record" ELSE "follow"]

\* Fault: the turn is what the model wrote.
RecordUnscanned ==
  /\ answer.at = "record"
  /\ answer' = [answer EXCEPT !.turns = {answer.text \cup answer.redacted},
                  !.at = IF answer.endpoint = "ask" THEN "follow" ELSE "audit"]

\* _record_turn(): a stream of one step has recorded its placeholder.
RecordText ==
  /\ answer.at = "record"
  /\ answer' = [answer EXCEPT !.turns = {answer.text},
                  !.at = IF answer.endpoint = "ask" THEN "follow" ELSE "audit"]

\* The verifier and the suggester, which only a single step has, and the reply:
\* of what a stream redacted its event tells.  Their notes are not scanned.
Reply ==
  /\ answer.at = "follow"
  /\ LET seen == IF Several \/ answer.endpoint = "tool" THEN answer ELSE Prompting(answer)
     IN answer' = [seen EXCEPT !.at = "done", !.reported = answer.redacted]

\* The client of a stream goes away.
Disconnect ==
  /\ answer.endpoint = "stream" /\ answer.at \notin {"new", "done", "clarified", "failed", "left"}
  /\ answer' = [answer EXCEPT !.at = "left"]

AnsweringNext ==
  \/ Decompose \/ Execute \/ SkipStep \/ QueryFails \/ FallBack \/ Clarify \/ ReplayPlan
  \/ Explain \/ StreamChunk \/ StreamEnds \/ Scan
  \/ Audit \/ RecordText \/ Reply \/ Disconnect

AnsweringSpec == AnsweringInit /\ [][AnsweringNext]_answerVars

-----------------------------------------------------------------------------
(* Properties.                                                             *)

AnsweringTypeOK ==
  /\ answer.at \in {"new", "query", "explain", "scan", "audit", "record", "follow",
                    "clarified", "done", "failed", "left"}
  /\ answer.endpoint \in Endpoints /\ answer.left \in 0 .. MaxSteps
  /\ UNION answer.turns \subseteq Categories
  /\ UNION {answer.text, answer.redacted, answer.audited, answer.reported} \subseteq Categories

\* Whichever way a question takes through steps, chunks and endpoints: no
\* model and no client is given the values of a column the catalog marks, under
\* its own name, in the table the plan reads (README.md:31), unless a plan is
\* replayed; the answer a conversation keeps holds nothing the guardrail knows,
\* nor does the one that is sent, but for what two chunks of a stream share and
\* for the tool, which scans nothing; and when all of an answer is sent, all that
\* was taken out of it is reported and was handed to the audit
\* (HOW_IT_WORKS.md:93).
AnswerGuarded ==
  /\ answer.prompted \cap Tagged = {}
  /\ answer.endpoint # "replay" => answer.clear \cap Tagged = {}
  /\ answer.at # "clarified" => answer.turns \subseteq {{}}
  /\ answer.at \in {"follow", "done"} /\ answer.endpoint # "tool"
       => answer.text \subseteq answer.cut
  /\ answer.at = "done" => answer.reported = answer.redacted /\ answer.audited = answer.redacted

=============================================================================
