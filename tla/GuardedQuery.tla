---------------------------- MODULE GuardedQuery ----------------------------
(***************************************************************************)
(* Answering a question through the engine: the steps MultiStepAnalyst     *)
(* makes of it, Engine.execute on the plan of each, the guardrails'        *)
(* decision, the approval it may need, the source, and the audit trail.    *)
(*                                                                         *)
(* A call gives the event loop away wherever it waits.  In the SQLite      *)
(* store nothing of an approval waits, so one process settles it in one    *)
(* go; in PostgreSQL every access waits for a connection of its own.  Plans*)
(* are their verdict: "plain" ones are allowed (a FILTER decision narrows  *)
(* the plan and allows it), "gated" ones need approval, "denied" ones are  *)
(* refused.                                                                *)
(***************************************************************************)
EXTENDS Naturals, Sequences

CONSTANTS
  Callers,
  ApprovalIds,
  Questions,     \* the questions asked: the plans of their steps
  Verdicts,      \* what humans decide
  Failures,      \* what may fail
  Shared,        \* approvals in PostgreSQL, or SQLite shared by two processes
  MaxDecisions,  \* bound: approvals of one request
  NoGrant

Plans == {"plain", "gated", "denied"}

ASSUME GuardedQueryAssumption ==
  /\ Questions \subseteq Seq(Plans) /\ <<>> \notin Questions
  /\ Verdicts \subseteq {"approved", "rejected"}
  /\ Failures \subseteq {"catalog", "limit", "store", "connect", "run", "finish"}
  /\ Shared \in BOOLEAN
  /\ MaxDecisions \in Nat
  /\ NoGrant \notin ApprovalIds

VARIABLES
  requests,   \* the approvals table: the status of each request
  call,       \* what each caller's question is at
  open,       \* the callers whose client of the source is connected
  trail,      \* audit events of each caller's current Engine.execute
  granted,    \* history: how often each request was approved
  passed      \* history: how many executions each request let through

vars == <<requests, call, open, trail, granted, passed>>

\* Where Engine.execute waits.
Waits == {"idle", "catalog", "guard", "status", "reread", "consume", "request",
          "connect", "run", "finish"}

\* Between these an approval is settled: a store that never waits does not
\* let anyone else run.
Settling == {"status", "reread", "consume", "request"}

Answers == {"none", "rows", "denied", "needs approval", "unreachable", "failed"}

Calls == [pc : Waits, question : Seq(Plans), at : Nat,
          grant : ApprovalIds \cup {NoGrant}, told : ApprovalIds \cup {NoGrant},
          answer : Answers]

Events == {"decision", "completed", "failed", "connection_failed"}

Idle == [pc |-> "idle", question |-> <<>>, at |-> 0, grant |-> NoGrant,
         told |-> NoGrant, answer |-> "none"]

Init ==
  /\ requests = [i \in ApprovalIds |-> "none"]
  /\ call = [c \in Callers |-> Idle]
  /\ open = {}
  /\ trail = [c \in Callers |-> <<>>]
  /\ granted = [i \in ApprovalIds |-> 0]
  /\ passed = [i \in ApprovalIds |-> 0]

-----------------------------------------------------------------------------
(* The event loop, and the parts of a step.                                *)

\* Nobody else is where the loop is not given away.
LoopFree(c) == Shared \/ \A d \in Callers \ {c} : call[d].pc \notin Settling

At(c, pc) == call[c].pc = pc /\ LoopFree(c)

Plan(c) == call[c].question[call[c].at]

Goto(c, pc) == call' = [call EXCEPT ![c].pc = pc]

Record(c, event) == trail' = [trail EXCEPT ![c] = Append(@, event)]

Begin(c) == [call[c] EXCEPT !.pc = "catalog"]

\* The question ends: what the caller is told.
End(c, answer) == call' = [call EXCEPT ![c].pc = "idle", ![c].answer = answer]

Grants == <<requests, granted, passed>>

\* An exception of no DatahekError: MultiStepAnalyst gives up on its steps
\* and the question is planned as a whole; a single step just fails.
Raise(c) ==
  IF Len(call[c].question) = 1
  THEN End(c, "failed") /\ UNCHANGED trail
  ELSE \E whole \in Plans :
         /\ call' = [call EXCEPT ![c] = [Begin(c) EXCEPT !.question = <<whole>>, !.at = 1]]
         /\ trail' = [trail EXCEPT ![c] = <<>>]

-----------------------------------------------------------------------------
(* Callers and humans.                                                     *)

\* A question, with the approval the caller names.
Ask(c, question, grant) ==
  /\ At(c, "idle")
  /\ grant # NoGrant => requests[grant] # "none"
  /\ call' = [call EXCEPT ![c] = [Idle EXCEPT !.pc = "catalog", !.question = question,
                                              !.at = 1, !.grant = grant]]
  /\ trail' = [trail EXCEPT ![c] = <<>>]
  /\ UNCHANGED <<Grants, open>>

\* A human decides; where the request stands already is not looked at.
Decide(i, verdict) ==
  /\ Shared \/ \A c \in Callers : call[c].pc \notin Settling
  /\ requests[i] # "none"
  /\ verdict = "approved" => granted[i] < MaxDecisions
  /\ requests' = [requests EXCEPT ![i] = verdict]
  /\ granted' = [granted EXCEPT ![i] = IF verdict = "approved" THEN @ + 1 ELSE @]
  /\ UNCHANGED <<call, open, trail, passed>>

-----------------------------------------------------------------------------
(* Engine.execute.                                                         *)

\* The catalogue is read and the plan validated against it.
Validate(c) ==
  /\ At(c, "catalog")
  /\ \/ Goto(c, "guard")
     \/ "catalog" \in Failures /\ End(c, "failed")
  /\ UNCHANGED <<Grants, open, trail>>

\* What the pipeline decides on the plan: the first guardrail that objects.
Decisions(plan) ==
  (IF "limit" \in Failures THEN {"RATE_LIMIT"} ELSE {}) \cup
  (CASE plan = "plain"  -> {"ALLOW"}
     [] plan = "gated"  -> {"REQUIRE_APPROVAL"}
     [] plan = "denied" -> {"DENY"})

\* The decision is put on record, then acted upon.
Guard(c) ==
  /\ At(c, "guard")
  /\ Record(c, "decision")
  /\ \E decision \in Decisions(Plan(c)) :
       \/ decision = "ALLOW" /\ Goto(c, "connect")
       \/ decision = "REQUIRE_APPROVAL"
          /\ Goto(c, IF call[c].grant = NoGrant THEN "request" ELSE "status")
       \/ decision \in {"DENY", "RATE_LIMIT"} /\ End(c, "denied")
  /\ UNCHANGED <<Grants, open>>

\* Fault: a consumed approval is taken for one.
ReadStatusLoosely(c) ==
  /\ At(c, "status")
  /\ Goto(c, IF requests[call[c].grant] = "pending" THEN "request" ELSE "reread")
  /\ UNCHANGED <<Grants, open, trail>>

\* approvals.status
ReadStatus(c) ==
  /\ At(c, "status")
  /\ LET status == requests[call[c].grant] IN
       \/ status = "approved" /\ Goto(c, "reread")
       \/ status = "rejected" /\ End(c, "denied")
       \/ status \in {"pending", "consumed"} /\ Goto(c, "request")
  /\ UNCHANGED <<Grants, open, trail>>

Pass(c) ==
  /\ Goto(c, "connect")
  /\ passed' = [passed EXCEPT ![call[c].grant] = @ + 1]

\* approvals.consume reads the row again; the caller does not learn whether
\* it was still approved.
Reread(c) ==
  /\ At(c, "reread")
  /\ \/ requests[call[c].grant] = "approved" /\ Goto(c, "consume") /\ UNCHANGED passed
     \/ requests[call[c].grant] # "approved" /\ Pass(c)
  /\ UNCHANGED <<requests, granted, open, trail>>

\* Fault: the approval is not marked consumed.
ConsumeNothing(c) == At(c, "consume") /\ Pass(c) /\ UNCHANGED <<requests, granted, open, trail>>

Consume(c) ==
  /\ At(c, "consume")
  /\ requests' = [requests EXCEPT ![call[c].grant] = "consumed"]
  /\ Pass(c)
  /\ UNCHANGED <<granted, open, trail>>

\* Identifiers are never reused by the code.  Here one whose request is over
\* and that no caller names stands for a new one.
Unused(i) ==
  /\ requests[i] \in {"none", "rejected", "consumed"}
  /\ \A d \in Callers : i # call[d].told /\ (call[d].pc = "idle" \/ i # call[d].grant)

RequestApproval(c) ==
  /\ At(c, "request")
  /\ \E i \in ApprovalIds :
       /\ Unused(i)
       /\ requests' = [requests EXCEPT ![i] = "pending"]
       /\ granted' = [granted EXCEPT ![i] = 0]
       /\ passed' = [passed EXCEPT ![i] = 0]
       /\ call' = [call EXCEPT ![c].pc = "idle", ![c].answer = "needs approval",
                               ![c].told = i]
  /\ UNCHANGED <<open, trail>>

\* The approval store cannot be reached.
StoreFails(c) ==
  /\ "store" \in Failures
  /\ \E pc \in Settling : At(c, pc)
  /\ Raise(c)
  /\ UNCHANGED <<Grants, open>>

Connect(c) ==
  /\ At(c, "connect")
  /\ open' = open \cup {c}
  /\ Goto(c, "run")
  /\ UNCHANGED <<Grants, trail>>

\* Fault: the connection error is recorded and execution goes on.
ConnectFailsSilently(c) ==
  /\ "connect" \in Failures
  /\ At(c, "connect")
  /\ Goto(c, "finish")
  /\ Record(c, "connection_failed")
  /\ UNCHANGED <<Grants, open>>

\* A DatahekError of the connector passes as it is, anything else is recorded.
ConnectFails(c) ==
  /\ "connect" \in Failures
  /\ At(c, "connect")
  /\ End(c, "unreachable")
  /\ Record(c, "connection_failed") \/ UNCHANGED trail
  /\ UNCHANGED <<Grants, open>>

\* The query runs; the client is closed however it ends.
Run(c) ==
  /\ At(c, "run")
  /\ Goto(c, "finish")
  /\ open' = open \ {c}
  /\ UNCHANGED <<Grants, trail>>

\* Fault: the client is closed by the query that succeeds only.
RunFailsOpen(c) ==
  /\ "run" \in Failures
  /\ At(c, "run")
  /\ End(c, "failed")
  /\ Record(c, "failed") \/ UNCHANGED trail
  /\ UNCHANGED <<Grants, open>>

RunFails(c) ==
  /\ "run" \in Failures
  /\ At(c, "run")
  /\ open' = open \ {c}
  /\ End(c, "failed")
  /\ Record(c, "failed") \/ UNCHANGED trail
  /\ UNCHANGED Grants

\* Fault: one step too many.
FinishPastEnd(c) ==
  /\ At(c, "finish")
  /\ call' = [call EXCEPT ![c] = [Begin(c) EXCEPT !.at = @ + 1]]
  /\ trail' = [trail EXCEPT ![c] = <<>>]
  /\ UNCHANGED <<Grants, open>>

\* Masking, evaluation and the record of the completed query; then the next
\* step of the question, or its answer.
Finish(c) ==
  /\ At(c, "finish")
  /\ \/ /\ call[c].at = Len(call[c].question)
        /\ End(c, "rows")
        /\ Record(c, "completed")
     \/ /\ call[c].at < Len(call[c].question)
        /\ call' = [call EXCEPT ![c] = [Begin(c) EXCEPT !.at = @ + 1]]
        /\ trail' = [trail EXCEPT ![c] = <<>>]
  /\ UNCHANGED <<Grants, open>>

\* The catalogue masking reads, or the store of evaluations, fails.
FinishFails(c) ==
  /\ "finish" \in Failures
  /\ At(c, "finish")
  /\ Raise(c) \/ (End(c, "failed") /\ UNCHANGED trail)
  /\ UNCHANGED <<Grants, open>>

Execute(c) ==
  \/ Validate(c) \/ Guard(c)
  \/ ReadStatus(c) \/ Reread(c) \/ Consume(c) \/ RequestApproval(c) \/ StoreFails(c)
  \/ Connect(c) \/ ConnectFails(c)
  \/ Run(c) \/ RunFails(c) \/ Finish(c) \/ FinishFails(c)

Next ==
  \/ \E c \in Callers :
       \/ \E question \in Questions, grant \in ApprovalIds \cup {NoGrant} :
            Ask(c, question, grant)
       \/ Execute(c)
  \/ \E i \in ApprovalIds, verdict \in Verdicts : Decide(i, verdict)

Spec == Init /\ [][Next]_vars

-----------------------------------------------------------------------------
(* Humans as the state machine has them: they decide what is waiting, and  *)
(* no more than that.                                                      *)

DecideWaiting(i, verdict) == requests[i] = "pending" /\ Decide(i, verdict)

CarefulNext ==
  \/ \E c \in Callers :
       \/ \E question \in Questions, grant \in ApprovalIds \cup {NoGrant} :
            Ask(c, question, grant)
       \/ Execute(c)
  \/ \E i \in ApprovalIds, verdict \in Verdicts : DecideWaiting(i, verdict)

CarefulSpec == Init /\ [][CarefulNext]_vars

-----------------------------------------------------------------------------
(* Callers who do as they are told: they ask, and when what they need is   *)
(* decided they ask the same question again, naming the approval.          *)

AskFirst(c) == call[c].answer = "none" /\ \E question \in Questions : Ask(c, question, NoGrant)

AskAgain(c) ==
  /\ call[c].told # NoGrant
  /\ requests[call[c].told] \in {"approved", "rejected"}
  /\ Ask(c, call[c].question, call[c].told)

PatientNext ==
  \/ \E c \in Callers : AskFirst(c) \/ AskAgain(c) \/ Execute(c)
  \/ \E i \in ApprovalIds, verdict \in Verdicts : DecideWaiting(i, verdict)

\* The loop runs calls on, humans get to what is pending, callers come back.
PatientSpec ==
  /\ Init /\ [][PatientNext]_vars
  /\ \A c \in Callers : WF_vars(Execute(c)) /\ WF_vars(AskAgain(c))
  /\ \A i \in ApprovalIds : WF_vars(\E verdict \in Verdicts : DecideWaiting(i, verdict))

-----------------------------------------------------------------------------
(* Properties.                                                             *)

TypeOK ==
  /\ requests \in [ApprovalIds -> {"none", "pending", "approved", "rejected", "consumed"}]
  /\ call \in [Callers -> Calls]
  /\ \A c \in Callers : call[c].pc # "idle" => call[c].at \in DOMAIN call[c].question
  /\ open \subseteq Callers
  /\ trail \in [Callers -> Seq(Events)]
  /\ granted \in [ApprovalIds -> Nat]
  /\ passed \in [ApprovalIds -> Nat]

\* An approval is one-shot: a request lets no more executions through than a
\* human approved it (Engine.execute with ApprovalService.consume).
OneShot == \A i \in ApprovalIds : passed[i] <= granted[i]

Grant == INSTANCE OneShotGrant WITH status <- requests, used <- passed

\* Approvals go through the states of HOW_IT_WORKS.md, "The approval state
\* machine", and no others: what was rejected stays blocked, what was used stays
\* done, and a human decides once (decide(), Engine.execute).
GrantsAsPromised == Grant!GrantSpec

\* No client of a source outlives the execution that connected it, whatever
\* fails (Engine.execute, its finally).
NoClientLeft == \A c \in Callers : c \in open <=> call[c].pc = "run"

\* The audit trail explains the answer: every execution starts with the
\* decision and has at most one outcome, rows come with a completed one and a
\* refusal with the decision alone (Engine.execute).
TrailExplains ==
  \A c \in Callers :
    LET t == trail[c] IN
    /\ Len(t) <= 2
    /\ \A n \in DOMAIN t : t[n] = "decision" <=> n = 1
    /\ call[c].answer = "rows" => t = <<"decision", "completed">>
    /\ call[c].answer \in {"denied", "needs approval"} => t = <<"decision">>

\* A caller who waits for the approvals the question needs and comes back
\* with them gets the rows (HOW_IT_WORKS.md, sample 8, step 5).
ApprovedIsAnswered ==
  \A c \in Callers : call[c].pc = "catalog" ~> call[c].answer = "rows"

=============================================================================
