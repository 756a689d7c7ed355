------------------------- MODULE GuardedQueryProofs -------------------------
(***************************************************************************)
(* Proofs about GuardedQuery, for any number of callers, approvals and     *)
(* questions and whatever fails: the types are right, and where approvals  *)
(* are settled without giving the loop away (one process over SQLite) an   *)
(* approval is one-shot and the promised grant is implemented.             *)
(***************************************************************************)
EXTENDS GuardedQuery, SequenceTheorems, TLAPS

USE GuardedQueryAssumption

-----------------------------------------------------------------------------
(* Types.                                                                  *)

LEMMA StepOfQuestion ==
  ASSUME NEW q \in Seq(Plans), q # <<>>
  PROVE  Len(q) \in Nat \ {0} /\ 1 \in DOMAIN q /\ DOMAIN q = 1 .. Len(q)
  OBVIOUS

LEMMA PlanOfOneStep ==
  ASSUME NEW whole \in Plans
  PROVE  /\ <<whole>> \in Seq(Plans) /\ Len(<<whole>>) = 1
         /\ 1 \in DOMAIN <<whole>>
  OBVIOUS

(* A step that replaces one caller's call by a well-formed one, and its    *)
(* trail by a sequence of events, keeps the types of both.                 *)
CallOK(call_) == call_ \in Calls /\ (call_.pc # "idle" => call_.at \in DOMAIN call_.question)

LEMMA CallsStay ==
  ASSUME TypeOK, NEW c \in Callers, NEW r, CallOK(r), call' = [call EXCEPT ![c] = r]
  PROVE  /\ call' \in [Callers -> Calls]
         /\ \A d \in Callers : call'[d].pc # "idle" => call'[d].at \in DOMAIN call'[d].question
  <1>1. \A d \in Callers : call[d] \in Calls /\ (d # c => call'[d] = call[d]) /\ call'[c] = r
    BY DEF TypeOK
  <1>2. call' \in [Callers -> Calls]
    BY <1>1 DEF TypeOK, CallOK
  <1> QED BY <1>1, <1>2 DEF TypeOK, CallOK

LEMMA TrailsStay ==
  ASSUME TypeOK, NEW c \in Callers,
         \/ UNCHANGED trail
         \/ \E e \in Events : Record(c, e)
         \/ trail' = [trail EXCEPT ![c] = <<>>]
  PROVE  trail' \in [Callers -> Seq(Events)]
  <1>1. CASE UNCHANGED trail BY <1>1 DEF TypeOK
  <1>2. ASSUME NEW e \in Events, Record(c, e) PROVE trail' \in [Callers -> Seq(Events)]
    <2>1. trail[c] \in Seq(Events) BY DEF TypeOK
    <2>2. Append(trail[c], e) \in Seq(Events) BY <2>1
    <2>3. trail' = [trail EXCEPT ![c] = Append(trail[c], e)] BY <1>2 DEF Record
    <2> QED BY <2>2, <2>3 DEF TypeOK
  <1>3. CASE trail' = [trail EXCEPT ![c] = <<>>]
    <2>1. <<>> \in Seq(Events) OBVIOUS
    <2> QED BY <1>3, <2>1 DEF TypeOK
  <1> QED BY <1>1, <1>2, <1>3

(* How the steps of an execution replace the call.                         *)
LEMMA GotoKeeps ==
  ASSUME TypeOK, NEW c \in Callers, NEW pc \in Waits, call[c].pc # "idle", Goto(c, pc)
  PROVE  \E r : CallOK(r) /\ call' = [call EXCEPT ![c] = r]
  <1>1. call[c] \in Calls /\ call[c].at \in DOMAIN call[c].question BY DEF TypeOK
  <1>2. call' = [call EXCEPT ![c] = [call[c] EXCEPT !.pc = pc]] BY DEF Goto
  <1>3. [call[c] EXCEPT !.pc = pc] \in Calls BY <1>1 DEF Calls
  <1>4. /\ [call[c] EXCEPT !.pc = pc].at = call[c].at
        /\ [call[c] EXCEPT !.pc = pc].question = call[c].question BY <1>1 DEF Calls
  <1>5. CallOK([call[c] EXCEPT !.pc = pc]) BY <1>1, <1>3, <1>4 DEF CallOK
  <1> QED BY <1>2, <1>5

LEMMA EndKeeps ==
  ASSUME TypeOK, NEW c \in Callers, NEW answer \in Answers, End(c, answer)
  PROVE  \E r : CallOK(r) /\ call' = [call EXCEPT ![c] = r]
  <1> DEFINE r == [call[c] EXCEPT !.pc = "idle", !.answer = answer]
  <1>1. call[c] \in Calls BY DEF TypeOK
  <1>2. call' = [call EXCEPT ![c] = r] BY DEF End
  <1>3. r \in Calls /\ r.pc = "idle" BY <1>1 DEF Calls, Waits
  <1>4. CallOK(r) BY <1>3 DEF CallOK
  <1> QED BY <1>2, <1>4

(* The call of a caller changes as a whole in every step of an execution.  *)
LEMMA ExecuteKeepsCall ==
  ASSUME TypeOK, NEW c \in Callers, Execute(c)
  PROVE  /\ \E r : CallOK(r) /\ call' = [call EXCEPT ![c] = r]
         /\ \/ UNCHANGED trail
            \/ \E e \in Events : Record(c, e)
            \/ trail' = [trail EXCEPT ![c] = <<>>]
  <1>0. /\ call[c] \in Calls
        /\ call[c].pc # "idle" => call[c].at \in DOMAIN call[c].question
    BY DEF TypeOK
  <1>1. ASSUME Raise(c), call[c].pc # "idle"
        PROVE  /\ \E r : CallOK(r) /\ call' = [call EXCEPT ![c] = r]
               /\ UNCHANGED trail \/ trail' = [trail EXCEPT ![c] = <<>>]
    <2>1. CASE Len(call[c].question) = 1
      <3>1. End(c, "failed") /\ UNCHANGED trail BY <1>1, <2>1 DEF Raise
      <3> QED BY <3>1, EndKeeps DEF Answers
    <2>2. CASE Len(call[c].question) # 1
      <3>1. PICK whole \in Plans :
              /\ call' = [call EXCEPT ![c] = [Begin(c) EXCEPT !.question = <<whole>>, !.at = 1]]
              /\ trail' = [trail EXCEPT ![c] = <<>>]
        BY <1>1, <2>2 DEF Raise
      <3> DEFINE r == [Begin(c) EXCEPT !.question = <<whole>>, !.at = 1]
      <3>2. r = [call[c] EXCEPT !.pc = "catalog",
                                !.question = <<whole>>, !.at = 1]
        BY <1>0 DEF Begin, Calls
      <3>3. r \in Calls /\ r.at = 1 /\ r.question = <<whole>>
        BY <1>0, <3>2, PlanOfOneStep DEF Calls, Waits
      <3>4. CallOK(r) BY <3>3, PlanOfOneStep DEF CallOK
      <3> QED BY <3>1, <3>4
    <2> QED BY <2>1, <2>2
  <1>2. CASE Validate(c)
    BY <1>2, GotoKeeps, EndKeeps DEF Validate, At, Waits, Answers
  <1>3. CASE Guard(c)
    <2>1. Record(c, "decision") /\ "decision" \in Events /\ call[c].pc # "idle"
      BY <1>3 DEF Guard, At, Events
    <2>2. \/ Goto(c, "connect") \/ Goto(c, "request") \/ Goto(c, "status")
          \/ End(c, "denied")
      BY <1>3 DEF Guard
    <2> QED BY <2>1, <2>2, GotoKeeps, EndKeeps DEF Waits, Answers
  <1>4. CASE ReadStatus(c)
    <2>1. Goto(c, "reread") \/ Goto(c, "request") \/ End(c, "denied")
      BY <1>4 DEF ReadStatus
    <2> QED BY <1>4, <2>1, GotoKeeps, EndKeeps DEF ReadStatus, At, Waits, Answers
  <1>5. ASSUME Pass(c), call[c].pc # "idle"
        PROVE  \E r : CallOK(r) /\ call' = [call EXCEPT ![c] = r]
    <2> DEFINE r == [call[c] EXCEPT !.pc = "connect"]
    <2>1. call' = [call EXCEPT ![c] = r] BY <1>5 DEF Pass, Goto
    <2>2. r \in Calls /\ r.at = call[c].at /\ r.question = call[c].question
      BY <1>0 DEF Calls, Waits
    <2>3. CallOK(r) BY <1>0, <1>5, <2>2 DEF CallOK
    <2> QED BY <2>1, <2>3
  <1>6. CASE Reread(c)
    <2>1. Goto(c, "consume") \/ Pass(c) BY <1>6 DEF Reread
    <2> QED BY <1>5, <1>6, <2>1, GotoKeeps DEF Reread, At, Waits
  <1>7. CASE Consume(c)
    BY <1>5, <1>7 DEF Consume, At
  <1>8. CASE RequestApproval(c)
    <2>1. PICK i \in ApprovalIds :
            call' = [call EXCEPT ![c].pc = "idle", ![c].answer = "needs approval",
                                 ![c].told = i]
      BY <1>8 DEF RequestApproval
    <2> DEFINE r == [call[c] EXCEPT !.pc = "idle", !.answer = "needs approval", !.told = i]
    <2>2. call' = [call EXCEPT ![c] = r] BY <2>1
    <2>3. r \in Calls /\ r.pc = "idle" BY <1>0 DEF Calls, Waits, Answers
    <2>4. CallOK(r) BY <2>3 DEF CallOK
    <2> QED BY <1>8, <2>2, <2>4 DEF RequestApproval
  <1>9. CASE StoreFails(c)
    <2>1. call[c].pc # "idle" BY <1>9 DEF StoreFails, At, Settling
    <2> QED BY <1>1, <1>9, <2>1 DEF StoreFails
  <1>10. CASE Connect(c)
    BY <1>10, GotoKeeps DEF Connect, At, Waits
  <1>11. CASE ConnectFails(c)
    BY <1>11, EndKeeps DEF ConnectFails, Answers, Events
  <1>12. CASE Run(c)
    <2> DEFINE r == [call[c] EXCEPT !.pc = "finish"]
    <2>1. call' = [call EXCEPT ![c] = r] BY <1>12 DEF Run, Goto
    <2>2. r \in Calls /\ r.at = call[c].at /\ r.question = call[c].question
      BY <1>0 DEF Calls, Waits
    <2>3. call[c].pc # "idle" BY <1>12 DEF Run, At
    <2>4. CallOK(r) BY <1>0, <2>2, <2>3 DEF CallOK
    <2> QED BY <1>12, <2>1, <2>4 DEF Run
  <1>13. CASE RunFails(c)
    <2> DEFINE r == [call[c] EXCEPT !.pc = "idle", !.answer = "failed"]
    <2>1. call' = [call EXCEPT ![c] = r] BY <1>13 DEF RunFails, End
    <2>2. r \in Calls /\ r.pc = "idle" BY <1>0 DEF Calls, Waits, Answers
    <2>3. CallOK(r) BY <2>2 DEF CallOK
    <2> QED BY <1>13, <2>1, <2>3 DEF RunFails, Events
  <1>14. CASE Finish(c)
    <2>1. CASE End(c, "rows") /\ Record(c, "completed")
      BY <2>1, EndKeeps DEF Answers, Events
    <2>2. CASE /\ call[c].at < Len(call[c].question)
               /\ call' = [call EXCEPT ![c] = [Begin(c) EXCEPT !.at = @ + 1]]
               /\ trail' = [trail EXCEPT ![c] = <<>>]
      <3> DEFINE r == [Begin(c) EXCEPT !.at = @ + 1]
      <3>1. r = [call[c] EXCEPT !.pc = "catalog",
                                !.at = call[c].at + 1]
        BY <1>0 DEF Begin, Calls
      <3>2. call[c].at \in Nat /\ call[c].question \in Seq(Plans) BY <1>0 DEF Calls
      <3>3. r \in Calls /\ r.at = call[c].at + 1 /\ r.question = call[c].question
        <4>1. call[c].at + 1 \in Nat BY <3>2
        <4> HIDE DEF r
        <4>2. r \in Calls BY <1>0, <3>1, <4>1 DEF Calls, Waits
        <4> QED BY <1>0, <3>1, <4>2 DEF Calls
      <3>4. call[c].at + 1 \in DOMAIN call[c].question BY <2>2, <3>2
      <3>5. CallOK(r) BY <3>3, <3>4 DEF CallOK
      <3> QED BY <2>2, <3>5
    <2> QED BY <1>14, <2>1, <2>2 DEF Finish
  <1>15. CASE FinishFails(c)
    <2>1. call[c].pc # "idle" BY <1>15 DEF FinishFails, At
    <2>2. Raise(c) \/ (End(c, "failed") /\ UNCHANGED trail) BY <1>15 DEF FinishFails
    <2> QED BY <1>1, <2>1, <2>2, EndKeeps DEF Answers
  <1> QED
    BY <1>2, <1>3, <1>4, <1>6, <1>7, <1>8, <1>9, <1>10, <1>11, <1>12, <1>13, <1>14, <1>15
    DEF Execute

LEMMA GrantsStay ==
  ASSUME TypeOK, NEW c \in Callers, Execute(c),
         call[c].pc \in {"status", "reread", "consume"} => call[c].grant \in ApprovalIds
  PROVE  /\ requests' \in [ApprovalIds -> {"none", "pending", "approved", "rejected", "consumed"}]
         /\ granted' \in [ApprovalIds -> Nat]
         /\ passed' \in [ApprovalIds -> Nat]
         /\ open' \subseteq Callers
  <1>1. UNCHANGED Grants \/ Reread(c) \/ Consume(c) \/ RequestApproval(c)
    BY DEF Execute, Validate, Guard, ReadStatus, StoreFails, Connect, ConnectFails, Run,
           RunFails, Finish, FinishFails, Grants
  <1>2. open' \subseteq Callers
    BY DEF TypeOK, Execute, Validate, Guard, ReadStatus, Reread, Consume, RequestApproval,
           StoreFails, Connect, ConnectFails, Run, RunFails, Finish, FinishFails
  <1>3. CASE UNCHANGED Grants BY <1>2, <1>3 DEF TypeOK, Grants
  <1>4. ASSUME Pass(c), call[c].grant \in ApprovalIds PROVE passed' \in [ApprovalIds -> Nat]
    <2>1. passed[call[c].grant] + 1 \in Nat BY <1>4 DEF TypeOK
    <2>2. passed' = [passed EXCEPT ![call[c].grant] = passed[call[c].grant] + 1]
      BY <1>4 DEF Pass
    <2> QED BY <2>1, <2>2 DEF TypeOK
  <1>5. CASE Reread(c)
    <2>1. UNCHANGED passed \/ Pass(c) BY <1>5 DEF Reread
    <2>2. call[c].grant \in ApprovalIds BY <1>5 DEF Reread, At
    <2>3. UNCHANGED <<requests, granted>> BY <1>5 DEF Reread
    <2> QED BY <1>2, <1>4, <2>1, <2>2, <2>3 DEF TypeOK
  <1>6. CASE Consume(c)
    <2>1. call[c].grant \in ApprovalIds /\ UNCHANGED granted /\ Pass(c)
      BY <1>6 DEF Consume, At
    <2>2. requests' = [requests EXCEPT ![call[c].grant] = "consumed"] BY <1>6 DEF Consume
    <2> QED BY <1>2, <1>4, <2>1, <2>2 DEF TypeOK
  <1>7. CASE RequestApproval(c)
    <2>1. PICK i \in ApprovalIds :
            /\ requests' = [requests EXCEPT ![i] = "pending"]
            /\ granted' = [granted EXCEPT ![i] = 0]
            /\ passed' = [passed EXCEPT ![i] = 0]
      BY <1>7 DEF RequestApproval
    <2> QED BY <1>2, <2>1 DEF TypeOK
  <1> QED BY <1>1, <1>3, <1>5, <1>6, <1>7

(* The approval a call settles is one it was asked with.                   *)
Named == \A c \in Callers :
  call[c].pc \in {"status", "reread", "consume"} => call[c].grant \in ApprovalIds

TInv == TypeOK /\ Named

(* Only where an approval is settled does a call move on to settling it.   *)
LEMMA ExecuteMoves ==
  ASSUME TypeOK, NEW c \in Callers, Execute(c)
  PROVE  /\ \A d \in Callers \ {c} : call'[d] = call[d]
         /\ call'[c].pc = "status" => call[c].grant # NoGrant /\ call'[c].grant = call[c].grant
         /\ call'[c].pc = "reread" => ReadStatus(c) /\ call[c].pc = "status"
              /\ call'[c].grant = call[c].grant
              /\ requests[call[c].grant] = "approved"
         /\ call'[c].pc = "consume" => Reread(c) /\ call[c].pc = "reread"
              /\ call'[c].grant = call[c].grant
         /\ call'[c].pc \in Settling => call[c].pc \in Settling \cup {"guard"}
         /\ LoopFree(c)
  <1>0. call[c] \in Calls BY DEF TypeOK
  <1>1. LoopFree(c)
    BY DEF Execute, Validate, Guard, ReadStatus, Reread, Consume, RequestApproval,
           StoreFails, Connect, ConnectFails, Run, RunFails, Finish, FinishFails, At
  <1>2. \A d \in Callers \ {c} : call'[d] = call[d]
    <2>1. PICK r : call' = [call EXCEPT ![c] = r] BY ExecuteKeepsCall
    <2> QED BY <2>1 DEF TypeOK
  <1>3. ASSUME NEW pc, Goto(c, pc) PROVE call'[c].pc = pc /\ call'[c].grant = call[c].grant
    BY <1>0, <1>3 DEF Goto, TypeOK, Calls
  <1>4. ASSUME NEW answer, End(c, answer) PROVE call'[c].pc = "idle"
    BY <1>0, <1>4 DEF End, TypeOK, Calls
  <1>5. ASSUME Raise(c) PROVE call'[c].pc \in {"idle", "catalog"}
    <2>1. CASE Len(call[c].question) = 1 BY <1>4, <1>5, <2>1 DEF Raise
    <2>2. CASE Len(call[c].question) # 1
      <3>1. PICK whole \in Plans :
              call' = [call EXCEPT ![c] = [Begin(c) EXCEPT !.question = <<whole>>, !.at = 1]]
        BY <1>5, <2>2 DEF Raise
      <3>2. call'[c].pc = "catalog" BY <1>0, <3>1 DEF TypeOK, Begin, Calls
      <3> QED BY <3>2
    <2> QED BY <2>1, <2>2
  <1>6. ASSUME Pass(c) PROVE call'[c].pc = "connect"
    BY <1>3, <1>6 DEF Pass
  <1>7. CASE Validate(c)
    <2>1. call'[c].pc \in {"guard", "idle"} BY <1>3, <1>4, <1>7 DEF Validate
    <2> QED BY <1>1, <1>2, <2>1 DEF Settling
  <1>8. CASE Guard(c)
    <2>1. \/ Goto(c, "connect") \/ End(c, "denied") \/ Goto(c, "request")
          \/ call[c].grant # NoGrant /\ Goto(c, "status")
      BY <1>8 DEF Guard
    <2>2. call[c].pc = "guard" BY <1>8 DEF Guard, At
    <2> QED BY <1>1, <1>2, <1>3, <1>4, <2>1, <2>2
  <1>9. CASE ReadStatus(c)
    <2>1. \/ requests[call[c].grant] = "approved" /\ Goto(c, "reread")
          \/ End(c, "denied") \/ Goto(c, "request")
      BY <1>9 DEF ReadStatus
    <2>2. call[c].pc = "status" BY <1>9 DEF ReadStatus, At
    <2> QED BY <1>1, <1>2, <1>3, <1>4, <1>9, <2>1, <2>2 DEF Settling
  <1>10. CASE Reread(c)
    <2>1. Goto(c, "consume") \/ Pass(c) BY <1>10 DEF Reread
    <2>2. call[c].pc = "reread" BY <1>10 DEF Reread, At
    <2> QED BY <1>1, <1>2, <1>3, <1>6, <1>10, <2>1, <2>2 DEF Settling
  <1>11. ASSUME call'[c].pc \in {"connect", "idle", "catalog", "run", "finish"}
         PROVE  /\ call'[c].pc \notin Settling
                /\ call'[c].pc \notin {"status", "reread", "consume"}
    BY <1>11 DEF Settling
  <1>12. CASE Consume(c) BY <1>1, <1>2, <1>6, <1>11, <1>12 DEF Consume
  <1>13. CASE RequestApproval(c)
    <2>0. PICK i \in ApprovalIds :
            call' = [call EXCEPT ![c].pc = "idle", ![c].answer = "needs approval",
                                 ![c].told = i]
      BY <1>13 DEF RequestApproval
    <2>1. call'[c].pc = "idle" BY <1>0, <2>0 DEF TypeOK, Calls
    <2> QED BY <1>1, <1>2, <1>11, <2>1
  <1>14. CASE StoreFails(c) BY <1>1, <1>2, <1>5, <1>11, <1>14 DEF StoreFails
  <1>15. CASE Connect(c) BY <1>1, <1>2, <1>3, <1>11, <1>15 DEF Connect
  <1>16. CASE ConnectFails(c) BY <1>1, <1>2, <1>4, <1>11, <1>16 DEF ConnectFails
  <1>17. CASE Run(c) \/ RunFails(c)
    <2>1. call'[c].pc \in {"finish", "idle"} BY <1>3, <1>4, <1>17 DEF Run, RunFails
    <2> QED BY <1>1, <1>2, <1>11, <2>1
  <1>18. CASE Finish(c)
    <2>1. CASE End(c, "rows") BY <1>1, <1>2, <1>4, <1>11, <2>1
    <2>2. CASE call' = [call EXCEPT ![c] = [Begin(c) EXCEPT !.at = @ + 1]]
      <3>1. call'[c].pc = "catalog" BY <1>0, <2>2 DEF TypeOK, Begin, Calls
      <3> QED BY <1>1, <1>2, <1>11, <3>1
    <2> QED BY <1>18, <2>1, <2>2 DEF Finish
  <1>19. CASE FinishFails(c)
    <2>1. Raise(c) \/ End(c, "failed") BY <1>19 DEF FinishFails
    <2> QED BY <1>1, <1>2, <1>4, <1>5, <1>11, <2>1
  <1> QED
    BY <1>7, <1>8, <1>9, <1>10, <1>12, <1>13, <1>14, <1>15, <1>16, <1>17, <1>18, <1>19
    DEF Execute

LEMMA IdleTyped == Idle \in Calls /\ Idle.pc = "idle"
  <1>1. <<>> \in Seq(Plans) OBVIOUS
  <1> QED BY <1>1 DEF Idle, Calls, Waits, Answers

LEMMA AskMoves ==
  ASSUME TypeOK, NEW c \in Callers, NEW question \in Questions,
         NEW grant \in ApprovalIds \cup {NoGrant}, Ask(c, question, grant)
  PROVE  /\ \E r : CallOK(r) /\ call' = [call EXCEPT ![c] = r]
         /\ trail' = [trail EXCEPT ![c] = <<>>]
         /\ call'[c].pc = "catalog" /\ \A d \in Callers \ {c} : call'[d] = call[d]
  <1> DEFINE r == [Idle EXCEPT !.pc = "catalog", !.question = question, !.at = 1,
                               !.grant = grant]
  <1>1. call' = [call EXCEPT ![c] = r] /\ trail' = [trail EXCEPT ![c] = <<>>] BY DEF Ask
  <1>2. question \in Seq(Plans) /\ question # <<>> OBVIOUS
  <1>3. Idle \in Calls BY IdleTyped
  <1>4. r \in Calls /\ r.pc = "catalog" /\ r.question = question /\ r.at = 1
    BY <1>2, <1>3 DEF Calls, Waits
  <1>5. CallOK(r) BY <1>2, <1>4, StepOfQuestion DEF CallOK
  <1> HIDE DEF r
  <1>6. call'[c] = r /\ \A d \in Callers \ {c} : call'[d] = call[d] BY <1>1 DEF TypeOK
  <1>7. \E r_ : CallOK(r_) /\ call' = [call EXCEPT ![c] = r_] BY <1>1, <1>5
  <1> QED BY <1>1, <1>4, <1>6, <1>7

LEMMA InitTyped == Init => TInv
  <1> SUFFICES ASSUME Init PROVE TInv OBVIOUS
  <1>1. Idle \in Calls /\ Idle.pc = "idle" BY IdleTyped
  <1>2. \A c \in Callers : call[c] = Idle BY DEF Init
  <1>3. call \in [Callers -> Calls] BY <1>1 DEF Init
  <1>4. trail \in [Callers -> Seq(Events)]
    <2>1. <<>> \in Seq(Events) OBVIOUS
    <2> QED BY <2>1 DEF Init
  <1>5. /\ requests \in [ApprovalIds -> {"none", "pending", "approved", "rejected", "consumed"}]
        /\ granted \in [ApprovalIds -> Nat] /\ passed \in [ApprovalIds -> Nat]
        /\ open \subseteq Callers
    BY DEF Init
  <1> QED BY <1>1, <1>2, <1>3, <1>4, <1>5 DEF TInv, TypeOK, Named

(* What the steps of Next are.                                             *)
LEMMA Steps ==
  ASSUME Next
  PROVE  \/ \E c \in Callers, question \in Questions, grant \in ApprovalIds \cup {NoGrant} :
              Ask(c, question, grant)
         \/ \E c \in Callers : Execute(c)
         \/ \E i \in ApprovalIds, verdict \in Verdicts : Decide(i, verdict)
  BY DEF Next

LEMMA StepTyped == TInv /\ [Next]_vars => TInv'
  <1> SUFFICES ASSUME TInv, [Next]_vars PROVE TInv' OBVIOUS
  <1>0. TypeOK /\ Named BY DEF TInv
  <1>1. ASSUME NEW c \in Callers, NEW question \in Questions,
               NEW grant \in ApprovalIds \cup {NoGrant}, Ask(c, question, grant)
        PROVE  TInv'
    <2>1. PICK r : CallOK(r) /\ call' = [call EXCEPT ![c] = r] BY <1>0, <1>1, AskMoves
    <2>2. /\ call' \in [Callers -> Calls]
          /\ \A d \in Callers : call'[d].pc # "idle" => call'[d].at \in DOMAIN call'[d].question
      BY <1>0, <2>1, CallsStay
    <2>3. trail' \in [Callers -> Seq(Events)] BY <1>0, <1>1, AskMoves, TrailsStay
    <2>4. UNCHANGED <<requests, granted, passed, open>> BY <1>1 DEF Ask, Grants
    <2>5. TypeOK' BY <1>0, <2>2, <2>3, <2>4 DEF TypeOK
    <2>6. Named' BY <1>0, <1>1, AskMoves DEF Named
    <2> QED BY <2>5, <2>6 DEF TInv
  <1>2. ASSUME NEW c \in Callers, Execute(c) PROVE TInv'
    <2>1. PICK r : CallOK(r) /\ call' = [call EXCEPT ![c] = r] BY <1>0, <1>2, ExecuteKeepsCall
    <2>2. /\ call' \in [Callers -> Calls]
          /\ \A d \in Callers : call'[d].pc # "idle" => call'[d].at \in DOMAIN call'[d].question
      BY <1>0, <2>1, CallsStay
    <2>3. trail' \in [Callers -> Seq(Events)] BY <1>0, <1>2, ExecuteKeepsCall, TrailsStay
    <2>4. TypeOK' BY <1>0, <1>2, <2>2, <2>3, GrantsStay DEF TypeOK, Named
    <2>5. call[c].grant \in ApprovalIds \cup {NoGrant} BY <1>0 DEF TypeOK, Calls
    <2>6. call'[c].pc \in {"status", "reread", "consume"} => call'[c].grant \in ApprovalIds
      BY <1>0, <1>2, <2>5, ExecuteMoves DEF Named
    <2>7. Named' BY <1>0, <1>2, <2>6, ExecuteMoves DEF Named
    <2> QED BY <2>4, <2>7 DEF TInv
  <1>3. ASSUME NEW i \in ApprovalIds, NEW verdict \in Verdicts, Decide(i, verdict) PROVE TInv'
    <2>1. UNCHANGED <<call, open, trail, passed>> BY <1>3 DEF Decide
    <2>2. requests' \in [ApprovalIds -> {"none", "pending", "approved", "rejected", "consumed"}]
      BY <1>0, <1>3 DEF Decide, TypeOK
    <2>3. granted' \in [ApprovalIds -> Nat]
      <3>1. granted[i] \in Nat BY <1>0 DEF TypeOK
      <3>2. granted' = [granted EXCEPT ![i] = IF verdict = "approved" THEN granted[i] + 1
                                              ELSE granted[i]]
        BY <1>3 DEF Decide
      <3> QED BY <1>0, <3>1, <3>2 DEF TypeOK
    <2> QED BY <1>0, <2>1, <2>2, <2>3 DEF TInv, TypeOK, Named
  <1>4. CASE UNCHANGED vars BY <1>0, <1>4 DEF TInv, TypeOK, Named, vars
  <1> QED BY <1>1, <1>2, <1>3, <1>4, Steps

(* The states of GuardedQuery are the ones TypeOK describes, whatever      *)
(* fails and however many processes share the approvals.                   *)
THEOREM TypeCorrect == Spec => []TypeOK
  <1>1. TInv => TypeOK BY DEF TInv
  <1> QED BY InitTyped, StepTyped, <1>1, PTL DEF Spec

-----------------------------------------------------------------------------
(* Approvals settled without giving the loop away.                         *)

(* One call at a time settles an approval, and what it read still holds.   *)
Exclusive == \A c, d \in Callers :
  call[c].pc \in Settling /\ call[d].pc \in Settling => c = d

Settled == \A c \in Callers :
  call[c].pc \in {"reread", "consume"} => requests[call[c].grant] = "approved"

SInv == TInv /\ Exclusive /\ Settled

LEMMA InitSettled == Init => SInv
  <1> SUFFICES ASSUME Init PROVE SInv OBVIOUS
  <1>1. \A c \in Callers : call[c].pc = "idle" BY IdleTyped DEF Init
  <1> QED BY <1>1, InitTyped DEF SInv, Exclusive, Settled, Settling

LEMMA StepSettled == ~ Shared /\ SInv /\ [Next]_vars => SInv'
  <1> SUFFICES ASSUME ~ Shared, SInv, [Next]_vars PROVE SInv' OBVIOUS
  <1>0. TInv /\ TypeOK /\ Exclusive /\ Settled BY DEF SInv, TInv
  <1>1. TInv' BY <1>0, StepTyped
  <1>2. ASSUME NEW c \in Callers, NEW question \in Questions,
               NEW grant \in ApprovalIds \cup {NoGrant}, Ask(c, question, grant)
        PROVE  Exclusive' /\ Settled'
    <2>1. call'[c].pc = "catalog" /\ \A d \in Callers \ {c} : call'[d] = call[d]
      BY <1>0, <1>2, AskMoves
    <2>2. UNCHANGED requests BY <1>2 DEF Ask, Grants
    <2> QED BY <1>0, <2>1, <2>2 DEF Exclusive, Settled, Settling
  <1>3. ASSUME NEW c \in Callers, Execute(c) PROVE Exclusive' /\ Settled'
    <2>1. LoopFree(c) /\ \A d \in Callers \ {c} : call'[d] = call[d]
      BY <1>0, <1>3, ExecuteMoves
    <2>2. \A d \in Callers \ {c} : call'[d].pc \notin Settling BY <2>1 DEF LoopFree
    <2>3. Exclusive' BY <2>2 DEF Exclusive
    <2>4. CASE call'[c].pc = "reread"
      <3>1. ReadStatus(c) /\ call'[c].grant = call[c].grant
            /\ requests[call[c].grant] = "approved"
        BY <1>0, <1>3, <2>4, ExecuteMoves
      <3>2. UNCHANGED requests BY <3>1 DEF ReadStatus, Grants
      <3>3. requests'[call'[c].grant] = "approved" BY <3>1, <3>2
      <3> QED BY <2>2, <2>3, <3>3 DEF Settled, Settling
    <2>5. CASE call'[c].pc = "consume"
      <3>1. Reread(c) /\ call'[c].grant = call[c].grant /\ call[c].pc = "reread"
        BY <1>0, <1>3, <2>5, ExecuteMoves
      <3>2. UNCHANGED requests BY <3>1 DEF Reread
      <3>3. requests'[call'[c].grant] = "approved" BY <1>0, <3>1, <3>2 DEF Settled
      <3> QED BY <2>2, <2>3, <3>3 DEF Settled, Settling
    <2>6. CASE call'[c].pc \notin {"reread", "consume"}
      BY <2>2, <2>3, <2>6 DEF Settled, Settling
    <2> QED BY <2>4, <2>5, <2>6
  <1>4. ASSUME NEW i \in ApprovalIds, NEW verdict \in Verdicts, Decide(i, verdict)
        PROVE  Exclusive' /\ Settled'
    <2>1. UNCHANGED call /\ \A c \in Callers : call[c].pc \notin Settling
      BY <1>4 DEF Decide
    <2> QED BY <2>1 DEF Exclusive, Settled, Settling
  <1>5. CASE UNCHANGED vars BY <1>0, <1>1, <1>5 DEF SInv, Exclusive, Settled, vars
  <1> QED BY <1>1, <1>2, <1>3, <1>4, <1>5, Steps DEF SInv

(* Every step of an execution is a step of the promised grant, or changes  *)
(* nothing of it.                                                          *)
LEMMA ExecuteGranted ==
  ASSUME SInv, NEW c \in Callers, Execute(c)
  PROVE  [Grant!GrantNext]_(Grant!grantVars)
  <1> SUFFICES Grant!GrantNext \/ UNCHANGED <<requests, granted, passed>>
    BY DEF Grant!grantVars
  <1>0. TypeOK /\ Named /\ Settled BY DEF SInv, TInv
  <1>1. UNCHANGED Grants \/ Reread(c) \/ Consume(c) \/ RequestApproval(c)
    BY DEF Execute, Validate, Guard, ReadStatus, StoreFails, Connect, ConnectFails, Run,
           RunFails, Finish, FinishFails, Grants
  <1>2. CASE UNCHANGED Grants BY <1>2 DEF Grants
  <1>3. CASE Reread(c)
    <2>1. requests[call[c].grant] = "approved" BY <1>0, <1>3 DEF Reread, At, Settled
    <2> QED BY <1>3, <2>1 DEF Reread
  <1>4. CASE Consume(c)
    <2>1. call[c].grant \in ApprovalIds /\ requests[call[c].grant] = "approved"
      BY <1>0, <1>4 DEF Consume, At, Settled, Named
    <2>2. Grant!Use(call[c].grant) BY <1>4, <2>1 DEF Consume, Pass, Grant!Use
    <2> QED BY <2>1, <2>2 DEF Grant!GrantNext
  <1>5. CASE RequestApproval(c)
    <2>1. PICK i \in ApprovalIds :
            /\ Unused(i)
            /\ requests' = [requests EXCEPT ![i] = "pending"]
            /\ granted' = [granted EXCEPT ![i] = 0]
            /\ passed' = [passed EXCEPT ![i] = 0]
      BY <1>5 DEF RequestApproval
    <2>2. Grant!Wait(i) BY <2>1 DEF Unused, Grant!Wait, Grant!Over
    <2> QED BY <2>2 DEF Grant!GrantNext
  <1> QED BY <1>1, <1>2, <1>3, <1>4, <1>5

(* Callers change nothing of it by asking.                                 *)
LEMMA AskGranted ==
  ASSUME NEW c \in Callers, NEW question \in Questions,
         NEW grant \in ApprovalIds \cup {NoGrant}, Ask(c, question, grant)
  PROVE  UNCHANGED Grant!grantVars
  BY DEF Ask, Grants, Grant!grantVars

(* A human who decides what is waiting takes a step of it.                 *)
LEMMA WaitingGranted ==
  ASSUME TypeOK, NEW i \in ApprovalIds, NEW verdict \in Verdicts, DecideWaiting(i, verdict)
  PROVE  Grant!GrantNext
  <1>1. /\ requests[i] = "pending" /\ UNCHANGED passed
        /\ requests' = [requests EXCEPT ![i] = verdict]
    BY DEF DecideWaiting, Decide
  <1>2. CASE verdict = "approved"
    <2>1. granted' = [granted EXCEPT ![i] = @ + 1] BY <1>2 DEF DecideWaiting, Decide
    <2>2. Grant!Approve(i) BY <1>1, <1>2, <2>1 DEF Grant!Approve
    <2> QED BY <2>2 DEF Grant!GrantNext
  <1>3. CASE verdict = "rejected"
    <2>1. granted' = [granted EXCEPT ![i] = granted[i]] BY <1>3 DEF DecideWaiting, Decide
    <2>2. UNCHANGED granted BY <2>1 DEF TypeOK
    <2>3. Grant!Reject(i) BY <1>1, <1>3, <2>2 DEF Grant!Reject
    <2> QED BY <2>3 DEF Grant!GrantNext
  <1> QED BY <1>2, <1>3, GuardedQueryAssumption

(* Careful humans do no more than humans may.                              *)
LEMMA CarefulIsNext == [CarefulNext]_vars => [Next]_vars
  BY DEF CarefulNext, Next, DecideWaiting

LEMMA CarefulGranted ==
  SInv /\ [CarefulNext]_vars => [Grant!GrantNext]_(Grant!grantVars)
  <1> SUFFICES ASSUME SInv, [CarefulNext]_vars PROVE [Grant!GrantNext]_(Grant!grantVars)
    OBVIOUS
  <1>1. ASSUME NEW c \in Callers, NEW question \in Questions,
               NEW grant \in ApprovalIds \cup {NoGrant}, Ask(c, question, grant)
        PROVE  UNCHANGED Grant!grantVars
    BY <1>1, AskGranted
  <1>2. ASSUME NEW i \in ApprovalIds, NEW verdict \in Verdicts, DecideWaiting(i, verdict)
        PROVE  Grant!GrantNext
    BY <1>2, WaitingGranted DEF SInv, TInv
  <1>3. CASE UNCHANGED vars BY <1>3 DEF vars, Grant!grantVars
  <1> QED BY <1>1, <1>2, <1>3, ExecuteGranted DEF CarefulNext

(* In one process over SQLite, and when humans decide only what is         *)
(* waiting, approvals go through the documented states and no others, for  *)
(* any callers, questions and failures.  Both hypotheses are needed: the   *)
(* engine keeps its side, decide() leaves the other to the humans.         *)
THEOREM GrantsImplemented == ASSUME ~ Shared PROVE CarefulSpec => GrantsAsPromised
  <1>1. Init => Grant!GrantInit BY DEF Init, Grant!GrantInit
  <1>2. SInv /\ [CarefulNext]_vars => SInv' BY StepSettled, CarefulIsNext
  <1>3. SInv /\ [CarefulNext]_vars => [Grant!GrantNext]_(Grant!grantVars) BY CarefulGranted
  <1> QED BY <1>1, <1>2, <1>3, InitSettled, PTL DEF CarefulSpec, GrantsAsPromised, Grant!GrantSpec

(* A grant that is still open has been granted once more than it was used. *)
Balance == \A i \in ApprovalIds :
  passed[i] + (IF requests[i] = "approved" THEN 1 ELSE 0) <= granted[i]

LEMMA StepBalanced ==
  TypeOK /\ Balance /\ [Grant!GrantNext]_(Grant!grantVars) => Balance'
  <1> SUFFICES ASSUME TypeOK, Balance, [Grant!GrantNext]_(Grant!grantVars),
                      NEW j \in ApprovalIds
               PROVE  (passed[j] + (IF requests[j] = "approved" THEN 1 ELSE 0) <= granted[j])'
    BY DEF Balance
  <1>0. /\ passed[j] \in Nat /\ granted[j] \in Nat
        /\ passed[j] + (IF requests[j] = "approved" THEN 1 ELSE 0) <= granted[j]
    BY DEF TypeOK, Balance
  <1>1. ASSUME NEW i \in ApprovalIds, Grant!Wait(i) PROVE (passed[j] + (IF requests[j] = "approved" THEN 1 ELSE 0) <= granted[j])'
    BY <1>0, <1>1 DEF Grant!Wait, TypeOK
  <1>2. ASSUME NEW i \in ApprovalIds, Grant!Approve(i) PROVE (passed[j] + (IF requests[j] = "approved" THEN 1 ELSE 0) <= granted[j])'
    BY <1>0, <1>2 DEF Grant!Approve, TypeOK
  <1>3. ASSUME NEW i \in ApprovalIds, Grant!Reject(i) PROVE (passed[j] + (IF requests[j] = "approved" THEN 1 ELSE 0) <= granted[j])'
    BY <1>0, <1>3 DEF Grant!Reject, TypeOK
  <1>4. ASSUME NEW i \in ApprovalIds, Grant!Use(i) PROVE (passed[j] + (IF requests[j] = "approved" THEN 1 ELSE 0) <= granted[j])'
    BY <1>0, <1>4 DEF Grant!Use, TypeOK
  <1>5. CASE UNCHANGED Grant!grantVars BY <1>0, <1>5 DEF Grant!grantVars
  <1> QED BY <1>1, <1>2, <1>3, <1>4, <1>5 DEF Grant!GrantNext

(* A decision of a human adds to what was granted, if it approves; one who *)
(* rejects what was approved takes nothing back of it.                     *)
LEMMA DecisionBalanced ==
  ASSUME TypeOK, Balance, NEW i \in ApprovalIds, NEW verdict \in Verdicts, Decide(i, verdict)
  PROVE  Balance'
  <1> SUFFICES ASSUME NEW j \in ApprovalIds
               PROVE  (passed[j] + (IF requests[j] = "approved" THEN 1 ELSE 0) <= granted[j])'
    BY DEF Balance
  <1>1. /\ passed[j] \in Nat /\ granted[j] \in Nat
        /\ passed[j] + (IF requests[j] = "approved" THEN 1 ELSE 0) <= granted[j]
    BY DEF TypeOK, Balance
  <1>2. /\ passed' = passed
        /\ requests'[j] = IF j = i THEN verdict ELSE requests[j]
        /\ granted'[j] = IF j = i /\ verdict = "approved" THEN granted[j] + 1 ELSE granted[j]
    BY DEF Decide, TypeOK
  <1> QED BY <1>1, <1>2

LEMMA NextBalanced == SInv /\ Balance /\ [Next]_vars => Balance'
  <1> SUFFICES ASSUME SInv, Balance, [Next]_vars PROVE Balance' OBVIOUS
  <1>0. TypeOK BY DEF SInv, TInv
  <1>1. ASSUME [Grant!GrantNext]_(Grant!grantVars) PROVE Balance' BY <1>0, <1>1, StepBalanced
  <1>2. ASSUME NEW c \in Callers, NEW question \in Questions,
               NEW grant \in ApprovalIds \cup {NoGrant}, Ask(c, question, grant)
        PROVE  UNCHANGED Grant!grantVars
    BY <1>2, AskGranted
  <1>3. CASE UNCHANGED vars BY <1>1, <1>3 DEF vars, Grant!grantVars
  <1>4. ASSUME NEW i \in ApprovalIds, NEW verdict \in Verdicts, Decide(i, verdict)
        PROVE  Balance'
    BY <1>0, <1>4, DecisionBalanced
  <1> QED BY <1>1, <1>2, <1>3, <1>4, ExecuteGranted, Steps

(* In one process over SQLite an approval is one-shot: it lets no more     *)
(* executions through than it was granted for, whatever humans decide and  *)
(* decide again.                                                           *)
THEOREM OneShotHolds == ASSUME ~ Shared PROVE Spec => []OneShot
  <1>1. Init => Balance BY DEF Init, Balance
  <1>2. SInv => TypeOK BY DEF SInv, TInv
  <1>3. SInv /\ [Next]_vars => SInv' BY StepSettled
  <1>4. SInv /\ Balance /\ [Next]_vars => Balance' BY NextBalanced
  <1>5. TypeOK /\ Balance => OneShot
    <2> SUFFICES ASSUME TypeOK, Balance, NEW i \in ApprovalIds PROVE passed[i] <= granted[i]
      BY DEF OneShot
    <2>1. passed[i] \in Nat /\ granted[i] \in Nat BY DEF TypeOK
    <2>2. passed[i] + (IF requests[i] = "approved" THEN 1 ELSE 0) <= granted[i] BY DEF Balance
    <2> QED BY <2>1, <2>2
  <1> QED BY <1>1, <1>2, <1>3, <1>4, <1>5, InitSettled, PTL DEF Spec

-----------------------------------------------------------------------------
(* The client and the trail of an execution, wherever it stands.           *)

Undecided == <<>>

Decided == <<"decision">>

Outcome(event) == <<"decision", event>>

Outcomes == Events \ {"decision"}

Trails == {Undecided, Decided} \cup { Outcome(event) : event \in Outcomes }

(* Before the decision the trail is empty, until the end it is the         *)
(* decision; the answer, given at the end, goes with what was recorded.    *)
Told(c) ==
  /\ call[c].pc \in {"catalog", "guard"} => trail[c] = Undecided
  /\ call[c].pc \in Waits \ {"idle", "catalog", "guard"} => trail[c] = Decided
  /\ call[c].pc # "idle" => call[c].answer = "none"
  /\ call[c].answer = "rows" => trail[c] = Outcome("completed")
  /\ call[c].answer \in {"denied", "needs approval"} => trail[c] = Decided
  /\ trail[c] \in Trails

Connected(c) == c \in open <=> call[c].pc = "run"

ToldInv == TInv /\ \A c \in Callers : Told(c) /\ Connected(c)

LEMMA Appends ==
  ASSUME NEW e \in Events
  PROVE  /\ Append(Undecided, e) = <<e>>
         /\ Append(Decided, e) = Outcome(e)
<1>1. Append(<<>>, e) = <<e>>
  <2>1. /\ Append(<<>>, e) \in Seq(Events) /\ Len(Append(<<>>, e)) = 1
        /\ Append(<<>>, e)[1] = e
    BY EmptySeq, AppendProperties
  <2>2. <<e>> \in Seq(Events) /\ Len(<<e>>) = 1 /\ <<e>>[1] = e OBVIOUS
  <2> QED BY <2>1, <2>2, SeqEqual
<1>2. Append(Decided, e) = Outcome(e)
  <2> DEFINE s == Append(<<"decision">>, e)
             t == <<"decision", e>>
  <2>1. /\ <<"decision">> \in Seq(Events) /\ Len(<<"decision">>) = 1
        /\ <<"decision">>[1] = "decision"
    BY DEF Events
  <2>2. s \in Seq(Events) /\ Len(s) = 2 /\ s[1] = "decision" /\ s[2] = e
    BY <2>1, AppendProperties
  <2>3. t \in Seq(Events) /\ Len(t) = 2 /\ t[1] = "decision" /\ t[2] = e BY DEF Events
  <2> HIDE DEF s, t
  <2>4. \A i \in 1 .. Len(s) : s[i] = t[i]
    <3>1. 1 .. Len(s) = {1, 2} BY <2>2
    <3> QED BY <2>2, <2>3, <3>1
  <2>5. s = t BY <2>2, <2>3, <2>4, SeqEqual
  <2> QED BY <2>5 DEF s, t, Decided, Outcome
<1> QED BY <1>1, <1>2 DEF Undecided

LEMMA TrailsHold ==
  /\ Undecided \in Trails /\ Decided \in Trails
  /\ \A event \in Outcomes : Outcome(event) \in Trails
  /\ "completed" \in Outcomes /\ "failed" \in Outcomes /\ "connection_failed" \in Outcomes
BY DEF Trails, Outcomes, Events

LEMMA RecordAppends ==
  ASSUME TypeOK, NEW c \in Callers, NEW e \in Events, Record(c, e)
  PROVE  /\ trail[c] = Undecided => trail'[c] = <<e>>
         /\ trail[c] = Decided => trail'[c] = Outcome(e)
<1>1. trail'[c] = Append(trail[c], e) BY DEF TypeOK, Record
<1> QED BY <1>1, Appends

LEMMA RecordSpares ==
  ASSUME TypeOK, NEW c \in Callers, NEW e \in Events, Record(c, e)
  PROVE  \A d \in Callers \ {c} : trail'[d] = trail[d]
BY DEF TypeOK, Record

(* How a step of an execution leaves its call.                             *)
LEMMA GotoTells ==
  ASSUME TypeOK, NEW c \in Callers, NEW pc \in Waits, Goto(c, pc)
  PROVE  call'[c].pc = pc /\ call'[c].answer = call[c].answer
BY DEF TypeOK, Calls, Goto

LEMMA EndTells ==
  ASSUME TypeOK, NEW c \in Callers, NEW answer \in Answers, End(c, answer)
  PROVE  call'[c].pc = "idle" /\ call'[c].answer = answer
BY DEF TypeOK, Calls, End

(* What is left of a call that goes on, or ends.                           *)
LEMMA GoesOn ==
  ASSUME TypeOK, NEW c \in Callers, Told(c), NEW pc \in Waits \ {"idle"},
         call[c].pc # "idle", call'[c].pc = pc, call'[c].answer = call[c].answer,
         \/ pc \in {"catalog", "guard"} /\ trail'[c] = Undecided
         \/ pc \notin {"catalog", "guard"} /\ trail'[c] = Decided
  PROVE  Told(c)'
<1>1. call'[c].answer = "none" /\ trail'[c] \in Trails BY TrailsHold DEF Told
<1> QED BY <1>1 DEF Told

LEMMA Ends ==
  ASSUME TypeOK, NEW c \in Callers, NEW answer \in Answers, End(c, answer),
         trail'[c] \in Trails,
         answer = "rows" => trail'[c] = Outcome("completed"),
         answer \in {"denied", "needs approval"} => trail'[c] = Decided
  PROVE  Told(c)' /\ call'[c].pc = "idle"
BY EndTells DEF Told

LEMMA RaiseTells ==
  ASSUME TypeOK, NEW c \in Callers, Raise(c), Told(c), call[c].pc # "idle"
  PROVE  Told(c)' /\ call'[c].pc \in {"idle", "catalog"}
<1>1. CASE Len(call[c].question) = 1
  <2>1. End(c, "failed") /\ trail'[c] = trail[c] BY <1>1 DEF Raise
  <2>2. trail'[c] \in Trails /\ "failed" \in Answers BY <2>1 DEF Told, Answers
  <2> QED BY <2>1, <2>2, Ends
<1>2. CASE Len(call[c].question) # 1
  <2>1. PICK whole \in Plans :
          /\ call' = [call EXCEPT ![c] = [Begin(c) EXCEPT !.question = <<whole>>, !.at = 1]]
          /\ trail' = [trail EXCEPT ![c] = <<>>]
    BY <1>2 DEF Raise
  <2>2. call'[c].pc = "catalog" /\ call'[c].answer = call[c].answer
    BY <2>1 DEF TypeOK, Calls, Begin
  <2>3. trail'[c] = Undecided BY <2>1 DEF TypeOK, Undecided
  <2> QED BY <2>2, <2>3, GoesOn DEF Waits
<1> QED BY <1>1, <1>2

LEMMA ExecuteTells ==
  ASSUME TypeOK, NEW c \in Callers, Told(c), Connected(c), Execute(c)
  PROVE  Told(c)' /\ Connected(c)'
<1>0. trail[c] \in Trails BY DEF Told
<1>1. CASE Validate(c)
  <2>1. call[c].pc = "catalog" /\ open' = open /\ trail'[c] = Undecided
    BY <1>1 DEF Validate, At, Told
  <2>2. CASE Goto(c, "guard") BY <2>1, <2>2, GotoTells, GoesOn DEF Waits, Connected
  <2>3. CASE End(c, "failed")
    BY <2>1, <2>3, Ends, TrailsHold DEF Answers, Connected
  <2> QED BY <1>1, <2>2, <2>3 DEF Validate
<1>2. CASE Guard(c)
  <2>1. call[c].pc = "guard" /\ Record(c, "decision") /\ open' = open BY <1>2 DEF Guard, At
  <2>2. trail'[c] = Decided BY <2>1, RecordAppends DEF Told, Decided, Events
  <2>3. \/ \E pc \in Settling \cup {"connect"} : Goto(c, pc)
        \/ End(c, "denied")
    BY <1>2 DEF Guard, Settling
  <2>4. ASSUME NEW pc \in Settling \cup {"connect"}, Goto(c, pc) PROVE Told(c)' /\ Connected(c)'
    <3>1. pc \in Waits \ {"idle", "catalog", "guard", "run"} BY DEF Waits, Settling
    <3> QED BY <2>1, <2>2, <2>4, <3>1, GotoTells, GoesOn DEF Connected
  <2>5. CASE End(c, "denied") BY <2>1, <2>2, <2>5, Ends, TrailsHold DEF Answers, Connected
  <2> QED BY <2>3, <2>4, <2>5
<1>3. CASE ReadStatus(c) \/ Reread(c) \/ Consume(c)
  <2>1. call[c].pc \in Settling /\ open' = open /\ trail'[c] = trail[c]
    BY <1>3 DEF ReadStatus, Reread, Consume, At, Settling
  <2>2. trail'[c] = Decided /\ call[c].pc \notin {"idle", "run"}
    BY <2>1 DEF Told, Settling, Waits
  <2>3. \/ \E pc \in Settling \cup {"connect"} : Goto(c, pc)
        \/ End(c, "denied")
    BY <1>3 DEF ReadStatus, Reread, Consume, Pass, Settling
  <2>4. ASSUME NEW pc \in Settling \cup {"connect"}, Goto(c, pc) PROVE Told(c)' /\ Connected(c)'
    <3>1. pc \in Waits \ {"idle", "catalog", "guard", "run"} BY DEF Waits, Settling
    <3> QED BY <2>1, <2>2, <2>4, <3>1, GotoTells, GoesOn DEF Connected
  <2>5. CASE End(c, "denied") BY <2>1, <2>2, <2>5, Ends, TrailsHold DEF Answers, Connected
  <2> QED BY <2>3, <2>4, <2>5
<1>4. CASE RequestApproval(c)
  <2>1. call[c].pc = "request" /\ open' = open /\ trail'[c] = trail[c]
    BY <1>4 DEF RequestApproval, At
  <2>2. trail'[c] = Decided BY <2>1 DEF Told, Waits
  <2>3. PICK i \in ApprovalIds :
          call' = [call EXCEPT ![c].pc = "idle", ![c].answer = "needs approval", ![c].told = i]
    BY <1>4 DEF RequestApproval
  <2> DEFINE r == [call[c] EXCEPT !.pc = "idle", !.answer = "needs approval", !.told = i]
  <2>4. call'[c] = r BY <2>3 DEF TypeOK
  <2>5. r.pc = "idle" /\ r.answer = "needs approval" BY DEF TypeOK, Calls
  <2> HIDE DEF r
  <2> QED BY <2>1, <2>2, <2>4, <2>5, TrailsHold DEF Told, Connected
<1>5. CASE StoreFails(c)
  <2>1. call[c].pc \in Settling /\ Raise(c) /\ open' = open BY <1>5 DEF StoreFails, At
  <2>2. call[c].pc \notin {"idle", "run"} BY <2>1 DEF Settling
  <2> QED BY <2>1, <2>2, RaiseTells DEF Connected
<1>6. CASE Connect(c)
  <2>1. call[c].pc = "connect" /\ open' = open \cup {c} /\ trail'[c] = trail[c] /\ Goto(c, "run")
    BY <1>6 DEF Connect, At
  <2>2. trail'[c] = Decided BY <2>1 DEF Told, Waits
  <2> QED BY <2>1, <2>2, GotoTells, GoesOn DEF Waits, Connected
<1>7. CASE ConnectFails(c)
  <2>1. /\ call[c].pc = "connect" /\ End(c, "unreachable") /\ open' = open
        /\ Record(c, "connection_failed") \/ trail'[c] = trail[c]
    BY <1>7 DEF ConnectFails, At
  <2>2. trail[c] = Decided BY <2>1 DEF Told, Waits
  <2>3. trail'[c] \in Trails BY <2>1, <2>2, RecordAppends, TrailsHold DEF Events
  <2> QED BY <2>1, <2>3, Ends DEF Answers, Connected
<1>8. CASE Run(c)
  <2>1. call[c].pc = "run" /\ open' = open \ {c} /\ trail'[c] = trail[c] /\ Goto(c, "finish")
    BY <1>8 DEF Run, At
  <2>2. trail'[c] = Decided BY <2>1 DEF Told, Waits
  <2> QED BY <2>1, <2>2, GotoTells, GoesOn DEF Waits, Connected
<1>9. CASE RunFails(c)
  <2>1. /\ call[c].pc = "run" /\ End(c, "failed") /\ open' = open \ {c}
        /\ Record(c, "failed") \/ trail'[c] = trail[c]
    BY <1>9 DEF RunFails, At
  <2>2. trail[c] = Decided BY <2>1 DEF Told, Waits
  <2>3. trail'[c] \in Trails BY <2>1, <2>2, RecordAppends, TrailsHold DEF Events
  <2> QED BY <2>1, <2>3, Ends DEF Answers, Connected
<1>10. CASE Finish(c)
  <2>1. call[c].pc = "finish" /\ open' = open BY <1>10 DEF Finish, At
  <2>2. CASE End(c, "rows") /\ Record(c, "completed")
    <3>1. trail[c] = Decided BY <2>1 DEF Told, Waits
    <3>2. trail'[c] = Outcome("completed") BY <2>2, <3>1, RecordAppends DEF Events
    <3> QED BY <2>1, <2>2, <3>2, Ends, TrailsHold DEF Answers, Connected
  <2>3. CASE /\ call' = [call EXCEPT ![c] = [Begin(c) EXCEPT !.at = @ + 1]]
             /\ trail' = [trail EXCEPT ![c] = <<>>]
    <3>1. call'[c].pc = "catalog" /\ call'[c].answer = call[c].answer
      BY <2>3 DEF TypeOK, Calls, Begin
    <3>2. trail'[c] = Undecided BY <2>3 DEF TypeOK, Undecided
    <3> QED BY <2>1, <3>1, <3>2, GoesOn DEF Waits, Connected
  <2> QED BY <1>10, <2>2, <2>3 DEF Finish
<1>11. CASE FinishFails(c)
  <2>1. call[c].pc = "finish" /\ open' = open BY <1>11 DEF FinishFails, At
  <2>2. CASE Raise(c) BY <2>1, <2>2, RaiseTells DEF Connected
  <2>3. CASE End(c, "failed") /\ UNCHANGED trail
    <3>1. trail'[c] \in Trails BY <1>0, <2>3
    <3> QED BY <2>1, <2>3, <3>1, Ends DEF Answers, Connected
  <2> QED BY <1>11, <2>2, <2>3 DEF FinishFails
<1> QED
  BY <1>1, <1>2, <1>3, <1>4, <1>5, <1>6, <1>7, <1>8, <1>9, <1>10, <1>11 DEF Execute

(* A step of one caller leaves client and trail of the others.             *)
LEMMA ExecuteSpares ==
  ASSUME TypeOK, NEW c \in Callers, Execute(c), NEW d \in Callers, d # c
  PROVE  trail'[d] = trail[d] /\ (d \in open' <=> d \in open)
<1>1. \/ UNCHANGED trail
      \/ \E e \in Events : Record(c, e)
      \/ trail' = [trail EXCEPT ![c] = <<>>]
  BY ExecuteKeepsCall
<1>2. open' = open \/ open' = open \cup {c} \/ open' = open \ {c}
  BY DEF Execute, Validate, Guard, ReadStatus, Reread, Consume, RequestApproval, StoreFails,
         Connect, ConnectFails, Run, RunFails, Finish, FinishFails
<1> QED BY <1>1, <1>2, RecordSpares DEF TypeOK

LEMMA StepTold == ToldInv /\ [Next]_vars => ToldInv'
<1> SUFFICES ASSUME ToldInv, [Next]_vars, NEW d \in Callers PROVE Told(d)' /\ Connected(d)'
  BY StepTyped DEF ToldInv
<1>0. TypeOK /\ Told(d) /\ Connected(d) BY DEF ToldInv, TInv
<1>1. ASSUME NEW c \in Callers, NEW question \in Questions,
             NEW grant \in ApprovalIds \cup {NoGrant}, Ask(c, question, grant)
      PROVE  Told(d)' /\ Connected(d)'
  <2>1. /\ open' = open /\ call[c].pc = "idle" /\ trail' = [trail EXCEPT ![c] = <<>>]
        /\ call'[c].pc = "catalog" /\ \A e \in Callers \ {c} : call'[e] = call[e]
    BY <1>0, <1>1, AskMoves DEF Ask, At
  <2>2. CASE d # c BY <1>0, <2>1, <2>2 DEF Told, Connected, TypeOK
  <2>3. CASE d = c
    <3>1. call'[c].answer = "none"
      BY <1>0, <1>1, IdleTyped DEF Ask, TypeOK, Calls, Idle
    <3>2. trail'[c] = Undecided BY <1>0, <2>1 DEF TypeOK, Undecided
    <3> QED BY <1>0, <2>1, <2>3, <3>1, <3>2, TrailsHold DEF Told, Connected
  <2> QED BY <2>2, <2>3
<1>2. ASSUME NEW c \in Callers, Execute(c) PROVE Told(d)' /\ Connected(d)'
  <2>1. CASE d = c BY <1>0, <1>2, <2>1, ExecuteTells
  <2>2. CASE d # c
    <3>1. call'[d] = call[d] BY <1>0, <1>2, <2>2, ExecuteMoves
    <3>2. trail'[d] = trail[d] /\ (d \in open' <=> d \in open)
      BY <1>0, <1>2, <2>2, ExecuteSpares
    <3> QED BY <1>0, <3>1, <3>2 DEF Told, Connected
  <2> QED BY <2>1, <2>2
<1>3. ASSUME NEW i \in ApprovalIds, NEW verdict \in Verdicts, Decide(i, verdict)
      PROVE  Told(d)' /\ Connected(d)'
  BY <1>0, <1>3 DEF Decide, Told, Connected
<1>4. CASE UNCHANGED vars BY <1>0, <1>4 DEF vars, Told, Connected
<1> QED BY <1>1, <1>2, <1>3, <1>4, Steps

LEMMA InitTold == Init => ToldInv
<1> SUFFICES ASSUME Init, NEW c \in Callers PROVE Told(c) /\ Connected(c)
  BY InitTyped DEF ToldInv
<1>1. call[c] = Idle /\ trail[c] = Undecided /\ open = {} BY DEF Init, Undecided
<1>2. call[c].pc = "idle" /\ call[c].answer = "none" BY <1>1 DEF Idle
<1> QED BY <1>1, <1>2, TrailsHold DEF Told, Connected

(* No client of a source outlives the execution that connected it, for any *)
(* callers, in one process or several, whatever fails.                     *)
THEOREM NoClientEverLeft == Spec => []NoClientLeft
  <1>1. ToldInv => NoClientLeft BY DEF ToldInv, Connected, NoClientLeft
  <1> QED BY <1>1, InitTold, StepTold, PTL DEF Spec

(* The audit trail of an execution explains the answer it gave.            *)
THEOREM TrailAlwaysExplains == Spec => []TrailExplains
  <1>1. ASSUME NEW e, e # "decision"
        PROVE  /\ Len(Outcome(e)) = 2 /\ DOMAIN Outcome(e) = {1, 2}
               /\ Outcome(e)[1] = "decision" /\ Outcome(e)[2] = e
    BY <1>1 DEF Outcome
  <1>2. ASSUME ToldInv, NEW c \in Callers
        PROVE  /\ Len(trail[c]) <= 2
               /\ \A n \in DOMAIN trail[c] : trail[c][n] = "decision" <=> n = 1
    <2>1. trail[c] \in Trails BY <1>2 DEF ToldInv, Told
    <2>2. CASE trail[c] = Undecided BY <2>2 DEF Undecided
    <2>3. CASE trail[c] = Decided BY <2>3 DEF Decided
    <2>4. ASSUME NEW e \in Outcomes, trail[c] = Outcome(e)
          PROVE  /\ Len(trail[c]) <= 2
                 /\ \A n \in DOMAIN trail[c] : trail[c][n] = "decision" <=> n = 1
      <3>1. e # "decision" BY DEF Outcomes
      <3>2. /\ Len(trail[c]) = 2 /\ DOMAIN trail[c] = {1, 2}
            /\ trail[c][1] = "decision" /\ trail[c][2] = e
        BY <1>1, <2>4, <3>1
      <3> QED BY <3>1, <3>2
    <2> QED BY <2>1, <2>2, <2>3, <2>4 DEF Trails
  <1>3. ASSUME ToldInv, NEW c \in Callers
        PROVE  /\ call[c].answer = "rows" => trail[c] = <<"decision", "completed">>
               /\ call[c].answer \in {"denied", "needs approval"} => trail[c] = <<"decision">>
    BY <1>3 DEF ToldInv, Told, Decided, Outcome
  <1>4. ToldInv => TrailExplains BY <1>2, <1>3 DEF TrailExplains
  <1> QED BY <1>4, InitTold, StepTold, PTL DEF Spec

=============================================================================
