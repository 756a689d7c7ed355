---------------------------- MODULE OneShotGrant ----------------------------
(***************************************************************************)
(* What an approval is meant to be, after HOW_IT_WORKS.md, "The approval   *)
(* state machine": a query waits, a human approves or rejects it, and an   *)
(* approval lets one query through.  What was rejected is blocked and what *)
(* was used is done: both are ends.                                        *)
(***************************************************************************)
EXTENDS Naturals

CONSTANT ApprovalIds

VARIABLES
  status,   \* where each request stands
  granted,  \* how often a human approved it
  used      \* how many queries it let through

grantVars == <<status, granted, used>>

Over == {"none", "rejected", "consumed"}

GrantInit ==
  /\ status = [i \in ApprovalIds |-> "none"]
  /\ granted = [i \in ApprovalIds |-> 0]
  /\ used = [i \in ApprovalIds |-> 0]

\* A query waits for approval.  Identifiers are never reused: one whose
\* request is over stands for a new one.
Wait(i) ==
  /\ status[i] \in Over
  /\ status' = [status EXCEPT ![i] = "pending"]
  /\ granted' = [granted EXCEPT ![i] = 0]
  /\ used' = [used EXCEPT ![i] = 0]

Approve(i) ==
  /\ status[i] = "pending"
  /\ status' = [status EXCEPT ![i] = "approved"]
  /\ granted' = [granted EXCEPT ![i] = @ + 1]
  /\ UNCHANGED used

Reject(i) ==
  /\ status[i] = "pending"
  /\ status' = [status EXCEPT ![i] = "rejected"]
  /\ UNCHANGED <<granted, used>>

Use(i) ==
  /\ status[i] = "approved"
  /\ status' = [status EXCEPT ![i] = "consumed"]
  /\ used' = [used EXCEPT ![i] = @ + 1]
  /\ UNCHANGED granted

GrantNext == \E i \in ApprovalIds : Wait(i) \/ Approve(i) \/ Reject(i) \/ Use(i)

GrantSpec == GrantInit /\ [][GrantNext]_grantVars

=============================================================================
