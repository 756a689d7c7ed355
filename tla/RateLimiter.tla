---------------------------- MODULE RateLimiter -----------------------------
(***************************************************************************)
(* LocalRateLimiter (defaults/rate_limit.py) behind RateLimitGuardrail,    *)
(* the sliding window every Engine.execute of a process goes through, and  *)
(* the planning that precedes it.  allow() never waits, so it is one step. *)
(***************************************************************************)
EXTENDS Naturals, Sequences

CONSTANTS
  Users,
  Limit,      \* limit: executions in a window
  Window,     \* window_s
  MaxTime,    \* bound: the clock
  MaxWaiting  \* bound: planned questions of a user not executed yet

ASSUME RateLimiterAssumption ==
  /\ Limit \in Nat \ {0} /\ Window \in Nat
  /\ MaxTime \in Nat /\ MaxWaiting \in Nat

VARIABLES
  now,       \* time.monotonic()
  hits,      \* _hits: the bucket of each user, oldest hit first
  waiting,   \* plans of each user that wait to be executed
  admitted   \* history: when each user was let through

vars == <<now, hits, waiting, admitted>>

Init ==
  /\ now = 0
  /\ hits = [u \in Users |-> <<>>]
  /\ waiting = [u \in Users |-> 0]
  /\ admitted = [u \in Users |-> <<>>]

Tick ==
  /\ now < MaxTime
  /\ now' = now + 1
  /\ UNCHANGED <<hits, waiting, admitted>>

\* The model is asked for a plan.  Nothing is asked of the limiter yet.
PlanQuestion(u) ==
  /\ waiting[u] < MaxWaiting
  /\ waiting' = [waiting EXCEPT ![u] = @ + 1]
  /\ UNCHANGED <<now, hits, admitted>>

\* Fault: a hit that is just as old as the window is out of it.
OldAtWindow(bucket, n) == now - bucket[n] >= Window

Old(bucket, n) == now - bucket[n] > Window

\* The m oldest hits are popped: the ones before the first that is not old.
Pops(bucket, m) ==
  /\ \A n \in 1 .. m : Old(bucket, n)
  /\ m < Len(bucket) => ~ Old(bucket, m + 1)

Popped(bucket, m) == SubSeq(bucket, m + 1, Len(bucket))

\* allow() returns True.
Admit(u) ==
  /\ waiting[u] > 0
  /\ \E m \in 0 .. Len(hits[u]) :
       /\ Pops(hits[u], m)
       /\ Len(Popped(hits[u], m)) < Limit
       /\ hits' = [hits EXCEPT ![u] = Append(Popped(hits[u], m), now)]
  /\ waiting' = [waiting EXCEPT ![u] = @ - 1]
  /\ admitted' = [admitted EXCEPT ![u] = Append(@, now)]
  /\ UNCHANGED now

\* Fault: a refused request counts as a hit.
DenyAndCount(u) ==
  /\ waiting[u] > 0
  /\ \E m \in 0 .. Len(hits[u]) :
       /\ Pops(hits[u], m)
       /\ Len(Popped(hits[u], m)) >= Limit
       /\ hits' = [hits EXCEPT ![u] = Append(Popped(hits[u], m), now)]
  /\ waiting' = [waiting EXCEPT ![u] = @ - 1]
  /\ UNCHANGED <<now, admitted>>

\* allow() returns False: the question is refused, RATE_LIMITED.
Deny(u) ==
  /\ waiting[u] > 0
  /\ \E m \in 0 .. Len(hits[u]) :
       /\ Pops(hits[u], m)
       /\ Len(Popped(hits[u], m)) >= Limit
       /\ hits' = [hits EXCEPT ![u] = Popped(hits[u], m)]
  /\ waiting' = [waiting EXCEPT ![u] = @ - 1]
  /\ UNCHANGED <<now, admitted>>

Next == Tick \/ \E u \in Users : PlanQuestion(u) \/ Admit(u) \/ Deny(u)

Spec == Init /\ [][Next]_vars

-----------------------------------------------------------------------------
(* Properties.                                                             *)

TypeOK ==
  /\ now \in Nat
  /\ hits \in [Users -> Seq(Nat)] /\ \A u \in Users : Len(hits[u]) <= Limit
  /\ waiting \in [Users -> Nat]
  /\ admitted \in [Users -> Seq(Nat)]

\* No more than Limit executions of a user are let through in any window
\* (LocalRateLimiter.allow): the Limit-th one after another is out of it.
WindowRespected ==
  \A u \in Users : \A n \in DOMAIN admitted[u] :
    n + Limit \in DOMAIN admitted[u] => admitted[u][n + Limit] - admitted[u][n] > Window

\* The window from now on back is full of executions that were let through.
Full(u) ==
  LET oldest == Len(admitted[u]) + 1 - Limit IN
  /\ Len(admitted[u]) >= Limit
  /\ now - admitted[u][oldest] <= Window

Denied(u) == waiting'[u] < waiting[u] /\ UNCHANGED admitted

\* Nobody is refused unless the window is full of the executions of the same
\* user; being refused does not count (LocalRateLimiter.allow).
NoNeedlessDenial == [][\A u \in Users : Denied(u) => Full(u)]_vars

=============================================================================
