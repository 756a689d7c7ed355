-------------------------- MODULE BackgroundProofs --------------------------
(***************************************************************************)
(* What runs behind the requests, for any number of targets, schedules and *)
(* processes: the queue of rebuilds, the schedules, the migrations.  The   *)
(* properties of each are theorems of its own module's specification; the  *)
(* last section is about the three together.                               *)
(***************************************************************************)
EXTENDS MCBackground, TLAPS, FiniteSetTheorems, SequenceTheorems, WellFoundedInduction

(***************************************************************************)
(* Natural numbers: a set of them that has any member has a least one.     *)
(***************************************************************************)

LessThan == OpToRel(<, Nat)

LEMMA LessThanIsWellFounded == IsWellFoundedOn(LessThan, Nat)
  BY Zenon, NatLessThanWellFounded DEF LessThan

LEMMA HasLeast ==
  ASSUME NEW S \in SUBSET Nat, S # {}
  PROVE  \E n \in S : \A m \in S : n <= m
  <1>1. \A x, y \in Nat : x < y => <<x, y>> \in LessThan BY DEF LessThan, OpToRel
  <1>2. PICK n \in S : \A m \in S : ~ (<<m, n>> \in LessThan)
    BY LessThanIsWellFounded, WFMin
  <1>3. ASSUME NEW m \in S PROVE n <= m
    <2>1. ~ (m < n) BY <1>1, <1>2
    <2>2. m \in Nat /\ n \in Nat OBVIOUS
    <2> QED BY <2>1, <2>2
  <1> QED BY <1>3

(***************************************************************************)
(* RebuildQueue: its types.  Jobs are only ever added, so that an id stays *)
(* one.                                                                    *)
(***************************************************************************)

USE RebuildQueueAssumption

Builds(n) == {Nothing} \cup [id : 1 .. n, changed : SUBSET Targets]

LEMMA QueueInitTypes == Init => TypeOK
  <1> SUFFICES ASSUME Init PROVE TypeOK OBVIOUS
  <1>1. \A S : <<>> \in Seq(S) BY EmptySeq
  <1>2. Len(<<>>) = 0 OBVIOUS
  <1>3. jobs \in Seq(Jobs) /\ history \in Seq(JobIds) /\ queue \in Seq(JobIds) BY <1>1 DEF Init
  <1>4. Len(jobs) <= MaxJobs /\ Len(history) <= HistoryLimit BY <1>2 DEF Init
  <1>5. executing \in [Drainers -> {Nothing} \cup [id : JobIds, changed : SUBSET Targets]]
    BY DEF Init
  <1>6. active \in BOOLEAN /\ stale \subseteq Targets /\ answer \in {Nothing} \cup Answers BY DEF Init
  <1>7. changes \in 0 .. MaxChanges /\ stops \in 0 .. MaxStops BY DEF Init
  <1> QED BY <1>3, <1>4, <1>5, <1>6, <1>7 DEF TypeOK

(* What TypeOK says, in the terms the steps below use.                     *)
LEMMA QueueTypes ==
  ASSUME TypeOK
  PROVE  /\ jobs \in Seq(Jobs) /\ Len(jobs) \in Nat /\ DOMAIN jobs = JobIds
         /\ JobIds \subseteq Nat
         /\ history \in Seq(JobIds) /\ Len(history) \in Nat
         /\ DOMAIN history = 1 .. Len(history)
         /\ \A i \in DOMAIN history : history[i] \in JobIds
         /\ queue \in Seq(JobIds) /\ Len(queue) \in Nat /\ DOMAIN queue = 1 .. Len(queue)
         /\ \A i \in DOMAIN queue : queue[i] \in JobIds
         /\ \A d \in Drainers : executing[d] # Nothing =>
              executing[d].id \in JobIds /\ executing[d].changed \in SUBSET Targets
         /\ \A id \in JobIds : jobs[id] \in Jobs /\ jobs[id].target \in Targets
  <1>1. /\ jobs \in Seq(Jobs) /\ history \in Seq(JobIds) /\ queue \in Seq(JobIds) BY DEF TypeOK
  <1>2. Len(jobs) \in Nat /\ DOMAIN jobs = JobIds /\ JobIds \subseteq Nat BY <1>1 DEF JobIds
  <1>3. \A d \in Drainers : executing[d] # Nothing =>
          executing[d].id \in JobIds /\ executing[d].changed \in SUBSET Targets
    BY DEF TypeOK
  <1>4. \A id \in JobIds : jobs[id] \in Jobs BY <1>1, <1>2
  <1>5. \A j \in Jobs : j.target \in Targets BY DEF Jobs
  <1> QED BY <1>1, <1>2, <1>3, <1>4, <1>5

(* Trim keeps the last entries, as many as the history holds.              *)
LEMMA TrimShape ==
  ASSUME NEW S, NEW ids \in Seq(S)
  PROVE  /\ Trim(ids) \in Seq(S) /\ Len(ids) \in Nat
         /\ Len(Trim(ids)) = IF Len(ids) > HistoryLimit THEN HistoryLimit ELSE Len(ids)
         /\ \A i \in 1 .. Len(Trim(ids)) : Trim(ids)[i] = ids[Len(ids) - Len(Trim(ids)) + i]
  <1>1. Len(ids) \in Nat OBVIOUS
  <1>2. CASE Len(ids) > HistoryLimit
    <2> DEFINE m == Len(ids) - HistoryLimit + 1
    <2>1. m \in Int /\ Len(ids) \in Int /\ m <= Len(ids) /\ Len(ids) - m + 1 = HistoryLimit
          /\ 1 <= m
      BY <1>1, <1>2
    <2>2. \A i \in m .. Len(ids) : ids[i] \in S BY <1>1, <2>1
    <2>3. Trim(ids) = SubSeq(ids, m, Len(ids)) BY <1>2 DEF Trim
    <2> HIDE DEF m
    <2>4. /\ Trim(ids) \in Seq(S) /\ Len(Trim(ids)) = HistoryLimit
          /\ \A i \in 1 .. HistoryLimit : Trim(ids)[i] = ids[m + i - 1]
      BY <2>1, <2>2, <2>3, SubSeqProperties
    <2>5. \A i \in 1 .. HistoryLimit : m + i - 1 = Len(ids) - HistoryLimit + i BY <1>1 DEF m
    <2> QED BY <1>1, <1>2, <2>4, <2>5
  <1>3. CASE ~ (Len(ids) > HistoryLimit)
    <2>1. Trim(ids) = ids BY <1>3 DEF Trim
    <2>2. \A i \in 1 .. Len(ids) : Len(ids) - Len(ids) + i = i BY <1>1
    <2> QED BY <1>1, <1>3, <2>1, <2>2
  <1> QED BY <1>2, <1>3

(* A new job of t.                                                         *)
NewJob(t) ==
  /\ Unfinished(t) = {} /\ Len(jobs) + 1 <= MaxJobs
  /\ jobs' = Append(jobs, [target |-> t, state |-> "queued"])
  /\ history' = Trim(Append(history, Len(jobs) + 1))
  /\ queue' = Append(queue, Len(jobs) + 1)

LEMMA NewJobShape ==
  ASSUME TypeOK, NEW t \in Targets, NewJob(t)
  PROVE  /\ jobs' \in Seq(Jobs) /\ Len(jobs') = Len(jobs) + 1
         /\ \A id \in JobIds : jobs'[id] = jobs[id]
         /\ jobs'[Len(jobs) + 1] = [target |-> t, state |-> "queued"]
         /\ JobIds' = JobIds \cup {Len(jobs) + 1}
         /\ queue' \in Seq(JobIds') /\ Len(queue') = Len(queue) + 1
         /\ \A i \in 1 .. Len(queue) : queue'[i] = queue[i]
         /\ queue'[Len(queue) + 1] = Len(jobs) + 1
         /\ history' \in Seq(JobIds') /\ Len(history') <= HistoryLimit
         /\ Len(history') = IF Len(history) + 1 > HistoryLimit THEN HistoryLimit
                            ELSE Len(history) + 1
         /\ \A i \in 1 .. Len(history') :
              LET k == Len(history) + 1 - Len(history') + i IN
              history'[i] = IF k = Len(history) + 1 THEN Len(jobs) + 1 ELSE history[k]
  <1> DEFINE job == [target |-> t, state |-> "queued"]
             n == Len(jobs) + 1
  <1>1. job \in Jobs BY DEF Jobs
  <1>2. /\ jobs \in Seq(Jobs) /\ Len(jobs) \in Nat /\ DOMAIN jobs = JobIds
        /\ history \in Seq(JobIds) /\ Len(history) \in Nat
        /\ queue \in Seq(JobIds) /\ Len(queue) \in Nat
    BY QueueTypes
  <1>3. /\ jobs' = Append(jobs, job) /\ history' = Trim(Append(history, n))
        /\ queue' = Append(queue, n)
    BY DEF NewJob
  <1> HIDE DEF job
  <1>4. /\ jobs' \in Seq(Jobs) /\ Len(jobs') = Len(jobs) + 1
        /\ \A id \in 1 .. Len(jobs) : jobs'[id] = jobs[id]
        /\ jobs'[Len(jobs) + 1] = job
    BY <1>1, <1>2, <1>3, AppendProperties
  <1>5. JobIds' = JobIds \cup {n} /\ n \in JobIds' /\ JobIds \subseteq JobIds'
    BY <1>2, <1>4 DEF JobIds
  <1>6. history \in Seq(JobIds') /\ queue \in Seq(JobIds') BY <1>2, <1>5, SeqMonotonic
  <1> HIDE DEF n
  <1>7. /\ queue' \in Seq(JobIds') /\ Len(queue') = Len(queue) + 1
        /\ \A i \in 1 .. Len(queue) : queue'[i] = queue[i]
        /\ queue'[Len(queue) + 1] = n
    BY <1>3, <1>5, <1>6, AppendProperties
  <1> DEFINE h == Append(history, n)
  <1>8. /\ h \in Seq(JobIds') /\ Len(h) = Len(history) + 1
        /\ \A i \in 1 .. Len(history) : h[i] = history[i]
        /\ h[Len(history) + 1] = n
    BY <1>5, <1>6, AppendProperties
  <1>9. history' = Trim(h) BY <1>3
  <1> HIDE DEF h
  <1>10. /\ history' \in Seq(JobIds')
         /\ Len(history') = IF Len(h) > HistoryLimit THEN HistoryLimit ELSE Len(h)
         /\ \A i \in 1 .. Len(history') : history'[i] = h[Len(h) - Len(history') + i]
    BY <1>8, <1>9, TrimShape
  <1>11. Len(history') \in Nat /\ Len(history') <= HistoryLimit /\ Len(history') <= Len(history) + 1
    BY <1>2, <1>8, <1>10
  <1>12. ASSUME NEW i \in 1 .. Len(history')
         PROVE  LET k == Len(history) + 1 - Len(history') + i IN
                history'[i] = IF k = Len(history) + 1 THEN n ELSE history[k]
    <2> DEFINE k == Len(history) + 1 - Len(history') + i
    <2>1. k \in 1 .. Len(history) + 1 BY <1>2, <1>11
    <2>2. history'[i] = h[k]
      <3>1. Len(h) - Len(history') + i = k BY <1>8
      <3> QED BY <1>10, <3>1
    <2>3. k # Len(history) + 1 => k \in 1 .. Len(history) BY <1>2, <2>1
    <2> QED BY <1>8, <2>2, <2>3
  <1> QED BY <1>4, <1>5, <1>7, <1>8, <1>10, <1>11, <1>12 DEF JobIds, job, n

LEMMA NewJobTypes ==
  ASSUME TypeOK, NEW t \in Targets, NewJob(t), answer' \in {Nothing} \cup Answers,
         UNCHANGED <<active, executing, stale, changes, stops>>
  PROVE  TypeOK'
  <1>1. JobIds \subseteq JobIds' BY NewJobShape
  <1>2. executing' \in [Drainers -> {Nothing} \cup [id : JobIds', changed : SUBSET Targets]]
    BY <1>1 DEF TypeOK
  <1>3. Len(jobs') <= MaxJobs BY NewJobShape DEF NewJob
  <1> QED BY <1>2, <1>3, NewJobShape DEF TypeOK

(* The oldest of some remembered jobs is one of them.                      *)
LEMMA OldestIsOne ==
  ASSUME TypeOK, NEW S \in SUBSET DOMAIN history, S # {}
  PROVE  \E i \in S : Oldest(S) = history[i]
  <1>1. S \in SUBSET Nat BY QueueTypes
  <1>2. \E i \in S : \A j \in S : i <= j BY <1>1, HasLeast
  <1> QED BY <1>2 DEF Oldest

(* A request either changes the answer alone or makes a job.               *)
LEMMA RequestCases ==
  ASSUME TypeOK, NEW t \in Targets, RequestRebuild(t)
  PROVE  /\ answer' \in Answers /\ UNCHANGED <<active, executing, stale, changes, stops>>
         /\ UNCHANGED <<jobs, history, queue>> \/ NewJob(t)
  <1>0. UNCHANGED <<active, executing, stale, changes, stops>> BY DEF RequestRebuild
  <1>1. CASE Unfinished(t) # {}
    <2>1. Unfinished(t) \in SUBSET DOMAIN history BY DEF Unfinished
    <2>2. Oldest(Unfinished(t)) \in Nat
      <3>1. PICK i \in Unfinished(t) : Oldest(Unfinished(t)) = history[i]
        BY <1>1, <2>1, OldestIsOne
      <3> QED BY <2>1, <3>1, QueueTypes
    <2>3. /\ answer' = [target |-> t, job |-> Oldest(Unfinished(t))]
          /\ UNCHANGED <<jobs, history, queue>>
      BY <1>1 DEF RequestRebuild, Enqueue, EnqueueUnless
    <2> QED BY <1>0, <2>2, <2>3 DEF Answers
  <1>2. CASE Unfinished(t) = {}
    <2>1. NewJob(t) /\ answer' = [target |-> t, job |-> Len(jobs) + 1]
      BY <1>2 DEF RequestRebuild, Enqueue, EnqueueUnless, NewJob
    <2>2. Len(jobs) + 1 \in Nat BY QueueTypes
    <2> QED BY <1>0, <2>1, <2>2 DEF Answers
  <1> QED BY <1>1, <1>2

LEMMA TakeShape ==
  ASSUME TypeOK, NEW d \in Drainers, Take(d)
  PROVE  /\ queue # <<>> /\ Head(queue) = queue[1] /\ queue[1] \in JobIds
         /\ Len(queue) >= 1
         /\ queue' \in Seq(JobIds) /\ Len(queue') = Len(queue) - 1
         /\ \A i \in 1 .. Len(queue') : queue'[i] = queue[i + 1]
         /\ jobs' \in Seq(Jobs) /\ Len(jobs') = Len(jobs) /\ JobIds' = JobIds
         /\ \A id \in JobIds : jobs'[id] =
              IF id = queue[1] THEN [jobs[id] EXCEPT !.state = "running"] ELSE jobs[id]
         /\ executing' = [executing EXCEPT ![d] = [id |-> queue[1], changed |-> {}]]
  <1>1. queue # <<>> /\ queue \in Seq(JobIds) /\ jobs \in Seq(Jobs) /\ DOMAIN jobs = JobIds
        /\ JobIds = 1 .. Len(jobs) /\ Len(jobs) \in Nat
    BY QueueTypes DEF Take, JobIds
  <1>2. /\ Head(queue) = queue[1] /\ Head(queue) \in JobIds /\ Tail(queue) \in Seq(JobIds)
        /\ Len(Tail(queue)) = Len(queue) - 1 /\ Len(queue) \in Nat \ {0}
        /\ \A i \in 1 .. Len(Tail(queue)) : Tail(queue)[i] = queue[i + 1]
    BY <1>1, HeadTailProperties, EmptySeq
  <1> DEFINE job == [jobs[queue[1]] EXCEPT !.state = "running"]
  <1>3. jobs[queue[1]] \in Jobs BY <1>1, <1>2
  <1>4. job \in Jobs BY <1>3 DEF Jobs
  <1>5. jobs' = [jobs EXCEPT ![queue[1]] = job] BY <1>1, <1>2 DEF Take
  <1> HIDE DEF job
  <1>6. /\ jobs' \in Seq(Jobs) /\ Len(jobs') = Len(jobs)
        /\ \A id \in 1 .. Len(jobs) : jobs'[id] = IF id = queue[1] THEN job ELSE jobs[id]
    BY <1>1, <1>2, <1>4, <1>5, ExceptSeq
  <1>7. JobIds' = JobIds BY <1>6 DEF JobIds
  <1>8. \A id \in JobIds : jobs'[id] =
          IF id = queue[1] THEN [jobs[id] EXCEPT !.state = "running"] ELSE jobs[id]
    BY <1>1, <1>6 DEF job
  <1>9. queue' = Tail(queue) /\ executing' = [executing EXCEPT ![d] = [id |-> Head(queue), changed |-> {}]]
    BY DEF Take
  <1>10. executing' = [executing EXCEPT ![d] = [id |-> queue[1], changed |-> {}]] BY <1>2, <1>9
  <1>11. Len(queue) >= 1 /\ \A i \in 1 .. Len(queue') : queue'[i] = queue[i + 1] BY <1>2, <1>9
  <1> QED BY <1>1, <1>2, <1>6, <1>7, <1>8, <1>9, <1>10, <1>11

LEMMA TakeTypes == ASSUME TypeOK, NEW d \in Drainers, Take(d) PROVE TypeOK'
  <1> DEFINE Building == [id : JobIds, changed : SUBSET Targets]
             build == [id |-> queue[1], changed |-> {}]
  <1>1. /\ JobIds' = JobIds /\ queue[1] \in JobIds
        /\ executing' = [executing EXCEPT ![d] = build]
    BY TakeShape
  <1>2. build \in Building BY <1>1
  <1>3. executing \in [Drainers -> {Nothing} \cup Building] BY DEF TypeOK
  <1>4. executing' \in [Drainers -> {Nothing} \cup [id : JobIds', changed : SUBSET Targets]]
    <2> HIDE DEF build
    <2>1. executing' \in [Drainers -> {Nothing} \cup Building] BY <1>1, <1>2, <1>3
    <2> QED BY <1>1, <2>1
  <1>5. /\ jobs' \in Seq(Jobs) /\ Len(jobs') = Len(jobs)
        /\ queue' \in Seq(JobIds) /\ JobIds' = JobIds
    BY TakeShape
  <1> HIDE DEF Building, build
  <1> QED BY <1>4, <1>5 DEF TypeOK, Take

LEMMA CompleteShape ==
  ASSUME TypeOK, NEW d \in Drainers, NEW outcome \in Outcomes, Complete(d, outcome)
  PROVE  /\ executing[d] # Nothing /\ executing[d].id \in JobIds
         /\ jobs' \in Seq(Jobs) /\ Len(jobs') = Len(jobs) /\ JobIds' = JobIds
         /\ \A id \in JobIds :
              /\ jobs'[id].target = jobs[id].target
              /\ id # executing[d].id => jobs'[id] = jobs[id]
  <1>1. /\ jobs \in Seq(Jobs) /\ executing[d] # Nothing /\ executing[d].id \in JobIds
        /\ JobIds = 1 .. Len(jobs) /\ DOMAIN jobs = JobIds
    BY QueueTypes DEF Complete, JobIds
  <1> DEFINE e == executing[d].id
             job == [jobs[e] EXCEPT !.state = EndState(outcome)]
  <1>2. jobs[e] \in Jobs BY <1>1
  <1>3. EndState(outcome) \in Terminal \cup Outcomes BY DEF EndState, Terminal
  <1>4. job \in Jobs /\ job.target = jobs[e].target BY <1>2, <1>3 DEF Jobs
  <1>5. jobs' = [jobs EXCEPT ![e] = job] BY <1>1 DEF Complete
  <1> HIDE DEF e, job
  <1>6. e \in 1 .. Len(jobs) BY <1>1 DEF e
  <1>7. /\ jobs' \in Seq(Jobs) /\ Len(jobs') = Len(jobs)
        /\ \A id \in 1 .. Len(jobs) : jobs'[id] = IF id = e THEN job ELSE jobs[id]
    BY <1>1, <1>4, <1>5, <1>6, ExceptSeq
  <1>8. JobIds' = JobIds BY <1>7 DEF JobIds
  <1> QED BY <1>1, <1>4, <1>7, <1>8 DEF e

LEMMA CompleteTypes ==
  ASSUME TypeOK, NEW d \in Drainers, NEW outcome \in Outcomes, Complete(d, outcome)
  PROVE  TypeOK'
  <1>1. executing' \in [Drainers -> {Nothing} \cup [id : JobIds, changed : SUBSET Targets]]
    BY DEF TypeOK, Complete
  <1>2. stale' \subseteq Targets BY DEF TypeOK, Complete
  <1> QED BY <1>1, <1>2, CompleteShape DEF TypeOK, Complete

LEMMA StartTypes ==
  ASSUME TypeOK, Start
  PROVE  TypeOK' /\ UNCHANGED <<jobs, history, queue, executing>>
  <1>1. UNCHANGED <<jobs, history, queue, executing>> /\ JobIds' = JobIds BY DEF Start, JobIds
  <1>2. active' \in BOOLEAN /\ UNCHANGED <<stale, changes, stops, answer>> BY DEF Start
  <1> QED BY <1>1, <1>2 DEF TypeOK

(* A shutdown leaves nothing of what the process had in memory.            *)
Forgotten ==
  /\ jobs = <<>> /\ history = <<>> /\ queue = <<>>
  /\ executing = [d \in Drainers |-> Nothing]

LEMMA StopTypes == ASSUME TypeOK, Stop PROVE TypeOK' /\ Forgotten'
  <1>1. Forgotten' BY DEF Stop, Forgotten
  <1>2. \A S : <<>> \in Seq(S) BY EmptySeq
  <1>3. Len(<<>>) = 0 OBVIOUS
  <1>4. jobs' \in Seq(Jobs) /\ history' \in Seq(JobIds') /\ queue' \in Seq(JobIds')
    BY <1>1, <1>2 DEF Forgotten
  <1>5. Len(jobs') <= MaxJobs /\ Len(history') <= HistoryLimit BY <1>1, <1>3 DEF Forgotten
  <1>6. executing' \in [Drainers -> {Nothing} \cup [id : JobIds', changed : SUBSET Targets]]
    BY <1>1 DEF Forgotten
  <1>7. stops' \in 0 .. MaxStops
    <2>1. stops < MaxStops /\ stops' = stops + 1 /\ stops \in 0 .. MaxStops BY DEF TypeOK, Stop
    <2> QED BY <2>1
  <1>8. active' \in BOOLEAN /\ answer' = Nothing /\ UNCHANGED <<stale, changes>> BY DEF Stop
  <1> QED BY <1>1, <1>4, <1>5, <1>6, <1>7, <1>8 DEF TypeOK

LEMMA ChangeTypes ==
  ASSUME TypeOK, NEW c \in Connections, Change(c)
  PROVE  /\ TypeOK' /\ UNCHANGED <<jobs, history, queue>>
         /\ \A d \in Drainers : executing'[d] # Nothing =>
              executing[d] # Nothing /\ executing'[d].id = executing[d].id
  <1> DEFINE affected == {t \in Targets : t.connection = c}
             B == [id : JobIds, changed : SUBSET Targets]
  <1>1. UNCHANGED <<jobs, history, queue, active, stops>> /\ JobIds' = JobIds BY DEF Change, JobIds
  <1>2. executing' = [d \in Drainers |-> IF executing[d] = Nothing THEN Nothing
          ELSE [executing[d] EXCEPT !.changed = @ \cup affected]]
    BY DEF Change
  <1>3. ASSUME NEW d \in Drainers, executing[d] # Nothing
        PROVE  /\ executing'[d] \in B /\ executing'[d].id = executing[d].id
    <2>1. executing[d] \in B BY <1>3 DEF TypeOK
    <2>2. executing'[d] = [executing[d] EXCEPT !.changed = @ \cup affected] BY <1>2, <1>3
    <2> QED BY <2>1, <2>2
  <1>4. executing' \in [Drainers -> {Nothing} \cup B] BY <1>2, <1>3
  <1>5. /\ stale' \subseteq Targets /\ changes' \in 0 .. MaxChanges
        /\ answer' \in {Nothing} \cup Answers
    BY DEF TypeOK, Change
  <1>6. TypeOK' BY <1>1, <1>4, <1>5 DEF TypeOK
  <1> QED BY <1>1, <1>2, <1>3, <1>6

LEMMA QueueNextTypes == TypeOK /\ [Next]_vars => TypeOK'
  <1> SUFFICES ASSUME TypeOK, [Next]_vars PROVE TypeOK' OBVIOUS
  <1>1. ASSUME NEW t \in Targets, RequestRebuild(t) PROVE TypeOK'
    <2>1. CASE NewJob(t) BY <1>1, <2>1, RequestCases, NewJobTypes
    <2>2. CASE UNCHANGED <<jobs, history, queue>>
      <3>1. JobIds' = JobIds BY <2>2 DEF JobIds
      <3> QED BY <1>1, <2>2, <3>1, RequestCases DEF TypeOK
    <2> QED BY <1>1, <2>1, <2>2, RequestCases
  <1>2. CASE UNCHANGED vars
    <2>1. JobIds' = JobIds BY <1>2 DEF vars, JobIds
    <2> QED BY <1>2, <2>1 DEF vars, TypeOK
  <1> QED BY <1>1, <1>2, TakeTypes, CompleteTypes, StartTypes, StopTypes, ChangeTypes DEF Next, Drain

(* The queue holds what it has a place for, whoever takes its jobs.        *)
THEOREM QueueTypeCorrect == Spec => []TypeOK
  BY QueueInitTypes, QueueNextTypes, PTL DEF Spec

(***************************************************************************)
(* RebuildQueue with the worker alone, which takes the jobs in the order   *)
(* of their ids: the jobs that live are the last ones, so that the oldest  *)
(* of them is forgotten last.  They are of as many targets, and there are  *)
(* no more targets than the history holds jobs.                            *)
(***************************************************************************)

\* The job taken last.
LastTaken == Len(jobs) - Len(queue)

FirstLive == IF executing[Worker] = Nothing THEN LastTaken + 1 ELSE LastTaken

LiveIds == FirstLive .. Len(jobs)

QueueInOrder ==
  /\ Len(queue) <= Len(jobs)
  /\ \A i \in 1 .. Len(queue) : queue[i] = LastTaken + i
  /\ executing[Worker] # Nothing => executing[Worker].id = LastTaken

HistoryIsLast ==
  /\ Len(history) = IF Len(jobs) <= HistoryLimit THEN Len(jobs) ELSE HistoryLimit
  /\ \A i \in 1 .. Len(history) : history[i] = Len(jobs) - Len(history) + i

LiveDiffer ==
  /\ \A id \in LiveIds : jobs[id].state \in {"queued", "running"}
  /\ \A id, other \in LiveIds : jobs[id].target = jobs[other].target => id = other
  /\ Len(jobs) - FirstLive < Len(history) \/ FirstLive > Len(jobs)

QueueInv == TypeOK /\ QueueInOrder /\ HistoryIsLast /\ LiveDiffer

LEMMA QueueInitInv == Init => QueueInv
  <1> SUFFICES ASSUME Init PROVE QueueInv OBVIOUS
  <1>1. TypeOK BY QueueInitTypes
  <1>2. Len(jobs) = 0 /\ Len(queue) = 0 /\ Len(history) = 0 /\ executing[Worker] = Nothing
    BY DEF Init
  <1>3. LastTaken = 0 /\ FirstLive = 1 /\ LiveIds = {} BY <1>2 DEF LastTaken, FirstLive, LiveIds
  <1>4. QueueInOrder BY <1>2 DEF QueueInOrder
  <1>5. HistoryIsLast BY <1>2 DEF HistoryIsLast
  <1>6. LiveDiffer BY <1>2, <1>3 DEF LiveDiffer
  <1> QED BY <1>1, <1>4, <1>5, <1>6 DEF QueueInv

LEMMA LiveShape ==
  ASSUME QueueInv
  PROVE  /\ LastTaken \in Nat /\ FirstLive \in Nat /\ FirstLive >= 1
         /\ LiveIds \subseteq JobIds
         /\ \A id \in LiveIds : id \in Nat /\ id <= Len(jobs) /\ id >= FirstLive
  <1>1. Len(jobs) \in Nat /\ Len(queue) \in Nat BY QueueTypes DEF QueueInv
  <1>2. LastTaken \in Nat BY <1>1 DEF QueueInv, QueueInOrder, LastTaken
  <1>3. executing[Worker] # Nothing => LastTaken >= 1
    <2>1. executing[Worker] # Nothing => LastTaken \in JobIds
      BY QueueTypes DEF QueueInv, QueueInOrder
    <2> QED BY <2>1, <1>1 DEF JobIds
  <1>4. FirstLive \in Nat /\ FirstLive >= 1 BY <1>2, <1>3 DEF FirstLive
  <1> QED BY <1>1, <1>2, <1>4 DEF LiveIds, JobIds

(* With the worker alone a job lives exactly if it is one of the last.     *)
LEMMA LiveAreLast ==
  ASSUME QueueInv, Drainers = {Worker}, NEW id \in JobIds, Live(id)
  PROVE  id \in LiveIds
  <1>0. TypeOK /\ QueueInOrder BY DEF QueueInv
  <1>1. /\ Len(jobs) \in Nat /\ Len(queue) \in Nat /\ DOMAIN queue = 1 .. Len(queue)
        /\ LastTaken \in Nat /\ id \in 1 .. Len(jobs)
    BY <1>0, QueueTypes, LiveShape DEF JobIds
  <1>2. FirstLive <= LastTaken + 1 /\ FirstLive \in Nat BY <1>1 DEF FirstLive
  <1>3. CASE InQueue(id)
    <2>1. PICK i \in 1 .. Len(queue) : queue[i] = id BY <1>1, <1>3 DEF InQueue
    <2>2. id = LastTaken + i BY <1>0, <2>1 DEF QueueInOrder
    <2>3. id >= FirstLive BY <1>1, <1>2, <2>1, <2>2
    <2> QED BY <1>1, <1>2, <2>3 DEF LiveIds
  <1>4. CASE IsExecuting(id)
    <2>1. executing[Worker] # Nothing /\ executing[Worker].id = id BY <1>4 DEF IsExecuting
    <2>2. id = LastTaken /\ FirstLive = LastTaken BY <1>0, <2>1 DEF QueueInOrder, FirstLive
    <2> QED BY <1>1, <2>2 DEF LiveIds
  <1> QED BY <1>3, <1>4 DEF Live

(* A job that lives is where the history says.                             *)
LEMMA LiveAreRemembered ==
  ASSUME QueueInv, NEW id \in LiveIds
  PROVE  \E i \in DOMAIN history : history[i] = id
  <1> DEFINE i == id - (Len(jobs) - Len(history))
  <1>1. /\ Len(jobs) \in Nat /\ Len(history) \in Nat /\ DOMAIN history = 1 .. Len(history)
    BY QueueTypes DEF QueueInv
  <1>2. id \in Nat /\ id <= Len(jobs) /\ id >= FirstLive /\ FirstLive \in Nat BY LiveShape
  <1>3. Len(jobs) - FirstLive < Len(history) BY <1>1, <1>2 DEF QueueInv, LiveDiffer
  <1>4. i \in 1 .. Len(history) /\ Len(jobs) - Len(history) + i = id BY <1>1, <1>2, <1>3
  <1>5. history[i] = id BY <1>4 DEF QueueInv, HistoryIsLast
  <1> QED BY <1>1, <1>4, <1>5

(* As many jobs as have different targets: no more than there are targets. *)
LEMMA NoMoreThanTargets ==
  ASSUME NEW a \in Nat, NEW b \in Nat, NEW f \in [a .. b -> Targets],
         IsFiniteSet(Targets), a <= b,
         \A n, m \in a .. b : f[n] = f[m] => n = m
  PROVE  b - a + 1 <= Cardinality(Targets)
  <1> SUFFICES ASSUME ~ (b - a + 1 <= Cardinality(Targets)) PROVE FALSE OBVIOUS
  <1>1. IsFiniteSet(a .. b) /\ Cardinality(a .. b) = b - a + 1 BY FS_Interval
  <1>2. Cardinality(Targets) \in Nat BY FS_CardinalityType
  <1>3. Cardinality(Targets) < Cardinality(a .. b) BY <1>1, <1>2
  <1>4. \E x, y \in a .. b : x # y /\ f[x] = f[y]
    BY ONLY <1>1, <1>3, FS_PigeonHole, IsFiniteSet(Targets), f \in [a .. b -> Targets]
  <1> QED BY <1>4

LEMMA NewJobInv ==
  ASSUME QueueInv, TypeOK', IsFiniteSet(Targets), Cardinality(Targets) <= HistoryLimit,
         NEW t \in Targets, NewJob(t), executing' = executing
  PROVE  QueueInv'
  <1> DEFINE n == Len(jobs)
             L == Len(history)
  <1>0. TypeOK /\ QueueInOrder /\ HistoryIsLast /\ LiveDiffer BY DEF QueueInv
  <1>1. /\ n \in Nat /\ L \in Nat /\ Len(queue) \in Nat
        /\ \A id \in 1 .. n : jobs[id].target \in Targets
        /\ LastTaken \in Nat /\ FirstLive \in Nat /\ FirstLive >= 1 /\ FirstLive <= n + 1
    <2>1. LastTaken <= n BY <1>0, QueueTypes DEF LastTaken
    <2> QED BY <1>0, <2>1, QueueTypes, LiveShape DEF JobIds, FirstLive
  <1>2. Len(jobs') = n + 1 /\ Len(queue') = Len(queue) + 1 BY <1>0, NewJobShape
  <1>3. LastTaken' = LastTaken /\ FirstLive' = FirstLive /\ LiveIds' = FirstLive .. n + 1
    BY <1>1, <1>2 DEF LastTaken, FirstLive, LiveIds
  <1>4. QueueInOrder'
    <2>1. \A i \in 1 .. Len(queue') : queue'[i] = LastTaken + i
      <3> SUFFICES ASSUME NEW i \in 1 .. Len(queue) + 1 PROVE queue'[i] = LastTaken + i BY <1>2
      <3>1. CASE i = Len(queue) + 1
        <4>1. queue'[i] = n + 1 BY <1>0, <3>1, NewJobShape
        <4> QED BY <1>1, <3>1, <4>1 DEF LastTaken
      <3>2. CASE i # Len(queue) + 1
        <4>1. i \in 1 .. Len(queue) BY <1>1, <3>2
        <4>2. queue'[i] = queue[i] BY <1>0, <4>1, NewJobShape
        <4> QED BY <1>0, <4>1, <4>2 DEF QueueInOrder
      <3> QED BY <3>1, <3>2
    <2>2. Len(queue') <= Len(jobs') BY <1>0, <1>1, <1>2 DEF QueueInOrder
    <2> QED BY <1>0, <1>3, <2>1, <2>2 DEF QueueInOrder
  <1>5. Len(history') = IF L + 1 > HistoryLimit THEN HistoryLimit ELSE L + 1
    BY <1>0, NewJobShape
  <1>6. HistoryIsLast'
    <2>1. Len(history') = IF n + 1 <= HistoryLimit THEN n + 1 ELSE HistoryLimit
      BY <1>0, <1>1, <1>5 DEF HistoryIsLast
    <2>2. ASSUME NEW i \in 1 .. Len(history') PROVE history'[i] = n + 1 - Len(history') + i
      <3> DEFINE k == L + 1 - Len(history') + i
      <3>1. Len(history') \in Nat /\ Len(history') <= L + 1 BY <1>1, <1>5
      <3>2. k \in 1 .. L + 1 BY <1>1, <3>1
      <3>3. history'[i] = IF k = L + 1 THEN n + 1 ELSE history[k] BY <1>0, NewJobShape
      <3>4. CASE k = L + 1
        <4>1. i = Len(history') BY <1>1, <3>1, <3>4
        <4> QED BY <1>1, <3>1, <3>3, <3>4, <4>1
      <3>5. CASE k # L + 1
        <4>1. k \in 1 .. L BY <1>1, <3>2, <3>5
        <4>2. history[k] = n - L + k BY <1>0, <4>1 DEF HistoryIsLast
        <4> QED BY <1>1, <3>1, <3>3, <3>5, <4>2
      <3> QED BY <3>4, <3>5
    <2>3. Len(history') = IF Len(jobs') <= HistoryLimit THEN Len(jobs') ELSE HistoryLimit
      BY <1>2, <2>1
    <2>4. \A i \in 1 .. Len(history') : history'[i] = Len(jobs') - Len(history') + i
      BY ONLY <1>2, <2>2
    <2> QED BY ONLY <2>3, <2>4 DEF HistoryIsLast
  <1>7. LiveDiffer'
    <2>1. /\ \A id \in 1 .. n : jobs'[id] = jobs[id]
          /\ jobs'[n + 1].target = t /\ jobs'[n + 1].state = "queued"
      <3>1. \A id \in JobIds : jobs'[id] = jobs[id] BY <1>0, NewJobShape
      <3>2. jobs'[Len(jobs) + 1] = [target |-> t, state |-> "queued"] BY <1>0, NewJobShape
      <3>3. jobs'[n + 1].target = t /\ jobs'[n + 1].state = "queued" BY ONLY <3>2
      <3> QED BY <3>1, <3>3 DEF JobIds
    <2>2. \A id \in LiveIds : id \in 1 .. n BY LiveShape DEF JobIds
    <2>3. ASSUME NEW id \in LiveIds PROVE jobs[id].target # t
      <3>1. PICK i \in DOMAIN history : history[i] = id BY LiveAreRemembered
      <3>2. jobs[id].state \notin Terminal BY <1>0 DEF LiveDiffer, Terminal
      <3>3. jobs[id].target = t => i \in Unfinished(t) BY <3>1, <3>2 DEF Unfinished
      <3> QED BY <3>3 DEF NewJob
    <2>4. \A id \in FirstLive .. n + 1 : id = n + 1 \/ id \in LiveIds
      BY <1>1 DEF LiveIds
    <2>5. \A id \in FirstLive .. n + 1 : jobs'[id].state \in {"queued", "running"}
      BY <1>0, <2>1, <2>2, <2>4 DEF LiveDiffer
    <2>6. \A id, other \in FirstLive .. n + 1 : jobs'[id].target = jobs'[other].target => id = other
      <3> SUFFICES ASSUME NEW id \in FirstLive .. n + 1, NEW other \in FirstLive .. n + 1,
                          jobs'[id].target = jobs'[other].target
                   PROVE  id = other
        OBVIOUS
      <3>1. CASE id = n + 1 /\ other = n + 1 BY <3>1
      <3>2. CASE id = n + 1 /\ other \in LiveIds
        <4>1. jobs'[other].target = jobs[other].target BY <2>1, <2>2, <3>2
        <4> QED BY <2>1, <2>3, <3>2, <4>1
      <3>3. CASE id \in LiveIds /\ other = n + 1
        <4>1. jobs'[id].target = jobs[id].target BY <2>1, <2>2, <3>3
        <4> QED BY <2>1, <2>3, <3>3, <4>1
      <3>4. CASE id \in LiveIds /\ other \in LiveIds
        <4>1. jobs'[id] = jobs[id] /\ jobs'[other] = jobs[other] BY <2>1, <2>2, <3>4
        <4> QED BY <1>0, <3>4, <4>1 DEF LiveDiffer
      <3> QED BY <2>4, <3>1, <3>2, <3>3, <3>4
    <2>7. n + 1 - FirstLive < Len(history')
      <3> DEFINE target == [id \in FirstLive .. n + 1 |-> jobs'[id].target]
      <3>1. target \in [FirstLive .. n + 1 -> Targets]
        <4>1. \A id \in 1 .. n : jobs'[id].target \in Targets BY <1>1, <2>1
        <4> QED BY <1>1, <2>1, <4>1
      <3>2. \A id, other \in FirstLive .. n + 1 : target[id] = target[other] => id = other
        BY <2>6
      <3>3. n + 1 \in Nat /\ FirstLive \in Nat /\ FirstLive <= n + 1 BY <1>1
      <3> HIDE DEF target, n
      <3>4. n + 1 - FirstLive + 1 <= Cardinality(Targets)
        <4> DEFINE a == FirstLive
                   b == n + 1
        <4>1. a \in Nat /\ b \in Nat /\ a <= b /\ target \in [a .. b -> Targets]
          BY <3>1, <3>3
        <4>2. \A i, j \in a .. b : target[i] = target[j] => i = j BY <3>2
        <4> HIDE DEF a, b
        <4>3. b - a + 1 <= Cardinality(Targets)
          BY ONLY <4>1, <4>2, NoMoreThanTargets, IsFiniteSet(Targets)
        <4> QED BY <1>1, <3>3, <4>3, FS_CardinalityType DEF a, b
      <3> USE DEF n
      <3>5. Cardinality(Targets) \in Nat BY FS_CardinalityType
      <3>6. n + 1 - FirstLive < HistoryLimit BY <1>1, <3>4, <3>5
      <3>7. n + 1 - FirstLive < L + 1
        BY <1>0, <1>1, <3>6 DEF HistoryIsLast
      <3> QED BY <1>1, <1>5, <3>6, <3>7
    <2>8. /\ \A id \in LiveIds' : jobs'[id].state \in {"queued", "running"}
          /\ \A id, other \in LiveIds' : jobs'[id].target = jobs'[other].target => id = other
          /\ Len(jobs') - FirstLive' < Len(history')
      <3>1. Len(jobs') - FirstLive' < Len(history') BY <1>1, <1>2, <1>3, <1>5, <2>7
      <3> QED BY ONLY <1>3, <2>5, <2>6, <3>1
    <2> QED BY ONLY <2>8 DEF LiveDiffer
  <1> QED BY <1>4, <1>6, <1>7 DEF QueueInv

(* A step after which fewer jobs live, of the same targets.                *)
LEMMA FewerLive ==
  ASSUME QueueInv, TypeOK', QueueInOrder', UNCHANGED history, Len(jobs') = Len(jobs),
         \A id \in JobIds : jobs'[id].target = jobs[id].target,
         \A id \in LiveIds' : jobs'[id].state \in {"queued", "running"},
         LiveIds' \subseteq LiveIds, FirstLive' \in Nat
  PROVE  QueueInv'
  <1>0. TypeOK /\ HistoryIsLast /\ LiveDiffer BY DEF QueueInv
  <1>1. HistoryIsLast' BY <1>0 DEF HistoryIsLast
  <1>2. LiveDiffer'
    <2>1. LiveIds \subseteq JobIds BY LiveShape
    <2>2. \A id, other \in LiveIds' : jobs'[id].target = jobs'[other].target => id = other
      BY <1>0, <2>1 DEF LiveDiffer
    <2>3. Len(jobs') - FirstLive' < Len(history') \/ FirstLive' > Len(jobs')
      <3>1. Len(jobs) \in Nat /\ Len(history) \in Nat /\ FirstLive \in Nat
        BY <1>0, QueueTypes, LiveShape
      <3>2. CASE FirstLive' > Len(jobs') BY <3>2
      <3>3. CASE ~ (FirstLive' > Len(jobs'))
        <4>1. FirstLive' \in LiveIds' BY <3>1, <3>3 DEF LiveIds
        <4>2. FirstLive' \in FirstLive .. Len(jobs) BY <4>1 DEF LiveIds
        <4> QED BY <1>0, <3>1, <4>2 DEF LiveDiffer
      <3> QED BY <3>2, <3>3
    <2> QED BY <2>2, <2>3 DEF LiveDiffer
  <1> QED BY <1>1, <1>2 DEF QueueInv

LEMMA TakeInv ==
  ASSUME QueueInv, Drainers = {Worker}, Take(Worker)
  PROVE  QueueInv'
  <1>0. TypeOK /\ QueueInOrder /\ LiveDiffer BY DEF QueueInv
  <1>1. TypeOK' BY <1>0, TakeTypes
  <1>2. /\ Len(jobs) \in Nat /\ Len(queue) \in Nat /\ Len(queue) >= 1
        /\ Len(queue') = Len(queue) - 1 /\ Len(jobs') = Len(jobs)
        /\ queue[1] = LastTaken + 1 /\ LastTaken \in Nat
        /\ executing[Worker] = Nothing
        /\ executing'[Worker] = [id |-> queue[1], changed |-> {}]
        /\ history' = history
    <2>1. /\ Len(queue) >= 1 /\ Len(queue') = Len(queue) - 1 /\ Len(jobs') = Len(jobs)
          /\ executing' = [executing EXCEPT ![Worker] = [id |-> queue[1], changed |-> {}]]
      BY <1>0, TakeShape
    <2>2. executing'[Worker] = [id |-> queue[1], changed |-> {}] BY <1>0, <2>1 DEF TypeOK
    <2>3. Len(jobs) \in Nat /\ Len(queue) \in Nat BY <1>0, QueueTypes
    <2>4. queue[1] = LastTaken + 1 BY <1>0, <2>1, <2>3 DEF QueueInOrder
    <2> QED BY <2>1, <2>2, <2>3, <2>4, LiveShape DEF Take
  <1>3. LastTaken' = LastTaken + 1 BY <1>2 DEF LastTaken
  <1>4. QueueInOrder'
    <2>1. ASSUME NEW i \in 1 .. Len(queue') PROVE queue'[i] = LastTaken' + i
      <3>1. i + 1 \in 1 .. Len(queue) BY <1>2
      <3>2. queue'[i] = queue[i + 1] BY <1>0, TakeShape
      <3>3. queue[i + 1] = LastTaken + (i + 1) BY <1>0, <3>1 DEF QueueInOrder
      <3> QED BY <1>2, <1>3, <3>2, <3>3
    <2>2. executing'[Worker].id = LastTaken' BY <1>2, <1>3
    <2>3. Len(queue') <= Len(jobs') BY <1>0, <1>2 DEF QueueInOrder
    <2> QED BY <2>1, <2>2, <2>3 DEF QueueInOrder
  <1>5. FirstLive = LastTaken + 1 /\ FirstLive' \in {LastTaken + 1, LastTaken + 2}
    BY <1>2, <1>3 DEF FirstLive
  <1>6. LiveIds' \subseteq LiveIds /\ FirstLive' \in Nat BY <1>2, <1>5 DEF LiveIds
  <1>7. \A id \in JobIds : jobs'[id].target = jobs[id].target /\
          jobs'[id].state \in {jobs[id].state, "running"}
    <2> SUFFICES ASSUME NEW id \in JobIds
                 PROVE  jobs'[id].target = jobs[id].target /\
                          jobs'[id].state \in {jobs[id].state, "running"}
      OBVIOUS
    <2>1. jobs'[id] = IF id = queue[1] THEN [jobs[id] EXCEPT !.state = "running"] ELSE jobs[id]
      BY <1>0, TakeShape
    <2>2. jobs[id] \in Jobs BY <1>0, QueueTypes
    <2> QED BY <2>1, <2>2 DEF Jobs
  <1>8. \A id \in LiveIds' : jobs'[id].state \in {"queued", "running"}
    <2>1. LiveIds \subseteq JobIds BY LiveShape
    <2> QED BY <1>0, <1>6, <1>7, <2>1 DEF LiveDiffer
  <1> QED BY <1>1, <1>2, <1>4, <1>6, <1>7, <1>8, FewerLive

LEMMA CompleteInv ==
  ASSUME QueueInv, Drainers = {Worker}, NEW outcome \in Outcomes, Complete(Worker, outcome)
  PROVE  QueueInv'
  <1>0. TypeOK /\ QueueInOrder /\ LiveDiffer BY DEF QueueInv
  <1>1. TypeOK' BY <1>0, CompleteTypes
  <1>2. /\ executing[Worker] # Nothing /\ Len(jobs') = Len(jobs)
        /\ queue' = queue /\ history' = history
        /\ executing'[Worker] = Nothing
    BY <1>0, CompleteShape DEF Complete, TypeOK
  <1>3. LastTaken' = LastTaken /\ LastTaken \in Nat BY <1>2, LiveShape DEF LastTaken
  <1>4. QueueInOrder' BY <1>0, <1>2, <1>3 DEF QueueInOrder
  <1>5. FirstLive = LastTaken /\ FirstLive' = LastTaken + 1 BY <1>2, <1>3 DEF FirstLive
  <1>6. Len(jobs) \in Nat BY <1>0, QueueTypes
  <1>7. LiveIds' \subseteq LiveIds /\ FirstLive' \in Nat /\ LastTaken \notin LiveIds'
    BY <1>2, <1>3, <1>5, <1>6 DEF LiveIds
  <1>8. \A id \in JobIds : jobs'[id].target = jobs[id].target /\
          (id # LastTaken => jobs'[id] = jobs[id])
    BY <1>0, <1>2, CompleteShape DEF QueueInOrder
  <1>9. \A id \in LiveIds' : jobs'[id].state \in {"queued", "running"}
    <2>1. LiveIds \subseteq JobIds BY LiveShape
    <2> QED BY <1>0, <1>7, <1>8, <2>1 DEF LiveDiffer
  <1> QED BY <1>1, <1>2, <1>4, <1>7, <1>8, <1>9, FewerLive

(* A step that leaves the jobs alone and may end a build.                  *)
LEMMA ExecutingLess ==
  ASSUME QueueInv, TypeOK', UNCHANGED <<jobs, history, queue>>,
         executing'[Worker] # Nothing =>
           executing[Worker] # Nothing /\ executing'[Worker].id = executing[Worker].id
  PROVE  QueueInv'
  <1>0. TypeOK /\ QueueInOrder /\ LiveDiffer BY DEF QueueInv
  <1>1. LastTaken' = LastTaken /\ LastTaken \in Nat /\ Len(jobs) \in Nat
    BY <1>0, LiveShape, QueueTypes DEF LastTaken
  <1>2. QueueInOrder' BY <1>0, <1>1 DEF QueueInOrder
  <1>3. FirstLive' \in {FirstLive, LastTaken + 1} /\ FirstLive \in {LastTaken, LastTaken + 1}
    BY <1>1 DEF FirstLive
  <1>4. FirstLive' \in Nat /\ FirstLive' >= FirstLive BY <1>1, <1>3
  <1>5. LiveIds' \subseteq LiveIds BY <1>1, <1>3, <1>4 DEF LiveIds
  <1>6. \A id \in LiveIds' : jobs'[id].state \in {"queued", "running"}
    BY <1>0, <1>5 DEF LiveDiffer
  <1> QED BY <1>2, <1>4, <1>5, <1>6, FewerLive

LEMMA QueueNextInv ==
  ASSUME Drainers = {Worker}, IsFiniteSet(Targets), Cardinality(Targets) <= HistoryLimit
  PROVE  QueueInv /\ [Next]_vars => QueueInv'
  <1> SUFFICES ASSUME QueueInv, [Next]_vars PROVE QueueInv' OBVIOUS
  <1>0. TypeOK /\ TypeOK' BY QueueNextTypes DEF QueueInv
  <1>1. ASSUME NEW t \in Targets, RequestRebuild(t) PROVE QueueInv'
    <2>1. UNCHANGED <<jobs, history, queue>> \/ NewJob(t) BY <1>0, <1>1, RequestCases
    <2>2. executing' = executing BY <1>0, <1>1, RequestCases
    <2> QED BY <1>0, <2>1, <2>2, NewJobInv, ExecutingLess
  <1>2. CASE Take(Worker) BY <1>2, TakeInv
  <1>3. CASE \E outcome \in Outcomes : Complete(Worker, outcome) BY <1>3, CompleteInv
  <1>4. CASE Start BY <1>0, <1>4, StartTypes, ExecutingLess
  <1>5. CASE \E c \in Connections : Change(c) BY <1>0, <1>5, ChangeTypes, ExecutingLess
  <1>6. CASE UNCHANGED vars BY <1>0, <1>6, ExecutingLess DEF vars
  <1>7. CASE Stop
    <2>1. Forgotten' BY <1>0, <1>7, StopTypes
    <2>2. Len(jobs)' = 0 /\ Len(queue)' = 0 /\ Len(history)' = 0 /\ executing'[Worker] = Nothing
      BY <2>1 DEF Forgotten
    <2>3. LastTaken' = 0 /\ FirstLive' = 1 /\ LiveIds' = {}
      BY <2>2 DEF LastTaken, FirstLive, LiveIds
    <2>4. QueueInOrder' BY <2>2 DEF QueueInOrder
    <2>5. HistoryIsLast' BY <2>2 DEF HistoryIsLast
    <2>6. LiveDiffer' BY <2>2, <2>3 DEF LiveDiffer
    <2> QED BY <1>0, <2>4, <2>5, <2>6 DEF QueueInv
  <1> QED BY <1>1, <1>2, <1>3, <1>4, <1>5, <1>6, <1>7 DEF Next, Drain

LEMMA QueueInvSuffices ==
  ASSUME QueueInv, Drainers = {Worker}
  PROVE  Deduplicated /\ LiveRemembered
  <1>1. \A id \in JobIds : Live(id) => id \in LiveIds BY LiveAreLast
  <1>2. Deduplicated BY <1>1 DEF Deduplicated, QueueInv, LiveDiffer
  <1>3. LiveRemembered BY <1>1, LiveAreRemembered DEF LiveRemembered
  <1> QED BY <1>2, <1>3

(* With the worker alone, and no more targets than the history holds jobs, *)
(* no target has two rebuilds waiting or under way.                        *)
THEOREM RebuildsDeduplicated ==
  ASSUME Drainers = {Worker}, IsFiniteSet(Targets), Cardinality(Targets) <= HistoryLimit
  PROVE  Spec => []Deduplicated
  <1>1. QueueInv => Deduplicated BY QueueInvSuffices
  <1>2. QueueInv /\ [Next]_vars => QueueInv' BY QueueNextInv
  <1> QED BY <1>1, <1>2, QueueInitInv, PTL DEF Spec

(* Then every rebuild that waits or is under way can be asked about.       *)
THEOREM LiveJobsRemembered ==
  ASSUME Drainers = {Worker}, IsFiniteSet(Targets), Cardinality(Targets) <= HistoryLimit
  PROVE  Spec => []LiveRemembered
  <1>1. QueueInv => LiveRemembered BY QueueInvSuffices
  <1>2. QueueInv /\ [Next]_vars => QueueInv' BY QueueNextInv
  <1> QED BY <1>1, <1>2, QueueInitInv, PTL DEF Spec

HIDE RebuildQueueAssumption

-----------------------------------------------------------------------------
(***************************************************************************)
(* Scheduler: its types.  The list of a tick holds every schedule that is  *)
(* due once, which is a list because only finitely many are ever created.  *)
(***************************************************************************)

USE SchedulerAssumption

SchedTypeInv == SchedTypeOK /\ IsFiniteSet(Rows)

LEMMA SchedInitTypes == SchedInit => SchedTypeInv
  <1> SUFFICES ASSUME SchedInit PROVE SchedTypeInv OBVIOUS
  <1>1. \A S : <<>> \in Seq(S) BY EmptySeq
  <1>2. [state |-> "on", at |-> 0, began |-> 0, due |-> <<>>] \in Tasks BY <1>1 DEF Tasks
  <1>3. task \in [Processes -> Tasks] BY <1>2 DEF SchedInit
  <1>4. runs \in [Schedules -> Seq(Runs)] BY <1>1 DEF SchedInit
  <1>5. Rows = {} BY DEF SchedInit, Rows
  <1>6. IsFiniteSet(Rows) BY <1>5, FS_EmptySet
  <1> QED BY <1>3, <1>4, <1>6 DEF SchedInit, SchedTypeOK, SchedTypeInv

LEMMA RowShape ==
  ASSUME SchedTypeOK, NEW s \in Rows
  PROVE  /\ s \in Schedules /\ schedules[s] \in Row
         /\ schedules[s].query \in Queries /\ schedules[s].interval \in Intervals
         /\ schedules[s].interval \in Nat /\ schedules[s].next \in Nat
  <1>1. s \in Schedules /\ schedules[s] \in Row BY DEF SchedTypeOK, Rows
  <1> QED BY <1>1 DEF Row

LEMMA TaskShape ==
  ASSUME SchedTypeOK, NEW p \in Processes
  PROVE  /\ task[p] \in Tasks /\ task[p].state \in {"off", "on", "ended"}
         /\ task[p].at \in Nat /\ task[p].began \in Nat /\ task[p].due \in Seq(Schedules)
         /\ Len(task[p].due) \in Nat /\ DOMAIN task[p].due = 1 .. Len(task[p].due)
  <1>1. task[p] \in Tasks BY DEF SchedTypeOK
  <1>2. task[p].due \in Seq(Schedules) BY <1>1 DEF Tasks
  <1> QED BY <1>1, <1>2 DEF Tasks

LEMMA TaskSet ==
  ASSUME SchedTypeOK, NEW p \in Processes, NEW w \in Tasks, task' = [task EXCEPT ![p] = w]
  PROVE  /\ task' \in [Processes -> Tasks] /\ task'[p] = w
         /\ \A q \in Processes \ {p} : task'[q] = task[q]
  BY DEF SchedTypeOK

(* A list of due schedules holds rows, each once.                          *)
LEMMA DueShape ==
  ASSUME SchedTypeInv, NEW due \in DueLists
  PROVE  /\ due \in Seq(Schedules)
         /\ \A i \in DOMAIN due : due[i] \in Rows /\ schedules[due[i]].next <= clock
         /\ \A i, j \in DOMAIN due : i # j => due[i] # due[j]
  <1> DEFINE n == Cardinality(Due)
  <1>1. Due \subseteq Rows /\ Rows \subseteq Schedules BY DEF Due, Rows
  <1>2. IsFiniteSet(Due) BY <1>1, FS_Subset DEF SchedTypeInv
  <1>3. n \in Nat BY <1>2, FS_CardinalityType
  <1>4. due \in [1 .. n -> Due] /\ \A i, j \in 1 .. n : i # j => due[i] # due[j]
    BY DEF DueLists, SetToSeqs
  <1> HIDE DEF n
  <1>5. DOMAIN due = 1 .. n BY <1>4
  <1>6. due \in [1 .. n -> Schedules] BY <1>1, <1>4
  <1>7. due \in Seq(Schedules) BY <1>3, <1>6, SeqDef
  <1>8. \A i \in DOMAIN due : due[i] \in Due BY <1>4, <1>5
  <1>9. \A i \in DOMAIN due : due[i] \in Rows /\ schedules[due[i]].next <= clock
    BY <1>1, <1>8 DEF Due
  <1> QED BY <1>4, <1>5, <1>7, <1>9

(* What every step of p's task leaves of it: its list the tail of what it  *)
(* was, nothing, or the list of a new tick.                                *)
LEMMA TickShape ==
  ASSUME SchedTypeInv, NEW p \in Processes, SchedTick(p)
  PROVE  \E due \in DueLists, w \in Tasks :
           w = [state |-> "on", at |-> clock, began |-> clock, due |-> due] /\ task' = [task EXCEPT ![p] = w]
  <1>1. PICK due \in DueLists :
          task' = [task EXCEPT ![p] = [state |-> "on", at |-> clock, began |-> clock, due |-> due]]
    BY DEF SchedTick
  <1>2. due \in Seq(Schedules) BY DueShape
  <1>3. [state |-> "on", at |-> clock, began |-> clock, due |-> due] \in Tasks
    BY <1>2 DEF Tasks, SchedTypeInv, SchedTypeOK
  <1> QED BY <1>1, <1>3

LEMMA EndRunShape ==
  ASSUME SchedTypeInv, NEW p \in Processes, EndRun(p)
  PROVE  LET due == task[p].due
             s == due[1]
         IN
         /\ Len(due) >= 1 /\ s \in Schedules /\ Current(p) = s
         /\ \E w \in Tasks :
              /\ w.at = task[p].at /\ w.began = clock /\ task' = [task EXCEPT ![p] = w]
              /\ Len(w.due) = Len(due) - 1
              /\ \A i \in 1 .. Len(w.due) : w.due[i] = due[i + 1]
         /\ schedules' \in [Schedules -> Row \cup {NoRow}] /\ Rows' \subseteq Rows
         /\ s \in Rows =>
              /\ schedules'[s].interval = schedules[s].interval
              /\ schedules'[s].next = task[p].at + schedules[s].interval
         /\ \A t \in Schedules \ {s} : schedules'[t] = schedules[t]
         /\ runs' = [runs EXCEPT ![s] = Append(@, [tick |-> task[p].at, began |-> task[p].began])]
         /\ UNCHANGED <<clock, saved, drawn, pending, faults>>
  <1> DEFINE due == task[p].due
             s == due[1]
             w == [task[p] EXCEPT !.due = Tail(@), !.began = clock]
             row == [schedules[s] EXCEPT !.next = task[p].at + schedules[s].interval]
  <1>0. SchedTypeOK BY DEF SchedTypeInv
  <1>1. due \in Seq(Schedules) /\ due # <<>> /\ task[p] \in Tasks /\ task[p].at \in Nat
    BY <1>0, TaskShape DEF EndRun, Running
  <1>2. /\ Head(due) = s /\ s \in Schedules /\ Tail(due) \in Seq(Schedules) /\ Len(due) >= 1
        /\ Len(Tail(due)) = Len(due) - 1
        /\ \A i \in 1 .. Len(Tail(due)) : Tail(due)[i] = due[i + 1]
    <2> HIDE DEF due
    <2>1. Len(due) \in Nat /\ Len(due) # 0 BY <1>1, EmptySeq
    <2>2. due[1] \in Schedules BY <1>1, <2>1
    <2> QED BY <1>1, <2>1, <2>2, HeadTailProperties
  <1>3. Current(p) = s BY <1>2 DEF Current
  <1>4. w \in Tasks /\ w.due = Tail(due) /\ w.at = task[p].at /\ w.began = clock
    <2>1. clock \in Nat BY <1>0 DEF SchedTypeOK
    <2> QED BY <1>1, <1>2, <2>1 DEF Tasks
  <1>5. task' = [task EXCEPT ![p] = w] BY <1>0 DEF EndRun, SchedTypeOK
  <1>6. runs' = [runs EXCEPT ![s] = Append(@, [tick |-> task[p].at, began |-> task[p].began])] /\ UNCHANGED <<clock, saved, drawn, pending, faults>>
    BY <1>3 DEF EndRun
  <1>7. schedules' = IF s \in Rows THEN [schedules EXCEPT ![s] = row] ELSE schedules
    BY <1>0, <1>3 DEF EndRun, Mark, SchedTypeOK
  <1>8. s \in Rows => /\ row \in Row /\ row.interval = schedules[s].interval
                      /\ row.next = task[p].at + schedules[s].interval
    <2> HIDE DEF s
    <2> SUFFICES ASSUME s \in Rows
                 PROVE  /\ row \in Row /\ row.interval = schedules[s].interval
                        /\ row.next = task[p].at + schedules[s].interval
      OBVIOUS
    <2>1. schedules[s] \in Row /\ schedules[s].interval \in Nat BY <1>0, RowShape
    <2> QED BY <1>1, <2>1 DEF Row
  <1> HIDE DEF w, row, s, due
  <1>9. schedules \in [Schedules -> Row \cup {NoRow}] BY <1>0 DEF SchedTypeOK
  <1>10. /\ schedules' \in [Schedules -> Row \cup {NoRow}]
         /\ s \in Rows => schedules'[s] = row
         /\ \A t \in Schedules \ {s} : schedules'[t] = schedules[t]
    BY <1>2, <1>7, <1>8, <1>9
  <1>11. Rows' \subseteq Rows BY <1>7, <1>10 DEF Rows
  <1> QED BY <1>2, <1>3, <1>4, <1>5, <1>6, <1>8, <1>10, <1>11 DEF due, s

(* An error, a stop and a start leave the list as it is or drop it.        *)
LEMMA IdleShape ==
  ASSUME SchedTypeOK, NEW p \in Processes, MarkFails(p) \/ StopTask(p) \/ StartTask(p)
  PROVE  /\ \E w \in Tasks :
              /\ w.at = task[p].at /\ w.began = task[p].began /\ w.due \in {<<>>, task[p].due}
              /\ task' = [task EXCEPT ![p] = w]
         /\ faults' \in 0 .. MaxSchedFaults
         /\ UNCHANGED <<clock, saved, schedules, drawn, pending, runs>>
  <1>1. task \in [Processes -> Tasks] BY DEF SchedTypeOK
  <1>2. faults \in 0 .. MaxSchedFaults BY DEF SchedTypeOK
  <1>3. CASE MarkFails(p)
    <2> DEFINE x == [task[p] EXCEPT !.due = <<>>]
    <2>1. x \in Tasks /\ x.at = task[p].at /\ x.began = task[p].began /\ x.due = <<>> BY TaskShape, EmptySeq DEF Tasks
    <2>2. task' = [task EXCEPT ![p] = x] BY <1>1, <1>3 DEF MarkFails
    <2>3. faults' \in 0 .. MaxSchedFaults BY <1>2, <1>3 DEF MarkFails
    <2>4. UNCHANGED <<clock, saved, schedules, drawn, pending, runs>> BY <1>3 DEF MarkFails
    <2> HIDE DEF x
    <2> QED BY <2>1, <2>2, <2>3, <2>4
  <1>4. CASE StopTask(p)
    <2> DEFINE x == [task[p] EXCEPT !.state = "off", !.due = <<>>]
    <2>1. x \in Tasks /\ x.at = task[p].at /\ x.began = task[p].began /\ x.due = <<>> BY TaskShape, EmptySeq DEF Tasks
    <2>2. task' = [task EXCEPT ![p] = x] BY <1>1, <1>4 DEF StopTask
    <2>3. faults' \in 0 .. MaxSchedFaults BY <1>2, <1>4 DEF StopTask
    <2>4. UNCHANGED <<clock, saved, schedules, drawn, pending, runs>> BY <1>4 DEF StopTask
    <2> HIDE DEF x
    <2> QED BY <2>1, <2>2, <2>3, <2>4
  <1>5. CASE StartTask(p)
    <2> DEFINE x == [task[p] EXCEPT !.state = "on"]
    <2>1. x \in Tasks /\ x.at = task[p].at /\ x.began = task[p].began /\ x.due = task[p].due BY TaskShape DEF Tasks
    <2>2. task' = [task EXCEPT ![p] = x] BY <1>1, <1>5 DEF StartTask
    <2>3. faults' \in 0 .. MaxSchedFaults BY <1>2, <1>5 DEF StartTask
    <2>4. UNCHANGED <<clock, saved, schedules, drawn, pending, runs>> BY <1>5 DEF StartTask
    <2> HIDE DEF x
    <2> QED BY <2>1, <2>2, <2>3, <2>4
  <1> QED BY <1>3, <1>4, <1>5

(* A deletion takes rows away and changes nothing that the scheduler has.  *)
Deletes ==
  \E p \in Processes :
    \/ \E q \in Queries : DeleteQuery(p, q)
    \/ \E s \in Schedules : DeleteSchedule(p, s)

LEMMA DeletesShape ==
  ASSUME SchedTypeOK, Deletes
  PROVE  /\ \A s \in Schedules : schedules'[s] \in {schedules[s], NoRow}
         /\ Rows' \subseteq Rows
         /\ schedules' \in [Schedules -> Row \cup {NoRow}]
         /\ saved' \in [Queries -> {"new", "live", "gone"}]
         /\ UNCHANGED <<clock, drawn, task, pending, runs, faults>>
  <1>1. schedules \in [Schedules -> Row \cup {NoRow}] BY DEF SchedTypeOK
  <1>2. CASE \E p \in Processes, q \in Queries : DeleteQuery(p, q)
    <2>1. PICK p \in Processes, q \in Queries : DeleteQuery(p, q) BY <1>2
    <2>2. schedules' = [s \in Schedules |->
            IF s \in Rows /\ schedules[s].query = q THEN NoRow ELSE schedules[s]]
      BY <2>1 DEF DeleteQuery
    <2>3. \A s \in Schedules : schedules'[s] \in {schedules[s], NoRow} BY <2>2
    <2>4. schedules' \in [Schedules -> Row \cup {NoRow}] BY <1>1, <2>2
    <2> QED BY <2>1, <2>3, <2>4 DEF DeleteQuery, Rows, SchedTypeOK
  <1>3. CASE \E p \in Processes, s \in Schedules : DeleteSchedule(p, s)
    <2>1. PICK p \in Processes, s \in Schedules : DeleteSchedule(p, s) BY <1>3
    <2>2. schedules' = [schedules EXCEPT ![s] = NoRow] BY <2>1 DEF DeleteSchedule
    <2> QED BY <1>1, <2>1, <2>2 DEF DeleteSchedule, Rows, SchedTypeOK
  <1> QED BY <1>2, <1>3 DEF Deletes

LEMMA InsertShape ==
  ASSUME SchedTypeOK, NEW p \in Processes, InsertSchedule(p)
  PROVE  LET s == pending[p].id IN
         /\ s \in Schedules
         /\ schedules' \in [Schedules -> Row \cup {NoRow}] /\ Rows' \subseteq Rows \cup {s}
         /\ \A t \in Schedules \ {s} : schedules'[t] = schedules[t]
         /\ pending' = [pending EXCEPT ![p] = NoRow]
         /\ UNCHANGED <<clock, saved, drawn, task, runs, faults>>
  <1> DEFINE s == pending[p].id
             row == [query |-> pending[p].query, interval |-> pending[p].interval,
                     next |-> clock + pending[p].interval]
  <1>1. pending[p] \in Requests BY DEF SchedTypeOK, InsertSchedule
  <1>2. s \in Schedules /\ pending[p].query \in Queries /\ pending[p].interval \in Intervals
    BY <1>1 DEF Requests
  <1>3. clock + pending[p].interval \in Nat
    <2>1. clock \in Nat BY DEF SchedTypeOK
    <2>2. pending[p].interval \in Nat BY <1>2
    <2> QED BY <2>1, <2>2
  <1>4. row \in Row BY <1>2, <1>3 DEF Row
  <1>5. schedules' = [schedules EXCEPT ![s] = row] BY DEF InsertSchedule
  <1>6. schedules \in [Schedules -> Row \cup {NoRow}] BY DEF SchedTypeOK
  <1> HIDE DEF s, row
  <1>7. /\ schedules' \in [Schedules -> Row \cup {NoRow}]
        /\ \A t \in Schedules \ {s} : schedules'[t] = schedules[t]
    BY <1>2, <1>4, <1>5, <1>6
  <1>8. Rows' \subseteq Rows \cup {s} BY <1>7 DEF Rows
  <1> QED BY <1>2, <1>7, <1>8 DEF InsertSchedule, s

LEMMA SchedNextTypes == SchedTypeInv /\ [SchedNext]_schedVars => SchedTypeInv'
  <1> SUFFICES ASSUME SchedTypeInv, [SchedNext]_schedVars PROVE SchedTypeInv' OBVIOUS
  <1>0. SchedTypeOK /\ IsFiniteSet(Rows) BY DEF SchedTypeInv
  <1>1. ASSUME Rows' \subseteq Rows PROVE IsFiniteSet(Rows') BY <1>0, <1>1, FS_Subset
  <1>2. ASSUME UNCHANGED schedules PROVE Rows' \subseteq Rows BY <1>2 DEF Rows
  <1>3. CASE SecondPasses
    <2>1. clock' \in Nat BY <1>0, <1>3 DEF SecondPasses, SchedTypeOK
    <2> QED BY <1>0, <1>1, <1>2, <1>3, <2>1 DEF SecondPasses, SchedTypeOK, SchedTypeInv
  <1>4. CASE \E q \in Queries : CreateQuery(q)
    BY <1>0, <1>1, <1>2, <1>4 DEF CreateQuery, SchedTypeOK, SchedTypeInv
  <1>5. CASE Deletes
    BY <1>0, <1>1, <1>5, DeletesShape DEF SchedTypeOK, SchedTypeInv
  <1>6. ASSUME NEW p \in Processes, NEW s \in Schedules, NEW q \in Queries, NEW i \in Intervals,
               CheckSchedule(p, s, q, i)
        PROVE  SchedTypeInv'
    <2>1. [id |-> s, query |-> q, interval |-> i] \in Requests BY DEF Requests
    <2>2. pending' \in [Processes -> Requests \cup {NoRow}]
      BY <1>0, <1>6, <2>1 DEF CheckSchedule, SchedTypeOK
    <2> QED BY <1>0, <1>1, <1>2, <1>6, <2>2 DEF CheckSchedule, SchedTypeOK, SchedTypeInv
  <1>7. ASSUME NEW p \in Processes, InsertSchedule(p) PROVE SchedTypeInv'
    <2>1. IsFiniteSet(Rows \cup {pending[p].id}) BY <1>0, FS_AddElement
    <2>2. IsFiniteSet(Rows') BY <1>0, <1>7, <2>1, InsertShape, FS_Subset
    <2>3. pending' \in [Processes -> Requests \cup {NoRow}]
      BY <1>0, <1>7 DEF InsertSchedule, SchedTypeOK
    <2> QED BY <1>0, <1>7, <2>2, <2>3, InsertShape DEF SchedTypeOK, SchedTypeInv
  <1>8. ASSUME NEW p \in Processes, SchedTick(p) PROVE SchedTypeInv'
    <2>1. task' \in [Processes -> Tasks] BY <1>0, <1>8, TickShape, TaskSet
    <2> QED BY <1>0, <1>1, <1>2, <1>8, <2>1 DEF SchedTick, SchedTypeOK, SchedTypeInv
  <1>9. ASSUME NEW p \in Processes, EndRun(p) PROVE SchedTypeInv'
    <2> DEFINE s == task[p].due[1]
               run == [tick |-> task[p].at, began |-> task[p].began]
    <2>1. task' \in [Processes -> Tasks] BY <1>0, <1>9, EndRunShape, TaskSet
    <2>2. runs' = [runs EXCEPT ![s] = Append(@, run)] /\ s \in Schedules
      BY <1>9, EndRunShape
    <2>3. Append(runs[s], run) \in Seq(Runs)
      <3>1. runs[s] \in Seq(Runs) /\ run \in Runs
        BY <1>0, <2>2, TaskShape DEF SchedTypeOK, Runs
      <3> QED BY <3>1, AppendProperties
    <2>4. runs' \in [Schedules -> Seq(Runs)]
      <3> HIDE DEF s, run
      <3> QED BY <1>0, <2>2, <2>3 DEF SchedTypeOK
    <2>5. schedules' \in [Schedules -> Row \cup {NoRow}] /\ Rows' \subseteq Rows
          /\ UNCHANGED <<clock, saved, drawn, pending, faults>>
      BY <1>9, EndRunShape
    <2> QED BY <1>0, <1>1, <2>1, <2>4, <2>5 DEF SchedTypeOK, SchedTypeInv
  <1>10. ASSUME NEW p \in Processes, MarkFails(p) \/ StopTask(p) \/ StartTask(p)
         PROVE  SchedTypeInv'
    <2>1. task' \in [Processes -> Tasks] BY <1>0, <1>10, IdleShape, TaskSet
    <2>2. faults' \in 0 .. MaxSchedFaults /\ UNCHANGED <<clock, saved, schedules, drawn, pending, runs>>
      BY <1>0, <1>10, IdleShape
    <2> QED BY <1>0, <1>1, <1>2, <2>1, <2>2 DEF SchedTypeOK, SchedTypeInv
  <1>11. CASE UNCHANGED schedVars
    BY <1>0, <1>1, <1>2, <1>11 DEF schedVars, SchedTypeOK, SchedTypeInv
  <1> QED BY <1>3, <1>4, <1>5, <1>6, <1>7, <1>8, <1>9, <1>10, <1>11 DEF SchedNext, Deletes

(***************************************************************************)
(* Scheduler with one process: what a tick still has to run was due when   *)
(* the tick began and has not been marked since, so that its run begins at *)
(* least an interval after the tick of its last one.                       *)
(***************************************************************************)

\* A schedule that no handler has inserted yet.
Uncreated(s) == s \notin drawn \/ \E p \in Processes : pending[p] # NoRow /\ pending[p].id = s

TicksHold == \A p \in Processes :
  /\ task[p].at <= clock /\ task[p].at <= task[p].began
  /\ \A i \in DOMAIN task[p].due :
       task[p].due[i] \in Rows => schedules[task[p].due[i]].next <= task[p].at
  /\ \A i, j \in DOMAIN task[p].due : i # j => task[p].due[i] # task[p].due[j]

NextAfterRuns == \A s \in Rows : Len(runs[s]) > 0 =>
  runs[s][Len(runs[s])].tick + schedules[s].interval <= schedules[s].next

NothingOfUncreated == \A s \in Schedules : Uncreated(s) =>
  /\ s \notin Rows /\ runs[s] = <<>>
  /\ \A p \in Processes : \A i \in DOMAIN task[p].due : task[p].due[i] # s

PendingDrawn == \A p \in Processes : pending[p] # NoRow => pending[p].id \in drawn

SchedInv ==
  /\ SchedTypeInv /\ TicksHold /\ NextAfterRuns /\ NothingOfUncreated /\ PendingDrawn
  /\ RunsSpaced

LEMMA SchedInitInv == SchedInit => SchedInv
  <1> SUFFICES ASSUME SchedInit PROVE SchedInv OBVIOUS
  <1>1. SchedTypeInv BY SchedInitTypes
  <1>2. Rows = {} /\ \A s \in Schedules : runs[s] = <<>> BY DEF SchedInit, Rows
  <1>3. \A p \in Processes : /\ task[p].at = 0 /\ task[p].began = 0 /\ task[p].due = <<>>
                             /\ pending[p] = NoRow
    BY DEF SchedInit
  <1>4. TicksHold /\ PendingDrawn BY <1>3 DEF SchedInit, TicksHold, PendingDrawn
  <1>5. NextAfterRuns /\ NothingOfUncreated BY <1>2, <1>3 DEF NextAfterRuns, NothingOfUncreated
  <1>6. RunsSpaced BY DEF RunsSpaced, SchedInit
  <1> QED BY <1>1, <1>4, <1>5, <1>6 DEF SchedInv

(* A step that marks nothing and gives no schedule that is there, or was   *)
(* drawn, another next run.                                                *)
LEMMA NothingMarked ==
  ASSUME SchedInv, SchedTypeInv', UNCHANGED runs, clock' >= clock, drawn \subseteq drawn',
         \A s \in Rows' : schedules'[s] = schedules[s] /\ s \in Rows,
         \A s \in Schedules : Uncreated(s)' => Uncreated(s),
         PendingDrawn',
         \A p \in Processes :
           /\ task'[p].at = task[p].at /\ task'[p].began = task[p].began
           /\ task'[p].due \in {<<>>, task[p].due}
  PROVE  SchedInv'
  <1>0. /\ SchedTypeOK /\ TicksHold /\ NextAfterRuns /\ NothingOfUncreated /\ RunsSpaced
    BY DEF SchedInv, SchedTypeInv
  <1>1. DOMAIN <<>> = {} OBVIOUS
  <1>2. TicksHold'
    <2> SUFFICES ASSUME NEW p \in Processes
                 PROVE  /\ task'[p].at <= clock' /\ task'[p].at <= task'[p].began
                        /\ \A i \in DOMAIN task'[p].due :
                             task'[p].due[i] \in Rows' =>
                               schedules'[task'[p].due[i]].next <= task'[p].at
                        /\ \A i, j \in DOMAIN task'[p].due : i # j =>
                             task'[p].due[i] # task'[p].due[j]
      BY DEF TicksHold
    <2>1. task[p].at \in Nat /\ clock \in Nat /\ clock' \in Nat
      BY <1>0, TaskShape DEF SchedTypeOK, SchedTypeInv
    <2>2. task'[p].at <= clock' /\ task'[p].at <= task'[p].began BY <1>0, <2>1 DEF TicksHold
    <2>3. CASE task'[p].due = <<>> BY <1>1, <2>2, <2>3
    <2>4. CASE task'[p].due = task[p].due BY <1>0, <2>2, <2>4 DEF TicksHold
    <2> QED BY <2>3, <2>4
  <1>3. NextAfterRuns' BY <1>0 DEF NextAfterRuns
  <1>4. NothingOfUncreated'
    <2> SUFFICES ASSUME NEW s \in Schedules, Uncreated(s)'
                 PROVE  /\ s \notin Rows' /\ runs'[s] = <<>>
                        /\ \A p \in Processes : \A i \in DOMAIN task'[p].due : task'[p].due[i] # s
      BY DEF NothingOfUncreated
    <2>1. Uncreated(s) OBVIOUS
    <2>2. s \notin Rows /\ runs[s] = <<>> BY <1>0, <2>1 DEF NothingOfUncreated
    <2>3. ASSUME NEW p \in Processes, NEW i \in DOMAIN task'[p].due PROVE task'[p].due[i] # s
      <3>1. task'[p].due = task[p].due BY <1>1
      <3> QED BY <1>0, <2>1, <3>1 DEF NothingOfUncreated
    <2> QED BY <2>2, <2>3
  <1>5. RunsSpaced'
    <2> SUFFICES ASSUME NEW s \in Schedules, NEW n \in 1 .. Len(runs[s]) - 1, schedules'[s] # NoRow
                 PROVE  runs[s][n + 1].began - runs[s][n].tick >= schedules'[s].interval
      BY DEF RunsSpaced
    <2>1. s \in Rows' BY DEF Rows
    <2>2. schedules'[s] = schedules[s] /\ schedules[s] # NoRow BY <2>1 DEF Rows
    <2> QED BY <1>0, <2>2 DEF RunsSpaced
  <1> QED BY <1>2, <1>3, <1>4, <1>5 DEF SchedInv

LEMMA InsertKeeps ==
  ASSUME SchedInv, SchedTypeInv', \A p, q \in Processes : p = q,
         NEW p \in Processes, InsertSchedule(p)
  PROVE  SchedInv'
  <1> DEFINE s == pending[p].id
  <1>0. /\ SchedTypeOK /\ TicksHold /\ NextAfterRuns /\ NothingOfUncreated /\ PendingDrawn
        /\ RunsSpaced /\ pending[p] # NoRow
    BY DEF SchedInv, SchedTypeInv, InsertSchedule
  <1>1. /\ s \in Schedules /\ Rows' \subseteq Rows \cup {s}
        /\ \A t \in Schedules \ {s} : schedules'[t] = schedules[t]
        /\ UNCHANGED <<clock, saved, drawn, task, runs, faults>>
        /\ pending' = [pending EXCEPT ![p] = NoRow]
    BY <1>0, InsertShape
  <1>2. \A q \in Processes : pending'[q] = NoRow BY <1>0, <1>1 DEF SchedTypeOK
  <1>3. Uncreated(s) /\ s \in drawn BY <1>0 DEF Uncreated, PendingDrawn
  <1> HIDE DEF s
  <1>4. /\ runs[s] = <<>>
        /\ \A q \in Processes : \A i \in DOMAIN task[q].due : task[q].due[i] # s
    BY <1>0, <1>1, <1>3 DEF NothingOfUncreated
  <1>5. \A t \in Rows' : t = s \/ (t \in Rows /\ schedules'[t] = schedules[t])
    BY <1>1 DEF Rows
  <1>6. TicksHold'
    <2> SUFFICES ASSUME NEW q \in Processes, NEW i \in DOMAIN task[q].due,
                        task[q].due[i] \in Rows'
                 PROVE  schedules'[task[q].due[i]].next <= task[q].at
      BY <1>0, <1>1 DEF TicksHold
    <2>1. task[q].due[i] \in Rows /\ schedules'[task[q].due[i]] = schedules[task[q].due[i]]
      BY <1>4, <1>5
    <2> QED BY <1>0, <2>1 DEF TicksHold
  <1>7. Len(runs[s]) = 0 BY <1>4
  <1>8. NextAfterRuns'
    <2> SUFFICES ASSUME NEW t \in Rows', Len(runs[t]) > 0
                 PROVE  runs[t][Len(runs[t])].tick + schedules'[t].interval <= schedules'[t].next
      BY <1>1 DEF NextAfterRuns
    <2>1. t \in Rows /\ schedules'[t] = schedules[t] BY <1>5, <1>7
    <2> QED BY <1>0, <2>1 DEF NextAfterRuns
  <1>9. NothingOfUncreated'
    <2> SUFFICES ASSUME NEW t \in Schedules, Uncreated(t)'
                 PROVE  /\ t \notin Rows' /\ runs[t] = <<>>
                        /\ \A q \in Processes : \A i \in DOMAIN task[q].due : task[q].due[i] # t
      BY <1>1 DEF NothingOfUncreated
    <2>1. t \notin drawn BY <1>1, <1>2 DEF Uncreated
    <2>2. Uncreated(t) /\ t # s BY <1>3, <2>1 DEF Uncreated
    <2> QED BY <1>0, <1>5, <2>2 DEF NothingOfUncreated
  <1>10. PendingDrawn' BY <1>2 DEF PendingDrawn
  <1>11. RunsSpaced'
    <2> SUFFICES ASSUME NEW t \in Schedules, NEW n \in 1 .. Len(runs[t]) - 1, schedules'[t] # NoRow
                 PROVE  runs[t][n + 1].began - runs[t][n].tick >= schedules'[t].interval
      BY <1>1 DEF RunsSpaced
    <2>1. t # s BY <1>7
    <2>2. schedules'[t] = schedules[t] BY <1>1, <2>1
    <2> QED BY <1>0, <2>2 DEF RunsSpaced
  <1> QED BY <1>6, <1>8, <1>9, <1>10, <1>11 DEF SchedInv

LEMMA TickKeeps ==
  ASSUME SchedInv, SchedTypeInv', NEW p \in Processes, SchedTick(p)
  PROVE  SchedInv'
  <1>0. /\ SchedTypeInv /\ SchedTypeOK /\ TicksHold /\ NextAfterRuns /\ NothingOfUncreated
        /\ PendingDrawn /\ RunsSpaced
    BY DEF SchedInv, SchedTypeInv
  <1>1. UNCHANGED <<clock, saved, schedules, drawn, pending, runs, faults>> /\ Rows' = Rows
    BY DEF SchedTick, Rows
  <1>2. PICK due \in DueLists, w \in Tasks :
          w = [state |-> "on", at |-> clock, began |-> clock, due |-> due] /\ task' = [task EXCEPT ![p] = w]
    BY <1>0, TickShape
  <1>3. /\ task'[p].at = clock /\ task'[p].began = clock /\ task'[p].due = due
        /\ \A q \in Processes \ {p} : task'[q] = task[q]
    <2>1. task'[p] = w /\ \A q \in Processes \ {p} : task'[q] = task[q] BY <1>0, <1>2, TaskSet
    <2> QED BY <1>2, <2>1
  <1>4. /\ \A i \in DOMAIN due : due[i] \in Rows /\ schedules[due[i]].next <= clock
        /\ \A i, j \in DOMAIN due : i # j => due[i] # due[j]
    BY <1>0, DueShape
  <1>5. TicksHold'
    <2> SUFFICES ASSUME NEW q \in Processes
                 PROVE  /\ task'[q].at <= clock /\ task'[q].at <= task'[q].began
                        /\ \A i \in DOMAIN task'[q].due : task'[q].due[i] \in Rows =>
                             schedules[task'[q].due[i]].next <= task'[q].at
                        /\ \A i, j \in DOMAIN task'[q].due : i # j =>
                             task'[q].due[i] # task'[q].due[j]
      BY <1>1 DEF TicksHold
    <2>1. CASE q = p BY <1>0, <1>3, <1>4, <2>1 DEF SchedTypeOK
    <2>2. CASE q # p
      <3>1. task'[q] = task[q] BY <1>3, <2>2
      <3> QED BY <1>0, <3>1 DEF TicksHold
    <2> QED BY <2>1, <2>2
  <1>6. NothingOfUncreated'
    <2> SUFFICES ASSUME NEW s \in Schedules, Uncreated(s)
                 PROVE  /\ s \notin Rows /\ runs[s] = <<>>
                        /\ \A q \in Processes : \A i \in DOMAIN task'[q].due : task'[q].due[i] # s
      BY <1>1 DEF NothingOfUncreated, Uncreated
    <2>1. s \notin Rows /\ runs[s] = <<>> BY <1>0 DEF NothingOfUncreated
    <2>2. ASSUME NEW q \in Processes, NEW i \in DOMAIN task'[q].due PROVE task'[q].due[i] # s
      <3>1. CASE q = p BY <1>3, <1>4, <2>1, <3>1
      <3>2. CASE q # p
        <4>1. task'[q] = task[q] BY <1>3, <3>2
        <4> QED BY <1>0, <4>1 DEF NothingOfUncreated
      <3> QED BY <3>1, <3>2
    <2> QED BY <2>1, <2>2
  <1>7. NextAfterRuns' /\ PendingDrawn' /\ RunsSpaced'
    BY <1>0, <1>1 DEF NextAfterRuns, PendingDrawn, RunsSpaced
  <1> QED BY <1>5, <1>6, <1>7 DEF SchedInv

(* The run that is marked began after the next run that its schedule had.  *)
LEMMA EndRunKeeps ==
  ASSUME SchedInv, SchedTypeInv', \A p, q \in Processes : p = q, NEW p \in Processes, EndRun(p)
  PROVE  SchedInv'
  <1> DEFINE due == task[p].due
             s == due[1]
             at == task[p].at
             began == task[p].began
             run == [tick |-> at, began |-> began]
  <1>0. /\ SchedTypeInv /\ SchedTypeOK /\ TicksHold /\ NextAfterRuns /\ NothingOfUncreated
        /\ PendingDrawn /\ RunsSpaced
    BY DEF SchedInv, SchedTypeInv
  <1>1. /\ Len(due) >= 1 /\ s \in Schedules /\ Rows' \subseteq Rows
        /\ s \in Rows => /\ schedules'[s].interval = schedules[s].interval
                         /\ schedules'[s].next = at + schedules[s].interval
        /\ \A t \in Schedules \ {s} : schedules'[t] = schedules[t]
        /\ runs' = [runs EXCEPT ![s] = Append(@, run)]
        /\ UNCHANGED <<clock, saved, drawn, pending, faults>>
    BY <1>0, EndRunShape
  <1>2. /\ task'[p].at = at /\ task'[p].began = clock /\ Len(task'[p].due) = Len(due) - 1
        /\ \A i \in 1 .. Len(task'[p].due) : task'[p].due[i] = due[i + 1]
    <2>1. PICK w \in Tasks : /\ w.at = at /\ w.began = clock /\ task' = [task EXCEPT ![p] = w]
                             /\ Len(w.due) = Len(due) - 1
                             /\ \A i \in 1 .. Len(w.due) : w.due[i] = due[i + 1]
      BY <1>0, EndRunShape
    <2>2. task'[p] = w BY <1>0, <2>1, TaskSet
    <2> QED BY <2>1, <2>2
  <1>3. /\ Len(due) \in Nat /\ DOMAIN due = 1 .. Len(due) /\ at \in Nat
        /\ began \in Nat /\ at <= began
        /\ DOMAIN task'[p].due = 1 .. Len(task'[p].due)
    <2>1. SchedTypeOK' BY DEF SchedTypeInv
    <2>2. task'[p].due \in Seq(Schedules)
      <3>1. task'[p] \in Tasks BY <2>1 DEF SchedTypeOK
      <3> QED BY <3>1 DEF Tasks
    <2> QED BY <1>0, <2>2, TaskShape DEF TicksHold
  <1>4. /\ runs[s] \in Seq(Runs) /\ Len(runs[s]) \in Nat
        /\ \A t \in Schedules \ {s} : runs'[t] = runs[t]
        /\ Len(runs'[s]) = Len(runs[s]) + 1
        /\ \A n \in 1 .. Len(runs[s]) : runs'[s][n] = runs[s][n]
        /\ runs'[s][Len(runs[s]) + 1] = run
    <2>0. run \in Runs BY <1>3 DEF Runs
    <2> HIDE DEF s, run
    <2>1. runs \in [Schedules -> Seq(Runs)] BY <1>0 DEF SchedTypeOK
    <2>2. runs[s] \in Seq(Runs) BY <1>1, <2>1
    <2>3. runs'[s] = Append(runs[s], run) /\ \A t \in Schedules \ {s} : runs'[t] = runs[t]
      BY <1>1, <2>1
    <2> QED BY <2>0, <2>2, <2>3, AppendProperties
  <1>5. 1 \in DOMAIN due BY <1>1, <1>3
  <1>6. s \in Rows => schedules[s].next <= at BY <1>0, <1>5 DEF TicksHold
  <1>7. \A i \in DOMAIN task'[p].due : i + 1 \in DOMAIN due /\ i + 1 # 1
    BY <1>2, <1>3
  <1>8. \A i \in DOMAIN task'[p].due : task'[p].due[i] = due[i + 1] /\ due[i + 1] # s
    BY <1>0, <1>2, <1>3, <1>5, <1>7 DEF TicksHold
  <1>9. \A i \in DOMAIN due : due[i] \in Schedules
    <2>1. due \in Seq(Schedules) BY <1>0, TaskShape
    <2> HIDE DEF due
    <2> QED BY <2>1
  <1>10. \A t \in Rows' : t \in Rows /\ (t # s => schedules'[t] = schedules[t])
    BY <1>1 DEF Rows
  <1> HIDE DEF s, at, began
  <1>11. TicksHold'
    <2> SUFFICES /\ task'[p].at <= clock /\ task'[p].at <= task'[p].began
                 /\ \A i \in DOMAIN task'[p].due : task'[p].due[i] \in Rows' =>
                      schedules'[task'[p].due[i]].next <= task'[p].at
                 /\ \A i, j \in DOMAIN task'[p].due : i # j =>
                      task'[p].due[i] # task'[p].due[j]
      BY <1>1 DEF TicksHold
    <2>1. task'[p].at <= clock /\ task'[p].at <= task'[p].began
      BY <1>0, <1>2 DEF TicksHold, at
    <2>2. ASSUME NEW i \in DOMAIN task'[p].due, task'[p].due[i] \in Rows'
          PROVE  schedules'[task'[p].due[i]].next <= task'[p].at
      <3>1. task'[p].due[i] = due[i + 1] /\ due[i + 1] # s /\ due[i + 1] \in Rows
        BY <1>8, <1>10, <2>2
      <3>2. schedules'[due[i + 1]] = schedules[due[i + 1]] BY <1>10, <2>2, <3>1
      <3>3. i + 1 \in DOMAIN due BY <1>7
      <3>4. schedules[due[i + 1]].next <= task[p].at BY <1>0, <3>1, <3>3 DEF TicksHold
      <3> QED BY <1>2, <3>1, <3>2, <3>4 DEF at
    <2>3. ASSUME NEW i \in DOMAIN task'[p].due, NEW j \in DOMAIN task'[p].due, i # j
          PROVE  task'[p].due[i] # task'[p].due[j]
      <3>1. i + 1 \in DOMAIN due /\ j + 1 \in DOMAIN due /\ i + 1 # j + 1
        BY <1>3, <1>7, <2>3
      <3>2. due[i + 1] # due[j + 1] BY <1>0, <3>1 DEF TicksHold
      <3> QED BY <1>8, <3>2
    <2> QED BY <2>1, <2>2, <2>3
  <1>12. NextAfterRuns'
    <2> SUFFICES ASSUME NEW t \in Rows', Len(runs'[t]) > 0
                 PROVE  runs'[t][Len(runs'[t])].tick + schedules'[t].interval <= schedules'[t].next
      BY DEF NextAfterRuns
    <2>1. CASE t = s
      <3>1. s \in Rows BY <1>10, <2>1
      <3>2. schedules[s].interval \in Nat BY <1>0, <3>1, RowShape
      <3>3. runs'[s][Len(runs'[s])].tick = at BY <1>4
      <3> QED BY <1>1, <1>3, <2>1, <3>1, <3>2, <3>3
    <2>2. CASE t # s
      <3>1. t \in Rows /\ schedules'[t] = schedules[t] /\ runs'[t] = runs[t]
        BY <1>4, <1>10, <2>2 DEF Rows
      <3> QED BY <1>0, <3>1 DEF NextAfterRuns
    <2> QED BY <2>1, <2>2
  <1>13. NothingOfUncreated'
    <2> SUFFICES ASSUME NEW t \in Schedules, Uncreated(t)
                 PROVE  /\ t \notin Rows' /\ runs'[t] = <<>>
                        /\ \A i \in DOMAIN task'[p].due : task'[p].due[i] # t
      BY <1>1 DEF NothingOfUncreated, Uncreated
    <2>1. t \notin Rows /\ runs[t] = <<>> /\ \A i \in DOMAIN due : due[i] # t
      BY <1>0 DEF NothingOfUncreated
    <2>2. t # s BY <1>5, <2>1 DEF s
    <2>3. runs'[t] = runs[t] BY <1>4, <2>2
    <2>4. \A i \in DOMAIN task'[p].due : task'[p].due[i] # t BY <1>7, <1>8, <2>1
    <2> QED BY <1>10, <2>1, <2>3, <2>4
  <1>14. RunsSpaced'
    <2> SUFFICES ASSUME NEW t \in Schedules, NEW n \in 1 .. Len(runs'[t]) - 1, schedules'[t] # NoRow
                 PROVE  runs'[t][n + 1].began - runs'[t][n].tick >= schedules'[t].interval
      BY DEF RunsSpaced
    <2>0. t \in Rows' BY DEF Rows
    <2>1. CASE t # s
      <3>1. runs'[t] = runs[t] /\ schedules'[t] = schedules[t] /\ schedules[t] # NoRow
        BY <1>1, <1>4, <2>1
      <3> QED BY <1>0, <3>1 DEF RunsSpaced
    <2>2. CASE t = s
      <3>1. s \in Rows /\ schedules[s] # NoRow /\ schedules'[s].interval = schedules[s].interval
        BY <1>1, <1>10, <2>0, <2>2 DEF Rows
      <3>2. n \in 1 .. Len(runs[s]) BY <1>4, <2>2
      <3>3. CASE n = Len(runs[s])
        <4>1. runs'[s][n + 1].began = began /\ runs'[s][n] = runs[s][n] BY <1>4, <3>2, <3>3
        <4>2. runs[s][n].tick + schedules[s].interval <= schedules[s].next
          BY <1>0, <3>1, <3>2, <3>3 DEF NextAfterRuns
        <4>3. runs[s][n].tick \in Nat /\ schedules[s].interval \in Nat /\ schedules[s].next \in Nat
          <5>1. runs[s][n] \in Runs BY <1>4, <3>2
          <5> QED BY <1>0, <3>1, <5>1, RowShape DEF Runs
        <4>4. schedules[s].next <= at BY <1>6, <3>1
        <4>5. began - runs[s][n].tick >= schedules[s].interval
          BY <1>3, <4>2, <4>3, <4>4 DEF at, began
        <4> QED BY <2>2, <3>1, <4>1, <4>5
      <3>4. CASE n # Len(runs[s])
        <4>1. n \in 1 .. Len(runs[s]) - 1 /\ n + 1 \in 1 .. Len(runs[s]) BY <1>4, <3>2, <3>4
        <4>2. runs'[s][n + 1] = runs[s][n + 1] /\ runs'[s][n] = runs[s][n] BY <1>4, <3>2, <4>1
        <4> QED BY <1>0, <1>1, <2>2, <3>1, <4>1, <4>2 DEF RunsSpaced
      <3> QED BY <3>3, <3>4
    <2> QED BY <2>1, <2>2
  <1>15. PendingDrawn' BY <1>0, <1>1 DEF PendingDrawn
  <1> QED BY <1>11, <1>12, <1>13, <1>14, <1>15 DEF SchedInv

LEMMA SchedNextInv ==
  ASSUME \A p, q \in Processes : p = q
  PROVE  SchedInv /\ [SchedNext]_schedVars => SchedInv'
  <1> SUFFICES ASSUME SchedInv, [SchedNext]_schedVars PROVE SchedInv' OBVIOUS
  <1>0. /\ SchedTypeInv /\ SchedTypeOK /\ TicksHold /\ NothingOfUncreated /\ PendingDrawn
        /\ SchedTypeInv'
    BY SchedNextTypes DEF SchedInv, SchedTypeInv
  <1>1. clock \in Nat /\ \A s \in Rows : s \in Schedules BY <1>0 DEF SchedTypeOK, Rows
  <1>2. ASSUME UNCHANGED schedules PROVE \A s \in Rows' : schedules'[s] = schedules[s] /\ s \in Rows
    BY <1>2 DEF Rows
  <1>3. ASSUME UNCHANGED <<drawn, pending>>
        PROVE  PendingDrawn' /\ \A s \in Schedules : Uncreated(s)' => Uncreated(s)
    BY <1>0, <1>3 DEF PendingDrawn, Uncreated
  <1>4. CASE SecondPasses
    <2>1. clock' >= clock BY <1>1, <1>4 DEF SecondPasses
    <2> QED BY <1>0, <1>2, <1>3, <1>4, <2>1, NothingMarked DEF SecondPasses
  <1>5. CASE \E q \in Queries : CreateQuery(q)
    BY <1>0, <1>1, <1>2, <1>3, <1>5, NothingMarked DEF CreateQuery
  <1>6. CASE Deletes
    <2>1. \A s \in Rows' : schedules'[s] = schedules[s] /\ s \in Rows
      BY <1>0, <1>6, DeletesShape DEF Rows
    <2> QED BY <1>0, <1>1, <1>3, <1>6, <2>1, DeletesShape, NothingMarked
  <1>7. ASSUME NEW p \in Processes, NEW s \in Schedules, NEW q \in Queries, NEW i \in Intervals,
               CheckSchedule(p, s, q, i)
        PROVE  SchedInv'
    <2> DEFINE r == [id |-> s, query |-> q, interval |-> i]
    <2>1. /\ s \notin drawn /\ drawn' = drawn \cup {s} /\ pending' = [pending EXCEPT ![p] = r]
          /\ UNCHANGED <<clock, saved, schedules, task, runs, faults>>
      BY <1>7 DEF CheckSchedule
    <2>2. pending'[p] = r /\ \A o \in Processes \ {p} : pending'[o] = pending[o]
      BY <1>0, <2>1 DEF SchedTypeOK
    <2>3. r.id = s OBVIOUS
    <2> HIDE DEF r
    <2>4. PendingDrawn' BY <1>0, <2>1, <2>2, <2>3 DEF PendingDrawn
    <2>5. \A t \in Schedules : Uncreated(t)' => Uncreated(t)
      BY <2>1, <2>2, <2>3 DEF Uncreated
    <2> QED BY <1>0, <1>1, <1>2, <2>1, <2>4, <2>5, NothingMarked
  <1>8. ASSUME NEW p \in Processes, MarkFails(p) \/ StopTask(p) \/ StartTask(p) PROVE SchedInv'
    <2>1. UNCHANGED <<clock, saved, schedules, drawn, pending, runs>> BY <1>0, <1>8, IdleShape
    <2>2. \A o \in Processes :
            /\ task'[o].at = task[o].at /\ task'[o].began = task[o].began
            /\ task'[o].due \in {<<>>, task[o].due}
      <3>1. PICK w \in Tasks : /\ w.at = task[p].at /\ w.began = task[p].began /\ w.due \in {<<>>, task[p].due}
                               /\ task' = [task EXCEPT ![p] = w]
        BY <1>0, <1>8, IdleShape
      <3>2. task'[p] = w /\ \A o \in Processes \ {p} : task'[o] = task[o] BY <1>0, <3>1, TaskSet
      <3> QED BY <3>1, <3>2
    <2> QED BY <1>0, <1>1, <1>2, <1>3, <2>1, <2>2, NothingMarked
  <1>9. CASE UNCHANGED schedVars
    BY <1>0, <1>1, <1>2, <1>3, <1>9, NothingMarked DEF schedVars
  <1> QED BY <1>0, <1>4, <1>5, <1>6, <1>7, <1>8, <1>9, InsertKeeps, TickKeeps, EndRunKeeps
         DEF SchedNext, Deletes

(* One scheduler over the table begins a run of a schedule, if it is       *)
(* marked, at least an interval after the tick of the one before it,       *)
(* whatever fails, however late it is, and however often its process is    *)
(* started again.                                                          *)
THEOREM RunsAlwaysSpaced ==
  ASSUME \A p, q \in Processes : p = q
  PROVE  SchedSpec => []RunsSpaced
  <1>1. SchedInv => RunsSpaced BY DEF SchedInv
  <1>2. SchedInv /\ [SchedNext]_schedVars => SchedInv' BY SchedNextInv
  <1> QED BY <1>1, <1>2, SchedInitInv, PTL DEF SchedSpec

HIDE SchedulerAssumption

-----------------------------------------------------------------------------
(***************************************************************************)
(* Migrations.  Whoever has read the versions holds the lock, so that what *)
(* it has seen is what is recorded, and the migration it is in the first   *)
(* one that is not.                                                        *)
(***************************************************************************)

LockHeld == \A s \in Servers : server[s].at \in {"locked", "migrating"} => lock = s

SeesWhatIs == \A s \in Servers :
  /\ server[s].at = "migrating" => server[s].seen = migrated
  /\ server[s].doing # 0 =>
       /\ server[s].at = "migrating"
       /\ server[s].doing \in PendingOf(s)
       /\ \A w \in PendingOf(s) : server[s].doing <= w

MigrateInv == MigrateTypeOK /\ LockHeld /\ SeesWhatIs /\ MigratedOnce

USE MigrationsAssumption

LEMMA VersionsAreNumbers == Versions \subseteq Nat \ {0} /\ \A r \in Releases : 1 .. r \subseteq Versions
  BY DEF Versions

LEMMA MigrateInitInv == MigrateInit => MigrateInv
  <1> SUFFICES ASSUME MigrateInit PROVE MigrateInv OBVIOUS
  <1>1. /\ release \in [Servers -> Releases] /\ migrated = {} /\ executed = [v \in Versions |-> 0]
        /\ lock = Nobody /\ server = [s \in Servers |-> Down] /\ crashes = 0
    BY DEF MigrateInit
  <1>2. Down \in Servings BY DEF Down, Servings
  <1>3. MigrateTypeOK BY <1>1, <1>2 DEF MigrateTypeOK
  <1>4. \A s \in Servers : server[s].at = "down" /\ server[s].doing = 0 BY <1>1 DEF Down
  <1>5. LockHeld /\ SeesWhatIs BY <1>4 DEF LockHeld, SeesWhatIs
  <1>6. MigratedOnce BY <1>1, <1>4 DEF MigratedOnce
  <1> QED BY <1>3, <1>5, <1>6 DEF MigrateInv

LEMMA ServerSet ==
  ASSUME MigrateTypeOK, NEW s \in Servers, NEW w \in Servings, server' = [server EXCEPT ![s] = w]
  PROVE  /\ server' \in [Servers -> Servings]
         /\ server'[s] = w
         /\ \A t \in Servers \ {s} : server'[t] = server[t]
  BY DEF MigrateTypeOK

LEMMA ServerShape ==
  ASSUME MigrateTypeOK, NEW s \in Servers
  PROVE  /\ server[s] \in Servings /\ server[s].seen \in SUBSET Versions /\ server[s].doing \in Nat
         /\ release[s] \in Releases
  <1>1. server[s] \in Servings BY DEF MigrateTypeOK
  <1> QED BY <1>1 DEF Servings, MigrateTypeOK

(* A step of s that records nothing: what the others know is as it was.    *)
LEMMA StepKeeps ==
  ASSUME MigrateInv, NEW s \in Servers, NEW w \in Servings, server' = [server EXCEPT ![s] = w],
         UNCHANGED <<migrated, executed>>, crashes' \in 0 .. MaxCrashes,
         release' \in [Servers -> Releases],
         \A t \in Servers \ {s} : release'[t] = release[t],
         \/ lock' = lock
         \/ lock' = s /\ lock = Nobody
         \/ lock' = Nobody /\ lock = s,
         w.at \in {"locked", "migrating"} => lock' = s,
         w.at = "migrating" => w.seen = migrated,
         w.doing # 0 => /\ w.at = "migrating"
                        /\ w.doing \in (1 .. release'[s]) \ w.seen
                        /\ \A v \in (1 .. release'[s]) \ w.seen : w.doing <= v,
         w.at = "serving" => 1 .. release'[s] \subseteq migrated
  PROVE  MigrateInv'
  <1>1. MigrateTypeOK /\ LockHeld /\ SeesWhatIs /\ MigratedOnce BY DEF MigrateInv
  <1>2. /\ server' \in [Servers -> Servings] /\ server'[s] = w
        /\ \A t \in Servers \ {s} : server'[t] = server[t]
    BY <1>1, ServerSet
  <1>3. MigrateTypeOK' BY <1>1, <1>2 DEF MigrateTypeOK
  <1>4. LockHeld'
    <2> SUFFICES ASSUME NEW t \in Servers, server'[t].at \in {"locked", "migrating"}
                 PROVE  lock' = t
      BY DEF LockHeld
    <2>1. CASE t = s BY <1>2, <2>1
    <2>2. CASE t # s
      <3>1. lock = t BY <1>1, <1>2, <2>2 DEF LockHeld
      <3> QED BY <2>2, <3>1
    <2> QED BY <2>1, <2>2
  <1>5. SeesWhatIs'
    <2> SUFFICES ASSUME NEW t \in Servers
                 PROVE  /\ server'[t].at = "migrating" => server'[t].seen = migrated
                        /\ server'[t].doing # 0 =>
                             /\ server'[t].at = "migrating"
                             /\ server'[t].doing \in PendingOf(t)'
                             /\ \A v \in PendingOf(t)' : server'[t].doing <= v
      BY DEF SeesWhatIs
    <2>1. CASE t = s BY <1>2, <2>1 DEF PendingOf
    <2>2. CASE t # s BY <1>1, <1>2, <2>2 DEF SeesWhatIs, PendingOf
    <2> QED BY <2>1, <2>2
  <1>6. MigratedOnce'
    <2>1. w.doing \notin migrated
      <3>1. 0 \notin migrated BY <1>1, VersionsAreNumbers DEF MigrateTypeOK
      <3> QED BY <3>1
    <2> QED BY <1>1, <1>2, <2>1 DEF MigratedOnce
  <1> QED BY <1>3, <1>4, <1>5, <1>6 DEF MigrateInv

LEMMA StartsKeep ==
  ASSUME MigrateInv, NEW s \in Servers, Connect(s) \/ Lock(s) \/ ReadVersions(s) \/ Unlock(s)
  PROVE  MigrateInv'
  <1>1. MigrateTypeOK /\ LockHeld /\ SeesWhatIs /\ MigratedOnce BY DEF MigrateInv
  <1>2. /\ server[s] \in Servings /\ release' = release /\ crashes' = crashes
        /\ UNCHANGED <<migrated, executed>>
    BY <1>1, ServerShape DEF Connect, Lock, ReadVersions, Unlock
  <1>3. /\ release' \in [Servers -> Releases] /\ crashes' \in 0 .. MaxCrashes
        /\ \A t \in Servers \ {s} : release'[t] = release[t]
        /\ server \in [Servers -> Servings] /\ lock \in Servers \cup {Nobody}
        /\ migrated \subseteq Versions
    BY <1>1, <1>2 DEF MigrateTypeOK
  <1>4. CASE Connect(s)
    <2> DEFINE w == [server[s] EXCEPT !.at = "connected"]
    <2>1. /\ w \in Servings /\ w.at = "connected" /\ w.doing = server[s].doing
          /\ server' = [server EXCEPT ![s] = w] /\ lock' = lock /\ server[s].at = "down"
      BY <1>2, <1>3, <1>4 DEF Connect, Go, Servings
    <2>2. w.doing = 0 BY <1>1, <2>1 DEF SeesWhatIs
    <2> HIDE DEF w
    <2> QED BY <1>2, <1>3, <2>1, <2>2, StepKeeps
  <1>5. CASE Lock(s)
    <2> DEFINE w == [server[s] EXCEPT !.at = "locked"]
    <2>1. /\ w \in Servings /\ w.at = "locked" /\ w.doing = server[s].doing
          /\ server' = [server EXCEPT ![s] = w] /\ lock' = s /\ lock = Nobody
          /\ server[s].at = "connected"
      BY <1>2, <1>3, <1>5 DEF Lock, Go, Servings
    <2>2. w.doing = 0 BY <1>1, <2>1 DEF SeesWhatIs
    <2> HIDE DEF w
    <2> QED BY <1>2, <1>3, <2>1, <2>2, StepKeeps
  <1>6. CASE ReadVersions(s)
    <2> DEFINE w == [server[s] EXCEPT !.at = "migrating", !.seen = migrated]
    <2>1. /\ w \in Servings /\ w.at = "migrating" /\ w.doing = server[s].doing /\ w.seen = migrated
          /\ server' = [server EXCEPT ![s] = w] /\ lock' = lock /\ server[s].at = "locked"
      BY <1>2, <1>3, <1>6 DEF ReadVersions, Servings
    <2>2. w.doing = 0 /\ lock = s BY <1>1, <2>1 DEF SeesWhatIs, LockHeld
    <2> HIDE DEF w
    <2> QED BY <1>2, <1>3, <2>1, <2>2, StepKeeps
  <1>7. CASE Unlock(s)
    <2> DEFINE w == [server[s] EXCEPT !.at = "serving", !.seen = {}]
    <2>1. /\ w \in Servings /\ w.at = "serving" /\ w.doing = server[s].doing
          /\ server' = [server EXCEPT ![s] = w] /\ server[s].at = "migrating"
          /\ server[s].doing = 0 /\ PendingOf(s) = {}
          /\ lock' = IF lock = s THEN Nobody ELSE lock
      BY <1>2, <1>3, <1>7 DEF Unlock, Servings
    <2>2. lock = s /\ server[s].seen = migrated BY <1>1, <2>1 DEF SeesWhatIs, LockHeld
    <2>3. 1 .. release'[s] \subseteq migrated BY <1>2, <2>1, <2>2 DEF PendingOf
    <2> HIDE DEF w
    <2> QED BY <1>2, <1>3, <2>1, <2>2, <2>3, StepKeeps
  <1> QED BY <1>4, <1>5, <1>6, <1>7

LEMMA BeginMigrationKeeps ==
  ASSUME MigrateInv, NEW s \in Servers, BeginMigration(s)
  PROVE  MigrateInv'
  <1>1. MigrateTypeOK /\ LockHeld /\ SeesWhatIs BY DEF MigrateInv
  <1>2. PICK v \in PendingOf(s) : /\ \A u \in PendingOf(s) : v <= u
                                  /\ server' = [server EXCEPT ![s].doing = v]
    BY DEF BeginMigration, Execute
  <1>3. /\ server[s].at = "migrating" /\ UNCHANGED <<release, migrated, executed, lock, crashes>>
    BY DEF BeginMigration, Execute
  <1> DEFINE w == [server[s] EXCEPT !.doing = v]
  <1>4. server[s] \in Servings /\ v \in 1 .. release[s] /\ release[s] \in Releases
    BY <1>1, <1>2, ServerShape DEF PendingOf
  <1>5. v \in Nat BY <1>4
  <1>6. /\ w \in Servings /\ w.at = "migrating" /\ w.doing = v /\ w.seen = server[s].seen
        /\ server' = [server EXCEPT ![s] = w]
    BY <1>1, <1>2, <1>3, <1>4, <1>5 DEF Servings, MigrateTypeOK
  <1> HIDE DEF w
  <1>7. lock = s /\ server[s].seen = migrated BY <1>1, <1>3 DEF SeesWhatIs, LockHeld
  <1>8. release' \in [Servers -> Releases] /\ crashes' \in 0 .. MaxCrashes
    BY <1>1, <1>3 DEF MigrateTypeOK
  <1>9. /\ w.doing \in (1 .. release'[s]) \ w.seen
        /\ \A u \in (1 .. release'[s]) \ w.seen : w.doing <= u
    BY <1>2, <1>3, <1>6 DEF PendingOf
  <1> QED BY <1>3, <1>6, <1>7, <1>8, <1>9, StepKeeps

LEMMA EndMigrationKeeps ==
  ASSUME MigrateInv, NEW s \in Servers, EndMigration(s)
  PROVE  MigrateInv'
  <1> DEFINE v == server[s].doing
             w == [server[s] EXCEPT !.doing = 0, !.seen = @ \cup {v}]
  <1>1. MigrateTypeOK /\ LockHeld /\ SeesWhatIs /\ MigratedOnce BY DEF MigrateInv
  <1>2. v # 0 /\ v \notin migrated BY <1>1 DEF EndMigration, MigratedOnce
  <1>3. /\ server[s].at = "migrating" /\ lock = s /\ server[s].seen = migrated
        /\ v \in PendingOf(s) /\ \A u \in PendingOf(s) : v <= u
    BY <1>1, <1>2 DEF SeesWhatIs, LockHeld
  <1>4. /\ migrated' = migrated \cup {v} /\ executed' = [executed EXCEPT ![v] = @ + 1]
        /\ server' = [server EXCEPT ![s].doing = 0, ![s].seen = @ \cup {v}]
        /\ UNCHANGED <<lock, release, crashes>>
    BY <1>2 DEF EndMigration
  <1>5. /\ server[s] \in Servings /\ release[s] \in Releases /\ v \in 1 .. release[s]
    BY <1>1, <1>3, ServerShape DEF PendingOf
  <1>6. v \in Versions /\ v \in Nat BY <1>5, VersionsAreNumbers
  <1>7. /\ w \in Servings /\ w.at = "migrating" /\ w.doing = 0 /\ w.seen = migrated \cup {v}
        /\ server' = [server EXCEPT ![s] = w]
    BY <1>1, <1>3, <1>4, <1>5, <1>6 DEF Servings, MigrateTypeOK
  <1> HIDE DEF w
  <1>8. /\ server' \in [Servers -> Servings] /\ server'[s] = w
        /\ \A t \in Servers \ {s} : server'[t] = server[t]
    BY <1>1, <1>7, ServerSet
  <1> HIDE DEF v
  <1>9. MigrateTypeOK'
    <2>1. executed' \in [Versions -> Nat] BY <1>1, <1>4, <1>6 DEF MigrateTypeOK
    <2> QED BY <1>1, <1>4, <1>6, <1>8, <2>1 DEF MigrateTypeOK
  <1>10. \A t \in Servers \ {s} : server[t].at \notin {"locked", "migrating"}
    BY <1>1, <1>3 DEF LockHeld
  <1>11. LockHeld' BY <1>3, <1>4, <1>8, <1>10 DEF LockHeld
  <1>12. \A t \in Servers \ {s} : server[t].doing = 0 BY <1>1, <1>10 DEF SeesWhatIs
  <1>13. SeesWhatIs' BY <1>4, <1>7, <1>8, <1>10, <1>12 DEF SeesWhatIs
  <1>14. MigratedOnce'
    <2>1. \A u \in Versions : executed'[u] = IF u \in migrated' THEN 1 ELSE 0
      <3> SUFFICES ASSUME NEW u \in Versions PROVE executed'[u] = IF u \in migrated' THEN 1 ELSE 0
        OBVIOUS
      <3>1. executed[u] = IF u \in migrated THEN 1 ELSE 0 BY <1>1 DEF MigratedOnce
      <3>2. CASE u = v BY <1>1, <1>2, <1>4, <3>1, <3>2 DEF MigrateTypeOK
      <3>3. CASE u # v BY <1>1, <1>4, <3>1, <3>3 DEF MigrateTypeOK
      <3> QED BY <3>2, <3>3
    <2>2. \A u \in migrated' : 1 .. u \subseteq migrated'
      <3>1. \A u \in migrated : 1 .. u \subseteq migrated BY <1>1 DEF MigratedOnce
      <3>2. ASSUME NEW u \in 1 .. v PROVE u \in migrated \cup {v}
        <4>1. release[s] \in Nat BY <1>5
        <4>2. u \in 1 .. release[s] BY <1>5, <4>1
        <4>3. u \notin migrated => v <= u BY <1>3, <4>2 DEF PendingOf
        <4> QED BY <1>6, <4>3
      <3> QED BY <1>4, <3>1, <3>2
    <2>3. \A t \in Servers : server'[t].at = "serving" => 1 .. release'[t] \subseteq migrated'
      BY <1>1, <1>4, <1>7, <1>8 DEF MigratedOnce
    <2>4. \A t \in Servers : server'[t].doing \notin migrated'
      <3>1. 0 \notin migrated' BY <1>9, VersionsAreNumbers DEF MigrateTypeOK
      <3> QED BY <1>7, <1>8, <1>12, <3>1
    <2> QED BY <2>1, <2>2, <2>3, <2>4 DEF MigratedOnce
  <1> QED BY <1>9, <1>11, <1>13, <1>14 DEF MigrateInv

LEMMA ServerCrashesKeeps ==
  ASSUME MigrateInv, NEW s \in Servers, ServerCrashes(s)
  PROVE  MigrateInv'
  <1>1. MigrateTypeOK BY DEF MigrateInv
  <1>2. /\ crashes < MaxCrashes /\ crashes' = crashes + 1 /\ server' = [server EXCEPT ![s] = Down]
        /\ lock' = IF lock = s THEN Nobody ELSE lock
        /\ UNCHANGED <<migrated, executed>>
    BY DEF ServerCrashes
  <1>3. PICK n \in Releases : release' = [release EXCEPT ![s] = n] BY DEF ServerCrashes
  <1>4. Down \in Servings /\ Down.at = "down" /\ Down.doing = 0 BY DEF Down, Servings
  <1>5. crashes' \in 0 .. MaxCrashes BY <1>1, <1>2 DEF MigrateTypeOK
  <1>6. /\ release' \in [Servers -> Releases]
        /\ \A t \in Servers \ {s} : release'[t] = release[t]
    BY <1>1, <1>3 DEF MigrateTypeOK
  <1> QED BY <1>2, <1>4, <1>5, <1>6, StepKeeps

LEMMA MigrateNextInv == MigrateInv /\ [MigrateNext]_migrateVars => MigrateInv'
  <1> SUFFICES ASSUME MigrateInv, [MigrateNext]_migrateVars PROVE MigrateInv' OBVIOUS
  <1>1. CASE UNCHANGED migrateVars
    BY <1>1 DEF migrateVars, MigrateInv, MigrateTypeOK, LockHeld, SeesWhatIs, PendingOf, MigratedOnce
  <1> QED BY <1>1, StartsKeep, BeginMigrationKeeps, EndMigrationKeeps, ServerCrashesKeeps
      DEF MigrateNext

(* Whatever processes start together and wherever they crash.              *)
THEOREM AlwaysMigratedOnce == MigrateSpec => []MigratedOnce
  <1>1. MigrateInv => MigratedOnce BY DEF MigrateInv
  <1> QED BY <1>1, MigrateInitInv, MigrateNextInv, PTL DEF MigrateSpec

HIDE MigrationsAssumption

-----------------------------------------------------------------------------
(***************************************************************************)
(* The three together: they share no variable, so that every step is a     *)
(* step of one and none of the others.                                     *)
(***************************************************************************)

LEMMA EveryStepIsOfAPart ==
  [BackgroundNext]_backgroundVars =>
    [Next]_vars /\ [SchedNext]_schedVars /\ [MigrateNext]_migrateVars
  BY DEF BackgroundNext, backgroundVars, Only

(* What BackgroundSpec is run with for TLC has the right types always,     *)
(* whatever the constants.                                                 *)
THEOREM BackgroundTypesCorrect == BackgroundSpec => []BackgroundTypeOK
  <1> DEFINE Inv == TypeOK /\ SchedTypeInv /\ MigrateInv
  <1>1. BackgroundInit => Inv
    BY QueueInitTypes, SchedInitTypes, MigrateInitInv DEF BackgroundInit
  <1>2. Inv /\ [BackgroundNext]_backgroundVars => Inv'
    BY EveryStepIsOfAPart, QueueNextTypes, SchedNextTypes, MigrateNextInv
  <1>3. Inv => BackgroundTypeOK BY DEF BackgroundTypeOK, SchedTypeInv, MigrateInv
  <1> QED BY <1>1, <1>2, <1>3, PTL DEF BackgroundSpec

=============================================================================
