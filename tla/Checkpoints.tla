---------------------------- MODULE Checkpoints ----------------------------
(***************************************************************************)
(* The checkpoints that answered questions leave behind                    *)
(* (defaults/checkpoints.py, checkpoints_pg.py, _save_checkpoint in        *)
(* api/app.py) and what is made of them: the lineage of                    *)
(* POST /checkpoints/{id}/fork, replays, and data.run_saved_query of the   *)
(* MCP server, which replays a checkpoint when one matches.                *)
(*                                                                         *)
(* A run saves at most one checkpoint, which is named after it.  The       *)
(* SQLite store never suspends; PostgreSQL suspends at every connect().    *)
(***************************************************************************)
EXTENDS Naturals, Sequences

CONSTANTS
  Questions, Sources,  \* what is asked, and the connection it is asked of
  MaxRuns,             \* bound: runs, numbered as they begin
  NoCheckpoint         \* None

ASSUME CheckpointsAssumption ==
  /\ MaxRuns \in Nat /\ NoCheckpoint \notin Nat
  /\ Questions # {} /\ Sources # {}

VARIABLES
  durably,      \* PostgreSQL is configured
  checkpoints,  \* the table, in the order of created_at
  attempt       \* per run, what it is and how far

checkVars == <<durably, checkpoints, attempt>>

Runs == 1 .. MaxRuns

Reference == Runs \cup {NoCheckpoint}

Checkpoint == [id : Runs, question : Questions, connection : Sources,
               forked_from : Reference]

\* A run is of a question and a connection: asked, forked from a checkpoint,
\* replaying a checkpoint, or of a saved query.  uses is the checkpoint that is
\* replayed, or that a fork on PostgreSQL has listed.
Attempts == [at : {"new", "running", "lineage", "label", "answered", "failed"},
             kind : {"ask", "fork", "replay", "saved"},
             question : Questions, connection : Sources,
             of : Reference, uses : Reference, ran_on : Sources \cup {NoCheckpoint}]

CheckTypeOK ==
  /\ durably \in BOOLEAN
  /\ checkpoints \in Seq(Checkpoint)
  /\ attempt \in [Runs -> Attempts]

CheckInit ==
  /\ durably \in BOOLEAN
  /\ checkpoints = <<>>
  /\ attempt = [r \in Runs |-> [at |-> "new", kind |-> "ask",
       question |-> CHOOSE q \in Questions : TRUE, connection |-> CHOOSE c \in Sources : TRUE,
       of |-> NoCheckpoint, uses |-> NoCheckpoint, ran_on |-> NoCheckpoint]]

CanBegin(r) == attempt[r].at = "new" /\ \A q \in 1 .. r - 1 : attempt[q].at # "new"

Begin(r, kind, question, connection, of, uses) ==
  attempt' = [attempt EXCEPT ![r] =
    [at |-> "running", kind |-> kind, question |-> question, connection |-> connection,
     of |-> of, uses |-> uses, ran_on |-> NoCheckpoint]]

-----------------------------------------------------------------------------
(* What begins a run.                                                      *)

\* POST /ask and /ask/stream.
BeginQuestion(r, question, connection) ==
  /\ CanBegin(r)
  /\ Begin(r, "ask", question, connection, NoCheckpoint, NoCheckpoint)
  /\ UNCHANGED <<durably, checkpoints>>

\* POST /checkpoints/{id}/fork has found the checkpoint.
BeginFork(r, n) ==
  /\ CanBegin(r)
  /\ Begin(r, "fork", checkpoints[n].question, checkpoints[n].connection,
           checkpoints[n].id, NoCheckpoint)
  /\ UNCHANGED <<durably, checkpoints>>

\* POST /checkpoints/{id}/replay and data.replay_checkpoint have found it.
BeginReplay(r, n) ==
  /\ CanBegin(r)
  /\ Begin(r, "replay", checkpoints[n].question, checkpoints[n].connection,
           NoCheckpoint, checkpoints[n].id)
  /\ UNCHANGED <<durably, checkpoints>>

\* The checkpoint a saved query is replayed from: the newest of its question.
MatchesOf(question) == {n \in DOMAIN checkpoints : checkpoints[n].question = question}

Match(question) ==
  IF MatchesOf(question) = {} THEN NoCheckpoint
  ELSE checkpoints[CHOOSE n \in MatchesOf(question) :
                     \A m \in MatchesOf(question) : m <= n].id

\* data.run_saved_query has found its query and looked for a checkpoint.
BeginSavedQuery(r, question, connection) ==
  /\ CanBegin(r)
  /\ Begin(r, "saved", question, connection, NoCheckpoint, Match(question))
  /\ UNCHANGED <<durably, checkpoints>>

-----------------------------------------------------------------------------
(* The run.                                                                *)

Asks(r) == attempt[r].at = "running" /\ attempt[r].kind \in {"ask", "fork"}

\* A fork looks for its checkpoint when it has run; all else is answered.
Ran(r, connection) ==
  attempt' = [attempt EXCEPT ![r].ran_on = connection,
    ![r].at = IF attempt[r].kind = "fork" THEN "lineage" ELSE "answered"]

\* The question is planned, executed, and its checkpoint saved.
RunSaves(r) ==
  /\ Asks(r)
  /\ checkpoints' = Append(checkpoints,
       [id |-> r, question |-> attempt[r].question, connection |-> attempt[r].connection,
        forked_from |-> NoCheckpoint])
  /\ Ran(r, attempt[r].connection)
  /\ UNCHANGED durably

\* The planner asks back, the analyst answers, or the save fails and is logged:
\* there is an answer and no checkpoint.
RunSavesNothing(r) ==
  /\ Asks(r)
  /\ Ran(r, attempt[r].connection)
  /\ UNCHANGED <<durably, checkpoints>>

RecordOf(id) == CHOOSE n \in DOMAIN checkpoints : checkpoints[n].id = id

\* The stored plan is executed where the checkpoint says; a saved query that
\* nothing matched goes through the pipeline, which the MCP server has without
\* checkpoints.
Replays(r) ==
  /\ attempt[r].at = "running" /\ attempt[r].kind \in {"replay", "saved"}
  /\ Ran(r, IF attempt[r].uses = NoCheckpoint THEN attempt[r].connection
            ELSE checkpoints[RecordOf(attempt[r].uses)].connection)
  /\ UNCHANGED <<durably, checkpoints>>

\* Something raises, before or after the checkpoint was saved.
RunFails(r) ==
  /\ attempt[r].at \in {"running", "lineage"}
  /\ attempt' = [attempt EXCEPT ![r].at = "failed"]
  /\ UNCHANGED <<durably, checkpoints>>

-----------------------------------------------------------------------------
(* The end of fork_checkpoint(): the newest checkpoint is saved again, with *)
(* its lineage.                                                             *)

Newest == checkpoints[Len(checkpoints)]

\* Fault: the newest checkpoint may be the one that was forked.
IsAny(r) == checkpoints # <<>>

\* There is a newest checkpoint and it is not the one that was forked.
IsNew(r) == checkpoints # <<>> /\ Newest.id # attempt[r].of

Answered(r) == attempt' = [attempt EXCEPT ![r].at = "answered"]

\* SQLite: list() and save(), INSERT OR REPLACE under a new created_at, in one
\* step.  The newest row stays the newest.
LabelNewest(r) ==
  /\ ~ durably /\ attempt[r].at = "lineage"
  /\ checkpoints' = IF IsNew(r)
       THEN [checkpoints EXCEPT ![Len(checkpoints)].forked_from = attempt[r].of]
       ELSE checkpoints
  /\ Answered(r)
  /\ UNCHANGED durably

\* PostgreSQL: list() ...
ListNewest(r) ==
  /\ durably /\ attempt[r].at = "lineage"
  /\ IF IsNew(r)
     THEN attempt' = [attempt EXCEPT ![r].at = "label", ![r].uses = Newest.id]
     ELSE Answered(r)
  /\ UNCHANGED <<durably, checkpoints>>

\* ... and save(), an INSERT: the id is there, the key is violated, and the
\* error is passed over.
InsertAgain(r) ==
  /\ attempt[r].at = "label"
  /\ Answered(r)
  /\ UNCHANGED <<durably, checkpoints>>

CheckNext == \E r \in Runs :
  \/ \E q \in Questions, c \in Sources : BeginQuestion(r, q, c) \/ BeginSavedQuery(r, q, c)
  \/ \E n \in DOMAIN checkpoints : BeginFork(r, n) \/ BeginReplay(r, n)
  \/ RunSaves(r) \/ RunSavesNothing(r) \/ Replays(r) \/ RunFails(r)
  \/ LabelNewest(r) \/ ListNewest(r) \/ InsertAgain(r)

CheckSpec == CheckInit /\ [][CheckNext]_checkVars

-----------------------------------------------------------------------------
(* Properties.                                                             *)

\* However runs and forks overlap, lineage leads back in time: a checkpoint is
\* never recorded as a fork of itself or of a later one, so that following
\* forked_from ends (fork_checkpoint: newest[0]["id"] != checkpoint_id).
LineageGoesBack ==
  \A n \in DOMAIN checkpoints : checkpoints[n].forked_from # NoCheckpoint =>
    \E m \in 1 .. n - 1 : checkpoints[m].id = checkpoints[n].forked_from

\* A question asked, forked, replayed or saved is answered by the connection it
\* is of; "a saved query is a reusable question bound to a connection"
\* (contracts/saved.py, data.run_saved_query).
AnsweredByItsConnection ==
  \A r \in Runs : attempt[r].at = "answered" => attempt[r].ran_on = attempt[r].connection

=============================================================================
