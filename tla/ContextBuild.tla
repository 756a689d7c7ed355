---------------------------- MODULE ContextBuild ----------------------------
(***************************************************************************)
(* What publishes contexts: ContextBuildJob.run (context/jobs/             *)
(* build_context.py), which introspects the source database and publishes  *)
(* what it derived, and ContextValidationService (context/validation.py),  *)
(* by which a human reviews the ontology a model proposed and publishes    *)
(* the reviewed one.  Both run on the registry of ContextRegistry, whose   *)
(* publish() each of their calls goes through step by step.                *)
(*                                                                         *)
(* The artifacts derived from the snapshot alone (profile, topology,       *)
(* granularity, taxonomy) say nothing a property tells apart and go with   *)
(* the schema artifact; the ontology has a few numbered slots, each        *)
(* holding a concept and its validation status.                            *)
(***************************************************************************)
EXTENDS ContextRegistry

CONSTANTS
  OntologyKind,  \* the kind of the ontology artifact
  Slots,         \* positions of the ontology's concepts
  Concepts,      \* concepts a model may propose
  MaxRetries,    \* max_retries of the build job
  MaxChanges     \* bound: schema changes of the source database

Pending(o) == { slot \in Slots : o[slot].status = "pending" }

Ontologies ==
  [Slots -> [concept : Concepts, status : {"pending", "approved", "rejected"}]]

Proposals == { o \in Ontologies : Pending(o) = Slots }

ASSUME ContextBuildAssumption ==
  /\ OntologyKind \in Kinds \ {SchemaKind}
  /\ Payloads = Hashes \cup Ontologies
  /\ MaxRetries \in Nat /\ MaxChanges \in Nat

VARIABLES
  schema,   \* hash of the schema the source database has now
  changes,  \* how often it has changed
  job       \* the build or the review each client is running

buildVars == <<records, store, call, schema, changes, job>>

IdleJob == [pc |-> "idle"]

Tasks == {"build", "review"}

Results == {"current", "failed", "raised"} \cup LifecycleStates

Jobs ==
  [pc : {"introspect", "check", "analyze", "decide", "load", "publish", "publishing"},
   task : Tasks, scope : Scopes, enrichment : BOOLEAN, skip : BOOLEAN,
   tries : 0 .. MaxRetries, hash : Hashes \cup {NoContext}, artifacts : Artifacts,
   base : ContextIds \cup {NoContext}]

EndedJobs == [pc : {"ended"}, scope : Scopes, result : Results, version : Nat]

BuildTypeOK ==
  /\ TypeOK
  /\ schema \in Hashes /\ changes \in 0 .. MaxChanges
  /\ job \in [Clients -> {IdleJob} \cup Jobs \cup EndedJobs]

BuildInit ==
  /\ Init
  /\ schema \in Hashes /\ changes = 0
  /\ job = [c \in Clients |-> IdleJob]

-----------------------------------------------------------------------------
Step(c, fields) ==
  job' = [job EXCEPT ![c] = [f \in DOMAIN job[c] |->
                               IF f \in DOMAIN fields THEN fields[f] ELSE job[c][f]]]

End(c, result, version) ==
  job' = [job EXCEPT ![c] =
            [pc |-> "ended", scope |-> job[c].scope, result |-> result, version |-> version]]

UnchangedRegistry == UNCHANGED <<records, store, call>>

UnchangedSource == UNCHANGED <<schema, changes>>

(* The source database's schema changes under the application.             *)
Alter ==
  /\ changes < MaxChanges
  /\ schema' \in Hashes \ {schema}
  /\ changes' = changes + 1
  /\ UnchangedRegistry /\ UNCHANGED job

-----------------------------------------------------------------------------
(* ContextBuildJob.run *)

StartBuild(c, s, enrichment, skip) ==
  /\ job[c].pc = "idle" /\ call[c].pc = "idle"
  /\ job' = [job EXCEPT ![c] =
       [pc |-> "introspect", task |-> "build", scope |-> s,
        enrichment |-> enrichment, skip |-> skip, tries |-> MaxRetries,
        hash |-> NoContext, artifacts |-> [k \in {} |-> NoContext],
        base |-> NoContext]]
  /\ UnchangedRegistry /\ UnchangedSource

(* INTROSPECT: the schema is read, past any cache.                         *)
Introspect(c) ==
  /\ job[c].pc = "introspect"
  /\ Step(c, [hash |-> schema, pc |-> IF job[c].skip THEN "check" ELSE "analyze"])
  /\ UnchangedRegistry /\ UnchangedSource

IntrospectFails(c) ==
  /\ job[c].pc = "introspect"
  /\ End(c, "failed", 0)
  /\ UnchangedRegistry /\ UnchangedSource

(* Fault: a context of any schema counts as current.                       *)
CheckAnyCurrent(c) ==
  /\ job[c].pc = "check"
  /\ \E active \in LookupActive(job[c].scope) :
       IF active # NoContext
         THEN End(c, "current", 0)
         ELSE Step(c, [pc |-> "analyze"])
  /\ UnchangedRegistry /\ UnchangedSource

(* is_current(): nothing to do when the context served is of this schema.  *)
CheckCurrent(c) ==
  /\ job[c].pc = "check"
  /\ \E active \in LookupActive(job[c].scope) :
       IF active # NoContext /\ records[active].schema_hash = job[c].hash
         THEN End(c, "current", 0)
         ELSE Step(c, [pc |-> "analyze"])
  /\ UnchangedRegistry /\ UnchangedSource

(* PROFILE to QUALITY.  A failed profile means no taxonomy and so no       *)
(* enrichment, a failed enrichment no ontology.  What enrichment reads of  *)
(* the served ontology only goes into the model's prompt: the ontology is  *)
(* what the model answers, every concept pending.                          *)
Analyze(c) ==
  /\ job[c].pc = "analyze"
  /\ \/ Step(c, [pc |-> "publish", artifacts |-> [k \in {SchemaKind} |-> job[c].hash]])
     \/ /\ job[c].enrichment
        /\ \E proposal \in Proposals :
             Step(c, [pc |-> "publish",
                      artifacts |-> [k \in {SchemaKind, OntologyKind} |->
                        IF k = SchemaKind THEN job[c].hash ELSE proposal]])
  /\ UnchangedRegistry /\ UnchangedSource

-----------------------------------------------------------------------------
(* ContextValidationService *)

(* list_pending(): a human is shown the ontology served.                   *)
ListPending(c, s) ==
  /\ job[c].pc = "idle" /\ call[c].pc = "idle"
  /\ \E active \in LookupActive(s) \ {NoContext} :
       /\ OntologyKind \in DOMAIN store[active]
       /\ job' = [job EXCEPT ![c] =
            [pc |-> "decide", task |-> "review", scope |-> s,
             enrichment |-> FALSE, skip |-> FALSE, tries |-> 0,
             hash |-> NoContext, artifacts |-> [k \in {} |-> NoContext],
             base |-> NoContext]]
  /\ UnchangedRegistry /\ UnchangedSource

(* apply(), when the decision arrives: the record served now is the one    *)
(* that is reviewed.                                                       *)
Apply(c) ==
  /\ job[c].pc = "decide"
  /\ \E active \in LookupActive(job[c].scope) :
       IF active = NoContext
         THEN End(c, "raised", 0)
         ELSE Step(c, [pc |-> "load", base |-> active])
  /\ UnchangedRegistry /\ UnchangedSource

(* Fault: a review starts from the schema of the day.                      *)
LoadAndDecideNow(c) ==
  /\ job[c].pc = "load"
  /\ LET base == store[job[c].base] IN
       IF OntologyKind \notin DOMAIN base
         THEN End(c, "raised", 0)
         ELSE \E slot \in Slots, decision \in {"approved", "rejected"} :
                Step(c, [pc |-> "publish", hash |-> schema,
                         artifacts |-> [base EXCEPT ![OntologyKind][slot].status = decision]])
  /\ UnchangedRegistry /\ UnchangedSource

(* The record's artifacts are loaded and the decision applied by position; *)
(* a record without the artifact raises.  A published record is immutable  *)
(* (PublishedIsImmutable), so loading it artifact by artifact is one step. *)
LoadAndDecide(c) ==
  /\ job[c].pc = "load"
  /\ LET base == store[job[c].base] IN
       IF OntologyKind \notin DOMAIN base
         THEN End(c, "raised", 0)
         ELSE \E slot \in Slots, decision \in {"approved", "rejected"} :
                Step(c, [pc |-> "publish", hash |-> records[job[c].base].schema_hash,
                         artifacts |-> [base EXCEPT ![OntologyKind][slot].status = decision]])
  /\ UnchangedRegistry /\ UnchangedSource

-----------------------------------------------------------------------------
(* PUBLISH, of a build or of a review.                                     *)

StartPublish(c) ==
  /\ job[c].pc = "publish"
  /\ BeginPublish(c, job[c].scope, job[c].hash, job[c].artifacts, FALSE)
  /\ Step(c, [pc |-> "publishing"])
  /\ UnchangedSource

Publishing(c) ==
  /\ PublishStep(c)
  /\ UNCHANGED job /\ UnchangedSource

(* publish() returned; a build's result is the state its record was read   *)
(* back in.                                                                *)
Published(c) ==
  /\ job[c].pc = "publishing" /\ call[c].pc = "returned"
  /\ call' = [call EXCEPT ![c] = Idle]
  /\ End(c, call[c].published, call[c].version)
  /\ UNCHANGED <<records, store>> /\ UnchangedSource

(* publish() raised: a build runs the stage again, from its first step.    *)
PublishRaised(c) ==
  /\ job[c].pc = "publishing" /\ call[c].pc = "raised"
  /\ call' = [call EXCEPT ![c] = Idle]
  /\ IF job[c].tries > 0
       THEN Step(c, [pc |-> "publish", tries |-> job[c].tries - 1])
       ELSE End(c, IF job[c].task = "build" THEN "failed" ELSE "raised", 0)
  /\ UNCHANGED <<records, store>> /\ UnchangedSource

(* A read outside the stages fails: the request raises.                    *)
ReadFails(c) ==
  /\ job[c].pc \in {"check", "analyze", "decide", "load"}
  /\ End(c, "raised", 0)
  /\ UnchangedRegistry /\ UnchangedSource

PublishFails(c) ==
  /\ Fail(c)
  /\ UNCHANGED job /\ UnchangedSource

Leave(c) ==
  /\ job[c].pc = "ended"
  /\ job' = [job EXCEPT ![c] = IdleJob]
  /\ UnchangedRegistry /\ UnchangedSource

-----------------------------------------------------------------------------
BuildStep(c) == Introspect(c) \/ CheckCurrent(c) \/ Analyze(c)

ReviewStep(c) == Apply(c) \/ LoadAndDecide(c)

PublicationStep(c) == StartPublish(c) \/ Publishing(c) \/ Published(c) \/ PublishRaised(c)

(* The requests of the application never ask for an unneeded build.        *)
AppRequests(c) ==
  \E s \in Scopes :
    \/ \E enrichment \in BOOLEAN : StartBuild(c, s, enrichment, TRUE)
    \/ ListPending(c, s)

Requests(c) ==
  \/ AppRequests(c)
  \/ \E s \in Scopes, enrichment \in BOOLEAN : StartBuild(c, s, enrichment, FALSE)

Progress(c) == BuildStep(c) \/ ReviewStep(c) \/ PublicationStep(c) \/ Leave(c)

Faults(c) == IntrospectFails(c) \/ ReadFails(c) \/ PublishFails(c)

BuildNext == Alter \/ \E c \in Clients : Requests(c) \/ Progress(c) \/ Faults(c)

BuildSpec == BuildInit /\ [][BuildNext]_buildVars

(* What the application does while nothing fails.                          *)
AppBuildNext == Alter \/ \E c \in Clients : AppRequests(c) \/ Progress(c)

AppBuildSpec == BuildInit /\ [][AppBuildNext]_buildVars

(* Builds without enrichment, as the rebuild worker runs them, while       *)
(* nothing fails; a build once begun goes on.                              *)
RebuildNext ==
  \/ Alter
  \/ \E c \in Clients :
       \/ \E s \in Scopes : StartBuild(c, s, FALSE, TRUE)
       \/ Progress(c)

RebuildSpec ==
  /\ BuildInit /\ [][RebuildNext]_buildVars
  /\ \A c \in Clients : WF_buildVars(Progress(c))

-----------------------------------------------------------------------------
(* The schema hash of a record, by which builds tell whether they have     *)
(* anything to do, is the hash of the snapshot published with it, whatever *)
(* the source database became while the publication was under way.         *)
HashMatchesSnapshot ==
  \A id \in Registered :
    SchemaKind \in DOMAIN store[id] => store[id][SchemaKind] = records[id].schema_hash

(* When a build or a review answers that it published version v, readers   *)
(* are served v or a later version, in spite of publications that overlap  *)
(* it, retry or die half way.                                              *)
AnswerIsServed ==
  \A c \in Clients :
    job[c].pc = "ended" /\ job[c].version > 0 =>
      ServedVersion(job[c].scope) >= job[c].version

(* The concepts of a scope's ontology a human has decided on, in whichever *)
(* record is served.                                                       *)
Decided(s) ==
  { slot \in Slots :
      /\ Served(s) # {}
      /\ \A id \in Served(s) : /\ OntologyKind \in DOMAIN store[id]
                               /\ store[id][OntologyKind][slot].status # "pending" }

(* A decision of a human stays in what is served until another decision of *)
(* a human replaces it.                                                    *)
HumanDecisionsStand ==
  [][ \A s \in Scopes : Decided(s) \subseteq Decided(s)' ]_buildVars

(* When the schema stops changing and builds keep being requested, the     *)
(* scope ends up serving the present schema and goes on doing so.          *)
Fresh(s) ==
  Served(s) # {} /\ \A id \in Served(s) : records[id].schema_hash = schema

EventuallyFresh ==
  \A s \in Scopes :
    []<>(\E c \in Clients : job[c].pc = "introspect" /\ job[c].scope = s) => <>[]Fresh(s)

=============================================================================
