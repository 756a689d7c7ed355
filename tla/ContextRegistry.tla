--------------------------- MODULE ContextRegistry ---------------------------
(***************************************************************************)
(* The context registry: ContextRegistryService (context/registry.py) on   *)
(* top of the context_records and context_artifacts tables, which the      *)
(* SQLite and PostgreSQL stores (defaults/context_store.py and             *)
(* context_store_pg.py) access with the same statements.                   *)
(*                                                                         *)
(* publish() and invalidate() are sequences of awaited calls.  Each call   *)
(* is a transaction of its own (asyncio.to_thread around one SQLite        *)
(* connection, or one autocommitted PostgreSQL statement), set_state() is  *)
(* two of them, and nothing locks a scope: calls of several clients        *)
(* interleave between any two steps below.  A client is a request handler, *)
(* a rebuild worker or another API process.                                *)
(*                                                                         *)
(* The model covers the records of one connection of one organization.     *)
(***************************************************************************)
EXTENDS Naturals, FiniteSets, Lifecycle

CONSTANTS
  Clients,        \* callers of the service
  ContextIds,     \* the context ids entity_id() may draw
  Scopes,         \* scopes of the connection
  Hashes,         \* schema hashes
  Kinds,          \* artifact kinds
  SchemaKind,     \* the kind of the schema snapshot, in every publication
  ProposalKinds,  \* the kinds whose artifacts a model proposed (provenance llm)
  Payloads,       \* contents of an artifact
  NoContext       \* stands for the absence of a previous record

ASSUME ContextRegistryAssumption ==
  /\ NoContext \notin ContextIds
  /\ SchemaKind \in Kinds
  /\ ProposalKinds \subseteq Kinds

VARIABLES
  records,  \* the context_records table: context id -> record
  store,    \* the context_artifacts table: context id -> kind -> payload
  call      \* the call each client is executing

vars == <<records, store, call>>

(* The artifacts of one context: a payload for some of the kinds. *)
Artifacts == UNION { [K -> Payloads] : K \in SUBSET Kinds }

Publications == { a \in Artifacts : SchemaKind \in DOMAIN a }

Record == [scope : Scopes, version : Nat \ {0}, state : LifecycleStates,
           schema_hash : Hashes, artifact_kinds : SUBSET Kinds,
           supersedes : ContextIds \cup {NoContext}]

PublishPC == {"register", "put", "activate", "get", "supersede", "superseding"}

Idle == [pc |-> "idle"]

PublishCall ==
  [pc : PublishPC \cup {"returned"},
   scope : Scopes, schema_hash : Hashes, artifacts : Artifacts,
   target_state : {"active", "pending_validation"},
   previous : ContextIds \cup {NoContext}, version : Nat \ {0},
   context_id : ContextIds \cup {NoContext},
   published : LifecycleStates]

Raised == [pc |-> "raised"]

InvalidateCall == [pc : {"marking"}, todo : SUBSET ContextIds]

TypeOK ==
  /\ DOMAIN records \subseteq ContextIds
  /\ records \in [DOMAIN records -> Record]
  /\ store \in [ContextIds -> Artifacts]
  /\ call \in [Clients -> {Idle, Raised} \cup PublishCall \cup InvalidateCall]

Init ==
  /\ records = [id \in {} |-> NoContext]
  /\ store = [id \in ContextIds |-> [k \in {} |-> NoContext]]
  /\ call = [c \in Clients |-> Idle]

-----------------------------------------------------------------------------
(* Reads of the tables. *)

Registered == DOMAIN records

ActiveRecords(s) ==
  { id \in Registered : records[id].scope = s /\ records[id].state = "active" }

(* active(): an ACTIVE record of the scope with the highest version.  The  *)
(* query orders by version only, so a tie may be broken either way.        *)
Served(s) ==
  { id \in ActiveRecords(s) :
      \A other \in ActiveRecords(s) : records[other].version <= records[id].version }

LookupActive(s) == IF Served(s) = {} THEN {NoContext} ELSE Served(s)

(* The version a reader of the scope is served, 0 when it has none. *)
ServedVersion(s) ==
  IF Served(s) = {} THEN 0 ELSE records[CHOOSE id \in Served(s) : TRUE].version

(* Fault: counting versions from zero.                                     *)
NextVersionFromZero(previous) ==
  IF previous = NoContext THEN 0 ELSE records[previous].version + 1

NextVersion(previous) ==
  IF previous = NoContext THEN 1 ELSE records[previous].version + 1

(* A publication is parked for validation only when the caller requires it *)
(* and the model proposed one of the artifacts.                            *)
TargetState(artifacts, require_validation) ==
  IF require_validation /\ DOMAIN artifacts \cap ProposalKinds # {}
    THEN "pending_validation" ELSE "active"

-----------------------------------------------------------------------------
(* publish() *)

WriteState(id, state) == records' = [records EXCEPT ![id].state = state]

Goto(c, label) == call' = [call EXCEPT ![c].pc = label]

(* The call starts by reading the active record; everything the new record *)
(* will say of its predecessor comes from this one read.                   *)
BeginPublish(c, s, hash, artifacts, require_validation) ==
  /\ call[c].pc = "idle"
  /\ \E previous \in LookupActive(s) :
       call' = [call EXCEPT ![c] =
         [pc |-> "register", scope |-> s, schema_hash |-> hash,
          artifacts |-> artifacts,
          target_state |-> TargetState(artifacts, require_validation),
          previous |-> previous, version |-> NextVersion(previous),
          context_id |-> NoContext, published |-> "generated"]]
  /\ UNCHANGED <<records, store>>

(* Fault: an id that may already be taken, which the upsert overwrites.    *)
RegisterAnyId(c) ==
  /\ call[c].pc = "register"
  /\ \E id \in ContextIds :
       /\ records' = [i \in Registered \cup {id} |->
            IF i = id
              THEN [scope |-> call[c].scope, version |-> call[c].version,
                    state |-> "generated", schema_hash |-> call[c].schema_hash,
                    artifact_kinds |-> DOMAIN call[c].artifacts,
                    supersedes |-> call[c].previous]
              ELSE records[i]]
       /\ call' = [call EXCEPT ![c].pc = "put", ![c].context_id = id]
  /\ UNCHANGED store

(* INSERT of the record, in state GENERATED, under a fresh id. *)
Register(c) ==
  /\ call[c].pc = "register"
  /\ \E id \in ContextIds \ Registered :
       /\ records' = [i \in Registered \cup {id} |->
            IF i = id
              THEN [scope |-> call[c].scope, version |-> call[c].version,
                    state |-> "generated", schema_hash |-> call[c].schema_hash,
                    artifact_kinds |-> DOMAIN call[c].artifacts,
                    supersedes |-> call[c].previous]
              ELSE records[i]]
       /\ call' = [call EXCEPT ![c].pc = "put", ![c].context_id = id]
  /\ UNCHANGED store

(* The artifacts are stored one by one. *)
MissingKinds(c) == DOMAIN call[c].artifacts \ DOMAIN store[call[c].context_id]

PutArtifact(c) ==
  /\ call[c].pc = "put"
  /\ \E kind \in MissingKinds(c) :
       store' = [store EXCEPT ![call[c].context_id] =
                   [k \in DOMAIN @ \cup {kind} |->
                      IF k = kind THEN call[c].artifacts[kind] ELSE @[k]]]
  /\ UNCHANGED <<records, call>>

(* Fault: activating before every artifact is stored.                      *)
CheckActivateEarly(c) ==
  /\ call[c].pc = "put"
  /\ IF IsTransitionAllowed(records[call[c].context_id].state, call[c].target_state)
       THEN Goto(c, "activate")
       ELSE call' = [call EXCEPT ![c] = Raised]
  /\ UNCHANGED <<records, store>>

(* set_state(new, target): the read and its assert_transition. *)
CheckActivate(c) ==
  /\ call[c].pc = "put"
  /\ MissingKinds(c) = {}
  /\ IF IsTransitionAllowed(records[call[c].context_id].state, call[c].target_state)
       THEN Goto(c, "activate")
       ELSE call' = [call EXCEPT ![c] = Raised]
  /\ UNCHANGED <<records, store>>

(* set_state(new, target): the update. *)
Activate(c) ==
  /\ call[c].pc = "activate"
  /\ WriteState(call[c].context_id, call[c].target_state)
  /\ Goto(c, "get")
  /\ UNCHANGED store

(* Fault: returning without superseding the previous record.               *)
GetPublishedAndReturn(c) ==
  /\ call[c].pc = "get"
  /\ call' = [call EXCEPT
       ![c].published = records[call[c].context_id].state,
       ![c].pc = "returned"]
  /\ UNCHANGED <<records, store>>

(* The record is read back: it is what publish() returns. *)
GetPublished(c) ==
  /\ call[c].pc = "get"
  /\ call' = [call EXCEPT
       ![c].published = records[call[c].context_id].state,
       ![c].pc = IF call[c].previous = NoContext THEN "returned" ELSE "supersede"]
  /\ UNCHANGED <<records, store>>

(* set_state(previous, SUPERSEDED): the read and its assert_transition. *)
CheckSupersede(c) ==
  /\ call[c].pc = "supersede"
  /\ IF IsTransitionAllowed(records[call[c].previous].state, "superseded")
       THEN Goto(c, "superseding")
       ELSE call' = [call EXCEPT ![c] = Raised]
  /\ UNCHANGED <<records, store>>

(* Fault: superseding the record just published.                           *)
SupersedePublished(c) ==
  /\ call[c].pc = "superseding"
  /\ WriteState(call[c].context_id, "superseded")
  /\ Goto(c, "returned")
  /\ UNCHANGED store

(* set_state(previous, SUPERSEDED): the update, unconditional. *)
Supersede(c) ==
  /\ call[c].pc = "superseding"
  /\ WriteState(call[c].previous, "superseded")
  /\ Goto(c, "returned")
  /\ UNCHANGED store

PublishStep(c) ==
  \/ Register(c)
  \/ PutArtifact(c)
  \/ CheckActivate(c)
  \/ Activate(c)
  \/ GetPublished(c)
  \/ CheckSupersede(c)
  \/ Supersede(c)

Finish(c) ==
  /\ call[c].pc \in {"returned", "raised"}
  /\ call' = [call EXCEPT ![c] = Idle]
  /\ UNCHANGED <<records, store>>

-----------------------------------------------------------------------------
(* invalidate() *)

(* find() over every scope, keeping the records that may become STALE. *)
BeginInvalidate(c) ==
  /\ call[c].pc = "idle"
  /\ call' = [call EXCEPT ![c] =
       [pc |-> "marking",
        todo |-> { id \in Registered : IsTransitionAllowed(records[id].state, "stale") }]]
  /\ UNCHANGED <<records, store>>

(* One update per record, highest version first, from what find() saw: the *)
(* record's present state is not read again.                               *)
MarkStale(c) ==
  /\ call[c].pc = "marking"
  /\ \E id \in call[c].todo :
       /\ \A other \in call[c].todo : records[other].version <= records[id].version
       /\ WriteState(id, "stale")
       /\ call' = [call EXCEPT ![c].todo = @ \ {id}]
  /\ UNCHANGED store

EndInvalidate(c) ==
  /\ call[c].pc = "marking"
  /\ call[c].todo = {}
  /\ call' = [call EXCEPT ![c] = Idle]
  /\ UNCHANGED <<records, store>>

-----------------------------------------------------------------------------
(* The database refuses the next statement of a call, or the process that  *)
(* runs it dies: nothing undoes the steps already taken.                   *)
Fail(c) ==
  /\ call[c].pc \in PublishPC \cup {"marking"}
  /\ call' = [call EXCEPT ![c] = Raised]
  /\ UNCHANGED <<records, store>>

-----------------------------------------------------------------------------
(* The calls the application makes (api/app.py, the rebuild worker and the *)
(* validation service): publications that never require validation, and no *)
(* invalidation.                                                           *)
AppCalls(c) ==
  \/ \E s \in Scopes, hash \in Hashes, artifacts \in Publications :
       BeginPublish(c, s, hash, artifacts, FALSE)
  \/ PublishStep(c)
  \/ Finish(c)

(* The calls the service offers. *)
ServiceCalls(c) ==
  \/ AppCalls(c)
  \/ \E s \in Scopes, hash \in Hashes, artifacts \in Publications :
       BeginPublish(c, s, hash, artifacts, TRUE)
  \/ BeginInvalidate(c)
  \/ MarkStale(c)
  \/ EndInvalidate(c)

AppNext == \E c \in Clients : AppCalls(c) \/ Fail(c)

Next == \E c \in Clients : ServiceCalls(c) \/ Fail(c)

AppSpec == Init /\ [][AppNext]_vars

Spec == Init /\ [][Next]_vars

-----------------------------------------------------------------------------
(* A record leaves GENERATED only when every artifact it declares has been *)
(* stored, whatever fails in between: publish() writes the registry row    *)
(* first, the payloads next and the state last.                            *)
ServedIsComplete ==
  \A id \in Registered :
    records[id].state # "generated" =>
      records[id].artifact_kinds \subseteq DOMAIN store[id]

(* A published version is never rewritten: once its record has left        *)
(* GENERATED only the record's state changes, and none of its artifacts,   *)
(* though register() and put() are upserts and other calls are under way.  *)
PublishedIsImmutable ==
  [][ \A id \in Registered :
        records[id].state # "generated" =>
          /\ store'[id] = store[id]
          /\ [records[id] EXCEPT !.state = "active"]
               = [records'[id] EXCEPT !.state = "active"] ]_vars

(* A context withdrawn from service, superseded or stale, is never served  *)
(* again, though set_state() and invalidate() write states decided on an   *)
(* earlier read.                                                           *)
WithdrawnIsNeverServed ==
  [][ \A id \in Registered :
        records[id].state \in {"stale", "superseded"} =>
          records'[id].state \in {"stale", "superseded"} ]_vars

(* When publish() returns, the version it replaced is out of service and   *)
(* stays so: no overlapping call brings it back before the caller goes on. *)
PredecessorRetired ==
  \A c \in Clients :
    call[c].pc = "returned" /\ call[c].previous # NoContext =>
      records[call[c].previous].state \in {"superseded", "stale"}

(* As long as callers only publish, a scope serves version after version   *)
(* without ever falling back or going dark, whatever calls overlap and     *)
(* fail: the version a reader is served implements the abstract counter.   *)
Reader == INSTANCE ContextVersion WITH
            version <- [s \in Scopes |-> ServedVersion(s)]

ServesVersionsInOrder == Reader!Spec

=============================================================================
