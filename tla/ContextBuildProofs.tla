------------------------- MODULE ContextBuildProofs -------------------------
(***************************************************************************)
(* Proofs about ContextBuild, for any number of builds and reviews that    *)
(* overlap, fail and are retried while the source database changes.        *)
(*                                                                         *)
(* Every step of a build or a review is a step of the registry, or leaves  *)
(* it alone, so what ContextRegistryRefinement proves of the registry      *)
(* holds here.  What is added follows a schema hash on its way: from the   *)
(* introspection, or the record under review, to the job, from the job to  *)
(* its call of publish(), and from there to the record and to its stored   *)
(* snapshot, each of which says the same hash.                             *)
(***************************************************************************)
EXTENDS ContextBuild, ContextRegistryRefinement

(* Artifacts as builds and reviews publish them: the snapshot is that of   *)
(* the hash, and an ontology has its slots.                                *)
Sound(artifacts, hash) ==
  /\ SchemaKind \in DOMAIN artifacts /\ artifacts[SchemaKind] = hash
  /\ OntologyKind \in DOMAIN artifacts => artifacts[OntologyKind] \in Ontologies

CallSound(c) ==
  /\ call[c].pc \in PublishPC => Sound(call[c].artifacts, call[c].schema_hash)
  /\ call[c].pc \in PublishPC \ {"register"} =>
       records[call[c].context_id].schema_hash = call[c].schema_hash
  /\ call[c].pc = "returned" => ServesAtLeast(call[c].scope, call[c].version)

(* A row of the table, and the artifacts stored under its id.              *)
RowSound(id) ==
  /\ SchemaKind \in DOMAIN store[id] =>
       id \in Registered /\ store[id][SchemaKind] = records[id].schema_hash
  /\ OntologyKind \in DOMAIN store[id] => store[id][OntologyKind] \in Ontologies
  /\ id \in Registered => SchemaKind \in records[id].artifact_kinds

(* What a job holds at each of its labels.                                 *)
JobSound(c) ==
  /\ job[c].pc \in {"check", "analyze"} => job[c].hash \in Hashes
  /\ job[c].pc = "load" =>
       job[c].base \in Registered /\ records[job[c].base].state # "generated"
  /\ job[c].pc \in {"publish", "publishing"} =>
       job[c].hash \in Hashes /\ Sound(job[c].artifacts, job[c].hash)
  /\ job[c].pc = "publishing" /\ call[c].pc \in PublishPC \cup {"returned"} =>
       call[c].scope = job[c].scope
  /\ job[c].pc = "ended" /\ job[c].version > 0 => ServesAtLeast(job[c].scope, job[c].version)

RegistrySound ==
  /\ AppInv
  /\ \A c \in Clients : CallSound(c)
  /\ \A id \in ContextIds : RowSound(id)

BuildInv ==
  /\ RegistrySound
  /\ BuildTypeOK
  /\ \A c \in Clients : JobSound(c)

-----------------------------------------------------------------------------
USE ContextRegistryAssumption, ContextBuildAssumption

(* The steps of the registry that builds and reviews take.                 *)
RegistryStep ==
  \E c \in Clients :
    \/ PublishStep(c) \/ Finish(c) \/ Fail(c)
    \/ \E s \in Scopes, hash \in Hashes, artifacts \in Publications :
         Sound(artifacts, hash) /\ BeginPublish(c, s, hash, artifacts, FALSE)

LEMMA RegistryStepIsApp == [RegistryStep]_vars => [AppNext]_vars /\ [Next]_vars
<1>1. [RegistryStep]_vars => [AppNext]_vars BY DEF RegistryStep, AppNext, AppCalls
<1> QED BY <1>1, AppImpliesNext

(* A registered row keeps all but its state, and never returns to          *)
(* GENERATED.                                                              *)
RowStays(id) ==
  /\ id \in Registered'
  /\ records'[id].schema_hash = records[id].schema_hash
  /\ records'[id].artifact_kinds = records[id].artifact_kinds
  /\ records[id].state # "generated" => records'[id].state # "generated"

LEMMA RowsStay == ASSUME AppInv, [AppNext]_vars, NEW id \in Registered PROVE RowStays(id)
<1>1. TypeOK /\ \A c \in Clients : CallConsistent(c) /\ AppCallInv(c)
  BY DEF AppInv, IInv
<1>2. CASE UNCHANGED records BY <1>2 DEF RowStays, Registered
<1>3. ASSUME NEW c \in Clients, Register(c) PROVE RowStays(id)
  BY <1>3 DEF Register, RowStays, Registered
<1>4. ASSUME NEW c \in Clients, Activate(c) \/ Supersede(c) PROVE RowStays(id)
  <2>1. PICK i \in Registered, state \in LifecycleStates \ {"generated"} : WriteState(i, state)
    <3>1. call[c] \in PublishCall BY <1>1, <1>4, CallShape DEF Activate, Supersede, PublishPC
    <3>2. CASE Activate(c)
      BY <1>1, <3>1, <3>2, StatesKnown DEF Activate, CallConsistent, PublishPC, PublishCall
    <3>3. CASE Supersede(c)
      BY <1>1, <3>1, <3>3, StatesKnown DEF Supersede, CallConsistent, PublishPC, PublishCall
    <3> QED BY <1>4, <3>2, <3>3
  <2>2. /\ Registered' = Registered
        /\ \A r \in Registered : r # i => records'[r] = records[r]
        /\ records'[i] = [records[i] EXCEPT !.state = state]
    BY <1>1, <2>1, WriteStateType DEF TypeOK, Registered
  <2>3. records[i] \in Record BY <1>1, <2>1 DEF TypeOK, Registered
  <2>4. CASE id = i
    BY <2>1, <2>2, <2>3, <2>4 DEF RowStays, Record
  <2>5. CASE id # i BY <2>2, <2>5 DEF RowStays
  <2> QED BY <2>4, <2>5
<1> QED
  BY <1>2, <1>3, <1>4
     DEF AppNext, AppCalls, PublishStep, BeginPublish, PutArtifact, CheckActivate,
         GetPublished, CheckSupersede, Finish, Fail, vars

-----------------------------------------------------------------------------
(* The rows of the tables.                                                 *)

LEMMA RowsStaySound == ASSUME RegistrySound, [RegistryStep]_vars, NEW id \in ContextIds
                       PROVE  RowSound(id)'
<1>1. AppInv /\ TypeOK /\ RowSound(id) /\ \A c \in Clients : CallSound(c) /\ CallConsistent(c)
  BY DEF RegistrySound, AppInv, IInv
<1>2. id \in Registered => RowStays(id) BY <1>1, RegistryStepIsApp, RowsStay
<1>3. CASE UNCHANGED <<records, store>> BY <1>1, <1>3 DEF RowSound, Registered
<1>4. ASSUME NEW c \in Clients, Register(c) PROVE RowSound(id)'
  <2>1. call[c] \in PublishCall BY <1>1, <1>4, CallShape DEF Register, PublishPC
  <2>2. SchemaKind \in DOMAIN call[c].artifacts
    BY <1>1, <1>4 DEF CallSound, Register, PublishPC, Sound
  <2>3. /\ store' = store
        /\ id \in Registered' \ Registered =>
             records'[id].artifact_kinds = DOMAIN call[c].artifacts
    BY <1>4 DEF Register, Registered
  <2> QED BY <1>1, <1>2, <2>2, <2>3 DEF RowSound, RowStays
<1>5. ASSUME NEW c \in Clients, PutArtifact(c) PROVE RowSound(id)'
  <2>1. call[c] \in PublishCall BY <1>1, <1>5, CallShape DEF PutArtifact, PublishPC
  <2> DEFINE own == call[c].context_id
  <2>2. PICK kind \in MissingKinds(c) :
          store' = [store EXCEPT ![own] =
                      [k \in DOMAIN @ \cup {kind} |->
                         IF k = kind THEN call[c].artifacts[kind] ELSE @[k]]]
    BY <1>5 DEF PutArtifact
  <2>3. /\ own \in Registered /\ own \in ContextIds
        /\ records[own].schema_hash = call[c].schema_hash
        /\ Sound(call[c].artifacts, call[c].schema_hash)
        /\ kind \in DOMAIN call[c].artifacts
    BY <1>1, <1>5, <2>2 DEF CallSound, CallConsistent, PutArtifact, PublishPC, MissingKinds,
                            TypeOK, Registered
  <2>4. records' = records BY <1>5 DEF PutArtifact
  <2>5. CASE id # own
    <3>1. store'[id] = store[id] BY <1>1, <2>2, <2>5 DEF TypeOK
    <3> QED BY <1>1, <2>4, <3>1 DEF RowSound, Registered
  <2>6. CASE id = own
    <3>1. /\ DOMAIN store'[id] = DOMAIN store[id] \cup {kind}
          /\ store'[id][kind] = call[c].artifacts[kind]
          /\ \A k \in DOMAIN store[id] \ {kind} : store'[id][k] = store[id][k]
      BY <1>1, <2>2, <2>3, <2>6 DEF TypeOK
    <3> QED BY <1>1, <2>3, <2>4, <2>6, <3>1 DEF RowSound, Registered, Sound
  <2> QED BY <2>5, <2>6
<1>6. ASSUME NEW c \in Clients, Activate(c) \/ Supersede(c) PROVE RowSound(id)'
  <2>1. store' = store /\ Registered' \subseteq Registered
    BY <1>6 DEF Activate, Supersede, WriteState, Registered
  <2> QED BY <1>1, <1>2, <2>1 DEF RowSound, RowStays
<1> QED
  BY <1>3, <1>4, <1>5, <1>6
     DEF RegistryStep, PublishStep, BeginPublish, CheckActivate, GetPublished, CheckSupersede,
         Finish, Fail, vars

-----------------------------------------------------------------------------
(* The calls of publish().                                                 *)

(* A publication keeps the hash and the artifacts it was called with.      *)
LEMMA PublishKeepsArguments ==
  ASSUME TypeOK, NEW c \in Clients, PublishStep(c), call'[c] # Raised
  PROVE  /\ call'[c].schema_hash = call[c].schema_hash
         /\ call'[c].artifacts = call[c].artifacts
         /\ ~ Register(c) => call'[c].context_id = call[c].context_id
         /\ Register(c) <=> call[c].pc = "register"
         /\ call'[c].pc # "register"
         /\ call'[c].pc = "returned" => call[c].pc \in {"get", "superseding"}
<1>1. call[c].pc \in PublishPC /\ call[c] \in PublishCall
  BY CallShape
     DEF PublishStep, PublishPC, Register, PutArtifact, CheckActivate, Activate, GetPublished,
         CheckSupersede, Supersede
<1>2. CASE Register(c)
  <2>1. PICK id \in ContextIds : call'[c] = [call[c] EXCEPT !.pc = "put", !.context_id = id]
    BY <1>2 DEF Register, TypeOK
  <2>2. call[c].pc = "register" BY <1>2 DEF Register
  <2> QED BY <1>1, <1>2, <2>1, <2>2 DEF PublishCall
<1>3. CASE PutArtifact(c) BY <1>1, <1>3 DEF PutArtifact, Register
<1>4. CASE CheckActivate(c)
  BY <1>1, <1>4 DEF CheckActivate, Goto, TypeOK, PublishCall, PublishPC, Register
<1>5. CASE Activate(c)
  BY <1>1, <1>5 DEF Activate, Goto, TypeOK, PublishCall, PublishPC, Register
<1>6. CASE GetPublished(c)
  BY <1>1, <1>6 DEF GetPublished, TypeOK, PublishCall, PublishPC, Register
<1>7. CASE CheckSupersede(c)
  BY <1>1, <1>7 DEF CheckSupersede, Goto, TypeOK, PublishCall, PublishPC, Register
<1>8. CASE Supersede(c)
  BY <1>1, <1>8 DEF Supersede, Goto, TypeOK, PublishCall, PublishPC, Register
<1> QED BY <1>1, <1>2, <1>3, <1>4, <1>5, <1>6, <1>7, <1>8 DEF PublishStep

(* What is served of a scope only moves on.                                *)
LEMMA ServedStays ==
  ASSUME AppInv, [AppNext]_vars
  PROVE  \A s \in Scopes : \A v \in Nat : ServesAtLeast(s, v) => ServesAtLeast(s, v)'
BY ServingStep DEF KeepsServing

LEMMA CallsStaySound == ASSUME RegistrySound, [RegistryStep]_vars, NEW d \in Clients
                        PROVE  CallSound(d)'
<1>1. /\ AppInv /\ TypeOK /\ CallSound(d) /\ CallConsistent(d) /\ AppCallInv(d)
      /\ [AppNext]_vars
  BY RegistryStepIsApp DEF RegistrySound, AppInv, IInv
<1>2. call[d].pc \in PublishPC \ {"register"} =>
        /\ call[d].context_id \in Registered
        /\ records'[call[d].context_id].schema_hash = call[d].schema_hash
  BY <1>1, RowsStay DEF CallSound, CallConsistent, RowStays
<1>3. call[d].pc \in {"get", "supersede", "superseding", "returned"} =>
        \E id \in NextActive(call[d].scope) : records'[id].version >= call[d].version
  <2> SUFFICES ASSUME call[d].pc \in {"get", "supersede", "superseding", "returned"}
               PROVE  \E id \in NextActive(call[d].scope) :
                        records'[id].version >= call[d].version
    OBVIOUS
  <2>1. call[d] \in PublishCall BY <1>1, CallShape DEF PublishPC
  <2>2. PICK s \in Scopes, v \in Nat : s = call[d].scope /\ v = call[d].version
    BY <2>1 DEF PublishCall
  <2>3. ServesAtLeast(s, v) BY <1>1, <2>2 DEF CallSound, AppCallInv, ServesAtLeast, PublishPC
  <2>4. ServesAtLeast(s, v)' BY <1>1, <2>3, ServedStays
  <2> QED BY <2>2, <2>4 DEF ServesAtLeast, NextActive, ActiveRecords, Registered
<1>4. CASE call'[d] = call[d]
  BY <1>1, <1>2, <1>3, <1>4
     DEF CallSound, ServesAtLeast, NextActive, ActiveRecords, Registered
<1>5. ASSUME NEW s \in Scopes, NEW hash \in Hashes, NEW artifacts \in Publications,
             Sound(artifacts, hash), BeginPublish(d, s, hash, artifacts, FALSE)
      PROVE  CallSound(d)'
  <2>1. /\ call'[d].pc = "register" /\ call'[d].artifacts = artifacts
        /\ call'[d].schema_hash = hash
    BY <1>1, <1>5 DEF BeginPublish, TypeOK
  <2> QED BY <1>5, <2>1 DEF CallSound
<1>6. CASE PublishStep(d)
  <2>1. CASE call'[d] = Raised BY <2>1 DEF CallSound, Raised, PublishPC
  <2>2. CASE call'[d] # Raised
    <3>1. /\ call[d].pc \in PublishPC
          /\ call'[d].scope = call[d].scope /\ call'[d].version = call[d].version
      BY <1>1, <1>6, <2>2, PublishStepFields
    <3>2. /\ call'[d].schema_hash = call[d].schema_hash
          /\ call'[d].artifacts = call[d].artifacts
          /\ ~ Register(d) => call'[d].context_id = call[d].context_id
          /\ Register(d) <=> call[d].pc = "register"
          /\ call'[d].pc # "register"
          /\ call'[d].pc = "returned" => call[d].pc \in {"get", "superseding"}
      BY <1>1, <1>6, <2>2, PublishKeepsArguments
    <3>3. Register(d) => records'[call'[d].context_id].schema_hash = call[d].schema_hash
      <4> SUFFICES ASSUME Register(d)
                   PROVE  records'[call'[d].context_id].schema_hash = call[d].schema_hash
        OBVIOUS
      <4>1. call[d] \in PublishCall BY <1>1, <3>1, CallShape
      <4> QED BY <1>1, <4>1 DEF Register, TypeOK, PublishCall
    <3> QED
      BY <1>1, <1>2, <1>3, <3>1, <3>2, <3>3
         DEF CallSound, ServesAtLeast, NextActive, ActiveRecords, Registered
  <2> QED BY <2>1, <2>2
<1>7. CASE Finish(d) \/ Fail(d)
  BY <1>1, <1>7 DEF Finish, Fail, TypeOK, CallSound, Idle, Raised, PublishPC
<1>8. ASSUME NEW c \in Clients, c # d,
             \/ PublishStep(c) \/ Finish(c) \/ Fail(c)
             \/ \E s \in Scopes, hash \in Hashes, artifacts \in Publications :
                  BeginPublish(c, s, hash, artifacts, FALSE)
      PROVE  call'[d] = call[d]
  BY <1>1, <1>8, OthersUntouched DEF BeginPublish, TypeOK
<1> QED BY <1>4, <1>5, <1>6, <1>7, <1>8 DEF RegistryStep, vars

LEMMA RegistryStaysSound == RegistrySound /\ [RegistryStep]_vars => RegistrySound'
BY RegistryStepIsApp, AppInvStep, RowsStaySound, CallsStaySound DEF RegistrySound

-----------------------------------------------------------------------------
(* The jobs: the shape of a job, and what Step and End make of it.         *)

JobFields ==
  {"pc", "task", "scope", "enrichment", "skip", "tries", "hash", "artifacts", "base"}

Labels == {"introspect", "check", "analyze", "decide", "load", "publish", "publishing"}

LEMMA JobShape ==
  ASSUME BuildTypeOK, NEW c \in Clients
  PROVE  /\ job[c].pc \in Labels => job[c] \in Jobs
         /\ job[c].pc = "ended" => job[c] \in EndedJobs
BY DEF BuildTypeOK, Labels, IdleJob, Jobs, EndedJobs

LEMMA IsJob ==
  ASSUME NEW j, j = [f \in JobFields |-> j[f]],
         j.pc \in Labels, j.task \in Tasks, j.scope \in Scopes,
         j.enrichment \in BOOLEAN, j.skip \in BOOLEAN, j.tries \in 0 .. MaxRetries,
         j.hash \in Hashes \cup {NoContext}, j.artifacts \in Artifacts,
         j.base \in ContextIds \cup {NoContext}
  PROVE  j \in Jobs
BY DEF JobFields, Labels, Jobs

LEMMA JobIs ==
  ASSUME NEW j \in Jobs
  PROVE  /\ j = [f \in JobFields |-> j[f]] /\ DOMAIN j = JobFields
         /\ j.pc \in Labels /\ j.task \in Tasks /\ j.scope \in Scopes
         /\ j.enrichment \in BOOLEAN /\ j.skip \in BOOLEAN /\ j.tries \in 0 .. MaxRetries
         /\ j.hash \in Hashes \cup {NoContext} /\ j.artifacts \in Artifacts
         /\ j.base \in ContextIds \cup {NoContext}
BY DEF JobFields, Labels, Jobs

LEMMA StepShape ==
  ASSUME BuildTypeOK, NEW c \in Clients, job[c].pc \in Labels, NEW fields, Step(c, fields)
  PROVE  /\ job'[c] = [f \in JobFields |-> job'[c][f]]
         /\ \A f \in JobFields :
              job'[c][f] = IF f \in DOMAIN fields THEN fields[f] ELSE job[c][f]
         /\ \A d \in Clients \ {c} : job'[d] = job[d]
         /\ job' = [job EXCEPT ![c] = job'[c]]
<1>1. DOMAIN job[c] = JobFields BY JobShape, JobIs
<1> QED BY <1>1 DEF Step, BuildTypeOK

(* The job after a step, from the fields the step names.                   *)
LEMMA NextJob ==
  ASSUME BuildTypeOK, NEW c \in Clients, job[c].pc \in Labels, NEW fields, Step(c, fields),
         DOMAIN fields \subseteq {"pc", "tries", "hash", "artifacts", "base"},
         job'[c].pc \in Labels, job'[c].tries \in 0 .. MaxRetries,
         job'[c].hash \in Hashes \cup {NoContext}, job'[c].artifacts \in Artifacts,
         job'[c].base \in ContextIds \cup {NoContext}
  PROVE  job'[c] \in Jobs
<1>1. job[c] \in Jobs BY JobShape
<1>2. /\ job'[c] = [f \in JobFields |-> job'[c][f]]
      /\ \A f \in JobFields :
           job'[c][f] = IF f \in DOMAIN fields THEN fields[f] ELSE job[c][f]
  BY StepShape
<1>3. \A f \in {"task", "scope", "enrichment", "skip"} : job'[c][f] = job[c][f]
  BY <1>2 DEF JobFields
<1> QED BY <1>1, <1>2, <1>3, JobIs, IsJob

(* What a step of client c has to establish: the registry takes a step of  *)
(* its own, and the job that moves is sound again.                         *)
Acts(c) ==
  /\ [RegistryStep]_vars
  /\ schema' \in Hashes /\ changes' \in 0 .. MaxChanges
  /\ job'[c] \in {IdleJob} \cup Jobs \cup EndedJobs
  /\ job' = [job EXCEPT ![c] = job'[c]]
  /\ \A d \in Clients \ {c} : call'[d] = call[d]
  /\ JobSound(c)'

(* A job that does not move stays sound while the registry moves on.       *)
LEMMA JobFrame ==
  ASSUME BuildInv, [RegistryStep]_vars, NEW d \in Clients, job'[d] = job[d],
         job[d].pc = "publishing" /\ call'[d].pc \in PublishPC \cup {"returned"} =>
           call'[d].scope = job[d].scope
  PROVE  JobSound(d)'
<1>1. AppInv /\ BuildTypeOK /\ JobSound(d) /\ [AppNext]_vars
  BY RegistryStepIsApp DEF BuildInv, RegistrySound
<1>2. job[d].pc = "load" =>
        job[d].base \in Registered' /\ records'[job[d].base].state # "generated"
  BY <1>1, RowsStay DEF JobSound, RowStays
<1>3. ASSUME job[d].pc = "ended", job[d].version > 0
      PROVE  ServesAtLeast(job[d].scope, job[d].version)'
  <2>1. PICK s \in Scopes, v \in Nat : s = job[d].scope /\ v = job[d].version
    BY <1>1, <1>3, JobShape DEF EndedJobs
  <2>2. ServesAtLeast(s, v) BY <1>1, <1>3, <2>1 DEF JobSound, ServesAtLeast
  <2>3. ServesAtLeast(s, v)' BY <1>1, <2>2, ServedStays
  <2> QED BY <2>1, <2>3 DEF ServesAtLeast, ActiveRecords, Registered
<1> QED
  BY <1>1, <1>2, <1>3 DEF JobSound, Sound, ServesAtLeast, ActiveRecords, Registered

LEMMA ActsKeeps == ASSUME BuildInv, NEW c \in Clients, Acts(c) PROVE BuildInv'
<1>1. RegistrySound' BY RegistryStaysSound DEF Acts, BuildInv
<1>2. BuildTypeOK' BY <1>1 DEF Acts, BuildInv, BuildTypeOK, RegistrySound, AppInv, IInv
<1>3. ASSUME NEW d \in Clients, d # c PROVE JobSound(d)'
  BY <1>3, JobFrame DEF Acts, BuildInv, BuildTypeOK, JobSound
<1> QED BY <1>1, <1>2, <1>3 DEF Acts, BuildInv

(* A job that ends without a version.                                      *)
LEMMA EndActs ==
  ASSUME BuildInv, NEW c \in Clients, job[c].pc \in Labels, NEW result \in Results,
         End(c, result, 0), UnchangedRegistry, UnchangedSource
  PROVE  Acts(c)
<1>1. BuildTypeOK /\ job[c] \in Jobs BY JobShape DEF BuildInv
<1>2. job'[c] = [pc |-> "ended", scope |-> job[c].scope, result |-> result, version |-> 0]
  BY <1>1 DEF End, BuildTypeOK
<1>3. job[c].scope \in Scopes BY <1>1, JobIs
<1>4. job'[c] \in EndedJobs BY <1>2, <1>3 DEF EndedJobs
<1>5. JobSound(c)' BY <1>2 DEF JobSound
<1> QED
  BY <1>1, <1>2, <1>4, <1>5
     DEF Acts, End, UnchangedRegistry, UnchangedSource, vars, BuildTypeOK

(* A job that goes on by a step that leaves the registry and the source.   *)
LEMMA QuietStepActs ==
  ASSUME BuildInv, NEW c \in Clients, job[c].pc \in Labels, NEW fields, Step(c, fields),
         UnchangedRegistry, UnchangedSource, job'[c] \in Jobs, JobSound(c)'
  PROVE  Acts(c)
<1>1. BuildTypeOK BY DEF BuildInv
<1>2. job' = [job EXCEPT ![c] = job'[c]] BY <1>1, StepShape
<1> QED BY <1>1, <1>2 DEF Acts, UnchangedRegistry, UnchangedSource, vars, BuildTypeOK

LEMMA ResultsKnown ==
  {"current", "failed", "raised"} \subseteq Results /\ LifecycleStates \subseteq Results
BY DEF Results

-----------------------------------------------------------------------------
(* One lemma per step of a job.                                            *)

LEMMA StartBuildActs ==
  ASSUME BuildInv, NEW c \in Clients, NEW s \in Scopes, NEW enrichment \in BOOLEAN,
         NEW skip \in BOOLEAN, StartBuild(c, s, enrichment, skip)
  PROVE  Acts(c)
<1>1. BuildTypeOK BY DEF BuildInv
<1> DEFINE j == [pc |-> "introspect", task |-> "build", scope |-> s,
                 enrichment |-> enrichment, skip |-> skip, tries |-> MaxRetries,
                 hash |-> NoContext, artifacts |-> [k \in {} |-> NoContext],
                 base |-> NoContext]
<1>2. [k \in {} |-> NoContext] \in Artifacts
  <2>1. [k \in {} |-> NoContext] \in [{} -> Payloads] OBVIOUS
  <2> QED BY <2>1 DEF Artifacts
<1>3. j \in Jobs /\ j.pc = "introspect" BY <1>2 DEF Jobs, Tasks
<1>4. job' = [job EXCEPT ![c] = j] BY DEF StartBuild
<1> HIDE DEF j
<1>5. job'[c] = j BY <1>1, <1>4 DEF BuildTypeOK
<1>6. JobSound(c)' BY <1>3, <1>5 DEF JobSound
<1> QED
  BY <1>1, <1>3, <1>4, <1>5, <1>6
     DEF Acts, StartBuild, UnchangedRegistry, UnchangedSource, vars, BuildTypeOK

LEMMA IntrospectActs == ASSUME BuildInv, NEW c \in Clients, Introspect(c) PROVE Acts(c)
<1>1. BuildTypeOK /\ job[c].pc \in Labels /\ job[c] \in Jobs
  BY JobShape DEF BuildInv, Introspect, Labels
<1> DEFINE fields == [hash |-> schema, pc |-> IF job[c].skip THEN "check" ELSE "analyze"]
<1>2. Step(c, fields) BY DEF Introspect
<1>3. \A f \in JobFields :
        job'[c][f] = IF f \in DOMAIN fields THEN fields[f] ELSE job[c][f]
  BY <1>1, <1>2, StepShape
<1>4. /\ job'[c].hash = schema /\ job'[c].pc \in {"check", "analyze"}
      /\ \A f \in {"tries", "artifacts", "base"} : job'[c][f] = job[c][f]
  BY <1>3 DEF JobFields
<1>5. schema \in Hashes BY <1>1 DEF BuildTypeOK
<1>6. DOMAIN fields \subseteq {"pc", "tries", "hash", "artifacts", "base"} OBVIOUS
<1> HIDE DEF fields
<1>7. job'[c] \in Jobs BY <1>1, <1>2, <1>4, <1>5, <1>6, NextJob, JobIs DEF Labels
<1>8. JobSound(c)' BY <1>4, <1>5 DEF JobSound
<1> QED BY <1>1, <1>2, <1>7, <1>8, QuietStepActs DEF Introspect

LEMMA IntrospectFailsActs ==
  ASSUME BuildInv, NEW c \in Clients, IntrospectFails(c) \/ ReadFails(c)
  PROVE  Acts(c)
<1>1. job[c].pc \in Labels BY DEF IntrospectFails, ReadFails, Labels
<1> QED BY <1>1, EndActs, ResultsKnown DEF IntrospectFails, ReadFails

(* A step that only moves the label of a job.                              *)
LEMMA GotoAnalyzeActs ==
  ASSUME BuildInv, NEW c \in Clients, job[c].pc = "check", Step(c, [pc |-> "analyze"]),
         UnchangedRegistry, UnchangedSource
  PROVE  Acts(c)
<1>1. BuildTypeOK /\ job[c].pc \in Labels /\ job[c] \in Jobs /\ JobSound(c)
  BY JobShape DEF BuildInv, Labels
<1> DEFINE fields == [pc |-> "analyze"]
<1>2. Step(c, fields) OBVIOUS
<1>3. \A f \in JobFields :
        job'[c][f] = IF f \in DOMAIN fields THEN fields[f] ELSE job[c][f]
  BY <1>1, <1>2, StepShape
<1>4. /\ job'[c].pc = "analyze"
      /\ \A f \in {"tries", "hash", "artifacts", "base"} : job'[c][f] = job[c][f]
  BY <1>3 DEF JobFields
<1>5. DOMAIN fields \subseteq {"pc", "tries", "hash", "artifacts", "base"} OBVIOUS
<1> HIDE DEF fields
<1>6. job'[c] \in Jobs BY <1>1, <1>2, <1>4, <1>5, NextJob, JobIs DEF Labels
<1>7. JobSound(c)' BY <1>1, <1>4 DEF JobSound
<1> QED BY <1>1, <1>2, <1>6, <1>7, QuietStepActs

LEMMA CheckCurrentActs == ASSUME BuildInv, NEW c \in Clients, CheckCurrent(c) PROVE Acts(c)
<1>1. job[c].pc = "check" /\ job[c].pc \in Labels BY DEF CheckCurrent, Labels
<1>2. End(c, "current", 0) \/ Step(c, [pc |-> "analyze"]) BY DEF CheckCurrent
<1> QED BY <1>1, <1>2, EndActs, GotoAnalyzeActs, ResultsKnown DEF CheckCurrent

(* What is derived from the snapshot is sound for its hash.                *)
LEMMA AnalyzeActs == ASSUME BuildInv, NEW c \in Clients, Analyze(c) PROVE Acts(c)
<1>1. /\ BuildTypeOK /\ job[c].pc \in Labels /\ job[c] \in Jobs /\ job[c].hash \in Hashes
      /\ UnchangedRegistry /\ UnchangedSource
  BY JobShape DEF BuildInv, Analyze, Labels, JobSound
<1>2. PICK a \in Artifacts : Sound(a, job[c].hash) /\ Step(c, [pc |-> "publish", artifacts |-> a])
  <2>1. ASSUME Step(c, [pc |-> "publish", artifacts |-> [k \in {SchemaKind} |-> job[c].hash]])
        PROVE  \E a \in Artifacts : /\ Sound(a, job[c].hash)
                                    /\ Step(c, [pc |-> "publish", artifacts |-> a])
    <3> DEFINE a == [k \in {SchemaKind} |-> job[c].hash]
    <3>1. a \in [{SchemaKind} -> Payloads] BY <1>1
    <3>2. a \in Artifacts BY <3>1 DEF Artifacts
    <3>3. Sound(a, job[c].hash) BY DEF Sound
    <3> QED BY <2>1, <3>2, <3>3
  <2>2. ASSUME NEW proposal \in Proposals,
               Step(c, [pc |-> "publish",
                        artifacts |-> [k \in {SchemaKind, OntologyKind} |->
                          IF k = SchemaKind THEN job[c].hash ELSE proposal]])
        PROVE  \E a \in Artifacts : /\ Sound(a, job[c].hash)
                                    /\ Step(c, [pc |-> "publish", artifacts |-> a])
    <3> DEFINE a == [k \in {SchemaKind, OntologyKind} |->
                       IF k = SchemaKind THEN job[c].hash ELSE proposal]
    <3>1. proposal \in Ontologies BY DEF Proposals
    <3>2. a \in [{SchemaKind, OntologyKind} -> Payloads] BY <1>1, <3>1
    <3>3. a \in Artifacts BY <3>2 DEF Artifacts
    <3>4. Sound(a, job[c].hash) BY <3>1 DEF Sound
    <3> QED BY <2>2, <3>3, <3>4
  <2> QED BY <2>1, <2>2 DEF Analyze
<1> DEFINE fields == [pc |-> "publish", artifacts |-> a]
<1>3. Step(c, fields) BY <1>2
<1>4. \A f \in JobFields :
        job'[c][f] = IF f \in DOMAIN fields THEN fields[f] ELSE job[c][f]
  BY <1>1, <1>3, StepShape
<1>5. /\ job'[c].pc = "publish" /\ job'[c].artifacts = a
      /\ \A f \in {"tries", "hash", "base"} : job'[c][f] = job[c][f]
  BY <1>4 DEF JobFields
<1>6. DOMAIN fields \subseteq {"pc", "tries", "hash", "artifacts", "base"} OBVIOUS
<1> HIDE DEF fields
<1>7. job'[c] \in Jobs BY <1>1, <1>2, <1>3, <1>5, <1>6, NextJob, JobIs DEF Labels
<1>8. JobSound(c)' BY <1>1, <1>2, <1>5 DEF JobSound, Sound
<1> QED BY <1>1, <1>3, <1>7, <1>8, QuietStepActs

-----------------------------------------------------------------------------
(* Reviews.                                                                *)

LEMMA ListPendingActs ==
  ASSUME BuildInv, NEW c \in Clients, NEW s \in Scopes, ListPending(c, s)
  PROVE  Acts(c)
<1>1. BuildTypeOK BY DEF BuildInv
<1> DEFINE j == [pc |-> "decide", task |-> "review", scope |-> s,
                 enrichment |-> FALSE, skip |-> FALSE, tries |-> 0,
                 hash |-> NoContext, artifacts |-> [k \in {} |-> NoContext],
                 base |-> NoContext]
<1>2. [k \in {} |-> NoContext] \in Artifacts
  <2>1. [k \in {} |-> NoContext] \in [{} -> Payloads] OBVIOUS
  <2> QED BY <2>1 DEF Artifacts
<1>3. j \in Jobs /\ j.pc = "decide" BY <1>2 DEF Jobs, Tasks
<1>4. job' = [job EXCEPT ![c] = j] BY DEF ListPending
<1> HIDE DEF j
<1>5. job'[c] = j BY <1>1, <1>4 DEF BuildTypeOK
<1>6. JobSound(c)' BY <1>3, <1>5 DEF JobSound
<1> QED
  BY <1>1, <1>3, <1>4, <1>5, <1>6
     DEF Acts, ListPending, UnchangedRegistry, UnchangedSource, vars, BuildTypeOK

(* What is served was published.                                           *)
LEMMA ApplyActs == ASSUME BuildInv, NEW c \in Clients, Apply(c) PROVE Acts(c)
<1>1. BuildTypeOK /\ TypeOK /\ job[c].pc \in Labels /\ job[c] \in Jobs
  BY JobShape DEF BuildInv, BuildTypeOK, Apply, Labels
<1>2. CASE End(c, "raised", 0) BY <1>1, <1>2, EndActs, ResultsKnown DEF Apply
<1>3. ASSUME NEW active \in LookupActive(job[c].scope), active # NoContext,
             Step(c, [pc |-> "load", base |-> active])
      PROVE  Acts(c)
  <2>1. /\ active \in Registered /\ active \in ContextIds
        /\ records[active].state # "generated"
    BY <1>1, <1>3, JobIs, LookupActiveFacts DEF ActiveRecords, TypeOK, Registered
  <2> DEFINE fields == [pc |-> "load", base |-> active]
  <2>2. Step(c, fields) BY <1>3
  <2>3. \A f \in JobFields :
          job'[c][f] = IF f \in DOMAIN fields THEN fields[f] ELSE job[c][f]
    BY <1>1, <2>2, StepShape
  <2>4. /\ job'[c].pc = "load" /\ job'[c].base = active
        /\ \A f \in {"tries", "hash", "artifacts"} : job'[c][f] = job[c][f]
    BY <2>3 DEF JobFields
  <2>5. DOMAIN fields \subseteq {"pc", "tries", "hash", "artifacts", "base"} OBVIOUS
  <2> HIDE DEF fields
  <2>6. job'[c] \in Jobs BY <1>1, <2>1, <2>2, <2>4, <2>5, NextJob, JobIs DEF Labels
  <2>7. JobSound(c)' BY <2>1, <2>4 DEF JobSound, Apply, UnchangedRegistry, Registered
  <2> QED BY <1>1, <2>2, <2>6, <2>7, QuietStepActs DEF Apply
<1> QED BY <1>2, <1>3 DEF Apply

(* The reviewed record was published complete: its snapshot is that of its *)
(* hash, and a decision changes the status of a slot of its ontology.      *)
LEMMA LoadAndDecideActs ==
  ASSUME BuildInv, NEW c \in Clients, LoadAndDecide(c) PROVE Acts(c)
<1>1. /\ BuildTypeOK /\ TypeOK /\ job[c].pc \in Labels /\ job[c] \in Jobs
      /\ job[c].base \in Registered /\ records[job[c].base].state # "generated"
      /\ ServedIsComplete /\ \A id \in ContextIds : RowSound(id)
  BY JobShape DEF BuildInv, BuildTypeOK, LoadAndDecide, Labels, JobSound, RegistrySound,
                  AppInv, IInv
<1> DEFINE base == store[job[c].base]
<1>2. /\ base \in Artifacts /\ records[job[c].base].schema_hash \in Hashes
      /\ SchemaKind \in DOMAIN base
      /\ base[SchemaKind] = records[job[c].base].schema_hash
      /\ OntologyKind \in DOMAIN base => base[OntologyKind] \in Ontologies
  BY <1>1 DEF TypeOK, Registered, Record, ServedIsComplete, RowSound
<1>3. CASE OntologyKind \notin DOMAIN base
  BY <1>1, <1>3, EndActs, ResultsKnown DEF LoadAndDecide
<1>4. CASE OntologyKind \in DOMAIN base
  <2>1. PICK slot \in Slots, decision \in {"approved", "rejected"} :
          Step(c, [pc |-> "publish", hash |-> records[job[c].base].schema_hash,
                   artifacts |-> [base EXCEPT ![OntologyKind][slot].status = decision]])
    BY <1>4 DEF LoadAndDecide
  <2> DEFINE reviewed == [base[OntologyKind] EXCEPT ![slot].status = decision]
             a == [base EXCEPT ![OntologyKind] = reviewed]
  <2>2. reviewed \in Ontologies BY <1>2, <1>4 DEF Ontologies
  <2>3. a = [base EXCEPT ![OntologyKind][slot].status = decision] OBVIOUS
  <2> HIDE DEF reviewed
  <2>4. a \in Artifacts
    <3>1. PICK K \in SUBSET Kinds : base \in [K -> Payloads] BY <1>2 DEF Artifacts
    <3>2. a \in [K -> Payloads] BY <2>2, <3>1
    <3> QED BY <3>2 DEF Artifacts
  <2>5. Sound(a, records[job[c].base].schema_hash)
    BY <1>2, <1>4, <2>2 DEF Sound, Artifacts
  <2>6. PICK hash \in Hashes : hash = records[job[c].base].schema_hash BY <1>2
  <2> DEFINE fields == [pc |-> "publish", hash |-> hash, artifacts |-> a]
  <2>7. Step(c, fields) BY <2>1, <2>3, <2>6
  <2> HIDE DEF a
  <2>8. \A f \in JobFields :
          job'[c][f] = IF f \in DOMAIN fields THEN fields[f] ELSE job[c][f]
    BY <1>1, <2>7, StepShape
  <2>9. /\ job'[c].pc = "publish" /\ job'[c].hash = hash /\ job'[c].artifacts = a
        /\ \A f \in {"tries", "base"} : job'[c][f] = job[c][f]
    BY <2>8 DEF JobFields
  <2>10. DOMAIN fields \subseteq {"pc", "tries", "hash", "artifacts", "base"} OBVIOUS
  <2> HIDE DEF fields
  <2>11. job'[c] \in Jobs BY <1>1, <2>4, <2>7, <2>9, <2>10, NextJob, JobIs DEF Labels
  <2>12. JobSound(c)' BY <2>5, <2>6, <2>9 DEF JobSound, Sound
  <2> QED BY <1>1, <2>7, <2>11, <2>12, QuietStepActs DEF LoadAndDecide
<1> QED BY <1>3, <1>4

-----------------------------------------------------------------------------
(* Publications.                                                           *)

LEMMA StartPublishActs == ASSUME BuildInv, NEW c \in Clients, StartPublish(c) PROVE Acts(c)
<1>1. /\ BuildTypeOK /\ TypeOK /\ job[c].pc \in Labels /\ job[c] \in Jobs
      /\ job[c].hash \in Hashes /\ Sound(job[c].artifacts, job[c].hash)
  BY JobShape DEF BuildInv, BuildTypeOK, StartPublish, Labels, JobSound
<1> DEFINE fields == [pc |-> "publishing"]
<1>2. Step(c, fields) BY DEF StartPublish
<1>3. \A f \in JobFields :
        job'[c][f] = IF f \in DOMAIN fields THEN fields[f] ELSE job[c][f]
  BY <1>1, <1>2, StepShape
<1>4. /\ job'[c].pc = "publishing"
      /\ \A f \in {"tries", "hash", "artifacts", "base", "scope"} : job'[c][f] = job[c][f]
  BY <1>3 DEF JobFields
<1>5. DOMAIN fields \subseteq {"pc", "tries", "hash", "artifacts", "base"} OBVIOUS
<1> HIDE DEF fields
<1>6. job'[c] \in Jobs BY <1>1, <1>2, <1>4, <1>5, NextJob, JobIs DEF Labels
<1>7. job' = [job EXCEPT ![c] = job'[c]] BY <1>1, <1>2, StepShape
<1>8. /\ job[c].scope \in Scopes /\ job[c].artifacts \in Publications
      /\ BeginPublish(c, job[c].scope, job[c].hash, job[c].artifacts, FALSE)
  BY <1>1, JobIs DEF StartPublish, Publications, Sound
<1>9. call'[c].scope = job[c].scope /\ \A d \in Clients \ {c} : call'[d] = call[d]
  BY <1>1, <1>8 DEF BeginPublish, TypeOK
<1>10. RegistryStep BY <1>1, <1>8 DEF RegistryStep
<1>11. JobSound(c)' BY <1>1, <1>4, <1>9 DEF JobSound, Sound
<1> QED
  BY <1>1, <1>6, <1>7, <1>9, <1>10, <1>11
     DEF Acts, StartPublish, UnchangedSource, BuildTypeOK

(* A step of the call, or its failure, under the job that waits for it.    *)
LEMMA PublishingActs ==
  ASSUME BuildInv, NEW c \in Clients, Publishing(c) \/ PublishFails(c)
  PROVE  Acts(c)
<1>1. BuildTypeOK /\ TypeOK /\ JobSound(c) BY DEF BuildInv, BuildTypeOK
<1>2. PublishStep(c) \/ Fail(c) BY DEF Publishing, PublishFails
<1>3. RegistryStep BY <1>2 DEF RegistryStep
<1>4. \A d \in Clients \ {c} : call'[d] = call[d] BY <1>1, <1>2, OthersUntouched
<1>5. job' = job /\ UnchangedSource BY DEF Publishing, PublishFails
<1>6. call'[c].pc \in PublishPC \cup {"returned"} =>
        call[c].pc \in PublishPC /\ call'[c].scope = call[c].scope
  <2>1. CASE call'[c] = Raised BY <2>1 DEF Raised, PublishPC
  <2>2. CASE PublishStep(c) /\ call'[c] # Raised BY <1>1, <2>2, PublishStepFields
  <2>3. CASE Fail(c) BY <1>1, <2>1, <2>3 DEF Fail, TypeOK
  <2> QED BY <1>2, <2>1, <2>2, <2>3
<1>7. JobSound(c)' BY <1>1, <1>3, <1>5, <1>6, JobFrame DEF JobSound
<1> QED
  BY <1>1, <1>3, <1>4, <1>5, <1>7 DEF Acts, UnchangedSource, BuildTypeOK

(* The answer names the version the call has just seen served.             *)
LEMMA PublishedActs == ASSUME BuildInv, NEW c \in Clients, Published(c) PROVE Acts(c)
<1>1. /\ BuildTypeOK /\ TypeOK /\ job[c].pc \in Labels /\ job[c] \in Jobs
      /\ call[c] \in PublishCall /\ call[c].scope = job[c].scope
      /\ ServesAtLeast(call[c].scope, call[c].version)
  BY JobShape, CallShape
     DEF BuildInv, BuildTypeOK, Published, Labels, JobSound, RegistrySound, CallSound
<1> DEFINE j == [pc |-> "ended", scope |-> job[c].scope, result |-> call[c].published,
                 version |-> call[c].version]
<1>2. job' = [job EXCEPT ![c] = j] BY DEF Published, End
<1>3. /\ job[c].scope \in Scopes /\ call[c].published \in Results
      /\ call[c].version \in Nat
  BY <1>1, JobIs, ResultsKnown DEF PublishCall
<1>4. /\ j \in EndedJobs /\ j.pc = "ended" /\ j.version = call[c].version
      /\ j.scope = job[c].scope
  BY <1>3 DEF EndedJobs
<1> HIDE DEF j
<1>5. job'[c] = j BY <1>1, <1>2 DEF BuildTypeOK
<1>6. UNCHANGED <<records, store>> /\ Finish(c) BY DEF Published, Finish
<1>7. RegistryStep BY <1>6 DEF RegistryStep
<1>8. \A d \in Clients \ {c} : call'[d] = call[d] BY <1>1, <1>6, OthersUntouched
<1>9. JobSound(c)'
  BY <1>1, <1>4, <1>5, <1>6 DEF JobSound, ServesAtLeast, ActiveRecords, Registered
<1> QED
  BY <1>1, <1>2, <1>4, <1>5, <1>7, <1>8, <1>9
     DEF Acts, Published, UnchangedSource, BuildTypeOK

LEMMA PublishRaisedActs == ASSUME BuildInv, NEW c \in Clients, PublishRaised(c) PROVE Acts(c)
<1>1. /\ BuildTypeOK /\ TypeOK /\ job[c].pc \in Labels /\ job[c] \in Jobs
      /\ job[c].hash \in Hashes /\ Sound(job[c].artifacts, job[c].hash)
  BY JobShape DEF BuildInv, BuildTypeOK, PublishRaised, Labels, JobSound
<1>2. Finish(c) /\ UNCHANGED <<records, store>> BY DEF PublishRaised, Finish
<1>3. RegistryStep BY <1>2 DEF RegistryStep
<1>4. \A d \in Clients \ {c} : call'[d] = call[d] BY <1>1, <1>2, OthersUntouched
<1>5. CASE job[c].tries > 0
  <2> DEFINE fields == [pc |-> "publish", tries |-> job[c].tries - 1]
  <2>1. Step(c, fields) BY <1>5 DEF PublishRaised
  <2>2. \A f \in JobFields :
          job'[c][f] = IF f \in DOMAIN fields THEN fields[f] ELSE job[c][f]
    BY <1>1, <2>1, StepShape
  <2>3. /\ job'[c].pc = "publish" /\ job'[c].tries = job[c].tries - 1
        /\ \A f \in {"hash", "artifacts", "base"} : job'[c][f] = job[c][f]
    BY <2>2 DEF JobFields
  <2>4. DOMAIN fields \subseteq {"pc", "tries", "hash", "artifacts", "base"} OBVIOUS
  <2>5. job[c].tries - 1 \in 0 .. MaxRetries BY <1>1, <1>5, JobIs
  <2> HIDE DEF fields
  <2>6. job'[c] \in Jobs BY <1>1, <2>1, <2>3, <2>4, <2>5, NextJob, JobIs DEF Labels
  <2>7. job' = [job EXCEPT ![c] = job'[c]] BY <1>1, <2>1, StepShape
  <2>8. JobSound(c)' BY <1>1, <2>3 DEF JobSound, Sound
  <2> QED
    BY <1>1, <1>3, <1>4, <2>6, <2>7, <2>8 DEF Acts, PublishRaised, UnchangedSource, BuildTypeOK
<1>6. CASE ~ (job[c].tries > 0)
  <2>1. PICK result \in Results : End(c, result, 0)
    BY <1>6, ResultsKnown DEF PublishRaised
  <2>2. job'[c] = [pc |-> "ended", scope |-> job[c].scope, result |-> result, version |-> 0]
    BY <1>1, <2>1 DEF End, BuildTypeOK
  <2>3. job[c].scope \in Scopes BY <1>1, JobIs
  <2>4. job'[c] \in EndedJobs BY <2>2, <2>3 DEF EndedJobs
  <2>5. JobSound(c)' BY <2>2 DEF JobSound
  <2>6. job' = [job EXCEPT ![c] = job'[c]] BY <1>1, <2>1, <2>2 DEF End
  <2> QED
    BY <1>1, <1>3, <1>4, <2>4, <2>5, <2>6 DEF Acts, PublishRaised, UnchangedSource, BuildTypeOK
<1> QED BY <1>5, <1>6

LEMMA LeaveActs == ASSUME BuildInv, NEW c \in Clients, Leave(c) PROVE Acts(c)
<1>1. BuildTypeOK BY DEF BuildInv
<1>2. job'[c] = IdleJob /\ job' = [job EXCEPT ![c] = job'[c]] BY <1>1 DEF Leave, BuildTypeOK
<1>3. JobSound(c)' BY <1>2 DEF JobSound, IdleJob
<1> QED
  BY <1>1, <1>2, <1>3
     DEF Acts, Leave, UnchangedRegistry, UnchangedSource, vars, BuildTypeOK

-----------------------------------------------------------------------------
LEMMA ClientActs ==
  ASSUME BuildInv, NEW c \in Clients, Requests(c) \/ Progress(c) \/ Faults(c)
  PROVE  Acts(c)
<1>1. CASE Requests(c)
  BY <1>1, StartBuildActs, ListPendingActs DEF Requests, AppRequests
<1>2. CASE BuildStep(c) \/ ReviewStep(c)
  BY <1>2, IntrospectActs, CheckCurrentActs, AnalyzeActs, ApplyActs, LoadAndDecideActs
     DEF BuildStep, ReviewStep
<1>3. CASE PublicationStep(c) \/ Leave(c)
  BY <1>3, StartPublishActs, PublishingActs, PublishedActs, PublishRaisedActs, LeaveActs
     DEF PublicationStep
<1>4. CASE Faults(c)
  BY <1>4, IntrospectFailsActs, PublishingActs DEF Faults
<1> QED BY <1>1, <1>2, <1>3, <1>4 DEF Progress

(* A step of the source database, or none at all, is a stutter of the      *)
(* registry.                                                               *)
LEMMA QuietKeeps ==
  ASSUME BuildInv, Alter \/ UNCHANGED buildVars
  PROVE  BuildInv' /\ UNCHANGED vars
<1>1. /\ UNCHANGED <<records, store, call, job>>
      /\ schema' \in Hashes /\ changes' \in 0 .. MaxChanges
  BY DEF Alter, UnchangedRegistry, buildVars, BuildInv, BuildTypeOK
<1>2. UNCHANGED vars BY <1>1 DEF vars
<1>3. RegistrySound' BY <1>2, RegistryStaysSound DEF BuildInv
<1>4. BuildTypeOK' BY <1>1, <1>3 DEF BuildInv, BuildTypeOK, RegistrySound, AppInv, IInv
<1>5. ASSUME NEW d \in Clients PROVE JobSound(d)'
  BY <1>1, <1>2, JobFrame DEF BuildInv, JobSound
<1> QED BY <1>2, <1>3, <1>4, <1>5 DEF BuildInv

LEMMA BuildInvStep == BuildInv /\ [BuildNext]_buildVars => BuildInv' /\ [AppNext]_vars
<1> SUFFICES ASSUME BuildInv, [BuildNext]_buildVars PROVE BuildInv' /\ [AppNext]_vars
  OBVIOUS
<1>1. ASSUME NEW c \in Clients, Acts(c) PROVE BuildInv' /\ [AppNext]_vars
  BY <1>1, ActsKeeps, RegistryStepIsApp DEF Acts
<1> QED BY <1>1, ClientActs, QuietKeeps DEF BuildNext

LEMMA BuildInvInit == BuildInit => BuildInv
<1> SUFFICES ASSUME BuildInit PROVE BuildInv OBVIOUS
<1>1. AppInv /\ TypeOK BY AppInvInit DEF BuildInit, AppInv, IInv
<1>2. BuildTypeOK BY <1>1 DEF BuildInit, BuildTypeOK
<1>3. /\ Registered = {} /\ \A c \in Clients : call[c].pc = "idle" /\ job[c].pc = "idle"
      /\ \A id \in ContextIds : DOMAIN store[id] = {}
  BY DEF BuildInit, Init, Registered, Idle, IdleJob
<1> QED
  BY <1>1, <1>2, <1>3 DEF BuildInv, RegistrySound, CallSound, RowSound, JobSound, PublishPC

(* Builds and reviews keep their types and the registry's.                 *)
THEOREM BuildTypeCorrect == BuildSpec => []BuildTypeOK
<1>1. BuildInv => BuildTypeOK BY DEF BuildInv
<1> QED BY <1>1, BuildInvInit, BuildInvStep, PTL DEF BuildSpec

(* The schema hash of a record is that of the snapshot published with it,  *)
(* however often the schema changed, and whatever overlapped or failed.    *)
THEOREM HashesAlwaysMatch == BuildSpec => []HashMatchesSnapshot
<1>1. BuildInv => HashMatchesSnapshot
  BY DEF BuildInv, RegistrySound, RowSound, HashMatchesSnapshot, BuildTypeOK, TypeOK, Registered
<1> QED BY <1>1, BuildInvInit, BuildInvStep, PTL DEF BuildSpec

(* A build or a review that answers version v leaves readers v or a later  *)
(* one.                                                                    *)
THEOREM AnswersAlwaysServed == BuildSpec => []AnswerIsServed
<1>1. ASSUME BuildInv, NEW c \in Clients, job[c].pc = "ended", job[c].version > 0
      PROVE  ServedVersion(job[c].scope) >= job[c].version
  <2>1. PICK s \in Scopes, v \in Nat : s = job[c].scope /\ v = job[c].version
    BY <1>1, JobShape DEF BuildInv, EndedJobs
  <2>2. TypeOK /\ HasServed(s) BY <1>1, <2>1 DEF BuildInv, RegistrySound, AppInv, IInv
  <2>3. PICK id \in ActiveRecords(s) : records[id].version >= v
    BY <1>1, <2>1 DEF BuildInv, JobSound, ServesAtLeast
  <2>4. /\ ServedVersion(s) \in Nat /\ records[id].version \in Nat
        /\ records[id].version <= ServedVersion(s)
    BY <2>2, ServedVersionBounds
  <2> QED BY <2>1, <2>3, <2>4
<1>2. BuildInv => AnswerIsServed BY <1>1 DEF AnswerIsServed
<1> QED BY <1>2, BuildInvInit, BuildInvStep, PTL DEF BuildSpec

(* Builds and reviews are callers of the registry that only publish: they  *)
(* implement ContextVersion.                                               *)
THEOREM BuildsServeInOrder == BuildSpec => ServesVersionsInOrder
<1>1. BuildInv => AppInv BY DEF BuildInv, RegistrySound
<1>2. BuildInit => Init BY DEF BuildInit
<1> QED
  BY <1>1, <1>2, BuildInvInit, BuildInvStep, InitRefines, StepRefines, PTL
     DEF BuildSpec, ServesVersionsInOrder, Reader!Spec

=============================================================================
