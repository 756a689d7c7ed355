----------------------- MODULE ContextRegistryProofs -----------------------
(***************************************************************************)
(* Proofs about ContextRegistry, for any number of clients, context ids,   *)
(* scopes and artifact kinds.                                              *)
(***************************************************************************)
EXTENDS ContextRegistry, TLAPS

(* What holds of the call of client c at each of its labels.  The registry *)
(* rows a publication will write are the ones its first read and its       *)
(* insert named; a row is in GENERATED exactly until its own call          *)
(* activates it; an invalidation holds records that were published.        *)
CallConsistent(c) ==
  /\ call[c].pc \in PublishPC /\ call[c].previous # NoContext =>
         /\ call[c].previous \in Registered
         /\ records[call[c].previous].scope = call[c].scope
         /\ records[call[c].previous].version + 1 = call[c].version
         /\ records[call[c].previous].state # "generated"
  /\ call[c].pc \in {"supersede", "superseding"} => call[c].previous # NoContext
  /\ call[c].pc \in PublishPC \ {"register"} =>
       /\ call[c].context_id \in Registered
       /\ records[call[c].context_id].scope = call[c].scope
       /\ records[call[c].context_id].version = call[c].version
       /\ records[call[c].context_id].artifact_kinds = DOMAIN call[c].artifacts
  /\ call[c].pc \in {"put", "activate"} =>
       records[call[c].context_id].state = "generated"
  /\ call[c].pc \in PublishPC \ {"register", "put"} =>
       DOMAIN call[c].artifacts \subseteq DOMAIN store[call[c].context_id]
  /\ call[c].pc = "marking" =>
       /\ call[c].todo \subseteq Registered
       /\ \A id \in call[c].todo : records[id].state # "generated"

(* No two publications are filling the same row.                           *)
OwnRow(c, d) ==
  call[c].pc \in {"put", "activate"} /\ call[d].pc \in {"put", "activate"}
    /\ call[c].context_id = call[d].context_id => c = d

IInv ==
  /\ TypeOK
  /\ ServedIsComplete
  /\ \A c \in Clients : CallConsistent(c)
  /\ \A c, d \in Clients : OwnRow(c, d)

-----------------------------------------------------------------------------
USE ContextRegistryAssumption

LEMMA StatesKnown ==
  /\ "generated" \in LifecycleStates
  /\ "active" \in LifecycleStates
  /\ "pending_validation" \in LifecycleStates
  /\ "stale" \in LifecycleStates
  /\ "superseded" \in LifecycleStates
BY DEF LifecycleStates, LEGAL_TRANSITIONS

(* The shape of the call a client is executing follows from its label.     *)
LEMMA CallShape ==
  ASSUME TypeOK, NEW c \in Clients
  PROVE  /\ call[c].pc \in PublishPC \cup {"returned"} => call[c] \in PublishCall
         /\ call[c].pc = "marking" => call[c] \in InvalidateCall
BY DEF TypeOK, PublishPC, PublishCall, Idle, Raised, InvalidateCall

(* Writing a lifecycle state keeps the table well typed and changes no     *)
(* other field of any record.                                              *)
LEMMA WriteStateType ==
  ASSUME TypeOK, NEW id \in ContextIds, NEW state \in LifecycleStates,
         WriteState(id, state)
  PROVE  /\ DOMAIN records' = DOMAIN records
         /\ records' \in [DOMAIN records' -> Record]
         /\ \A i \in Registered : i # id => records'[i] = records[i]
         /\ id \in Registered => records'[id] = [records[id] EXCEPT !.state = state]
BY DEF TypeOK, WriteState, Record, Registered

LEMMA GotoType ==
  ASSUME TypeOK, NEW c \in Clients, call[c].pc \in PublishPC,
         NEW label \in PublishPC \cup {"returned"}, Goto(c, label)
  PROVE  call' \in [Clients -> {Idle, Raised} \cup PublishCall \cup InvalidateCall]
<1>1. call[c] \in PublishCall
  BY CallShape
<1>2. [call[c] EXCEPT !.pc = label] \in PublishCall
  BY <1>1 DEF PublishCall
<1> QED
  BY <1>2 DEF Goto, TypeOK

(* The previous record a publication starts from is a registered one of    *)
(* its scope, ACTIVE, and the new version is the one after it.             *)
LEMMA LookupActiveFacts ==
  ASSUME TypeOK, NEW s \in Scopes, NEW previous \in LookupActive(s)
  PROVE  /\ previous \in Registered \cup {NoContext}
         /\ NextVersion(previous) \in Nat \ {0}
         /\ previous # NoContext =>
              /\ previous \in ActiveRecords(s)
              /\ NextVersion(previous) = records[previous].version + 1
<1>1. previous \in Registered \cup {NoContext}
  BY DEF LookupActive, Served, ActiveRecords
<1> QED
  BY <1>1 DEF LookupActive, Served, ActiveRecords, NextVersion, TypeOK, Record, Registered

LEMMA BeginPublishType ==
  ASSUME TypeOK, NEW c \in Clients, NEW s \in Scopes, NEW hash \in Hashes,
         NEW artifacts \in Publications, NEW require_validation \in BOOLEAN,
         BeginPublish(c, s, hash, artifacts, require_validation)
  PROVE  TypeOK'
<1>1. PICK previous \in LookupActive(s) :
        call' = [call EXCEPT ![c] =
         [pc |-> "register", scope |-> s, schema_hash |-> hash,
          artifacts |-> artifacts,
          target_state |-> TargetState(artifacts, require_validation),
          previous |-> previous, version |-> NextVersion(previous),
          context_id |-> NoContext, published |-> "generated"]]
  BY DEF BeginPublish
<1>2. previous \in Registered \cup {NoContext} /\ NextVersion(previous) \in Nat \ {0}
  BY LookupActiveFacts
<1>3. TargetState(artifacts, require_validation) \in {"active", "pending_validation"}
  BY DEF TargetState
<1>4. call'[c] \in PublishCall
  BY <1>1, <1>2, <1>3, StatesKnown
     DEF PublishCall, PublishPC, TypeOK, Registered, Publications
<1> QED
  BY <1>1, <1>4 DEF BeginPublish, TypeOK

LEMMA RegisterType ==
  ASSUME TypeOK, NEW c \in Clients, Register(c)
  PROVE  TypeOK'
<1>1. call[c] \in PublishCall
  BY CallShape DEF Register, PublishPC
<1> DEFINE row == [scope |-> call[c].scope, version |-> call[c].version,
                   state |-> "generated", schema_hash |-> call[c].schema_hash,
                   artifact_kinds |-> DOMAIN call[c].artifacts,
                   supersedes |-> call[c].previous]
<1>2. PICK id \in ContextIds \ Registered :
        /\ records' = [i \in Registered \cup {id} |-> IF i = id THEN row ELSE records[i]]
        /\ call' = [call EXCEPT ![c].pc = "put", ![c].context_id = id]
  BY DEF Register
<1>3. [call[c] EXCEPT !.pc = "put", !.context_id = id] \in PublishCall
  BY <1>1 DEF PublishCall, PublishPC
<1>4. row \in Record
  BY <1>1, StatesKnown DEF PublishCall, Record, Artifacts
<1> QED
  BY <1>2, <1>3, <1>4 DEF Register, TypeOK, Registered

LEMMA PutArtifactType ==
  ASSUME TypeOK, NEW c \in Clients, PutArtifact(c)
  PROVE  TypeOK'
<1>1. call[c] \in PublishCall
  BY CallShape DEF PutArtifact, PublishPC
<1>2. PICK kind \in MissingKinds(c) :
        store' = [store EXCEPT ![call[c].context_id] =
                    [k \in DOMAIN @ \cup {kind} |->
                       IF k = kind THEN call[c].artifacts[kind] ELSE @[k]]]
  BY DEF PutArtifact
<1>3. kind \in Kinds /\ call[c].artifacts[kind] \in Payloads
  BY <1>1 DEF MissingKinds, PublishCall, Artifacts
<1>4. ASSUME NEW a \in Artifacts
      PROVE  [k \in DOMAIN a \cup {kind} |->
                IF k = kind THEN call[c].artifacts[kind] ELSE a[k]] \in Artifacts
  <2>1. PICK K \in SUBSET Kinds : a \in [K -> Payloads]
    BY DEF Artifacts
  <2>2. [k \in DOMAIN a \cup {kind} |->
           IF k = kind THEN call[c].artifacts[kind] ELSE a[k]] \in [K \cup {kind} -> Payloads]
    BY <1>3, <2>1
  <2> QED
    BY <1>3, <2>2 DEF Artifacts
<1> QED
  BY <1>2, <1>4 DEF PutArtifact, TypeOK

LEMMA TypeStep == IInv /\ [Next]_vars => TypeOK'
<1> SUFFICES ASSUME IInv, [Next]_vars PROVE TypeOK'
  OBVIOUS
<1>0. TypeOK
  BY DEF IInv
<1> USE <1>0, StatesKnown
<1>1. CASE UNCHANGED vars
  BY <1>1 DEF vars, TypeOK
<1>2. ASSUME NEW c \in Clients, PublishStep(c) PROVE TypeOK'
  <2>1. CASE CheckActivate(c) \/ CheckSupersede(c)
    BY <2>1, GotoType DEF CheckActivate, CheckSupersede, TypeOK, PublishPC
  <2>2. CASE Activate(c)
    <3>1. call[c] \in PublishCall
      BY <2>2, CallShape DEF Activate, PublishPC
    <3>2. CASE call[c].context_id \in ContextIds
      BY <2>2, <3>1, <3>2, WriteStateType, GotoType
         DEF Activate, TypeOK, PublishPC, PublishCall
    <3>3. CASE call[c].context_id \notin ContextIds
      BY <2>2, <3>1, <3>3, GotoType
         DEF Activate, TypeOK, PublishPC, PublishCall, WriteState
    <3> QED
      BY <3>2, <3>3
  <2>3. CASE Supersede(c)
    <3>1. call[c] \in PublishCall
      BY <2>3, CallShape DEF Supersede, PublishPC
    <3>2. CASE call[c].previous \in ContextIds
      BY <2>3, <3>1, <3>2, WriteStateType, GotoType
         DEF Supersede, TypeOK, PublishPC, PublishCall
    <3>3. CASE call[c].previous \notin ContextIds
      BY <2>3, <3>1, <3>3, GotoType
         DEF Supersede, TypeOK, PublishPC, PublishCall, WriteState
    <3> QED
      BY <3>2, <3>3
  <2>4. CASE GetPublished(c)
    <3>1. call[c] \in PublishCall
      BY <2>4, CallShape DEF GetPublished, PublishPC
    <3>2. records[call[c].context_id].state \in LifecycleStates
      BY <2>4 DEF GetPublished, IInv, CallConsistent, PublishPC, TypeOK, Record, Registered
    <3>3. [call[c] EXCEPT !.published = records[call[c].context_id].state,
             !.pc = IF call[c].previous = NoContext THEN "returned" ELSE "supersede"]
            \in PublishCall
      BY <3>1, <3>2 DEF PublishCall, PublishPC
    <3> QED
      BY <2>4, <3>3 DEF GetPublished, TypeOK
  <2> QED
    BY <1>2, <2>1, <2>2, <2>3, <2>4, RegisterType, PutArtifactType DEF PublishStep
<1>3. ASSUME NEW c \in Clients, BeginInvalidate(c) \/ MarkStale(c) \/ EndInvalidate(c)
      PROVE  TypeOK'
  <2>1. CASE BeginInvalidate(c)
    BY <2>1 DEF BeginInvalidate, TypeOK, InvalidateCall, Registered
  <2>2. CASE MarkStale(c)
    <3>1. call[c] \in InvalidateCall
      BY <2>2, CallShape DEF MarkStale
    <3>2. PICK id \in call[c].todo :
            WriteState(id, "stale") /\ call' = [call EXCEPT ![c].todo = @ \ {id}]
      BY <2>2 DEF MarkStale
    <3>3. id \in ContextIds
      BY <3>1, <3>2 DEF InvalidateCall
    <3>4. [call[c] EXCEPT !.todo = @ \ {id}] \in InvalidateCall
      BY <3>1 DEF InvalidateCall
    <3> QED
      BY <2>2, <3>2, <3>3, <3>4, WriteStateType DEF MarkStale, TypeOK
  <2>3. CASE EndInvalidate(c)
    BY <2>3 DEF EndInvalidate, TypeOK
  <2> QED
    BY <1>3, <2>1, <2>2, <2>3
<1>4. ASSUME NEW c \in Clients, Finish(c) \/ Fail(c) PROVE TypeOK'
  BY <1>4 DEF Finish, Fail, TypeOK
<1> QED
  BY <1>1, <1>2, <1>3, <1>4, BeginPublishType
     DEF Next, ServiceCalls, AppCalls
-----------------------------------------------------------------------------
(* What the steps of one call leave of the calls of the others.            *)

(* Every step changes the call of its own client only.                     *)
LEMMA OthersUntouched ==
  ASSUME TypeOK, NEW c \in Clients, NEW d \in Clients, d # c,
         \/ PublishStep(c) \/ Finish(c) \/ Fail(c)
         \/ BeginInvalidate(c) \/ MarkStale(c) \/ EndInvalidate(c)
  PROVE  call'[d] = call[d]
BY DEF TypeOK, PublishStep, Register, PutArtifact, CheckActivate, Activate, GetPublished,
       CheckSupersede, Supersede, Finish, Fail, BeginInvalidate, MarkStale, EndInvalidate,
       Goto

(* A step that writes neither table keeps what holds of any other call.    *)
LEMMA QuietFrame ==
  ASSUME UNCHANGED <<records, store>>, NEW d \in Clients,
         call'[d] = call[d], CallConsistent(d)
  PROVE  CallConsistent(d)'
BY DEF CallConsistent, Registered

(* So does a state written over a published record by something other than *)
(* "generated".                                                            *)
LEMMA WriteFrame ==
  ASSUME TypeOK, TypeOK', UNCHANGED store, NEW d \in Clients,
         NEW id \in Registered, NEW state \in LifecycleStates \ {"generated"},
         WriteState(id, state), call'[d] = call[d], CallConsistent(d),
         call[d].pc \in {"put", "activate"} => call[d].context_id # id
  PROVE  CallConsistent(d)'
<1>1. /\ Registered' = Registered
      /\ \A i \in Registered : i # id => records'[i] = records[i]
      /\ records'[id] = [records[id] EXCEPT !.state = state]
  BY WriteStateType DEF Registered, TypeOK
<1>2. /\ \A i \in Registered : /\ records'[i].scope = records[i].scope
                               /\ records'[i].version = records[i].version
                               /\ records'[i].artifact_kinds = records[i].artifact_kinds
                               /\ records[i].state # "generated" =>
                                    records'[i].state # "generated"
  BY <1>1 DEF TypeOK, Record, Registered
<1>3. call[d].pc \in {"put", "activate"} /\ call[d].context_id \in Registered =>
        records'[call[d].context_id] = records[call[d].context_id]
  BY <1>1
<1> QED
  BY <1>1, <1>2, <1>3 DEF CallConsistent, PublishPC

(* A state written over a published record keeps it complete.              *)
LEMMA WriteComplete ==
  ASSUME TypeOK, ServedIsComplete, UNCHANGED store,
         NEW id \in Registered, NEW state \in LifecycleStates, WriteState(id, state),
         records[id].artifact_kinds \subseteq DOMAIN store[id]
  PROVE  ServedIsComplete'
<1>1. /\ Registered' = Registered
      /\ \A i \in Registered : i # id => records'[i] = records[i]
      /\ records'[id] = [records[id] EXCEPT !.state = state]
  BY WriteStateType DEF Registered, TypeOK
<1>2. records'[id].artifact_kinds = records[id].artifact_kinds
  BY <1>1 DEF TypeOK, Record, Registered
<1> QED
  BY <1>1, <1>2 DEF ServedIsComplete
-----------------------------------------------------------------------------
(* One lemma per group of steps: the rest of the inductive invariant.      *)

Consistent ==
  /\ ServedIsComplete
  /\ \A c \in Clients : CallConsistent(c)
  /\ \A c, d \in Clients : OwnRow(c, d)

LEMMA BeginPublishConsistent ==
  ASSUME IInv, NEW c \in Clients, NEW s \in Scopes, NEW hash \in Hashes,
         NEW artifacts \in Publications, NEW require_validation \in BOOLEAN,
         BeginPublish(c, s, hash, artifacts, require_validation)
  PROVE  Consistent'
<1>1. PICK previous \in LookupActive(s) :
        call' = [call EXCEPT ![c] =
         [pc |-> "register", scope |-> s, schema_hash |-> hash,
          artifacts |-> artifacts,
          target_state |-> TargetState(artifacts, require_validation),
          previous |-> previous, version |-> NextVersion(previous),
          context_id |-> NoContext, published |-> "generated"]]
  BY DEF BeginPublish
<1>2. UNCHANGED <<records, store>>
  BY DEF BeginPublish
<1>3. CallConsistent(c)'
  <2>1. previous # NoContext => /\ previous \in ActiveRecords(s)
                                /\ NextVersion(previous) = records[previous].version + 1
    BY LookupActiveFacts DEF IInv
  <2> QED
    BY <1>1, <1>2, <2>1 DEF CallConsistent, IInv, TypeOK, PublishPC, ActiveRecords, Registered
<1>4. ASSUME NEW d \in Clients, d # c PROVE call'[d] = call[d] /\ CallConsistent(d)'
  BY <1>1, <1>2, <1>4, QuietFrame DEF IInv, TypeOK
<1>5. call'[c].pc = "register"
  BY <1>1 DEF IInv, TypeOK
<1> QED
  BY <1>2, <1>3, <1>4, <1>5 DEF Consistent, IInv, OwnRow, ServedIsComplete, Registered

(* The steps that only move the label of their call, or end it.            *)
LEMMA QuietConsistent ==
  ASSUME IInv, NEW c \in Clients,
         \/ CheckActivate(c) \/ GetPublished(c) \/ CheckSupersede(c)
         \/ BeginInvalidate(c) \/ EndInvalidate(c) \/ Finish(c) \/ Fail(c)
  PROVE  Consistent'
<1>0. TypeOK /\ CallConsistent(c)
  BY DEF IInv
<1>1. UNCHANGED <<records, store>>
  BY DEF CheckActivate, GetPublished, CheckSupersede, BeginInvalidate, EndInvalidate,
         Finish, Fail
<1>2. ASSUME NEW d \in Clients, d # c PROVE call'[d] = call[d] /\ CallConsistent(d)'
  BY <1>0, <1>1, <1>2, OthersUntouched, QuietFrame DEF IInv, PublishStep
<1>3. CASE CheckActivate(c)
  <2>1. call'[c] = Raised \/ (call[c].pc = "put" /\ MissingKinds(c) = {}
                               /\ call'[c] = [call[c] EXCEPT !.pc = "activate"])
    BY <1>0, <1>3 DEF CheckActivate, Goto, TypeOK
  <2>2. call[c] \in PublishCall
    BY <1>0, <1>3, CallShape DEF CheckActivate, PublishPC
  <2>3. CallConsistent(c)'
    BY <1>0, <1>1, <2>1, <2>2
       DEF CallConsistent, PublishPC, PublishCall, Raised, MissingKinds, Registered
  <2> QED
    BY <1>1, <1>2, <1>3, <2>1, <2>2, <2>3
       DEF CheckActivate, Consistent, IInv, OwnRow, ServedIsComplete, Registered, PublishCall,
           Raised
<1>4. CASE GetPublished(c) \/ CheckSupersede(c) \/ Finish(c) \/ Fail(c)
           \/ BeginInvalidate(c) \/ EndInvalidate(c)
  <2>1. call'[c].pc \notin {"put", "activate"}
    BY <1>0, <1>4, CallShape
       DEF GetPublished, CheckSupersede, Finish, Fail, BeginInvalidate, EndInvalidate, Goto,
           TypeOK, Idle, Raised, PublishPC, PublishCall, InvalidateCall
  <2>2. CallConsistent(c)'
    <3>1. CASE GetPublished(c)
      BY <1>0, <1>1, <3>1, CallShape
         DEF GetPublished, CallConsistent, TypeOK, PublishPC, PublishCall, Registered
    <3>2. CASE CheckSupersede(c)
      BY <1>0, <1>1, <3>2, CallShape
         DEF CheckSupersede, Goto, CallConsistent, TypeOK, PublishPC, PublishCall, Registered,
             Raised
    <3>3. CASE Finish(c) \/ Fail(c) \/ EndInvalidate(c)
      BY <1>0, <3>3
         DEF Finish, Fail, EndInvalidate, CallConsistent, TypeOK, PublishPC, Idle, Raised
    <3>4. CASE BeginInvalidate(c)
      <4>1. call'[c] = [pc |-> "marking",
              todo |-> { id \in Registered : IsTransitionAllowed(records[id].state, "stale") }]
        BY <1>0, <3>4 DEF BeginInvalidate, TypeOK
      <4>2. ~ IsTransitionAllowed("generated", "stale")
        BY DEF IsTransitionAllowed, LEGAL_TRANSITIONS
      <4> QED
        BY <1>1, <4>1, <4>2 DEF CallConsistent, PublishPC, Registered
    <3> QED
      BY <1>4, <3>1, <3>2, <3>3, <3>4
  <2> QED
    BY <1>1, <1>2, <2>1, <2>2 DEF Consistent, IInv, OwnRow, ServedIsComplete, Registered
<1> QED
  BY <1>3, <1>4

(* The insert takes a fresh id: no other call, and no record, refers to it. *)
LEMMA RegisterConsistent ==
  ASSUME IInv, NEW c \in Clients, Register(c)
  PROVE  Consistent'
<1>0. TypeOK /\ CallConsistent(c) /\ call[c] \in PublishCall
  BY CallShape DEF IInv, Register, PublishPC
<1> DEFINE row == [scope |-> call[c].scope, version |-> call[c].version,
                   state |-> "generated", schema_hash |-> call[c].schema_hash,
                   artifact_kinds |-> DOMAIN call[c].artifacts,
                   supersedes |-> call[c].previous]
<1>1. PICK id \in ContextIds \ Registered :
        /\ records' = [i \in Registered \cup {id} |-> IF i = id THEN row ELSE records[i]]
        /\ call' = [call EXCEPT ![c].pc = "put", ![c].context_id = id]
  BY DEF Register
<1>2. call'[c] = [call[c] EXCEPT !.pc = "put", !.context_id = id]
  BY <1>0, <1>1 DEF TypeOK
<1>3. /\ Registered' = Registered \cup {id}
      /\ \A i \in Registered : records'[i] = records[i]
      /\ records'[id] = row
      /\ UNCHANGED store
  BY <1>1 DEF Registered, Register
<1>4. CallConsistent(c)'
  <2>1. /\ call'[c].pc = "put" /\ call'[c].context_id = id
        /\ call'[c].scope = call[c].scope /\ call'[c].version = call[c].version
        /\ call'[c].artifacts = call[c].artifacts
        /\ call'[c].previous = call[c].previous
    BY <1>0, <1>2 DEF PublishCall
  <2>2. call[c].previous # NoContext =>
          /\ call[c].previous \in Registered
          /\ records[call[c].previous].scope = call[c].scope
          /\ records[call[c].previous].version + 1 = call[c].version
          /\ records[call[c].previous].state # "generated"
    BY <1>0 DEF CallConsistent, Register, PublishPC
  <2> QED
    BY <1>3, <2>1, <2>2 DEF CallConsistent
<1>5. ASSUME NEW d \in Clients, d # c PROVE call'[d] = call[d] /\ CallConsistent(d)'
  <2>1. call'[d] = call[d] /\ CallConsistent(d)
    BY <1>0, <1>5, OthersUntouched DEF IInv, PublishStep
  <2> QED
    BY <1>3, <2>1 DEF CallConsistent, PublishPC
<1>6. ASSUME NEW d \in Clients, d # c, call[d].pc \in {"put", "activate"}
      PROVE  call[d].context_id # id
  BY <1>1, <1>6 DEF IInv, CallConsistent, PublishPC
<1>7. call'[c].context_id = id
  BY <1>0, <1>2 DEF PublishCall
<1>8. ServedIsComplete'
  BY <1>3 DEF IInv, ServedIsComplete
<1> QED
  BY <1>4, <1>5, <1>6, <1>7, <1>8 DEF Consistent, IInv, OwnRow
(* Only the row being filled gains an artifact.                            *)
LEMMA PutArtifactConsistent ==
  ASSUME IInv, NEW c \in Clients, PutArtifact(c)
  PROVE  /\ Consistent'
         /\ \A id \in ContextIds \ {call[c].context_id} : store'[id] = store[id]
<1>0. TypeOK /\ CallConsistent(c)
  BY DEF IInv
<1>1. \A id \in ContextIds : DOMAIN store[id] \subseteq DOMAIN store'[id]
  BY <1>0 DEF PutArtifact, TypeOK
<1>2. \A id \in ContextIds \ {call[c].context_id} : store'[id] = store[id]
  BY <1>0 DEF PutArtifact, TypeOK
<1>3. UNCHANGED <<records, call>>
  BY DEF PutArtifact
<1>4. ASSUME NEW d \in Clients PROVE CallConsistent(d)'
  BY <1>0, <1>1, <1>3 DEF IInv, CallConsistent, Registered, TypeOK, PublishPC
<1>5. ServedIsComplete'
  BY <1>0, <1>1, <1>3 DEF IInv, ServedIsComplete, Registered, TypeOK
<1> QED
  BY <1>2, <1>3, <1>4, <1>5 DEF Consistent, IInv, OwnRow

(* The row leaves GENERATED when all of its artifacts are stored, and no   *)
(* other call is filling it.                                               *)
LEMMA ActivateConsistent ==
  ASSUME IInv, NEW c \in Clients, Activate(c)
  PROVE  Consistent'
<1>0. TypeOK /\ TypeOK' /\ CallConsistent(c) /\ call[c] \in PublishCall
  BY CallShape, TypeStep DEF IInv, Activate, PublishPC, Next, ServiceCalls, AppCalls, PublishStep
<1> DEFINE id == call[c].context_id
<1>1. /\ id \in Registered /\ id \in ContextIds
      /\ records[id].artifact_kinds \subseteq DOMAIN store[id]
      /\ call[c].target_state \in LifecycleStates \ {"generated"}
  BY <1>0, StatesKnown DEF CallConsistent, Activate, PublishPC, TypeOK, Registered, PublishCall
<1>2. WriteState(id, call[c].target_state) /\ UNCHANGED store
  BY DEF Activate
<1>3. call'[c] = [call[c] EXCEPT !.pc = "get"]
  BY <1>0 DEF Activate, Goto, TypeOK
<1>4. ASSUME NEW d \in Clients, d # c PROVE call'[d] = call[d] /\ CallConsistent(d)'
  <2>1. call'[d] = call[d] /\ CallConsistent(d)
    BY <1>0, <1>4, OthersUntouched DEF IInv, PublishStep
  <2>2. call[d].pc \in {"put", "activate"} => call[d].context_id # id
    BY <1>4 DEF IInv, OwnRow, Activate
  <2> HIDE DEF id
  <2> QED
    BY <1>0, <1>1, <1>2, <2>1, <2>2, WriteFrame
<1>5. CallConsistent(c)'
  <2>1. /\ Registered' = Registered
        /\ \A i \in Registered : i # id => records'[i] = records[i]
        /\ records'[id] = [records[id] EXCEPT !.state = call[c].target_state]
    BY <1>0, <1>1, <1>2, WriteStateType DEF Registered, TypeOK
  <2>2. \A i \in Registered : /\ records'[i].scope = records[i].scope
                              /\ records'[i].version = records[i].version
                              /\ records'[i].artifact_kinds = records[i].artifact_kinds
                              /\ records[i].state # "generated" =>
                                   records'[i].state # "generated"
    BY <1>0, <1>1, <2>1 DEF TypeOK, Record, Registered
  <2> QED
    BY <1>0, <1>2, <1>3, <2>1, <2>2 DEF CallConsistent, PublishCall, PublishPC, Activate
<1>6. ServedIsComplete'
  <2> HIDE DEF id
  <2> QED
    BY <1>0, <1>1, <1>2, WriteComplete DEF IInv
<1>7. call'[c].pc = "get"
  BY <1>0, <1>3 DEF PublishCall
<1> QED
  BY <1>4, <1>5, <1>6, <1>7 DEF Consistent, IInv, OwnRow

(* Superseded and stale are written over published records only.           *)
LEMMA WithdrawConsistent ==
  ASSUME IInv, NEW c \in Clients, Supersede(c) \/ MarkStale(c)
  PROVE  Consistent'
<1>0. TypeOK /\ TypeOK' /\ CallConsistent(c)
  BY TypeStep DEF IInv, Next, ServiceCalls, AppCalls, PublishStep
<1>1. PICK id \in Registered, state \in LifecycleStates \ {"generated"} :
        WriteState(id, state) /\ records[id].state # "generated"
  <2>1. CASE Supersede(c)
    <3>1. call[c].previous \in Registered /\ records[call[c].previous].state # "generated"
      BY <1>0, <2>1 DEF Supersede, CallConsistent, PublishPC
    <3> QED
      BY <2>1, <3>1, StatesKnown DEF Supersede
  <2>2. CASE MarkStale(c)
    BY <1>0, <2>2, StatesKnown DEF MarkStale, CallConsistent
  <2> QED
    BY <2>1, <2>2
<1>2. UNCHANGED store /\ id \in ContextIds
  BY <1>0 DEF Supersede, MarkStale, TypeOK, Registered
<1>3. call'[c].pc \in {"returned", "marking"}
  BY <1>0, CallShape
     DEF Supersede, MarkStale, Goto, TypeOK, PublishPC, PublishCall, InvalidateCall
<1>4. ASSUME NEW d \in Clients, d # c PROVE call'[d] = call[d] /\ CallConsistent(d)'
  <2>1. call'[d] = call[d] /\ CallConsistent(d)
    BY <1>0, <1>4, OthersUntouched DEF IInv, PublishStep
  <2>2. call[d].pc \in {"put", "activate"} => call[d].context_id # id
    BY <1>1, <2>1 DEF CallConsistent
  <2> QED
    BY <1>0, <1>1, <1>2, <2>1, <2>2, WriteFrame
<1>5. CallConsistent(c)'
  <2>1. CASE call'[c].pc = "returned"
    BY <2>1 DEF CallConsistent, PublishPC
  <2>2. CASE call'[c].pc = "marking"
    <3>1. MarkStale(c) /\ call[c].todo \subseteq Registered
            /\ call'[c].todo \subseteq call[c].todo
            /\ \A i \in call[c].todo : records[i].state # "generated"
      BY <1>0, <2>2, CallShape
         DEF Supersede, MarkStale, Goto, TypeOK, PublishPC, PublishCall, InvalidateCall,
             CallConsistent
    <3>2. /\ Registered' = Registered
          /\ \A i \in Registered : i # id => records'[i] = records[i]
          /\ records'[id] = [records[id] EXCEPT !.state = state]
      BY <1>0, <1>1, <1>2, WriteStateType DEF Registered, TypeOK
    <3>3. records'[id].state = state
      BY <1>0, <1>1, <3>2 DEF TypeOK, Record, Registered
    <3> QED
      BY <2>2, <1>1, <3>1, <3>2, <3>3 DEF CallConsistent, PublishPC
  <2> QED
    BY <1>3, <2>1, <2>2
<1>6. ServedIsComplete'
  <2>1. records[id].artifact_kinds \subseteq DOMAIN store[id]
    BY <1>1 DEF IInv, ServedIsComplete
  <2> QED
    BY <1>0, <1>1, <1>2, <2>1, WriteComplete DEF IInv
<1> QED
  BY <1>3, <1>4, <1>5, <1>6 DEF Consistent, IInv, OwnRow

LEMMA InvariantStep == IInv /\ [Next]_vars => IInv'
<1> SUFFICES ASSUME IInv, [Next]_vars PROVE Consistent'
  BY TypeStep DEF IInv, Consistent
<1>1. CASE UNCHANGED vars
  BY <1>1 DEF vars, Consistent, IInv, OwnRow, ServedIsComplete, CallConsistent, Registered
<1>2. ASSUME NEW c \in Clients, PublishStep(c) PROVE Consistent'
  BY <1>2, RegisterConsistent, PutArtifactConsistent, QuietConsistent, ActivateConsistent,
     WithdrawConsistent DEF PublishStep
<1>3. ASSUME NEW c \in Clients,
             \/ BeginInvalidate(c) \/ MarkStale(c) \/ EndInvalidate(c)
             \/ Finish(c) \/ Fail(c)
      PROVE  Consistent'
  BY <1>3, QuietConsistent, WithdrawConsistent
<1> QED
  BY <1>1, <1>2, <1>3, BeginPublishConsistent DEF Next, ServiceCalls, AppCalls

LEMMA InitInvariant == Init => IInv
<1> SUFFICES ASSUME Init PROVE IInv
  OBVIOUS
<1>1. Registered = {}
  BY DEF Init, Registered
<1>2. [k \in {} |-> NoContext] \in Artifacts
  <2>1. [k \in {} |-> NoContext] \in [{} -> Payloads]
    OBVIOUS
  <2> QED
    BY <2>1 DEF Artifacts
<1>3. TypeOK
  BY <1>1, <1>2 DEF Init, TypeOK, Registered
<1>4. \A c \in Clients : call[c].pc = "idle"
  BY DEF Init, Idle
<1> QED
  BY <1>1, <1>3, <1>4 DEF IInv, ServedIsComplete, CallConsistent, OwnRow, PublishPC

THEOREM TypeCorrect == Spec => []TypeOK
<1>1. IInv => TypeOK
  BY DEF IInv
<1> QED
  BY <1>1, InitInvariant, InvariantStep, PTL DEF Spec

(* Every record out of GENERATED has its artifacts, whatever number of     *)
(* calls overlap and wherever they fail.                                   *)
THEOREM Completeness == Spec => []ServedIsComplete
<1>1. IInv => ServedIsComplete
  BY DEF IInv
<1> QED
  BY <1>1, InitInvariant, InvariantStep, PTL DEF Spec
-----------------------------------------------------------------------------
(* Action properties.                                                      *)

(* What one step may do to a record that has left GENERATED: only its      *)
(* state may change, a withdrawn one staying withdrawn, and none of its    *)
(* artifacts.                                                              *)
PublishedStep(id) ==
  records[id].state # "generated" =>
    /\ store'[id] = store[id]
    /\ [records[id] EXCEPT !.state = "active"] = [records'[id] EXCEPT !.state = "active"]
    /\ records[id].state \in {"stale", "superseded"} =>
         records'[id].state \in {"stale", "superseded"}

LEMMA OverwriteStep ==
  ASSUME TypeOK, UNCHANGED store, NEW i \in Registered, NEW id \in Registered,
         NEW state \in LifecycleStates, WriteState(i, state),
         records[i].state = "generated" \/ state \in {"stale", "superseded"}
  PROVE  PublishedStep(id)
<1>1. /\ \A r \in Registered : r # i => records'[r] = records[r]
      /\ records'[i] = [records[i] EXCEPT !.state = state]
  BY WriteStateType DEF TypeOK, Registered
<1>2. records[i] \in Record /\ records'[i].state = state
  BY <1>1 DEF TypeOK, Registered, Record
<1>3. [records[i] EXCEPT !.state = "active"] = [records'[i] EXCEPT !.state = "active"]
  BY <1>1, <1>2 DEF Record
<1> QED
  BY <1>1, <1>2, <1>3 DEF PublishedStep

LEMMA PublishedStepLemma ==
  ASSUME IInv, [Next]_vars, NEW id \in Registered
  PROVE  PublishedStep(id)
<1>0. TypeOK /\ id \in ContextIds
  BY DEF IInv, TypeOK, Registered
<1>1. CASE UNCHANGED <<records, store>>
  BY <1>1 DEF PublishedStep
<1>2. ASSUME NEW c \in Clients, Register(c) PROVE PublishedStep(id)
  BY <1>2 DEF Register, PublishedStep
<1>3. ASSUME NEW c \in Clients, PutArtifact(c) PROVE PublishedStep(id)
  <2>1. records[call[c].context_id].state = "generated"
    BY <1>3 DEF IInv, CallConsistent, PutArtifact
  <2> QED
    BY <1>0, <1>3, <2>1, PutArtifactConsistent DEF PublishedStep, PutArtifact
<1>4. ASSUME NEW c \in Clients, Activate(c) PROVE PublishedStep(id)
  <2>1. /\ records[call[c].context_id].state = "generated"
        /\ call[c].context_id \in Registered
        /\ call[c].target_state \in LifecycleStates
    BY <1>0, <1>4, CallShape, StatesKnown
       DEF IInv, CallConsistent, Activate, PublishPC, PublishCall
  <2> QED
    BY <1>0, <1>4, <2>1, OverwriteStep DEF Activate
<1>5. ASSUME NEW c \in Clients, Supersede(c) PROVE PublishedStep(id)
  <2>1. call[c].previous \in Registered
    BY <1>5 DEF IInv, CallConsistent, Supersede, PublishPC
  <2> QED
    BY <1>0, <1>5, <2>1, OverwriteStep, StatesKnown DEF Supersede
<1>6. ASSUME NEW c \in Clients, MarkStale(c) PROVE PublishedStep(id)
  <2>1. call[c].todo \subseteq Registered
    BY <1>6 DEF IInv, CallConsistent, MarkStale
  <2>2. PICK i \in call[c].todo : WriteState(i, "stale")
    BY <1>6 DEF MarkStale
  <2> QED
    BY <1>0, <1>6, <2>1, <2>2, OverwriteStep, StatesKnown DEF MarkStale
<1> QED
  BY <1>1, <1>2, <1>3, <1>4, <1>5, <1>6
     DEF Next, ServiceCalls, AppCalls, PublishStep, BeginPublish, CheckActivate, GetPublished,
         CheckSupersede, BeginInvalidate, EndInvalidate, Finish, Fail, vars

(* Published versions are immutable, for any number of overlapping calls.  *)
THEOREM Immutability == Spec => PublishedIsImmutable
<1>1. IInv /\ [Next]_vars =>
        [ \A id \in Registered :
            records[id].state # "generated" =>
              /\ store'[id] = store[id]
              /\ [records[id] EXCEPT !.state = "active"]
                   = [records'[id] EXCEPT !.state = "active"] ]_vars
  BY PublishedStepLemma DEF PublishedStep
<1> QED
  BY <1>1, InitInvariant, InvariantStep, PTL DEF Spec, PublishedIsImmutable

(* A withdrawn context is never served again.                              *)
THEOREM Withdrawal == Spec => WithdrawnIsNeverServed
<1>1. IInv /\ [Next]_vars =>
        [ \A id \in Registered :
            records[id].state \in {"stale", "superseded"} =>
              records'[id].state \in {"stale", "superseded"} ]_vars
  BY PublishedStepLemma DEF PublishedStep
<1> QED
  BY <1>1, InitInvariant, InvariantStep, PTL DEF Spec, WithdrawnIsNeverServed
-----------------------------------------------------------------------------
(* The predecessor of a publication that has returned.                     *)

Retired(c) ==
  call[c].pc = "returned" /\ call[c].previous # NoContext =>
    /\ call[c].previous \in Registered
    /\ records[call[c].previous].state \in {"superseded", "stale"}

(* Out of service is for good, and rows are never deleted.                 *)
LEMMA RetiredStays ==
  ASSUME IInv, [Next]_vars, NEW id \in Registered,
         records[id].state \in {"superseded", "stale"}
  PROVE  id \in Registered' /\ records'[id].state \in {"superseded", "stale"}
<1>1. PublishedStep(id) BY PublishedStepLemma
<1>2. records'[id].state \in {"superseded", "stale"} BY <1>1 DEF PublishedStep
<1>3. Registered \subseteq Registered'
  BY DEF Next, ServiceCalls, AppCalls, PublishStep, BeginPublish, Register, PutArtifact,
         CheckActivate, Activate, GetPublished, CheckSupersede, Supersede, BeginInvalidate,
         MarkStale, EndInvalidate, Finish, Fail, WriteState, vars, Registered
<1> QED BY <1>2, <1>3

(* A call returns when it has no predecessor, or has just superseded it.   *)
LEMMA ReturnRetires ==
  ASSUME IInv, NEW c \in Clients, PublishStep(c)
  PROVE  Retired(c)'
<1>1. /\ TypeOK /\ CallConsistent(c) /\ call[c].pc \in PublishPC /\ call[c] \in PublishCall
  BY CallShape
     DEF IInv, PublishStep, PublishPC, Register, PutArtifact, CheckActivate, Activate,
         GetPublished, CheckSupersede, Supersede
<1>2. CASE Register(c)
  <2>1. PICK id \in ContextIds : call'[c] = [call[c] EXCEPT !.pc = "put", !.context_id = id]
    BY <1>1, <1>2 DEF Register, TypeOK
  <2> QED BY <1>1, <2>1 DEF PublishCall, Retired
<1>3. CASE PutArtifact(c) BY <1>1, <1>3 DEF PutArtifact, Retired
<1>4. CASE CheckActivate(c) \/ Activate(c) \/ CheckSupersede(c)
  BY <1>1, <1>4
     DEF CheckActivate, Activate, CheckSupersede, Goto, TypeOK, PublishCall, Raised, Retired
<1>5. CASE GetPublished(c)
  BY <1>1, <1>5 DEF GetPublished, TypeOK, PublishCall, Retired
<1>6. CASE Supersede(c)
  <2>1. call[c].previous \in Registered /\ call[c].previous \in ContextIds
    BY <1>1, <1>6 DEF Supersede, CallConsistent, PublishPC, TypeOK, Registered
  <2>2. /\ DOMAIN records' = DOMAIN records
        /\ records'[call[c].previous] = [records[call[c].previous] EXCEPT !.state = "superseded"]
    BY <1>1, <1>6, <2>1, WriteStateType, StatesKnown DEF Supersede
  <2>3. records'[call[c].previous].state = "superseded"
    BY <1>1, <2>1, <2>2 DEF TypeOK, Registered, Record
  <2>4. call'[c].previous = call[c].previous
    BY <1>1, <1>6 DEF Supersede, Goto, TypeOK, PublishCall
  <2> QED BY <2>1, <2>2, <2>3, <2>4 DEF Retired, Registered
<1> QED BY <1>2, <1>3, <1>4, <1>5, <1>6 DEF PublishStep

RetiredInv == IInv /\ \A c \in Clients : Retired(c)

LEMMA RetiredStep == RetiredInv /\ [Next]_vars => RetiredInv'
<1> SUFFICES ASSUME RetiredInv, [Next]_vars, NEW d \in Clients PROVE Retired(d)'
  BY InvariantStep DEF RetiredInv
<1>1. IInv /\ TypeOK /\ Retired(d) BY DEF RetiredInv, IInv
<1>2. CASE call'[d] = call[d]
  BY <1>1, <1>2, RetiredStays DEF Retired, Registered
<1>3. CASE PublishStep(d) BY <1>1, <1>3, ReturnRetires
<1>4. ASSUME NEW s \in Scopes, NEW hash \in Hashes, NEW artifacts \in Publications,
             NEW require_validation \in BOOLEAN,
             BeginPublish(d, s, hash, artifacts, require_validation)
      PROVE  Retired(d)'
  BY <1>1, <1>4 DEF BeginPublish, TypeOK, Retired
<1>5. CASE Finish(d) \/ Fail(d) \/ EndInvalidate(d)
  BY <1>1, <1>5 DEF Finish, Fail, EndInvalidate, TypeOK, Retired, Idle, Raised
<1>6. CASE BeginInvalidate(d) BY <1>1, <1>6 DEF BeginInvalidate, TypeOK, Retired
<1>7. CASE MarkStale(d)
  BY <1>1, <1>7, CallShape DEF MarkStale, TypeOK, Retired, InvalidateCall
<1>8. ASSUME NEW c \in Clients, c # d, ServiceCalls(c) \/ Fail(c) PROVE call'[d] = call[d]
  BY <1>1, <1>8, OthersUntouched DEF ServiceCalls, AppCalls, BeginPublish, TypeOK
<1> QED
  BY <1>2, <1>3, <1>4, <1>5, <1>6, <1>7, <1>8 DEF Next, ServiceCalls, AppCalls, vars

(* What a publication replaced is out of service when it returns, and      *)
(* stays so, though another call decided on its state earlier.             *)
THEOREM PredecessorAlwaysRetired == Spec => []PredecessorRetired
<1>1. Init => RetiredInv
  BY InitInvariant DEF Init, RetiredInv, Retired, Idle
<1>2. RetiredInv => PredecessorRetired BY DEF RetiredInv, Retired, PredecessorRetired
<1> QED BY <1>1, <1>2, RetiredStep, PTL DEF Spec
=============================================================================
