---------------------- MODULE ContextRegistryRefinement ----------------------
(***************************************************************************)
(* While its callers only publish, the registry implements ContextVersion: *)
(* readers of a scope are served version after version, in order, however  *)
(* many publications overlap and wherever they fail.                       *)
(*                                                                         *)
(* The difficulty is that a publication decides everything on its first    *)
(* read.  By the time it activates its record the scope may have moved on, *)
(* and by the time it supersedes its predecessor somebody else may have    *)
(* done so.  What makes it safe is that a call supersedes version v only   *)
(* after a version above v was made ACTIVE, and that the highest ACTIVE    *)
(* version is never withdrawn.                                             *)
(***************************************************************************)
EXTENDS ContextRegistryProofs

USE ContextRegistryAssumption

(* Some ACTIVE record of the scope has at least version v.                 *)
ServesAtLeast(s, v) == \E id \in ActiveRecords(s) : records[id].version >= v

AppCallInv(c) ==
  /\ call[c].pc # "marking"
  /\ call[c].pc \in PublishPC =>
       /\ call[c].target_state = "active"
       /\ call[c].previous = NoContext => call[c].version = 1
       /\ call[c].previous # NoContext =>
            ServesAtLeast(call[c].scope, records[call[c].previous].version)
  /\ call[c].pc \in {"get", "supersede", "superseding"} =>
       ServesAtLeast(call[c].scope, call[c].version)

(* A scope with ACTIVE records has one of highest version.                 *)
HasServed(s) == ActiveRecords(s) # {} => Served(s) # {}

AppInv ==
  /\ IInv
  /\ \A c \in Clients : AppCallInv(c)
  /\ \A s \in Scopes : HasServed(s)

-----------------------------------------------------------------------------
LEMMA ServedVersionIs ==
  ASSUME TypeOK, NEW s \in Scopes, NEW id \in Served(s)
  PROVE  ServedVersion(s) = records[id].version /\ ServedVersion(s) \in Nat \ {0}
<1> DEFINE top == CHOOSE i \in Served(s) : TRUE
<1>1. top \in Served(s)
  OBVIOUS
<1>2. /\ top \in ActiveRecords(s) /\ id \in ActiveRecords(s)
      /\ records[id].version <= records[top].version
      /\ records[top].version <= records[id].version
  BY <1>1 DEF Served
<1>3. records[id].version \in Nat \ {0} /\ records[top].version \in Nat \ {0}
  BY <1>2 DEF ActiveRecords, TypeOK, Record, Registered
<1>4. ServedVersion(s) = records[top].version
  BY <1>1 DEF ServedVersion
<1> QED
  BY <1>2, <1>3, <1>4

(* The same of the next state.                                             *)
ServedVersionFact ==
  TypeOK => \A s \in Scopes : \A id \in Served(s) :
    ServedVersion(s) = records[id].version /\ ServedVersion(s) \in Nat \ {0}

LEMMA ServedVersionNext == ServedVersionFact'
<1>1. ServedVersionFact
  BY ServedVersionIs DEF ServedVersionFact
<1> QED
  BY <1>1, PTL

LEMMA ServedVersionBounds ==
  ASSUME TypeOK, NEW s \in Scopes, HasServed(s)
  PROVE  /\ ServedVersion(s) \in Nat
         /\ \A id \in ActiveRecords(s) : /\ records[id].version \in Nat
                                        /\ records[id].version <= ServedVersion(s)
         /\ ActiveRecords(s) = {} => ServedVersion(s) = 0
         /\ ActiveRecords(s) # {} =>
              \E id \in ActiveRecords(s) : records[id].version = ServedVersion(s)
<1>1. CASE ActiveRecords(s) = {}
  BY <1>1 DEF Served, ServedVersion
<1>2. CASE ActiveRecords(s) # {}
  <2>1. PICK id \in Served(s) : TRUE
    BY <1>2 DEF HasServed
  <2>2. ServedVersion(s) = records[id].version /\ ServedVersion(s) \in Nat \ {0}
    BY <2>1, ServedVersionIs
  <2>3. \A i \in ActiveRecords(s) : records[i].version \in Nat
    BY DEF ActiveRecords, TypeOK, Record, Registered
  <2> QED
    BY <1>2, <2>1, <2>2, <2>3 DEF Served
<1> QED
  BY <1>1, <1>2

(* Steps that leave the ACTIVE records of every scope as they are.         *)
SameActive ==
  /\ \A s \in Scopes : ActiveRecords(s)' = ActiveRecords(s)
  /\ \A s \in Scopes : \A id \in ActiveRecords(s) :
       records'[id].version = records[id].version

LEMMA SameActiveServes ==
  ASSUME SameActive, NEW s \in Scopes
  PROVE  /\ ServedVersion(s)' = ServedVersion(s)
         /\ HasServed(s) => HasServed(s)'
         /\ \A v : ServesAtLeast(s, v) => ServesAtLeast(s, v)'
<1>1. Served(s)' = Served(s)
  BY DEF SameActive, Served
<1>2. \A id \in Served(s) : records'[id].version = records[id].version
  BY DEF SameActive, Served
<1>3. ServedVersion(s)' = ServedVersion(s)
  BY <1>1, <1>2 DEF ServedVersion
<1> QED
  BY <1>1, <1>3 DEF SameActive, HasServed, ServesAtLeast
-----------------------------------------------------------------------------
(* Writing a state over the record i: the sets of ACTIVE records after it. *)
LEMMA ActiveAfterWrite ==
  ASSUME TypeOK, NEW i \in Registered, NEW state \in LifecycleStates,
         WriteState(i, state), NEW s \in Scopes
  PROVE  /\ \A id \in Registered : records'[id].version = records[id].version
         /\ records[i].scope # s => ActiveRecords(s)' = ActiveRecords(s)
         /\ records[i].scope = s /\ state = "active" =>
              ActiveRecords(s)' = ActiveRecords(s) \cup {i}
         /\ records[i].scope = s /\ state # "active" =>
              ActiveRecords(s)' = ActiveRecords(s) \ {i}
<1>1. /\ Registered' = Registered
      /\ \A id \in Registered : id # i => records'[id] = records[id]
      /\ records'[i] = [records[i] EXCEPT !.state = state]
  BY WriteStateType DEF TypeOK, Registered
<1>2. /\ records'[i].state = state
      /\ records'[i].scope = records[i].scope
      /\ records'[i].version = records[i].version
  BY <1>1 DEF TypeOK, Registered, Record
<1> QED
  BY <1>1, <1>2 DEF ActiveRecords

(* Activation: the scope keeps the version it serves, or moves to the next *)
(* one; the call's own version is served from now on.                      *)
LEMMA ActivateServes ==
  ASSUME AppInv, NEW c \in Clients, Activate(c), NEW s \in Scopes
  PROVE  /\ HasServed(s)'
         /\ \A v \in Nat : ServesAtLeast(s, v) => ServesAtLeast(s, v)'
         /\ s = call[c].scope =>
              \E id \in ActiveRecords(s)' : records'[id].version >= call[c].version
         /\ s # call[c].scope => ServedVersion(s)' = ServedVersion(s)
         /\ ServedVersion(s)' \in {ServedVersion(s), ServedVersion(s) + 1}
<1> DEFINE n == call[c].context_id
           w == call[c].version
<1>0. TypeOK /\ HasServed(s) /\ AppCallInv(c) /\ CallConsistent(c) /\ TypeOK'
  BY InvariantStep DEF AppInv, IInv, Next, ServiceCalls, AppCalls, PublishStep
<1>1. /\ call[c] \in PublishCall /\ n \in Registered /\ w \in Nat \ {0}
      /\ records[n].version = w /\ records[n].scope = call[c].scope
      /\ WriteState(n, "active")
  BY <1>0, CallShape DEF Activate, CallConsistent, AppCallInv, PublishPC, PublishCall
<1>2. /\ \A id \in Registered : records'[id].version = records[id].version
      /\ s # call[c].scope => ActiveRecords(s)' = ActiveRecords(s)
      /\ s = call[c].scope => ActiveRecords(s)' = ActiveRecords(s) \cup {n}
  <2> HIDE DEF n
  <2> QED
    BY <1>0, <1>1, ActiveAfterWrite, StatesKnown
<1>3. \A v \in Nat : ServesAtLeast(s, v) => ServesAtLeast(s, v)'
  BY <1>2 DEF ServesAtLeast, ActiveRecords
<1>4. /\ ServedVersion(s) \in Nat
      /\ \A id \in ActiveRecords(s) : /\ records[id].version \in Nat
                                     /\ records[id].version <= ServedVersion(s)
      /\ ActiveRecords(s) = {} => ServedVersion(s) = 0
      /\ ActiveRecords(s) # {} =>
           \E id \in ActiveRecords(s) : records[id].version = ServedVersion(s)
  BY <1>0, ServedVersionBounds
<1>5. CASE s # call[c].scope
  <2>1. Served(s)' = Served(s) /\ ServedVersion(s)' = ServedVersion(s)
    <3>1. Served(s)' = Served(s)
      BY <1>2, <1>5 DEF Served, ActiveRecords
    <3>2. \A id \in Served(s) : records'[id].version = records[id].version
      BY <1>2 DEF Served, ActiveRecords
    <3> QED
      BY <3>1, <3>2 DEF ServedVersion
  <2> QED
    BY <1>0, <1>2, <1>3, <1>5, <2>1 DEF HasServed
<1>6. CASE s = call[c].scope
  <2>1. w <= ServedVersion(s) + 1
    <3>1. CASE call[c].previous = NoContext
      BY <1>0, <1>1, <1>4, <3>1 DEF AppCallInv, Activate, PublishPC
    <3>2. CASE call[c].previous # NoContext
      <4>1. ServesAtLeast(s, records[call[c].previous].version)
            /\ records[call[c].previous].version + 1 = w
            /\ call[c].previous \in Registered
        BY <1>0, <1>6, <3>2 DEF AppCallInv, CallConsistent, Activate, PublishPC
      <4>2. PICK id \in ActiveRecords(s) :
              records[id].version >= records[call[c].previous].version
        BY <4>1 DEF ServesAtLeast
      <4>3. records[id].version \in Nat /\ records[call[c].previous].version \in Nat
        BY <1>0, <4>1 DEF TypeOK, Record, ActiveRecords, Registered
      <4> QED
        BY <1>1, <1>4, <4>1, <4>2, <4>3
    <3> QED
      BY <3>1, <3>2
  <2>2. /\ ActiveRecords(s)' = ActiveRecords(s) \cup {n}
        /\ records'[n].version = w
        /\ \A id \in ActiveRecords(s) : records'[id].version = records[id].version
    BY <1>1, <1>2, <1>6 DEF ActiveRecords
  <2>3. CASE w <= ServedVersion(s)
    <3>1. PICK id \in ActiveRecords(s) : records[id].version = ServedVersion(s)
      BY <1>1, <1>4, <2>3
    <3>2. id \in Served(s)'
      BY <1>4, <2>2, <2>3, <3>1 DEF Served
    <3>3. ServedVersion(s)' = records'[id].version
      BY <1>0, <3>2, ServedVersionNext DEF ServedVersionFact
    <3> QED
      BY <1>1, <1>3, <1>6, <2>2, <3>1, <3>2, <3>3 DEF HasServed, ServesAtLeast
  <2>4. CASE w > ServedVersion(s)
    <3>1. w = ServedVersion(s) + 1
      BY <1>1, <1>4, <2>1, <2>4
    <3>2. n \in Served(s)'
      BY <1>1, <1>4, <2>2, <3>1 DEF Served
    <3>3. ServedVersion(s)' = records'[n].version
      BY <1>0, <3>2, ServedVersionNext DEF ServedVersionFact
    <3> QED
      BY <1>1, <1>3, <1>6, <2>2, <3>1, <3>2, <3>3 DEF HasServed, ServesAtLeast
  <2> QED
    BY <1>1, <1>4, <2>3, <2>4
<1> QED
  BY <1>5, <1>6

(* Superseding a record never lowers the version served: the call that     *)
(* does it has activated a higher one, which, or whose successor, remains. *)
LEMMA SupersedeServes ==
  ASSUME AppInv, NEW c \in Clients, Supersede(c), NEW s \in Scopes
  PROVE  /\ HasServed(s)'
         /\ \A v \in Nat : ServesAtLeast(s, v) => ServesAtLeast(s, v)'
         /\ ServedVersion(s)' = ServedVersion(s)
<1> DEFINE p == call[c].previous
<1>0. TypeOK /\ HasServed(s) /\ AppCallInv(c) /\ CallConsistent(c) /\ TypeOK'
  BY InvariantStep DEF AppInv, IInv, Next, ServiceCalls, AppCalls, PublishStep
<1>1. /\ p \in Registered /\ records[p].scope = call[c].scope
      /\ records[p].version + 1 = call[c].version
      /\ ServesAtLeast(call[c].scope, call[c].version)
      /\ WriteState(p, "superseded")
  BY <1>0 DEF Supersede, CallConsistent, AppCallInv, PublishPC
<1>2. /\ \A id \in Registered : records'[id].version = records[id].version
      /\ s # call[c].scope => ActiveRecords(s)' = ActiveRecords(s)
      /\ s = call[c].scope => ActiveRecords(s)' = ActiveRecords(s) \ {p}
  <2> HIDE DEF p
  <2> QED
    BY <1>0, <1>1, ActiveAfterWrite, StatesKnown
<1>3. ASSUME NEW id \in ActiveRecords(s)
      PROVE  \E other \in ActiveRecords(s)' :
               /\ other \in ActiveRecords(s)
               /\ records[other].version >= records[id].version
               /\ id \in ActiveRecords(s)' => other = id
  <2>1. records[id].version \in Nat
    BY <1>0 DEF ActiveRecords, TypeOK, Record, Registered
  <2>2. CASE id \in ActiveRecords(s)'
    BY <2>1, <2>2
  <2>3. CASE id \notin ActiveRecords(s)'
    <3>1. s = call[c].scope /\ id = p
      BY <1>2, <2>3
    <3>2. PICK other \in ActiveRecords(s) : records[other].version >= call[c].version
      BY <1>1, <3>1 DEF ServesAtLeast
    <3>3. records[other].version \in Nat /\ records[p].version \in Nat
      BY <1>0, <1>1 DEF ActiveRecords, TypeOK, Record, Registered
    <3> QED
      BY <1>1, <1>2, <2>3, <3>1, <3>2, <3>3
  <2> QED
    BY <2>2, <2>3
<1>4. ActiveRecords(s)' \subseteq ActiveRecords(s)
  BY <1>2
<1>5. \A id \in ActiveRecords(s) : /\ records[id].version \in Nat
                                  /\ records'[id].version = records[id].version
  BY <1>0, <1>2 DEF ActiveRecords, TypeOK, Record, Registered
<1>6. \A v \in Nat : ServesAtLeast(s, v) => ServesAtLeast(s, v)'
  BY <1>3, <1>5 DEF ServesAtLeast
<1>7. CASE ActiveRecords(s) = {}
  BY <1>4, <1>6, <1>7 DEF HasServed, ServedVersion, Served
<1>8. CASE ActiveRecords(s) # {}
  <2>1. PICK id \in Served(s) : TRUE
    BY <1>0, <1>8 DEF HasServed
  <2>2. PICK other \in ActiveRecords(s)' :
          other \in ActiveRecords(s) /\ records[other].version >= records[id].version
    BY <1>3, <2>1 DEF Served
  <2>3. other \in Served(s)' /\ records'[other].version = records[id].version
    BY <1>4, <1>5, <2>1, <2>2 DEF Served
  <2> QED
    BY <1>0, <1>6, <2>1, <2>3, ServedVersionIs, ServedVersionNext DEF HasServed, ServedVersionFact
<1> QED
  BY <1>7, <1>8
-----------------------------------------------------------------------------
(* All other steps leave the ACTIVE records alone.                         *)
LEMMA OtherStepsSame ==
  ASSUME AppInv, [AppNext]_vars,
         \A c \in Clients : ~ Activate(c) /\ ~ Supersede(c)
  PROVE  SameActive
<1>0. TypeOK
  BY DEF AppInv, IInv
<1>1. CASE UNCHANGED records
  BY <1>1 DEF SameActive, ActiveRecords, Registered
<1>2. ASSUME NEW c \in Clients, Register(c) PROVE SameActive
  <2>1. PICK id \in ContextIds \ Registered :
          /\ Registered' = Registered \cup {id}
          /\ \A i \in Registered : records'[i] = records[i]
          /\ records'[id].state = "generated"
    BY <1>2 DEF Register, Registered
  <2> QED
    BY <2>1 DEF SameActive, ActiveRecords
<1> QED
  BY <1>1, <1>2
     DEF AppNext, AppCalls, PublishStep, BeginPublish, PutArtifact, CheckActivate,
         GetPublished, CheckSupersede, Finish, Fail, vars

(* A step of the application keeps what every scope serves, or moves one   *)
(* scope to its next version.                                              *)
ServedStep ==
  \/ \A s \in Scopes : ServedVersion(s)' = ServedVersion(s)
  \/ \E s \in Scopes :
       /\ ServedVersion(s)' = ServedVersion(s) + 1
       /\ \A other \in Scopes \ {s} : ServedVersion(other)' = ServedVersion(other)

KeepsServing ==
  \A s \in Scopes : /\ HasServed(s)'
                    /\ \A v \in Nat : ServesAtLeast(s, v) => ServesAtLeast(s, v)'

LEMMA ServingStep ==
  ASSUME AppInv, [AppNext]_vars
  PROVE  KeepsServing /\ ServedStep
<1>1. ASSUME NEW c \in Clients, Activate(c) PROVE KeepsServing /\ ServedStep
  <2>1. call[c].scope \in Scopes
    BY <1>1, CallShape DEF AppInv, IInv, Activate, PublishPC, PublishCall
  <2> QED
    BY <1>1, <2>1, ActivateServes DEF KeepsServing, ServedStep
<1>2. ASSUME NEW c \in Clients, Supersede(c) PROVE KeepsServing /\ ServedStep
  BY <1>2, SupersedeServes DEF KeepsServing, ServedStep
<1>3. CASE \A c \in Clients : ~ Activate(c) /\ ~ Supersede(c)
  BY <1>3, OtherStepsSame, SameActiveServes DEF AppInv, KeepsServing, ServedStep
<1> QED
  BY <1>1, <1>2, <1>3

LEMMA AppImpliesNext == [AppNext]_vars => [Next]_vars
BY DEF AppNext, Next, ServiceCalls

LEMMA VersionsFixed ==
  ASSUME AppInv, [AppNext]_vars, NEW id \in Registered
  PROVE  records'[id].version = records[id].version
<1>0. TypeOK /\ \A c \in Clients : CallConsistent(c)
  BY DEF AppInv, IInv
<1>1. CASE UNCHANGED records
  BY <1>1
<1>2. ASSUME NEW c \in Clients, Register(c)
      PROVE  records'[id].version = records[id].version
  BY <1>2 DEF Register
<1>3. ASSUME NEW c \in Clients, Activate(c) \/ Supersede(c)
      PROVE  records'[id].version = records[id].version
  <2>1. PICK i \in Registered, state \in LifecycleStates : WriteState(i, state)
    <3>1. call[c] \in PublishCall
      BY <1>0, <1>3, CallShape DEF Activate, Supersede, PublishPC
    <3> QED
      BY <1>0, <1>3, <3>1, StatesKnown
         DEF Activate, Supersede, CallConsistent, PublishPC, PublishCall
  <2>2. records[i].scope \in Scopes
    BY <1>0 DEF TypeOK, Record, Registered
  <2> QED
    BY <1>0, <2>1, <2>2, ActiveAfterWrite
<1> QED
  BY <1>1, <1>2, <1>3
     DEF AppNext, AppCalls, PublishStep, BeginPublish, PutArtifact, CheckActivate,
         GetPublished, CheckSupersede, Finish, Fail, vars

(* A publication keeps what it decided on its first read until it ends.    *)
LEMMA PublishStepFields ==
  ASSUME TypeOK, NEW c \in Clients, PublishStep(c)
  PROVE  /\ call[c].pc \in PublishPC
         /\ call'[c] # Raised =>
              /\ call'[c].scope = call[c].scope
              /\ call'[c].target_state = call[c].target_state
              /\ call'[c].previous = call[c].previous
              /\ call'[c].version = call[c].version
              /\ call'[c].pc \in PublishPC \cup {"returned"}
              /\ call'[c].pc \in {"get", "supersede", "superseding"} =>
                   Activate(c) \/ call[c].pc \in {"get", "supersede", "superseding"}
<1>1. call[c].pc \in PublishPC /\ call[c] \in PublishCall
  BY CallShape
     DEF PublishStep, PublishPC, Register, PutArtifact, CheckActivate, Activate, GetPublished,
         CheckSupersede, Supersede
<1>2. CASE Register(c)
  BY <1>1, <1>2 DEF Register, TypeOK, PublishCall, PublishPC
<1>3. CASE PutArtifact(c)
  BY <1>1, <1>3 DEF PutArtifact
<1>4. CASE CheckActivate(c)
  BY <1>1, <1>4 DEF CheckActivate, Goto, TypeOK, PublishCall, PublishPC
<1>5. CASE Activate(c)
  BY <1>1, <1>5 DEF Activate, Goto, TypeOK, PublishCall, PublishPC
<1>6. CASE GetPublished(c)
  BY <1>1, <1>6 DEF GetPublished, TypeOK, PublishCall, PublishPC
<1>7. CASE CheckSupersede(c)
  BY <1>1, <1>7 DEF CheckSupersede, Goto, TypeOK, PublishCall, PublishPC
<1>8. CASE Supersede(c)
  BY <1>1, <1>8 DEF Supersede, Goto, TypeOK, PublishCall, PublishPC
<1> QED
  BY <1>1, <1>2, <1>3, <1>4, <1>5, <1>6, <1>7, <1>8 DEF PublishStep

(* The ACTIVE records of a scope of the present state, in the next one.    *)
NextActive(s) == { id \in DOMAIN records' : records'[id].scope = s
                                            /\ records'[id].state = "active" }

LEMMA AppCallStep ==
  ASSUME AppInv, [AppNext]_vars, NEW d \in Clients
  PROVE  AppCallInv(d)'
<1>0. /\ TypeOK /\ CallConsistent(d) /\ AppCallInv(d)
      /\ call[d].pc \in PublishPC => call[d] \in PublishCall
  BY CallShape DEF AppInv, IInv
<1>1. KeepsServing /\ \A id \in Registered : /\ records'[id].version = records[id].version
                                             /\ records[id].version \in Nat
  BY <1>0, ServingStep, VersionsFixed DEF TypeOK, Record, Registered
<1>2. call[d].pc \in PublishPC =>
        /\ call[d].previous # NoContext =>
             \E id \in NextActive(call[d].scope) :
               records'[id].version >= records'[call[d].previous].version
        /\ call[d].pc \in {"get", "supersede", "superseding"} =>
             \E id \in NextActive(call[d].scope) : records'[id].version >= call[d].version
  <2>1. ASSUME NEW s \in Scopes, NEW v \in Nat, ServesAtLeast(s, v)
        PROVE  \E id \in NextActive(s) : records'[id].version >= v
    BY <1>1, <2>1 DEF KeepsServing, ServesAtLeast, ActiveRecords, Registered, NextActive
  <2>2. ASSUME call[d].pc \in PublishPC
        PROVE  call[d].scope \in Scopes /\ call[d].version \in Nat
    BY <1>0, <2>2 DEF PublishCall
  <2>3. ASSUME call[d].pc \in PublishPC, call[d].previous # NoContext
        PROVE  \E id \in NextActive(call[d].scope) :
                 records'[id].version >= records'[call[d].previous].version
    <3>1. call[d].previous \in Registered
      BY <1>0, <2>3 DEF CallConsistent
    <3>2. ServesAtLeast(call[d].scope, records[call[d].previous].version)
      BY <1>0, <2>3 DEF AppCallInv
    <3> QED
      BY <1>1, <2>1, <2>2, <2>3, <3>1, <3>2
  <2>4. ASSUME call[d].pc \in {"get", "supersede", "superseding"}
        PROVE  \E id \in NextActive(call[d].scope) : records'[id].version >= call[d].version
    <3>1. call[d].pc \in PublishPC /\ ServesAtLeast(call[d].scope, call[d].version)
      BY <1>0, <2>4 DEF AppCallInv, PublishPC
    <3> QED
      BY <2>1, <2>2, <3>1
  <2> QED
    BY <2>3, <2>4
<1>3. CASE call'[d] = call[d]
  BY <1>0, <1>2, <1>3 DEF AppCallInv, ServesAtLeast, ActiveRecords, Registered, NextActive, PublishPC
<1>4. ASSUME NEW s \in Scopes, NEW hash \in Hashes, NEW artifacts \in Publications,
             BeginPublish(d, s, hash, artifacts, FALSE)
      PROVE  AppCallInv(d)'
  <2>1. PICK previous \in LookupActive(s) :
          call' = [call EXCEPT ![d] =
           [pc |-> "register", scope |-> s, schema_hash |-> hash,
            artifacts |-> artifacts,
            target_state |-> TargetState(artifacts, FALSE),
            previous |-> previous, version |-> NextVersion(previous),
            context_id |-> NoContext, published |-> "generated"]]
    BY <1>4 DEF BeginPublish
  <2>2. previous # NoContext => previous \in ActiveRecords(s)
    BY <1>0, LookupActiveFacts
  <2>3. UNCHANGED records /\ ActiveRecords(s)' = ActiveRecords(s)
    BY <1>4 DEF BeginPublish, ActiveRecords, Registered
  <2>4. call'[d] = [pc |-> "register", scope |-> s, schema_hash |-> hash,
                    artifacts |-> artifacts, target_state |-> "active",
                    previous |-> previous, version |-> NextVersion(previous),
                    context_id |-> NoContext, published |-> "generated"]
    BY <1>0, <2>1 DEF TypeOK, TargetState
  <2>5. previous = NoContext => NextVersion(previous) = 1
    BY DEF NextVersion
  <2>6. previous # NoContext => records[previous].version \in Nat
    BY <1>1, <2>2 DEF ActiveRecords
  <2> QED
    BY <2>2, <2>3, <2>4, <2>5, <2>6 DEF AppCallInv, ServesAtLeast
<1>5. CASE PublishStep(d)
  <2>1. CASE call'[d] = Raised
    BY <2>1 DEF AppCallInv, Raised, PublishPC
  <2>2. CASE call'[d] # Raised
    <3>1. Activate(d) =>
            \E id \in NextActive(call[d].scope) : records'[id].version >= call[d].version
      <4>1. ASSUME Activate(d) PROVE call[d].scope \in Scopes
        BY <1>0, <4>1 DEF PublishCall, Activate, PublishPC
      <4>2. ASSUME Activate(d), NEW s \in Scopes, s = call[d].scope
            PROVE  \E id \in NextActive(s) : records'[id].version >= call[d].version
        BY <4>2, ActivateServes DEF ActiveRecords, Registered, NextActive
      <4> QED
        BY <4>1, <4>2
    <3> QED
      BY <1>0, <1>2, <1>5, <2>2, <3>1, PublishStepFields
         DEF AppCallInv, ServesAtLeast, ActiveRecords, Registered, NextActive, PublishPC
  <2> QED
    BY <2>1, <2>2
<1>6. CASE Finish(d) \/ Fail(d)
  BY <1>0, <1>6 DEF Finish, Fail, TypeOK, AppCallInv, Idle, Raised, PublishPC
<1>7. ASSUME NEW c \in Clients, c # d, AppCalls(c) \/ Fail(c) PROVE call'[d] = call[d]
  BY <1>0, <1>7, OthersUntouched DEF AppCalls, BeginPublish, TypeOK
<1> QED
  BY <1>3, <1>4, <1>5, <1>6, <1>7 DEF AppNext, AppCalls, vars

LEMMA AppInvStep == AppInv /\ [AppNext]_vars => AppInv'
BY AppCallStep, ServingStep, InvariantStep, AppImpliesNext DEF AppInv, KeepsServing

LEMMA AppInvInit == Init => AppInv
<1> SUFFICES ASSUME Init PROVE AppInv
  OBVIOUS
<1>1. \A s \in Scopes : ActiveRecords(s) = {}
  BY DEF Init, ActiveRecords, Registered
<1>2. \A c \in Clients : call[c].pc = "idle"
  BY DEF Init, Idle
<1> QED
  BY <1>1, <1>2, InitInvariant DEF AppInv, AppCallInv, HasServed, PublishPC

-----------------------------------------------------------------------------
LEMMA InitRefines == Init => Reader!Init
BY DEF Init, Reader!Init, ServedVersion, Served, ActiveRecords, Registered

LEMMA StepRefines ==
  AppInv /\ [AppNext]_vars =>
    [Reader!Next]_[s \in Scopes |-> ServedVersion(s)]
<1> SUFFICES ASSUME AppInv, [AppNext]_vars
             PROVE  [Reader!Next]_[s \in Scopes |-> ServedVersion(s)]
  OBVIOUS
<1> DEFINE served == [s \in Scopes |-> ServedVersion(s)]
<1>1. CASE \A s \in Scopes : ServedVersion(s)' = ServedVersion(s)
  BY <1>1
<1>2. ASSUME NEW s \in Scopes,
             ServedVersion(s)' = ServedVersion(s) + 1,
             \A other \in Scopes \ {s} : ServedVersion(other)' = ServedVersion(other)
      PROVE  Reader!Next
  <2>1. served' = [served EXCEPT ![s] = @ + 1]
    BY <1>2
  <2> QED
    BY <2>1 DEF Reader!Next, Reader!Advance
<1> QED
  BY <1>1, <1>2, ServingStep DEF ServedStep

(* Readers are served version after version, in order.                     *)
THEOREM ServesInOrder == AppSpec => ServesVersionsInOrder
BY AppInvInit, AppInvStep, InitRefines, StepRefines, PTL
   DEF AppSpec, ServesVersionsInOrder, Reader!Spec
=============================================================================
