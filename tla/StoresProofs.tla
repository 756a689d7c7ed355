---------------------------- MODULE StoresProofs ----------------------------
(***************************************************************************)
(* Four stores, for any number of requests at the same time: the catalog   *)
(* of connections, the settings of the language model, the templates,      *)
(* metrics and evaluations of an organization, and the checkpoints.        *)
(* Each is a theorem of its own module's specification.                    *)
(***************************************************************************)
EXTENDS Connections, LlmSettings, TenantStores, Checkpoints,
        TLAPS, FiniteSetTheorems, SequenceTheorems, WellFoundedInduction

(***************************************************************************)
(* Connections.  What bounds the table is not its size but its size and    *)
(* the requests that have counted it and not yet added their row: each of  *)
(* them may have counted before the others add.  With the local manager    *)
(* only one request is under way, and what it read still holds.            *)
(***************************************************************************)

Adding == {h \in Handlers : At(h, "add")}

Overlap == IF durable THEN Cardinality(Handlers) - 1 ELSE 0

RoomCounted ==
  /\ IsFiniteSet(Listed)
  /\ Cardinality(Listed) + Cardinality(Adding) <= ConnectionLimit + Overlap

OneRequest == \A g, h \in Handlers : ~ Idle(g) /\ ~ Idle(h) => g = h

(* What the request of h relies on is so.                                  *)
ReliesOnFacts(h) ==
  LET i == handler[h].id IN
  /\ At(h, "add") => i \notin Listed
  /\ At(h, "merge") => i \in Listed /\
       (handler[h].settings = {} \/ connections[i].settings \subseteq handler[h].settings)
  /\ At(h, "name") \/ At(h, "write") =>
       i \in Listed /\ connections[i].settings \subseteq handler[h].settings
  /\ At(h, "write") =>
       \A j \in Listed \ {i} : connections[j].name # handler[h].name

LocalIsAtomic ==
  ~ durable => OneRequest /\ NamesUnique /\ \A h \in Handlers : ReliesOnFacts(h)

DrawnIds == Listed \subseteq drawn_ids /\ \A h \in Handlers : ~ Idle(h) => handler[h].id \in drawn_ids

ConnInv == ConnTypeOK /\ RoomCounted /\ DrawnIds /\ LocalIsAtomic

USE ConnectionsAssumption

LEMMA HandlersFinite ==
  /\ Cardinality(Handlers) \in Nat /\ Cardinality(Handlers) >= 1
  /\ IsFiniteSet(Adding) /\ Cardinality(Adding) \in Nat
  /\ Cardinality(Adding) <= Cardinality(Handlers)
  <1>1. Cardinality(Handlers) \in Nat /\ (Cardinality(Handlers) = 0 <=> Handlers = {})
    BY FS_CardinalityType, FS_EmptySet
  <1>2. Adding \subseteq Handlers BY DEF Adding
  <1>3. IsFiniteSet(Adding) /\ Cardinality(Adding) <= Cardinality(Handlers) BY <1>2, FS_Subset
  <1>4. Cardinality(Adding) \in Nat BY <1>3, FS_CardinalityType
  <1> QED BY <1>1, <1>3, <1>4

LEMMA ConnInitInv == ConnInit => ConnInv
  <1> SUFFICES ASSUME ConnInit PROVE ConnInv OBVIOUS
  <1>1. durable \in BOOLEAN /\ drawn_ids = {}
        /\ connections = [i \in Ids |-> NoConnection]
        /\ handler = [h \in Handlers |-> NoConnection]
    BY DEF ConnInit
  <1>2. ConnTypeOK BY <1>1 DEF ConnTypeOK
  <1>3. Listed = {} BY <1>1 DEF Listed
  <1>4. \A h \in Handlers : Idle(h) BY <1>1 DEF Idle
  <1>5. Adding = {} BY <1>4 DEF Adding, At
  <1>6. RoomCounted
    <2>1. IsFiniteSet({}) /\ Cardinality({}) = 0 BY FS_EmptySet
    <2> QED BY <1>1, <1>3, <1>5, <2>1, HandlersFinite DEF RoomCounted, Overlap
  <1>7. DrawnIds BY <1>3, <1>4 DEF DrawnIds
  <1>8. LocalIsAtomic BY <1>3, <1>4 DEF LocalIsAtomic, OneRequest, NamesUnique, ReliesOnFacts, At
  <1> QED BY <1>2, <1>6, <1>7, <1>8 DEF ConnInv

(* A step that changes no row and lets no request come to add.             *)
LEMMA CountKept ==
  ASSUME RoomCounted, durable \in BOOLEAN, UNCHANGED durable, Listed' \subseteq Listed,
         Adding' \subseteq Adding
  PROVE  RoomCounted'
  <1>1. IsFiniteSet(Listed) BY DEF RoomCounted
  <1>2. /\ IsFiniteSet(Listed') /\ Cardinality(Listed') <= Cardinality(Listed)
        /\ IsFiniteSet(Adding') /\ Cardinality(Adding') <= Cardinality(Adding)
    BY <1>1, HandlersFinite, FS_Subset
  <1>3. Cardinality(Listed') \in Nat /\ Cardinality(Listed) \in Nat /\ Cardinality(Adding') \in Nat
        /\ Cardinality(Adding) \in Nat
    BY <1>1, <1>2, HandlersFinite, FS_CardinalityType
  <1>4. Overlap' = Overlap /\ Overlap \in Int BY HandlersFinite DEF Overlap
  <1> QED BY <1>2, <1>3, <1>4 DEF RoomCounted

LEMMA BeginCreateKeeps ==
  ASSUME ConnInv, NEW h \in Handlers, NEW i \in Ids, NEW n \in Names, NEW s \in SUBSET Settings,
         BeginCreate(h, i, n, s)
  PROVE  ConnInv'
  <1> DEFINE r == [at |-> "add", id |-> i, name |-> n, settings |-> s]
  <1>1. /\ ConnTypeOK /\ RoomCounted /\ DrawnIds /\ LocalIsAtomic BY DEF ConnInv
  <1>2. /\ Idle(h) /\ Turn(h) /\ WithinLimit /\ i \notin drawn_ids
        /\ drawn_ids' = drawn_ids \cup {i}
        /\ handler' = [handler EXCEPT ![h] = r]
        /\ durable' = durable /\ connections' = connections
    BY DEF BeginCreate
  <1>3. Listed' = Listed BY <1>2 DEF Listed
  <1>4. r \in ConnRequests BY DEF ConnRequests
  <1>5. ConnTypeOK' BY <1>1, <1>2, <1>4 DEF ConnTypeOK
  <1>6. /\ handler'[h] = r
        /\ \A g \in Handlers \ {h} : handler'[g] = handler[g]
    BY <1>1, <1>2 DEF ConnTypeOK
  <1>7. DrawnIds' BY <1>1, <1>2, <1>3, <1>6 DEF DrawnIds, Idle
  <1>8. RoomCounted'
    <2>1. Cardinality(Listed) \in Nat /\ Cardinality(Listed) < ConnectionLimit
      BY <1>1, <1>2, FS_CardinalityType DEF RoomCounted, WithinLimit
    <2>2. IsFiniteSet(Adding') /\ Cardinality(Adding') \in Nat
          /\ Cardinality(Adding') <= Overlap + 1
      <3>0. Adding' \subseteq Handlers BY DEF Adding
      <3>1. IsFiniteSet(Adding') /\ Cardinality(Adding') <= Cardinality(Handlers)
        BY <3>0, FS_Subset
      <3>2. Cardinality(Adding') \in Nat BY <3>1, FS_CardinalityType
      <3>3. CASE durable BY <3>1, <3>2, <3>3, HandlersFinite DEF Overlap
      <3>4. CASE ~ durable
        <4>1. \A g \in Handlers \ {h} : Idle(g) BY <1>2, <3>4 DEF Turn
        <4>2. Adding' \subseteq {h} BY <1>6, <4>1 DEF Adding, At, Idle
        <4>3. IsFiniteSet({h}) /\ Cardinality({h}) = 1 BY FS_Singleton
        <4>4. Cardinality(Adding') <= 1 BY <4>2, <4>3, FS_Subset
        <4> QED BY <3>1, <3>2, <3>4, <4>4 DEF Overlap
      <3> QED BY <3>3, <3>4
    <2>3. Overlap' = Overlap /\ Overlap \in Int BY <1>2, HandlersFinite DEF Overlap
    <2> QED BY <1>1, <1>3, <2>1, <2>2, <2>3 DEF RoomCounted
  <1>9. LocalIsAtomic'
    <2> SUFFICES ASSUME ~ durable PROVE (OneRequest /\ NamesUnique /\ \A g \in Handlers : ReliesOnFacts(g))'
      BY <1>2 DEF LocalIsAtomic
    <2>1. \A g \in Handlers \ {h} : Idle(g) /\ Idle(g)' BY <1>2, <1>6 DEF Turn, Idle
    <2>2. OneRequest' BY <2>1 DEF OneRequest
    <2>3. NamesUnique' BY <1>1, <1>2, <1>3 DEF LocalIsAtomic, NamesUnique
    <2>4. ReliesOnFacts(h)'
      <3>1. i \notin Listed BY <1>1, <1>2 DEF DrawnIds
      <3> QED BY <1>3, <1>6, <3>1 DEF ReliesOnFacts, At
    <2>5. \A g \in Handlers \ {h} : ReliesOnFacts(g)' BY <2>1 DEF ReliesOnFacts, At
    <2> QED BY <2>2, <2>3, <2>4, <2>5
  <1> QED BY <1>5, <1>7, <1>8, <1>9 DEF ConnInv

(* A step of the request of h that writes no row and leaves it where it    *)
(* does not add.                                                           *)
LEMMA NoRowKeeps ==
  ASSUME ConnInv, ConnTypeOK', NEW h \in Handlers, Turn(h) \/ durable,
         UNCHANGED <<durable, connections, drawn_ids>>,
         \A g \in Handlers \ {h} : handler'[g] = handler[g],
         Idle(h)' \/ (handler'[h].id \in drawn_ids /\ ~ At(h, "add")'),
         ~ durable => ReliesOnFacts(h)'
  PROVE  ConnInv'
  <1>1. /\ ConnTypeOK /\ RoomCounted /\ DrawnIds /\ LocalIsAtomic BY DEF ConnInv
  <1>2. Listed' = Listed BY DEF Listed
  <1>3. Adding' \subseteq Adding BY DEF Adding, At, Idle
  <1>4. RoomCounted' BY <1>1, <1>2, <1>3, CountKept DEF ConnTypeOK
  <1>5. DrawnIds' BY <1>1, <1>2 DEF DrawnIds, Idle
  <1>6. LocalIsAtomic'
    <2> SUFFICES ASSUME ~ durable PROVE (OneRequest /\ NamesUnique /\ \A g \in Handlers : ReliesOnFacts(g))'
      BY DEF LocalIsAtomic
    <2>1. \A g \in Handlers \ {h} : Idle(g) /\ Idle(g)' BY DEF Turn, Idle
    <2>2. OneRequest' BY <2>1 DEF OneRequest
    <2>3. NamesUnique' BY <1>1, <1>2 DEF LocalIsAtomic, NamesUnique
    <2>4. \A g \in Handlers \ {h} : ReliesOnFacts(g)' BY <2>1 DEF ReliesOnFacts, At
    <2> QED BY <2>2, <2>3, <2>4
  <1> QED BY <1>4, <1>5, <1>6 DEF ConnInv

LEMMA HandlerSet ==
  ASSUME ConnTypeOK, NEW h \in Handlers, NEW r, handler' = [handler EXCEPT ![h] = r],
         r \in ConnRequests \cup {NoConnection}
  PROVE  /\ handler' \in [Handlers -> ConnRequests \cup {NoConnection}]
         /\ handler'[h] = r
         /\ \A g \in Handlers \ {h} : handler'[g] = handler[g]
  BY DEF ConnTypeOK

LEMMA RequestShape ==
  ASSUME ConnTypeOK, NEW h \in Handlers, ~ Idle(h)
  PROVE  /\ handler[h] \in ConnRequests
         /\ handler[h].id \in Ids /\ handler[h].name \in Names
         /\ handler[h].settings \in SUBSET Settings
  <1>1. handler[h] \in ConnRequests BY DEF ConnTypeOK, Idle
  <1> QED BY <1>1 DEF ConnRequests

LEMMA ConnectionShape ==
  ASSUME ConnTypeOK, NEW i \in Listed
  PROVE  i \in Ids /\ connections[i] \in Connection
         /\ connections[i].name \in Names /\ connections[i].settings \in SUBSET Settings
  <1>1. i \in Ids /\ connections[i] \in Connection BY DEF ConnTypeOK, Listed
  <1> QED BY <1>1 DEF Connection

LEMMA BeginUpdateKeeps ==
  ASSUME ConnInv, NEW h \in Handlers, NEW i \in Ids, NEW n \in Names, NEW s \in SUBSET Settings,
         BeginUpdate(h, i, n, s)
  PROVE  ConnInv'
  <1> DEFINE r == [at |-> "merge", id |-> i, name |-> n,
                   settings |-> IF s = {} THEN {} ELSE connections[i].settings \cup s]
  <1>1. /\ ConnTypeOK /\ RoomCounted /\ DrawnIds /\ LocalIsAtomic BY DEF ConnInv
  <1>2. /\ Turn(h) /\ i \in Listed /\ handler' = [handler EXCEPT ![h] = r]
        /\ UNCHANGED <<durable, connections, drawn_ids>>
    BY DEF BeginUpdate
  <1>3. connections[i].settings \in SUBSET Settings BY <1>1, <1>2, ConnectionShape
  <1>4. r \in ConnRequests BY <1>3 DEF ConnRequests
  <1>5. /\ handler'[h] = r
        /\ \A g \in Handlers \ {h} : handler'[g] = handler[g]
        /\ ConnTypeOK'
    BY <1>1, <1>2, <1>4, HandlerSet DEF ConnTypeOK
  <1>6. handler'[h].id \in drawn_ids /\ ~ At(h, "add")' BY <1>1, <1>2, <1>5 DEF DrawnIds, At
  <1>7. Listed' = Listed BY <1>2 DEF Listed
  <1>8. ReliesOnFacts(h)' BY <1>2, <1>5, <1>7 DEF ReliesOnFacts, At
  <1> QED BY <1>2, <1>5, <1>6, <1>8, NoRowKeeps

LEMMA DoneKeeps ==
  ASSUME ConnInv, NEW h \in Handlers, Turn(h) \/ durable, Done(h),
         UNCHANGED <<durable, connections, drawn_ids>>
  PROVE  ConnInv'
  <1>1. ConnTypeOK BY DEF ConnInv
  <1>2. /\ handler'[h] = NoConnection
        /\ \A g \in Handlers \ {h} : handler'[g] = handler[g]
        /\ ConnTypeOK'
    BY <1>1, HandlerSet DEF ConnTypeOK, Done
  <1>3. Idle(h)' /\ ReliesOnFacts(h)' BY <1>2 DEF Idle, ReliesOnFacts, At
  <1> QED BY <1>2, <1>3, NoRowKeeps

LEMMA ReadCurrentKeeps == ASSUME ConnInv, NEW h \in Handlers, ReadCurrent(h) PROVE ConnInv'
  <1>1. /\ ConnTypeOK /\ RoomCounted /\ DrawnIds /\ LocalIsAtomic BY DEF ConnInv
  <1> DEFINE i == handler[h].id
  <1>2. At(h, "merge") /\ Turn(h) /\ UNCHANGED <<durable, connections, drawn_ids>>
    BY DEF ReadCurrent
  <1>3. CASE i \notin Listed
    <2>1. Done(h) BY <1>3 DEF ReadCurrent
    <2> QED BY <1>2, <2>1, DoneKeeps
  <1>4. CASE i \in Listed
    <2> DEFINE r == [handler[h] EXCEPT
           !.at = IF handler[h].name # connections[i].name THEN "name" ELSE "write",
           !.settings = IF @ = {} THEN connections[i].settings ELSE @]
    <2>1. handler' = [handler EXCEPT
            ![h].at = IF handler[h].name # connections[i].name THEN "name" ELSE "write",
            ![h].settings = IF @ = {} THEN connections[i].settings ELSE @]
      BY <1>4 DEF ReadCurrent
    <2>2. ~ Idle(h) /\ handler[h].at = "merge" BY <1>2 DEF At
    <2>3. /\ handler[h] \in ConnRequests /\ i \in Ids /\ handler[h].name \in Names
          /\ handler[h].settings \in SUBSET Settings
      BY <1>1, <2>2, RequestShape
    <2>4. connections[i].settings \in SUBSET Settings BY <1>1, <1>4, ConnectionShape
    <2>5. /\ r.at = IF handler[h].name # connections[i].name THEN "name" ELSE "write"
          /\ r.id = i /\ r.name = handler[h].name
          /\ r.settings = IF handler[h].settings = {} THEN connections[i].settings
                          ELSE handler[h].settings
          /\ r \in ConnRequests
      BY <2>3, <2>4 DEF ConnRequests
    <2>6. handler' = [handler EXCEPT ![h] = r] BY <1>1, <2>1 DEF ConnTypeOK
    <2>7. /\ handler'[h] = r
          /\ \A g \in Handlers \ {h} : handler'[g] = handler[g]
          /\ ConnTypeOK'
      BY <1>1, <1>2, <2>5, <2>6, HandlerSet DEF ConnTypeOK
    <2> HIDE DEF r
    <2>8. handler'[h].id \in drawn_ids /\ ~ At(h, "add")'
      BY <1>1, <2>2, <2>5, <2>7 DEF DrawnIds, At
    <2>9. ~ durable => ReliesOnFacts(h)'
      <3> SUFFICES ASSUME ~ durable PROVE ReliesOnFacts(h)' OBVIOUS
      <3>1. NamesUnique /\ ReliesOnFacts(h) BY <1>1 DEF LocalIsAtomic
      <3>2. Listed' = Listed BY <1>2 DEF Listed
      <3>3. connections[i].settings \subseteq r.settings
        BY <1>2, <2>5, <3>1 DEF ReliesOnFacts
      <3>4. r.at = "write" => \A j \in Listed \ {i} : connections[j].name # r.name
        BY <1>4, <2>5, <3>1 DEF NamesUnique
      <3> QED BY <1>2, <1>4, <2>5, <2>7, <3>2, <3>3, <3>4 DEF ReliesOnFacts, At
    <2> QED BY <1>2, <2>7, <2>8, <2>9, NoRowKeeps
  <1> QED BY <1>3, <1>4

LEMMA CheckNameKeeps == ASSUME ConnInv, NEW h \in Handlers, CheckName(h) PROVE ConnInv'
  <1>1. /\ ConnTypeOK /\ RoomCounted /\ DrawnIds /\ LocalIsAtomic BY DEF ConnInv
  <1> DEFINE i == handler[h].id
             Clash == \E j \in Listed \ {i} : connections[j].name = handler[h].name
  <1>2. At(h, "name") /\ Turn(h) /\ UNCHANGED <<durable, connections, drawn_ids>>
    BY DEF CheckName
  <1>3. CASE Clash
    <2>1. Done(h) BY <1>3 DEF CheckName
    <2> QED BY <1>2, <2>1, DoneKeeps
  <1>4. CASE ~ Clash
    <2> DEFINE r == [handler[h] EXCEPT !.at = "write"]
    <2>1. handler' = [handler EXCEPT ![h].at = "write"] BY <1>4 DEF CheckName, GoTo
    <2>2. ~ Idle(h) BY <1>2 DEF At
    <2>3. handler[h] \in ConnRequests BY <1>1, <2>2, RequestShape
    <2>4. /\ r.at = "write" /\ r.id = i /\ r.name = handler[h].name
          /\ r.settings = handler[h].settings /\ r \in ConnRequests
      BY <2>3 DEF ConnRequests
    <2>5. handler' = [handler EXCEPT ![h] = r] BY <1>1, <2>1 DEF ConnTypeOK
    <2>6. /\ handler'[h] = r
          /\ \A g \in Handlers \ {h} : handler'[g] = handler[g]
          /\ ConnTypeOK'
      BY <1>1, <1>2, <2>4, <2>5, HandlerSet DEF ConnTypeOK
    <2> HIDE DEF r
    <2>7. handler'[h].id \in drawn_ids /\ ~ At(h, "add")'
      BY <1>1, <2>2, <2>4, <2>6 DEF DrawnIds, At
    <2>8. ~ durable => ReliesOnFacts(h)'
      <3> SUFFICES ASSUME ~ durable PROVE ReliesOnFacts(h)' OBVIOUS
      <3>1. ReliesOnFacts(h) BY <1>1 DEF LocalIsAtomic
      <3>2. Listed' = Listed BY <1>2 DEF Listed
      <3>3. \A j \in Listed \ {i} : connections[j].name # r.name BY <1>4, <2>4
      <3> QED BY <1>2, <2>4, <2>6, <3>1, <3>2, <3>3 DEF ReliesOnFacts, At
    <2> QED BY <1>2, <2>6, <2>7, <2>8, NoRowKeeps
  <1> QED BY <1>3, <1>4

LEMMA BeginRemoveKeeps ==
  ASSUME ConnInv, NEW h \in Handlers, NEW i \in Ids, BeginRemove(h, i)
  PROVE  ConnInv'
  <1> DEFINE r == [at |-> "remove", id |-> i, name |-> connections[i].name, settings |-> {}]
  <1>1. /\ ConnTypeOK /\ RoomCounted /\ DrawnIds /\ LocalIsAtomic BY DEF ConnInv
  <1>2. /\ Turn(h) /\ i \in Listed /\ handler' = [handler EXCEPT ![h] = r]
        /\ UNCHANGED <<durable, connections, drawn_ids>>
    BY DEF BeginRemove
  <1>3. connections[i].name \in Names BY <1>1, <1>2, ConnectionShape
  <1>4. r \in ConnRequests BY <1>3 DEF ConnRequests
  <1>5. /\ handler'[h] = r
        /\ \A g \in Handlers \ {h} : handler'[g] = handler[g]
        /\ ConnTypeOK'
    BY <1>1, <1>2, <1>4, HandlerSet DEF ConnTypeOK
  <1>6. handler'[h].id \in drawn_ids /\ ~ At(h, "add")' BY <1>1, <1>2, <1>5 DEF DrawnIds, At
  <1>7. ReliesOnFacts(h)' BY <1>5 DEF ReliesOnFacts, At
  <1> QED BY <1>2, <1>5, <1>6, <1>7, NoRowKeeps

(* A step that ends the request of h and leaves the rows it wrote: what    *)
(* holds of the rows alone is left to show.                                *)
LEMMA WriteEnds ==
  ASSUME ConnInv, NEW h \in Handlers, ~ Idle(h), Turn(h), Done(h),
         UNCHANGED <<durable, drawn_ids>>,
         connections' \in [Ids -> Connection \cup {NoConnection}],
         Listed' \subseteq Listed \/
           (At(h, "add") /\ Listed' \subseteq Listed \cup {handler[h].id}),
         ~ durable => NamesUnique'
  PROVE  ConnInv'
  <1>1. /\ ConnTypeOK /\ RoomCounted /\ DrawnIds /\ LocalIsAtomic BY DEF ConnInv
  <1>2. /\ handler'[h] = NoConnection
        /\ \A g \in Handlers \ {h} : handler'[g] = handler[g]
        /\ ConnTypeOK'
    BY <1>1, HandlerSet DEF ConnTypeOK, Done
  <1>3. handler[h].id \in drawn_ids BY <1>1 DEF DrawnIds
  <1>4. DrawnIds' BY <1>1, <1>2, <1>3 DEF DrawnIds, Idle
  <1>5. RoomCounted'
    <2>1. Adding' \subseteq Adding \ {h} BY <1>2 DEF Adding, At, Idle
    <2>2. CASE Listed' \subseteq Listed BY <1>1, <2>1, <2>2, CountKept DEF ConnTypeOK
    <2>3. CASE At(h, "add") /\ Listed' \subseteq Listed \cup {handler[h].id}
      <3>1. IsFiniteSet(Listed) BY <1>1 DEF RoomCounted
      <3>2. /\ IsFiniteSet(Listed \cup {handler[h].id})
            /\ Cardinality(Listed \cup {handler[h].id}) <= Cardinality(Listed) + 1
            /\ Cardinality(Listed) \in Nat
        <4>1. Cardinality(Listed) \in Nat BY <3>1, FS_CardinalityType
        <4>2. /\ IsFiniteSet(Listed \cup {handler[h].id})
              /\ Cardinality(Listed \cup {handler[h].id}) \in
                   {Cardinality(Listed), Cardinality(Listed) + 1}
          BY <3>1, FS_AddElement
        <4> QED BY <4>1, <4>2
      <3>3. IsFiniteSet(Listed') /\ Cardinality(Listed') <= Cardinality(Listed \cup {handler[h].id})
        BY <2>3, <3>2, FS_Subset
      <3>4. h \in Adding BY <2>3 DEF Adding
      <3>5. /\ IsFiniteSet(Adding \ {h}) /\ Cardinality(Adding \ {h}) = Cardinality(Adding) - 1
        BY <3>4, HandlersFinite, FS_RemoveElement
      <3>6. IsFiniteSet(Adding') /\ Cardinality(Adding') <= Cardinality(Adding \ {h})
        BY <2>1, <3>5, FS_Subset
      <3>7. /\ Cardinality(Listed') \in Nat /\ Cardinality(Listed \cup {handler[h].id}) \in Nat
            /\ Cardinality(Adding') \in Nat /\ Cardinality(Adding \ {h}) \in Nat
        BY <3>2, <3>3, <3>5, <3>6, FS_CardinalityType
      <3>8. Overlap' = Overlap /\ Overlap \in Int
        BY HandlersFinite DEF Overlap
      <3>9. Cardinality(Listed') + Cardinality(Adding') <= Cardinality(Listed) + Cardinality(Adding)
        BY <3>2, <3>3, <3>5, <3>6, <3>7, HandlersFinite
      <3> QED BY <1>1, <3>2, <3>3, <3>7, <3>8, <3>9, HandlersFinite DEF RoomCounted
    <2> QED BY <2>2, <2>3
  <1>6. LocalIsAtomic'
    <2> SUFFICES ASSUME ~ durable PROVE (OneRequest /\ NamesUnique /\ \A g \in Handlers : ReliesOnFacts(g))'
      BY DEF LocalIsAtomic
    <2>1. \A g \in Handlers : Idle(g)' BY <1>2 DEF Turn, Idle
    <2> QED BY <2>1 DEF OneRequest, ReliesOnFacts, At
  <1> QED BY <1>2, <1>4, <1>5, <1>6 DEF ConnInv

LEMMA AddKeeps == ASSUME ConnInv, NEW h \in Handlers, Add(h) PROVE ConnInv'
  <1>1. /\ ConnTypeOK /\ RoomCounted /\ DrawnIds /\ LocalIsAtomic BY DEF ConnInv
  <1> DEFINE i == handler[h].id
             row == [name |-> handler[h].name, settings |-> handler[h].settings]
  <1>2. /\ At(h, "add") /\ ~ Idle(h) /\ Turn(h) /\ Done(h) /\ UNCHANGED <<durable, drawn_ids>>
        /\ connections' = IF Taken(handler[h].name) THEN connections
                          ELSE [connections EXCEPT ![i] = row]
    BY DEF Add, At
  <1>3. i \in Ids /\ row \in Connection BY <1>1, <1>2, RequestShape DEF Connection
  <1>4. CASE Taken(handler[h].name)
    <2>1. connections' = connections BY <1>2, <1>4
    <2>2. Listed' = Listed /\ (NamesUnique => NamesUnique') BY <2>1 DEF Listed, NamesUnique
    <2>3. ~ durable => NamesUnique' BY <1>1, <2>2 DEF LocalIsAtomic
    <2>4. connections' \in [Ids -> Connection \cup {NoConnection}] BY <1>1, <2>1 DEF ConnTypeOK
    <2> QED BY <1>2, <2>2, <2>3, <2>4, WriteEnds
  <1>5. CASE ~ Taken(handler[h].name)
    <2>1. connections' = [connections EXCEPT ![i] = row] BY <1>2, <1>5
    <2>2. /\ connections' \in [Ids -> Connection \cup {NoConnection}]
          /\ connections'[i] = row /\ \A j \in Ids \ {i} : connections'[j] = connections[j]
      BY <1>1, <1>3, <2>1 DEF ConnTypeOK
    <2>3. Listed' \subseteq Listed \cup {i} BY <2>2 DEF Listed
    <2>4. ~ durable => NamesUnique'
      <3> SUFFICES ASSUME ~ durable PROVE NamesUnique' OBVIOUS
      <3>1. NamesUnique BY <1>1 DEF LocalIsAtomic
      <3>2. row.name = handler[h].name OBVIOUS
      <3> QED BY <1>5, <2>2, <2>3, <3>1, <3>2 DEF NamesUnique, Taken, Listed
    <2> QED BY <1>2, <2>2, <2>3, <2>4, WriteEnds
  <1> QED BY <1>4, <1>5

LEMMA WriteKeeps == ASSUME ConnInv, NEW h \in Handlers, Write(h) PROVE ConnInv'
  <1>1. /\ ConnTypeOK /\ RoomCounted /\ DrawnIds /\ LocalIsAtomic BY DEF ConnInv
  <1> DEFINE i == handler[h].id
             row == [name |-> handler[h].name, settings |-> handler[h].settings]
  <1>2. /\ At(h, "write") /\ ~ Idle(h) /\ Turn(h) /\ Done(h) /\ UNCHANGED <<durable, drawn_ids>>
        /\ connections' = IF i \notin Listed THEN connections
                          ELSE [connections EXCEPT ![i] = row]
    BY DEF Write, At
  <1>3. i \in Ids /\ row \in Connection BY <1>1, <1>2, RequestShape DEF Connection
  <1>4. CASE i \notin Listed
    <2>1. connections' = connections BY <1>2, <1>4
    <2>2. Listed' = Listed /\ (NamesUnique => NamesUnique') BY <2>1 DEF Listed, NamesUnique
    <2>3. ~ durable => NamesUnique' BY <1>1, <2>2 DEF LocalIsAtomic
    <2>4. connections' \in [Ids -> Connection \cup {NoConnection}] BY <1>1, <2>1 DEF ConnTypeOK
    <2> QED BY <1>2, <2>2, <2>3, <2>4, WriteEnds
  <1>5. CASE i \in Listed
    <2>1. connections' = [connections EXCEPT ![i] = row] BY <1>2, <1>5
    <2>2. /\ connections' \in [Ids -> Connection \cup {NoConnection}]
          /\ connections'[i] = row /\ \A j \in Ids \ {i} : connections'[j] = connections[j]
      BY <1>1, <1>3, <2>1 DEF ConnTypeOK
    <2>3. Listed' \subseteq Listed BY <1>5, <2>2 DEF Listed
    <2>4. ~ durable => NamesUnique'
      <3> SUFFICES ASSUME ~ durable PROVE NamesUnique' OBVIOUS
      <3>1. NamesUnique /\ ReliesOnFacts(h) BY <1>1 DEF LocalIsAtomic
      <3>2. \A j \in Listed \ {i} : connections[j].name # row.name
        BY <1>2, <3>1 DEF ReliesOnFacts
      <3> QED BY <2>2, <2>3, <3>1, <3>2 DEF NamesUnique, Listed
    <2> QED BY <1>2, <2>2, <2>3, <2>4, WriteEnds
  <1> QED BY <1>4, <1>5

LEMMA RemoveRowKeeps == ASSUME ConnInv, NEW h \in Handlers, RemoveRow(h) PROVE ConnInv'
  <1>1. /\ ConnTypeOK /\ RoomCounted /\ DrawnIds /\ LocalIsAtomic BY DEF ConnInv
  <1> DEFINE i == handler[h].id
  <1>2. /\ ~ Idle(h) /\ Turn(h) /\ Done(h) /\ UNCHANGED <<durable, drawn_ids>>
        /\ connections' = [connections EXCEPT ![i] = NoConnection]
    BY DEF RemoveRow, At
  <1>3. i \in Ids BY <1>1, <1>2, RequestShape
  <1>4. /\ connections' \in [Ids -> Connection \cup {NoConnection}]
        /\ connections'[i] = NoConnection /\ \A j \in Ids \ {i} : connections'[j] = connections[j]
    BY <1>1, <1>2, <1>3 DEF ConnTypeOK
  <1>5. Listed' \subseteq Listed BY <1>4 DEF Listed
  <1>6. ~ durable => NamesUnique'
    BY <1>1, <1>4, <1>5 DEF LocalIsAtomic, NamesUnique, Listed
  <1> QED BY <1>2, <1>4, <1>5, <1>6, WriteEnds

LEMMA ConnNextInv == ConnInv /\ [ConnNext]_connVars => ConnInv'
  <1> SUFFICES ASSUME ConnInv, [ConnNext]_connVars PROVE ConnInv' OBVIOUS
  <1>1. ASSUME NEW h \in Handlers, NEW i \in Ids, NEW n \in Names, NEW s \in SUBSET Settings,
               BeginCreate(h, i, n, s) \/ BeginUpdate(h, i, n, s)
        PROVE  ConnInv'
    BY <1>1, BeginCreateKeeps, BeginUpdateKeeps
  <1>2. ASSUME NEW h \in Handlers, NEW i \in Ids, BeginRemove(h, i) PROVE ConnInv'
    BY <1>2, BeginRemoveKeeps
  <1>3. ASSUME NEW h \in Handlers,
               \/ Add(h) \/ ReadCurrent(h) \/ CheckName(h) \/ Write(h) \/ RemoveRow(h)
        PROVE  ConnInv'
    BY <1>3, AddKeeps, ReadCurrentKeeps, CheckNameKeeps, WriteKeeps, RemoveRowKeeps
  <1>4. ASSUME NEW h \in Handlers, StatementFails(h) PROVE ConnInv'
    BY <1>4, DoneKeeps DEF StatementFails
  <1>5. CASE UNCHANGED connVars
    BY <1>5 DEF connVars, ConnInv, ConnTypeOK, RoomCounted, DrawnIds, LocalIsAtomic, Listed,
       Adding, At, Idle, Overlap, OneRequest, NamesUnique, ReliesOnFacts
  <1> QED BY <1>1, <1>2, <1>3, <1>4, <1>5 DEF ConnNext

(* What the state of the catalog promises follows from the invariant.      *)
THEOREM CatalogIsSound == ConnSpec => []CatalogSound
  <1>1. ConnInv => CatalogSound
    <2> SUFFICES ASSUME ConnInv PROVE CatalogSound OBVIOUS
    <2>1. RoomCounted /\ LocalIsAtomic BY DEF ConnInv
    <2>2. Cardinality(Listed) \in Nat BY <2>1, FS_CardinalityType DEF RoomCounted
    <2>3. Overlap \in Int BY HandlersFinite DEF Overlap
    <2>4. Cardinality(Listed) <= ConnectionLimit + Overlap
      BY <2>1, <2>2, <2>3, HandlersFinite DEF RoomCounted
    <2> QED BY <2>1, <2>4 DEF CatalogSound, LocalIsAtomic, Overlap
  <1> QED BY <1>1, ConnInitInv, ConnNextInv, PTL DEF ConnSpec

(* An update neither revives a connection nor, with the local manager,     *)
(* drops settings of one.                                                  *)
THEOREM UpdatesMergeAlways == ConnSpec => UpdatesMerge
  <1> DEFINE Merges(i) ==
        /\ i \in drawn_ids /\ i \in Listed' /\ i \notin Listed => \E h \in Handlers :
             At(h, "add") /\ handler[h].id = i
        /\ ~ durable /\ i \in Listed /\ i \in Listed' =>
             connections[i].settings \subseteq connections'[i].settings
  <1>1. ASSUME ConnInv, [ConnNext]_connVars, NEW j \in Ids PROVE Merges(j)
    <2>0. ConnTypeOK /\ LocalIsAtomic BY <1>1 DEF ConnInv
    <2>1. CASE connections' = connections BY <2>1 DEF Listed
    <2>2. ASSUME NEW h \in Handlers, Add(h), connections' # connections PROVE Merges(j)
      <3>1. /\ At(h, "add") /\ ~ Idle(h)
            /\ connections' = [connections EXCEPT ![handler[h].id] =
                 [name |-> handler[h].name, settings |-> handler[h].settings]]
        BY <2>2 DEF Add, At
      <3>2. handler[h].id \in Ids BY <2>0, <3>1, RequestShape
      <3>3. ~ durable => handler[h].id \notin Listed BY <2>0, <3>1 DEF LocalIsAtomic, ReliesOnFacts
      <3>4. j # handler[h].id => connections'[j] = connections[j]
        BY <2>0, <3>1, <3>2 DEF ConnTypeOK
      <3> QED BY <3>1, <3>3, <3>4 DEF Listed
    <2>3. ASSUME NEW h \in Handlers, Write(h), connections' # connections PROVE Merges(j)
      <3>1. /\ At(h, "write") /\ ~ Idle(h) /\ handler[h].id \in Listed
            /\ connections' = [connections EXCEPT ![handler[h].id] =
                 [name |-> handler[h].name, settings |-> handler[h].settings]]
        BY <2>3 DEF Write, At
      <3>2. ~ durable => connections[handler[h].id].settings \subseteq handler[h].settings
        BY <2>0, <3>1 DEF LocalIsAtomic, ReliesOnFacts
      <3>3. j # handler[h].id => connections'[j] = connections[j]
        BY <2>0, <3>1 DEF ConnTypeOK
      <3>4. j = handler[h].id => connections'[j].settings = handler[h].settings
        BY <2>0, <3>1 DEF ConnTypeOK
      <3> QED BY <3>1, <3>2, <3>3, <3>4 DEF Listed
    <2>4. ASSUME NEW h \in Handlers, RemoveRow(h) PROVE Merges(j)
      <3>1. ~ Idle(h) /\ connections' = [connections EXCEPT ![handler[h].id] = NoConnection]
        BY <2>4 DEF RemoveRow, At
      <3>2. handler[h].id \in Ids BY <2>0, <3>1, RequestShape
      <3>3. j # handler[h].id => connections'[j] = connections[j]
        BY <2>0, <3>1, <3>2 DEF ConnTypeOK
      <3>4. j = handler[h].id => connections'[j] = NoConnection
        BY <2>0, <3>1, <3>2 DEF ConnTypeOK
      <3> QED BY <3>3, <3>4 DEF Listed
    <2>5. \/ connections' = connections
          \/ \E h \in Handlers : Add(h) \/ Write(h) \/ RemoveRow(h)
      BY <1>1 DEF ConnNext, connVars, BeginCreate, BeginUpdate, BeginRemove, ReadCurrent,
         CheckName, StatementFails
    <2> QED BY <2>1, <2>2, <2>3, <2>4, <2>5
  <1>2. ConnInv /\ [ConnNext]_connVars => [\A i \in Ids : Merges(i)]_connVars BY <1>1
  <1> QED BY <1>2, ConnInitInv, ConnNextInv, PTL DEF ConnSpec, UpdatesMerge

HIDE ConnectionsAssumption

-----------------------------------------------------------------------------
(***************************************************************************)
(* LlmSettings.  Of a field that is not in doubt at most one request is    *)
(* still to be saved, and it has the value that is in memory: whether it   *)
(* is saved or not yet, a restart then finds what it should.               *)
(***************************************************************************)

Has(s, f) == f \in Given(saving[s])

SaverKnows(f) ==
  /\ \A s \in Savers : Has(s, f) => config[f] = saving[s][f]
  /\ \A s, t \in Savers : Has(s, f) /\ Has(t, f) => s = t

SettingsInv == SettingsTypeOK /\ SettingsSurvive /\ \A f \in Fields \ in_doubt : SaverKnows(f)

USE LlmSettingsAssumption

LEMMA SettingsInitInv == SettingsInit => SettingsInv
  <1> SUFFICES ASSUME SettingsInit PROVE SettingsInv OBVIOUS
  <1>1. SettingsTypeOK BY DEF SettingsInit, SettingsTypeOK, Unset, Settable
  <1>2. \A s \in Savers, f \in Fields : ~ Has(s, f) BY DEF SettingsInit, Has, Given, Unset
  <1>3. SettingsSurvive BY DEF SettingsInit, SettingsSurvive, Reloaded, Unset
  <1> QED BY <1>1, <1>2, <1>3 DEF SettingsInv, SaverKnows

(* What a step does to what a request has still to save.                   *)
LEMMA SaverSet ==
  ASSUME SettingsTypeOK, NEW s \in Savers, NEW v \in [Fields -> Settable \cup {NoValue}],
         saving' = [saving EXCEPT ![s] = v]
  PROVE  /\ saving' \in [Savers -> [Fields -> Settable \cup {NoValue}]]
         /\ \A f \in Fields : Has(s, f)' <=> v[f] # NoValue
         /\ saving'[s] = v
         /\ \A t \in Savers \ {s} : saving'[t] = saving[t]
         /\ \A t \in Savers \ {s}, f \in Fields : Has(t, f)' <=> Has(t, f)
  BY DEF SettingsTypeOK, Has, Given

LEMMA UnsetType ==
  /\ Unset \in [Fields -> Settable \cup {NoValue}]
  /\ \A f \in Fields : Unset[f] = NoValue
  BY DEF Unset

LEMMA ConfigureKeeps ==
  ASSUME SettingsInv, NEW s \in Savers, NEW v \in [Fields -> Settable \cup {NoValue}],
         Configure(s, v)
  PROVE  SettingsInv'
  <1>0. SettingsTypeOK /\ SettingsSurvive BY DEF SettingsInv
  <1>1. /\ saving[s] = Unset /\ config' = Configured(v) /\ saving' = [saving EXCEPT ![s] = v]
        /\ in_doubt' = (in_doubt \ Given(v)) \cup
             {f \in Given(v) : Pending(f) \/ (f = "base_url" /\ v[f] = Empty)}
        /\ stored' = stored
    BY DEF Configure
  <1>2. /\ saving' \in [Savers -> [Fields -> Settable \cup {NoValue}]]
        /\ \A f \in Fields : Has(s, f)' <=> v[f] # NoValue
        /\ saving'[s] = v
        /\ \A t \in Savers \ {s} : saving'[t] = saving[t]
        /\ \A t \in Savers \ {s}, f \in Fields : Has(t, f)' <=> Has(t, f)
    BY <1>0, <1>1, SaverSet
  <1>3. \A f \in Fields : config'[f] =
          IF v[f] = NoValue \/ (f = "base_url" /\ v[f] = Empty) THEN config[f] ELSE v[f]
    BY <1>1 DEF Configured
  <1>4. SettingsTypeOK'
    <2>1. config' \in [Fields -> Settable]
      BY <1>0, <1>1 DEF SettingsTypeOK, Configured, Settable
    <2>2. in_doubt' \subseteq Fields BY <1>0, <1>1 DEF SettingsTypeOK, Given
    <2> QED BY <1>0, <1>1, <1>2, <2>1, <2>2 DEF SettingsTypeOK
  <1>5. ASSUME NEW f \in Fields, f \notin in_doubt'
        PROVE  SaverKnows(f)' /\ (~ Pending(f)' => config'[f] = Reloaded[f]')
    <2>1. CASE v[f] = NoValue
      <3>1. f \notin in_doubt BY <1>1, <1>5, <2>1 DEF Given
      <3>2. SaverKnows(f) BY <3>1 DEF SettingsInv
      <3>3. config'[f] = config[f] BY <1>3, <2>1
      <3>4. ~ Has(s, f)' /\ ~ Has(s, f) BY <1>1, <1>2, <2>1, UnsetType DEF Has, Given
      <3>5. SaverKnows(f)' BY <1>2, <3>2, <3>3, <3>4 DEF SaverKnows
      <3>6. Pending(f)' <=> Pending(f) BY <1>2, <3>4 DEF Pending, Has
      <3> QED BY <1>0, <1>1, <3>1, <3>3, <3>5, <3>6 DEF SettingsSurvive, Reloaded
    <2>2. CASE v[f] # NoValue
      <3>1. ~ Pending(f) /\ config'[f] = v[f] BY <1>1, <1>3, <1>5, <2>2 DEF Given
      <3>2. \A t \in Savers : ~ Has(t, f) BY <3>1 DEF Pending, Has
      <3>3. Has(s, f)' /\ \A t \in Savers \ {s} : ~ Has(t, f)' BY <1>2, <2>2, <3>2
      <3>4. SaverKnows(f)' BY <1>2, <3>1, <3>3 DEF SaverKnows
      <3>5. Pending(f)' BY <3>3 DEF Pending, Has
      <3> QED BY <3>4, <3>5
    <2> QED BY <2>1, <2>2
  <1>6. SettingsSurvive' BY <1>5 DEF SettingsSurvive
  <1> QED BY <1>4, <1>5, <1>6 DEF SettingsInv

LEMMA SaveSettingsKeeps ==
  ASSUME SettingsInv, NEW s \in Savers, SaveSettings(s)
  PROVE  SettingsInv'
  <1>0. SettingsTypeOK /\ SettingsSurvive BY DEF SettingsInv
  <1>1. /\ stored' = Saved(saving[s]) /\ saving' = [saving EXCEPT ![s] = Unset]
        /\ config' = config /\ in_doubt' = in_doubt
    BY DEF SaveSettings
  <1>2. /\ saving' \in [Savers -> [Fields -> Settable \cup {NoValue}]]
        /\ \A f \in Fields : ~ Has(s, f)'
        /\ \A t \in Savers \ {s} : saving'[t] = saving[t]
        /\ \A t \in Savers \ {s}, f \in Fields : Has(t, f)' <=> Has(t, f)
    BY <1>0, <1>1, SaverSet, UnsetType
  <1>3. \A f \in Fields : stored'[f] = IF Has(s, f) THEN saving[s][f] ELSE stored[f]
    BY <1>1 DEF Saved, Has
  <1>4. SettingsTypeOK'
    <2>1. stored' \in [Fields -> Settable \cup {NoValue}]
      BY <1>0, <1>1 DEF SettingsTypeOK, Saved
    <2> QED BY <1>0, <1>1, <1>2, <2>1 DEF SettingsTypeOK
  <1>5. ASSUME NEW f \in Fields, f \notin in_doubt'
        PROVE  SaverKnows(f)' /\ (~ Pending(f)' => config'[f] = Reloaded'[f])
    <2>1. f \notin in_doubt BY <1>1, <1>5
    <2>2. SaverKnows(f) BY <2>1 DEF SettingsInv
    <2>3. SaverKnows(f)' BY <1>1, <1>2, <2>2 DEF SaverKnows
    <2>4. Reloaded'[f] = IF stored'[f] = NoValue THEN Environment ELSE stored'[f]
      BY DEF Reloaded
    <2>5. CASE Has(s, f)
      <3>1. config[f] = saving[s][f] /\ saving[s][f] # NoValue BY <2>2, <2>5 DEF SaverKnows, Has, Given
      <3> QED BY <1>1, <1>3, <2>3, <2>4, <2>5, <3>1
    <2>6. CASE ~ Has(s, f)
      <3>1. Pending(f)' <=> Pending(f) BY <1>2, <2>6 DEF Pending, Has
      <3>2. stored'[f] = stored[f] BY <1>3, <2>6
      <3> QED BY <1>0, <1>1, <2>1, <2>3, <2>4, <3>1, <3>2 DEF SettingsSurvive, Reloaded
    <2> QED BY <2>5, <2>6
  <1>6. SettingsSurvive' BY <1>5 DEF SettingsSurvive
  <1> QED BY <1>4, <1>5, <1>6 DEF SettingsInv

LEMMA SaveSettingsFailsKeeps ==
  ASSUME SettingsInv, NEW s \in Savers, SaveSettingsFails(s)
  PROVE  SettingsInv'
  <1>0. SettingsTypeOK /\ SettingsSurvive BY DEF SettingsInv
  <1>1. /\ saving' = [saving EXCEPT ![s] = Unset] /\ in_doubt' = in_doubt \cup Given(saving[s])
        /\ config' = config /\ stored' = stored
    BY DEF SaveSettingsFails
  <1>2. /\ saving' \in [Savers -> [Fields -> Settable \cup {NoValue}]]
        /\ \A f \in Fields : ~ Has(s, f)'
        /\ \A t \in Savers \ {s} : saving'[t] = saving[t]
        /\ \A t \in Savers \ {s}, f \in Fields : Has(t, f)' <=> Has(t, f)
    BY <1>0, <1>1, SaverSet, UnsetType
  <1>3. SettingsTypeOK' BY <1>0, <1>1, <1>2 DEF SettingsTypeOK, Given
  <1>4. ASSUME NEW f \in Fields, f \notin in_doubt'
        PROVE  SaverKnows(f)' /\ (~ Pending(f)' => config'[f] = Reloaded'[f])
    <2>1. f \notin in_doubt /\ ~ Has(s, f) BY <1>1, <1>4 DEF Has
    <2>2. SaverKnows(f) BY <2>1 DEF SettingsInv
    <2>3. SaverKnows(f)' BY <1>1, <1>2, <2>2 DEF SaverKnows
    <2>4. Pending(f)' <=> Pending(f) BY <1>2, <2>1 DEF Pending, Has
    <2> QED BY <1>0, <1>1, <2>1, <2>3, <2>4 DEF SettingsSurvive, Reloaded
  <1>5. SettingsSurvive' BY <1>4 DEF SettingsSurvive
  <1> QED BY <1>3, <1>4, <1>5 DEF SettingsInv

LEMMA RestartApiKeeps == ASSUME SettingsInv, RestartApi PROVE SettingsInv'
  <1>0. SettingsTypeOK BY DEF SettingsInv
  <1>1. saving' = [s \in Savers |-> Unset] /\ stored' = stored BY DEF RestartApi
  <1>2. \A s \in Savers, f \in Fields : ~ Has(s, f)' BY <1>1 DEF Has, Given, Unset
  <1>3. saving' \in [Savers -> [Fields -> Settable \cup {NoValue}]] BY <1>1, UnsetType
  <1>4. CASE config' = Reloaded /\ in_doubt' = {}
    <2>1. SettingsTypeOK' BY <1>0, <1>1, <1>3, <1>4 DEF SettingsTypeOK, Reloaded, Settable
    <2>2. SettingsSurvive' BY <1>1, <1>4 DEF SettingsSurvive, Reloaded
    <2> QED BY <1>2, <2>1, <2>2 DEF SettingsInv, SaverKnows
  <1>5. CASE config' = [f \in Fields |-> Environment] /\ in_doubt' = Fields
    <2>1. SettingsTypeOK' BY <1>0, <1>1, <1>3, <1>5 DEF SettingsTypeOK, Settable
    <2>2. SettingsSurvive' BY <1>5 DEF SettingsSurvive
    <2> QED BY <1>5, <2>1, <2>2 DEF SettingsInv
  <1> QED BY <1>4, <1>5 DEF RestartApi

LEMMA SettingsNextInv == SettingsInv /\ [SettingsNext]_settingsVars => SettingsInv'
  <1> SUFFICES ASSUME SettingsInv, [SettingsNext]_settingsVars PROVE SettingsInv' OBVIOUS
  <1>1. CASE UNCHANGED settingsVars
    BY <1>1 DEF settingsVars, SettingsInv, SettingsTypeOK, SettingsSurvive, SaverKnows, Has,
       Given, Pending, Reloaded
  <1> QED BY <1>1, ConfigureKeeps, SaveSettingsKeeps, SaveSettingsFailsKeeps, RestartApiKeeps
      DEF SettingsNext

(* Settings persist across restarts, but for the fields in doubt.          *)
THEOREM SettingsAlwaysSurvive == SettingsSpec => []SettingsSurvive
  <1>1. SettingsInv => SettingsSurvive BY DEF SettingsInv
  <1> QED BY <1>1, SettingsInitInv, SettingsNextInv, PTL DEF SettingsSpec

HIDE LlmSettingsAssumption

-----------------------------------------------------------------------------
(***************************************************************************)
(* TenantStores.  The templates are bounded as the connections are, by     *)
(* counting the requests that are going to insert one; a report covers the *)
(* runs it lists because runs are only ever added, and is of exactly those *)
(* where nothing is recorded between its two reads.                        *)
(***************************************************************************)

Inserting == {c \in Clerks : clerk[c].step = "insert"}

TemplatesCounted ==
  /\ IsFiniteSet(templates)
  /\ Cardinality(templates) + Cardinality(Inserting) <= TemplateLimit + Cardinality(Clerks) - 1
  /\ \A c \in Inserting : clerk[c].id \in Templates

Covers(total, count) == total >= count /\ (~ shared => total = count)

ReportsCover == \A c \in Clerks :
  /\ clerk[c].step = "aggregate" => Covers(Len(records), clerk[c].count)
  /\ clerk[c].step = "reported" => Covers(clerk[c].total, clerk[c].count)

StoresInv == StoresTypeOK /\ TemplatesCounted /\ ReportsCover

USE TenantStoresAssumption

LEMMA ClerksFinite ==
  /\ Cardinality(Clerks) \in Nat /\ Cardinality(Clerks) >= 1
  /\ IsFiniteSet(Inserting) /\ Cardinality(Inserting) \in Nat
  <1>1. Cardinality(Clerks) \in Nat /\ (Cardinality(Clerks) = 0 <=> Clerks = {})
    BY FS_CardinalityType, FS_EmptySet
  <1>2. Inserting \subseteq Clerks BY DEF Inserting
  <1>3. IsFiniteSet(Inserting) BY <1>2, FS_Subset
  <1>4. Cardinality(Inserting) \in Nat BY <1>3, FS_CardinalityType
  <1> QED BY <1>1, <1>3, <1>4

LEMMA RestingIsWork == Resting \in Work /\ Resting.step = "idle"
  BY DEF Resting, Work, Steps

LEMMA StoresInitInv == StoresInit => StoresInv
  <1> SUFFICES ASSUME StoresInit PROVE StoresInv OBVIOUS
  <1>1. StoresTypeOK BY RestingIsWork DEF StoresInit, StoresTypeOK
  <1>2. \A c \in Clerks : clerk[c].step = "idle" BY RestingIsWork DEF StoresInit
  <1>3. Inserting = {} /\ templates = {} BY <1>2 DEF Inserting, StoresInit
  <1>4. IsFiniteSet({}) /\ Cardinality({}) = 0 BY FS_EmptySet
  <1>5. TemplatesCounted BY <1>3, <1>4, ClerksFinite DEF TemplatesCounted
  <1>6. ReportsCover BY <1>2 DEF ReportsCover
  <1> QED BY <1>1, <1>5, <1>6 DEF StoresInv

(* What a step makes of the request of c.                                  *)
LEMMA ClerkSet ==
  ASSUME StoresTypeOK, NEW c \in Clerks, NEW w \in Work, clerk' = [clerk EXCEPT ![c] = w]
  PROVE  /\ clerk' \in [Clerks -> Work]
         /\ clerk'[c] = w
         /\ \A b \in Clerks \ {c} : clerk'[b] = clerk[b]
  BY DEF StoresTypeOK

(* A step of c that records nothing and neither inserts nor will.          *)
LEMMA MoveKeeps ==
  ASSUME StoresInv, NEW c \in Clerks, NEW w \in Work, clerk' = [clerk EXCEPT ![c] = w],
         UNCHANGED <<shared, records, used>>, templates' \subseteq templates,
         metrics' \in [Metrics -> Definitions \cup {NoDefinition}],
         w.step # "insert",
         w.step = "aggregate" => w.count = Len(records),
         w.step = "reported" => Covers(w.total, w.count)
  PROVE  StoresInv'
  <1>1. StoresTypeOK /\ TemplatesCounted /\ ReportsCover BY DEF StoresInv
  <1>2. /\ clerk' \in [Clerks -> Work] /\ clerk'[c] = w
        /\ \A b \in Clerks \ {c} : clerk'[b] = clerk[b]
    BY <1>1, ClerkSet
  <1>3. StoresTypeOK' BY <1>1, <1>2 DEF StoresTypeOK
  <1>4. TemplatesCounted'
    <2>1. Inserting' \subseteq Inserting BY <1>2 DEF Inserting
    <2>2. /\ IsFiniteSet(templates') /\ Cardinality(templates') <= Cardinality(templates)
          /\ IsFiniteSet(Inserting') /\ Cardinality(Inserting') <= Cardinality(Inserting)
      BY <1>1, <2>1, ClerksFinite, FS_Subset DEF TemplatesCounted
    <2>3. /\ Cardinality(templates) \in Nat /\ Cardinality(templates') \in Nat
          /\ Cardinality(Inserting') \in Nat
      BY <1>1, <2>2, FS_CardinalityType DEF TemplatesCounted
    <2>4. \A b \in Inserting' : clerk'[b].id \in Templates
      BY <1>1, <1>2, <2>1 DEF TemplatesCounted, Inserting
    <2> QED BY <1>1, <2>2, <2>3, <2>4, ClerksFinite DEF TemplatesCounted
  <1>5. ReportsCover'
    <2>1. Len(records) \in Nat BY <1>1 DEF StoresTypeOK
    <2> QED BY <1>1, <1>2, <2>1 DEF ReportsCover, Covers
  <1> QED BY <1>3, <1>4, <1>5 DEF StoresInv

LEMMA RestKeeps ==
  ASSUME StoresInv, NEW c \in Clerks, Rest(c),
         UNCHANGED <<shared, records, used>>, templates' \subseteq templates,
         metrics' \in [Metrics -> Definitions \cup {NoDefinition}]
  PROVE  StoresInv'
  BY MoveKeeps, RestingIsWork DEF Rest

LEMMA ClerkShape ==
  ASSUME StoresTypeOK, NEW c \in Clerks
  PROVE  /\ clerk[c] \in Work /\ clerk[c].count \in Nat
         /\ clerk[c].definition \in Definitions \cup {NoDefinition}
  <1>1. clerk[c] \in Work BY DEF StoresTypeOK
  <1> QED BY <1>1 DEF Work

LEMMA ThenKeeps ==
  ASSUME StoresInv, NEW c \in Clerks, NEW step \in {"write", "list", "case"}, Then(c, step),
         UNCHANGED <<shared, records, used, templates, metrics>>
  PROVE  StoresInv'
  <1> DEFINE w == [clerk[c] EXCEPT !.step = step]
  <1>1. StoresTypeOK BY DEF StoresInv
  <1>2. clerk[c] \in Work BY <1>1 DEF StoresTypeOK
  <1>3. w \in Work /\ w.step = step BY <1>2 DEF Work, Steps
  <1>4. clerk' = [clerk EXCEPT ![c] = w] BY <1>1 DEF Then, StoresTypeOK
  <1> HIDE DEF w
  <1> QED BY <1>1, <1>3, <1>4, MoveKeeps DEF StoresTypeOK

LEMMA CountTemplatesKeeps ==
  ASSUME StoresInv, NEW c \in Clerks, NEW id \in Templates, CountTemplates(c, id)
  PROVE  StoresInv'
  <1>1. StoresTypeOK /\ TemplatesCounted /\ ReportsCover BY DEF StoresInv
  <1> DEFINE w == [clerk[c] EXCEPT !.step = "insert", !.id = id]
  <1>2. clerk[c] \in Work BY <1>1 DEF StoresTypeOK
  <1>3. w \in Work /\ w.step = "insert" /\ w.id = id BY <1>2 DEF Work, Steps
  <1>4. /\ clerk' = [clerk EXCEPT ![c] = w] /\ Cardinality(templates) < TemplateLimit
        /\ used' = used \cup {id} /\ UNCHANGED <<shared, templates, metrics, records>>
    BY <1>1 DEF CountTemplates, StoresTypeOK
  <1> HIDE DEF w
  <1>5. /\ clerk' \in [Clerks -> Work] /\ clerk'[c] = w
        /\ \A b \in Clerks \ {c} : clerk'[b] = clerk[b]
    BY <1>1, <1>3, <1>4, ClerkSet
  <1>6. StoresTypeOK' BY <1>1, <1>4, <1>5 DEF StoresTypeOK
  <1>7. TemplatesCounted'
    <2>1. Inserting' \subseteq Clerks BY DEF Inserting
    <2>2. IsFiniteSet(Inserting') /\ Cardinality(Inserting') <= Cardinality(Clerks)
      BY <2>1, FS_Subset
    <2>3. Cardinality(Inserting') \in Nat /\ Cardinality(templates) \in Nat
      BY <1>1, <2>2, FS_CardinalityType DEF TemplatesCounted
    <2>4. \A b \in Inserting' : clerk'[b].id \in Templates
      BY <1>1, <1>3, <1>5 DEF TemplatesCounted, Inserting
    <2> QED BY <1>1, <1>4, <2>2, <2>3, <2>4, ClerksFinite DEF TemplatesCounted
  <1>8. ReportsCover' BY <1>1, <1>3, <1>4, <1>5 DEF ReportsCover, Covers
  <1> QED BY <1>6, <1>7, <1>8 DEF StoresInv

LEMMA InsertTemplateKeeps ==
  ASSUME StoresInv, NEW c \in Clerks, InsertTemplate(c)
  PROVE  StoresInv'
  <1>1. StoresTypeOK /\ TemplatesCounted /\ ReportsCover BY DEF StoresInv
  <1>2. /\ clerk[c].step = "insert" /\ templates' = templates \cup {clerk[c].id}
        /\ clerk' = [clerk EXCEPT ![c] = Resting]
        /\ UNCHANGED <<shared, metrics, records, used>>
    BY DEF InsertTemplate, Rest
  <1>3. c \in Inserting /\ clerk[c].id \in Templates BY <1>1, <1>2 DEF Inserting, TemplatesCounted
  <1>4. /\ clerk' \in [Clerks -> Work] /\ clerk'[c] = Resting
        /\ \A b \in Clerks \ {c} : clerk'[b] = clerk[b]
    BY <1>1, <1>2, ClerkSet, RestingIsWork
  <1>5. StoresTypeOK' BY <1>1, <1>2, <1>3, <1>4 DEF StoresTypeOK
  <1>6. TemplatesCounted'
    <2>1. Inserting' = Inserting \ {c} BY <1>4, RestingIsWork DEF Inserting
    <2>2. IsFiniteSet(Inserting') /\ Cardinality(Inserting') = Cardinality(Inserting) - 1
      BY <1>3, <2>1, ClerksFinite, FS_RemoveElement
    <2>3. IsFiniteSet(templates) /\ Cardinality(templates) \in Nat
      BY <1>1, FS_CardinalityType DEF TemplatesCounted
    <2>4. IsFiniteSet(templates') /\
          Cardinality(templates') \in {Cardinality(templates), Cardinality(templates) + 1}
      BY <1>2, <2>3, FS_AddElement
    <2>5. \A b \in Inserting' : clerk'[b].id \in Templates
      BY <1>1, <1>4, <2>1 DEF TemplatesCounted, Inserting
    <2> QED BY <1>1, <2>2, <2>3, <2>4, <2>5, ClerksFinite DEF TemplatesCounted
  <1>7. ReportsCover' BY <1>1, <1>2, <1>4, RestingIsWork DEF ReportsCover, Covers
  <1> QED BY <1>5, <1>6, <1>7 DEF StoresInv

(* One run more: what is listed and not yet totalled stays covered.        *)
LEMMA RecordKeeps ==
  ASSUME StoresInv, NEW passed \in BOOLEAN, records' = Append(records, passed),
         UNCHANGED <<shared, templates, metrics, used>>,
         clerk' \in [Clerks -> Work],
         \A c \in Clerks : clerk'[c] = clerk[c] \/ clerk'[c].step \in {"idle", "case"},
         ~ shared => \A c \in Clerks : clerk[c].step # "aggregate"
  PROVE  StoresInv'
  <1>1. StoresTypeOK /\ TemplatesCounted /\ ReportsCover BY DEF StoresInv
  <1>2. /\ records' \in Seq(BOOLEAN) /\ Len(records') = Len(records) + 1
        /\ Len(records) \in Nat
    BY <1>1 DEF StoresTypeOK
  <1>3. StoresTypeOK' BY <1>1, <1>2 DEF StoresTypeOK
  <1>4. TemplatesCounted'
    <2>1. Inserting' \subseteq Inserting BY DEF Inserting
    <2>2. IsFiniteSet(Inserting') /\ Cardinality(Inserting') <= Cardinality(Inserting)
      BY <2>1, ClerksFinite, FS_Subset
    <2>3. Cardinality(templates) \in Nat /\ Cardinality(Inserting') \in Nat
      BY <1>1, <2>2, FS_CardinalityType DEF TemplatesCounted
    <2>4. \A b \in Inserting' : clerk'[b].id \in Templates
      BY <1>1, <2>1 DEF TemplatesCounted, Inserting
    <2> QED BY <1>1, <2>2, <2>3, <2>4, ClerksFinite DEF TemplatesCounted
  <1>5. ReportsCover'
    <2> SUFFICES ASSUME NEW c \in Clerks
                 PROVE  /\ clerk'[c].step = "aggregate" => Covers(Len(records), clerk[c].count)'
                        /\ clerk'[c].step = "reported" => Covers(clerk[c].total, clerk[c].count)'
      BY DEF ReportsCover
    <2>1. CASE clerk'[c] = clerk[c]
      <3>1. clerk[c].count \in Nat BY <1>1, ClerkShape
      <3> QED BY <1>1, <1>2, <2>1, <3>1 DEF ReportsCover, Covers
    <2>2. CASE clerk'[c].step \in {"idle", "case"} BY <2>2
    <2> QED BY <2>1, <2>2
  <1> QED BY <1>3, <1>4, <1>5 DEF StoresInv

LEMMA RecordExecutionKeeps ==
  ASSUME StoresInv, NEW passed \in BOOLEAN, RecordExecution(passed)
  PROVE  StoresInv'
  <1>1. StoresTypeOK BY DEF StoresInv
  <1>2. /\ records' = Append(records, passed) /\ UNCHANGED <<shared, templates, metrics, used>>
        /\ clerk' = clerk
        /\ ~ shared => \A c \in Clerks : clerk[c].step # "aggregate"
    BY DEF RecordExecution
  <1>3. clerk' \in [Clerks -> Work] BY <1>1, <1>2 DEF StoresTypeOK
  <1> QED BY <1>2, <1>3, RecordKeeps

LEMMA RunCaseKeeps == ASSUME StoresInv, NEW c \in Clerks, RunCase(c) PROVE StoresInv'
  <1>1. StoresTypeOK BY DEF StoresInv
  <1> DEFINE passed == Cases[clerk[c].count + 1] = "ok"
             w == [clerk[c] EXCEPT !.count = @ + 1]
  <1>2. /\ clerk[c].step = "case" /\ MayMove(c) /\ records' = Append(records, passed)
        /\ UNCHANGED <<shared, templates, metrics, used>>
        /\ \/ clerk' = [clerk EXCEPT ![c] = Resting]
           \/ clerk' = [clerk EXCEPT ![c].count = @ + 1]
    BY DEF RunCase, Rest
  <1>3. ~ shared => \A b \in Clerks : clerk[b].step # "aggregate" BY <1>2 DEF MayMove
  <1>4. clerk[c] \in Work /\ clerk[c].count \in Nat BY <1>1, ClerkShape
  <1>5. w \in Work /\ w.step = "case" BY <1>2, <1>4 DEF Work
  <1>6. \/ clerk' = [clerk EXCEPT ![c] = Resting]
        \/ clerk' = [clerk EXCEPT ![c] = w]
    BY <1>1, <1>2 DEF StoresTypeOK
  <1> HIDE DEF w
  <1>7. /\ clerk' \in [Clerks -> Work]
        /\ clerk'[c].step \in {"idle", "case"}
        /\ \A b \in Clerks \ {c} : clerk'[b] = clerk[b]
    BY <1>1, <1>5, <1>6, ClerkSet, RestingIsWork
  <1>8. passed \in BOOLEAN OBVIOUS
  <1> HIDE DEF passed
  <1> QED BY <1>2, <1>3, <1>7, <1>8, RecordKeeps

LEMMA CreateMetricKeeps ==
  ASSUME StoresInv, NEW c \in Clerks, NEW m \in Metrics, NEW d \in Definitions,
         CreateMetric(c, m, d)
  PROVE  StoresInv'
  <1>1. /\ metrics' = [metrics EXCEPT ![m] = d] /\ used' = used \cup {m}
        /\ UNCHANGED <<shared, templates, records, clerk>>
    BY DEF CreateMetric
  <1>2. StoresTypeOK' BY <1>1 DEF StoresInv, StoresTypeOK
  <1>3. TemplatesCounted' BY <1>1 DEF StoresInv, TemplatesCounted, Inserting
  <1>4. ReportsCover' BY <1>1 DEF StoresInv, ReportsCover, Covers
  <1> QED BY <1>2, <1>3, <1>4 DEF StoresInv

(* The steps that find what they are to change.                            *)
LEMMA FindKeeps ==
  ASSUME StoresInv, NEW c \in Clerks, UNCHANGED <<shared, templates, metrics, records, used>>,
         \/ \E id \in Templates : clerk' = [clerk EXCEPT ![c].step = "drop", ![c].id = id]
         \/ \E m \in Metrics : clerk' = [clerk EXCEPT ![c].step = "erase", ![c].id = m]
         \/ \E m \in Metrics, d \in Definitions :
              clerk' = [clerk EXCEPT ![c].step = "change", ![c].id = m, ![c].definition = d]
  PROVE  StoresInv'
  <1>1. StoresTypeOK BY DEF StoresInv
  <1>2. clerk[c] \in Work BY <1>1 DEF StoresTypeOK
  <1>3. metrics' \in [Metrics -> Definitions \cup {NoDefinition}] BY <1>1 DEF StoresTypeOK
  <1>4. ASSUME NEW id \in Templates \cup Metrics, NEW step \in {"drop", "erase"},
               clerk' = [clerk EXCEPT ![c].step = step, ![c].id = id]
        PROVE  StoresInv'
    <2> DEFINE w == [clerk[c] EXCEPT !.step = step, !.id = id]
    <2>1. w \in Work /\ w.step = step BY <1>2 DEF Work, Steps
    <2>2. clerk' = [clerk EXCEPT ![c] = w] BY <1>1, <1>4 DEF StoresTypeOK
    <2> HIDE DEF w
    <2> QED BY <1>3, <2>1, <2>2, MoveKeeps
  <1>5. ASSUME NEW m \in Metrics, NEW d \in Definitions,
               clerk' = [clerk EXCEPT ![c].step = "change", ![c].id = m, ![c].definition = d]
        PROVE  StoresInv'
    <2> DEFINE w == [clerk[c] EXCEPT !.step = "change", !.id = m, !.definition = d]
    <2>1. w \in Work /\ w.step = "change" BY <1>2 DEF Work, Steps
    <2>2. clerk' = [clerk EXCEPT ![c] = w] BY <1>1, <1>5 DEF StoresTypeOK
    <2> HIDE DEF w
    <2> QED BY <1>3, <2>1, <2>2, MoveKeeps
  <1> QED BY <1>4, <1>5

LEMMA MetricStepsKeep ==
  ASSUME StoresInv, NEW c \in Clerks, MergeMetric(c) \/ WriteMetric(c) \/ EraseMetric(c)
  PROVE  StoresInv'
  <1>1. StoresTypeOK BY DEF StoresInv
  <1>2. CASE MergeMetric(c)
    <2>1. Then(c, "write") \/ Rest(c) BY <1>2 DEF MergeMetric
    <2>2. UNCHANGED <<shared, templates, metrics, records, used>> BY <1>2 DEF MergeMetric
    <2> QED BY <1>1, <2>1, <2>2, ThenKeeps, RestKeeps DEF StoresTypeOK
  <1>3. CASE WriteMetric(c)
    <2>1. clerk[c].definition \in Definitions \cup {NoDefinition} BY <1>1, ClerkShape
    <2>2. metrics' = [metrics EXCEPT ![clerk[c].id] =
            IF Defined(clerk[c].id) THEN clerk[c].definition ELSE @]
      BY <1>3 DEF WriteMetric
    <2>3. metrics' \in [Metrics -> Definitions \cup {NoDefinition}]
      BY <1>1, <2>1, <2>2 DEF StoresTypeOK
    <2> QED BY <1>3, <2>3, RestKeeps DEF WriteMetric
  <1>4. CASE EraseMetric(c)
    <2>1. metrics' \in [Metrics -> Definitions \cup {NoDefinition}]
      BY <1>1, <1>4 DEF StoresTypeOK, EraseMetric
    <2> QED BY <1>4, <2>1, RestKeeps DEF EraseMetric
  <1> QED BY <1>2, <1>3, <1>4

LEMMA ListRunsKeeps == ASSUME StoresInv, NEW c \in Clerks, ListRuns(c) PROVE StoresInv'
  <1> DEFINE w == [clerk[c] EXCEPT !.step = "aggregate", !.count = Len(records)]
  <1>1. StoresTypeOK BY DEF StoresInv
  <1>2. clerk[c] \in Work /\ Len(records) \in Nat BY <1>1 DEF StoresTypeOK
  <1>3. w \in Work /\ w.step = "aggregate" /\ w.count = Len(records) BY <1>2 DEF Work, Steps
  <1>4. clerk' = [clerk EXCEPT ![c] = w] /\ UNCHANGED <<shared, templates, metrics, records, used>>
    BY <1>1 DEF ListRuns, StoresTypeOK
  <1> HIDE DEF w
  <1> QED BY <1>1, <1>3, <1>4, MoveKeeps DEF StoresTypeOK

LEMMA AggregateRunsKeeps == ASSUME StoresInv, NEW c \in Clerks, AggregateRuns(c) PROVE StoresInv'
  <1> DEFINE w == [clerk[c] EXCEPT !.step = "reported", !.total = Len(records)]
  <1>1. StoresTypeOK /\ ReportsCover BY DEF StoresInv
  <1>2. clerk[c] \in Work /\ Len(records) \in Nat BY <1>1 DEF StoresTypeOK
  <1>3. w \in Work /\ w.step = "reported" /\ w.total = Len(records) /\ w.count = clerk[c].count
    BY <1>2 DEF Work, Steps
  <1>4. /\ clerk' = [clerk EXCEPT ![c] = w] /\ clerk[c].step = "aggregate"
        /\ UNCHANGED <<shared, templates, metrics, records, used>>
    BY <1>1 DEF AggregateRuns, StoresTypeOK
  <1> HIDE DEF w
  <1>5. Covers(w.total, w.count) BY <1>1, <1>3, <1>4 DEF ReportsCover
  <1> QED BY <1>1, <1>3, <1>4, <1>5, MoveKeeps DEF StoresTypeOK

LEMMA StoresNextInv == StoresInv /\ [StoresNext]_storeVars => StoresInv'
  <1> SUFFICES ASSUME StoresInv, [StoresNext]_storeVars PROVE StoresInv' OBVIOUS
  <1>0. StoresTypeOK BY DEF StoresInv
  <1>1. ASSUME NEW c \in Clerks, NEW id \in Templates, CountTemplates(c, id) \/ FindTemplate(c, id)
        PROVE  StoresInv'
    BY <1>1, CountTemplatesKeeps, FindKeeps DEF FindTemplate
  <1>2. ASSUME NEW c \in Clerks, InsertTemplate(c) \/ DropTemplate(c) PROVE StoresInv'
    <2>1. CASE DropTemplate(c)
      <3>1. /\ Rest(c) /\ UNCHANGED <<shared, metrics, records, used>>
            /\ templates' \subseteq templates
        BY <2>1 DEF DropTemplate
      <3> QED BY <1>0, <3>1, RestKeeps DEF StoresTypeOK
    <2> QED BY <1>2, <2>1, InsertTemplateKeeps
  <1>3. ASSUME NEW c \in Clerks, NEW m \in Metrics,
               \/ FindToErase(c, m)
               \/ \E d \in Definitions : CreateMetric(c, m, d) \/ FindMetric(c, m, d)
        PROVE  StoresInv'
    BY <1>3, CreateMetricKeeps, FindKeeps DEF FindToErase, FindMetric
  <1>4. ASSUME NEW c \in Clerks, MergeMetric(c) \/ WriteMetric(c) \/ EraseMetric(c)
        PROVE  StoresInv'
    BY <1>4, MetricStepsKeep
  <1>5. ASSUME NEW c \in Clerks, BeginReport(c) \/ BeginCases(c) PROVE StoresInv'
    BY <1>5, ThenKeeps DEF BeginReport, BeginCases
  <1>6. ASSUME NEW c \in Clerks, Reported(c) \/ ClerkFails(c) PROVE StoresInv'
    BY <1>0, <1>6, RestKeeps DEF Reported, ClerkFails, StoresTypeOK
  <1>7. CASE UNCHANGED storeVars
    BY <1>7 DEF storeVars, StoresInv, StoresTypeOK, TemplatesCounted, Inserting, ReportsCover, Covers
  <1> QED BY <1>1, <1>2, <1>3, <1>4, <1>5, <1>6, <1>7, RecordExecutionKeeps, RunCaseKeeps,
             ListRunsKeeps, AggregateRunsKeeps
      DEF StoresNext

(* The templates stay within the limit and the requests that overlap; a    *)
(* report covers what it lists.                                            *)
THEOREM CountsAlwaysCover == StoresSpec => []CountsCover
  <1>1. StoresInv => CountsCover
    <2> SUFFICES ASSUME StoresInv PROVE CountsCover OBVIOUS
    <2>1. TemplatesCounted /\ ReportsCover BY DEF StoresInv
    <2>2. Cardinality(templates) \in Nat BY <2>1, FS_CardinalityType DEF TemplatesCounted
    <2>3. Cardinality(templates) <= TemplateLimit + Cardinality(Clerks) - 1
      BY <2>1, <2>2, ClerksFinite DEF TemplatesCounted
    <2> QED BY <2>1, <2>3 DEF CountsCover, ReportsCover, Covers
  <1> QED BY <1>1, StoresInitInv, StoresNextInv, PTL DEF StoresSpec

(* Only a request that counted the templates brings one, and no update     *)
(* defines a metric again.                                                 *)
THEOREM GoneStaysGone == StoresSpec => GoneForGood
  <1> DEFINE Gone ==
        /\ \A m \in Metrics : m \in used /\ Defined(m)' => Defined(m)
        /\ \A t \in templates' : t \in templates \/ \E c \in Clerks :
             clerk[c].step = "insert" /\ clerk[c].id = t
  <1>1. ASSUME StoresInv, [StoresNext]_storeVars PROVE Gone
    <2>0. StoresTypeOK BY <1>1 DEF StoresInv
    <2>1. ASSUME metrics' = metrics, templates' = templates PROVE Gone BY <2>1 DEF Defined
    <2>2. ASSUME NEW c \in Clerks, InsertTemplate(c) \/ DropTemplate(c) PROVE Gone
      BY <2>2 DEF InsertTemplate, DropTemplate, Defined
    <2>3. ASSUME NEW c \in Clerks, NEW m \in Metrics, NEW d \in Definitions, CreateMetric(c, m, d)
          PROVE  Gone
      BY <2>0, <2>3 DEF CreateMetric, Defined, StoresTypeOK
    <2>4. ASSUME NEW c \in Clerks, WriteMetric(c) \/ EraseMetric(c) PROVE Gone
      BY <2>0, <2>4 DEF WriteMetric, EraseMetric, Defined, StoresTypeOK
    <2>5. \/ metrics' = metrics /\ templates' = templates
          \/ \E c \in Clerks : InsertTemplate(c) \/ DropTemplate(c) \/ WriteMetric(c) \/ EraseMetric(c)
          \/ \E c \in Clerks, m \in Metrics, d \in Definitions : CreateMetric(c, m, d)
      BY <1>1 DEF StoresNext, storeVars, RecordExecution, CountTemplates, FindTemplate, FindToErase,
         FindMetric, MergeMetric, BeginReport, ListRuns, AggregateRuns, Reported, BeginCases,
         RunCase, ClerkFails
    <2> QED BY <2>1, <2>2, <2>3, <2>4, <2>5
  <1>2. StoresInv /\ [StoresNext]_storeVars => [Gone]_storeVars BY <1>1
  <1> QED BY <1>2, StoresInitInv, StoresNextInv, PTL DEF StoresSpec, GoneForGood

HIDE TenantStoresAssumption

-----------------------------------------------------------------------------
(***************************************************************************)
(* Natural numbers.  A set of them that has any member has a least one,    *)
(* and a greatest one if it is bounded.                                    *)
(***************************************************************************)

Less == OpToRel(<, Nat)

LEMMA LessIsWellFounded == IsWellFoundedOn(Less, Nat)
  BY Zenon, NatLessThanWellFounded DEF Less

LEMMA LeastExists ==
  ASSUME NEW S \in SUBSET Nat, S # {}
  PROVE  \E n \in S : \A m \in S : n <= m
  <1>1. \A x, y \in Nat : x < y => <<x, y>> \in Less BY DEF Less, OpToRel
  <1>2. PICK n \in S : \A m \in S : ~ (<<m, n>> \in Less)
    BY LessIsWellFounded, WFMin
  <1>3. ASSUME NEW m \in S PROVE n <= m
    <2>1. ~ (m < n) BY <1>1, <1>2
    <2>2. m \in Nat /\ n \in Nat OBVIOUS
    <2> QED BY <2>1, <2>2
  <1> QED BY <1>3

LEMMA GreatestExists ==
  ASSUME NEW S \in SUBSET Nat, S # {}, NEW b \in Nat, \A n \in S : n <= b
  PROVE  \E n \in S : \A m \in S : m <= n
  <1> DEFINE T == {b - n : n \in S}
  <1>1. PICK k \in S : TRUE OBVIOUS
  <1>2. T \in SUBSET Nat /\ T # {}
    <2>1. b - k \in T OBVIOUS
    <2>2. ASSUME NEW n \in S PROVE b - n \in Nat OBVIOUS
    <2> QED BY <2>1, <2>2
  <1>3. PICK x \in T : \A y \in T : x <= y
    <2> HIDE DEF T
    <2> QED BY <1>2, LeastExists
  <1>4. PICK n \in S : x = b - n OBVIOUS
  <1>5. ASSUME NEW m \in S PROVE m <= n
    <2>1. b - m \in T OBVIOUS
    <2>2. x <= b - m BY <1>3, <2>1
    <2> QED BY <1>4, <2>2
  <1> QED BY <1>5

(***************************************************************************)
(* Checkpoints.  Rows are never removed, so that what a fork is of is a    *)
(* row still when it looks for its own, and an earlier one: the newest row *)
(* is another.                                                             *)
(***************************************************************************)

IsRow(id) == \E n \in DOMAIN checkpoints : checkpoints[n].id = id

ForksOfRows == \A r \in Runs :
  /\ attempt[r].of # NoCheckpoint => IsRow(attempt[r].of)
  /\ attempt[r].uses # NoCheckpoint => IsRow(attempt[r].uses)

CheckInv == CheckTypeOK /\ ForksOfRows /\ LineageGoesBack

USE CheckpointsAssumption

LEMMA CheckInitInv == CheckInit => CheckInv
  <1> SUFFICES ASSUME CheckInit PROVE CheckInv OBVIOUS
  <1>0. (CHOOSE q \in Questions : TRUE) \in Questions /\ (CHOOSE c \in Sources : TRUE) \in Sources
    OBVIOUS
  <1>1. CheckTypeOK BY <1>0 DEF CheckInit, CheckTypeOK, Attempts, Reference
  <1>2. ForksOfRows BY DEF CheckInit, ForksOfRows
  <1>3. LineageGoesBack BY DEF CheckInit, LineageGoesBack
  <1> QED BY <1>1, <1>2, <1>3 DEF CheckInv

(* The table may grow at its end; of its rows only the lineage may change. *)
LEMMA RowsStay ==
  ASSUME CheckTypeOK, CheckTypeOK', Len(checkpoints) <= Len(checkpoints'),
         \A n \in DOMAIN checkpoints : checkpoints'[n].id = checkpoints[n].id, NEW id
  PROVE  IsRow(id) => IsRow(id)'
  <1>1. DOMAIN checkpoints = 1 .. Len(checkpoints) /\ DOMAIN checkpoints' = 1 .. Len(checkpoints')
        /\ Len(checkpoints) \in Nat /\ Len(checkpoints') \in Nat
    BY DEF CheckTypeOK
  <1> QED BY <1>1 DEF IsRow

LEMMA RowShape ==
  ASSUME CheckTypeOK, NEW n \in DOMAIN checkpoints
  PROVE  /\ checkpoints[n] \in Checkpoint
         /\ checkpoints[n].id \in Runs /\ checkpoints[n].question \in Questions
         /\ checkpoints[n].connection \in Sources /\ checkpoints[n].forked_from \in Reference
  <1>1. checkpoints[n] \in Checkpoint BY DEF CheckTypeOK
  <1> QED BY <1>1 DEF Checkpoint

LEMMA AttemptShape ==
  ASSUME CheckTypeOK, NEW r \in Runs
  PROVE  /\ attempt[r] \in Attempts
         /\ attempt[r].question \in Questions /\ attempt[r].connection \in Sources
         /\ attempt[r].of \in Reference /\ attempt[r].uses \in Reference
  <1>1. attempt[r] \in Attempts BY DEF CheckTypeOK
  <1> QED BY <1>1 DEF Attempts

(* A step of r that leaves the table alone.                                *)
LEMMA AttemptKeeps ==
  ASSUME CheckInv, NEW r \in Runs, NEW a \in Attempts, attempt' = [attempt EXCEPT ![r] = a],
         UNCHANGED <<durably, checkpoints>>,
         a.of # NoCheckpoint => IsRow(a.of), a.uses # NoCheckpoint => IsRow(a.uses)
  PROVE  CheckInv'
  <1>1. CheckTypeOK /\ ForksOfRows /\ LineageGoesBack BY DEF CheckInv
  <1>2. CheckTypeOK' BY <1>1 DEF CheckTypeOK
  <1>3. attempt'[r] = a /\ \A q \in Runs \ {r} : attempt'[q] = attempt[q]
    BY <1>1 DEF CheckTypeOK
  <1>4. \A id : IsRow(id)' <=> IsRow(id) BY DEF IsRow
  <1>5. ForksOfRows' BY <1>1, <1>3, <1>4 DEF ForksOfRows
  <1>6. LineageGoesBack' BY <1>1 DEF LineageGoesBack
  <1> QED BY <1>2, <1>5, <1>6 DEF CheckInv

LEMMA BeginKeeps ==
  ASSUME CheckInv, NEW r \in Runs, NEW kind \in {"ask", "fork", "replay", "saved"},
         NEW question \in Questions, NEW connection \in Sources,
         NEW of \in Reference, NEW uses \in Reference,
         Begin(r, kind, question, connection, of, uses),
         of # NoCheckpoint => IsRow(of), uses # NoCheckpoint => IsRow(uses),
         UNCHANGED <<durably, checkpoints>>
  PROVE  CheckInv'
  <1> DEFINE a == [at |-> "running", kind |-> kind, question |-> question,
                   connection |-> connection, of |-> of, uses |-> uses, ran_on |-> NoCheckpoint]
  <1>1. a \in Attempts BY DEF Attempts, Reference
  <1>2. attempt' = [attempt EXCEPT ![r] = a] BY DEF Begin
  <1>3. a.of = of /\ a.uses = uses OBVIOUS
  <1> HIDE DEF a
  <1> QED BY <1>1, <1>2, <1>3, AttemptKeeps

(* The checkpoint a saved query is replayed from is one of the table.      *)
LEMMA MatchIsRow ==
  ASSUME CheckTypeOK, NEW question
  PROVE  /\ Match(question) \in Reference
         /\ Match(question) # NoCheckpoint => IsRow(Match(question))
  <1> DEFINE S == MatchesOf(question)
             k == CHOOSE n \in S : \A m \in S : m <= n
  <1>1. CASE S = {} BY <1>1 DEF Match, Reference
  <1>2. CASE S # {}
    <2>1. DOMAIN checkpoints = 1 .. Len(checkpoints) /\ Len(checkpoints) \in Nat
      BY DEF CheckTypeOK
    <2>2. S \in SUBSET Nat /\ \A n \in S : n <= Len(checkpoints) BY <2>1 DEF MatchesOf
    <2>3. \E n \in S : \A m \in S : m <= n
      <3> HIDE DEF S
      <3> QED BY <1>2, <2>1, <2>2, GreatestExists
    <2>4. k \in S BY <2>3
    <2>5. k \in DOMAIN checkpoints BY <2>4 DEF MatchesOf
    <2>6. Match(question) = checkpoints[k].id BY <1>2 DEF Match
    <2> HIDE DEF k
    <2> QED BY <2>5, <2>6, RowShape DEF Reference, IsRow
  <1> QED BY <1>1, <1>2

LEMMA BeginsKeep ==
  ASSUME CheckInv, NEW r \in Runs,
         \/ \E q \in Questions, c \in Sources : BeginQuestion(r, q, c) \/ BeginSavedQuery(r, q, c)
         \/ \E n \in DOMAIN checkpoints : BeginFork(r, n) \/ BeginReplay(r, n)
  PROVE  CheckInv'
  <1>0. CheckTypeOK BY DEF CheckInv
  <1>1. NoCheckpoint \in Reference BY DEF Reference
  <1>2. ASSUME NEW q \in Questions, NEW c \in Sources, BeginQuestion(r, q, c) PROVE CheckInv'
    BY <1>1, <1>2, BeginKeeps DEF BeginQuestion
  <1>3. ASSUME NEW q \in Questions, NEW c \in Sources, BeginSavedQuery(r, q, c) PROVE CheckInv'
    <2>1. /\ Begin(r, "saved", q, c, NoCheckpoint, Match(q))
          /\ UNCHANGED <<durably, checkpoints>>
      BY <1>3 DEF BeginSavedQuery
    <2> QED BY <1>0, <1>1, <2>1, MatchIsRow, BeginKeeps
  <1>4. ASSUME NEW n \in DOMAIN checkpoints, BeginFork(r, n) \/ BeginReplay(r, n) PROVE CheckInv'
    <2>1. /\ checkpoints[n].id \in Reference /\ checkpoints[n].question \in Questions
          /\ checkpoints[n].connection \in Sources /\ IsRow(checkpoints[n].id)
      BY <1>0, RowShape DEF Reference, IsRow
    <2>2. /\ UNCHANGED <<durably, checkpoints>>
          /\ \/ Begin(r, "fork", checkpoints[n].question, checkpoints[n].connection,
                      checkpoints[n].id, NoCheckpoint)
             \/ Begin(r, "replay", checkpoints[n].question, checkpoints[n].connection,
                      NoCheckpoint, checkpoints[n].id)
      BY <1>4 DEF BeginFork, BeginReplay
    <2> QED BY <1>1, <2>1, <2>2, BeginKeeps
  <1> QED BY <1>2, <1>3, <1>4

(* The steps of a run change where it is, where it ran, what it lists.     *)
LEMMA RanShape ==
  ASSUME CheckTypeOK, NEW r \in Runs, NEW c \in Sources, Ran(r, c)
  PROVE  \E a \in Attempts :
           /\ attempt' = [attempt EXCEPT ![r] = a]
           /\ a.of = attempt[r].of /\ a.uses = attempt[r].uses
  <1> DEFINE a == [attempt[r] EXCEPT !.ran_on = c,
                     !.at = IF attempt[r].kind = "fork" THEN "lineage" ELSE "answered"]
  <1>1. a \in Attempts /\ a.of = attempt[r].of /\ a.uses = attempt[r].uses
    BY AttemptShape DEF Attempts
  <1>2. attempt' = [attempt EXCEPT ![r] = a] BY DEF Ran, CheckTypeOK
  <1> HIDE DEF a
  <1> QED BY <1>1, <1>2

LEMMA GoesShape ==
  ASSUME CheckTypeOK, NEW r \in Runs, NEW at \in {"answered", "failed"},
         attempt' = [attempt EXCEPT ![r].at = at]
  PROVE  \E a \in Attempts :
           /\ attempt' = [attempt EXCEPT ![r] = a]
           /\ a.of = attempt[r].of /\ a.uses = attempt[r].uses
  <1> DEFINE a == [attempt[r] EXCEPT !.at = at]
  <1>1. a \in Attempts /\ a.of = attempt[r].of /\ a.uses = attempt[r].uses
    BY AttemptShape DEF Attempts
  <1>2. attempt' = [attempt EXCEPT ![r] = a] BY DEF CheckTypeOK
  <1> HIDE DEF a
  <1> QED BY <1>1, <1>2

LEMMA SameReferencesKeep ==
  ASSUME CheckInv, NEW r \in Runs, UNCHANGED <<durably, checkpoints>>,
         \E a \in Attempts : /\ attempt' = [attempt EXCEPT ![r] = a]
                             /\ a.of = attempt[r].of /\ a.uses = attempt[r].uses
  PROVE  CheckInv'
  <1>1. ForksOfRows BY DEF CheckInv
  <1> QED BY <1>1, AttemptKeeps DEF ForksOfRows

LEMMA RunStepsKeep ==
  ASSUME CheckInv, NEW r \in Runs,
         RunSavesNothing(r) \/ Replays(r) \/ RunFails(r) \/ InsertAgain(r)
  PROVE  CheckInv'
  <1>0. CheckTypeOK /\ ForksOfRows BY DEF CheckInv
  <1>1. CASE RunSavesNothing(r)
    <2>1. attempt[r].connection \in Sources BY <1>0, AttemptShape
    <2> QED BY <1>0, <1>1, <2>1, RanShape, SameReferencesKeep DEF RunSavesNothing
  <1>2. CASE Replays(r)
    <2> DEFINE c == IF attempt[r].uses = NoCheckpoint THEN attempt[r].connection
                    ELSE checkpoints[RecordOf(attempt[r].uses)].connection
    <2>1. c \in Sources
      <3>1. CASE attempt[r].uses = NoCheckpoint BY <1>0, <3>1, AttemptShape
      <3>2. CASE attempt[r].uses # NoCheckpoint
        <4>1. IsRow(attempt[r].uses) BY <1>0, <3>2 DEF ForksOfRows
        <4>2. RecordOf(attempt[r].uses) \in DOMAIN checkpoints BY <4>1 DEF IsRow, RecordOf
        <4> QED BY <1>0, <3>2, <4>2, RowShape
      <3> QED BY <3>1, <3>2
    <2>2. Ran(r, c) /\ UNCHANGED <<durably, checkpoints>> BY <1>2 DEF Replays
    <2> HIDE DEF c
    <2> QED BY <1>0, <2>1, <2>2, RanShape, SameReferencesKeep
  <1>3. CASE RunFails(r) \/ InsertAgain(r)
    <2>1. UNCHANGED <<durably, checkpoints>> BY <1>3 DEF RunFails, InsertAgain
    <2>2. \E at \in {"answered", "failed"} : attempt' = [attempt EXCEPT ![r].at = at]
      BY <1>3 DEF RunFails, InsertAgain, Answered
    <2> QED BY <1>0, <2>1, <2>2, GoesShape, SameReferencesKeep
  <1> QED BY <1>1, <1>2, <1>3

LEMMA RunSavesKeeps == ASSUME CheckInv, NEW r \in Runs, RunSaves(r) PROVE CheckInv'
  <1> DEFINE row == [id |-> r, question |-> attempt[r].question,
                     connection |-> attempt[r].connection, forked_from |-> NoCheckpoint]
             s == checkpoints
             L == Len(s)
  <1>0. CheckTypeOK /\ ForksOfRows /\ LineageGoesBack BY DEF CheckInv
  <1>1. checkpoints' = Append(s, row) /\ durably' = durably BY DEF RunSaves
  <1>2. row \in Checkpoint BY <1>0, AttemptShape DEF Checkpoint, Reference
  <1>3. row.forked_from = NoCheckpoint OBVIOUS
  <1> HIDE DEF row
  <1>4. /\ s \in Seq(Checkpoint) /\ L \in Nat /\ DOMAIN s = 1 .. L
        /\ checkpoints' \in Seq(Checkpoint) /\ Len(checkpoints') = L + 1
        /\ DOMAIN checkpoints' = 1 .. L + 1
        /\ \A n \in 1 .. L : checkpoints'[n] = s[n]
        /\ checkpoints'[L + 1] = row
    BY <1>0, <1>1, <1>2 DEF CheckTypeOK
  <1>5. PICK a \in Attempts : /\ attempt' = [attempt EXCEPT ![r] = a]
                              /\ a.of = attempt[r].of /\ a.uses = attempt[r].uses
    BY <1>0, AttemptShape, RanShape DEF RunSaves
  <1>6. CheckTypeOK' BY <1>0, <1>1, <1>4, <1>5 DEF CheckTypeOK
  <1>7. ForksOfRows'
    <2>1. attempt'[r] = a /\ \A q \in Runs \ {r} : attempt'[q] = attempt[q]
      BY <1>0, <1>5 DEF CheckTypeOK
    <2>2. \A id : IsRow(id) => IsRow(id)' BY <1>0, <1>4, <1>6, RowsStay
    <2> QED BY <1>0, <1>5, <2>1, <2>2 DEF ForksOfRows
  <1>8. LineageGoesBack'
    <2> SUFFICES ASSUME NEW n \in DOMAIN checkpoints', checkpoints'[n].forked_from # NoCheckpoint
                 PROVE  \E m \in 1 .. n - 1 : checkpoints'[m].id = checkpoints'[n].forked_from
      BY DEF LineageGoesBack
    <2>1. n \in 1 .. L /\ n # L + 1 BY <1>3, <1>4
    <2>2. PICK m \in 1 .. n - 1 : s[m].id = s[n].forked_from
      BY <1>0, <1>4, <2>1 DEF LineageGoesBack
    <2>3. m \in 1 .. L BY <1>4, <2>1
    <2> QED BY <1>4, <2>1, <2>2, <2>3
  <1> QED BY <1>6, <1>7, <1>8 DEF CheckInv

LEMMA ListNewestKeeps == ASSUME CheckInv, NEW r \in Runs, ListNewest(r) PROVE CheckInv'
  <1>0. CheckTypeOK /\ ForksOfRows BY DEF CheckInv
  <1>1. UNCHANGED <<durably, checkpoints>> BY DEF ListNewest
  <1>2. CASE IsNew(r)
    <2> DEFINE a == [attempt[r] EXCEPT !.at = "label", !.uses = Newest.id]
    <2>1. Len(checkpoints) \in DOMAIN checkpoints
      <3>1. checkpoints \in Seq(Checkpoint) /\ checkpoints # <<>>
        BY <1>0, <1>2 DEF IsNew, CheckTypeOK
      <3> QED BY <3>1, EmptySeq
    <2>2. Newest.id \in Reference /\ IsRow(Newest.id)
      BY <1>0, <2>1, RowShape DEF Newest, Reference, IsRow
    <2>3. a \in Attempts /\ a.of = attempt[r].of /\ a.uses = Newest.id
      BY <1>0, <2>2, AttemptShape DEF Attempts
    <2>4. attempt' = [attempt EXCEPT ![r] = a] BY <1>0, <1>2 DEF ListNewest, CheckTypeOK
    <2> HIDE DEF a
    <2> QED BY <1>0, <1>1, <2>2, <2>3, <2>4, AttemptKeeps DEF ForksOfRows
  <1>3. CASE ~ IsNew(r)
    <2>1. Answered(r) BY <1>3 DEF ListNewest
    <2> QED BY <1>0, <1>1, <2>1, GoesShape, SameReferencesKeep DEF Answered
  <1> QED BY <1>2, <1>3

LEMMA LabelNewestKeeps == ASSUME CheckInv, NEW r \in Runs, LabelNewest(r) PROVE CheckInv'
  <1> DEFINE s == checkpoints
             L == Len(s)
             of == attempt[r].of
  <1>0. CheckTypeOK /\ ForksOfRows /\ LineageGoesBack BY DEF CheckInv
  <1>1. Answered(r) /\ durably' = durably BY DEF LabelNewest
  <1>2. CASE ~ IsNew(r)
    <2>1. checkpoints' = checkpoints BY <1>2 DEF LabelNewest
    <2> QED BY <1>0, <1>1, <2>1, GoesShape, SameReferencesKeep DEF Answered
  <1>3. CASE IsNew(r)
    <2>1. checkpoints' = [s EXCEPT ![L].forked_from = of] BY <1>3 DEF LabelNewest
    <2>2. /\ s \in Seq(Checkpoint) /\ s # <<>> /\ L \in Nat /\ DOMAIN s = 1 .. L
      BY <1>0, <1>3 DEF IsNew, CheckTypeOK
    <2>3. L \in 1 .. L BY <2>2, EmptySeq
    <2> DEFINE row == [s[L] EXCEPT !.forked_from = of]
    <2>4. row \in Checkpoint /\ row.id = s[L].id /\ row.forked_from = of
      BY <1>0, <2>2, <2>3, RowShape, AttemptShape DEF Checkpoint
    <2>5. checkpoints' = [s EXCEPT ![L] = row] BY <2>1, <2>2, <2>3
    <2> HIDE DEF row
    <2>6. /\ checkpoints' \in Seq(Checkpoint) /\ Len(checkpoints') = L
          /\ DOMAIN checkpoints' = 1 .. L
          /\ checkpoints'[L] = row
          /\ \A n \in 1 .. L : n # L => checkpoints'[n] = s[n]
      <3>1. checkpoints' \in Seq(Checkpoint) /\ Len(checkpoints') = L
        BY <2>2, <2>3, <2>4, <2>5, ExceptSeq
      <3> QED BY <2>2, <2>3, <2>5, <3>1
    <2>7. \A n \in 1 .. L : checkpoints'[n].id = s[n].id BY <2>4, <2>6
    <2>8. PICK a \in Attempts : /\ attempt' = [attempt EXCEPT ![r] = a]
                                /\ a.of = attempt[r].of /\ a.uses = attempt[r].uses
      BY <1>0, <1>1, GoesShape DEF Answered
    <2>9. CheckTypeOK' BY <1>0, <1>1, <2>6, <2>8 DEF CheckTypeOK
    <2>10. ForksOfRows'
      <3>1. attempt'[r] = a /\ \A q \in Runs \ {r} : attempt'[q] = attempt[q]
        BY <1>0, <2>8 DEF CheckTypeOK
      <3>2. Len(checkpoints) <= Len(checkpoints') /\ \A n \in DOMAIN checkpoints :
              checkpoints'[n].id = checkpoints[n].id
        <4>1. Len(checkpoints') = Len(checkpoints) /\ Len(checkpoints) \in Nat BY <2>2, <2>6
        <4>2. \A n \in DOMAIN checkpoints : checkpoints'[n].id = checkpoints[n].id
          BY <2>2, <2>7
        <4> QED BY <4>1, <4>2
      <3>3. \A id : IsRow(id) => IsRow(id)' BY <1>0, <2>9, <3>2, RowsStay
      <3> QED BY <1>0, <2>8, <3>1, <3>3 DEF ForksOfRows
    <2>11. LineageGoesBack'
      <3> SUFFICES ASSUME NEW n \in 1 .. L, checkpoints'[n].forked_from # NoCheckpoint
                   PROVE  \E m \in 1 .. n - 1 : checkpoints'[m].id = checkpoints'[n].forked_from
        BY <2>6 DEF LineageGoesBack
      <3>1. CASE n = L
        <4>1. of # NoCheckpoint BY <2>4, <2>6, <3>1
        <4>2. PICK m \in 1 .. L : s[m].id = of BY <1>0, <2>2, <4>1 DEF ForksOfRows, IsRow
        <4>3. m # L BY <1>3, <4>2 DEF IsNew, Newest
        <4>4. m \in 1 .. n - 1 /\ checkpoints'[m].id = of
          <5>0. L \in Nat /\ n = L /\ m \in 1 .. L /\ m # L BY <2>2, <3>1, <4>2, <4>3
          <5>1. m \in 1 .. n - 1
            <6> HIDE DEF L
            <6> QED BY ONLY <5>0
          <5> QED BY <2>7, <4>2, <5>1
        <4>5. checkpoints'[n].forked_from = of BY <2>4, <2>6, <3>1
        <4> QED BY <4>4, <4>5
      <3>2. CASE n # L
        <4>1. PICK m \in 1 .. n - 1 : s[m].id = s[n].forked_from
          BY <1>0, <2>2, <2>6, <3>2 DEF LineageGoesBack
        <4>2. m \in 1 .. L BY <2>2
        <4>3. checkpoints'[m].id = s[m].id /\ checkpoints'[n] = s[n] BY <2>6, <2>7, <3>2, <4>2
        <4> QED BY <4>1, <4>3
      <3> QED BY <3>1, <3>2
    <2> QED BY <2>9, <2>10, <2>11 DEF CheckInv
  <1> QED BY <1>2, <1>3

LEMMA CheckNextInv == CheckInv /\ [CheckNext]_checkVars => CheckInv'
  <1> SUFFICES ASSUME CheckInv, [CheckNext]_checkVars PROVE CheckInv' OBVIOUS
  <1>1. CASE UNCHANGED checkVars
    BY <1>1 DEF checkVars, CheckInv, CheckTypeOK, ForksOfRows, IsRow, LineageGoesBack
  <1> QED BY <1>1, BeginsKeep, RunStepsKeep, RunSavesKeeps, ListNewestKeeps, LabelNewestKeeps
      DEF CheckNext

(* However runs and forks overlap, lineage leads back in time.             *)
THEOREM LineageAlwaysGoesBack == CheckSpec => []LineageGoesBack
  <1>1. CheckInv => LineageGoesBack BY DEF CheckInv
  <1> QED BY <1>1, CheckInitInv, CheckNextInv, PTL DEF CheckSpec

=============================================================================
