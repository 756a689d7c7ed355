----------------------------- MODULE Connections -----------------------------
(***************************************************************************)
(* The catalog of connections of an organization: LocalConnectionManager   *)
(* (defaults/connections.py), PostgresConnectionManager                    *)
(* (defaults/connections_pg.py), the limit of kernel/entitlements.py and   *)
(* the handlers of /connections (api/app.py).                              *)
(*                                                                         *)
(* A handler is split where PostgreSQL suspends it: at every connect().    *)
(* What it executes on one connection does not suspend.  The local manager *)
(* never suspends, which is said of it by letting no other handler move    *)
(* while one is under way.                                                 *)
(***************************************************************************)
EXTENDS Naturals, FiniteSets

CONSTANTS
  Ids, Names,
  Settings,      \* settings a request may carry, merged into the stored ones
  Handlers,      \* requests served at the same time
  ConnectionLimit,
  NoConnection

ASSUME ConnectionsAssumption ==
  /\ ConnectionLimit \in Nat
  /\ IsFiniteSet(Handlers) /\ Handlers # {}

VARIABLES
  durable,       \* PostgreSQL is configured
  connections,   \* the table, NoConnection where there is no row
  drawn_ids,     \* the ids ever drawn
  handler        \* the request each handler serves, and how far it is

connVars == <<durable, connections, drawn_ids, handler>>

Connection == [name : Names, settings : SUBSET Settings]

ConnRequests == [at : {"add", "merge", "name", "write", "remove"},
             id : Ids, name : Names, settings : SUBSET Settings]

ConnTypeOK ==
  /\ durable \in BOOLEAN
  /\ connections \in [Ids -> Connection \cup {NoConnection}]
  /\ drawn_ids \subseteq Ids
  /\ handler \in [Handlers -> ConnRequests \cup {NoConnection}]

Listed == {i \in Ids : connections[i] # NoConnection}

Idle(h) == handler[h] = NoConnection

At(h, step) == ~ Idle(h) /\ handler[h].at = step

\* h may go on: PostgreSQL suspends handlers, the local manager does not.
Turn(h) == durable \/ \A g \in Handlers \ {h} : Idle(g)

GoTo(h, step) == handler' = [handler EXCEPT ![h].at = step]

Done(h) == handler' = [handler EXCEPT ![h] = NoConnection]

ConnInit ==
  /\ durable \in BOOLEAN
  /\ connections = [i \in Ids |-> NoConnection]
  /\ drawn_ids = {}
  /\ handler = [h \in Handlers |-> NoConnection]

Taken(name) == \E i \in Listed : connections[i].name = name

-----------------------------------------------------------------------------
(* POST /connections.                                                      *)

\* Fault: as EntitlementProvider.allows(), which counts the limit in.
WithinLimitAndOne == Cardinality(Listed) <= ConnectionLimit

WithinLimit == Cardinality(Listed) < ConnectionLimit

\* list_connections() is counted against the limit; an id is drawn.
BeginCreate(h, i, name, settings) ==
  /\ Idle(h) /\ Turn(h)
  /\ WithinLimit
  /\ i \notin drawn_ids
  /\ drawn_ids' = drawn_ids \cup {i}
  /\ handler' = [handler EXCEPT ![h] =
       [at |-> "add", id |-> i, name |-> name, settings |-> settings]]
  /\ UNCHANGED <<durable, connections>>

\* add(): CONNECTION_EXISTS, or the row.
Add(h) ==
  /\ At(h, "add") /\ Turn(h)
  /\ connections' = IF Taken(handler[h].name) THEN connections
       ELSE [connections EXCEPT ![handler[h].id] =
              [name |-> handler[h].name, settings |-> handler[h].settings]]
  /\ Done(h)
  /\ UNCHANGED <<durable, drawn_ids>>

-----------------------------------------------------------------------------
(* PUT /connections/{id}.                                                  *)

\* The stored settings are read to merge the request's into them, if it has any.
BeginUpdate(h, i, name, settings) ==
  /\ Idle(h) /\ Turn(h) /\ i \in Listed
  /\ handler' = [handler EXCEPT ![h] =
       [at |-> "merge", id |-> i, name |-> name,
        settings |-> IF settings = {} THEN {} ELSE connections[i].settings \cup settings]]
  /\ UNCHANGED <<durable, connections, drawn_ids>>

\* update() reads the row (CONNECTION_NOT_FOUND ends it): what the patch lacks
\* is taken from it, and a name that changes is checked next.
ReadCurrent(h) ==
  LET i == handler[h].id IN
  /\ At(h, "merge") /\ Turn(h)
  /\ IF i \notin Listed THEN Done(h)
     ELSE handler' = [handler EXCEPT
            ![h].at = IF handler[h].name # connections[i].name THEN "name" ELSE "write",
            ![h].settings = IF @ = {} THEN connections[i].settings ELSE @]
  /\ UNCHANGED <<durable, connections, drawn_ids>>

CheckName(h) ==
  /\ At(h, "name") /\ Turn(h)
  /\ IF \E i \in Listed \ {handler[h].id} : connections[i].name = handler[h].name
     THEN Done(h) ELSE GoTo(h, "write")
  /\ UNCHANGED <<durable, connections, drawn_ids>>

\* Fault: the row is written whether it is there or not.
Upsert(h) ==
  /\ At(h, "write") /\ Turn(h)
  /\ connections' = [connections EXCEPT ![handler[h].id] =
       [name |-> handler[h].name, settings |-> handler[h].settings]]
  /\ Done(h)
  /\ UNCHANGED <<durable, drawn_ids>>

\* UPDATE ... WHERE id: nothing if the row is gone meanwhile.
Write(h) ==
  LET i == handler[h].id IN
  /\ At(h, "write") /\ Turn(h)
  /\ connections' = IF i \notin Listed THEN connections
       ELSE [connections EXCEPT ![i] =
              [name |-> handler[h].name, settings |-> handler[h].settings]]
  /\ Done(h)
  /\ UNCHANGED <<durable, drawn_ids>>

-----------------------------------------------------------------------------
(* DELETE /connections/{id}: found first, then deleted.                    *)

BeginRemove(h, i) ==
  /\ Idle(h) /\ Turn(h) /\ i \in Listed
  /\ handler' = [handler EXCEPT ![h] =
       [at |-> "remove", id |-> i, name |-> connections[i].name, settings |-> {}]]
  /\ UNCHANGED <<durable, connections, drawn_ids>>

RemoveRow(h) ==
  /\ At(h, "remove") /\ Turn(h)
  /\ connections' = [connections EXCEPT ![handler[h].id] = NoConnection]
  /\ Done(h)
  /\ UNCHANGED <<durable, drawn_ids>>

\* A statement of PostgreSQL fails and ends the request.
StatementFails(h) ==
  /\ durable /\ ~ Idle(h)
  /\ Done(h)
  /\ UNCHANGED <<durable, connections, drawn_ids>>

ConnNext == \E h \in Handlers :
  \/ \E i \in Ids, n \in Names, s \in SUBSET Settings :
       BeginCreate(h, i, n, s) \/ BeginUpdate(h, i, n, s)
  \/ \E i \in Ids : BeginRemove(h, i)
  \/ Add(h) \/ ReadCurrent(h) \/ CheckName(h) \/ Write(h) \/ RemoveRow(h) \/ StatementFails(h)

ConnSpec == ConnInit /\ [][ConnNext]_connVars

-----------------------------------------------------------------------------
(* Properties.                                                             *)

NamesUnique == \A i, j \in Listed : connections[i].name = connections[j].name => i = j

\* One process and the local manager: no two connections share a name, and
\* there are no more of them than the limit.  With PostgreSQL requests that
\* overlap may exceed the limit, by one less than there are of them
\* (create_connection, add, update).
CatalogSound ==
  /\ ~ durable => NamesUnique
  /\ Cardinality(Listed) <= ConnectionLimit + (IF durable THEN Cardinality(Handlers) - 1 ELSE 0)

\* An update never brings back a connection that was deleted while it was under
\* way, and with the local manager never drops settings it does not name
\* (update_connection, update).
UpdatesMerge == [][\A i \in Ids :
  /\ i \in drawn_ids /\ i \in Listed' /\ i \notin Listed => \E h \in Handlers :
       At(h, "add") /\ handler[h].id = i
  /\ ~ durable /\ i \in Listed /\ i \in Listed' =>
       connections[i].settings \subseteq connections'[i].settings]_connVars

=============================================================================
