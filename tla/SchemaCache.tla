----------------------------- MODULE SchemaCache -----------------------------
(***************************************************************************)
(* SchemaService (engine/schema.py): the catalogs that plans are validated *)
(* against, cached per connection and database until they expire.          *)
(*                                                                         *)
(* A call looks at the cache and, on a miss, waits for the source, which   *)
(* answers at some moment of its own; calls overlap freely and each stores *)
(* what it got.  A catalog is the number of the schema it shows.           *)
(***************************************************************************)
EXTENDS Naturals, Sequences

CONSTANTS
  Keys,            \* "<connection id>:<database>"
  Readers,         \* concurrent calls of get_catalog()
  TTL,             \* ttl_seconds
  MaxCacheTime,    \* bound: the clock
  MaxSchemas,      \* bound: changes of a source's schema
  NoEntry

ASSUME SchemaCacheAssumption ==
  /\ TTL \in Nat \ {0} /\ MaxCacheTime \in Nat /\ MaxSchemas \in Nat
  /\ NoEntry \notin Nat

VARIABLES
  time,      \* time.time()
  replaced,  \* per key, when each schema its database had was replaced: the
             \* n-th schema (from 0) at replaced[key][n + 1]
  entries,   \* _entries
  reading,   \* per call, the introspection it waits for
  served     \* the call that returned last, with what it returned

cacheVars == <<time, replaced, entries, reading, served>>

Entries == [catalog : Nat, fetchedAt : Nat]

Calls == [key : Keys, forced : BOOLEAN, now : Nat, catalog : Nat \cup {NoEntry}]

CacheTypeOK ==
  /\ time \in Nat
  /\ replaced \in [Keys -> Seq(Nat)]
  /\ entries \in [Keys -> Entries \cup {NoEntry}]
  /\ reading \in [Readers -> Calls \cup {NoEntry}]
  /\ served \in Calls \cup {NoEntry}

CacheInit ==
  /\ time = 0
  /\ replaced = [k \in Keys |-> <<>>]
  /\ entries = [k \in Keys |-> NoEntry]
  /\ reading = [r \in Readers |-> NoEntry]
  /\ served = NoEntry

Schema(k) == Len(replaced[k])

CacheTick ==
  /\ time < MaxCacheTime
  /\ time' = time + 1
  /\ UNCHANGED <<replaced, entries, reading, served>>

\* Somebody changes the schema of the database, or points the connection at
\* another database of the same name (PUT /connections leaves the cache alone).
AlterSource(k) ==
  /\ Schema(k) < MaxSchemas
  /\ replaced' = [replaced EXCEPT ![k] = Append(@, time)]
  /\ UNCHANGED <<time, entries, reading, served>>

Fresh(k) == entries[k] # NoEntry /\ time - entries[k].fetchedAt < TTL

\* get_catalog() finds an entry that has not expired.
Hit(r, k) ==
  /\ reading[r] = NoEntry /\ Fresh(k)
  /\ served' = [key |-> k, forced |-> FALSE, now |-> time, catalog |-> entries[k].catalog]
  /\ UNCHANGED <<time, replaced, entries, reading>>

\* get_catalog() has to ask the source: nothing fresh, or a build that insists.
Miss(r, k, forced) ==
  /\ reading[r] = NoEntry /\ (forced \/ ~ Fresh(k))
  /\ reading' = [reading EXCEPT ![r] =
       [key |-> k, forced |-> forced, now |-> time, catalog |-> NoEntry]]
  /\ UNCHANGED <<time, replaced, entries, served>>

\* The source answers introspect() with the schema it has now.
Introspect(r) ==
  /\ reading[r] # NoEntry /\ reading[r].catalog = NoEntry
  /\ reading' = [reading EXCEPT ![r].catalog = Schema(reading[r].key)]
  /\ UNCHANGED <<time, replaced, entries, served>>

Read(r) == reading[r] # NoEntry /\ reading[r].catalog # NoEntry

\* Fault: the entry is as old as its storing, not as its asking.
StoreLate(r) ==
  /\ Read(r)
  /\ entries' = [entries EXCEPT ![reading[r].key] =
       [catalog |-> reading[r].catalog, fetchedAt |-> time]]
  /\ served' = reading[r]
  /\ reading' = [reading EXCEPT ![r] = NoEntry]
  /\ UNCHANGED <<time, replaced>>

\* The answer is stored, over whatever another call stored meanwhile, as old as
\* the moment before it was asked for, and returned.
Store(r) ==
  /\ Read(r)
  /\ entries' = [entries EXCEPT ![reading[r].key] =
       [catalog |-> reading[r].catalog, fetchedAt |-> reading[r].now]]
  /\ served' = reading[r]
  /\ reading' = [reading EXCEPT ![r] = NoEntry]
  /\ UNCHANGED <<time, replaced>>

\* introspect() raises; the entry stays, expired or not.
IntrospectFails(r) ==
  /\ reading[r] # NoEntry /\ reading[r].catalog = NoEntry
  /\ reading' = [reading EXCEPT ![r] = NoEntry]
  /\ UNCHANGED <<time, replaced, entries, served>>

CacheNext ==
  \/ CacheTick
  \/ \E k \in Keys : AlterSource(k)
  \/ \E r \in Readers :
       \/ \E k \in Keys : Hit(r, k) \/ \E forced \in BOOLEAN : Miss(r, k, forced)
       \/ Introspect(r) \/ Store(r) \/ IntrospectFails(r)

CacheSpec == CacheInit /\ [][CacheNext]_cacheVars

-----------------------------------------------------------------------------
(* Properties.                                                             *)

\* The n-th schema of k was the one its database had at t or later.
HadSince(k, n, t) == n < Schema(k) => replaced[k][n + 1] >= t

\* However calls overlap, and though an older answer may be stored over a newer
\* one, a catalog that is served is of a schema the source had less than TTL
\* before the call, and one that was asked to be refreshed, of a schema the
\* source had since the call began (SchemaService.get_catalog).
ServedIsRecent ==
  served # NoEntry =>
    /\ served.catalog \in 0 .. Schema(served.key)
    /\ served.now >= TTL => HadSince(served.key, served.catalog, served.now - TTL + 1)
    /\ served.forced => HadSince(served.key, served.catalog, served.now)

=============================================================================
