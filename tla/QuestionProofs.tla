--------------------------- MODULE QuestionProofs ---------------------------
(***************************************************************************)
(* What a question meets on its way, proved: a recent catalog              *)
(* (SchemaCache), the turns of its conversation (Conversations), SQL over  *)
(* tables that are there (PlanPipeline), an answer that is guarded         *)
(* (Answering), the graph a build keeps of its schema (ContextGraph), and  *)
(* the package of context the question gets (ContextPackage).              *)
(***************************************************************************)
EXTENDS MCServices, StoresProofs, RateLimiterProofs, FiniteSetTheorems, SequenceTheorems, TLAPS

(***************************************************************************)
(* SchemaCache.  What is stored or under way is of a schema the source had *)
(* since its introspection was asked for, and the schemas of a source only *)
(* grow in number.                                                         *)
(***************************************************************************)

USE SchemaCacheAssumption

Shown(k, n, t) == t <= time /\ n \in 0 .. Schema(k) /\ HadSince(k, n, t)

ReplacedBefore == \A k \in Keys : \A n \in 1 .. Schema(k) : replaced[k][n] <= time

EntriesShown == \A k \in Keys : entries[k] # NoEntry =>
  Shown(k, entries[k].catalog, entries[k].fetchedAt)

ReadingsShown == \A r \in Readers : reading[r] # NoEntry =>
  /\ reading[r].now <= time
  /\ reading[r].catalog # NoEntry => Shown(reading[r].key, reading[r].catalog, reading[r].now)

CacheInv ==
  /\ CacheTypeOK /\ ReplacedBefore /\ EntriesShown /\ ReadingsShown
  /\ ServedIsRecent /\ (served # NoEntry => served.now <= time)

LEMMA CacheInitInv == CacheInit => CacheInv
  <1> SUFFICES ASSUME CacheInit PROVE CacheInv OBVIOUS
  <1>1. \A S : <<>> \in Seq(S) BY EmptySeq
  <1>2. CacheTypeOK BY <1>1 DEF CacheInit, CacheTypeOK
  <1>3. \A k \in Keys : Schema(k) = 0 BY DEF CacheInit, Schema
  <1>4. ReplacedBefore BY <1>3 DEF ReplacedBefore
  <1> QED BY <1>2, <1>4 DEF CacheInit, CacheInv, EntriesShown, ReadingsShown, ServedIsRecent

LEMMA CacheShape ==
  ASSUME CacheTypeOK
  PROVE  /\ time \in Nat
         /\ \A k \in Keys : /\ replaced[k] \in Seq(Nat) /\ Schema(k) \in Nat
                            /\ \A n \in 1 .. Schema(k) : replaced[k][n] \in Nat
         /\ \A k \in Keys : entries[k] # NoEntry =>
              entries[k].catalog \in Nat /\ entries[k].fetchedAt \in Nat
         /\ \A r \in Readers : reading[r] # NoEntry =>
              /\ reading[r] \in Calls /\ reading[r].key \in Keys /\ reading[r].now \in Nat
              /\ reading[r].catalog # NoEntry => reading[r].catalog \in Nat
         /\ served # NoEntry => served \in Calls /\ served.key \in Keys /\ served.now \in Nat
  <1>1. \A c \in Calls : c.key \in Keys /\ c.now \in Nat /\ c.catalog \in Nat \cup {NoEntry}
    BY DEF Calls
  <1>2. \A e \in Entries : e.catalog \in Nat /\ e.fetchedAt \in Nat BY DEF Entries
  <1>3. \A k \in Keys : entries[k] \in Entries \cup {NoEntry} BY DEF CacheTypeOK
  <1>4. \A r \in Readers : reading[r] \in Calls \cup {NoEntry} BY DEF CacheTypeOK
  <1>5. \A k \in Keys : replaced[k] \in Seq(Nat) BY DEF CacheTypeOK
  <1>6. ASSUME NEW k \in Keys
        PROVE  Schema(k) \in Nat /\ \A n \in 1 .. Schema(k) : replaced[k][n] \in Nat
    <2>1. replaced[k] \in Seq(Nat) BY <1>5
    <2> QED BY <2>1 DEF Schema
  <1> QED BY <1>1, <1>2, <1>3, <1>4, <1>5, <1>6 DEF CacheTypeOK

(* What was shown stays so when time passes and schemas change.            *)
SourceMoves ==
  /\ time' \in Nat /\ time' >= time
  /\ \A k \in Keys :
       /\ Schema(k)' \in {Schema(k), Schema(k) + 1}
       /\ \A n \in 1 .. Schema(k) : replaced'[k][n] = replaced[k][n]
       /\ Schema(k)' = Schema(k) + 1 => replaced'[k][Schema(k) + 1] = time

LEMMA HadStays ==
  ASSUME CacheInv, SourceMoves, NEW k \in Keys, NEW n \in 0 .. Schema(k), NEW t \in Nat,
         t <= time, HadSince(k, n, t)
  PROVE  HadSince(k, n, t)'
  <1>1. /\ CacheTypeOK /\ Schema(k) \in Nat /\ time \in Nat
        /\ \A m \in 1 .. Schema(k) : replaced[k][m] \in Nat
    BY CacheShape DEF CacheInv
  <1> SUFFICES ASSUME n < Schema(k)' PROVE replaced'[k][n + 1] >= t BY DEF HadSince
  <1>2. CASE n < Schema(k)
    <2>1. n + 1 \in 1 .. Schema(k) BY <1>1, <1>2
    <2>2. replaced'[k][n + 1] = replaced[k][n + 1] BY <2>1 DEF SourceMoves
    <2> QED BY <1>2, <2>2 DEF HadSince
  <1>3. CASE ~ (n < Schema(k))
    <2>1. n = Schema(k) /\ Schema(k)' = Schema(k) + 1 BY <1>1, <1>3 DEF SourceMoves
    <2>2. replaced'[k][n + 1] = time BY <2>1 DEF SourceMoves
    <2> QED BY <1>1, <2>2
  <1> QED BY <1>2, <1>3

LEMMA SourceMovesKeeps ==
  ASSUME CacheInv, CacheTypeOK', SourceMoves, ReplacedBefore',
         UNCHANGED <<entries, reading, served>>
  PROVE  CacheInv'
  <1>0. CacheTypeOK /\ EntriesShown /\ ReadingsShown /\ ServedIsRecent BY DEF CacheInv
  <1>1. \A k \in Keys : Schema(k) \in Nat /\ Schema(k)' \in Nat /\ Schema(k)' >= Schema(k)
    BY <1>0, CacheShape DEF SourceMoves
  <1>2. time \in Nat /\ time' \in Nat /\ time' >= time BY <1>0, CacheShape DEF SourceMoves
  <1>3. ASSUME NEW k \in Keys, NEW n \in Nat, NEW t \in Nat, Shown(k, n, t) PROVE Shown(k, n, t)'
    <2>1. n \in 0 .. Schema(k) /\ t <= time /\ HadSince(k, n, t) BY <1>3 DEF Shown
    <2>2. HadSince(k, n, t)' BY <2>1, HadStays
    <2> QED BY <1>1, <1>2, <2>1, <2>2 DEF Shown
  <1>4. EntriesShown' BY <1>0, <1>3, CacheShape DEF EntriesShown
  <1>5. ReadingsShown'
    <2> SUFFICES ASSUME NEW r \in Readers, reading[r] # NoEntry
                 PROVE  /\ reading[r].now <= time'
                        /\ reading[r].catalog # NoEntry =>
                             Shown(reading[r].key, reading[r].catalog, reading[r].now)'
      BY DEF ReadingsShown, Shown, HadSince, Schema
    <2>1. /\ reading[r].key \in Keys /\ reading[r].now \in Nat /\ reading[r].now <= time
          /\ reading[r].catalog # NoEntry => reading[r].catalog \in Nat
      BY <1>0, CacheShape DEF ReadingsShown
    <2> QED BY <1>0, <1>2, <1>3, <2>1 DEF ReadingsShown
  <1>6. ServedIsRecent' /\ (served' # NoEntry => served'.now <= time')
    <2> SUFFICES ASSUME served # NoEntry
                 PROVE  ServedIsRecent' /\ served.now <= time'
      BY DEF ServedIsRecent
    <2>1. /\ served.key \in Keys /\ served.now \in Nat /\ served.now <= time
          /\ served.catalog \in 0 .. Schema(served.key)
      BY <1>0, CacheShape DEF CacheInv, ServedIsRecent
    <2>2. PICK k \in Keys, n \in Nat, asked \in Nat :
            served.key = k /\ served.catalog = n /\ served.now = asked /\ n \in 0 .. Schema(k)
      BY <2>1
    <2>3. asked >= TTL => HadSince(k, n, asked - TTL + 1)'
      <3> SUFFICES ASSUME asked >= TTL PROVE HadSince(k, n, asked - TTL + 1)'
        OBVIOUS
      <3>1. HadSince(k, n, asked - TTL + 1) BY <1>0, <2>1, <2>2 DEF ServedIsRecent
      <3> DEFINE t == asked - TTL + 1
      <3>2. t \in Nat /\ t <= time BY <1>2, <2>1, <2>2
      <3>3. HadSince(k, n, t) BY <3>1
      <3> HIDE DEF t
      <3>4. HadSince(k, n, t)' BY <2>2, <3>2, <3>3, HadStays
      <3> QED BY <3>4 DEF t
    <2>4. served.forced => HadSince(k, n, asked)'
      <3> SUFFICES ASSUME served.forced PROVE HadSince(k, n, asked)' OBVIOUS
      <3>1. HadSince(k, n, asked) BY <1>0, <2>1, <2>2 DEF ServedIsRecent
      <3> QED BY <2>1, <2>2, <3>1, HadStays
    <2>5. n \in 0 .. Schema(k)' BY <1>1, <2>2
    <2>6. served.now <= time' BY <1>2, <2>1
    <2> QED BY <2>3, <2>4, <2>5, <2>6, <2>2 DEF ServedIsRecent, Schema, HadSince
  <1> QED BY <1>4, <1>5, <1>6 DEF CacheInv

LEMMA CacheTickKeeps == ASSUME CacheInv, CacheTick PROVE CacheInv'
  <1>0. CacheTypeOK /\ ReplacedBefore BY DEF CacheInv
  <1>1. /\ time \in Nat /\ \A k \in Keys : Schema(k) \in Nat /\ Schema(k)' = Schema(k)
        /\ \A k \in Keys : \A n \in 1 .. Schema(k) : replaced[k][n] \in Nat
    BY <1>0, CacheShape DEF CacheTick, Schema
  <1>2. CacheTypeOK' BY <1>0 DEF CacheTypeOK, CacheTick
  <1>3. replaced' = replaced /\ time' \in Nat /\ time' >= time BY <1>1 DEF CacheTick
  <1>4. \A k \in Keys : Schema(k)' # Schema(k) + 1 BY <1>1
  <1>5. SourceMoves BY <1>1, <1>3, <1>4 DEF SourceMoves
  <1>6. ReplacedBefore' BY <1>0, <1>1 DEF ReplacedBefore, CacheTick
  <1> QED BY <1>2, <1>5, <1>6, SourceMovesKeeps DEF CacheTick

LEMMA AlterSourceKeeps == ASSUME CacheInv, NEW k \in Keys, AlterSource(k) PROVE CacheInv'
  <1>0. CacheTypeOK /\ ReplacedBefore BY DEF CacheInv
  <1>1. /\ time \in Nat /\ replaced \in [Keys -> Seq(Nat)] /\ replaced[k] \in Seq(Nat)
        /\ \A j \in Keys : Schema(j) \in Nat
    BY <1>0, CacheShape DEF CacheTypeOK
  <1>2. replaced' = [replaced EXCEPT ![k] = Append(replaced[k], time)]
        /\ UNCHANGED <<time, entries, reading, served>>
    BY DEF AlterSource
  <1> DEFINE a == Append(replaced[k], time)
  <1>3. /\ a \in Seq(Nat) /\ Len(a) = Len(replaced[k]) + 1
        /\ \A n \in 1 .. Len(replaced[k]) : a[n] = replaced[k][n]
        /\ a[Len(replaced[k]) + 1] = time
    BY <1>1, AppendProperties
  <1> HIDE DEF a
  <1>4. /\ replaced' \in [Keys -> Seq(Nat)] /\ replaced'[k] = a
        /\ \A j \in Keys \ {k} : replaced'[j] = replaced[j]
    BY <1>1, <1>2, <1>3 DEF a
  <1>5. CacheTypeOK' BY <1>0, <1>2, <1>4 DEF CacheTypeOK
  <1>6. SourceMoves
    <2>1. ASSUME NEW j \in Keys
          PROVE  /\ Schema(j)' \in {Schema(j), Schema(j) + 1}
                 /\ \A n \in 1 .. Schema(j) : replaced'[j][n] = replaced[j][n]
                 /\ Schema(j)' = Schema(j) + 1 => replaced'[j][Schema(j) + 1] = time
      <3>1. CASE j = k BY <1>3, <1>4, <3>1 DEF Schema
      <3>2. CASE j # k BY <1>1, <1>4, <3>2 DEF Schema
      <3> QED BY <3>1, <3>2
    <2>2. time' \in Nat /\ time' >= time BY <1>1, <1>2
    <2> QED BY <2>1, <2>2 DEF SourceMoves
  <1>7. ReplacedBefore'
    <2> SUFFICES ASSUME NEW j \in Keys, NEW n \in 1 .. Schema(j)' PROVE replaced'[j][n] <= time
      BY <1>2 DEF ReplacedBefore, Schema
    <2>1. CASE n \in 1 .. Schema(j) BY <1>0, <1>6, <2>1 DEF ReplacedBefore, SourceMoves
    <2>2. CASE n \notin 1 .. Schema(j)
      <3>1. n = Schema(j) + 1 /\ Schema(j)' = Schema(j) + 1 BY <1>1, <1>6, <2>2 DEF SourceMoves
      <3> QED BY <1>1, <1>6, <3>1 DEF SourceMoves
    <2> QED BY <2>1, <2>2
  <1> QED BY <1>2, <1>5, <1>6, <1>7, SourceMovesKeeps

LEMMA HitKeeps == ASSUME CacheInv, NEW r \in Readers, NEW k \in Keys, Hit(r, k) PROVE CacheInv'
  <1> DEFINE e == entries[k]
             call == [key |-> k, forced |-> FALSE, now |-> time, catalog |-> e.catalog]
  <1>0. CacheTypeOK /\ EntriesShown BY DEF CacheInv
  <1>1. /\ e # NoEntry /\ time - e.fetchedAt < TTL /\ served' = call
        /\ UNCHANGED <<time, replaced, entries, reading>>
    BY DEF Hit, Fresh
  <1>2. /\ time \in Nat /\ e.catalog \in Nat /\ e.fetchedAt \in Nat /\ Schema(k) \in Nat
        /\ \A n \in 1 .. Schema(k) : replaced[k][n] \in Nat
    BY <1>0, <1>1, CacheShape
  <1>3. call \in Calls /\ call.key = k /\ ~ call.forced /\ call.now = time
        /\ call.catalog = e.catalog
    BY <1>2 DEF Calls
  <1>4. e.catalog \in 0 .. Schema(k) /\ HadSince(k, e.catalog, e.fetchedAt)
    BY <1>0, <1>1 DEF EntriesShown, Shown
  <1> HIDE DEF call, e
  <1>5. HadSince(k, e.catalog, time - TTL + 1)
    <2> SUFFICES ASSUME e.catalog < Schema(k)
                 PROVE  replaced[k][e.catalog + 1] >= time - TTL + 1
      BY DEF HadSince
    <2>1. e.catalog + 1 \in 1 .. Schema(k) BY <1>2
    <2>2. replaced[k][e.catalog + 1] >= e.fetchedAt BY <1>4 DEF HadSince
    <2>3. replaced[k][e.catalog + 1] \in Nat BY <1>2, <2>1
    <2> QED BY <1>1, <1>2, <2>2, <2>3
  <1>6. CacheTypeOK' BY <1>0, <1>1, <1>3 DEF CacheTypeOK
  <1>7. ServedIsRecent' BY <1>1, <1>3, <1>4, <1>5 DEF ServedIsRecent, HadSince, Schema
  <1>8. ReplacedBefore' /\ EntriesShown' /\ ReadingsShown'
    BY <1>1 DEF CacheInv, ReplacedBefore, EntriesShown, ReadingsShown, Shown, HadSince, Schema
  <1> QED BY <1>1, <1>2, <1>3, <1>6, <1>7, <1>8 DEF CacheInv

(* A call begins, is answered, or fails.                                   *)
LEMMA ReadingKeeps ==
  ASSUME CacheInv, NEW r \in Readers, NEW w \in Calls \cup {NoEntry},
         reading' = [reading EXCEPT ![r] = w], UNCHANGED <<time, replaced, entries, served>>,
         w # NoEntry =>
           /\ w.now <= time
           /\ w.catalog # NoEntry => Shown(w.key, w.catalog, w.now)
  PROVE  CacheInv'
  <1>1. CacheTypeOK' BY DEF CacheInv, CacheTypeOK
  <1>2. reading'[r] = w /\ \A q \in Readers \ {r} : reading'[q] = reading[q]
    BY DEF CacheInv, CacheTypeOK
  <1>3. ReadingsShown'
    <2> SUFFICES ASSUME NEW q \in Readers, reading'[q] # NoEntry
                 PROVE  /\ reading'[q].now <= time
                        /\ reading'[q].catalog # NoEntry =>
                             Shown(reading'[q].key, reading'[q].catalog, reading'[q].now)
      BY DEF ReadingsShown, Shown, HadSince, Schema
    <2>1. CASE q = r BY <1>2, <2>1
    <2>2. CASE q # r
      <3>1. reading'[q] = reading[q] BY <1>2, <2>2
      <3> QED BY <3>1 DEF CacheInv, ReadingsShown
    <2> QED BY <2>1, <2>2
  <1>4. ReplacedBefore' /\ EntriesShown' /\ ServedIsRecent'
    BY DEF CacheInv, ReplacedBefore, EntriesShown, ServedIsRecent, Shown, HadSince, Schema
  <1> QED BY <1>1, <1>3, <1>4 DEF CacheInv

LEMMA CallsKeep ==
  ASSUME CacheInv, NEW r \in Readers,
         \/ \E k \in Keys, forced \in BOOLEAN : Miss(r, k, forced)
         \/ Introspect(r) \/ IntrospectFails(r)
  PROVE  CacheInv'
  <1>0. CacheTypeOK /\ ReadingsShown BY DEF CacheInv
  <1>1. ASSUME NEW k \in Keys, NEW forced \in BOOLEAN, Miss(r, k, forced) PROVE CacheInv'
    <2> DEFINE w == [key |-> k, forced |-> forced, now |-> time, catalog |-> NoEntry]
    <2>1. /\ w \in Calls /\ w.now = time /\ w.catalog = NoEntry
          /\ reading' = [reading EXCEPT ![r] = w] /\ UNCHANGED <<time, replaced, entries, served>>
      BY <1>0, <1>1 DEF Miss, Calls, CacheTypeOK
    <2>2. time <= time BY <1>0, CacheShape
    <2> HIDE DEF w
    <2> QED BY <2>1, <2>2, ReadingKeeps
  <1>2. CASE Introspect(r)
    <2> DEFINE c == reading[r]
               w == [c EXCEPT !.catalog = Schema(c.key)]
    <2>1. c \in Calls /\ c.key \in Keys /\ c.now <= time /\ Schema(c.key) \in Nat
      BY <1>0, <1>2, CacheShape DEF Introspect, ReadingsShown
    <2>2. /\ w \in Calls /\ w.now = c.now /\ w.key = c.key /\ w.catalog = Schema(c.key)
      BY <2>1 DEF Calls
    <2>3. reading' = [reading EXCEPT ![r] = w] /\ UNCHANGED <<time, replaced, entries, served>>
      BY <1>0, <1>2 DEF Introspect, CacheTypeOK
    <2>4. Shown(w.key, w.catalog, w.now) BY <2>1, <2>2 DEF Shown, HadSince
    <2> HIDE DEF w
    <2> QED BY <2>1, <2>2, <2>3, <2>4, ReadingKeeps
  <1>3. CASE IntrospectFails(r) BY <1>3, ReadingKeeps DEF IntrospectFails
  <1> QED BY <1>1, <1>2, <1>3

LEMMA StoreKeeps == ASSUME CacheInv, NEW r \in Readers, Store(r) PROVE CacheInv'
  <1> DEFINE c == reading[r]
             e == [catalog |-> c.catalog, fetchedAt |-> c.now]
  <1>0. /\ CacheTypeOK /\ ReplacedBefore /\ EntriesShown /\ ReadingsShown
        /\ c # NoEntry /\ c.catalog # NoEntry
    BY DEF CacheInv, Store, Read
  <1>1. c \in Calls /\ c.key \in Keys /\ c.now \in Nat /\ c.catalog \in Nat /\ c.now <= time
        /\ Shown(c.key, c.catalog, c.now)
    BY <1>0, CacheShape DEF ReadingsShown
  <1>2. /\ entries' = [entries EXCEPT ![c.key] = e] /\ served' = c
        /\ reading' = [reading EXCEPT ![r] = NoEntry] /\ UNCHANGED <<time, replaced>>
    BY DEF Store
  <1>3. e \in Entries /\ e.catalog = c.catalog /\ e.fetchedAt = c.now BY <1>1 DEF Entries
  <1>4. time \in Nat /\ Schema(c.key) \in Nat
        /\ \A n \in 1 .. Schema(c.key) : replaced[c.key][n] \in Nat
    BY <1>0, <1>1, CacheShape
  <1> HIDE DEF c, e
  <1>5. CacheTypeOK' BY <1>0, <1>1, <1>2, <1>3 DEF CacheTypeOK
  <1>6. EntriesShown'
    <2>1. entries'[c.key] = e /\ \A k \in Keys \ {c.key} : entries'[k] = entries[k]
      BY <1>0, <1>1, <1>2 DEF CacheTypeOK
    <2> QED BY <1>0, <1>1, <1>2, <1>3, <2>1 DEF EntriesShown, Shown, HadSince, Schema
  <1>7. ReadingsShown'
    <2>1. \A q \in Readers : reading'[q] = NoEntry \/ reading'[q] = reading[q]
      BY <1>0, <1>2 DEF CacheTypeOK
    <2> QED BY <1>0, <1>2, <2>1 DEF ReadingsShown, Shown, HadSince, Schema
  <1>8. HadSince(c.key, c.catalog, c.now) /\ c.catalog \in 0 .. Schema(c.key)
    BY <1>1 DEF Shown
  <1>9. HadSince(c.key, c.catalog, c.now - TTL + 1)
    <2> SUFFICES ASSUME c.catalog < Schema(c.key)
                 PROVE  replaced[c.key][c.catalog + 1] >= c.now - TTL + 1
      BY DEF HadSince
    <2>1. c.catalog + 1 \in 1 .. Schema(c.key) BY <1>1, <1>4
    <2>2. replaced[c.key][c.catalog + 1] >= c.now BY <1>8 DEF HadSince
    <2>3. replaced[c.key][c.catalog + 1] \in Nat BY <1>4, <2>1
    <2> QED BY <1>1, <2>2, <2>3
  <1>10. ServedIsRecent' BY <1>2, <1>8, <1>9 DEF ServedIsRecent, HadSince, Schema
  <1>11. ReplacedBefore' BY <1>0, <1>2 DEF ReplacedBefore, Schema
  <1> QED BY <1>1, <1>2, <1>5, <1>6, <1>7, <1>10, <1>11 DEF CacheInv

LEMMA CacheNextInv == CacheInv /\ [CacheNext]_cacheVars => CacheInv'
  <1> SUFFICES ASSUME CacheInv, [CacheNext]_cacheVars PROVE CacheInv' OBVIOUS
  <1>1. CASE UNCHANGED cacheVars
    BY <1>1 DEF cacheVars, CacheInv, CacheTypeOK, ReplacedBefore, EntriesShown, ReadingsShown,
                ServedIsRecent, Shown, HadSince, Schema
  <1> QED BY <1>1, CacheTickKeeps, AlterSourceKeeps, HitKeeps, CallsKeep, StoreKeeps DEF CacheNext

(* However calls overlap and schemas change, what is served is recent.     *)
THEOREM ServedIsAlwaysRecent == CacheSpec => []ServedIsRecent
  <1>1. CacheInv => ServedIsRecent BY DEF CacheInv
  <1> QED BY <1>1, CacheInitInv, CacheNextInv, PTL DEF CacheSpec

HIDE SchemaCacheAssumption

(***************************************************************************)
(* Conversations.  A question that is recorded waits for its answer, and   *)
(* nothing of a request is recorded once it is answered.                   *)
(***************************************************************************)

USE ConversationsAssumption

Count(r, role) == Cardinality(Of(r, role))

Shows(r, kind) == \E n \in Of(r, "assistant") : messages[n].kind = kind

Ended == {"replied", "failed", "left"}

(* Only while the answer is recorded is there a question more.             *)
QuestionsCounted == \A r \in Asked :
  /\ ask[r].at = "answer" => Count(r, "user") = Count(r, "assistant") + 1
  /\ ask[r].at \notin Ended \cup {"answer"} => Count(r, "user") = Count(r, "assistant")

PlaceholderShown == \A r \in Asked :
  ask[r].endpoint = "stream" /\ ask[r].at \in {"history", "analyse", "plan"}
    => ask[r].kind = "placeholder" /\ Shows(r, "placeholder")

(* What was answered before a request began is all within what it read, or *)
(* before that.                                                            *)
HistoryHeld == \A r \in Asked :
  /\ \A q \in ask[r].earlier : ask[q].at = "replied"
  /\ ask[r].history # NoHistory =>
       /\ ask[r].history[2] \in 1 .. Len(messages)
       /\ ask[r].history = LastMessages(ask[r].history[2])
       /\ \A q \in ask[r].earlier : \A m \in Of(q, "assistant") : m <= ask[r].history[2]

ConvInv ==
  ConvTypeOK /\ QuestionsCounted /\ PlaceholderShown /\ HistoryHeld /\ TurnsRecorded

LEMMA ConvShape ==
  ASSUME ConvTypeOK
  PROVE  /\ Len(messages) \in Nat /\ DOMAIN messages = 1 .. Len(messages)
         /\ \A n \in 1 .. Len(messages) : messages[n] \in Messages
         /\ \A r \in Asked : ask[r] \in Progress
         /\ \A r, role : Of(r, role) \subseteq 1 .. Len(messages) /\ IsFiniteSet(Of(r, role))
  <1>1. /\ Len(messages) \in Nat /\ DOMAIN messages = 1 .. Len(messages)
        /\ \A n \in 1 .. Len(messages) : messages[n] \in Messages
    BY DEF ConvTypeOK
  <1>2. IsFiniteSet(1 .. Len(messages)) BY <1>1, FS_Interval
  <1>3. \A r, role : Of(r, role) \subseteq 1 .. Len(messages) BY <1>1 DEF Of
  <1>4. \A r, role : IsFiniteSet(Of(r, role)) BY <1>2, <1>3, FS_Subset
  <1> QED BY <1>1, <1>3, <1>4 DEF ConvTypeOK

LEMMA ConvInitInv == ConvInit => ConvInv
  <1> SUFFICES ASSUME ConvInit PROVE ConvInv OBVIOUS
  <1>1. messages = <<>> /\ messages \in Seq(Messages) BY EmptySeq DEF ConvInit
  <1>2. \A r, role : Of(r, role) = {} BY <1>1 DEF Of
  <1>3. ConvTypeOK BY <1>1 DEF ConvInit, ConvTypeOK, Progress, Kinds
  <1>4. Cardinality({}) = 0 BY FS_EmptySet
  <1>5. \A r \in Asked : ask[r].at = "new" /\ ask[r].history = NoHistory /\ ask[r].earlier = {}
    BY DEF ConvInit
  <1>6. TurnsRecorded BY <1>2, <1>5 DEF TurnsRecorded
  <1> QED BY <1>2, <1>3, <1>4, <1>5, <1>6
      DEF ConvInv, QuestionsCounted, PlaceholderShown, HistoryHeld, Count, Ended

(* A request goes on without recording anything.                           *)
LEMMA ProgressKeeps ==
  ASSUME ConvInv, NEW r \in Asked, NEW w \in Progress,
         ask' = [ask EXCEPT ![r] = w], UNCHANGED messages,
         ask[r].at # "replied", w.at # "answer",
         w.at \notin Ended => ask[r].at \notin Ended \cup {"answer"},
         w.endpoint = "stream" /\ w.at \in {"history", "analyse", "plan"}
           => w.kind = "placeholder" /\ Shows(r, "placeholder"),
         w.at = "replied" => Shows(r, w.kind),
         \A q \in w.earlier : ask[q].at = "replied",
         w.history # NoHistory =>
           /\ w.history[2] \in 1 .. Len(messages)
           /\ w.history = LastMessages(w.history[2])
           /\ \A q \in w.earlier : \A m \in Of(q, "assistant") : m <= w.history[2]
  PROVE  ConvInv'
  <1>0. ConvTypeOK /\ QuestionsCounted /\ PlaceholderShown /\ HistoryHeld /\ TurnsRecorded
    BY DEF ConvInv
  <1>1. ConvTypeOK' BY <1>0 DEF ConvTypeOK
  <1>2. ask'[r] = w /\ \A q \in Asked \ {r} : ask'[q] = ask[q] BY <1>0 DEF ConvTypeOK
  <1>3. /\ \A q, role : Of(q, role)' = Of(q, role) /\ Count(q, role)' = Count(q, role)
        /\ \A q, kind : Shows(q, kind)' = Shows(q, kind)
    BY DEF Of, Count, Shows
  <1>4. QuestionsCounted' BY <1>0, <1>2, <1>3 DEF QuestionsCounted, Ended
  <1>5. PlaceholderShown' BY <1>0, <1>2, <1>3 DEF PlaceholderShown
  <1>6. HistoryHeld'
    <2>1. \A q \in Asked : ask[q].at = "replied" => ask'[q].at = "replied" BY <1>2
    <2>2. \A q \in Asked : ask[q].earlier \subseteq Asked
      BY <1>0, ConvShape DEF Progress
    <2>3. w.earlier \subseteq Asked BY DEF Progress
    <2> QED BY <1>0, <1>2, <1>3, <2>1, <2>2, <2>3 DEF HistoryHeld
  <1>7. TurnsRecorded'
    <2>1. \A q \in Asked : ask'[q].at = "replied" => Shows(q, ask'[q].kind)
      BY <1>0, <1>2 DEF TurnsRecorded, Shows
    <2> QED BY <1>0, <1>3, <2>1 DEF TurnsRecorded, Of, Shows
  <1> QED BY <1>1, <1>4, <1>5, <1>6, <1>7 DEF ConvInv

LEMMA BeginAskKeeps ==
  ASSUME ConvInv, NEW r \in Asked, NEW endpoint \in {"ask", "stream"}, NEW complex \in BOOLEAN,
         BeginAsk(r, endpoint, complex)
  PROVE  ConvInv'
  <1> DEFINE w == [at |-> IF endpoint = "ask" THEN "history" ELSE "user",
                   endpoint |-> endpoint, complex |-> complex,
                   kind |-> IF endpoint = "ask" THEN "result" ELSE "placeholder",
                   history |-> NoHistory, earlier |-> {q \in Asked : ask[q].at = "replied"}]
  <1>1. /\ w \in Progress /\ w.history = NoHistory /\ w.endpoint = endpoint
        /\ w.at = IF endpoint = "ask" THEN "history" ELSE "user"
        /\ w.earlier = {q \in Asked : ask[q].at = "replied"}
    BY DEF Progress, Kinds
  <1>2. ask[r].at = "new" /\ ask' = [ask EXCEPT ![r] = w] /\ UNCHANGED messages
    BY DEF BeginAsk
  <1> HIDE DEF w
  <1> QED BY <1>1, <1>2, ProgressKeeps DEF Ended

LEMMA ReadHistoryKeeps == ASSUME ConvInv, NEW r \in Asked, ReadHistory(r) PROVE ConvInv'
  <1>0. ConvTypeOK /\ PlaceholderShown /\ HistoryHeld BY DEF ConvInv
  <1>1. PICK history \in {NoHistory, LastMessages(Len(messages))} :
          /\ messages = <<>> => history = NoHistory
          /\ ask' = [ask EXCEPT ![r].history = history,
                                ![r].at = IF ask[r].complex THEN "analyse" ELSE "plan"]
    BY DEF ReadHistory
  <1> DEFINE c == ask[r]
             w == [c EXCEPT !.history = history, !.at = IF c.complex THEN "analyse" ELSE "plan"]
  <1>2. c \in Progress /\ c.at = "history" /\ Len(messages) \in Nat
    BY <1>0, ConvShape DEF ReadHistory
  <1>3. history # NoHistory =>
          /\ history \in Nat \X Nat /\ history[2] = Len(messages)
          /\ Len(messages) \in 1 .. Len(messages)
    <2> SUFFICES ASSUME history # NoHistory
                 PROVE  /\ history \in Nat \X Nat /\ history[2] = Len(messages)
                        /\ Len(messages) \in 1 .. Len(messages)
      OBVIOUS
    <2>1. history = LastMessages(Len(messages)) /\ messages # <<>> BY <1>1
    <2>2. Len(messages) # 0 BY <1>0, <2>1, EmptySeq DEF ConvTypeOK
    <2> QED BY <1>2, <2>1, <2>2 DEF LastMessages
  <1>4. /\ w \in Progress /\ w.history = history /\ w.endpoint = c.endpoint /\ w.kind = c.kind
        /\ w.at \in {"analyse", "plan"} /\ w.earlier = c.earlier
    BY <1>2, <1>3 DEF Progress
  <1>5. ask' = [ask EXCEPT ![r] = w] /\ UNCHANGED messages
    BY <1>0, <1>1 DEF ReadHistory, ConvTypeOK
  <1>6. history # NoHistory =>
          /\ history[2] \in 1 .. Len(messages)
          /\ history = LastMessages(history[2])
          /\ \A q \in c.earlier : \A m \in Of(q, "assistant") : m <= history[2]
    BY <1>0, <1>1, <1>2, <1>3, ConvShape
  <1>7. \A q \in c.earlier : ask[q].at = "replied" BY <1>0 DEF HistoryHeld
  <1>8. c.endpoint = "stream" => c.kind = "placeholder" /\ Shows(r, "placeholder")
    BY <1>0, <1>2 DEF PlaceholderShown
  <1> HIDE DEF w
  <1> QED BY <1>2, <1>4, <1>5, <1>6, <1>7, <1>8, ProgressKeeps DEF Ended

(* What a request that is not over may become without recording.           *)
LEMMA DecidingKeeps ==
  ASSUME ConvInv, NEW r \in Asked,
         Analysed(r) \/ AnalystDeclines(r) \/ Clarifies(r)
  PROVE  ConvInv'
  <1>0. ConvTypeOK /\ PlaceholderShown /\ HistoryHeld BY DEF ConvInv
  <1> DEFINE c == ask[r]
  <1>1. c \in Progress /\ \A q \in c.earlier : ask[q].at = "replied"
    BY <1>0, ConvShape DEF HistoryHeld
  <1>2. c.history # NoHistory =>
          /\ c.history[2] \in 1 .. Len(messages)
          /\ c.history = LastMessages(c.history[2])
          /\ \A q \in c.earlier : \A m \in Of(q, "assistant") : m <= c.history[2]
    BY <1>0 DEF HistoryHeld
  <1>3. ASSUME NEW kind \in Kinds, Record(r, kind), UNCHANGED messages, c.at \in {"analyse", "plan"}
        PROVE  ConvInv'
    <2> DEFINE w == [c EXCEPT !.at = "user", !.kind = kind]
    <2>1. /\ w \in Progress /\ w.at = "user" /\ w.history = c.history /\ w.earlier = c.earlier
      BY <1>1 DEF Progress
    <2>2. ask' = [ask EXCEPT ![r] = w] BY <1>0, <1>3 DEF Record, ConvTypeOK
    <2> HIDE DEF w
    <2> QED BY <1>1, <1>2, <1>3, <2>1, <2>2, ProgressKeeps DEF Ended
  <1>4. CASE Analysed(r) BY <1>3, <1>4 DEF Analysed, Kinds
  <1>5. CASE Clarifies(r) BY <1>3, <1>5 DEF Clarifies, Kinds
  <1>6. CASE AnalystDeclines(r)
    <2> DEFINE w == [c EXCEPT !.complex = FALSE,
                              !.at = IF c.endpoint = "ask" THEN "plan" ELSE "history"]
    <2>1. /\ w \in Progress /\ w.at \in {"plan", "history"} /\ w.history = c.history
          /\ w.earlier = c.earlier /\ w.endpoint = c.endpoint /\ w.kind = c.kind
      BY <1>1 DEF Progress
    <2>2. ask' = [ask EXCEPT ![r] = w] /\ UNCHANGED messages /\ c.at = "analyse"
      BY <1>0, <1>6 DEF AnalystDeclines, ConvTypeOK
    <2>3. c.endpoint = "stream" => c.kind = "placeholder" /\ Shows(r, "placeholder")
      BY <1>0, <2>2 DEF PlaceholderShown
    <2> HIDE DEF w
    <2> QED BY <1>1, <1>2, <2>1, <2>2, <2>3, ProgressKeeps DEF Ended
  <1> QED BY <1>4, <1>5, <1>6

LEMMA EndKeeps ==
  ASSUME ConvInv, NEW r \in Asked, NEW at \in Ended, End(r, at), UNCHANGED messages,
         ask[r].at # "replied", at = "replied" => Shows(r, ask[r].kind)
  PROVE  ConvInv'
  <1> DEFINE c == ask[r]
             w == [c EXCEPT !.at = at, !.complex = FALSE, !.history = NoHistory, !.earlier = {}]
  <1>1. c \in Progress BY ConvShape DEF ConvInv
  <1>2. /\ w \in Progress /\ w.at = at /\ w.history = NoHistory /\ w.earlier = {}
        /\ w.kind = c.kind
    BY <1>1 DEF Progress, Ended
  <1>3. ask' = [ask EXCEPT ![r] = w] BY DEF End, ConvInv, ConvTypeOK
  <1>4. w.at \notin {"answer", "history", "analyse", "plan"} /\ w.at \in Ended BY <1>2 DEF Ended
  <1> HIDE DEF w
  <1> QED BY <1>2, <1>3, <1>4, ProgressKeeps

LEMMA EndingKeeps ==
  ASSUME ConvInv, NEW r \in Asked, Answers(r) \/ AskFails(r) \/ Leave(r)
  PROVE  ConvInv'
  <1>0. ConvTypeOK /\ PlaceholderShown /\ HistoryHeld BY DEF ConvInv
  <1>1. ask[r] \in Progress BY <1>0, ConvShape
  <1>2. CASE Answers(r)
    <2>1. CASE ask[r].endpoint = "ask"
      <3> DEFINE c == ask[r]
                 w == [c EXCEPT !.at = "user", !.kind = "result"]
      <3>1. /\ w \in Progress /\ w.at = "user" /\ w.history = c.history /\ w.earlier = c.earlier
        BY <1>1 DEF Progress, Kinds
      <3>2. ask' = [ask EXCEPT ![r] = w] /\ c.at = "plan" /\ UNCHANGED messages
        BY <1>0, <1>2, <2>1 DEF Answers, Record, ConvTypeOK
      <3>3. /\ \A q \in c.earlier : ask[q].at = "replied"
            /\ c.history # NoHistory =>
                 /\ c.history[2] \in 1 .. Len(messages)
                 /\ c.history = LastMessages(c.history[2])
                 /\ \A q \in c.earlier : \A m \in Of(q, "assistant") : m <= c.history[2]
        BY <1>0 DEF HistoryHeld
      <3> HIDE DEF w
      <3> QED BY <3>1, <3>2, <3>3, ProgressKeeps DEF Ended
    <2>2. CASE ask[r].endpoint # "ask"
      <3>1. ask[r].endpoint = "stream" /\ ask[r].at = "plan" BY <1>1, <1>2, <2>2 DEF Answers, Progress
      <3>2. Shows(r, ask[r].kind) BY <1>0, <3>1 DEF PlaceholderShown
      <3> QED BY <1>2, <2>2, <3>1, <3>2, EndKeeps DEF Answers, Ended
    <2> QED BY <2>1, <2>2
  <1>3. CASE AskFails(r) BY <1>3, EndKeeps DEF AskFails, Over, Ended
  <1>4. CASE Leave(r) BY <1>4, EndKeeps DEF Leave, Streaming, Over, Ended
  <1> QED BY <1>2, <1>3, <1>4

(* A message is appended: what was said stays where it was.                *)
LEMMA SaidStays ==
  ASSUME ConvTypeOK, NEW m \in Messages, messages' = Append(messages, m)
  PROVE  /\ messages' \in Seq(Messages) /\ Len(messages') = Len(messages) + 1
         /\ \A q, role : Of(q, role)' = Of(q, role) \cup
              (IF m.of = q /\ m.role = role THEN {Len(messages) + 1} ELSE {})
         /\ \A n \in 1 .. Len(messages) : messages'[n] = messages[n]
         /\ messages'[Len(messages) + 1] = m
  <1>1. /\ messages' \in Seq(Messages) /\ Len(messages') = Len(messages) + 1
        /\ \A n \in 1 .. Len(messages) : messages'[n] = messages[n]
        /\ messages'[Len(messages) + 1] = m
    BY AppendProperties DEF ConvTypeOK
  <1>2. /\ Len(messages) \in Nat /\ DOMAIN messages = 1 .. Len(messages)
        /\ DOMAIN messages' = 1 .. Len(messages) + 1
    BY <1>1 DEF ConvTypeOK
  <1>3. ASSUME NEW q, NEW role
        PROVE  Of(q, role)' = Of(q, role) \cup
                 (IF m.of = q /\ m.role = role THEN {Len(messages) + 1} ELSE {})
    BY <1>1, <1>2 DEF Of
  <1> QED BY <1>1, <1>3

(* What was counted up to a message does not change with another.          *)
LEMMA CountsStay ==
  ASSUME ConvTypeOK, NEW m \in Messages, messages' = Append(messages, m), NEW q, NEW role
  PROVE  /\ Count(q, role) \in Nat
         /\ Count(q, role)' = IF m.of = q /\ m.role = role THEN Count(q, role) + 1
                                                          ELSE Count(q, role)
         /\ \A n \in 1 .. Len(messages) :
              /\ {k \in Of(q, role) : k < n}' = {k \in Of(q, role) : k < n}
              /\ {k \in Of(q, role) : k <= n}' = {k \in Of(q, role) : k <= n}
  <1>1. /\ Len(messages) \in Nat /\ Len(messages) + 1 \notin 1 .. Len(messages)
        /\ IsFiniteSet(Of(q, role)) /\ Of(q, role) \subseteq 1 .. Len(messages)
    BY ConvShape
  <1>2. Of(q, role)' = Of(q, role) \cup
          (IF m.of = q /\ m.role = role THEN {Len(messages) + 1} ELSE {})
    BY SaidStays
  <1>3. Count(q, role) \in Nat BY <1>1, FS_CardinalityType DEF Count
  <1>4. Count(q, role)' = IF m.of = q /\ m.role = role THEN Count(q, role) + 1
                                                       ELSE Count(q, role)
    <2>1. Len(messages) + 1 \notin Of(q, role) BY <1>1
    <2>2. Cardinality(Of(q, role) \cup {Len(messages) + 1}) = Cardinality(Of(q, role)) + 1
      BY <1>1, <2>1, FS_AddElement
    <2>3. Cardinality(Of(q, role) \cup {}) = Cardinality(Of(q, role))
      <3>1. Of(q, role) \cup {} = Of(q, role) OBVIOUS
      <3> QED BY <3>1
    <2> QED BY <1>2, <2>2, <2>3 DEF Count
  <1>5. ASSUME NEW n \in 1 .. Len(messages)
        PROVE  /\ {k \in Of(q, role) : k < n}' = {k \in Of(q, role) : k < n}
               /\ {k \in Of(q, role) : k <= n}' = {k \in Of(q, role) : k <= n}
    BY <1>1, <1>2
  <1> QED BY <1>3, <1>4, <1>5

LEMMA HistoryStays ==
  ASSUME ConvInv, NEW r \in Asked, NEW w \in Progress, NEW m \in Messages, m.of = r,
         messages' = Append(messages, m), ask' = [ask EXCEPT ![r] = w],
         ask[r].at # "replied",
         \/ w.history = NoHistory /\ w.earlier = {}
         \/ w.history = ask[r].history /\ w.earlier = ask[r].earlier
  PROVE  HistoryHeld'
  <1>0. ConvTypeOK /\ HistoryHeld BY DEF ConvInv
  <1>1. ask'[r] = w /\ \A q \in Asked \ {r} : ask'[q] = ask[q] BY <1>0 DEF ConvTypeOK
  <1>2. Len(messages) \in Nat /\ Len(messages') = Len(messages) + 1 BY <1>0, ConvShape, SaidStays
  <1>3. \A p \in Asked : ask[p] \in Progress /\ ask[p].earlier \subseteq Asked
    BY <1>0, ConvShape DEF Progress
  <1>4. ASSUME NEW p \in Asked
        PROVE  /\ \A q \in ask[p].earlier : ask'[q].at = "replied"
               /\ ask[p].history # NoHistory =>
                    /\ ask[p].history[2] \in 1 .. Len(messages')
                    /\ ask[p].history = LastMessages(ask[p].history[2])
                    /\ \A q \in ask[p].earlier :
                         \A n \in Of(q, "assistant")' : n <= ask[p].history[2]
    <2>1. \A q \in ask[p].earlier : q \in Asked /\ q # r /\ ask[q].at = "replied"
      BY <1>0, <1>3 DEF HistoryHeld
    <2>2. \A q \in ask[p].earlier : Of(q, "assistant")' = Of(q, "assistant")
      <3> SUFFICES ASSUME NEW q \in ask[p].earlier
                   PROVE  Of(q, "assistant")' = Of(q, "assistant")
        OBVIOUS
      <3>1. Of(q, "assistant")' = Of(q, "assistant") \cup
              (IF m.of = q /\ m.role = "assistant" THEN {Len(messages) + 1} ELSE {})
        BY <1>0, SaidStays
      <3> QED BY <2>1, <3>1
    <2>3. \A q \in ask[p].earlier : ask'[q].at = "replied" BY <1>1, <2>1
    <2>4. ask[p].history # NoHistory =>
            /\ ask[p].history[2] \in 1 .. Len(messages)
            /\ ask[p].history = LastMessages(ask[p].history[2])
            /\ \A q \in ask[p].earlier : \A n \in Of(q, "assistant") : n <= ask[p].history[2]
      BY <1>0 DEF HistoryHeld
    <2> QED BY <1>2, <2>2, <2>3, <2>4
  <1>5. ASSUME NEW p \in Asked
        PROVE  \/ ask'[p].history = NoHistory /\ ask'[p].earlier = {}
               \/ ask'[p].history = ask[p].history /\ ask'[p].earlier = ask[p].earlier
    BY <1>1
  <1> QED BY <1>4, <1>5 DEF HistoryHeld

LEMMA RecordQuestionKeeps == ASSUME ConvInv, NEW r \in Asked, RecordQuestion(r) PROVE ConvInv'
  <1> DEFINE c == ask[r]
             w == [c EXCEPT !.at = "answer"]
             m == [of |-> r, role |-> "user", kind |-> "question"]
  <1>0. ConvTypeOK /\ QuestionsCounted /\ PlaceholderShown /\ HistoryHeld /\ TurnsRecorded
    BY DEF ConvInv
  <1>1. c \in Progress /\ c.at = "user" BY <1>0, ConvShape DEF RecordQuestion
  <1>2. /\ w \in Progress /\ w.at = "answer" /\ w.history = c.history /\ w.earlier = c.earlier
        /\ w.kind = c.kind
    BY <1>1 DEF Progress
  <1>3. m \in Messages /\ m.of = r /\ m.role = "user" BY DEF Messages
  <1>4. messages' = Append(messages, m) /\ ask' = [ask EXCEPT ![r] = w]
    BY <1>0 DEF RecordQuestion, Move, ConvTypeOK
  <1> HIDE DEF c, w, m
  <1>5. ConvTypeOK' BY <1>0, <1>2, <1>3, <1>4, SaidStays DEF ConvTypeOK
  <1>6. ask'[r] = w /\ \A q \in Asked \ {r} : ask'[q] = ask[q]
    BY <1>0, <1>4 DEF ConvTypeOK
  <1>7. HistoryHeld' BY <1>1, <1>2, <1>3, <1>4, HistoryStays DEF c
  <1>8. \A q \in Asked : /\ Count(q, "assistant") \in Nat /\ Count(q, "user") \in Nat
                         /\ Count(q, "assistant")' = Count(q, "assistant")
                         /\ Count(q, "user")' = IF q = r THEN Count(q, "user") + 1
                                                         ELSE Count(q, "user")
    BY <1>0, <1>3, <1>4, CountsStay
  <1>9. QuestionsCounted'
    BY <1>0, <1>1, <1>2, <1>6, <1>8 DEF QuestionsCounted, Ended, c
  <1>10. \A q \in Asked : Of(q, "assistant")' = Of(q, "assistant")
    <2> SUFFICES ASSUME NEW q \in Asked PROVE Of(q, "assistant")' = Of(q, "assistant") OBVIOUS
    <2>1. Of(q, "assistant")' = Of(q, "assistant") \cup {} BY <1>0, <1>3, <1>4, SaidStays
    <2> QED BY <2>1
  <1>11. \A q \in Asked : \A n \in Of(q, "assistant") :
           n \in 1 .. Len(messages) /\ messages'[n] = messages[n]
    BY <1>0, <1>3, <1>4, ConvShape, SaidStays
  <1>12. \A q \in Asked : \A kind : Shows(q, kind)' = Shows(q, kind) BY <1>10, <1>11 DEF Shows
  <1>13. PlaceholderShown' BY <1>0, <1>2, <1>6, <1>12 DEF PlaceholderShown
  <1>14. TurnsRecorded'
    <2>1. ASSUME NEW q \in Asked, NEW n \in Of(q, "assistant")
          PROVE  Cardinality({k \in Of(q, "user") : k < n})'
                   = Cardinality({k \in Of(q, "assistant") : k <= n})'
      <3>1. /\ {k \in Of(q, "user") : k < n}' = {k \in Of(q, "user") : k < n}
            /\ {k \in Of(q, "assistant") : k <= n}' = {k \in Of(q, "assistant") : k <= n}
        BY <1>0, <1>3, <1>4, <1>11, CountsStay
      <3> QED BY <1>0, <3>1 DEF TurnsRecorded
    <2>2. \A q \in Asked : ask'[q].at = "replied" => Shows(q, ask'[q].kind)
      BY <1>0, <1>2, <1>6 DEF TurnsRecorded, Shows
    <2> QED BY <1>10, <1>12, <2>1, <2>2 DEF TurnsRecorded, Shows
  <1> QED BY <1>5, <1>7, <1>9, <1>13, <1>14 DEF ConvInv

LEMMA RecordAnswerKeeps == ASSUME ConvInv, NEW r \in Asked, RecordAnswer(r) PROVE ConvInv'
  <1>0. ConvTypeOK /\ QuestionsCounted /\ PlaceholderShown /\ HistoryHeld /\ TurnsRecorded
    BY DEF ConvInv
  <1>1. ask[r] \in Progress /\ ask[r].kind \in Kinds /\ Len(messages) \in Nat
    BY <1>0, ConvShape DEF Progress
  <1>2. PICK kind \in Kinds : kind = ask[r].kind BY <1>1
  <1>3. PICK l \in Nat : l = Len(messages) + 1 BY <1>1
  <1> DEFINE c == ask[r]
             w == IF kind = "placeholder" THEN [c EXCEPT !.at = "history"]
                  ELSE [c EXCEPT !.at = "replied", !.complex = FALSE,
                                 !.history = NoHistory, !.earlier = {}]
             m == [of |-> r, role |-> "assistant", kind |-> kind]
  <1>4. c.at = "answer" BY DEF RecordAnswer
  <1>5. /\ w \in Progress /\ w.kind = kind
        /\ w.at = IF kind = "placeholder" THEN "history" ELSE "replied"
        /\ \/ w.history = NoHistory /\ w.earlier = {}
           \/ w.history = c.history /\ w.earlier = c.earlier
    <2>1. CASE kind = "placeholder"
      <3>1. w = [c EXCEPT !.at = "history"] BY <2>1
      <3> HIDE DEF w
      <3> QED BY <1>1, <1>2, <2>1, <3>1 DEF Progress
    <2>2. CASE kind # "placeholder"
      <3>1. w = [c EXCEPT !.at = "replied", !.complex = FALSE, !.history = NoHistory,
                          !.earlier = {}]
        BY <2>2
      <3> HIDE DEF w
      <3> QED BY <1>1, <1>2, <2>2, <3>1 DEF Progress
    <2> QED BY <2>1, <2>2
  <1>6. m \in Messages /\ m.of = r /\ m.role = "assistant" /\ m.kind = kind
    BY DEF Messages
  <1>7. messages' = Append(messages, m) /\ ask' = [ask EXCEPT ![r] = w]
    BY <1>0, <1>2 DEF RecordAnswer, Move, End, ConvTypeOK
  <1>8. l \notin 1 .. Len(messages) /\ l > Len(messages) BY <1>1, <1>3
  <1> HIDE DEF c, w, m
  <1>9. ConvTypeOK' BY <1>0, <1>5, <1>6, <1>7, SaidStays DEF ConvTypeOK
  <1>10. ask'[r] = w /\ \A q \in Asked \ {r} : ask'[q] = ask[q]
    BY <1>0, <1>7 DEF ConvTypeOK
  <1>11. HistoryHeld' BY <1>4, <1>5, <1>6, <1>7, HistoryStays DEF c
  <1>12. \A q \in Asked : /\ Count(q, "assistant") \in Nat /\ Count(q, "user") \in Nat
                         /\ Count(q, "user")' = Count(q, "user")
                         /\ Count(q, "assistant")' = IF q = r THEN Count(q, "assistant") + 1
                                                              ELSE Count(q, "assistant")
    BY <1>0, <1>6, <1>7, CountsStay
  <1>13. QuestionsCounted'
    BY <1>0, <1>4, <1>5, <1>10, <1>12 DEF QuestionsCounted, Ended, c
  <1>14. ASSUME NEW q \in Asked
         PROVE  /\ Of(q, "user")' = Of(q, "user")
                /\ Of(q, "assistant")' = Of(q, "assistant") \cup (IF q = r THEN {l} ELSE {})
    <2>1. /\ Of(q, "user")' = Of(q, "user") \cup
               (IF m.of = q /\ m.role = "user" THEN {Len(messages) + 1} ELSE {})
          /\ Of(q, "assistant")' = Of(q, "assistant") \cup
               (IF m.of = q /\ m.role = "assistant" THEN {Len(messages) + 1} ELSE {})
      BY <1>0, <1>6, <1>7, SaidStays
    <2> QED BY <1>6, <1>3, <2>1
  <1>15. /\ messages'[l] = m
         /\ \A q \in Asked : \A n \in Of(q, "assistant") :
              n \in 1 .. Len(messages) /\ messages'[n] = messages[n]
    BY <1>0, <1>6, <1>7, <1>3, ConvShape, SaidStays
  <1>16. Shows(r, kind)' /\ \A q \in Asked : \A k : Shows(q, k) => Shows(q, k)'
    <2>1. \E n \in Of(r, "assistant")' : messages'[n].kind = kind
      BY <1>6, <1>14, <1>15
    <2>2. ASSUME NEW q \in Asked, NEW k, Shows(q, k) PROVE Shows(q, k)'
      BY <1>14, <1>15, <2>2 DEF Shows
    <2> QED BY <2>1, <2>2 DEF Shows
  <1>17. PlaceholderShown'
    <2> SUFFICES ASSUME NEW q \in Asked, ask'[q].endpoint = "stream",
                        ask'[q].at \in {"history", "analyse", "plan"}
                 PROVE  ask'[q].kind = "placeholder" /\ Shows(q, "placeholder")'
      BY DEF PlaceholderShown, Shows, Of
    <2>1. CASE q = r BY <1>5, <1>10, <1>16, <2>1
    <2>2. CASE q # r BY <1>0, <1>10, <1>16, <2>2 DEF PlaceholderShown
    <2> QED BY <2>1, <2>2
  <1>18. ASSUME NEW q \in Asked, NEW n \in Of(q, "assistant")'
         PROVE  Cardinality({k \in Of(q, "user") : k < n})'
                  = Cardinality({k \in Of(q, "assistant") : k <= n})'
    <2>1. CASE n \in 1 .. Len(messages)
      <3>1. n \in Of(q, "assistant") BY <1>8, <1>14, <2>1
      <3>2. /\ {k \in Of(q, "user") : k < n}' = {k \in Of(q, "user") : k < n}
            /\ {k \in Of(q, "assistant") : k <= n}' = {k \in Of(q, "assistant") : k <= n}
        BY <1>0, <1>6, <1>7, <2>1, CountsStay
      <3> QED BY <1>0, <3>1, <3>2 DEF TurnsRecorded
    <2>2. CASE n \notin 1 .. Len(messages)
      <3>1. q = r /\ n = l BY <1>14, <1>15, <2>2
      <3>2. /\ Of(r, "user") \subseteq 1 .. Len(messages)
            /\ Of(r, "assistant") \subseteq 1 .. Len(messages)
            /\ \A k \in 1 .. Len(messages) : k < l /\ k <= l
        BY <1>0, <1>1, <1>3, ConvShape
      <3>3. {k \in Of(r, "user") : k < l}' = Of(r, "user")' BY <1>14, <3>2
      <3>4. {k \in Of(r, "assistant") : k <= l}' = Of(r, "assistant")'
        <4>1. l <= l BY <1>3, <1>1
        <4> QED BY <1>14, <3>2, <4>1
      <3>5. Count(r, "user")' = Count(r, "assistant")'
        BY <1>0, <1>4, <1>12 DEF QuestionsCounted, c
      <3> QED BY <3>1, <3>3, <3>4, <3>5 DEF Count
    <2> QED BY <2>1, <2>2
  <1>19. TurnsRecorded'
    <2>1. ASSUME NEW q \in Asked, ask'[q].at = "replied"
          PROVE  \E n \in Of(q, "assistant")' : messages'[n].kind = ask'[q].kind
      <3>1. CASE q = r BY <1>5, <1>10, <1>16, <3>1 DEF Shows
      <3>2. CASE q # r
        <4>1. \E n \in Of(q, "assistant") : messages[n].kind = ask[q].kind
          BY <1>0, <1>10, <2>1, <3>2 DEF TurnsRecorded
        <4>2. ask'[q] = ask[q] BY <1>10, <3>2
        <4> QED BY <1>14, <1>15, <4>1, <4>2
      <3> QED BY <3>1, <3>2
    <2> QED BY <1>18, <2>1 DEF TurnsRecorded
  <1> QED BY <1>9, <1>11, <1>13, <1>17, <1>19 DEF ConvInv

LEMMA ConvNextInv == ConvInv /\ [ConvNext]_convVars => ConvInv'
  <1> SUFFICES ASSUME ConvInv, [ConvNext]_convVars PROVE ConvInv' OBVIOUS
  <1>1. CASE UNCHANGED convVars
    BY <1>1 DEF convVars, ConvInv, ConvTypeOK, QuestionsCounted, PlaceholderShown, HistoryHeld,
                TurnsRecorded, Count, Of, Shows
  <1> QED BY <1>1, BeginAskKeeps, ReadHistoryKeeps, DecidingKeeps, EndingKeeps,
             RecordQuestionKeeps, RecordAnswerKeeps DEF ConvNext

(* What is within a history, or before it, was read or pushed out of it.   *)
LEMMA HeardUpTo ==
  ASSUME ConvInv, NEW r \in Asked, ask[r].history # NoHistory,
         NEW n \in 1 .. Len(messages), n <= ask[r].history[2]
  PROVE  Heard(r, n)
  <1> DEFINE h == ask[r].history
  <1>0. ConvTypeOK /\ HistoryHeld BY DEF ConvInv
  <1>1. h[2] \in 1 .. Len(messages) /\ h = LastMessages(h[2]) /\ n <= h[2]
    BY <1>0 DEF HistoryHeld
  <1>2. h[1] = IF h[2] < HistoryTurns THEN 1 ELSE h[2] - HistoryTurns + 1
    BY <1>1 DEF LastMessages
  <1>3. Len(messages) \in Nat BY <1>0, ConvShape
  <1> HIDE DEF h
  <1>4. n \in h[1] .. h[2] \/ h[2] - n >= HistoryTurns BY <1>1, <1>2, <1>3
  <1> QED BY <1>4 DEF h, Heard

(* An earlier turn has an answer, and a question before it, within what    *)
(* the history goes up to.                                                 *)
LEMMA HistoryHoldsTurns == ConvInv => FollowUpSeesTurns
  <1> SUFFICES ASSUME ConvInv, NEW r \in Asked, ask[r].history # NoHistory,
                      NEW q \in ask[r].earlier
               PROVE  /\ \E n \in Of(q, "user") : Heard(r, n)
                      /\ \E n \in Of(q, "assistant") : messages[n].kind = ask[q].kind /\ Heard(r, n)
    BY DEF FollowUpSeesTurns
  <1>0. ConvTypeOK /\ HistoryHeld /\ TurnsRecorded BY DEF ConvInv
  <1>1. q \in Asked BY <1>0, ConvShape DEF Progress
  <1>2. PICK n \in Of(q, "assistant") : messages[n].kind = ask[q].kind
    BY <1>0, <1>1 DEF HistoryHeld, TurnsRecorded
  <1>3. Len(messages) \in Nat /\ n \in 1 .. Len(messages) BY <1>0, ConvShape
  <1>4. n <= ask[r].history[2] /\ ask[r].history[2] \in 1 .. Len(messages)
    BY <1>0 DEF HistoryHeld
  <1>5. \E m \in Of(q, "user") : m < n
    <2> DEFINE questions == {m \in Of(q, "user") : m < n}
               answers == {m \in Of(q, "assistant") : m <= n}
    <2>1. Cardinality(questions) = Cardinality(answers) BY <1>0, <1>1 DEF TurnsRecorded
    <2>2. IsFiniteSet(questions) /\ IsFiniteSet(answers) BY <1>0, ConvShape, FS_Subset
    <2>3. n \in answers BY <1>3
    <2> HIDE DEF answers
    <2>4. questions # {} BY <2>1, <2>2, <2>3, FS_EmptySet
    <2> QED BY <2>4
  <1>6. PICK m \in Of(q, "user") : m < n BY <1>5
  <1>7. m \in 1 .. Len(messages) /\ m <= ask[r].history[2]
    <2>1. m \in 1 .. Len(messages) BY <1>0, ConvShape
    <2> QED BY <1>3, <1>4, <1>6, <2>1
  <1> QED BY <1>2, <1>3, <1>4, <1>6, <1>7, HeardUpTo

(* However turns interleave, the answers of a request follow its questions *)
(* one by one, and the client that has its answer finds it recorded.       *)
THEOREM TurnsAlwaysRecorded == ConvSpec => []TurnsRecorded
  <1>1. ConvInv => TurnsRecorded BY DEF ConvInv
  <1> QED BY <1>1, ConvInitInv, ConvNextInv, PTL DEF ConvSpec

(* A follow-up is planned with every turn answered before it: with its     *)
(* question, and with its answer where that is kept, which of one that was *)
(* streamed it is not; unless the history was filled by what came after.   *)
THEOREM FollowUpAlwaysSeesTurns == ConvSpec => []FollowUpSeesTurns
  BY ConvInitInv, ConvNextInv, HistoryHoldsTurns, PTL DEF ConvSpec

HIDE ConversationsAssumption

(***************************************************************************)
(* PlanPipeline.  What is compiled was validated against the catalog the   *)
(* engine has, whatever it was planned over.                               *)
(***************************************************************************)

USE PlanAssumption

(* What validate_plan() finds of a node that reads.                        *)
ReadValid(node, catalog) ==
  /\ node.source \in DOMAIN catalog
  /\ \A j \in node.joins :
       /\ j.table \in DOMAIN catalog
       /\ Resolves(j.left, node.source, node, catalog)
       /\ j.right # Omitted => Resolves(j.right, j.table, node, catalog)
  /\ \A ref \in node.columns : IsAlias(ref, node) \/ Resolves(ref, node.source, node, catalog)
  /\ \A a \in node.aggregates : Resolves(a.column, node.source, node, catalog)

LEMMA ValidReads ==
  ASSUME NEW node, NEW catalog, Valid(node, catalog), ~ node.writes
  PROVE  ReadValid(node, catalog)
  BY DEF Valid, JoinValid, AggregateValid, ReadValid

IsPlan(plan) == plan.writes \/ DOMAIN plan = PlanFields

Stages ==
  /\ question.at = "asking" => question =
       [at |-> "asking", schema |-> question.schema, attempt |-> question.attempt]
  /\ question.at = "planned" => IsPlan(question.plan)
  /\ question.at \in {"validated", "cleared"} =>
       /\ question = [at |-> question.at, plan |-> question.plan, catalog |-> question.catalog]
       /\ IsPlan(question.plan)
       /\ ~ question.plan.writes => ReadValid(question.plan, question.catalog)
  /\ question.at = "cleared" => ~ question.plan.writes

PlanInv == PlanTypeOK /\ Stages /\ SqlIsGrounded

(* The reference that is written stays one of the column it was found for. *)
LEMMA QualifiedIsGrounded ==
  ASSUME NEW node, NEW catalog, NEW ref, NEW sql,
         sql.from = node.source, {j.table : j \in sql.joins} = JoinTables(node),
         Resolves(ref, node.source, node, catalog)
  PROVE  Grounded(Qualified(ref, node), sql, catalog)
  BY DEF Resolves, Qualified, Grounded, OfTable, IsStar, JoinTables

LEMMA SqlOfValidIsGrounded ==
  ASSUME NEW node, NEW catalog, ReadValid(node, catalog)
  PROVE  LET sql == Sql(node)
             grounded(ref) == Grounded(ref, sql, catalog) IN
         /\ {sql.from} \cup {j.table : j \in sql.joins} \subseteq DOMAIN catalog
         /\ \A ref \in sql.select : ref.name \in sql.aliases \/ grounded(ref)
         /\ \A ref \in sql.computed : grounded(ref)
         /\ \A j \in sql.joins :
              /\ grounded(j.left) \/ j.left.name = Star
              /\ j.implied \/ grounded(j.right) \/ j.right.name = Star
  <1> DEFINE joins == {[table |-> j.table, left |-> OnLeft(j, node), right |-> OnRight(j),
                        implied |-> j.right = Omitted] : j \in node.joins}
             select == {Qualified(ref, node) : ref \in Selected(node)}
             computed == {Qualified(a.column, node) : a \in node.aggregates}
             sql == Sql(node)
  <1>1. /\ sql.from = node.source /\ sql.joins = joins /\ sql.select = select
        /\ sql.computed = computed /\ sql.aliases = Aliases(node)
    BY DEF Sql
  <1>2. {j.table : j \in joins} = JoinTables(node)
    <2>1. ASSUME NEW j \in node.joins PROVE \E k \in joins : k.table = j.table
      <3> DEFINE k == [table |-> j.table, left |-> OnLeft(j, node), right |-> OnRight(j),
                       implied |-> j.right = Omitted]
      <3>1. k \in joins /\ k.table = j.table OBVIOUS
      <3> QED BY <3>1
    <2>2. \A k \in joins : \E j \in node.joins : k.table = j.table OBVIOUS
    <2> QED BY <2>1, <2>2 DEF JoinTables
  <1> HIDE DEF sql
  <1>3. {sql.from} \cup {j.table : j \in sql.joins} \subseteq DOMAIN catalog
    BY <1>1, <1>2 DEF ReadValid, JoinTables
  <1>4. ASSUME NEW ref \in sql.select PROVE ref.name \in sql.aliases \/ Grounded(ref, sql, catalog)
    <2>1. PICK column \in node.columns : ref = Qualified(column, node) BY <1>1 DEF Selected
    <2>2. CASE IsAlias(column, node)
      <3>1. ref.name = column.name BY <2>1 DEF Qualified, OfTable
      <3> QED BY <1>1, <2>2, <3>1 DEF IsAlias
    <2>3. CASE Resolves(column, node.source, node, catalog)
      BY <1>1, <1>2, <2>1, <2>3, QualifiedIsGrounded
    <2> QED BY <2>2, <2>3 DEF ReadValid
  <1>5. ASSUME NEW ref \in sql.computed PROVE Grounded(ref, sql, catalog)
    <2>1. PICK a \in node.aggregates : ref = Qualified(a.column, node) BY <1>1
    <2>2. Resolves(a.column, node.source, node, catalog) BY DEF ReadValid
    <2> QED BY <1>1, <1>2, <2>1, <2>2, QualifiedIsGrounded
  <1>6. ASSUME NEW k \in sql.joins
        PROVE  /\ Grounded(k.left, sql, catalog) \/ k.left.name = Star
               /\ k.implied \/ Grounded(k.right, sql, catalog) \/ k.right.name = Star
    <2>1. PICK j \in node.joins :
            k = [table |-> j.table, left |-> OnLeft(j, node), right |-> OnRight(j),
                 implied |-> j.right = Omitted]
      BY <1>1
    <2>2. /\ k.left = OnLeft(j, node) /\ k.right = OnRight(j) /\ k.implied = (j.right = Omitted)
      BY <2>1
    <2>3. Grounded(k.left, sql, catalog) \/ k.left.name = Star
      <3>1. Resolves(j.left, node.source, node, catalog) BY DEF ReadValid
      <3> QED BY <1>1, <1>2, <2>2, <3>1 DEF Resolves, OnLeft, Grounded, OfTable, IsStar
    <2>4. k.implied \/ Grounded(k.right, sql, catalog) \/ k.right.name = Star
      <3> SUFFICES ASSUME j.right # Omitted
                   PROVE  Grounded(k.right, sql, catalog) \/ k.right.name = Star
        BY <2>2
      <3>1. Resolves(j.right, j.table, node, catalog) BY DEF ReadValid
      <3>2. j.table \in {i.table : i \in sql.joins} BY <1>1, <1>2 DEF JoinTables
      <3> QED BY <1>1, <1>2, <2>2, <3>1, <3>2 DEF Resolves, OnRight, Grounded, OfTable, IsStar
    <2> QED BY <2>3, <2>4
  <1> QED BY <1>3, <1>4, <1>5, <1>6 DEF sql

LEMMA PlanInitInv == PlanInit => PlanInv
  BY DEF PlanInit, NoQuestion, PlanInv, PlanTypeOK, Stages, SqlIsGrounded

(* A question that ends without SQL.                                       *)
LEMMA ConcludeKeeps ==
  ASSUME PlanInv, live' = live, altered' = altered, described' = described,
         cached' \in Catalogs,
         NEW result \in {"refused", "unavailable", "clarified", "invalid", "denied"},
         Conclude(result)
  PROVE  PlanInv'
  BY DEF Conclude, PlanInv, PlanTypeOK, Stages, SqlIsGrounded

LEMMA PlanningKeeps ==
  ASSUME PlanInv, StartPlanning \/ RefuseToPlan \/ NoAnswer
  PROVE  PlanInv'
  <1>0. live \in Catalogs /\ cached \in Catalogs BY DEF PlanInv, PlanTypeOK
  <1>1. CASE StartPlanning
    <2>1. PICK schema : question' = [at |-> "asking", schema |-> schema, attempt |-> 1]
      BY <1>1 DEF StartPlanning
    <2>2. cached' \in Catalogs /\ UNCHANGED <<live, altered, described>>
      BY <1>0, <1>1 DEF StartPlanning, ReadCatalog
    <2>3. /\ question'.at = "asking" /\ question'.schema = schema /\ question'.attempt = 1
      BY <2>1
    <2> QED BY <2>1, <2>2, <2>3 DEF PlanInv, PlanTypeOK, Stages, SqlIsGrounded
  <1>2. CASE RefuseToPlan BY <1>0, <1>2, ConcludeKeeps DEF RefuseToPlan, UnchangedSource
  <1>3. CASE NoAnswer BY <1>0, <1>3, ConcludeKeeps DEF NoAnswer, UnchangedSource
  <1> QED BY <1>1, <1>2, <1>3

LEMMA NormalizeIsPlan ==
  ASSUME NEW proposal \in Proposals, NEW catalog, NEW plan,
         plan = Normalize(proposal, catalog), Valid(plan, catalog)
  PROVE  IsPlan(plan)
  <1>1. proposal = NoPlan => plan = NoPlan BY DEF Normalize
  <1>2. proposal # NoPlan /\ IsPlan(proposal) BY <1>1 DEF Valid, IsPlan
  <1>3. plan = proposal \/ DOMAIN plan = DOMAIN proposal BY DEF Normalize
  <1>4. proposal.writes => plan = proposal BY DEF Normalize
  <1> QED BY <1>2, <1>3, <1>4 DEF IsPlan

LEMMA AnswerKeeps == ASSUME PlanInv, Answer PROVE PlanInv'
  <1>0. PlanTypeOK /\ Stages BY DEF PlanInv
  <1>1. question.at = "asking" /\ UnchangedSource BY DEF Answer
  <1>2. PICK proposal \in Proposals :
          LET plan == Normalize(proposal, question.schema) IN
          IF Valid(plan, question.schema) THEN question' = [at |-> "planned", plan |-> plan]
          ELSE IF question.attempt < MaxAttempts
               THEN question' = [question EXCEPT !.attempt = @ + 1]
               ELSE Conclude("clarified")
    BY DEF Answer
  <1> DEFINE plan == Normalize(proposal, question.schema)
  <1>3. CASE Valid(plan, question.schema)
    <2>1. question' = [at |-> "planned", plan |-> plan] BY <1>2, <1>3
    <2>2. IsPlan(plan) BY <1>3, NormalizeIsPlan
    <2> HIDE DEF plan
    <2>3. question'.at = "planned" /\ question'.plan = plan BY <2>1
    <2> QED BY <1>0, <1>1, <2>2, <2>3
        DEF UnchangedSource, PlanInv, PlanTypeOK, Stages, SqlIsGrounded, IsPlan
  <1>4. CASE ~ Valid(plan, question.schema) /\ question.attempt < MaxAttempts
    <2>1. question' = [question EXCEPT !.attempt = @ + 1] BY <1>2, <1>4
    <2>2. /\ question = [at |-> "asking", schema |-> question.schema,
                         attempt |-> question.attempt]
          /\ question.attempt \in 1 .. MaxAttempts
      BY <1>0, <1>1 DEF PlanTypeOK, Stages
    <2>3. /\ question'.at = "asking" /\ question'.attempt = question.attempt + 1
          /\ question' = [at |-> "asking", schema |-> question'.schema,
                          attempt |-> question'.attempt]
      BY <2>1, <2>2
    <2>4. question'.attempt \in 1 .. MaxAttempts BY <1>4, <2>2, <2>3
    <2> QED BY <1>0, <1>1, <2>3, <2>4
        DEF UnchangedSource, PlanInv, PlanTypeOK, Stages, SqlIsGrounded
  <1>5. CASE ~ Valid(plan, question.schema) /\ ~ (question.attempt < MaxAttempts)
    <2>1. Conclude("clarified") BY <1>2, <1>5
    <2> QED BY <1>0, <1>1, <2>1, ConcludeKeeps DEF UnchangedSource, PlanTypeOK
  <1> QED BY <1>3, <1>4, <1>5

LEMMA RevalidateKeeps == ASSUME PlanInv, Revalidate PROVE PlanInv'
  <1>0. PlanTypeOK /\ Stages BY DEF PlanInv
  <1>1. PICK catalog \in {cached, live} :
          /\ ReadCatalog(catalog)
          /\ IF Valid(question.plan, catalog)
             THEN question' = [at |-> "validated", plan |-> question.plan, catalog |-> catalog]
             ELSE Conclude("invalid")
    BY DEF Revalidate
  <1>2. /\ question.at = "planned" /\ cached' \in Catalogs
        /\ UNCHANGED <<live, altered, described>>
    BY <1>0, <1>1 DEF Revalidate, ReadCatalog, PlanTypeOK
  <1>3. CASE Valid(question.plan, catalog)
    <2>1. question' = [at |-> "validated", plan |-> question.plan, catalog |-> catalog]
      BY <1>1, <1>3
    <2>2. /\ question'.at = "validated" /\ question'.plan = question.plan
          /\ question'.catalog = catalog
      BY <2>1
    <2>3. /\ IsPlan(question.plan)
          /\ ~ question.plan.writes => ReadValid(question.plan, catalog)
      BY <1>0, <1>2, <1>3, ValidReads DEF Stages
    <2> QED BY <1>0, <1>2, <2>1, <2>2, <2>3
        DEF PlanInv, PlanTypeOK, Stages, SqlIsGrounded, IsPlan, ReadValid, IsAlias, Resolves,
            IsStar, ColumnsIn, JoinTables, Aliases
  <1>4. CASE ~ Valid(question.plan, catalog)
    BY <1>1, <1>2, <1>4, ConcludeKeeps
  <1> QED BY <1>3, <1>4

LEMMA GuardrailsKeep == ASSUME PlanInv, Guardrails PROVE PlanInv'
  <1>0. PlanTypeOK /\ Stages BY DEF PlanInv
  <1>1. question.at = "validated" /\ UNCHANGED <<live, altered, cached, described>>
    BY DEF Guardrails, UnchangedSource
  <1>2. CASE Conclude("denied") BY <1>0, <1>1, <1>2, ConcludeKeeps DEF PlanTypeOK
  <1>3. ASSUME ~ question.plan.writes, NEW plan \in {question.plan, Cap(question.plan)},
               question' = [question EXCEPT !.at = "cleared", !.plan = plan]
        PROVE  PlanInv'
    <2> DEFINE old == question.plan
    <2>1. /\ question = [at |-> "validated", plan |-> old, catalog |-> question.catalog]
          /\ DOMAIN old = PlanFields /\ ReadValid(old, question.catalog)
      BY <1>0, <1>1, <1>3 DEF Stages, IsPlan
    <2>2. DOMAIN plan = PlanFields
          /\ \A f \in PlanFields \ {"limit"} : plan[f] = old[f]
      BY <1>3, <2>1 DEF Cap
    <2>3. /\ plan.source = old.source /\ plan.joins = old.joins /\ plan.columns = old.columns
          /\ plan.aggregates = old.aggregates /\ plan.writes = old.writes
      BY <2>2 DEF PlanFields
    <2>4. ReadValid(plan, question.catalog)
      BY <2>1, <2>3 DEF ReadValid, Resolves, IsAlias, Aliases, JoinTables
    <2>5. /\ question' = [at |-> "cleared", plan |-> plan, catalog |-> question.catalog]
          /\ question'.at = "cleared" /\ question'.plan = plan
          /\ question'.catalog = question.catalog
      BY <1>3, <2>1
    <2> QED BY <1>0, <1>1, <1>3, <2>2, <2>3, <2>4, <2>5
        DEF PlanInv, PlanTypeOK, Stages, SqlIsGrounded, IsPlan, ReadValid, IsAlias, Resolves,
            IsStar, ColumnsIn, JoinTables, Aliases
  <1> QED BY <1>2, <1>3 DEF Guardrails

LEMMA CompileSqlKeeps == ASSUME PlanInv, CompileSql PROVE PlanInv'
  <1>0. PlanTypeOK /\ Stages BY DEF PlanInv
  <1> DEFINE sql == Sql(question.plan)
  <1>1. /\ question.at = "cleared" /\ UNCHANGED <<live, altered, cached, described>>
        /\ question' = [at |-> "compiled", sql |-> sql, catalog |-> question.catalog]
    BY DEF CompileSql, UnchangedSource
  <1>2. /\ question'.at = "compiled" /\ question'.sql = sql
        /\ question'.catalog = question.catalog
    BY <1>1
  <1>3. ReadValid(question.plan, question.catalog) BY <1>0, <1>1 DEF Stages
  <1>4. SqlIsGrounded'
    BY <1>2, <1>3, SqlOfValidIsGrounded DEF SqlIsGrounded, Grounded, IsStar, ColumnsIn
  <1>5. PlanTypeOK' /\ Stages' BY <1>0, <1>1, <1>2 DEF PlanTypeOK, Stages
  <1> QED BY <1>4, <1>5 DEF PlanInv

LEMMA PlanNextInv == PlanInv /\ [PlanNext]_planVars => PlanInv'
  <1> SUFFICES ASSUME PlanInv, [PlanNext]_planVars PROVE PlanInv' OBVIOUS
  <1>1. CASE UNCHANGED planVars
    BY <1>1 DEF planVars, PlanInv, PlanTypeOK, Stages, SqlIsGrounded, IsPlan, ReadValid,
                Resolves, IsAlias, Aliases, JoinTables, ColumnsIn, IsStar, Grounded
  <1>2. CASE Alteration
    <2>1. /\ UNCHANGED <<cached, described, question>> /\ live' \in Catalogs
          /\ altered < MaxAlterations /\ altered' = altered + 1
      BY <1>2 DEF Alteration
    <2>2. PlanTypeOK' BY <2>1 DEF PlanInv, PlanTypeOK
    <2> QED BY <2>1, <2>2
        DEF PlanInv, Stages, SqlIsGrounded, IsPlan, ReadValid, Resolves, IsAlias, Aliases,
            JoinTables, ColumnsIn, IsStar, Grounded
  <1> QED BY <1>1, <1>2, PlanningKeeps, AnswerKeeps, RevalidateKeeps, GuardrailsKeep,
             CompileSqlKeeps DEF PlanNext

(* Whatever the model answers and however the source changes, the SQL is   *)
(* over columns the engine's catalog has.                                  *)
THEOREM SqlAlwaysGrounded == PlanSpec => []SqlIsGrounded
  <1>1. PlanInv => SqlIsGrounded BY DEF PlanInv
  <1> QED BY <1>1, PlanInitInv, PlanNextInv, PTL DEF PlanSpec

HIDE PlanAssumption

(***************************************************************************)
(* Answering.  What each stage leaves of the text, of what was redacted    *)
(* and of what was audited, on each of the ways through the stages.        *)
(***************************************************************************)

USE AnsweringAssumption

AnswerFields == {"at", "endpoint", "steps", "left", "clear", "prompted", "text", "cut", "turns",
           "redacted", "audited", "reported"}

(* Text that is not scanned yet is a model's: only the streamed, and only  *)
(* where a chunk was cut, goes on.                                         *)
TextScanned ==
  /\ answer.at \in {"new", "query"} => answer.text = {}
  /\ answer.at = "record" => answer.text = {}
  /\ answer.at = "audit" /\ answer.endpoint = "ask" => answer.text = {}
  /\ answer.at \in {"explain", "audit", "follow", "done"} /\ answer.endpoint # "tool"
       => answer.text \subseteq answer.cut

RedactionsAudited ==
  /\ answer.at \in {"new", "query"} => answer.redacted = {} /\ answer.audited = {}
  /\ answer.at = "new" => answer.reported = {}
  /\ answer.endpoint = "tool" => answer.redacted = {} /\ answer.audited = {}
  /\ answer.at = "follow" => answer.audited = answer.redacted
  /\ answer.at = "record" /\ answer.endpoint = "ask" => answer.audited = answer.redacted

AnswerInv ==
  /\ DOMAIN answer = AnswerFields /\ AnsweringTypeOK
  /\ answer.at = "query" => answer.left >= 1
  /\ answer.endpoint = "replay" => answer.at = "done"
  /\ answer.at \in {"scan", "audit", "record"} => answer.endpoint \in {"ask", "stream"}
  /\ AnswerGuarded /\ TextScanned /\ RedactionsAudited

LEMMA NothingInClear == \A result : InClear(result) \cap Tagged = {}
  BY DEF InClear, SensitiveLabels

LEMMA NewAnswerInv == answer = NewAnswer => AnswerInv
  BY DEF NewAnswer, AnswerInv, AnswerFields, AnsweringTypeOK, Endpoints, AnswerGuarded, TextScanned,
         RedactionsAudited

LEMMA QueryingKeeps ==
  ASSUME AnswerInv,
         Decompose \/ Execute \/ SkipStep \/ QueryFails \/ FallBack \/ Clarify \/ ReplayPlan
  PROVE  AnswerInv'
  <1> USE DEF AnswerInv, AnswerFields, AnsweringTypeOK, Endpoints, AnswerGuarded, TextScanned,
              RedactionsAudited
  <1>1. CASE Decompose
    <2>1. PICK endpoint \in {"ask", "stream", "tool"}, steps \in 1 .. MaxSteps :
            answer' = [answer EXCEPT !.at = "query", !.endpoint = endpoint,
                                     !.steps = steps, !.left = steps]
      BY <1>1 DEF Decompose
    <2>2. /\ DOMAIN answer' = AnswerFields /\ answer'.at = "query" /\ answer'.endpoint = endpoint
          /\ answer'.left = steps
          /\ \A f \in AnswerFields \ {"at", "endpoint", "steps", "left"} : answer'[f] = answer[f]
      BY <2>1
    <2>3. answer.at = "new" BY <1>1 DEF Decompose
    <2> QED BY <2>2, <2>3
  <1>2. CASE Execute
    <2>1. PICK result \in Results :
            answer' = [answer EXCEPT !.at = NextStep, !.left = @ - 1,
                                     !.clear = @ \cup InClear(result)]
      BY <1>2 DEF Execute
    <2>2. /\ DOMAIN answer' = AnswerFields /\ answer'.at = NextStep /\ answer'.left = answer.left - 1
          /\ answer'.clear = answer.clear \cup InClear(result)
          /\ \A f \in AnswerFields \ {"at", "left", "clear"} : answer'[f] = answer[f]
      BY <2>1
    <2>3. answer.at = "query" BY <1>2 DEF Execute
    <2> QED BY <2>2, <2>3, NothingInClear DEF NextStep
  <1>3. CASE SkipStep BY <1>3 DEF SkipStep, NextStep
  <1>4. CASE QueryFails BY <1>4 DEF QueryFails
  <1>5. CASE FallBack BY <1>5 DEF FallBack, NewAnswer
  <1>6. CASE Clarify
    <2>1. PICK text \in SUBSET Categories :
            answer' = [answer EXCEPT !.at = "clarified", !.text = text,
                         !.turns = IF answer.endpoint = "tool" THEN {} ELSE {text}]
      BY <1>6 DEF Clarify
    <2>2. /\ DOMAIN answer' = AnswerFields /\ answer'.at = "clarified" /\ answer'.text = text
          /\ answer'.turns \subseteq {text}
          /\ \A f \in AnswerFields \ {"at", "text", "turns"} : answer'[f] = answer[f]
      BY <2>1
    <2>3. answer.at = "query" BY <1>6 DEF Clarify
    <2> QED BY <2>2, <2>3
  <1>7. CASE ReplayPlan
    <2>1. PICK result \in Results :
            answer' = [answer EXCEPT !.at = "done", !.endpoint = "replay",
                                     !.clear = {result.source} \X result.labels]
      BY <1>7 DEF ReplayPlan
    <2>2. /\ DOMAIN answer' = AnswerFields /\ answer'.at = "done" /\ answer'.endpoint = "replay"
          /\ \A f \in AnswerFields \ {"at", "endpoint", "clear"} : answer'[f] = answer[f]
      BY <2>1
    <2>3. answer.at = "new" BY <1>7 DEF ReplayPlan
    <2> QED BY <2>2, <2>3
  <1> QED BY <1>1, <1>2, <1>3, <1>4, <1>5, <1>6, <1>7

LEMMA ExplainingKeeps ==
  ASSUME AnswerInv, Explain \/ StreamChunk \/ StreamEnds \/ Scan
  PROVE  AnswerInv'
  <1> USE DEF AnswerInv, AnswerFields, AnsweringTypeOK, Endpoints, AnswerGuarded, TextScanned,
              RedactionsAudited
  <1>1. CASE Explain
    <2>1. PICK text \in SUBSET Categories :
            answer' = [Prompting(answer) EXCEPT !.text = text,
                         !.at = IF answer.endpoint = "tool" THEN "follow" ELSE "scan"]
      BY <1>1 DEF Explain
    <2>2. /\ DOMAIN answer' = AnswerFields /\ answer'.text = text
          /\ answer'.at = IF answer.endpoint = "tool" THEN "follow" ELSE "scan"
          /\ answer'.prompted = answer.prompted \cup answer.clear
          /\ \A f \in AnswerFields \ {"at", "text", "prompted"} : answer'[f] = answer[f]
      BY <2>1 DEF Prompting
    <2>3. answer.at = "explain" BY <1>1 DEF Explain
    <2>4. AnsweringTypeOK' BY <2>2, <2>3
    <2>5. TextScanned' /\ RedactionsAudited' BY <2>2, <2>3
    <2>6. AnswerGuarded' BY <2>2, <2>3
    <2> QED BY <2>2, <2>3, <2>4, <2>5, <2>6
  <1>2. CASE StreamChunk
    <2>1. PICK found \in Categories :
            \/ answer' = [Prompting(answer) EXCEPT !.redacted = @ \cup {found}]
            \/ answer' = [Prompting(answer) EXCEPT !.cut = @ \cup {found},
                                                   !.text = @ \cup {found}]
      BY <1>2 DEF StreamChunk
    <2>2. /\ DOMAIN answer' = AnswerFields /\ answer'.prompted = answer.prompted \cup answer.clear
          /\ \/ /\ answer'.redacted = answer.redacted \cup {found}
                /\ answer'.cut = answer.cut /\ answer'.text = answer.text
             \/ /\ answer'.redacted = answer.redacted
                /\ answer'.cut = answer.cut \cup {found}
                /\ answer'.text = answer.text \cup {found}
          /\ \A f \in AnswerFields \ {"redacted", "cut", "text", "prompted"} : answer'[f] = answer[f]
      BY <2>1 DEF Prompting
    <2>3. answer.at = "explain" /\ answer.endpoint = "stream" BY <1>2 DEF StreamChunk
    <2>4. AnsweringTypeOK' BY <2>2, <2>3
    <2>5. TextScanned' /\ RedactionsAudited' BY <2>2, <2>3
    <2>6. AnswerGuarded' BY <2>2, <2>3
    <2> QED BY <2>2, <2>3, <2>4, <2>5, <2>6
  <1>3. CASE StreamEnds BY <1>3 DEF StreamEnds, Prompting
  <1>4. CASE Scan BY <1>4 DEF Scan
  <1> QED BY <1>1, <1>2, <1>3, <1>4

LEMMA KeepingKeeps ==
  ASSUME AnswerInv, Audit \/ RecordText \/ Reply \/ Disconnect
  PROVE  AnswerInv'
  <1> USE DEF AnswerInv, AnswerFields, AnsweringTypeOK, Endpoints, AnswerGuarded, TextScanned,
              RedactionsAudited
  <1>1. CASE Audit BY <1>1 DEF Audit
  <1>2. CASE RecordText BY <1>2 DEF RecordText
  <1>3. CASE Reply BY <1>3 DEF Reply, Prompting
  <1>4. CASE Disconnect BY <1>4 DEF Disconnect
  <1> QED BY <1>1, <1>2, <1>3, <1>4

LEMMA AnsweringNextInv == AnswerInv /\ [AnsweringNext]_answerVars => AnswerInv'
  <1> SUFFICES ASSUME AnswerInv, [AnsweringNext]_answerVars PROVE AnswerInv' OBVIOUS
  <1>1. CASE UNCHANGED answerVars
    BY <1>1 DEF answerVars, AnswerInv, AnsweringTypeOK, AnswerGuarded, TextScanned,
                RedactionsAudited
  <1> QED BY <1>1, QueryingKeeps, ExplainingKeeps, KeepingKeeps DEF AnsweringNext

(* Whatever steps, chunks and endpoints a question goes through, its       *)
(* answer is masked, scanned, reported and audited.                        *)
THEOREM AnswersAlwaysGuarded == AnsweringSpec => []AnswerGuarded
  <1>1. AnsweringInit => AnswerInv BY NewAnswerInv DEF AnsweringInit
  <1>2. AnswerInv => AnswerGuarded BY DEF AnswerInv
  <1> QED BY <1>1, <1>2, AnsweringNextInv, PTL DEF AnsweringSpec

HIDE AnsweringAssumption

(***************************************************************************)
(* ContextGraph.  What a build that is alone has written is there, and     *)
(* what is not its own is still to be looked for, or found.                *)
(***************************************************************************)

USE ContextGraphAssumption

NoneDangles(ns, rs) == \A r \in rs : {r.source, r.target} \subseteq ns

(* w is a build that nobody disturbs, ns and rs are the graph.             *)
Projected(w, ns, rs) ==
  /\ w.write \subseteq NodesOf(w.snapshot)
  /\ NodesOf(w.snapshot) \ w.write \subseteq ns
  /\ RelationshipsOf(w.snapshot) \ w.relate \subseteq rs
  /\ \A n \in ns : n \in NodesOf(w.snapshot) \/ n[1] \in w.find \/ n \in w.prune
  /\ w.prune \cap NodesOf(w.snapshot) = {}

CleanProjected == \A b \in Builders : ~ NotBuilding(b) /\ builder[b].clean =>
  /\ \A c \in Builders \ {b} : NotBuilding(c)
  /\ Projected(builder[b], nodes, relationships)

ExactAtRest == exact # NoSnapshot => \A b \in Builders : NotBuilding(b)

GraphInv == GraphTypeOK /\ GraphIsCurrent /\ CleanProjected /\ ExactAtRest

LEMMA NodesAreLabelled == \A n \in AllNodes : n[1] \in Labels
  BY DEF AllNodes, NodesOf, Described, ConnectionNode, TableNode, ColumnNode, MetricNode,
         ConceptNode, Labels

(* Relationships are among the nodes of the same snapshot.                 *)
LEMMA EndsAreNodes ==
  ASSUME NEW s \in Snapshots, NEW r \in RelationshipsOf(s)
  PROVE  {r.source, r.target} \subseteq NodesOf(s)
  <1>1. CASE r \in {Rel("HAS_TABLE", ConnectionNode, TableNode(t)) : t \in s.tables}
    BY <1>1 DEF Rel, NodesOf, Described
  <1>2. CASE r \in {Rel("HAS_COLUMN", TableNode(c[1]), ColumnNode(c)) : c \in s.columns}
    BY <1>2 DEF Rel, NodesOf, Described
  <1>3. CASE r \in {Rel(j.kind, ColumnNode(j.left), ColumnNode(j.right)) :
          j \in {j \in s.joins : j.left # j.right /\ {j.left, j.right} \subseteq s.columns}}
    BY <1>3 DEF Rel, NodesOf, Described
  <1>4. CASE r \in {Rel("HAS_METRIC", TableNode(m[2]), MetricNode(m[1])) :
          m \in {m \in s.metrics : m[2] \in s.tables}}
    BY <1>4 DEF Rel, NodesOf, Described
  <1>5. CASE r \in {Rel("DESCRIBES", ConceptNode(k[1]), TableNode(k[2])) :
          k \in {k \in s.concepts : k[2] \in s.tables}}
    BY <1>5 DEF Rel, NodesOf, Described
  <1>6. CASE r \in {Rel("SEMANTICALLY_RELATED_TO", ConceptNode(q[1]), ConceptNode(q[2])) :
          q \in {q \in s.related : {q[1], q[2]} \subseteq {k[1] : k \in s.concepts}}}
    <2>1. PICK q \in s.related : /\ {q[1], q[2]} \subseteq {k[1] : k \in s.concepts}
                                 /\ r = Rel("SEMANTICALLY_RELATED_TO", ConceptNode(q[1]),
                                            ConceptNode(q[2]))
      BY <1>6
    <2>2. r.source = ConceptNode(q[1]) /\ r.target = ConceptNode(q[2]) BY <2>1 DEF Rel
    <2> QED BY <2>1, <2>2 DEF NodesOf
  <1> QED BY <1>1, <1>2, <1>3, <1>4, <1>5, <1>6 DEF RelationshipsOf

LEMMA BuildingFields ==
  ASSUME NEW w \in Building
  PROVE  /\ w.snapshot \in Snapshots /\ w.write \subseteq AllNodes
         /\ w.relate \subseteq AllRelationships /\ w.find \subseteq Labels
         /\ w.prune \subseteq AllNodes /\ w.clean \in BOOLEAN
  BY DEF Building

LEMMA GraphInitInv == GraphInit => GraphInv
  BY DEF GraphInit, GraphInv, GraphTypeOK, GraphIsCurrent, CleanProjected, ExactAtRest,
         NotBuilding

LEMMA BeginGraphKeeps ==
  ASSUME GraphInv, NEW b \in Builders, NEW s \in Snapshots, BeginGraph(b, s)
  PROVE  GraphInv'
  <1>0. GraphTypeOK /\ GraphIsCurrent BY DEF GraphInv
  <1> DEFINE w == [snapshot |-> s, write |-> NodesOf(s), relate |-> RelationshipsOf(s),
                   find |-> Labels, prune |-> {},
                   clean |-> \A d \in Builders \ {b} : NotBuilding(d)]
  <1>1. /\ w \in Building /\ w.snapshot = s /\ w.write = NodesOf(s) /\ w.find = Labels
        /\ w.relate = RelationshipsOf(s) /\ w.prune = {}
        /\ w.clean = \A d \in Builders \ {b} : NotBuilding(d)
    <2>1. NodesOf(s) \subseteq AllNodes /\ RelationshipsOf(s) \subseteq AllRelationships
      BY DEF AllNodes, AllRelationships
    <2> QED BY <2>1 DEF Building
  <1>2. /\ builds < MaxBuilds /\ builds' = builds + 1 /\ exact' = NoSnapshot
        /\ UNCHANGED <<nodes, relationships>>
        /\ builder' = [c \in Builders |->
             IF c = b THEN w
             ELSE IF NotBuilding(c) THEN NoSnapshot ELSE [builder[c] EXCEPT !.clean = FALSE]]
    BY DEF BeginGraph
  <1> HIDE DEF w
  <1>3. builder'[b] = w BY <1>2
  <1>4. ASSUME NEW c \in Builders \ {b}
        PROVE  /\ builder'[c] \in Building \cup {NoSnapshot}
               /\ NotBuilding(c) => builder'[c] = NoSnapshot
               /\ ~ NotBuilding(c) => builder'[c].clean = FALSE
    <2>1. CASE NotBuilding(c)
      <3>1. builder'[c] = NoSnapshot BY <1>2, <2>1
      <3> QED BY <2>1, <3>1
    <2>2. CASE ~ NotBuilding(c)
      <3>1. builder[c] \in Building BY <1>0, <2>2 DEF GraphTypeOK, NotBuilding
      <3>2. builder'[c] = [builder[c] EXCEPT !.clean = FALSE] BY <1>2, <2>2
      <3>3. [builder[c] EXCEPT !.clean = FALSE] \in Building BY <3>1 DEF Building
      <3>4. [builder[c] EXCEPT !.clean = FALSE].clean = FALSE BY <3>1 DEF Building
      <3> QED BY <2>2, <3>2, <3>3, <3>4
    <2> QED BY <2>1, <2>2
  <1>5. builder' \in [Builders -> Building \cup {NoSnapshot}] BY <1>1, <1>2, <1>3, <1>4
  <1>6. GraphTypeOK'
    <2>1. builds' \in 0 .. MaxBuilds BY <1>0, <1>2 DEF GraphTypeOK
    <2> QED BY <1>0, <1>2, <1>5, <2>1 DEF GraphTypeOK
  <1>7. CleanProjected'
    <2> SUFFICES ASSUME NEW c \in Builders, builder'[c] # NoSnapshot, builder'[c].clean
                 PROVE  /\ \A d \in Builders \ {c} : builder'[d] = NoSnapshot
                        /\ Projected(builder'[c], nodes', relationships')
      BY DEF CleanProjected, NotBuilding
    <2>1. c = b BY <1>4
    <2>2. \A d \in Builders \ {b} : builder'[d] = NoSnapshot BY <1>1, <1>3, <1>4, <2>1
    <2>3. \A n \in nodes : n[1] \in Labels BY <1>0, NodesAreLabelled DEF GraphTypeOK
    <2> QED BY <1>1, <1>2, <1>3, <2>1, <2>2, <2>3 DEF Projected
  <1> QED BY <1>0, <1>2, <1>6, <1>7 DEF GraphInv, GraphIsCurrent, ExactAtRest

(* A build under way makes a step, or ends.                                *)
LEMMA BuilderKeeps ==
  ASSUME GraphInv, NEW b \in Builders, ~ NotBuilding(b), NEW w \in Building \cup {NoSnapshot},
         builder' = [builder EXCEPT ![b] = w], builds' = builds,
         nodes' \subseteq AllNodes, relationships' \subseteq AllRelationships,
         NoneDangles(nodes', relationships'),
         w # NoSnapshot /\ w.clean =>
           builder[b].clean /\ Projected(w, nodes', relationships'),
         \/ exact' = exact
         \/ /\ exact' \in Snapshots /\ w = NoSnapshot /\ builder[b].clean
            /\ nodes' = NodesOf(exact') /\ RelationshipsOf(exact') \subseteq relationships'
  PROVE  GraphInv'
  <1>0. GraphTypeOK /\ CleanProjected /\ ExactAtRest BY DEF GraphInv
  <1>1. builder'[b] = w /\ \A c \in Builders \ {b} : builder'[c] = builder[c]
    BY <1>0 DEF GraphTypeOK
  <1>2. exact = NoSnapshot BY <1>0 DEF ExactAtRest
  <1>3. GraphTypeOK' BY <1>0 DEF GraphTypeOK
  <1>4. \A c \in Builders \ {b} : ~ NotBuilding(c) => ~ builder[c].clean
    BY <1>0 DEF CleanProjected
  <1>5. builder[b].clean => \A c \in Builders \ {b} : NotBuilding(c)
    BY <1>0 DEF CleanProjected
  <1>6. CleanProjected' BY <1>1, <1>4, <1>5 DEF CleanProjected, NotBuilding
  <1>7. GraphIsCurrent' BY <1>2 DEF GraphIsCurrent, NoneDangles
  <1>8. ExactAtRest' BY <1>1, <1>2, <1>5 DEF ExactAtRest, NotBuilding
  <1> QED BY <1>3, <1>6, <1>7, <1>8 DEF GraphInv

LEMMA BuilderShape ==
  ASSUME GraphInv, NEW b \in Builders, ~ NotBuilding(b)
  PROVE  /\ builder[b] \in Building /\ nodes \subseteq AllNodes
         /\ relationships \subseteq AllRelationships
         /\ NoneDangles(nodes, relationships)
         /\ builder[b].clean => Projected(builder[b], nodes, relationships)
  BY DEF GraphInv, GraphTypeOK, GraphIsCurrent, CleanProjected, NotBuilding, NoneDangles

LEMMA CreateNodeKeeps == ASSUME GraphInv, NEW b \in Builders, CreateNode(b) PROVE GraphInv'
  <1> DEFINE c == builder[b]
  <1>1. PICK n \in c.write : /\ nodes' = nodes \cup {n}
                             /\ builder' = [builder EXCEPT ![b].write = @ \ {n}]
    BY DEF CreateNode
  <1> DEFINE w == [c EXCEPT !.write = @ \ {n}]
  <1>2. ~ NotBuilding(b) /\ UNCHANGED <<relationships, builds, exact>> BY DEF CreateNode
  <1>3. /\ c \in Building /\ nodes \subseteq AllNodes /\ relationships \subseteq AllRelationships
        /\ NoneDangles(nodes, relationships)
        /\ c.clean => Projected(c, nodes, relationships)
    BY <1>2, BuilderShape
  <1>4. c.write \subseteq AllNodes BY <1>3, BuildingFields
  <1>5. /\ w \in Building /\ w.write = c.write \ {n} /\ w.snapshot = c.snapshot
        /\ w.relate = c.relate /\ w.find = c.find /\ w.prune = c.prune /\ w.clean = c.clean
    BY <1>3, <1>4 DEF Building
  <1>6. builder' = [builder EXCEPT ![b] = w] BY <1>1 DEF GraphInv, GraphTypeOK
  <1>7. NoneDangles(nodes', relationships') BY <1>1, <1>2, <1>3 DEF NoneDangles
  <1>8. w.clean => c.clean /\ Projected(w, nodes', relationships')
    <2> HIDE DEF w, c
    <2> QED BY <1>1, <1>2, <1>3, <1>5 DEF Projected
  <1>9. nodes' \subseteq AllNodes /\ relationships' \subseteq AllRelationships
    BY <1>1, <1>2, <1>3, <1>4
  <1> HIDE DEF w
  <1> QED BY <1>2, <1>5, <1>6, <1>7, <1>8, <1>9, BuilderKeeps

LEMMA GraphFailing ==
  ASSUME GraphInv, NEW b \in Builders, ~ NotBuilding(b), Fails(b),
         UNCHANGED <<nodes, relationships, builds, exact>>
  PROVE  GraphInv'
  <1> DEFINE w == NoSnapshot
  <1>1. /\ nodes \subseteq AllNodes /\ relationships \subseteq AllRelationships
        /\ NoneDangles(nodes, relationships)
    BY BuilderShape
  <1>2. builder' = [builder EXCEPT ![b] = NoSnapshot] BY DEF Fails
  <1> QED BY <1>1, <1>2, BuilderKeeps

LEMMA CreateRelationshipKeeps ==
  ASSUME GraphInv, NEW b \in Builders, CreateRelationship(b) PROVE GraphInv'
  <1> DEFINE c == builder[b]
  <1>1. PICK r \in c.relate :
          IF {r.source, r.target} \subseteq nodes
          THEN /\ relationships' = relationships \cup {r}
               /\ builder' = [builder EXCEPT ![b].relate = @ \ {r}]
          ELSE Fails(b) /\ UNCHANGED relationships
    BY DEF CreateRelationship
  <1> DEFINE w == [c EXCEPT !.relate = @ \ {r}]
  <1>2. ~ NotBuilding(b) /\ UNCHANGED <<nodes, builds, exact>> BY DEF CreateRelationship
  <1>3. /\ c \in Building /\ nodes \subseteq AllNodes /\ relationships \subseteq AllRelationships
        /\ NoneDangles(nodes, relationships)
        /\ c.clean => Projected(c, nodes, relationships)
    BY <1>2, BuilderShape
  <1>4. CASE ~ ({r.source, r.target} \subseteq nodes)
    BY <1>1, <1>2, <1>4, GraphFailing
  <1>5. CASE {r.source, r.target} \subseteq nodes
    <2>1. /\ relationships' = relationships \cup {r}
          /\ builder' = [builder EXCEPT ![b].relate = @ \ {r}]
      BY <1>1, <1>5
    <2>2. c.relate \subseteq AllRelationships BY <1>3, BuildingFields
    <2>3. /\ w \in Building /\ w.relate = c.relate \ {r} /\ w.snapshot = c.snapshot
          /\ w.write = c.write /\ w.find = c.find /\ w.prune = c.prune /\ w.clean = c.clean
      BY <1>3, <2>2 DEF Building
    <2>4. builder' = [builder EXCEPT ![b] = w] BY <2>1 DEF GraphInv, GraphTypeOK
    <2>5. NoneDangles(nodes', relationships') BY <1>2, <1>3, <1>5, <2>1 DEF NoneDangles
    <2>6. w.clean => c.clean /\ Projected(w, nodes', relationships')
      <3> HIDE DEF w, c
      <3> QED BY <1>2, <1>3, <2>1, <2>3 DEF Projected
    <2>7. nodes' \subseteq AllNodes /\ relationships' \subseteq AllRelationships
      BY <1>2, <1>3, <2>1, <2>2
    <2> HIDE DEF w
    <2> QED BY <1>2, <2>3, <2>4, <2>5, <2>6, <2>7, BuilderKeeps
  <1> QED BY <1>4, <1>5

LEMMA FindStaleKeeps == ASSUME GraphInv, NEW b \in Builders, FindStale(b) PROVE GraphInv'
  <1> DEFINE c == builder[b]
  <1>1. PICK label \in c.find : \E f \in Found(label) :
          builder' = [builder EXCEPT ![b].find = @ \ {label},
            ![b].prune = IF label \in PrunedLabels(b) THEN f \ NodesOf(c.snapshot) ELSE {},
            ![b].clean = @ /\ f = OfLabel(label)]
    BY DEF FindStale
  <1>2. PICK found \in Found(label) :
          builder' = [builder EXCEPT ![b].find = @ \ {label},
            ![b].prune = IF label \in PrunedLabels(b) THEN found \ NodesOf(c.snapshot) ELSE {},
            ![b].clean = @ /\ found = OfLabel(label)]
    BY <1>1
  <1>3. /\ ~ NotBuilding(b) /\ c.prune = {} /\ UNCHANGED <<nodes, relationships, builds, exact>>
    BY DEF FindStale, Related
  <1>4. /\ c \in Building /\ nodes \subseteq AllNodes /\ relationships \subseteq AllRelationships
        /\ NoneDangles(nodes, relationships)
        /\ c.clean => Projected(c, nodes, relationships)
    BY <1>3, BuilderShape
  <1>5. /\ c.find \subseteq Labels /\ c.clean \in BOOLEAN /\ label \in PrunedLabels(b)
        /\ found \subseteq nodes
    BY <1>4, BuildingFields DEF PrunedLabels, Found, OfLabel
  <1> DEFINE w == [c EXCEPT !.find = @ \ {label}, !.prune = found \ NodesOf(c.snapshot),
                            !.clean = @ /\ found = OfLabel(label)]
  <1>6. /\ w \in Building /\ w.find = c.find \ {label} /\ w.prune = found \ NodesOf(c.snapshot)
        /\ w.clean = (c.clean /\ found = OfLabel(label))
        /\ w.snapshot = c.snapshot /\ w.write = c.write /\ w.relate = c.relate
    BY <1>4, <1>5 DEF Building
  <1>7. builder' = [builder EXCEPT ![b] = w] BY <1>2, <1>5 DEF GraphInv, GraphTypeOK
  <1>8. w.clean => c.clean /\ Projected(w, nodes', relationships')
    <2> HIDE DEF w, c
    <2> QED BY <1>3, <1>4, <1>6 DEF Projected, OfLabel
  <1> HIDE DEF w
  <1> QED BY <1>3, <1>4, <1>6, <1>7, <1>8, BuilderKeeps

LEMMA DeleteNodeKeeps == ASSUME GraphInv, NEW b \in Builders, DeleteNode(b) PROVE GraphInv'
  <1> DEFINE c == builder[b]
  <1>1. PICK n \in c.prune : /\ nodes' = nodes \ {n} /\ Detach(n)
                             /\ builder' = [builder EXCEPT ![b].prune = @ \ {n}]
    BY DEF DeleteNode
  <1> DEFINE w == [c EXCEPT !.prune = @ \ {n}]
  <1>2. ~ NotBuilding(b) /\ UNCHANGED <<builds, exact>> BY DEF DeleteNode, Related
  <1>3. /\ c \in Building /\ nodes \subseteq AllNodes /\ relationships \subseteq AllRelationships
        /\ NoneDangles(nodes, relationships)
        /\ c.clean => Projected(c, nodes, relationships)
    BY <1>2, BuilderShape
  <1>4. c.prune \subseteq AllNodes /\ c.snapshot \in Snapshots BY <1>3, BuildingFields
  <1>5. /\ w \in Building /\ w.prune = c.prune \ {n} /\ w.snapshot = c.snapshot
        /\ w.write = c.write /\ w.relate = c.relate /\ w.find = c.find /\ w.clean = c.clean
    BY <1>3, <1>4 DEF Building
  <1>6. builder' = [builder EXCEPT ![b] = w] BY <1>1 DEF GraphInv, GraphTypeOK
  <1>7. relationships' = {r \in relationships : n \notin {r.source, r.target}}
    BY <1>1 DEF Detach
  <1>8. NoneDangles(nodes', relationships') BY <1>1, <1>3, <1>7 DEF NoneDangles
  <1>9. w.clean => c.clean /\ Projected(w, nodes', relationships')
    <2> HIDE DEF w, c
    <2> SUFFICES ASSUME w.clean PROVE c.clean /\ Projected(w, nodes', relationships') OBVIOUS
    <2>1. c.clean /\ Projected(c, nodes, relationships) BY <1>3, <1>5
    <2>2. n \notin NodesOf(c.snapshot) BY <1>1, <2>1 DEF Projected
    <2>3. \A r \in RelationshipsOf(c.snapshot) : n \notin {r.source, r.target}
      BY <1>4, <2>2, EndsAreNodes
    <2> QED BY <1>1, <1>5, <1>7, <2>1, <2>2, <2>3 DEF Projected
  <1> HIDE DEF w
  <1> QED BY <1>1, <1>2, <1>3, <1>5, <1>6, <1>7, <1>8, <1>9, BuilderKeeps

LEMMA EndGraphKeeps == ASSUME GraphInv, NEW b \in Builders, EndGraph(b) PROVE GraphInv'
  <1> DEFINE c == builder[b]
  <1>1. /\ ~ NotBuilding(b) /\ c.write = {} /\ c.relate = {} /\ c.find = {} /\ c.prune = {}
        /\ exact' = IF c.clean THEN c.snapshot ELSE NoSnapshot
        /\ builder' = [builder EXCEPT ![b] = NoSnapshot]
        /\ UNCHANGED <<nodes, relationships, builds>>
    BY DEF EndGraph, Related, Fails
  <1>2. /\ c \in Building /\ nodes \subseteq AllNodes /\ relationships \subseteq AllRelationships
        /\ NoneDangles(nodes, relationships)
        /\ c.clean => Projected(c, nodes, relationships)
    BY <1>1, BuilderShape
  <1>3. c.snapshot \in Snapshots BY <1>2, BuildingFields
  <1>4. CASE c.clean
    <2>1. NodesOf(c.snapshot) \subseteq nodes /\ nodes \subseteq NodesOf(c.snapshot)
          /\ RelationshipsOf(c.snapshot) \subseteq relationships
      <3> HIDE DEF c
      <3> QED BY <1>1, <1>2, <1>4 DEF Projected
    <2>2. nodes' = NodesOf(exact') /\ RelationshipsOf(exact') \subseteq relationships'
      BY <1>1, <1>4, <2>1
    <2> QED BY <1>1, <1>2, <1>3, <1>4, <2>2, BuilderKeeps
  <1>5. CASE ~ c.clean
    <2>1. exact' = exact BY <1>1, <1>5 DEF GraphInv, ExactAtRest
    <2> QED BY <1>1, <1>2, <2>1, BuilderKeeps
  <1> QED BY <1>4, <1>5

LEMMA GraphNextInv == GraphInv /\ [GraphNext]_graphVars => GraphInv'
  <1> SUFFICES ASSUME GraphInv, [GraphNext]_graphVars PROVE GraphInv' OBVIOUS
  <1>1. CASE UNCHANGED graphVars
    BY <1>1 DEF graphVars, GraphInv, GraphTypeOK, GraphIsCurrent, CleanProjected, ExactAtRest,
                NotBuilding, Projected
  <1>2. ASSUME NEW b \in Builders, GraphFails(b) PROVE GraphInv'
    BY <1>2, GraphFailing DEF GraphFails
  <1> QED BY <1>1, <1>2, BeginGraphKeeps, CreateNodeKeeps, CreateRelationshipKeeps,
             FindStaleKeeps, DeleteNodeKeeps, EndGraphKeeps DEF GraphNext

(* However builds of the graph failed or overlapped before, one that ends  *)
(* well and alone leaves the nodes of its artifacts; nothing ever dangles. *)
THEOREM GraphAlwaysCurrent == GraphSpec => []GraphIsCurrent
  <1>1. GraphInv => GraphIsCurrent BY DEF GraphInv
  <1> QED BY <1>1, GraphInitInv, GraphNextInv, PTL DEF GraphSpec

HIDE ContextGraphAssumption

(***************************************************************************)
(* ContextPackage.  What a build makes of a schema is finite, and says     *)
(* nothing of a sensitive column.                                          *)
(***************************************************************************)

LEMMA ImageFinite ==
  ASSUME NEW S, IsFiniteSet(S), NEW f, DOMAIN f = S
  PROVE  IsFiniteSet({ f[x] : x \in S })
<1> DEFINE T == { f[x] : x \in S }
           g == [x \in S |-> f[x]]
<1>1. g \in Surjection(S, T) BY DEF Surjection
<1> HIDE DEF g, T
<1>2. IsFiniteSet(T) BY <1>1, FS_Surjection
<1> QED BY <1>2 DEF T

LEMMA UnionFinite ==
  ASSUME NEW S, IsFiniteSet(S), NEW f, DOMAIN f = S, \A x \in S : IsFiniteSet(f[x])
  PROVE  IsFiniteSet(UNION { f[x] : x \in S })
<1> DEFINE T == { f[x] : x \in S }
<1>1. IsFiniteSet(T) BY ImageFinite
<1>2. \A U \in T : IsFiniteSet(U) OBVIOUS
<1> HIDE DEF T
<1>3. IsFiniteSet(UNION T) BY <1>1, <1>2, FS_UNION
<1> QED BY <1>3 DEF T

LEMMA ColumnsFinite ==
  ASSUME NEW schema, IsSchema(schema), NEW t \in DOMAIN schema
  PROVE  IsFiniteSet(Columns(schema, t))
<1> DEFINE columns == schema[t].columns
<1>1. columns \in Seq(ColumnRecords) BY DEF IsSchema, TableRecords
<1> HIDE DEF columns
<1>2. DOMAIN columns = 1 .. Len(columns) /\ Len(columns) \in Nat BY <1>1
<1>3. IsFiniteSet(DOMAIN columns) BY <1>2, FS_Interval
<1>4. IsFiniteSet({ columns[i] : i \in DOMAIN columns }) BY <1>3, ImageFinite
<1> QED BY <1>4 DEF Columns, Range, columns

LEMMA AllColumnsFinite ==
  ASSUME NEW schema, IsSchema(schema)
  PROVE  IsFiniteSet(AllColumns(schema))
<1> DEFINE f == [t \in DOMAIN schema |-> {t} \X Columns(schema, t)]
<1>1. \A t \in DOMAIN schema : IsFiniteSet(f[t])
  <2> SUFFICES ASSUME NEW t \in DOMAIN schema PROVE IsFiniteSet({t} \X Columns(schema, t))
    OBVIOUS
  <2> QED BY ColumnsFinite, FS_Singleton, FS_Product
<1>2. IsFiniteSet(DOMAIN schema) BY DEF IsSchema
<1>3. AllColumns(schema) = UNION { f[t] : t \in DOMAIN schema } BY DEF AllColumns
<1>4. DOMAIN f = DOMAIN schema OBVIOUS
<1> HIDE DEF f
<1> QED BY <1>1, <1>2, <1>3, <1>4, UnionFinite

LEMMA ForeignKeysFinite ==
  ASSUME NEW schema, IsSchema(schema)
  PROVE  IsFiniteSet(ForeignKeys(schema))
<1> DEFINE EdgesOf(t) == { Edge(t, fk.column, fk.table, fk.key, "fk") : fk \in schema[t].foreign }
           f == [t \in DOMAIN schema |-> EdgesOf(t)]
<1>1. ASSUME NEW t \in DOMAIN schema PROVE IsFiniteSet(EdgesOf(t))
  <2> DEFINE g == [fk \in schema[t].foreign |-> Edge(t, fk.column, fk.table, fk.key, "fk")]
  <2>1. IsFiniteSet(schema[t].foreign) BY DEF IsSchema
  <2>2. EdgesOf(t) = { g[fk] : fk \in schema[t].foreign } /\ DOMAIN g = schema[t].foreign OBVIOUS
  <2> HIDE DEF g, EdgesOf
  <2> QED BY <2>1, <2>2, ImageFinite
<1>2. IsFiniteSet(DOMAIN schema) BY DEF IsSchema
<1>3. ForeignKeys(schema) = UNION { f[t] : t \in DOMAIN schema } BY DEF ForeignKeys
<1>4. DOMAIN f = DOMAIN schema /\ \A t \in DOMAIN schema : f[t] = EdgesOf(t) OBVIOUS
<1> HIDE DEF f, EdgesOf
<1> QED BY <1>1, <1>2, <1>3, <1>4, UnionFinite

LEMMA InferredJoinsFinite ==
  ASSUME NEW schema, IsSchema(schema)
  PROVE  IsFiniteSet(InferredJoins(schema))
<1> DEFINE keys(p) == { key \in AllColumns(schema) : MayJoin(schema, p, key) }
           EdgesOf(p) == { Edge(p[1], p[2].name, k[1], k[2].name, "inferred") : k \in keys(p) }
           f == [p \in AllColumns(schema) |-> EdgesOf(p)]
<1>1. ASSUME NEW p \in AllColumns(schema) PROVE IsFiniteSet(EdgesOf(p))
  <2> DEFINE g == [k \in keys(p) |-> Edge(p[1], p[2].name, k[1], k[2].name, "inferred")]
  <2>1. IsFiniteSet(keys(p))
    <3>1. keys(p) \in SUBSET AllColumns(schema) OBVIOUS
    <3> HIDE DEF keys
    <3> QED BY <3>1, AllColumnsFinite, FS_Subset
  <2>2. EdgesOf(p) = { g[k] : k \in keys(p) } /\ DOMAIN g = keys(p) OBVIOUS
  <2> HIDE DEF g, EdgesOf, keys
  <2> QED BY <2>1, <2>2, ImageFinite
<1>2. InferredJoins(schema) = UNION { f[p] : p \in AllColumns(schema) } BY DEF InferredJoins
<1>3. DOMAIN f = AllColumns(schema) /\ \A p \in AllColumns(schema) : f[p] = EdgesOf(p) OBVIOUS
<1> HIDE DEF f, EdgesOf
<1> QED BY <1>1, <1>2, <1>3, AllColumnsFinite, UnionFinite

LEMMA TopologyFinite ==
  ASSUME NEW schema, IsSchema(schema)
  PROVE  IsFiniteSet(Topology(schema))
BY ForeignKeysFinite, InferredJoinsFinite, FS_Union DEF Topology

LEMMA GrainsFinite ==
  ASSUME NEW schema, IsSchema(schema), NEW profiles
  PROVE  IsFiniteSet(Grains(schema, profiles))
<1> DEFINE g == [t \in DOMAIN schema |->
                   [table |-> t, confidence |-> KeyConfidence(schema, profiles, t)]]
<1>1. IsFiniteSet(DOMAIN schema) BY DEF IsSchema
<1>2. Grains(schema, profiles) = { g[t] : t \in DOMAIN schema } /\ DOMAIN g = DOMAIN schema
  BY DEF Grains
<1> HIDE DEF g
<1> QED BY <1>1, <1>2, ImageFinite

LEMMA MetricGrainsFinite ==
  ASSUME NEW grains, NEW metered, IsFiniteSet(metered)
  PROVE  IsFiniteSet(MetricGrains(grains, metered))
<1> DEFINE of(m) == { grain \in grains : grain.table = m.table }
           Grain(m) == [metric |-> m.name,
                        valid_at |-> IF of(m) = {} THEN "unknown" ELSE m.table,
                        caveat |-> of(m) = {} \/ \E grain \in of(m) : grain.confidence < 50]
           g == [m \in metered |-> Grain(m)]
<1>1. MetricGrains(grains, metered) = { Grain(m) : m \in metered } BY DEF MetricGrains
<1> HIDE DEF Grain
<1>2. { Grain(m) : m \in metered } = { g[m] : m \in metered } /\ DOMAIN g = metered OBVIOUS
<1> HIDE DEF g
<1> QED BY <1>1, <1>2, ImageFinite

(* No role, and no value, of a sensitive column.                           *)
Discreet(profile) ==
  \A p \in profile : p.name \in Sensitive => p.roles = <<>> /\ ~ p.shown

DiscreetProfiles(profiles) ==
  /\ IsFiniteSet(DOMAIN profiles)
  /\ \A t \in DOMAIN profiles : IsFiniteSet(profiles[t]) /\ Discreet(profiles[t])

LEMMA HintedDiscreet ==
  ASSUME NEW table, NEW column \in Hinted(table)
  PROVE  column.name \notin Sensitive
BY DEF Hinted

LEMMA ProfileTableDiscreet ==
  ASSUME NEW schema, IsSchema(schema), NEW t \in DOMAIN schema
  PROVE  IsFiniteSet(ProfileTable(schema[t])) /\ Discreet(ProfileTable(schema[t]))
<1> DEFINE table == schema[t]
           Profile(column) ==
             [name |-> column.name, roles |-> Roles(column, table.rows),
              sensitive |-> column.name \in Sensitive,
              shown |-> ReadsValues(column, table)]
           g == [column \in Columns(schema, t) |-> Profile(column)]
<1>1. ProfileTable(table) = { Profile(column) : column \in Columns(schema, t) }
  BY DEF ProfileTable, Columns
<1>2. ASSUME NEW column, column.name \in Sensitive
      PROVE  Profile(column).roles = <<>> /\ ~ Profile(column).shown
  BY <1>2, HintedDiscreet DEF Roles, ReadsValues
<1>3. \A column : Profile(column).name = column.name OBVIOUS
<1>4. { Profile(column) : column \in Columns(schema, t) }
        = { g[column] : column \in Columns(schema, t) } /\ DOMAIN g = Columns(schema, t)
  OBVIOUS
<1> HIDE DEF Profile
<1>5. Discreet(ProfileTable(table)) BY <1>1, <1>2, <1>3 DEF Discreet
<1> HIDE DEF g
<1>6. IsFiniteSet(Columns(schema, t)) BY ColumnsFinite
<1>7. IsFiniteSet({ g[column] : column \in Columns(schema, t) })
  BY <1>4, <1>6, ImageFinite
<1> QED BY <1>1, <1>4, <1>5, <1>7

LEMMA ProfilesDiscreet ==
  ASSUME NEW schema, IsSchema(schema)
  PROVE  /\ DiscreetProfiles(Profiles(schema, DOMAIN schema))
<1>1. /\ DOMAIN Profiles(schema, DOMAIN schema) = DOMAIN schema
      /\ \A t \in DOMAIN schema :
           Profiles(schema, DOMAIN schema)[t] = ProfileTable(schema[t])
  BY DEF Profiles
<1>2. IsFiniteSet(DOMAIN schema) BY DEF IsSchema
<1> QED BY <1>1, <1>2, ProfileTableDiscreet DEF DiscreetProfiles

(* No member of a category is sensitive.                                   *)
DiscreetNodes(found) ==
  IsFiniteSet(found) /\ \A n \in found : n.members \cap Sensitive = {}

LEMMA TaxonomyDiscreet ==
  ASSUME NEW profiles, DiscreetProfiles(profiles)
  PROVE  DiscreetNodes(Taxonomy(profiles))
<1> DEFINE Node(t, role) == [kind |-> "category", table |-> t, category |-> role,
                             members |-> Categorised(profiles[t], role)]
           Subdomain(t) == [kind |-> "subdomain", table |-> t, category |-> "none",
                            members |-> {}]
           Grouped(t) == { Node(t, role) : role \in CategoryRoles }
           HeldOf(t) == {Subdomain(t)} \cup { n \in Grouped(t) : n.members # {} }
           f == [t \in DOMAIN profiles |-> HeldOf(t)]
<1>1. Taxonomy(profiles) = UNION { f[t] : t \in DOMAIN profiles } BY DEF Taxonomy
<1>2. ASSUME NEW t \in DOMAIN profiles, NEW role
      PROVE  Node(t, role).members \cap Sensitive = {}
  BY DEF Categorised, DiscreetProfiles, Discreet
<1>3. \A t : Subdomain(t).members = {} OBVIOUS
<1>4. ASSUME NEW t \in DOMAIN profiles PROVE IsFiniteSet(Grouped(t))
  <2> DEFINE g == [role \in CategoryRoles |-> Node(t, role)]
  <2>1. Grouped(t) = { g[role] : role \in CategoryRoles } /\ DOMAIN g = CategoryRoles
    OBVIOUS
  <2>2. IsFiniteSet(CategoryRoles) 
    <3> DEFINE three == {"identifier"} \cup {"flag"} \cup {"measure"}
    <3>1. IsFiniteSet(three) BY FS_Singleton, FS_Union
    <3>2. CategoryRoles = three \cup ({"temporal"} \cup {"dimension"}) BY DEF CategoryRoles
    <3>3. IsFiniteSet({"temporal"} \cup {"dimension"}) BY FS_Singleton, FS_Union
    <3> HIDE DEF three
    <3> QED BY <3>1, <3>2, <3>3, FS_Union
  <2> HIDE DEF g, Grouped
  <2> QED BY <2>1, <2>2, ImageFinite
<1> HIDE DEF Node, Subdomain
<1>5. ASSUME NEW t \in DOMAIN profiles
      PROVE  IsFiniteSet(HeldOf(t)) /\ \A n \in HeldOf(t) : n.members \cap Sensitive = {}
  <2>1. \A n \in HeldOf(t) : n.members \cap Sensitive = {} BY <1>2, <1>3
  <2> DEFINE held == { n \in Grouped(t) : n.members # {} }
  <2>2. held \in SUBSET Grouped(t) OBVIOUS
  <2> HIDE DEF Grouped
  <2>3. HeldOf(t) = {Subdomain(t)} \cup held OBVIOUS
  <2> HIDE DEF held, HeldOf
  <2>4. IsFiniteSet(held) BY <1>4, <2>2, FS_Subset
  <2>5. IsFiniteSet({Subdomain(t)}) BY FS_Singleton
  <2>6. IsFiniteSet({Subdomain(t)} \cup held) BY <2>4, <2>5, FS_Union
  <2> QED BY <2>1, <2>3, <2>6
<1>6. DOMAIN f = DOMAIN profiles /\ \A t \in DOMAIN profiles : f[t] = HeldOf(t) OBVIOUS
<1> HIDE DEF f, HeldOf
<1>7. IsFiniteSet(Taxonomy(profiles))
  BY <1>1, <1>5, <1>6, UnionFinite DEF DiscreetProfiles
<1>8. \A n \in Taxonomy(profiles) : n.members \cap Sensitive = {} BY <1>1, <1>5, <1>6
<1> QED BY <1>7, <1>8 DEF DiscreetNodes

(***************************************************************************)
(* The budget.                                                             *)
(***************************************************************************)

TrustNames == {"untrusted", "proposed", "structural", "validated", "system"}

Section(section) == section # NoSection => IsFiniteSet(section.items) /\ section.trust \in TrustNames

SectionsOK(s) ==
  /\ DOMAIN s = OptionalSections
  /\ DiscreetProfiles(s.profiles)
  /\ Section(s.taxonomy) /\ Section(s.topology) /\ Section(s.ontology)
  /\ s.taxonomy # NoSection => DiscreetNodes(s.taxonomy.items)
  /\ IsFiniteSet(s.metrics)

LEMMA ItemsCost ==
  ASSUME NEW name \in {"taxonomy", "topology", "ontology", "granularity"}, NEW section,
         section # NoSection => IsFiniteSet(section.items)
  PROVE  Cost(name, section) \in Nat
<1>1. CASE section = NoSection
  <2>1. Cost(name, section) = 0 BY <1>1 DEF Cost
  <2> QED BY <2>1
<1>2. CASE section # NoSection
  <2>1. Cost(name, section) = 1 + Cardinality(section.items) BY <1>2 DEF Cost
  <2>2. Cardinality(section.items) \in Nat BY <1>2, FS_CardinalityType
  <2> QED BY <2>1, <2>2
<1> QED BY <1>1, <1>2

LEMMA MetricsCost ==
  ASSUME NEW metered, IsFiniteSet(metered)
  PROVE  /\ Cost("metrics", metered) \in Nat
         /\ metered = {} <=> Cost("metrics", metered) = 0
<1>1. Cardinality(metered) \in Nat /\ (metered = {} <=> Cardinality(metered) = 0)
  BY FS_CardinalityType, FS_EmptySet
<1>2. Cost("metrics", metered) = Cardinality(metered) BY DEF Cost
<1> QED BY <1>1, <1>2

LEMMA ProfilesCost ==
  ASSUME NEW profiles, DiscreetProfiles(profiles)
  PROVE  /\ Cost("profiles", profiles) \in Nat
         /\ DOMAIN profiles = {} => Cost("profiles", profiles) = 0
<1> DEFINE f == [t \in DOMAIN profiles |-> {t} \X profiles[t]]
           columns == UNION { {t} \X profiles[t] : t \in DOMAIN profiles }
<1>1. \A t \in DOMAIN profiles : IsFiniteSet(f[t])
  <2> SUFFICES ASSUME NEW t \in DOMAIN profiles PROVE IsFiniteSet({t} \X profiles[t])
    OBVIOUS
  <2> QED BY FS_Singleton, FS_Product DEF DiscreetProfiles
<1>2. columns = UNION { f[t] : t \in DOMAIN profiles } /\ DOMAIN f = DOMAIN profiles OBVIOUS
<1>3. DOMAIN profiles = {} => columns = {} OBVIOUS
<1> HIDE DEF f
<1>4. IsFiniteSet(columns)
  <2> HIDE DEF columns
  <2> QED BY <1>1, <1>2, UnionFinite DEF DiscreetProfiles
<1>5. Cost("profiles", profiles) = Cardinality(DOMAIN profiles) + Cardinality(columns)
  BY DEF Cost
<1> HIDE DEF columns
<1>6. Cardinality(DOMAIN profiles) \in Nat /\ Cardinality(columns) \in Nat
  BY <1>4, FS_CardinalityType DEF DiscreetProfiles
<1>7. DOMAIN profiles = {} => Cardinality(DOMAIN profiles) = 0 /\ Cardinality(columns) = 0
  BY <1>3, FS_EmptySet
<1> QED BY <1>5, <1>6, <1>7

LEMMA CostTyped ==
  ASSUME NEW s, SectionsOK(s), NEW name \in OptionalSections
  PROVE  Cost(name, s[name]) \in Nat
BY ItemsCost, MetricsCost, ProfilesCost DEF SectionsOK, Section, OptionalSections

LEMMA AbsentCost ==
  ASSUME NEW name \in OptionalSections
  PROVE  Cost(name, Absent(name)) = 0
<1>1. CASE name = "profiles"
  <2>1. Absent(name) = [t \in {} |-> {}] BY <1>1 DEF Absent
  <2>2. DOMAIN Absent(name) = {} BY <2>1
  <2>3. DiscreetProfiles(Absent(name)) BY <2>2, FS_EmptySet DEF DiscreetProfiles
  <2> QED BY <1>1, <2>2, <2>3, ProfilesCost
<1>2. CASE name = "metrics"
  <2>1. Absent(name) = {} BY <1>2 DEF Absent
  <2> QED BY <1>2, <2>1, MetricsCost, FS_EmptySet
<1>3. CASE name \notin {"profiles", "metrics"}
  <2>1. Absent(name) = NoSection BY <1>3 DEF Absent
  <2> QED BY <1>3, <2>1 DEF Cost
<1> QED BY <1>1, <1>2, <1>3

(* Replacing a section by itself or by none, or the metrics by some of     *)
(* them.                                                                   *)
LEMMA SectionsStay ==
  ASSUME NEW s, SectionsOK(s), NEW name \in OptionalSections, NEW section,
         \/ section = s[name] \/ section = Absent(name)
         \/ name = "metrics" /\ IsFiniteSet(section)
  PROVE  /\ SectionsOK([s EXCEPT ![name] = section])
         /\ [s EXCEPT ![name] = section][name] = section
         /\ \A other \in OptionalSections \ {name} : [s EXCEPT ![name] = section][other] = s[other]
<1> DEFINE r == [s EXCEPT ![name] = section]
<1>1. DOMAIN r = OptionalSections BY DEF SectionsOK
<1>2. r[name] = section /\ \A other \in OptionalSections \ {name} : r[other] = s[other]
  BY DEF SectionsOK
<1> HIDE DEF r
<1>3. CASE section = s[name]
  <2>1. \A other \in OptionalSections : r[other] = s[other] BY <1>2, <1>3
  <2>2. SectionsOK(r) BY <1>1, <2>1 DEF SectionsOK, OptionalSections
  <2> QED BY <1>2, <2>2 DEF r
<1>4. CASE name = "profiles" /\ section = Absent(name)
  <2>1. DOMAIN section = {} BY <1>4 DEF Absent
  <2>2. DiscreetProfiles(section) BY <2>1, FS_EmptySet DEF DiscreetProfiles
  <2>3. SectionsOK(r) BY <1>1, <1>2, <1>4, <2>2 DEF SectionsOK, OptionalSections
  <2> QED BY <1>2, <2>3 DEF r
<1>5. CASE name = "metrics" /\ section # s[name]
  <2>1. IsFiniteSet(section) BY <1>5, FS_EmptySet DEF Absent
  <2>2. SectionsOK(r) BY <1>1, <1>2, <1>5, <2>1 DEF SectionsOK, OptionalSections
  <2> QED BY <1>2, <2>2 DEF r
<1>6. CASE name \notin {"profiles", "metrics"} /\ section # s[name]
  <2>1. section = NoSection BY <1>6 DEF Absent
  <2>2. Section(section) BY <2>1 DEF Section
  <2>3. SectionsOK(r) BY <1>1, <1>2, <1>6, <2>1, <2>2 DEF SectionsOK, OptionalSections
  <2> QED BY <1>2, <2>3 DEF r
<1> QED BY <1>3, <1>4, <1>5, <1>6

(* What is composed so far.                                                *)
Composing(x) ==
  /\ DOMAIN x = {"sections", "tokens", "dropped"}
  /\ SectionsOK(x.sections)
  /\ x.tokens \in Nat /\ x.tokens <= package.budget
  /\ x.dropped \subseteq OptionalSections

(* A section considered is paid for, or was dropped.                       *)
Considered(x, y, name) ==
  /\ \A other \in OptionalSections \ {name} : y.sections[other] = x.sections[other]
  /\ y.tokens = x.tokens + Cost(name, y.sections[name])
  /\ x.dropped \subseteq y.dropped
  /\ Cost(name, y.sections[name]) = 0 /\ Cost(name, x.sections[name]) > 0 => name \in y.dropped

LEMMA WithSection ==
  ASSUME NEW x, Composing(x), NEW name \in OptionalSections, NEW section,
         SectionsOK([x.sections EXCEPT ![name] = section]),
         Cost(name, section) \in Nat, x.tokens + Cost(name, section) <= package.budget
  PROVE  /\ Composing(With(x, name, section))
         /\ With(x, name, section).sections = [x.sections EXCEPT ![name] = section]
         /\ With(x, name, section).tokens = x.tokens + Cost(name, section)
         /\ With(x, name, section).dropped = x.dropped
<1> DEFINE y == With(x, name, section)
<1>1. /\ DOMAIN y = DOMAIN x /\ y.dropped = x.dropped
      /\ y.sections = [x.sections EXCEPT ![name] = section]
      /\ y.tokens = x.tokens + Cost(name, section)
  BY DEF Composing, With
<1>2. x.tokens + Cost(name, section) \in Nat BY DEF Composing
<1> HIDE DEF y
<1>3. Composing(y) BY <1>1, <1>2 DEF Composing
<1> QED BY <1>1, <1>3 DEF y

LEMMA WithoutSection ==
  ASSUME NEW x, Composing(x), NEW name \in OptionalSections,
         SectionsOK([x.sections EXCEPT ![name] = Absent(name)])
  PROVE  /\ Composing(Without(x, name))
         /\ Without(x, name).sections = [x.sections EXCEPT ![name] = Absent(name)]
         /\ Without(x, name).tokens = x.tokens
         /\ Without(x, name).dropped = x.dropped \cup {name}
<1> DEFINE y == Without(x, name)
<1>1. /\ DOMAIN y = DOMAIN x /\ y.dropped = x.dropped \cup {name}
      /\ y.sections = [x.sections EXCEPT ![name] = Absent(name)]
      /\ y.tokens = x.tokens
  BY DEF Composing, Without
<1> HIDE DEF y
<1>2. Composing(y) BY <1>1 DEF Composing
<1> QED BY <1>1, <1>2 DEF y

LEMMA ConsiderFits ==
  ASSUME NEW x, Composing(x), NEW name \in OptionalSections,
         package.budget \in Nat, IsFiniteSet(package.relevant)
  PROVE  Composing(Consider(name, x)) /\ Considered(x, Consider(name, x), name)
<1> DEFINE whole == x.sections[name]
           trimmed == package.relevant
           y == Consider(name, x)
<1>1. SectionsOK(x.sections) /\ name \in DOMAIN x.sections BY DEF Composing, SectionsOK
<1>2. Cost(name, whole) \in Nat BY <1>1, CostTyped
<1>3. name = "metrics" => Cost(name, trimmed) \in Nat /\ (trimmed = {} <=> Cost(name, trimmed) = 0)
  BY MetricsCost
<1>4. \/ /\ x.tokens + Cost(name, whole) <= package.budget
         /\ y = With(x, name, whole)
      \/ /\ name = "metrics" /\ trimmed # {} /\ x.tokens + Cost(name, trimmed) <= package.budget
         /\ y = With(x, name, trimmed)
      \/ y = Without(x, name)
  BY DEF Consider, Fits
<1>5. CASE /\ x.tokens + Cost(name, whole) <= package.budget
           /\ y = With(x, name, whole)
  <2> DEFINE kept == [x.sections EXCEPT ![name] = whole]
  <2>1. /\ SectionsOK(kept) /\ kept[name] = whole
        /\ \A other \in OptionalSections \ {name} : kept[other] = x.sections[other]
    BY <1>1, SectionsStay
  <2>2. /\ Composing(y) /\ y.sections = kept
        /\ y.tokens = x.tokens + Cost(name, whole) /\ y.dropped = x.dropped
    BY <1>2, <1>5, <2>1, WithSection
  <2> HIDE DEF y, kept
  <2> QED BY <1>2, <1>5, <2>1, <2>2 DEF Considered, y
<1>6. CASE /\ name = "metrics" /\ trimmed # {} /\ x.tokens + Cost(name, trimmed) <= package.budget
           /\ y = With(x, name, trimmed)
  <2> DEFINE kept == [x.sections EXCEPT ![name] = trimmed]
  <2>1. /\ SectionsOK(kept) /\ kept[name] = trimmed
        /\ \A other \in OptionalSections \ {name} : kept[other] = x.sections[other]
    <3> HIDE DEF trimmed
    <3>1. IsFiniteSet(trimmed) BY DEF trimmed
    <3> QED BY <1>1, <1>6, <3>1, SectionsStay
  <2>2. /\ Composing(y) /\ y.sections = kept
        /\ y.tokens = x.tokens + Cost(name, trimmed) /\ y.dropped = x.dropped
    BY <1>3, <1>6, <2>1, WithSection
  <2> HIDE DEF y, kept
  <2> QED BY <1>3, <1>6, <2>1, <2>2 DEF Considered, y
<1>7. CASE y = Without(x, name)
  <2> DEFINE absent == Absent(name)
             kept == [x.sections EXCEPT ![name] = absent]
  <2>1. /\ SectionsOK(kept) /\ kept[name] = absent
        /\ \A other \in OptionalSections \ {name} : kept[other] = x.sections[other]
    <3> HIDE DEF absent
    <3>1. absent = Absent(name) BY DEF absent
    <3> QED BY <1>1, <3>1, SectionsStay
  <2>2. /\ Composing(y) /\ y.sections = kept
        /\ y.tokens = x.tokens /\ y.dropped = x.dropped \cup {name}
    BY <1>7, <2>1, WithoutSection
  <2>3. Cost(name, absent) = 0 /\ x.tokens \in Nat BY AbsentCost DEF Composing
  <2> HIDE DEF y, kept, absent
  <2> QED BY <1>7, <2>1, <2>2, <2>3 DEF Considered, y
<1> QED BY <1>4, <1>5, <1>6, <1>7

(* What is not there any more is listed as dropped.                        *)
DroppedReported(sections, retrieved, dropped) ==
  \A name \in OptionalSections :
    Cost(name, sections[name]) = 0 /\ Cost(name, retrieved[name]) > 0 => name \in dropped

LEMMA ComposedFits ==
  ASSUME SectionsOK(package.sections), package.budget \in Nat, IsFiniteSet(package.relevant),
         Mandatory \in Nat, ~ (Mandatory > package.budget)
  PROVE  /\ Composing(Composed)
         /\ Composed.tokens = Mandatory + Spent(Composed.sections)
         /\ DroppedReported(Composed.sections, package.sections, Composed.dropped)
<1> DEFINE a == Consider("profiles", Start)
           b == Consider("taxonomy", a)
           c == Consider("topology", b)
           d == Consider("ontology", c)
           e == Consider("metrics", d)
<1>1. Composed = e BY DEF Composed
<1>2. Composing(Start) /\ Start.sections = package.sections /\ Start.tokens = Mandatory
  BY DEF Composing, Start
<1>3. Composing(a) /\ Considered(Start, a, "profiles")
  BY <1>2, ConsiderFits DEF OptionalSections
<1> HIDE DEF a
<1>4. Composing(b) /\ Considered(a, b, "taxonomy")
  BY <1>3, ConsiderFits DEF OptionalSections
<1> HIDE DEF b
<1>5. Composing(c) /\ Considered(b, c, "topology")
  BY <1>4, ConsiderFits DEF OptionalSections
<1> HIDE DEF c
<1>6. Composing(d) /\ Considered(c, d, "ontology")
  BY <1>5, ConsiderFits DEF OptionalSections
<1> HIDE DEF d
<1>7. Composing(e) /\ Considered(d, e, "metrics")
  BY <1>6, ConsiderFits DEF OptionalSections
<1> HIDE DEF e
<1>8. /\ Start.sections.taxonomy = a.sections.taxonomy
      /\ Start.sections.topology = b.sections.topology
      /\ Start.sections.ontology = c.sections.ontology
      /\ Start.sections.metrics = d.sections.metrics
      /\ a.sections.profiles = e.sections.profiles
      /\ b.sections.taxonomy = e.sections.taxonomy
      /\ c.sections.topology = e.sections.topology
      /\ d.sections.ontology = e.sections.ontology
  <2>1. /\ \A n \in OptionalSections \ {"profiles"} : a.sections[n] = Start.sections[n]
        /\ \A n \in OptionalSections \ {"taxonomy"} : b.sections[n] = a.sections[n]
        /\ \A n \in OptionalSections \ {"topology"} : c.sections[n] = b.sections[n]
        /\ \A n \in OptionalSections \ {"ontology"} : d.sections[n] = c.sections[n]
        /\ \A n \in OptionalSections \ {"metrics"} : e.sections[n] = d.sections[n]
    BY <1>3, <1>4, <1>5, <1>6, <1>7 DEF Considered
  <2> QED BY <2>1 DEF OptionalSections
<1>9. /\ a.tokens = Mandatory + Cost("profiles", e.sections.profiles)
      /\ b.tokens = a.tokens + Cost("taxonomy", e.sections.taxonomy)
      /\ c.tokens = b.tokens + Cost("topology", e.sections.topology)
      /\ d.tokens = c.tokens + Cost("ontology", e.sections.ontology)
      /\ e.tokens = d.tokens + Cost("metrics", e.sections.metrics)
  BY <1>2, <1>3, <1>4, <1>5, <1>6, <1>7, <1>8 DEF Considered
<1>10. \A n \in OptionalSections : Cost(n, e.sections[n]) \in Nat
  BY <1>7, CostTyped DEF Composing
<1>11. e.tokens = Mandatory + Spent(e.sections)
  BY <1>9, <1>10 DEF Spent, OptionalSections
<1>12. a.dropped \subseteq e.dropped /\ b.dropped \subseteq e.dropped
       /\ c.dropped \subseteq e.dropped /\ d.dropped \subseteq e.dropped
  BY <1>4, <1>5, <1>6, <1>7 DEF Considered
<1>13. DroppedReported(e.sections, package.sections, e.dropped)
  <2>1. /\ Cost("profiles", e.sections.profiles) = 0 /\ Cost("profiles", Start.sections.profiles) > 0
             => "profiles" \in e.dropped
    BY <1>3, <1>8, <1>12 DEF Considered
  <2>2. /\ Cost("taxonomy", e.sections.taxonomy) = 0 /\ Cost("taxonomy", Start.sections.taxonomy) > 0
             => "taxonomy" \in e.dropped
    BY <1>4, <1>8, <1>12 DEF Considered
  <2>3. /\ Cost("topology", e.sections.topology) = 0 /\ Cost("topology", Start.sections.topology) > 0
             => "topology" \in e.dropped
    BY <1>5, <1>8, <1>12 DEF Considered
  <2>4. /\ Cost("ontology", e.sections.ontology) = 0 /\ Cost("ontology", Start.sections.ontology) > 0
             => "ontology" \in e.dropped
    BY <1>6, <1>8, <1>12 DEF Considered
  <2>5. /\ Cost("metrics", e.sections.metrics) = 0 /\ Cost("metrics", Start.sections.metrics) > 0
             => "metrics" \in e.dropped
    BY <1>7, <1>8 DEF Considered
  <2> QED BY <1>2, <2>1, <2>2, <2>3, <2>4, <2>5 DEF DroppedReported, OptionalSections
<1> QED BY <1>1, <1>7, <1>11, <1>13

(* The meanings a package names are of no sensitive column.                *)
LEMMA SemanticsDiscreet ==
  ASSUME NEW s, SectionsOK(s), NEW meaning \in Semantics(s)
  PROVE  meaning[3] \notin Sensitive
<1>1. CASE meaning \in ByCategory(s.taxonomy)
  <2>1. s.taxonomy # NoSection BY <1>1 DEF ByCategory
  <2>2. PICK n \in s.taxonomy.items : \E name \in n.members : meaning = <<n.category, n.table, name>>
    BY <1>1, <2>1 DEF ByCategory
  <2>3. PICK name \in n.members : meaning = <<n.category, n.table, name>> BY <2>2
  <2>4. n.members \cap Sensitive = {} BY <2>1 DEF SectionsOK, DiscreetNodes
  <2>5. meaning[3] = name BY <2>3
  <2> QED BY <2>3, <2>4, <2>5
<1>2. CASE meaning \in ByRole(s.profiles)
  <2>1. PICK t \in DOMAIN s.profiles : \E p \in s.profiles[t] :
          \E role \in Named \cap Range(p.roles) : meaning = <<role, t, p.name>>
    BY <1>2 DEF ByRole
  <2>2. PICK p \in s.profiles[t] :
          \E role \in Named \cap Range(p.roles) : meaning = <<role, t, p.name>>
    BY <2>1
  <2>3. PICK role \in Named \cap Range(p.roles) : meaning = <<role, t, p.name>>
    BY <2>2
  <2>4. meaning[3] = p.name BY <2>3
  <2>5. p.roles # <<>>
    <3>1. Range(<<>>) = {} BY DEF Range
    <3> QED BY <2>3, <3>1
  <2> QED BY <2>4, <2>5 DEF SectionsOK, DiscreetProfiles, Discreet
<1> QED BY <1>1, <1>2 DEF Semantics

(* The trust of a package is one there is.                                 *)
LEMMA Levels ==
  /\ DOMAIN Trusts = 1 .. 5 /\ Range(Trusts) = TrustNames
  /\ \A trust \in TrustNames : Level(trust) \in 1 .. 5
<1>1. /\ DOMAIN Trusts = 1 .. 5
      /\ Trusts[1] = "untrusted" /\ Trusts[2] = "proposed" /\ Trusts[3] = "structural"
      /\ Trusts[4] = "validated" /\ Trusts[5] = "system"
  BY DEF Trusts
<1>2. Range(Trusts) = TrustNames
  <2>1. Range(Trusts) = { Trusts[i] : i \in 1 .. 5 } BY <1>1 DEF Range
  <2>2. 1 .. 5 = {1, 2, 3, 4, 5} OBVIOUS
  <2> QED BY <1>1, <2>1, <2>2 DEF TrustNames
<1>3. ASSUME NEW trust \in TrustNames PROVE Level(trust) \in 1 .. 5
  <2>1. \E i \in DOMAIN Trusts : Trusts[i] = trust BY <1>2 DEF Range
  <2> QED BY <1>1, <2>1 DEF Level
<1> QED BY <1>1, <1>2, <1>3

LEMMA LeastLevel ==
  ASSUME NEW S, S \subseteq 1 .. 5, S # {}
  PROVE  Min(S) \in S
<1>1. \E x \in S : \A y \in S : x <= y
  <2>1. CASE 1 \in S BY <2>1
  <2>2. CASE 1 \notin S /\ 2 \in S BY <2>2
  <2>3. CASE 1 \notin S /\ 2 \notin S /\ 3 \in S BY <2>3
  <2>4. CASE 1 \notin S /\ 2 \notin S /\ 3 \notin S /\ 4 \in S BY <2>4
  <2>5. CASE 1 \notin S /\ 2 \notin S /\ 3 \notin S /\ 4 \notin S
    <3>1. \A y \in S : y = 5 BY <2>5
    <3>2. PICK x \in S : TRUE OBVIOUS
    <3>3. \A y \in S : x <= y BY <3>1
    <3> QED BY <3>3
  <2> QED BY <2>1, <2>2, <2>3, <2>4, <2>5
<1> QED BY <1>1 DEF Min

LEMMA FloorTyped ==
  ASSUME NEW s, SectionsOK(s)
  PROVE  TrustFloor(s) \in TrustNames
<1> DEFINE held == { s[name] : name \in {"topology", "taxonomy", "ontology"} } \ {NoSection}
           levels == { Level(section.trust) : section \in held } \cup {Level("structural")}
<1>1. \A section \in held : section.trust \in TrustNames BY DEF SectionsOK, Section
<1> HIDE DEF held
<1>2. levels \subseteq 1 .. 5 /\ levels # {} BY <1>1, Levels DEF TrustNames
<1>3. TrustFloor(s) = Trusts[Min(levels)] BY DEF TrustFloor, held
<1> HIDE DEF levels
<1>4. Min(levels) \in 1 .. 5 BY <1>2, LeastLevel
<1> QED BY <1>3, <1>4, Levels DEF Range

(***************************************************************************)
(* What holds of the artifacts of a build and of a package on its way.     *)
(***************************************************************************)

Qualities == {"insufficient", "partial", "sufficient", "validated"}

LEMMA QualityTyped ==
  ASSUME NEW schema, NEW profiles, NEW topology, NEW grains, NEW ontology, NEW reviewed
  PROVE  Quality(schema, profiles, topology, grains, ontology, reviewed) \in Qualities
BY DEF Quality, Qualities

ArtifactsOK ==
  artifacts # NoSection =>
    /\ "quality" \in DOMAIN artifacts
    /\ IsSchema(artifacts.schema)
    /\ artifacts.profiles # NoSection => DiscreetProfiles(artifacts.profiles)
    /\ artifacts.taxonomy # NoSection => DiscreetNodes(artifacts.taxonomy)
    /\ artifacts.ontology # NoSection =>
         IsFiniteSet(artifacts.ontology.concepts) /\ artifacts.ontology.trust \in TrustNames
    /\ IsFiniteSet(artifacts.topology)
    /\ IsFiniteSet(artifacts.granularity) /\ IsFiniteSet(artifacts.metricGrains)
    /\ artifacts.quality \in Qualities

(* What every package has from its retrieval on.                           *)
Held ==
  /\ package.budget \in Nat
  /\ IsSchema(package.schema)
  /\ IsFiniteSet(package.granularity.items)
  /\ SectionsOK(package.sections)

(* What composing leaves of it.                                            *)
Budgeted(dropped) ==
  /\ package.tokens \in Nat
  /\ dropped \subseteq OptionalSections
  /\ Mandatory > package.budget
     \/ /\ Mandatory + Spent(package.sections) <= package.budget
        /\ DroppedReported(package.sections, package.retrieved, dropped)

PackageOK ==
  /\ package.at \in {"none", "retrieved", "composed", "compiled"}
  /\ package.at # "none" => Held /\ artifacts # NoSection
  /\ package.at = "retrieved" => IsFiniteSet(package.relevant)
  /\ package.at = "composed" =>
       /\ Budgeted(package.dropped)
       /\ package.insufficient <=> Mandatory > package.budget
  /\ package.at = "compiled" =>
       /\ Budgeted(package.degraded)
       /\ Mandatory > package.budget => package.quality = "insufficient"
       /\ package.quality \in Qualities /\ package.trust \in TrustNames
       /\ \A meaning \in package.semantics : meaning[3] \notin Sensitive

PackageInv == ArtifactsOK /\ PackageOK

LEMMA MandatoryTyped ==
  ASSUME Held
  PROVE  Mandatory \in Nat
<1>1. Cost("granularity", package.granularity) \in Nat BY ItemsCost DEF Held
<1>2. Cardinality(DOMAIN package.schema) \in Nat /\ Cardinality(AllColumns(package.schema)) \in Nat
  BY AllColumnsFinite, FS_CardinalityType DEF Held, IsSchema
<1> QED BY <1>1, <1>2 DEF Mandatory, SchemaCost

LEMMA PackageInitOK == PackageInit => PackageInv
BY DEF PackageInit, PackageInv, ArtifactsOK, PackageOK, NoPackage

LEMMA BuildOK ==
  ASSUME PackageInv, Build
  PROVE  PackageInv'
<1>1. package' = package /\ package.at = "none" BY DEF Build
<1>2. PICK schema \in SourceSchemas, profiled \in BOOLEAN, ontology \in Ontologies,
           metered \in MetricSets :
        artifacts' = Derive(schema, profiled, ontology, FALSE, metered)
  BY DEF Build
<1> DEFINE profiles == IF profiled THEN Profiles(schema, DOMAIN schema) ELSE NoSection
           taxonomy == IF profiled THEN Taxonomy(profiles) ELSE NoSection
           grains == Grains(schema, profiles)
           quality == Quality(schema, profiles, Topology(schema), grains, ontology, FALSE)
<1>3. IsSchema(schema) /\ IsFiniteSet(metered) BY PackageAssumption
<1>4. profiles # NoSection => DiscreetProfiles(profiles) BY <1>3, ProfilesDiscreet
<1>5. taxonomy # NoSection => DiscreetNodes(taxonomy) BY <1>3, ProfilesDiscreet, TaxonomyDiscreet
<1>6. ontology # NoSection => IsFiniteSet(ontology.concepts) /\ ontology.trust \in TrustNames
  BY PackageAssumption, FS_EmptySet DEF Ontologies, TrustNames
<1>7. IsFiniteSet(Topology(schema)) /\ IsFiniteSet(grains)
      /\ IsFiniteSet(MetricGrains(grains, metered))
  BY <1>3, TopologyFinite, GrainsFinite, MetricGrainsFinite
<1>8. quality \in Qualities BY QualityTyped
<1>9. /\ "quality" \in DOMAIN artifacts'
      /\ artifacts'.schema = schema /\ artifacts'.profiles = profiles
      /\ artifacts'.taxonomy = taxonomy /\ artifacts'.ontology = ontology
      /\ artifacts'.topology = Topology(schema) /\ artifacts'.granularity = grains
      /\ artifacts'.metricGrains = MetricGrains(grains, metered)
      /\ artifacts'.quality = quality
  BY <1>2 DEF Derive
<1> HIDE DEF profiles, taxonomy, grains, quality
<1>10. ArtifactsOK' BY <1>3, <1>4, <1>5, <1>6, <1>7, <1>8, <1>9 DEF ArtifactsOK
<1>11. PackageOK' BY <1>1 DEF PackageInv, PackageOK
<1> QED BY <1>10, <1>11 DEF PackageInv

LEMMA ReviewOK ==
  ASSUME PackageInv, Review
  PROVE  PackageInv'
<1> DEFINE quality == Quality(artifacts.schema, artifacts.profiles, artifacts.topology,
                              artifacts.granularity, artifacts.ontology, TRUE)
<1>1. /\ artifacts # NoSection /\ package' = package /\ package.at = "none"
      /\ artifacts' = [artifacts EXCEPT !.quality = quality]
  BY DEF Review
<1>2. quality \in Qualities BY QualityTyped
<1> HIDE DEF quality
<1>3. /\ "quality" \in DOMAIN artifacts'
      /\ artifacts'.schema = artifacts.schema /\ artifacts'.profiles = artifacts.profiles
      /\ artifacts'.taxonomy = artifacts.taxonomy /\ artifacts'.ontology = artifacts.ontology
      /\ artifacts'.topology = artifacts.topology
      /\ artifacts'.granularity = artifacts.granularity
      /\ artifacts'.metricGrains = artifacts.metricGrains
      /\ artifacts'.quality = quality
  BY <1>1 DEF PackageInv, ArtifactsOK
<1>4. ArtifactsOK' BY <1>1, <1>2, <1>3 DEF PackageInv, ArtifactsOK
<1>5. PackageOK' BY <1>1 DEF PackageInv, PackageOK
<1> QED BY <1>4, <1>5 DEF PackageInv

LEMMA SubSchema ==
  ASSUME NEW schema, IsSchema(schema), NEW tables \in SUBSET DOMAIN schema
  PROVE  IsSchema([t \in tables |-> schema[t]])
<1>1. IsFiniteSet(tables) BY FS_Subset DEF IsSchema
<1> QED BY <1>1 DEF IsSchema

(* The slices a question touches, of sound artifacts.                      *)
LEMMA SlicesOK ==
  ASSUME ArtifactsOK, artifacts # NoSection,
         NEW tables \in SUBSET DOMAIN artifacts.schema, NEW named, NEW metered, IsFiniteSet(metered)
  PROVE  /\ DiscreetProfiles(RetrievedProfiles(tables, named))
         /\ IsFiniteSet(RetrievedJoins(tables))
         /\ Section(Touching(tables))
         /\ Touching(tables) # NoSection => DiscreetNodes(Touching(tables).items)
         /\ Section(MeantBy(tables))
         /\ IsFiniteSet(RetrievedGrains(tables, metered))
<1>1. DiscreetProfiles(RetrievedProfiles(tables, named))
  <2> DEFINE profiles == artifacts.profiles
             slice == RetrievedProfiles(tables, named)
  <2>1. CASE profiles = NoSection
    <3>1. DOMAIN slice = {} BY <2>1 DEF RetrievedProfiles
    <3> QED BY <3>1, FS_EmptySet DEF DiscreetProfiles
  <2>2. CASE profiles # NoSection
    <3>1. DiscreetProfiles(profiles) BY <2>2 DEF ArtifactsOK
    <3>2. /\ DOMAIN slice \in SUBSET DOMAIN profiles
          /\ \A t \in DOMAIN slice : slice[t] \in SUBSET profiles[t]
      BY <2>2 DEF RetrievedProfiles
    <3> HIDE DEF slice
    <3>3. IsFiniteSet(DOMAIN slice) BY <3>1, <3>2, FS_Subset DEF DiscreetProfiles
    <3>4. ASSUME NEW t \in DOMAIN slice PROVE IsFiniteSet(slice[t]) /\ Discreet(slice[t])
      <4>1. IsFiniteSet(profiles[t]) /\ Discreet(profiles[t]) /\ slice[t] \in SUBSET profiles[t]
        BY <3>1, <3>2 DEF DiscreetProfiles
      <4>2. IsFiniteSet(slice[t]) BY <4>1, FS_Subset
      <4> QED BY <4>1, <4>2 DEF Discreet
    <3>5. DiscreetProfiles(slice) BY <3>3, <3>4 DEF DiscreetProfiles
    <3> QED BY <3>5 DEF slice
  <2> QED BY <2>1, <2>2
<1>2. IsFiniteSet(RetrievedJoins(tables))
  <2>1. RetrievedJoins(tables) \in SUBSET artifacts.topology BY DEF RetrievedJoins
  <2> QED BY <2>1, FS_Subset DEF ArtifactsOK
<1>3. /\ Section(Touching(tables))
      /\ Touching(tables) # NoSection => DiscreetNodes(Touching(tables).items)
  <2> DEFINE items == { n \in artifacts.taxonomy : n.table \in tables }
  <2>1. CASE artifacts.taxonomy = NoSection BY <2>1 DEF Touching, Section
  <2>2. CASE artifacts.taxonomy # NoSection
    <3>1. items \in SUBSET artifacts.taxonomy /\ DiscreetNodes(artifacts.taxonomy)
      BY <2>2 DEF ArtifactsOK
    <3>2. Touching(tables) = Artifact(items, "structural") BY <2>2 DEF Touching
    <3> HIDE DEF items
    <3>3. DiscreetNodes(items)
      <4>1. IsFiniteSet(items) BY <3>1, FS_Subset DEF DiscreetNodes
      <4> QED BY <3>1, <4>1 DEF DiscreetNodes
    <3>4. Touching(tables).items = items /\ Touching(tables).trust = "structural"
      BY <3>2 DEF Artifact
    <3> QED BY <3>3, <3>4 DEF Section, DiscreetNodes, TrustNames
  <2> QED BY <2>1, <2>2
<1>4. Section(MeantBy(tables))
  <2> DEFINE items == { concept \in artifacts.ontology.concepts : concept.maps_to \cap tables # {} }
  <2>1. CASE artifacts.ontology = NoSection BY <2>1 DEF MeantBy, Section
  <2>2. CASE artifacts.ontology # NoSection
    <3>1. /\ items \in SUBSET artifacts.ontology.concepts
          /\ IsFiniteSet(artifacts.ontology.concepts) /\ artifacts.ontology.trust \in TrustNames
      BY <2>2 DEF ArtifactsOK
    <3>2. MeantBy(tables) = Artifact(items, artifacts.ontology.trust) BY <2>2 DEF MeantBy
    <3> HIDE DEF items
    <3>3. IsFiniteSet(items) BY <3>1, FS_Subset
    <3>4. MeantBy(tables).items = items /\ MeantBy(tables).trust = artifacts.ontology.trust
      BY <3>2 DEF Artifact
    <3> QED BY <3>1, <3>3, <3>4 DEF Section
  <2> QED BY <2>1, <2>2
<1>5. IsFiniteSet(RetrievedGrains(tables, metered))
  <2> DEFINE grains == { grain \in artifacts.granularity : grain.table \in tables }
             meters == { mg \in artifacts.metricGrains : \E m \in metered : m.name = mg.metric }
  <2>1. grains \in SUBSET artifacts.granularity /\ meters \in SUBSET artifacts.metricGrains
    OBVIOUS
  <2>2. RetrievedGrains(tables, metered) = grains \cup meters BY DEF RetrievedGrains
  <2> HIDE DEF grains, meters
  <2>3. IsFiniteSet(grains) /\ IsFiniteSet(meters) BY <2>1, FS_Subset DEF ArtifactsOK
  <2> QED BY <2>2, <2>3, FS_Union
<1> QED BY <1>1, <1>2, <1>3, <1>4, <1>5

LEMMA RetrieveOK ==
  ASSUME PackageInv, Retrieve
  PROVE  PackageInv'
<1>1. /\ artifacts # NoSection /\ artifacts' = artifacts /\ ArtifactsOK
  BY DEF Retrieve, PackageInv
<1>2. PICK matched \in SUBSET DOMAIN artifacts.schema, named \in SUBSET ColumnNames,
           metered \in MetricSets, budget \in Budgets :
        \E tables \in Selections(matched), relevant \in SUBSET metered :
          package' = Retrieved(tables, named, metered, relevant, budget)
  BY DEF Retrieve
<1>3. PICK tables \in Selections(matched), relevant \in SUBSET metered :
        package' = Retrieved(tables, named, metered, relevant, budget)
  BY <1>2
<1>4. tables \in SUBSET DOMAIN artifacts.schema BY DEF Selections, Best
<1>5. IsFiniteSet(metered) /\ budget \in Nat BY PackageAssumption
<1>6. IsFiniteSet(relevant) BY <1>5, FS_Subset
<1> DEFINE schema == [t \in tables |-> artifacts.schema[t]]
           sections ==
             [profiles |-> RetrievedProfiles(tables, named),
              topology |-> Artifact(RetrievedJoins(tables), "structural"),
              taxonomy |-> Touching(tables), ontology |-> MeantBy(tables), metrics |-> metered]
           grains == RetrievedGrains(tables, metered)
<1>7. IsSchema(schema) BY <1>1, <1>4, SubSchema DEF ArtifactsOK
<1>8. SectionsOK(sections)
  <2>1. Section(Artifact(RetrievedJoins(tables), "structural"))
    BY <1>1, <1>4, <1>5, SlicesOK DEF Section, Artifact, TrustNames
  <2>2. /\ DOMAIN sections = OptionalSections
        /\ sections.profiles = RetrievedProfiles(tables, named)
        /\ sections.topology = Artifact(RetrievedJoins(tables), "structural")
        /\ sections.taxonomy = Touching(tables) /\ sections.ontology = MeantBy(tables)
        /\ sections.metrics = metered
    BY DEF OptionalSections
  <2> HIDE DEF sections
  <2> QED BY <1>1, <1>4, <1>5, <2>1, <2>2, SlicesOK DEF SectionsOK
<1>9. IsFiniteSet(grains) BY <1>1, <1>4, <1>5, SlicesOK
<1>10. /\ package'.at = "retrieved" /\ package'.budget = budget /\ package'.relevant = relevant
       /\ package'.schema = schema /\ package'.sections = sections
       /\ package'.granularity = Artifact(grains, "structural")
  BY <1>3 DEF Retrieved
<1> HIDE DEF schema, sections, grains
<1>11. package'.granularity.items = grains BY <1>10 DEF Artifact
<1>12. Held' BY <1>5, <1>7, <1>8, <1>9, <1>10, <1>11 DEF Held
<1>13. PackageOK' BY <1>1, <1>6, <1>10, <1>12 DEF PackageOK
<1>14. ArtifactsOK' BY <1>1 DEF ArtifactsOK
<1> QED BY <1>13, <1>14 DEF PackageInv

LEMMA ComposeOK ==
  ASSUME PackageInv, Compose
  PROVE  PackageInv'
<1>1. /\ package.at = "retrieved" /\ artifacts' = artifacts
      /\ Held /\ artifacts # NoSection /\ IsFiniteSet(package.relevant)
  BY DEF Compose, PackageInv, PackageOK
<1> DEFINE sections == Composed.sections
           tokens == Composed.tokens
           dropped == Composed.dropped
<1>2. /\ package'.at = "composed" /\ package'.budget = package.budget
      /\ package'.schema = package.schema /\ package'.granularity = package.granularity
      /\ package'.retrieved = package.sections /\ package'.sections = sections
      /\ package'.tokens = tokens /\ package'.dropped = dropped
      /\ package'.insufficient <=> Mandatory > package.budget
  BY DEF Compose
<1>3. Mandatory \in Nat BY <1>1, MandatoryTyped
<1>4. Mandatory' = Mandatory BY <1>2 DEF Mandatory
<1>5. CASE Mandatory > package.budget
  <2>1. sections = package.sections /\ tokens = Mandatory /\ dropped = {}
    BY <1>5 DEF Composed, Start
  <2>2. Held' BY <1>1, <1>2, <2>1 DEF Held
  <2>3. Budgeted(package.dropped)' BY <1>2, <1>3, <1>4, <1>5, <2>1 DEF Budgeted
  <2>4. PackageOK' BY <1>1, <1>2, <1>4, <2>2, <2>3 DEF PackageOK
  <2> QED BY <1>1, <2>4 DEF PackageInv, ArtifactsOK
<1>6. CASE ~ (Mandatory > package.budget)
  <2>1. /\ Composing(Composed) /\ tokens = Mandatory + Spent(sections)
        /\ DroppedReported(sections, package.sections, dropped)
    BY <1>1, <1>3, <1>6, ComposedFits DEF Held
  <2>2. /\ SectionsOK(sections) /\ tokens \in Nat /\ tokens <= package.budget
        /\ dropped \subseteq OptionalSections
    BY <2>1 DEF Composing
  <2> HIDE DEF sections, tokens, dropped
  <2>3. Held' BY <1>1, <1>2, <2>2 DEF Held
  <2>4. Budgeted(package.dropped)' BY <1>2, <1>4, <2>1, <2>2 DEF Budgeted
  <2>5. PackageOK' BY <1>1, <1>2, <1>4, <2>3, <2>4 DEF PackageOK
  <2> QED BY <1>1, <2>5 DEF PackageInv, ArtifactsOK
<1> QED BY <1>5, <1>6

LEMMA CompileOK ==
  ASSUME PackageInv, Compile
  PROVE  PackageInv'
<1>1. /\ package.at = "composed" /\ artifacts' = artifacts /\ ArtifactsOK
      /\ Held /\ artifacts # NoSection /\ Budgeted(package.dropped)
      /\ package.insufficient <=> Mandatory > package.budget
  BY DEF Compile, PackageInv, PackageOK
<1>2. /\ package'.at = "compiled" /\ package'.budget = package.budget
      /\ package'.schema = package.schema /\ package'.granularity = package.granularity
      /\ package'.retrieved = package.retrieved /\ package'.sections = package.sections
      /\ package'.tokens = package.tokens /\ package'.degraded = package.dropped
      /\ package'.semantics = Semantics(package.sections)
      /\ package'.trust = TrustFloor(package.sections)
      /\ package'.quality = IF package.insufficient THEN "insufficient" ELSE artifacts.quality
  BY DEF Compile
<1>3. Mandatory' = Mandatory BY <1>2 DEF Mandatory
<1>4. Held' BY <1>1, <1>2 DEF Held
<1>5. Budgeted(package.degraded)' BY <1>1, <1>2, <1>3 DEF Budgeted
<1>6. package'.quality \in Qualities
      /\ (Mandatory > package.budget => package'.quality = "insufficient")
  BY <1>1, <1>2 DEF ArtifactsOK, Qualities
<1>7. package'.trust \in TrustNames BY <1>1, <1>2, FloorTyped DEF Held
<1>8. \A meaning \in package'.semantics : meaning[3] \notin Sensitive
  BY <1>1, <1>2, SemanticsDiscreet DEF Held
<1>9. PackageOK' BY <1>1, <1>2, <1>3, <1>4, <1>5, <1>6, <1>7, <1>8 DEF PackageOK
<1> QED BY <1>1, <1>9 DEF PackageInv, ArtifactsOK

LEMMA PackageNextOK == PackageInv /\ [PackageNext]_packageVars => PackageInv'
<1> SUFFICES ASSUME PackageInv, [PackageNext]_packageVars PROVE PackageInv'
  OBVIOUS
<1>1. CASE PackageNext BY <1>1, BuildOK, ReviewOK, RetrieveOK, ComposeOK, CompileOK DEF PackageNext
<1>2. CASE UNCHANGED packageVars
  <2>1. artifacts' = artifacts /\ package' = package BY <1>2 DEF packageVars
  <2>2. ArtifactsOK' BY <2>1 DEF PackageInv, ArtifactsOK
  <2>3. Mandatory' = Mandatory BY <2>1 DEF Mandatory
  <2>4. Held' = Held BY <2>1 DEF Held
  <2>5. PackageOK' BY <2>1, <2>3, <2>4 DEF PackageInv, PackageOK, Budgeted
  <2> QED BY <2>2, <2>5 DEF PackageInv
<1> QED BY <1>1, <1>2

LEMMA PackageTyped == PackageInv => PackageTypeOK
BY Levels DEF PackageInv, PackageOK, PackageTypeOK, Budgeted, Held, IsSchema, Qualities

(* Whatever the schema, the ontology a model proposes and the budget, what *)
(* a package says of meaning is of no column that looks sensitive, and it  *)
(* holds no value of one.                                                  *)
THEOREM SensitiveAlwaysUnnamed == PackageSpec => []SensitiveUnnamed
  <1>1. PackageInv => SensitiveUnnamed
    BY DEF PackageInv, PackageOK, Held, SectionsOK, DiscreetProfiles, Discreet, SensitiveUnnamed
  <1> QED BY <1>1, PackageInitOK, PackageNextOK, PTL DEF PackageSpec

(* Whatever there is to say and however small the budget, a package keeps  *)
(* to it and lists what it left out, or is marked insufficient.            *)
THEOREM AlwaysWithinBudget == PackageSpec => []WithinBudget
  <1>1. PackageInv => WithinBudget
    BY DEF PackageInv, PackageOK, Budgeted, DroppedReported, WithinBudget
  <1> QED BY <1>1, PackageInitOK, PackageNextOK, PTL DEF PackageSpec

(***************************************************************************)
(* All of them together, as they are run for TLC.                          *)
(***************************************************************************)

LEMMA EveryServiceStepIsOfAPart ==
  ASSUME [ServicesNext]_serviceVars
  PROVE  /\ [Next]_vars /\ [CacheNext]_cacheVars /\ [ConnNext]_connVars /\ [ConvNext]_convVars
         /\ [CheckNext]_checkVars /\ [SettingsNext]_settingsVars /\ [StoresNext]_storeVars
         /\ [GraphNext]_graphVars /\ [PackageNext]_packageVars /\ [PlanNext]_planVars
         /\ [AnsweringNext]_answerVars
         /\ part \in Parts => part' \in Parts
<1>1. CASE UNCHANGED serviceVars BY <1>1 DEF serviceVars
<1>2. CASE ServicesNext BY <1>2 DEF ServicesNext, Only
<1> QED BY <1>1, <1>2

(* No service ever holds a value its code has no place for, whatever the   *)
(* constants.                                                              *)
THEOREM ServicesTypesCorrect == ServicesSpec => []ServicesTypeOK
  <1> DEFINE Inv == /\ part \in Parts
                    /\ IInv /\ CacheInv /\ ConnInv /\ ConvInv /\ CheckInv /\ SettingsInv
                    /\ StoresInv /\ GraphInv /\ PackageInv /\ PlanInv /\ AnswerInv
  <1>1. ServicesInit => Inv
    <2>1. AnsweringInit => AnswerInv BY NewAnswerInv, AnsweringAssumption DEF AnsweringInit
    <2> QED BY <2>1, InitInv, CacheInitInv, ConnInitInv, ConvInitInv, CheckInitInv,
               SettingsInitInv, StoresInitInv, GraphInitInv, PackageInitOK, PlanInitInv
            DEF ServicesInit
  <1>2. Inv /\ [ServicesNext]_serviceVars => Inv'
    BY EveryServiceStepIsOfAPart, StepInv, CacheNextInv, ConnNextInv, ConvNextInv, CheckNextInv,
       SettingsNextInv, StoresNextInv, GraphNextInv, PackageNextOK, PlanNextInv,
       AnsweringNextInv
  <1>3. Inv => ServicesTypeOK
    BY PackageTyped
    DEF ServicesTypeOK, IInv, CacheInv, ConnInv, ConvInv, CheckInv, SettingsInv, StoresInv,
        GraphInv, PlanInv, AnswerInv
  <1> QED BY <1>1, <1>2, <1>3, PTL DEF ServicesSpec

=============================================================================
