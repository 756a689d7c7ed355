---------------------------- MODULE MCServices -----------------------------
(***************************************************************************)
(* Instances for TLC of the services around the engine.  They share no     *)
(* state, so nothing is learnt from their product: part says which of them *)
(* a behaviour is of, and the others rest in their initial states.         *)
(***************************************************************************)
EXTENDS RateLimiter, SchemaCache, Connections, Conversations, Checkpoints, LlmSettings,
        TenantStores, ContextGraph, ContextPackage, PlanPipeline, Answering, TLC

VARIABLE part

Parts == {"limiter", "cache", "connections", "conversations", "checkpoints", "settings",
          "stores", "graph", "package", "plan", "answer"}

serviceVars == <<vars, cacheVars, connVars, convVars, checkVars, settingsVars, storeVars,
                 graphVars, packageVars, planVars, answerVars, part>>

\* A part at rest has one initial state.
ServicesInit ==
  /\ part \in Parts
  /\ Init /\ CacheInit /\ SettingsInit /\ ConvInit /\ GraphInit /\ PackageInit
  /\ AnsweringInit
  /\ ConnInit /\ (part # "connections" => durable)
  /\ CheckInit /\ (part # "checkpoints" => durably)
  /\ StoresInit /\ (part # "stores" => shared)
  /\ PlanInit /\ (part # "plan" => described = NoPlan /\ live = CHOOSE c \in Catalogs : TRUE)

\* What is not p stays as it is.
Only(p) ==
  /\ UNCHANGED part
  /\ IF p = "limiter" THEN TRUE ELSE UNCHANGED vars
  /\ IF p = "cache" THEN TRUE ELSE UNCHANGED cacheVars
  /\ IF p = "connections" THEN TRUE ELSE UNCHANGED connVars
  /\ IF p = "conversations" THEN TRUE ELSE UNCHANGED convVars
  /\ IF p = "checkpoints" THEN TRUE ELSE UNCHANGED checkVars
  /\ IF p = "settings" THEN TRUE ELSE UNCHANGED settingsVars
  /\ IF p = "stores" THEN TRUE ELSE UNCHANGED storeVars
  /\ IF p = "graph" THEN TRUE ELSE UNCHANGED graphVars
  /\ IF p = "package" THEN TRUE ELSE UNCHANGED packageVars
  /\ IF p = "plan" THEN TRUE ELSE UNCHANGED planVars
  /\ IF p = "answer" THEN TRUE ELSE UNCHANGED answerVars

ServicesNext ==
  \/ part = "limiter" /\ Next /\ Only("limiter")
  \/ part = "cache" /\ CacheNext /\ Only("cache")
  \/ part = "connections" /\ ConnNext /\ Only("connections")
  \/ part = "conversations" /\ ConvNext /\ Only("conversations")
  \/ part = "checkpoints" /\ CheckNext /\ Only("checkpoints")
  \/ part = "settings" /\ SettingsNext /\ Only("settings")
  \/ part = "stores" /\ StoresNext /\ Only("stores")
  \/ part = "graph" /\ GraphNext /\ Only("graph")
  \/ part = "package" /\ PackageNext /\ Only("package")
  \/ part = "plan" /\ PlanNext /\ Only("plan")
  \/ part = "answer" /\ AnsweringNext /\ Only("answer")

ServicesSpec == ServicesInit /\ [][ServicesNext]_serviceVars

\* Type correctness of every one of them: none ever holds a value its code has
\* no place for.
ServicesTypeOK ==
  /\ part \in Parts
  /\ TypeOK /\ CacheTypeOK /\ ConnTypeOK /\ ConvTypeOK /\ CheckTypeOK /\ SettingsTypeOK
  /\ StoresTypeOK /\ GraphTypeOK /\ PackageTypeOK /\ PlanTypeOK /\ AnsweringTypeOK

-----------------------------------------------------------------------------
(* ContextGraph: two columns give way to another, and a metric loses its   *)
(* table; what is left of the one and written of the other is three.       *)

GraphOf(columns, table) ==
  [tables |-> {"t"}, columns |-> {<<"t", column>> : column \in columns}, joins |-> {},
   metrics |-> {<<"m", table>>}, concepts |-> {}, related |-> {}]

GraphSnapshots == {GraphOf({"a", "c"}, "u"), GraphOf({"b"}, "t")}

-----------------------------------------------------------------------------
(* ContextPackage: tables of four rows, with and without what sampling or  *)
(* keys could tell about them.                                             *)

Profiled(name, family, notnull, distinct) ==
  [name |-> name, family |-> family, notnull |-> notnull, distinct |-> distinct, typed |-> TRUE]

Untyped(name) == [Profiled(name, "other", 0, 0) EXCEPT !.typed = FALSE]

TableOf(columns, key, foreign) ==
  [rows |-> 4, columns |-> columns, key |-> key, foreign |-> foreign]

Orders(email) == "o" :> TableOf(<<Profiled("id", "number", 4, 4), email>>, {"id"}, {})

Customers(name, foreign) ==
  "u" :> TableOf(<<name, Profiled("o_id", "number", 4, 3)>>, {}, foreign)

PackageSchemas ==
  { Orders(email) @@ Customers(name, foreign) :
      email \in {Profiled("email", "string", 4, 2), Profiled("email", "string", 4, 4)},
      name \in {Profiled("name", "string", 4, 3), Profiled("name", "time", 4, 4),
                Profiled("name", "bool", 4, 2)},
      foreign \in {{}, {[column |-> "o_id", table |-> "o", key |-> "id"]}} }
  \cup { "o" :> TableOf(<<Profiled("email", "string", 4, 4)>>, {"email"}, {})
         @@ "u" :> TableOf(<<Profiled("o_id", "string", 4, 3)>>, {}, {})
         @@ "x" :> TableOf(<<Profiled("note", "string", 4, 3), Profiled("name", "string", 4, 3)>>,
                           {}, {}),
         "o" :> TableOf(<<Untyped("id"), Untyped("name"), Profiled("email", "string", 0, 0)>>,
                        {}, {}) }

\* Only o_id is of the form <entity>_id.
PackageRefers == [name \in ColumnNames |-> IF name = "o_id" THEN <<"o">> ELSE <<>>]

PackageMetrics == {{}, {[name |-> "m", table |-> "u"], [name |-> "k", table |-> "x"]}}

PackageOntologies == {{[name |-> "c", maps_to |-> {"o"}]}}

-----------------------------------------------------------------------------
(* PlanPipeline: two tables that share a column's name, and what a model   *)
(* may make of them.                                                       *)

Ref(table, name) == [table |-> table, name |-> name, truncated |-> FALSE]

Bare(name) == Ref(Unqualified, name)

PlanRefs == {Bare("a"), Bare("b"), Bare("c"), Bare("n"), Ref("u", "c"), Ref("u", "b")}

Aggregate(function, ref) == [function |-> function, column |-> ref, alias |-> "n"]

Plain == [writes |-> FALSE, source |-> "t", columns |-> {}, groupBy |-> {}, aggregates |-> {},
          joins |-> {}, orderBy |-> {}, having |-> FALSE, limit |-> Omitted]

PlanProposals ==
  {NoPlan, [writes |-> TRUE, source |-> "t"]}
  \cup { [Plain EXCEPT !.source = source, !.columns = {ref}, !.groupBy = grouped,
                       !.aggregates = aggregates] :
           source \in {"t", "u"},
           ref \in PlanRefs \cup {Bare(Star), [Bare("b") EXCEPT !.truncated = TRUE]},
           grouped \in {{}, {Bare("a")}, {Bare("b")}, {Bare("n")}},
           aggregates \in {{}, {Aggregate("count", Bare(Star))}, {Aggregate("sum", Bare("a"))},
                           {Aggregate("sum", Bare("b"))}} }
  \cup { [Plain EXCEPT !.columns = {ref}, !.groupBy = IF aggregates = {} THEN {} ELSE {ref},
                       !.aggregates = aggregates, !.joins = {join}, !.orderBy = order,
                       !.having = having, !.limit = limit] :
           ref \in PlanRefs,
           aggregates \in {{}, {Aggregate("count_distinct", Bare("c"))},
                           {Aggregate("uniq", Bare("a"))}},
           join \in [table : {"u", "t"}, left : {Bare("a"), Bare("b"), Bare(Star)},
                     right : {Omitted, Bare("a"), Ref("u", "c")}],
           order \in {{}, {"n"}}, having \in BOOLEAN, limit \in {0, 9} }

PlanCatalogs ==
  { "t" :> ("a" :> "number" @@ "b" :> "string") @@ "u" :> ("a" :> "number" @@ "c" :> "string"),
    "t" :> ("a" :> "number")
      @@ "u" :> ("a" :> "number" @@ "b" :> "time" @@ "c" :> "string"),
    "t" :> ("a" :> "number" @@ "b" :> "time" @@ "c" :> "number") }

-----------------------------------------------------------------------------
(* Answering: a plan of t shows a marked column by its name, by an alias,  *)
(* or not at all.                                                          *)

PlanResults == { [source |-> "t", labels |-> labels] :
                   labels \in {{"email", "n"}, {"alias", "n"}, {"n"}} }

TaggedColumns == {<<"t", "email">>, <<"u", "n">>}

=============================================================================
