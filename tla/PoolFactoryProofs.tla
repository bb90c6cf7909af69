---------------------------- MODULE PoolFactoryProofs ----------------------------
(****************************************************************************)
(* Proofs about PoolFactory and Configurations, for all sizes and           *)
(* overflows: the safety properties of a pool's life and, over all accepted *)
(* configurations, what to_adbc_kwargs renders and which fields arrive.     *)
(****************************************************************************)
EXTENDS PoolFactory, TLAPS

---------------------------------------------------------------------------
(* Configurations *)

\* What a configuration is: fields of a warehouse that its validators accepted.
LEMMA ConfigShape ==
    ASSUME NEW c \in Configs
    PROVE  /\ c.of \in DOMAIN Warehouses
           /\ c.set \subseteq Fields(c.of)
           /\ Accepted(c)
<1>1. PICK w \in DOMAIN Warehouses :
          c \in [of : {w}, set : SUBSET Fields(w), offers : Offers(w), pool_size : OwnSizes(w)]
  BY DEF Configs
<1>2. c.of = w /\ c.set \subseteq Fields(w)
  BY <1>1
<1> QED  BY <1>1, <1>2 DEF Configs

\* The names of the warehouses.
LEMMA WarehouseNames ==
    DOMAIN Warehouses = {"postgresql", "redshift", "databricks", "mysql", "clickhouse",
                         "quack", "mssql", "trino", "flightsql", "snowflake", "bigquery",
                         "sqlite", "duckdb", "custom"}
BY DEF Warehouses

\* What makes the asserts of to_adbc_kwargs safe, warehouse by warehouse: a mode
\* without a uri names every field asserted.  And what makes the parts of a uri
\* arrive: a part other than the port makes it be built, or it is sent anyway,
\* or a field that is asserted makes it be built.
LEMMA Tables ==
    ASSUME NEW c, c.of \in DOMAIN Warehouses
    PROVE  /\ \A mode \in Is(c).modes : "uri" \in mode \/ Is(c).asserts \subseteq mode
           /\ \/ Is(c).parts \subseteq Is(c).hints \cup {"port"}
              \/ "uri" \in Is(c).always
              \/ Is(c).hints \subseteq Is(c).asserts /\ Is(c).hints # {}
<1>1. CASE c.of = "postgresql"
  <2>1. Is(c) = PostgreSQL
    BY <1>1 DEF Is, Warehouses
  <2>2. Is(c).asserts = {} /\ Is(c).hints = Is(c).parts \ {"port"}
    BY <2>1 DEF PostgreSQL, Base, LibpqParts
  <2> QED  BY <2>2
<1>2. CASE c.of = "redshift"
  <2>1. Is(c) = Redshift
    BY <1>2 DEF Is, Warehouses
  <2>2. Is(c).asserts = {} /\ Is(c).hints = Is(c).parts \ {"port"}
    BY <2>1 DEF Redshift, Base, LibpqParts
  <2> QED  BY <2>2
<1>3. CASE c.of = "databricks"
  <2>1. Is(c) = Databricks
    BY <1>3 DEF Is, Warehouses
  <2>2. /\ Is(c).modes = {{"uri"}, {"host", "http_path", "token"}}
      /\ Is(c).asserts = {"host", "http_path", "token"} /\ Is(c).hints = {"host"}
    BY <2>1 DEF Databricks, Base
  <2> QED  BY <2>2
<1>4. CASE c.of = "mysql"
  <2>1. Is(c) = MySQL
    BY <1>4 DEF Is, Warehouses
  <2>2. /\ Is(c).modes = {{"uri"}, {"host", "user", "database"}}
      /\ Is(c).asserts = {"host", "user", "database"} /\ Is(c).hints = {"host"}
    BY <2>1 DEF MySQL, Base
  <2> QED  BY <2>2
<1>5. CASE c.of = "clickhouse"
  <2>1. Is(c) = ClickHouse
    BY <1>5 DEF Is, Warehouses
  <2>2. /\ Is(c).modes = {{"uri"}, {"host", "user"}}
      /\ Is(c).asserts = {"host", "user"} /\ Is(c).parts = {}
    BY <2>1 DEF ClickHouse, Base
  <2> QED  BY <2>2
<1>6. CASE c.of = "quack"
  <2>1. Is(c) = Quack
    BY <1>6 DEF Is, Warehouses
  <2>2. /\ Is(c).modes = {{"uri"}, {"host"}}
      /\ Is(c).asserts = {"host"} /\ Is(c).hints = {"host"}
    BY <2>1 DEF Quack, Base
  <2> QED  BY <2>2
<1>7. CASE c.of = "mssql"
  <2>1. Is(c) = MSSQL
    BY <1>7 DEF Is, Warehouses
  <2>2. Is(c).asserts = {} /\ Is(c).parts = {}
    BY <2>1 DEF MSSQL, Base
  <2> QED  BY <2>2
<1>8. CASE c.of = "trino"
  <2>1. Is(c) = Trino
    BY <1>8 DEF Is, Warehouses
  <2>2. Is(c).asserts = {} /\ Is(c).parts = {}
    BY <2>1 DEF Trino, Base
  <2> QED  BY <2>2
<1>9. CASE c.of = "flightsql"
  <2>1. Is(c) = FlightSQL
    BY <1>9 DEF Is, Warehouses
  <2>2. Is(c).asserts = {} /\ Is(c).parts = {}
    BY <2>1 DEF FlightSQL, Base
  <2> QED  BY <2>2
<1>10. CASE c.of = "snowflake"
  <2>1. Is(c) = Snowflake
    BY <1>10 DEF Is, Warehouses
  <2>2. Is(c).asserts = {} /\ Is(c).parts = {}
    BY <2>1 DEF Snowflake, Base
  <2> QED  BY <2>2
<1>11. CASE c.of = "bigquery"
  <2>1. Is(c) = BigQuery
    BY <1>11 DEF Is, Warehouses
  <2>2. Is(c).asserts = {} /\ Is(c).parts = {}
    BY <2>1 DEF BigQuery, Base
  <2> QED  BY <2>2
<1>12. CASE c.of = "sqlite"
  <2>1. Is(c) = SQLite
    BY <1>12 DEF Is, Warehouses
  <2>2. Is(c).asserts = {} /\ "uri" \in Is(c).always
    BY <2>1 DEF SQLite, Base
  <2> QED  BY <2>2
<1>13. CASE c.of = "duckdb"
  <2>1. Is(c) = DuckDB
    BY <1>13 DEF Is, Warehouses
  <2>2. Is(c).asserts = {} /\ Is(c).parts = {}
    BY <2>1 DEF DuckDB, Base
  <2> QED  BY <2>2
<1>14. CASE c.of = "custom"
  <2>1. Is(c) = Custom
    BY <1>14 DEF Is, Warehouses
  <2>2. Is(c).asserts = {} /\ Is(c).parts = {}
    BY <2>1 DEF Custom, Base
  <2> QED  BY <2>2
<1> QED
  BY <1>1, <1>2, <1>3, <1>4, <1>5, <1>6, <1>7, <1>8, <1>9, <1>10, <1>11, <1>12, <1>13,
     <1>14, WarehouseNames

\* The validators and the asserts agree: an accepted configuration renders.
LEMMA AcceptedRenders ==
    ASSUME NEW c \in Configs
    PROVE  ~AssertionFails(c)
<1>1. PICK mode \in Is(c).modes : mode \subseteq c.set
  BY ConfigShape DEF Accepted
<1>2. "uri" \in mode \/ Is(c).asserts \subseteq mode
  BY ConfigShape, Tables
<1> QED  BY <1>1, <1>2 DEF AssertionFails

\* When no uri is sent, no part of one is set, the port excepted.
LEMMA NoUriNoParts ==
    ASSUME NEW c \in Configs, "uri" \notin AdbcKeys(c)
    PROVE  c.set \cap Is(c).parts \subseteq {"port"}
<1>1. "uri" \notin c.set /\ Is(c).hints \cap c.set = {} /\ "uri" \notin Is(c).always
  BY DEF AdbcKeys, RendersUri, OwnKeys
<1>2. Is(c).asserts \subseteq c.set
  BY <1>1, AcceptedRenders DEF AssertionFails
<1>3. Is(c).parts \subseteq Is(c).hints \cup {"port"}
  <2>1. \/ Is(c).parts \subseteq Is(c).hints \cup {"port"}
        \/ "uri" \in Is(c).always
        \/ Is(c).hints \subseteq Is(c).asserts /\ Is(c).hints # {}
    BY ConfigShape, Tables
  <2> QED  BY <1>1, <1>2, <2>1
<1> QED  BY <1>1, <1>3

\* Of an accepted configuration, the fields listed in MayGetLost are the only
\* ones that its keyword arguments may leave behind.
LEMMA FieldsCarried ==
    ASSUME NEW c \in Configs
    PROVE  c.set \ Carried(c, AdbcKeys(c)) \subseteq MayGetLost(c)
<1> DEFINE got == Carried(c, AdbcKeys(c))
<1>1. CASE "uri" \in c.set
  <2>1. "uri" \in AdbcKeys(c)
    BY <1>1 DEF AdbcKeys, RendersUri
  <2>2. "uri" \in got
    BY <1>1, <2>1 DEF Carried, InUri
  <2>3. CASE Is(c).uri = "alone"
    BY <1>1, <2>2, <2>3 DEF MayGetLost
  <2>4. CASE Is(c).uri # "alone"
    <3>1. c.set \cap Is(c).own \subseteq got
      BY <2>4 DEF Carried, AdbcKeys, OwnKeys
    <3> QED  BY <1>1, <2>2, <2>4, <3>1 DEF MayGetLost
  <2> QED  BY <2>3, <2>4
<1>2. CASE "uri" \notin c.set
  <2>1. c.set \subseteq Is(c).parts \cup Is(c).own \cup Is(c).ignored
    BY <1>2, ConfigShape DEF Fields, Is
  <2>2. c.set \cap Is(c).own \subseteq got
    BY <1>2 DEF Carried, AdbcKeys, OwnKeys
  <2>3. CASE "uri" \in AdbcKeys(c)
    <3>1. (c.set \cap Is(c).parts)
              \ (IF "user" \in c.set THEN {} ELSE {"password"}) \subseteq got
      BY <1>2, <2>3 DEF Carried, InUri
    <3> QED  BY <1>2, <2>1, <2>2, <3>1 DEF MayGetLost
  <2>4. CASE "uri" \notin AdbcKeys(c)
    <3>1. c.set \cap Is(c).parts \subseteq {"port"}
      BY <2>4, NoUriNoParts
    <3>2. c.set \ got \subseteq Is(c).ignored \cup (c.set \cap Is(c).parts)
      BY <2>1, <2>2
    <3>3. c.set \cap Is(c).parts = {} \/ c.set \cap Is(c).parts = {"port"}
      BY <3>1
    <3> QED  BY <1>2, <3>2, <3>3 DEF MayGetLost
  <2> QED  BY <2>3, <2>4
<1> QED  BY <1>1, <1>2




---------------------------------------------------------------------------
(* The life of a pool *)

\* Where a pool's life is, its source is: none before the driver was called and
\* after a failure up to that call, open while the pool is being built and when it is
\* in use, closed after a regular close.  What is closed once more has one.
PhaseSource ==
    /\ phase \in {"called", "imported", "extra_missing", "import_failed", "resolved",
                  "rejected", "render_failed", "connect_failed"} => source = "none"
    /\ phase \in {"connected", "wrapping", "open"} => source = "open"
    /\ phase \in {"wrapping", "open"} => listening
    /\ phase \in {"closing", "disposed", "dispose_failed", "close_failed"} => source # "none"
    /\ phase = "closed" => source = "closed"

\* The caller's dict is never changed.
DictKept == kwargs = request.keys

\* What a connected driver was called with, and that the uri it asked for was there.
SentIsArguments ==
    source # "none" =>
        /\ ~UriMissing(request)
        /\ sent = IF ByModule(request) THEN Arguments(request.signature, kwargs)
                  ELSE [NotSent EXCEPT !.db_kwargs = kwargs]

IInv == /\ TypeOK
        /\ PhaseSource
        /\ DictKept
        /\ SentIsArguments
        /\ AcceptedConfigRenders

\* What a request is: its keys are those of its configuration, if it has one.
LEMMA RequestShape ==
    ASSUME NEW r \in Requests
    PROVE  /\ r.pool_size \in Nat
           /\ r.keys \subseteq Keys
           /\ FromConfig(r) => r.config \in Configs /\ r.keys = AdbcKeys(r.config)
<1>1. CASE r \in RawRequests
  <2>1. r.config = NoConfig /\ r.keys \subseteq RawKeys /\ r.pool_size \in Sizes
    BY <1>1 DEF RawRequests
  <2> QED  BY <2>1, SizesAssumption DEF FromConfig, Keys
<1>2. CASE r \in ConfigRequests
  <2>1. PICK c \in Configs :
            r \in [async : BOOLEAN, config : {c},
                   driver_path : BOOLEAN, dbapi_module : BOOLEAN, db_kwargs : {FALSE},
                   keys : {AdbcKeys(c)}, signature : SignaturesOf(c.of),
                   pool_size : Sizes, max_overflow : Overflows]
    BY <1>2 DEF ConfigRequests
  <2>2. r.config = c /\ r.keys = AdbcKeys(c) /\ r.pool_size \in Sizes
    BY <2>1
  <2> QED  BY <2>2, SizesAssumption DEF Keys
<1> QED  BY <1>1, <1>2 DEF Requests

\* What a driver is called with is typed as sent is.
LEMMA ArgumentsType ==
    ASSUME NEW s, NEW keys \in SUBSET Keys
    PROVE  Arguments(s, keys) \in [uri : {"none", "positional", "keyword"},
                                   db_kwargs : SUBSET Keys, unpacked : SUBSET Keys]
BY DEF Arguments, RequiresUri

LEMMA NotSentType ==
    ASSUME NEW keys \in SUBSET Keys
    PROVE  [NotSent EXCEPT !.db_kwargs = keys]
               \in [uri : {"none", "positional", "keyword"},
                    db_kwargs : SUBSET Keys, unpacked : SUBSET Keys]
BY DEF NotSent

\* A step that only moves a pool along its life, or changes what stands in front
\* of the source or closes it, keeps what is said of the call of the driver.
LEMMA CallKept ==
    ASSUME DictKept, SentIsArguments, UNCHANGED <<request, kwargs, sent>>,
           source' # "none" => source # "none"
    PROVE  DictKept' /\ SentIsArguments'
BY DEF DictKept, SentIsArguments, UriMissing

LEMMA InitIInv == Init => IInv
<1> SUFFICES ASSUME Init PROVE IInv
  OBVIOUS
<1>1. TypeOK
  <2>1. sent \in [uri : {"none", "positional", "keyword"},
                  db_kwargs : SUBSET Keys, unpacked : SUBSET Keys]
    BY DEF Init, NotSent
  <2>2. kwargs \subseteq Keys
    BY RequestShape DEF Init
  <2> QED  BY <2>1, <2>2 DEF Init, TypeOK, Phases
<1>2. PhaseSource /\ DictKept /\ SentIsArguments /\ AcceptedConfigRenders
  BY DEF Init, PhaseSource, DictKept, SentIsArguments, AcceptedConfigRenders
<1> QED  BY <1>1, <1>2 DEF IInv

LEMMA StepIInv == IInv /\ [Next]_vars => IInv'
<1> SUFFICES ASSUME IInv, [Next]_vars PROVE IInv'
  OBVIOUS
<1> USE DEF IInv
<1>1. CASE ImportAsync
  <2>1. PhaseSource' /\ AcceptedConfigRenders'
    BY <1>1 DEF ImportAsync, PhaseSource, AcceptedConfigRenders, TypeOK
  <2>2. DictKept' /\ SentIsArguments'
    BY <1>1, CallKept DEF ImportAsync
  <2>3. TypeOK'
    BY <1>1, <2>1 DEF ImportAsync, TypeOK, Phases, PhaseSource
  <2> QED  BY <2>1, <2>2, <2>3
<1>2. CASE Resolve
  <2>1. phase' # "render_failed"
    <3>1. FromConfig(request) => request.config \in Configs
      BY RequestShape DEF TypeOK
    <3>2. FromConfig(request) => ~AssertionFails(request.config)
      BY <3>1, AcceptedRenders
    <3> QED  BY <1>2, <3>2 DEF Resolve
  <2>2. phase' \in {"rejected", "resolved"} /\ source = "none"
    BY <1>2, <2>1 DEF Resolve, PhaseSource
  <2>3. PhaseSource' /\ AcceptedConfigRenders'
    BY <1>2, <2>2 DEF Resolve, PhaseSource, AcceptedConfigRenders
  <2>4. DictKept' /\ SentIsArguments'
    BY <1>2, CallKept DEF Resolve
  <2>5. TypeOK'
    BY <1>2, <2>2 DEF Resolve, TypeOK, Phases
  <2> QED  BY <2>3, <2>4, <2>5
<1>3. CASE ConnectSource
  <2>1. UNCHANGED <<request, kwargs>> /\ phase' = "connected" /\ source' = "open"
    BY <1>3 DEF ConnectSource, KwargsAfter
  <2>2. PhaseSource' /\ AcceptedConfigRenders'
    BY <2>1 DEF PhaseSource, AcceptedConfigRenders
  <2>3. DictKept' /\ SentIsArguments'
    BY <1>3, <2>1 DEF ConnectSource, DictKept, SentIsArguments, UriMissing
  <2>4. sent' \in [uri : {"none", "positional", "keyword"},
                   db_kwargs : SUBSET Keys, unpacked : SUBSET Keys]
    <3>1. CASE ByModule(request)
      BY <1>3, <3>1, ArgumentsType DEF ConnectSource, TypeOK
    <3>2. CASE ~ByModule(request)
      BY <1>3, <3>2, NotSentType DEF ConnectSource, TypeOK
    <3> QED  BY <3>1, <3>2
  <2>5. TypeOK'
    BY <1>3, <2>1, <2>4 DEF ConnectSource, TypeOK, Phases
  <2> QED  BY <2>2, <2>3, <2>5
<1>4. CASE ConnectFails
  <2>1. PhaseSource' /\ AcceptedConfigRenders'
    BY <1>4 DEF ConnectFails, PhaseSource, AcceptedConfigRenders, TypeOK
  <2>2. DictKept' /\ SentIsArguments'
    BY <1>4, CallKept DEF ConnectFails
  <2>3. TypeOK'
    BY <1>4, <2>1 DEF ConnectFails, TypeOK, Phases, PhaseSource
  <2> QED  BY <2>1, <2>2, <2>3
<1>5. CASE BuildPool
  <2>1. PhaseSource' /\ AcceptedConfigRenders'
    BY <1>5 DEF BuildPool, PhaseSource, AcceptedConfigRenders
  <2>2. DictKept' /\ SentIsArguments'
    BY <1>5, CallKept DEF BuildPool
  <2>3. queuepool' \in Nat
    BY <1>5, RequestShape DEF BuildPool, TypeOK
  <2>4. TypeOK'
    BY <1>5, <2>1, <2>3 DEF BuildPool, TypeOK, Phases, PhaseSource
  <2> QED  BY <2>1, <2>2, <2>4
<1>6. CASE PoolFails
  <2>1. PhaseSource' /\ AcceptedConfigRenders'
    BY <1>6 DEF PoolFails, PhaseSource, AcceptedConfigRenders, TypeOK
  <2>2. DictKept' /\ SentIsArguments'
    BY <1>6, CallKept DEF PoolFails
  <2>3. TypeOK'
    BY <1>6, <2>1 DEF PoolFails, TypeOK, Phases, PhaseSource
  <2> QED  BY <2>1, <2>2, <2>3
<1>7. CASE WrapPool
  <2>1. PhaseSource' /\ AcceptedConfigRenders'
    BY <1>7 DEF WrapPool, PhaseSource, AcceptedConfigRenders, TypeOK
  <2>2. DictKept' /\ SentIsArguments'
    BY <1>7, CallKept DEF WrapPool
  <2>3. TypeOK'
    BY <1>7, <2>1 DEF WrapPool, TypeOK, Phases, PhaseSource
  <2> QED  BY <2>1, <2>2, <2>3
<1>8. CASE WrapFails
  <2>1. PhaseSource' /\ AcceptedConfigRenders'
    BY <1>8 DEF WrapFails, PhaseSource, AcceptedConfigRenders, TypeOK
  <2>2. DictKept' /\ SentIsArguments'
    BY <1>8, CallKept DEF WrapFails
  <2>3. TypeOK'
    BY <1>8, <2>1 DEF WrapFails, TypeOK, Phases, PhaseSource
  <2> QED  BY <2>1, <2>2, <2>3
<1>9. CASE StartClose
  <2>1. PhaseSource' /\ AcceptedConfigRenders'
    BY <1>9 DEF StartClose, PhaseSource, AcceptedConfigRenders, TypeOK
  <2>2. DictKept' /\ SentIsArguments'
    BY <1>9, CallKept DEF StartClose
  <2>3. TypeOK'
    BY <1>9, <2>1 DEF StartClose, TypeOK, Phases, PhaseSource
  <2> QED  BY <2>1, <2>2, <2>3
<1>10. CASE Dispose
  <2>1. PhaseSource' /\ AcceptedConfigRenders'
    BY <1>10 DEF Dispose, PhaseSource, AcceptedConfigRenders, TypeOK
  <2>2. DictKept' /\ SentIsArguments'
    BY <1>10, CallKept DEF Dispose
  <2>3. TypeOK'
    BY <1>10, <2>1 DEF Dispose, TypeOK, Phases, PhaseSource
  <2> QED  BY <2>1, <2>2, <2>3
<1>11. CASE CloseSource
  <2>1. PhaseSource' /\ AcceptedConfigRenders'
    BY <1>11 DEF CloseSource, PhaseSource, AcceptedConfigRenders, TypeOK
  <2>2. DictKept' /\ SentIsArguments'
    BY <1>11, CallKept DEF CloseSource, PhaseSource
  <2>3. TypeOK'
    BY <1>11, <2>1 DEF CloseSource, TypeOK, Phases, PhaseSource
  <2> QED  BY <2>1, <2>2, <2>3
<1>12. CASE CreateAgain
  <2>1. phase' \in {"imported", "called"} /\ source' = "none"
    BY <1>12 DEF CreateAgain
  <2>2. PhaseSource' /\ AcceptedConfigRenders' /\ SentIsArguments'
    BY <2>1 DEF PhaseSource, AcceptedConfigRenders, SentIsArguments
  <2>3. DictKept'
    BY <1>12 DEF CreateAgain, DictKept
  <2>4. sent' \in [uri : {"none", "positional", "keyword"},
                   db_kwargs : SUBSET Keys, unpacked : SUBSET Keys]
    BY <1>12 DEF CreateAgain, NotSent
  <2>5. kwargs' \subseteq Keys
    BY <1>12, RequestShape DEF CreateAgain, TypeOK
  <2>6. TypeOK'
    BY <1>12, <2>1, <2>4, <2>5 DEF CreateAgain, TypeOK, Phases
  <2> QED  BY <2>2, <2>3, <2>6
<1>13. CASE UNCHANGED vars
  BY <1>13 DEF vars, TypeOK, PhaseSource, DictKept, SentIsArguments, UriMissing,
               AcceptedConfigRenders
<1> QED
  BY <1>1, <1>2, <1>3, <1>4, <1>5, <1>6, <1>7, <1>8, <1>9, <1>10, <1>11, <1>12, <1>13 DEF Next

\* IInv holds throughout the life of a pool.
THEOREM Invariance == Spec => []IInv
<1> QED  BY InitIInv, StepIInv, PTL DEF Spec

---------------------------------------------------------------------------
(* The safety properties *)

\* The state is typed, and an open pool has an open source and its reset handler
\* (_create_pool_impl: QueuePool, then event.listen).
THEOREM TypeCorrect == Spec => []TypeOK
<1>1. IInv => TypeOK
  BY DEF IInv
<1> QED  BY Invariance, <1>1, PTL

\* Whatever fails before the driver was called, and whatever a regular close_pool
\* ends, leaves no source connection open.
THEOREM SourceClosed == Spec => []SourceLeaksOnlyOnFailure
<1>1. IInv => SourceLeaksOnlyOnFailure
  BY DEF IInv, PhaseSource, SourceLeaksOnlyOnFailure, Over
<1> QED  BY Invariance, <1>1, PTL

\* create_adbc_connection gives the driver every key of the request once.
THEOREM KeysArrive == Spec => []EveryKeyArrivesOnce
<1>1. IInv => EveryKeyArrivesOnce
  <2> SUFFICES ASSUME IInv, source # "none" PROVE EveryKeyArrivesOnce
    BY DEF EveryKeyArrivesOnce
  <2> DEFINE s == request.signature
  <2>1. kwargs = request.keys /\ ~UriMissing(request)
    BY DEF IInv, DictKept, SentIsArguments
  <2>2. CASE ByModule(request)
    <3>1. sent = Arguments(s, kwargs)
      BY <2>2 DEF IInv, SentIsArguments
    <3>2. RequiresUri(s) => "uri" \in kwargs
      BY <2>1, <2>2 DEF UriMissing
    <3>3. CASE RequiresUri(s)
      <4>1. /\ sent.uri # "none"
            /\ sent.db_kwargs = kwargs \ {"uri"}
            /\ sent.unpacked = {}
        BY <3>1, <3>3 DEF Arguments, RequiresUri
      <4> QED  BY <2>1, <3>2, <3>3, <4>1 DEF EveryKeyArrivesOnce, Delivered
    <3>4. CASE ~RequiresUri(s)
      <4>1. /\ sent.uri = "none"
            /\ \/ sent.db_kwargs = kwargs /\ sent.unpacked = {}
               \/ sent.db_kwargs = {} /\ sent.unpacked = kwargs
        BY <3>1, <3>4 DEF Arguments
      <4>2. Delivered = kwargs
        BY <4>1 DEF Delivered
      <4>3. sent.db_kwargs \cap sent.unpacked = {}
        BY <4>1
      <4> QED  BY <2>1, <4>1, <4>2, <4>3 DEF EveryKeyArrivesOnce
    <3> QED  BY <3>3, <3>4
  <2>3. CASE ~ByModule(request)
    <3>1. sent.uri = "none" /\ sent.db_kwargs = kwargs /\ sent.unpacked = {}
      BY <2>3 DEF IInv, SentIsArguments, NotSent
    <3> QED  BY <2>1, <3>1 DEF EveryKeyArrivesOnce, Delivered
  <2> QED  BY <2>2, <2>3
<1> QED  BY Invariance, <1>1, PTL

\* However many pools are made of one dict, the uri is still in it.
THEOREM UriSurvives == Spec => []UriSurvivesCreate
<1>1. IInv => UriSurvivesCreate
  BY DEF IInv, DictKept, UriSurvivesCreate, UriMissing
<1> QED  BY Invariance, <1>1, PTL

\* No assert of a to_adbc_kwargs fails: the validators have seen to it.
THEOREM AcceptedRender == Spec => []AcceptedConfigRenders
<1>1. IInv => AcceptedConfigRenders
  BY DEF IInv
<1> QED  BY Invariance, <1>1, PTL

\* Every field of an accepted configuration reaches the driver, those excepted
\* that MayGetLost lists: what is rendered (FieldsCarried) is what is delivered.
THEOREM FieldsArrive == Spec => []FieldsReachTheDriver
<1>1. TypeOK /\ EveryKeyArrivesOnce => FieldsReachTheDriver
  <2> SUFFICES ASSUME TypeOK, EveryKeyArrivesOnce, source # "none", FromConfig(request)
               PROVE  request.config.set \ Carried(request.config, Delivered)
                          \subseteq MayGetLost(request.config)
    BY DEF FieldsReachTheDriver
  <2>1. request.config \in Configs /\ request.keys = AdbcKeys(request.config)
    BY RequestShape DEF TypeOK
  <2>2. Delivered = AdbcKeys(request.config)
    BY <2>1 DEF EveryKeyArrivesOnce
  <2> QED  BY <2>1, <2>2, FieldsCarried
<1> QED  BY TypeCorrect, KeysArrive, <1>1, PTL
===================================================================================
