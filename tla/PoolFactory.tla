------------------------------- MODULE PoolFactory -------------------------------
(****************************************************************************)
(* The life of one pool (_pool_factory.py, _driver_api.py, _async/          *)
(* _factory.py): the arguments of create_pool and its three siblings are    *)
(* resolved to a driver, the driver is called for the source connection,    *)
(* the QueuePool and the async wrapper are put in front of it, and a        *)
(* managed pool is closed when its block is left.  Every step may fail;     *)
(* the caller may close again and may create another pool from the same     *)
(* arguments.                                                               *)
(****************************************************************************)
EXTENDS Configurations

CONSTANTS
    Overflows,        \* the values of max_overflow looked at
    DefaultOverflow   \* of create_pool's parameter

ASSUME OverflowsAssumption == Overflows \subseteq Int /\ DefaultOverflow \in Overflows

NoConfig == [of |-> "none", set |-> {}, offers |-> {}, pool_size |-> DefaultSize]

RawKeys == {"uri", "option"}   \* of the db_kwargs of a raw request

Keys == RawKeys \cup UNION {AdbcKeys(c) : c \in Configs}

\* The signature of a driver module's connect(): does it take db_kwargs, and uri.
Signatures == [db_kwargs : BOOLEAN,
               uri : {"absent", "optional", "positional", "keyword"}]

\* Those of the modules the library's configurations name.
SignaturesOf(w) ==
    IF w = "custom" THEN Signatures
    ELSE {[db_kwargs |-> TRUE, uri |-> IF w \in {"postgresql", "flightsql", "quack"}
                                       THEN "positional" ELSE "optional"]}

RawRequests ==
    [async : BOOLEAN, config : {NoConfig},
     driver_path : BOOLEAN, dbapi_module : BOOLEAN, db_kwargs : BOOLEAN,
     keys : SUBSET RawKeys, signature : Signatures,
     pool_size : Sizes, max_overflow : Overflows]

\* db_kwargs plays no part beside a configuration.
ConfigRequests ==
    UNION {[async : BOOLEAN, config : {c},
            driver_path : BOOLEAN, dbapi_module : BOOLEAN, db_kwargs : {FALSE},
            keys : {AdbcKeys(c)}, signature : SignaturesOf(c.of),
            pool_size : Sizes, max_overflow : Overflows] : c \in Configs}

Requests == RawRequests \cup ConfigRequests

VARIABLES
    request,   \* what the caller asked for
    kwargs,    \* the keys now in the caller's dict (in a new one, of a configuration)
    phase,
    sent,      \* what the driver's connect() was called with
    source,    \* the source connection
    queuepool, \* the pool in front of it: its size, 0 before there is one
    listening  \* the reset handler is registered on it

vars == <<request, kwargs, phase, sent, source, queuepool, listening>>

NotSent == [uri |-> "none", db_kwargs |-> {}, unpacked |-> {}]

Phases == {"called", "imported", "extra_missing", "import_failed",
           "resolved", "rejected", "render_failed", "connected", "connect_failed",
           "wrapping", "pool_failed", "wrap_failed", "open",
           "closing", "disposed", "dispose_failed", "close_failed", "closed"}

TypeOK ==
    /\ request \in Requests
    /\ kwargs \subseteq Keys
    /\ phase \in Phases
    /\ sent \in [uri : {"none", "positional", "keyword"},
                 db_kwargs : SUBSET Keys, unpacked : SUBSET Keys]
    /\ source \in {"none", "open", "closed"}
    /\ queuepool \in Nat
    /\ listening \in BOOLEAN
    /\ phase = "open" => listening /\ source = "open"

Init ==
    /\ request \in Requests
    /\ kwargs = request.keys
    /\ phase = "called"
    /\ sent = NotSent
    /\ source = "none"
    /\ queuepool = 0
    /\ listening = FALSE

---------------------------------------------------------------------------
(* The package's __getattr__: the async entry points are imported on first use *)

\* What the failing import may have been looking for: "anyio" itself, a module of
\* it, another module, or nothing that it names (then its message is read).
ImportErrors == [missing : {"anyio", "anyio.x", "other", "none"}, mentions_anyio : BOOLEAN]

AnyioAbsent(e) == \/ e.missing \in {"anyio", "anyio.x"}
                  \/ e.missing = "none" /\ e.mentions_anyio

ImportAsync ==
    /\ phase = "called" /\ request.async
    /\ \/ phase' = "imported"
       \/ \E e \in ImportErrors :
              phase' = IF AnyioAbsent(e) THEN "extra_missing" ELSE "import_failed"
    /\ UNCHANGED <<request, kwargs, sent, source, queuepool, listening>>

---------------------------------------------------------------------------
(* _create_pool_impl: resolving the arguments *)

FromConfig(r) == r.config # NoConfig

\* The TypeErrors.
Refused(r) ==
    \/ r.driver_path /\ r.dbapi_module
    \/ FromConfig(r) /\ r.config.offers = {}
    \/ ~FromConfig(r) /\ (r.driver_path \/ r.dbapi_module) /\ ~r.db_kwargs
    \/ ~FromConfig(r) /\ ~r.driver_path /\ ~r.dbapi_module

\* A configuration goes before a raw argument, and its module before its path.
ByModule(r) == IF FromConfig(r) THEN "module" \in r.config.offers ELSE ~r.driver_path

Resolve ==
    /\ phase = IF request.async THEN "imported" ELSE "called"
    /\ phase' = IF Refused(request) THEN "rejected"
                ELSE IF FromConfig(request) /\ AssertionFails(request.config)
                THEN "render_failed" ELSE "resolved"
    /\ UNCHANGED <<request, kwargs, sent, source, queuepool, listening>>

---------------------------------------------------------------------------
(* create_adbc_connection: the call of the driver *)

\* Family A': connect() takes db_kwargs and requires the uri beside it.
RequiresUri(s) == s.db_kwargs /\ s.uri \in {"positional", "keyword"}

\* Defect: the uri goes to a driver of family A' and stays in db_kwargs as well.
DefectUriSentTwice(s, keys) ==
    [uri       |-> IF RequiresUri(s) THEN s.uri ELSE "none",
     db_kwargs |-> IF s.db_kwargs THEN keys ELSE {},
     unpacked  |-> IF s.db_kwargs THEN {} ELSE keys]

\* Families A' and A get db_kwargs, family B the keys unpacked.
Arguments(s, keys) ==
    [uri       |-> IF RequiresUri(s) THEN s.uri ELSE "none",
     db_kwargs |-> IF s.db_kwargs THEN keys \ (IF RequiresUri(s) THEN {"uri"} ELSE {}) ELSE {},
     unpacked  |-> IF s.db_kwargs THEN {} ELSE keys]

\* Defect: the uri is popped off the caller's own dict.
DefectPopsCallersDict(r) ==
    IF ByModule(r) /\ ~FromConfig(r) /\ RequiresUri(r.signature) THEN kwargs \ {"uri"} ELSE kwargs

\* The dict after the call: where a key is popped, it is off a copy.
KwargsAfter(r) == kwargs

\* The uri that a driver of family A' requires is missing: KeyError.
UriMissing(r) == ByModule(r) /\ RequiresUri(r.signature) /\ "uri" \notin kwargs

ConnectSource ==
    /\ phase = "resolved" /\ ~UriMissing(request)
    /\ sent' = IF ByModule(request) THEN Arguments(request.signature, kwargs)
               ELSE [NotSent EXCEPT !.db_kwargs = kwargs]
    /\ kwargs' = KwargsAfter(request)
    /\ source' = "open"
    /\ phase' = "connected"
    /\ UNCHANGED <<request, queuepool, listening>>

\* No such driver (ImportError), a refusal of the driver, or the KeyError.
ConnectFails ==
    /\ phase = "resolved"
    /\ phase' = "connect_failed"
    /\ UNCHANGED <<request, kwargs, sent, source, queuepool, listening>>

---------------------------------------------------------------------------
(* The QueuePool and the AsyncPool in front of the source *)

\* Defect: the pool is handed out before its reset handler is registered.
DefectHandlerForgotten ==
    /\ phase = "connected"
    /\ queuepool' = request.pool_size
    /\ phase' = IF request.async THEN "wrapping" ELSE "open"
    /\ UNCHANGED <<request, kwargs, sent, source, listening>>

\* QueuePool(...), pool._adbc_source, event.listen(pool, "reset", ...).  The size
\* is the parameter's, whatever the configuration's pool_size says.
BuildPool ==
    /\ phase = "connected"
    /\ queuepool' = request.pool_size
    /\ listening' = TRUE
    /\ phase' = IF request.async THEN "wrapping" ELSE "open"
    /\ UNCHANGED <<request, kwargs, sent, source>>

\* The constructor raises; nobody closes the source.
PoolFails ==
    /\ phase = "connected"
    /\ phase' = "pool_failed"
    /\ UNCHANGED <<request, kwargs, sent, source, queuepool, listening>>

\* AsyncPool(sync_pool): a limiter of pool_size + max_overflow tokens ...
WrapPool ==
    /\ phase = "wrapping"
    /\ request.pool_size + request.max_overflow >= 0
    /\ phase' = "open"
    /\ UNCHANGED <<request, kwargs, sent, source, queuepool, listening>>

\* ... that anyio refuses below 1 (below 0 from some release on).
WrapFails ==
    /\ phase = "wrapping"
    /\ request.pool_size + request.max_overflow < 1
    /\ phase' = "wrap_failed"
    /\ UNCHANGED <<request, kwargs, sent, source, queuepool, listening>>

---------------------------------------------------------------------------
(* close_pool, at the end of a managed block or by hand *)

StartClose ==
    /\ phase \in {"open", "dispose_failed", "close_failed", "closed"}
    /\ phase' = "closing"
    /\ UNCHANGED <<request, kwargs, sent, source, queuepool, listening>>

Dispose ==
    /\ phase = "closing"
    /\ phase' \in {"disposed", "dispose_failed"}
    /\ UNCHANGED <<request, kwargs, sent, source, queuepool, listening>>

\* Defect: close_pool only disposes.
DefectSourceForgotten ==
    /\ phase = "disposed"
    /\ phase' = "closed"
    /\ UNCHANGED <<request, kwargs, sent, source, queuepool, listening>>

CloseSource ==
    /\ phase = "disposed"
    /\ \/ phase' = "closed" /\ source' = "closed"
       \/ phase' = "close_failed" /\ UNCHANGED source
    /\ UNCHANGED <<request, kwargs, sent, queuepool, listening>>

Over == phase \in {"extra_missing", "import_failed", "rejected", "render_failed",
                   "connect_failed", "pool_failed", "wrap_failed",
                   "dispose_failed", "close_failed", "closed"}

\* The caller creates another pool from the same arguments: a configuration
\* makes a new dict, a raw request passes the one it passed before.  An import
\* that succeeded is not repeated.
CreateAgain ==
    /\ Over
    /\ phase' = IF request.async /\ phase \notin {"extra_missing", "import_failed"}
                THEN "imported" ELSE "called"
    /\ sent' = NotSent
    /\ source' = "none" /\ queuepool' = 0 /\ listening' = FALSE
    /\ kwargs' = IF FromConfig(request) THEN request.keys ELSE kwargs
    /\ UNCHANGED request

Next == \/ ImportAsync \/ Resolve \/ ConnectSource \/ ConnectFails \/ BuildPool \/ PoolFails
        \/ WrapPool \/ WrapFails \/ StartClose \/ Dispose \/ CloseSource \/ CreateAgain

Spec == Init /\ [][Next]_vars

---------------------------------------------------------------------------
(* Properties *)

\* A pool that is over leaves the source open only when one of three steps
\* failed: the pool's constructors, dispose, or the source's own close.  Neither
\* a refusal, nor a failed connect, nor a regular close leaks it.
SourceLeaksOnlyOnFailure ==
    Over /\ source = "open" => phase \in {"pool_failed", "wrap_failed",
                                          "dispose_failed", "close_failed"}

\* The keys the driver got.
Delivered == (IF sent.uri = "none" THEN {} ELSE {"uri"}) \cup sent.db_kwargs \cup sent.unpacked

\* Every keyword argument reaches the driver exactly once, whatever the shape of
\* its connect(): as uri, in db_kwargs or unpacked (families A, A' and B).
EveryKeyArrivesOnce ==
    source # "none" =>
        /\ Delivered = request.keys
        /\ sent.uri # "none" => "uri" \notin sent.db_kwargs
        /\ sent.db_kwargs \cap sent.unpacked = {}

\* A second pool can be made of the dict that the first was made of: no driver
\* misses the uri of a request that names one.
UriSurvivesCreate ==
    phase = "resolved" /\ UriMissing(request) => "uri" \notin request.keys

\* A configuration that the validators accepted renders: no assert of
\* to_adbc_kwargs fails.
AcceptedConfigRenders == phase # "render_failed"

\* The fields of a configuration that may get lost: those a uri takes the place
\* of; without one, those that are never read, a password without a user, and a
\* port without anything else.
MayGetLost(c) ==
    IF "uri" \in c.set
    THEN c.set \ (IF Is(c).uri = "alone" THEN {"uri"} ELSE {"uri"} \cup Is(c).own)
    ELSE Is(c).ignored
            \cup (IF "user" \in c.set THEN {} ELSE {"password"})
            \cup (IF c.set \cap Is(c).parts = {"port"} THEN {"port"} ELSE {})

\* The driver gets every other field that the caller set, through to_adbc_kwargs
\* and create_adbc_connection together, whatever other fields are set beside it.
FieldsReachTheDriver ==
    source # "none" /\ FromConfig(request) =>
        request.config.set \ Carried(request.config, Delivered) \subseteq MayGetLost(request.config)

---------------------------------------------------------------------------
(* What the documentation says and the code does not do *)

\* "pool_size is forced to 1 for in-memory databases": a pool made from a valid
\* configuration of an in-memory DuckDB, with no argument besides, has one
\* connection.
MemoryPoolIsSingle ==
    /\ phase = "open"
    /\ request.config.of = "duckdb" /\ InMemory(request.config)
    /\ request.pool_size = DefaultSize
    => queuepool = 1

\* "Empty mode: returns {} so libpq resolves from env vars": a PostgreSQL
\* configuration without any field can be connected, the uri its driver module
\* asks for is not missing.
EmptyModeConnects ==
    phase = "resolved" /\ request.config.of = "postgresql" /\ request.config.set = {}
    => ~UriMissing(request)
===============================================================================
