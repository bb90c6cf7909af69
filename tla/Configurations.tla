----------------------------- MODULE Configurations -----------------------------
(****************************************************************************)
(* The warehouse configurations (_base_config.py, _*_config.py): which      *)
(* combinations of fields their validators accept, what they offer          *)
(* create_pool of a driver, and which keyword arguments to_adbc_kwargs      *)
(* renders.  Each warehouse is a record of what is particular to it; a      *)
(* configuration is the set of the fields its caller gave a value.  Values, *)
(* quoting and the exact spelling of the keys play no part: a field with a  *)
(* key of its own travels under the field's name.                           *)
(****************************************************************************)
EXTENDS Integers

CONSTANTS
    Sizes,        \* the values of pool_size looked at
    DefaultSize   \* of create_pool's parameter

ASSUME SizesAssumption == Sizes \subseteq Nat /\ DefaultSize \in Sizes

---------------------------------------------------------------------------
(* The warehouses *)

\* What a warehouse says unless it says otherwise.  "option" is any optional
\* field with a key of its own, "flag" one that is sent whether set or not.
Base == [uri       |-> "none",  \* or it goes "alone", or "beside" the own keys
         parts     |-> {},      \* the fields a uri is built from
         hints     |-> {},      \* one of them makes to_adbc_kwargs build it
         own       |-> {},      \* the fields with a key of their own
         always    |-> {},      \* the keys sent whatever is set
         ignored   |-> {},      \* the fields that to_adbc_kwargs never reads
         modes     |-> {{}},    \* check_connection_spec: one of them is set in full
         exclusive |-> {},      \* sets of fields that are refused together
         asserts   |-> {},      \* what to_adbc_kwargs asserts when there is no uri
         file      |-> FALSE,   \* a local database, in memory unless one is named
         module    |-> FALSE]   \* it has a dbapi module when its package is installed

LibpqParts == {"user", "password", "host", "port", "database", "sslmode"}

PostgreSQL == [Base EXCEPT !.uri = "alone", !.module = TRUE,
    !.parts = LibpqParts, !.hints = LibpqParts \ {"port"}, !.ignored = {"use_copy"}]

Redshift == [Base EXCEPT !.uri = "beside", !.own = {"option"},
    !.parts = LibpqParts, !.hints = LibpqParts \ {"port"}]

Databricks == [Base EXCEPT !.uri = "alone", !.ignored = {"client_id"},
    !.parts = {"host", "http_path", "token", "catalog"},
    !.hints = {"host"},   \* asserted: without a uri, one is always built
    !.modes = {{"uri"}, {"host", "http_path", "token"}},
    !.asserts = {"host", "http_path", "token"}]

MySQL == [Base EXCEPT !.uri = "alone",
    !.parts = {"host", "user", "password", "database"},
    !.hints = {"host"},
    !.modes = {{"uri"}, {"host", "user", "database"}},
    !.asserts = {"host", "user", "database"}]

ClickHouse == [Base EXCEPT !.uri = "alone",
    !.own = {"host", "user", "password", "database"}, !.always = {"flag"},
    !.modes = {{"uri"}, {"host", "user"}},
    !.asserts = {"host", "user"}]

Quack == [Base EXCEPT !.uri = "beside", !.own = {"option"}, !.module = TRUE,
    !.parts = {"host", "port"}, !.hints = {"host"},
    !.modes = {{"uri"}, {"host"}}, !.exclusive = {{"uri", "host"}},
    !.asserts = {"host"}]

MSSQL == [Base EXCEPT !.uri = "alone", !.own = {"option"}, !.always = {"flag"}]

Trino == [Base EXCEPT !.uri = "alone", !.own = {"option"}, !.always = {"flag"}]

FlightSQL == [Base EXCEPT !.uri = "beside", !.own = {"option"}, !.always = {"flag"},
    !.module = TRUE]

Snowflake == [Base EXCEPT !.own = {"option", "private_key_path", "private_key_pem"},
    !.always = {"flag"}, !.module = TRUE,
    !.exclusive = {{"private_key_path", "private_key_pem"}}]

BigQuery == [Base EXCEPT !.own = {"option"}, !.module = TRUE]

SQLite == [Base EXCEPT !.parts = {"database"}, !.always = {"uri"}, !.file = TRUE]

DuckDB == [Base EXCEPT !.own = {"database", "option"}, !.always = {"database"},
    !.file = TRUE]

\* A caller's own class that implements the WarehouseConfig protocol.
Custom == [Base EXCEPT !.uri = "beside", !.own = {"option"}]

Warehouses == [postgresql |-> PostgreSQL, redshift |-> Redshift, databricks |-> Databricks,
               mysql |-> MySQL, clickhouse |-> ClickHouse, quack |-> Quack, mssql |-> MSSQL,
               trino |-> Trino, flightsql |-> FlightSQL, snowflake |-> Snowflake,
               bigquery |-> BigQuery, sqlite |-> SQLite, duckdb |-> DuckDB, custom |-> Custom]

---------------------------------------------------------------------------
(* Configurations *)

Is(c) == Warehouses[c.of]

Fields(w) == Warehouses[w].parts \cup Warehouses[w].own \cup Warehouses[w].ignored
                \cup (IF Warehouses[w].uri = "none" THEN {} ELSE {"uri"})

\* _driver_path and _dbapi_module: every class of the library has a path (its
\* package's or a name for the driver manager), some a module when installed.
Offers(w) == IF w = "custom" THEN SUBSET {"path", "module"}
             ELSE {{"path"}} \cup (IF Warehouses[w].module THEN {{"path", "module"}} ELSE {})

\* The pool_size of a class that does not validate it is read by nobody.
OwnSizes(w) == IF Warehouses[w].file THEN Sizes ELSE {DefaultSize}

InMemory(c) == Is(c).file /\ "database" \notin c.set

\* Defect: check_connection_spec is content with any field of a mode.
DefectAccepted(c) ==
    /\ \E mode \in Is(c).modes : mode = {} \/ mode \cap c.set # {}
    /\ \A fields \in Is(c).exclusive : ~(fields \subseteq c.set)
    /\ Is(c).file => c.pool_size > 0
    /\ InMemory(c) => c.pool_size <= 1

\* The validators.
Accepted(c) ==
    /\ \E mode \in Is(c).modes : mode \subseteq c.set
    /\ \A fields \in Is(c).exclusive : ~(fields \subseteq c.set)
    /\ Is(c).file => c.pool_size > 0
    /\ InMemory(c) => c.pool_size <= 1

Configs ==
    {c \in UNION {[of : {w}, set : SUBSET Fields(w), offers : Offers(w), pool_size : OwnSizes(w)] :
                     w \in DOMAIN Warehouses} : Accepted(c)}

\* The asserts of to_adbc_kwargs, which rely on the validators.
AssertionFails(c) == "uri" \notin c.set /\ ~(Is(c).asserts \subseteq c.set)

---------------------------------------------------------------------------
(* to_adbc_kwargs *)

\* Defect: the sslmode is forgotten among the fields that make up a uri.
DefectRendersUri(c) == "uri" \in c.set \/ (Is(c).hints \ {"sslmode"}) \cap c.set # {}

RendersUri(c) == "uri" \in c.set \/ Is(c).hints \cap c.set # {}

\* The fields whose values are in the uri: a password only beside a user.
InUri(c) == IF "uri" \in c.set THEN {"uri"}
            ELSE (c.set \cap Is(c).parts) \ (IF "user" \in c.set THEN {} ELSE {"password"})

OwnKeys(c) == IF "uri" \in c.set /\ Is(c).uri = "alone" THEN {}
              ELSE (c.set \cap Is(c).own) \cup Is(c).always

AdbcKeys(c) == OwnKeys(c) \cup (IF RendersUri(c) THEN {"uri"} ELSE {})

\* The fields of c whose values arrive with these keys.
Carried(c, keys) == (c.set \cap Is(c).own \cap keys)
                        \cup (IF "uri" \in keys THEN InUri(c) ELSE {})
===============================================================================
