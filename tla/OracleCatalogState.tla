------------------------- MODULE OracleCatalogState -------------------------
(***************************************************************************)
(* What the threads of a DuckDB process read and cache of one Oracle       *)
(* database through its OracleCatalogState: the current schema, the        *)
(* server's version, the lists of schemas and objects, and the schema      *)
(* entry "main" that the generator makes from them.                        *)
(*                                                                         *)
(* Every method that takes the state's lock is one step, except            *)
(* DetectOracleVersion, which others watch without the lock while it is    *)
(* half done.  GetCurrentSchema and the first and last line of             *)
(* GetVersionInfo read without the lock, each in a step of its own.  The   *)
(* races on these fields are taken to show an old or a new value, in the   *)
(* order the code writes them.                                             *)
(***************************************************************************)
EXTENDS Integers, FiniteSets

CONSTANTS
    Threads,        \* threads that use the attached database
    Schemas,        \* all_users: the schemas of the server
    Current,        \* the current schema of the login
    Main,           \* the name "main"
    Objects,        \* names of tables and views that may exist in Current
    Version,        \* the server's version, with its feature flags
    Options,        \* values OracleSettings may get from ATTACH
    MaxChanges,     \* bound on DDL statements on the server
    None            \* an empty string, an empty cache, no thread

ASSUME StateAssumption ==
    /\ Current \in Schemas /\ Main \notin Schemas
    /\ None \notin Schemas \cup {Main, Version} \cup Threads
    /\ Version \notin Schemas \cup {Main}
    /\ IsFiniteSet(Objects)
    /\ Options \subseteq [lazy_schema_loading : BOOLEAN, use_current_schema : BOOLEAN,
                          connection_cache : BOOLEAN, metadata_result_limit : Nat]
    /\ MaxChanges \in Nat

VARIABLES
    \* The state object.
    settings,           \* one of Options
    connected,          \* whether connection has a session
    lock,               \* who holds the lock inside DetectOracleVersion
    current_schema,     \* detected schema, or None
    version_info,       \* Version, or None after a reset
    version_detected,   \* whether version_info counts as detected
    schema_cache,       \* names ListSchemas has cached; empty if none
    object_cache,       \* list of the objects of Current, or None
    \* DuckDB.
    attached,           \* whether a catalog on this state is attached
    mainSchema,         \* what schema entry "main" stands for, or None
    pc,                 \* what each thread does
    seen,               \* what it has read
    \* The server.
    objects,            \* names that exist in Current
    changes,            \* DDL statements so far
    \* History.
    kept,               \* objects that have existed ever since the last clear
    known,              \* objects that have existed at some time since then
    missed,             \* the last version detection since a clear failed
    excuse,             \* what has disturbed each thread's operation
    mainExcuse          \* what had disturbed the creation of "main"

caches     == <<current_schema, schema_cache, object_cache>>
version    == <<version_info, version_detected, missed, lock>>
duckdb     == <<attached, mainSchema, mainExcuse>>
server     == <<objects, changes, kept, known>>
vars       == <<settings, connected, caches, version, duckdb, server, pc, seen, excuse>>

PcValues == {"idle",
             "attachConnect", "attachSchema", "attachVersion", "attachLatch",
             "mainDetect", "mainReread", "mainLookUp", "mainCreate",
             "scanDetect", "scanLatch", "scanFlags", "scanned"}

\* An entry of object_cache, with the limit it was read under.
ObjectLists == [names : SUBSET Objects, limit : Nat]

TypeOK ==
    /\ settings \in Options /\ connected \in BOOLEAN
    /\ lock \in Threads \cup {None}
    /\ current_schema \in {Current, None}
    /\ version_info \in {Version, None} /\ version_detected \in BOOLEAN
    /\ schema_cache \subseteq Schemas \cup {Main}
    /\ object_cache \in ObjectLists \cup {None}
    /\ attached \in BOOLEAN
    /\ mainSchema \in {Current, Main, None}
    /\ pc \in [Threads -> PcValues]
    /\ seen \in [Threads -> {Current, Main, Version, None}]
    /\ objects \subseteq Objects /\ changes \in 0..MaxChanges
    /\ kept \subseteq objects /\ objects \subseteq known /\ known \subseteq Objects
    /\ missed \in BOOLEAN
    /\ excuse \in [Threads -> SUBSET {"cleared", "failed"}]
    /\ mainExcuse \subseteq {"cleared", "failed"}
    \* The lock belongs to the thread that is about to set version_detected.
    /\ \A t \in Threads : pc[t] \in {"attachLatch", "scanLatch"} <=> lock = t

\* A new state, in the middle of the ATTACH that made it.
Init ==
    /\ settings \in Options /\ connected = FALSE /\ lock = None
    /\ current_schema = None /\ version_info = None /\ version_detected = FALSE
    /\ schema_cache = {} /\ object_cache = None
    /\ attached = FALSE /\ mainSchema = None
    /\ \E t \in Threads :
           pc = [u \in Threads |-> IF u = t THEN "attachConnect" ELSE "idle"]
    /\ seen = [t \in Threads |-> None]
    /\ objects \in SUBSET Objects /\ changes = 0
    /\ kept = objects /\ known = objects
    /\ missed = FALSE /\ excuse = [t \in Threads |-> {}] /\ mainExcuse = {}

-----------------------------------------------------------------------------
(* Steps of a thread, and EnsureConnectionInternal.                        *)

Goto(t, to) == pc' = [pc EXCEPT ![t] = to]

\* The operation of t ends, with an answer or an exception.
End(t) ==
    /\ Goto(t, "idle")
    /\ seen' = [seen EXCEPT ![t] = None]
    /\ excuse' = [excuse EXCEPT ![t] = {}]

\* The state has, or gets, a session.
Connects == connected' = TRUE

\* The state needs a new session and does not get one.
ConnectThrows ==
    /\ ~connected \/ ~settings.connection_cache
    /\ connected' = FALSE

\* A method that does not catch exceptions fails: no session, or the query.
MethodThrows(t) ==
    /\ lock = None
    /\ Connects \/ ConnectThrows
    /\ End(t)
    /\ UNCHANGED <<settings, caches, version, duckdb, server>>

-----------------------------------------------------------------------------
(* DetectCurrentSchema and DetectOracleVersion                             *)

\* A failing query is caught, and the schema stays unknown.
DetectCurrentSchema(t) ==
    /\ lock = None
    /\ \/ /\ current_schema # None
          /\ UNCHANGED <<current_schema, connected, excuse>>
       \/ /\ current_schema = None
          /\ Connects
          /\ current_schema' = Current
          /\ UNCHANGED excuse
       \/ /\ current_schema = None
          /\ Connects
          /\ excuse' = [excuse EXCEPT ![t] = @ \cup {"failed"}]
          /\ UNCHANGED current_schema
    /\ UNCHANGED <<settings, schema_cache, object_cache, version, duckdb, server, seen>>

AfterVersion == [attachVersion |-> "idle", scanDetect |-> "scanFlags"]
VersionLatch == [attachVersion |-> "attachLatch", scanDetect |-> "scanLatch"]
AfterLatch   == [attachLatch |-> "idle", scanLatch |-> "scanFlags"]

\* ATTACH has succeeded when its thread is through with the version.
Attaches(t) == pc[t] \in {"attachVersion", "attachLatch"}

\* Somebody else has detected the version.
VersionIsKnown(t) ==
    /\ pc[t] \in DOMAIN AfterVersion
    /\ lock = None
    /\ version_detected
    /\ Goto(t, AfterVersion[pc[t]])
    /\ attached' = (attached \/ Attaches(t))
    /\ excuse' = [excuse EXCEPT ![t] = IF Attaches(t) THEN {} ELSE @]
    /\ UNCHANGED <<settings, connected, caches, version, mainSchema, mainExcuse, server, seen>>

\* Mutant of DetectVersion: it does not take the lock.
DetectVersionUnlocked(t) ==
    /\ pc[t] \in DOMAIN VersionLatch
    /\ ~version_detected
    /\ Connects
    /\ lock' = t
    /\ Goto(t, VersionLatch[pc[t]])
    /\ version_info' = Version /\ missed' = FALSE
    /\ UNCHANGED <<settings, caches, version_detected, duckdb, server, seen, excuse>>

\* The queries: V$INSTANCE, then, if it gave no row, the component list.  An
\* exception, no row at all or a version that cannot be parsed leave
\* version_info as it is.
DetectVersion(t) ==
    /\ pc[t] \in DOMAIN VersionLatch
    /\ lock = None
    /\ ~version_detected
    /\ Connects
    /\ lock' = t
    /\ Goto(t, VersionLatch[pc[t]])
    /\ \/ version_info' = Version /\ missed' = FALSE
       \/ missed' = TRUE /\ UNCHANGED version_info
    /\ UNCHANGED <<settings, caches, version_detected, duckdb, server, seen, excuse>>

\* version_detected is set whatever came of the queries.
LatchVersion(t) ==
    /\ pc[t] \in DOMAIN AfterLatch
    /\ version_detected' = TRUE
    /\ lock' = None
    /\ Goto(t, AfterLatch[pc[t]])
    /\ attached' = (attached \/ Attaches(t))
    /\ excuse' = [excuse EXCEPT ![t] = IF Attaches(t) THEN {} ELSE @]
    /\ UNCHANGED <<settings, connected, caches, version_info, missed, mainSchema,
                   mainExcuse, server, seen>>

DetectVersionThrows(t) ==
    /\ pc[t] \in {"attachVersion", "scanDetect"}
    /\ ~version_detected
    /\ ConnectThrows
    /\ MethodThrows(t)
-----------------------------------------------------------------------------
(* ATTACH on this state: ApplyOptions and OracleCatalog::Initialize.       *)

\* The storage info keeps the state, so a later ATTACH finds it again.  The
\* options are written without the lock.
Attach(t, options) ==
    /\ pc[t] = "idle"
    /\ settings' = options
    /\ Goto(t, "attachConnect")
    /\ UNCHANGED <<connected, caches, version, duckdb, server, seen, excuse>>

Connect(t) ==
    /\ pc[t] = "attachConnect"
    /\ lock = None
    /\ \/ Connects /\ Goto(t, "attachSchema")
       \/ ConnectThrows /\ Goto(t, "idle")
    /\ UNCHANGED <<settings, caches, version, duckdb, server, seen, excuse>>

DetectAtAttach(t) ==
    /\ pc[t] = "attachSchema"
    /\ \/ DetectCurrentSchema(t) /\ Goto(t, "attachVersion")
       \/ current_schema = None /\ ConnectThrows /\ MethodThrows(t)

-----------------------------------------------------------------------------
(* OracleSchemaGenerator::CreateDefaultEntry for the name "main".          *)

\* DuckDB has no entry and calls the generator, which reads the current schema
\* without the lock.
StartMain(t) ==
    /\ pc[t] = "idle"
    /\ attached /\ mainSchema = None
    /\ IF ~settings.use_current_schema
       THEN Goto(t, "mainLookUp") /\ UNCHANGED seen
       ELSE /\ seen' = [seen EXCEPT ![t] = current_schema]
            /\ Goto(t, IF current_schema = None THEN "mainDetect" ELSE "mainCreate")
    /\ excuse' = [excuse EXCEPT ![t] = IF settings.use_current_schema THEN {} ELSE {"failed"}]
    /\ UNCHANGED <<settings, connected, caches, version, duckdb, server>>

DetectForMain(t) ==
    /\ pc[t] = "mainDetect"
    /\ \/ DetectCurrentSchema(t) /\ Goto(t, "mainReread")
       \/ current_schema = None /\ ConnectThrows /\ MethodThrows(t)

\* Mutant of RereadMain: the schema is not read again after its detection.
RereadMainSkipped(t) ==
    /\ pc[t] = "mainReread"
    /\ Goto(t, "mainLookUp")
    /\ UNCHANGED <<settings, connected, caches, version, duckdb, server, seen, excuse>>

\* The schema is read again, without the lock.
RereadMain(t) ==
    /\ pc[t] = "mainReread"
    /\ seen' = [seen EXCEPT ![t] = current_schema]
    /\ Goto(t, IF current_schema = None THEN "mainLookUp" ELSE "mainCreate")
    /\ UNCHANGED <<settings, connected, caches, version, duckdb, server, excuse>>

\* GetRealSchemaName finds no user of that name: the entry is made all the
\* same, and its Oracle schema is called "main", too.
LookUpMain(t) ==
    /\ pc[t] = "mainLookUp"
    /\ \/ /\ lock = None
          /\ Connects
          /\ seen' = [seen EXCEPT ![t] = Main]
          /\ Goto(t, "mainCreate")
          /\ UNCHANGED <<settings, caches, version, duckdb, server, excuse>>
       \/ MethodThrows(t)

\* DuckDB keeps the first entry that is made, for as long as the database is
\* attached.
CreateMain(t) ==
    /\ pc[t] = "mainCreate"
    /\ IF mainSchema = None
       THEN mainSchema' = seen[t] /\ mainExcuse' = excuse[t]
       ELSE UNCHANGED <<mainSchema, mainExcuse>>
    /\ End(t)
    /\ UNCHANGED <<settings, connected, caches, version, attached, server>>

-----------------------------------------------------------------------------
(* OracleTableEntry::GetScanFunction: GetVersionInfo, then the flags.      *)

\* Mutant of StartScan: the version is not detected on demand.
StartScanWithoutDetection(t) ==
    /\ pc[t] = "idle"
    /\ attached
    /\ Goto(t, "scanFlags")
    /\ UNCHANGED <<settings, connected, caches, version, duckdb, server, seen, excuse>>

StartScan(t) ==
    /\ pc[t] = "idle"
    /\ attached
    /\ Goto(t, IF version_detected THEN "scanFlags" ELSE "scanDetect")
    /\ UNCHANGED <<settings, connected, caches, version, duckdb, server, seen, excuse>>

\* GetVersionInfo returns a reference: the flags are read when they are used.
ReadFlags(t) ==
    /\ pc[t] = "scanFlags"
    /\ seen' = [seen EXCEPT ![t] = version_info]
    /\ Goto(t, "scanned")
    /\ UNCHANGED <<settings, connected, caches, version, duckdb, server, excuse>>

FinishScan(t) ==
    /\ pc[t] = "scanned"
    /\ End(t)
    /\ UNCHANGED <<settings, connected, caches, version, duckdb, server>>

-----------------------------------------------------------------------------
(* ListSchemas, ListObjects and ClearCaches                                *)

\* Mutant of ListSchemas: "main" is cached although nothing was detected.
ListSchemasMainAlways(t) ==
    /\ pc[t] = "idle"
    /\ attached /\ lock = None
    /\ schema_cache = {}
    /\ Connects
    /\ current_schema' \in {current_schema, Current}
    /\ schema_cache' = Schemas \cup {Main}
    /\ UNCHANGED <<settings, object_cache, version, duckdb, server, pc, seen, excuse>>

\* Nothing is cached: the current schema, with "main" if that stands for it,
\* when loading is lazy and the schema is known or can be read; else all users.
ListSchemas(t) ==
    /\ pc[t] = "idle"
    /\ attached /\ lock = None
    /\ schema_cache = {}
    /\ Connects
    /\ IF settings.lazy_schema_loading /\ current_schema = None
       THEN current_schema' \in {Current, None}
       ELSE UNCHANGED current_schema
    /\ schema_cache' = IF ~settings.lazy_schema_loading \/ current_schema' = None
                       THEN Schemas
                       ELSE {current_schema'} \cup
                            (IF settings.use_current_schema THEN {Main} ELSE {})
    /\ UNCHANGED <<settings, object_cache, version, duckdb, server, pc, seen, excuse>>

\* ListSchemas or ListObjects fails: nothing has been cached.
ListThrows(t) ==
    /\ pc[t] = "idle"
    /\ attached /\ lock = None
    /\ schema_cache = {} \/ object_cache = None
    /\ Connects \/ ConnectThrows
    /\ UNCHANGED <<settings, caches, version, duckdb, server, pc, seen, excuse>>

\* How many of n objects a list with the given limit shows.
Shown(n, limit) == IF limit = 0 \/ n <= limit THEN n ELSE limit

\* Nothing is cached for this schema and these object types: the objects are
\* read from the server, up to the state's limit.
ListObjects(t) ==
    /\ pc[t] = "idle"
    /\ attached /\ lock = None
    /\ object_cache = None
    /\ Connects
    /\ \E names \in SUBSET objects :
          /\ Cardinality(names) = Shown(Cardinality(objects), settings.metadata_result_limit)
          /\ object_cache' = [names |-> names, limit |-> settings.metadata_result_limit]
    /\ UNCHANGED <<settings, current_schema, schema_cache, version, duckdb, server,
                   pc, seen, excuse>>

\* What becomes of the history when the caches are cleared.
HistoryOfClear ==
    /\ kept' = objects /\ known' = objects
    /\ missed' = FALSE
    /\ excuse' = [t \in Threads |-> IF pc[t] = "idle" THEN {} ELSE excuse[t] \cup {"cleared"}]

\* Mutant of ClearCaches: the lists of objects are forgotten.
ClearCachesKeepsObjects ==
    /\ lock = None
    /\ current_schema' = None /\ schema_cache' = {}
    /\ version_detected' = FALSE /\ version_info' = None
    /\ connected' = FALSE
    /\ HistoryOfClear
    /\ UNCHANGED <<settings, lock, object_cache, duckdb, objects, changes, pc, seen>>

\* A thread runs oracle_clear_cache.
ClearCaches ==
    /\ lock = None
    /\ current_schema' = None /\ schema_cache' = {} /\ object_cache' = None
    /\ version_detected' = FALSE /\ version_info' = None
    /\ connected' = FALSE
    /\ HistoryOfClear
    /\ UNCHANGED <<settings, lock, duckdb, objects, changes, pc, seen>>

-----------------------------------------------------------------------------
(* The surroundings.                                                       *)

\* DETACH forgets the catalog and its entries; the state stays.
Detach ==
    /\ attached
    /\ \A t \in Threads : pc[t] = "idle"
    /\ attached' = FALSE /\ mainSchema' = None /\ mainExcuse' = {}
    /\ UNCHANGED <<settings, connected, caches, version, server, pc, seen, excuse>>

\* A table or view is created, dropped or, in two steps, renamed.
Change(o) ==
    /\ changes < MaxChanges
    /\ changes' = changes + 1
    /\ objects' = IF o \in objects THEN objects \ {o} ELSE objects \cup {o}
    /\ kept' = kept \ {o} /\ known' = known \cup {o}
    /\ UNCHANGED <<settings, connected, caches, version, duckdb, pc, seen, excuse>>

Next ==
    \/ \E t \in Threads :
           \/ \E options \in Options : Attach(t, options)
           \/ Connect(t) \/ DetectAtAttach(t)
           \/ VersionIsKnown(t) \/ DetectVersion(t) \/ LatchVersion(t)
           \/ DetectVersionThrows(t)
           \/ StartMain(t) \/ DetectForMain(t) \/ RereadMain(t)
           \/ LookUpMain(t) \/ CreateMain(t)
           \/ StartScan(t) \/ ReadFlags(t) \/ FinishScan(t)
           \/ ListSchemas(t) \/ ListObjects(t) \/ ListThrows(t)
    \/ ClearCaches \/ Detach
    \/ \E o \in Objects : Change(o)

Spec == Init /\ [][Next]_vars

-----------------------------------------------------------------------------
(* Correctness.                                                            *)

\* The detection on demand works without the lock: a scan is built with the
\* server's feature flags, unless the caches were cleared while it was built,
\* or the last detection found nothing.  No thread sees version_detected set
\* and the flags not yet filled in.
ScanSeesVersion ==
    \A t \in Threads :
        pc[t] = "scanned" /\ seen[t] # Version => "cleared" \in excuse[t] \/ missed

\* Schema "main" stands for the login's current schema, unless that could not
\* be detected (or is not wanted), or the caches were cleared between its
\* detection and the second look at it.  The entry is there to stay, so a
\* wrong one would hide the user's tables until DETACH.
MainIsCurrent == mainSchema = Main => mainExcuse # {}

\* "main" is in the list of schemas only together with the one schema it stands
\* for, whichever of DetectCurrentSchema and ListSchemas came first, under
\* whichever options, and although the two caches are filled separately.
MainListedForCurrent ==
    Main \in schema_cache =>
        current_schema # None /\ schema_cache = {Main, current_schema}

\* A list of objects that is served was read after the last oracle_clear_cache:
\* it has no object that was dropped before, and it has every object that has
\* been there ever since, unless it is as long as the limit it was read under,
\* whatever lists were being read and changes made meanwhile.
ClearShowsObjects ==
    object_cache # None =>
        /\ object_cache.names \subseteq known
        /\ \/ kept \subseteq object_cache.names
           \/ object_cache.limit > 0 /\ Cardinality(object_cache.names) >= object_cache.limit

=============================================================================
