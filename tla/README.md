# A verification model of the DuckDB Oracle extension

This directory models the core of the extension: the pool of Oracle sessions,
the use of those sessions by `COPY`, `oracle_execute` and DuckDB's transactions,
the bookkeeping behind `ATTACH`, secrets and wallets, what is cached of an
attached database, the path of a scan from bind to fetch, and the data side of
`COPY`. The modules are written from the C++ sources under `src/src/`. Line
numbers are in `PROJECT.json` under `map`; a comment that names a file and a line
means the file of that name under `src/src/`.

## 1. Inventory

| Component | State | Operations | Interacts with |
|---|---|---|---|
| Session pool (`oracle_connection_manager.cpp`) | map connection string -> pool; each pool: idle stack, `total`, `limit`, condition variable; handles | `Acquire`, handle destructor, `Clear` | every other component acquires handles; `oracle_clear_cache` clears |
| `OracleConnection` | one handle or none | `Connect`, `Query`, `Commit`, `Rollback` | catalog state, transactions, COPY bind |
| Transactions (`oracle_transaction_manager.cpp`) | `active` list; one lazy connection each | start, commit, rollback | DuckDB's meta transaction; pool |
| COPY (`oracle_write.cpp`) | bind data; global state (handle, statement); local state (bind buffers) | bind, init, sink, finalize, destructors | pool; the server's transaction |
| `oracle_execute` | none | one statement, commit on success | pool; alias map |
| ATTACH (`oracle_storage_extension.cpp`) | `OracleStorageInfo::state`, per DuckDB instance | attach, create transaction manager | registries, catalog state |
| Registries (`oracle_catalog.cpp`) | weak list of states, weak alias map, per process | register, look up, clear all | `oracle_query`, `oracle_execute`, `oracle_clear_cache` |
| Catalog state (`oracle_catalog.cpp`) | connection, current schema, version, schema/table/object caches, settings | detect, list, resolve, clear | schema and table generators |
| Generators (`oracle_schema_entry.cpp`) | entries created on demand | create default entry | DuckDB's catalog sets; catalog state |
| Table entries (`oracle_table_entry.cpp`) | columns and their Oracle types | load columns, map types, rewrite the query | catalog state; scan |
| Scan (`oracle_extension.cpp`) | bind data (query, columns); scan state (handle, statement, buffers, column mapping) | bind, push down, init, fetch | pool |
| Secrets, connection strings (`oracle_secret.cpp`, `oracle_connection_manager.cpp`) | DuckDB's secrets; `TNS_ADMIN` of the process | create, build, parse, `oracle_attach_wallet` | ATTACH, every login |
| Settings | session options; ATTACH options | merge | scan, pool, catalog state |

What is hard in this system:

* **Concurrency.** DuckDB runs connections and pipelines on many threads. The
  pool has two levels of locks and drops the inner one to log in; the look-up
  and the lock of a pool are two critical sections; the storage info and the
  list of transactions have no lock at all.
* **Failure.** Any OCI call may fail after half of its work; exceptions run
  through destructors that return sessions to the pool.
* **Time.** Waiting ends at a deadline that races with notifications.
* **Lifetime.** Pools, sessions and catalog states live by shared pointers
  from maps, handles and callers; weak pointers outlive what they point to.
* **Hidden state.** A session carries an open Oracle transaction from one user
  to the next, the bind buffers of a COPY what earlier chunks left in them, and
  the process an environment variable that every login reads.
* **Numberings.** A column has a place in the table, in the scan's column list,
  in the query's SELECT list and among the fetched buffers, and these change at
  different times.

What makes each component correct:

* pool: counters that match reality, the limit, one user per session, nothing
  leaked, callers that get an answer, no wake-up lost without a cause;
* COPY and transactions: all or nothing, and nobody commits another one's rows;
* ATTACH: every database talks to the server it named; caches can be reached;
* catalog state: `main` stands for the current schema, scans are built for the
  server's version, and after `oracle_clear_cache` nothing old is served;
* scan: the rows, columns and types the query asked for, each row once, whatever
  part of the filters and columns Oracle took over;
* COPY's data: the right table, columns and conversions, and every batch read as
  its chunk gave it;
* secrets: what was stored can log in, as itself and with its wallet.

## 2. Modules

| Module | Models | Role |
|---|---|---|
| `SessionPool` | what users may assume of sessions | abstract specification |
| `OracleConnectionManager` | the pool and its handles | implements `SessionPool` |
| `OracleConnectionManagerProofs` | counters and limits of the pool | TLAPS |
| `OracleConnectionManagerRefinement` | who owns a session; the pool implements `SessionPool` | TLAPS |
| `OracleTransactions` | COPY, `oracle_execute`, DuckDB transactions | extends `SessionPool`, so that it composes with any pool that implements it |
| `CopyContract` | what the user of a COPY can rely on | abstract specification, implemented by `OracleTransactions` |
| `OracleTransactionsProofs` | its safety invariants; it implements `CopyContract` | TLAPS |
| `OracleAttach` | ATTACH, DETACH, storage info, registries | independent of sessions |
| `OracleAttachProofs` | its invariants | TLAPS |
| `OracleCatalogState` | one state: options, detection of schema and version, caches; its readers without the lock | `OracleAttach` says which state a database has; this one what happens in it |
| `OracleCatalogStateProofs` | its invariants | TLAPS |
| `OracleTypes` | a column's category, rewriting, promised type, described type, buffer and decoding | operators of `OracleScan` |
| `OracleScan` | one scan: bind, plan, pushdown, pruning, initialisation, fetch | the settings are those `OracleCatalogState` keeps |
| `OracleScanProofs` | its invariants | TLAPS |
| `OracleWrite` | the data of a COPY: table, columns, INSERT, bind buffers | sessions and commits of the same COPY are in `OracleTransactions` |
| `OracleWriteProofs` | the choice of table and columns; the buffers | TLAPS |
| `OracleSecrets` | CREATE SECRET, connection strings, `TNS_ADMIN` and logins | says where the strings come from that `OracleAttach` takes as given |
| `OracleSecretsProofs` | connection strings and logins; the wallet | TLAPS |
| `MC...` | instances for TLC | symmetry sets, small constants |

### OracleConnectionManager

One step is one critical section, or one call of `CreateConnection`, which runs
outside all locks. `pc[t]` is where client `t` is: `entering` (the pool is looked
up, its lock not yet taken), `creating` (slot reserved, logging in), `waiting`
(in `wait_until`), `woken` (notified, wants the lock back), `standalone` (cache
disabled), `using` (has a handle), `out`. `pool[t]` and `ctx[t]` are the shared
pointers of the frame, later of the handle. A client has at most one call or
handle; a DuckDB thread that holds several handles is several clients.

`EnterPool` is the first pass of the loop, which also raises the limit, `Retry`
a later one. `wait_until` reports a time-out whenever the clock has passed the
deadline, so `WaitTimesOut` is also possible for a client that has been
notified, and `Retry` is not possible for it any more. `NotifyOne` wakes any one
waiter. `Expire` is the clock. `Destruct` is what reference counting does at the end of
a step: pools nobody refers to disappear and the sessions in their idle lists
end.

`opened` is the server's view: which sessions are logged in, and with which
connection string.

### OracleTransactions

`pending[c]` is the open Oracle transaction of session `c`, `committed` the rows
everybody sees. A row is named by statement, chunk and position; both are sets, so a
row that one session inserted twice counts once, and `RowsOnce` is about rows that
were sent to two sessions, or sent again after their commit. Each COPY goes
through `idle`, `binding` (the temporary connection of bind), `bound`,
`sinking`, then `finalized` or `failed`, and with the destruction of its states
`done` or `aborted`. `SinkFails` inserts any proper prefix of the chunk, which
is what an array execute without batch-error mode does. `Cancel` stands for an
interrupt or a failing source: DuckDB only destroys the states.

A transaction acquires its session in commit or rollback (`GetConnection`), its
first and only use, and keeps it until `DETACH` destroys the transaction
manager. What the server does with an open transaction when a session ends is
left open (`EndSessions`). `SessionsFollowWork` lists at which `pc` a client has
a session; a transaction that has ended is left out, as the repository's own
expectation of it fails (`txn_ended`).

`CopyContract` knows no sessions: a COPY has a status, the rows it has sent
(`Sunk`) and those that others see (`committed`). `finalized` and `done` are
success, `failed` and `aborted` are failure, all else is running. Success shows all
rows in one step. After a failure nothing is promised, because the code does not
roll back (`txn_abort`); before it, everything is.

### OracleAttach

An attached database is an instance and an alias. ATTACH reads the info, makes
and registers a state if there is none, stores it, connects, and finally makes
the transaction manager from a second look at the info; these are separate
steps because DuckDB does not serialise ATTACH statements. States are never
identified with each other: a weak pointer to a state that is gone never becomes
valid again. `named`, `entered` and `alone` are history: with which string each
name was last entered in the alias map, which databases were the last to enter
theirs, and whose ATTACH overlapped no other one.

### OracleCatalogState

One state and the threads that use it. A method that holds the state's lock
throughout is one step. `DetectOracleVersion` is two (`DetectVersion`,
`LatchVersion`), because `GetVersionInfo` looks at `version_detected` without the
lock: what the queries found is stored first, the flag last, and the flag is set
even if they found nothing. `lock` is the thread in between. The unlocked reads
are steps of their own: `StartScan` and `ReadFlags` (the reference that
`GetVersionInfo` returns is read when the column list is built), `StartMain` and
`RereadMain` (the two calls of `GetCurrentSchema`). The fields are plain C++
fields; the reads are taken to see an old or a new value in program order, which
is less than the language allows and enough for the counterexamples.

`DetectCurrentSchema` catches the failure of its query but not that of a log-in,
which is why `DetectAtAttach` and `DetectForMain` have two alternatives.
`MethodThrows` and `ListThrows` are queries that fail or find no session. A state
that has been forgotten by `ClearCaches` or by the option
`connection_cache = false` logs in again (`Connects`).

`object_cache` holds the list of the current schema for the configured object
types, the key DuckDB asks for; another schema or type list is one more
independent entry. DuckDB keeps the first entry made for `main` until DETACH
(`mainSchema`). `kept`, `known`, `missed`, `excuse` and `mainExcuse` are history, read
by properties only: tables that have been there ever since the last clear, and at
some time since, whether the last version detection failed, and what disturbed
each operation.

### OracleTypes and OracleScan

`OracleTypes` follows a column along the five places where the code decides
something about its type: the category (`Category`, `RequiresQueryRewrite`), the
expression the scan selects (`SelectItem`), the type the table entry promises
(`MapOracleColumn`), the type the describe call reports (`DescribedType`), and
the buffer and its decoding (`DefineType`, `Decode`). A kind stands for all Oracle
types these five treat alike; which these are is listed at the head of the module.
They include the ones on which the five disagree: a NUMBER whose scale is negative
or exceeds its precision, LONG, BFILE, user-defined types, and TIMESTAMP WITH TIME
ZONE. The content of a value is a word (`"number"`, `"wkt"`, `"zoned"`), and `Decode`
says whether the fetch stores the value or what it puts in its place. `Arrives` is
what OCI does, from the formats the login sets; that an object or the locator of a
file cannot be fetched as text, and that characters fetched as binary are taken for
hexadecimal digits, are assumptions about OCI. `geometry_cast` says whether the spatial
extension, which has the cast from text to GEOMETRY, is loaded.

`OracleScan` is one query. `stage` goes from `start` over `bound`, `planned` (the
pushdown may be called), `optimized` and `running` to `done` or `failed`. `bind` is
`OracleBindData`: the names of bind and those of the current query, whether it was
rewritten, the clauses, the settings. `get` is DuckDB's `LogicalGet`: the columns
in the order in which the query mentions them, the filters left to DuckDB, the
columns that something above still reads. A filter has its column (`column`) and
the place by which it refers to it (`at`): the code takes the second for the
first. `PushdownComplexFilter` builds its clauses anew on every call. `gstate` is
`OracleScanState`, `cursor` counts rows. One prepared plan may be executed again,
on the same bind data. `asked` is history. `KeptUpTo` is the loop of `InitGlobal`
that leaves out the virtual columns.

### OracleWrite

`OracleWriteBind` reads the dictionary's rows of the two spellings of a table in
the order `ORDER BY` gives (by table, but which of the two comes first is up to the
server's collation, so both are taken). `KeepBest` is one round of the loop over
them, `BestUpTo` what it has kept after each row. `Bound` is what bind leaves
behind, also when the query failed. `Sink` is the whole of one chunk: measure, grow buffers, bind again if one grew, fill
indicators, lengths and bytes, execute. A buffer is told by its element size: two
buffers of a column never have the same size, because a new one is longer. `Read`
is what Oracle reads through a binding, which is rubbish if the binding is not
that of the present buffer. A value is its size; lengths have 16 bits.

### OracleSecrets

Strings are sequences of parts, so that a `/` in a password and a separator are
the same and still every position is known. `AttachFromSecret` builds the
connection string and sets `TNS_ADMIN`; `FinishAttach` is the rest of ATTACH, with
the state that an earlier one may have left; between them other threads attach
and call `oracle_attach_wallet`. `LogInAgain` is any later login of the pool.
`replaced` is history: somebody has named another wallet since.

## 3. Runs

| Run | Shows |
|---|---|
| `pool_safety` | types, `SessionAccounting`, `WithinLimit`, `ExclusiveSessions`, `LiveSessions`, `OwnSession`, `CapacityIsAnnounced` |
| `pool_live` | `AcquireReturns`; the pool implements `SessionPool` |
| `txn_safety` | `RunningCopyIntact`, `RowsOnce`, `LeftoversAreOfFailedCopies`, `SessionsFollowWork`; the steps keep `CopyContract`; `CopyReturnsSession` |
| `txn_abort` | counterexample to `AbortedCopyIsRolledBack` |
| `txn_ended` | counterexample to `EndedTxnHoldsNoSession` |
| `attach_registry` | `EveryCatalogIsRegistered`, `AliasResolvesToItsAttach`, `NoFallbackManager`, `CatalogAndManagerAgree` with overlapping ATTACH statements |
| `attach_string` | counterexample to `AttachedUsesItsConnString` |
| `state_caches` | `ScanSeesVersion`, `MainIsCurrent`, `MainListedForCurrent`, `ClearShowsObjects` |
| `scan_fetch` | `AlignedFiltersSelectAskedRows`, `OutputsShowAskedColumns`, `ValuesKeepPromisedType`, `AllRowsDelivered` |
| `scan_filter` | counterexample to `FiltersSelectAskedRows` |
| `write_sink` | `ExactTableWins`, `ColumnsMatchTarget`, `DescribedInsertIsValid`, `BatchIsReadAsGiven`, `NeverTooLarge` |
| `secrets` | `StoredSecretsLogIn`, `WalletUntilReplaced` |

Every passing run also checks the module's `TypeOK`, except `pool_live`, whose
specification is that of `pool_safety` with fairness.

### Bounds

* Pool: three clients are the least with which a newcomer can take a session
  between a notification and the woken waiter's turn, and a login can fail
  meanwhile. Limits 1 and 3 allow a raise by more than one, which frees slots
  while others sleep. Three pool identities let a pool be orphaned by `Clear`
  twice while clients still use the old ones, or an orphan of one string exist
  while the other string's pool is made. Three sessions let every client have one.
* `pool_live` has limit 1, so that two of three clients always wait; symmetry
  is off, as it must be for liveness and for the refinement.
* Transactions: two copies, one of them failing, one caller of
  `oracle_execute`, two transactions, and two sessions, so that they are scarce
  and every one is passed on; two chunks of two rows, so that a failure can hit the first
  or the second chunk and before or after a row. No symmetry, as
  `CopyReturnsSession` is a liveness property.
* ATTACH: two instances, two aliases, two strings, three states; at most two
  ATTACH statements at a time, of one or of both instances.
* Catalog state: two threads, one between its unlocked reads while the other
  detects or clears; two sets of options, one the opposite of the other, that
  ATTACH may change; two objects, one of them created or dropped once, which is
  enough for a list to be older or newer than a change, and limits of none and of
  one object, so that a list can be cut.
* Scan: every kind of column, alone, with every setting of types on, with each of
  them off, and as a query that is not of an attached table; a geometry without the
  spatial extension, as a GEOMETRY and as text;
  three columns of different kinds with up to two filters of a comparison that
  turns round, one that does not and one that is never pushed; two columns of one
  name; two pushdowns, two executions, and up to three rows with batches of two,
  so that the last batch is full, partial or empty. `scan_filter` needs two
  columns and one filter.
* COPY's data: dictionaries with an upper-case table, a like-named lower-case
  one, one of another schema, and columns that differ by case; values that fit
  the default buffer, exceed it by one byte, and exceed 64 KiB; chunks of up to two
  rows in any order, as many as there are (the state does not count them).
* Secrets: two threads and two secrets, replaced and dropped at any time, with
  separators in user and password, two wallets, and ports and fields that have to
  be refused.

No action is disabled by a bound in a way that hides a case: running out of
session, pool or state identities only stops new logins, look-ups or ATTACH
statements, while the existing ones go on.

### Fairness

`AcquireReturns` assumes of every thread inside `Acquire` that it is scheduled
(locks are held for a few instructions), that its clock advances (`Expire`) and
that a call of `CreateConnection` ends; the code sets OCI call and connect
time-outs of ten seconds. Nothing is assumed of a user that has a handle: the
property holds because of the deadline. `CopyReturnsSession` assumes that DuckDB
goes on with a COPY it has started; starting one is not assumed, nor any
progress of other clients.

## 4. Findings

* A COPY that fails does not roll back. Its session returns to the pool with
  the rows of the chunks before, and the next `oracle_execute` on it commits
  them (`txn_abort`). `LeftoversAreOfFailedCopies` bounds the damage: only failed
  statements leave rows behind.
* `OracleTransactionManager::active` never shrinks, so every committed or rolled
  back transaction keeps its session until DETACH (`txn_ended`).
* The storage info holds one state per DuckDB instance, taken by every later
  ATTACH whatever its connection string; an ATTACH that failed to connect
  leaves its state there, too (`attach_string`).
* The pushdown takes a column's place in the scan's column list for its place in
  the table, so a filter is sent to Oracle under the name of another column
  whenever the query mentions columns in another order than the table has them
  (`scan_filter`). `AlignedFiltersSelectAskedRows` shows that the rows are right
  when the places agree, or when pushdown is off.

Observed while modelling, each either shown as the only exception to a property
or read off the source:

* Sessions. `oracle_connection_limit` below 8 has no effect: a pool's limit starts
  at 8 and is only raised (`oracle_connection_manager.cpp:128`), although
  `oracle_extension.cpp:1216` registers it as the maximum. A wake-up is lost when the notified waiter
  times out or when a limit is raised (`CapacityIsAnnounced` shows that these are
  the only causes; the deadline limits the harm).
* ATTACH. Two overlapping ATTACH statements can give a database a transaction
  manager whose state is not its catalog's (`CatalogAndManagerAgree` says that
  nothing else can). The alias map belongs to the process: an ATTACH in another
  instance that makes a state takes a name over (`oracle_catalog.cpp:115`), and
  `oracle_query` and `oracle_execute` in the first instance then resolve their own
  database's name to the other's connection string. An ATTACH that finds its
  instance's state enters no name (`oracle_storage_extension.cpp:71`): a second
  database of an instance cannot be addressed by its name, and a name that is
  detached and attached again still resolves to the string it was first entered with. A
  name also outlives its DETACH as long as the instance's info keeps the state.
  `AliasResolvesToItsAttach` says what holds all the same: a name leads to nothing or
  to the string of the ATTACH that last entered it, and for the database that did so to
  its own catalog's state.
* Catalog state. The generator reads the current schema twice without the lock
  around `DetectCurrentSchema`; a clear in between maps `main` to an Oracle schema
  of that name until DETACH (`oracle_schema_entry.cpp:97`). `MainIsCurrent` shows
  that this, a failed detection and the option against it are the only causes. A
  clear between the unlocked check of `version_detected` and the use of the flags
  leaves a scan with the flags of an unknown version; `ScanSeesVersion` shows that
  such a clear, or a detection that failed, is the only cause.
  `SET oracle_metadata_result_limit` never reaches the state, whose limit is that
  of the ATTACH options or 10000, although
  `specs/guides/metadata-scalability.md:357` expects it to. `LoadColumns` asks for
  the upper-case name of a table and the scan quotes the exact one
  (`oracle_table_entry.cpp:137`), so a mixed-case table gets the columns of another
  one, or none.
* Settings. A session option always has a value, so `GetOracleSettings` overrides
  what ATTACH options said of pushdown, while `SET oracle_enable_spatial_types =
  false` does nothing for an attached table, whose types and column list follow
  the state (`oracle_extension.cpp:145`).
* Types. The login sets the formats of DATE and TIMESTAMP and not that of
  TIMESTAMP WITH TIME ZONE, whose text then is not the one `ParseOciTimestamp`
  reads; the value becomes 1970-01-01, where the comment at
  `oracle_extension.cpp:134` speaks of a NULL-equivalent. The scale of a NUMBER is read
  as an unsigned number and cast to 8 bits (`oracle_table_entry.cpp:157`, `:112`), so
  NUMBER(5,-2) is promised as DECIMAL(5,254), and NUMBER(2,5) as DECIMAL(2,5); DuckDB
  says of neither what it means. A LONG is promised as text, described as BLOB and
  fetched as binary (`oracle_extension.cpp:415`), although
  `specs/archive/native-oracle-query-support/research/plan.md:28` has it with the
  character types. A BFILE is promised as BLOB and described as VARCHAR, by the default of
  the switch (`oracle_extension.cpp:425`), and a user-defined type likewise takes a
  default; neither can be fetched as text, so a table with such a column cannot be
  read at all, as every column of the query gets a buffer. Without the spatial
  extension every geometry becomes NULL (`oracle_extension.cpp:868`) unless
  `enable_spatial_types` is off. `ValuesKeepPromisedType` says that these, and no others,
  are the values that do not arrive. `try_native_lobs = false`
  changes nothing (`include/oracle_table_entry.hpp:78` and `:91`), so
  `DecodeHexToBlob` is never needed for an attached table.
* Pushdown. A second call on the same bind data starts from the base query and
  drops the clauses of the first, whose filters DuckDB no longer has
  (`oracle_extension.cpp:1113`): dropping `calls = 1` from
  `AlignedFiltersSelectAskedRows` makes TLC show it. Of two columns of one name
  both outputs get the first one's buffer when pushdown is off, and the server
  refuses the rewritten query when it is on; `OutputsShowAskedColumns` says this, and
  that no other output shows another column.
* COPY. A schema written in lower case finds its table in the dictionary and is
  quoted as written in the INSERT, which fails (`oracle_write.cpp:163`). Of two
  columns that differ by case, the later one in the dictionary gets the data of
  both. A value of 65536 bytes or more is sent with its length modulo 65536
  (`oracle_write.cpp:450`), which `BatchIsReadAsGiven` states as it is. `README.md:66` of the
  repository shows `COPY ... (FORMAT ORACLE, SECRET ...)`, which
  `OracleWriteBind` refuses as an unrecognized option.
* Secrets. `TNS_ADMIN` is one for the process: an ATTACH from a secret with a
  wallet, even one that reuses an earlier state, changes the wallet of every later
  login, that set by `oracle_attach_wallet` included. Pools are found by connection string alone, so a
  session that logged in under one wallet also serves a database attached under
  another. A `/` in the user or an `@` in the password moves the boundaries of the
  connection string; the other two combinations do no harm (`StoredSecretsLogIn`).

## 5. Proofs

TLAPS checks the following for every value of the constants that the named
assumptions allow:

| Module | Theorems | Properties |
|---|---|---|
| `OracleConnectionManagerProofs` | `TypeCorrectness`, `AccountingCorrect`, `LimitCorrect`, `CapacityAnnounced` | `TypeOK`, `SessionAccounting`, `WithinLimit`, `CapacityIsAnnounced` |
| `OracleConnectionManagerRefinement` | `ExclusiveCorrect`, `LiveCorrect`, `OwnSessionCorrect`, `Refinement` | `ExclusiveSessions`, `LiveSessions`, `OwnSession`, `ImplementsSessionPool` |
| `OracleTransactionsProofs` | `TxnTypeCorrect`, `CopyIntact`, `CopyDurable`, `RowInOnePlace`, `LeftoversKnown`, `SessionsFollow`, `ContractKept` | `TypeOK`, `RunningCopyIntact`, `FinalizedCopyIsDurable`, `RowsOnce`, `LeftoversAreOfFailedCopies`, `SessionsFollowWork`, `KeepsCopyContract` |
| `OracleAttachProofs` | `AttachTypeCorrect`, `CatalogsRegistered`, `AliasResolves`, `NoFallback`, `CatalogManagerAgree` | `TypeOK`, `EveryCatalogIsRegistered`, `AliasResolvesToItsAttach`, `NoFallbackManager`, `CatalogAndManagerAgree` |
| `OracleCatalogStateProofs` | `StateTypeCorrect`, `VersionSeen`, `MainCorrect`, `MainListed`, `ClearCorrect` | `TypeOK`, `ScanSeesVersion`, `MainIsCurrent`, `MainListedForCurrent`, `ClearShowsObjects` |
| `OracleScanProofs` | `ScanTypeCorrect`, `RowsDelivered`, `OutputsRight`, `ValuesRight`, `AlignedFilters` | `TypeOK`, `AllRowsDelivered`, `OutputsShowAskedColumns`, `ValuesKeepPromisedType`, `AlignedFiltersSelectAskedRows` |
| `OracleWriteProofs` | `WriteTypeCorrect`, `ExactTable`, `ColumnsMatch`, `InsertValid`, `BatchRead`, `BuffersSuffice` | `TypeOK`, `ExactTableWins`, `ColumnsMatchTarget`, `DescribedInsertIsValid`, `BatchIsReadAsGiven`, `NeverTooLarge` |
| `OracleSecretsProofs` | `SecretsTypeCorrect`, `SecretsLogIn`, `WalletKept` | `TypeOK`, `StoredSecretsLogIn`, `WalletUntilReplaced` |

**The pool's counters.** The first three follow from
`CountingInv == TypeOK /\ FrameOK /\ CountersOK`. `CountersOK` (the counter is what
is idle, used or reserved, and at most the limit) is not inductive alone: that a
release or a failed login gives back a slot its client holds, and that a caller
in the loop holds none, depends on which fields of a client are set at which
`pc`, which is `FrameOK`; that `total[p] - 1` is a natural number follows from
the accounting, as the client whose login failed is among the slot holders. The
steps fall into two groups, one lemma each: a round of the loop
(`TryOnceCounters`, with the limit unchanged or raised) and a client that leaves
(`LeaveCounters`). `DestructCounters` shows that a pool that is
destroyed has no slot holder, so that starting it over at zero is right.

**Wake-ups.** `CapacityAnnounced` compares, step by step, what a pool could hand out
(`Free`) with how many clients are awake for it: a round of the loop that takes
something lowers both by one, a release or a failed login raises both by one unless
nobody sleeps (`TryOnceCapacity`, `LeaveCapacity`), and a destroyed pool has no
sleepers. It needs `CountingInv` for the types of the counters and for the slot
that a failed login gives back.

**Ownership of sessions.** The others follow from `SessionInv`. Its core is
`Separate`: what handles own and what idle lists keep are different sessions, each
once, and exactly the open ones; the last part is what makes a new login new to
everybody. `Separate` speaks of the idle lists of all pools, `LiveSessions` of
the reachable ones only; `UnreferencedEmpty` closes the gap and lets a
pool's identity be used again. For the logins, `OneString` says that a pool
serves one connection string, both to the map and to everyone who still has
a pointer to it, and `IdleLogins` that its idle sessions are logged in with that
string: `Clear` followed by a new look-up makes a second pool of the same
string, never one pool of two strings. One lemma for each way in which a session
moves (`SeparateTaken`, `SeparateOpened`, `SeparateReturned`, `SeparateEnded`), then
`DestructSeparate` and `DestructLogins` for the pools that go with the step.

**Refinement.** `Owners` shows that the `CHOOSE` in the refinement mapping has one
answer. A taken session is `Reuse`, a successful login `Open`, a release `GiveUp`;
time-outs, failed logins and `Clear` are `Close` of the sessions that go with
their pools; everything else stutters.

**Transactions.** `RunningCopyIntact` is not inductive: another client that commits
could have this copy's rows in its session. `PlacesOK` excludes that: a pending
row is a copy's, and lies in that copy's own session unless the copy is aborted.
`FreshOK` says that a copy that has not started has no rows anywhere, which is
needed where it becomes a running one, and `SessionsOK` that a client has one
session, so that "its own" is well defined. The actions fall into five kinds, one
lemma each: a session is taken (`AcquireStep`), given up (`ReleaseStep`),
committed (`CommitStep`), left or rolled back (`DropStep`), or has rows added
(`SinkStep`, `SinkFailsStep`). The proof uses of the pool only what `SessionPool`
says. `SessionsFollow` goes through the same kinds: it is the safety half of
`CopyReturnsSession`, that every path out of a statement, the exceptional ones
included, gives up the session in the same step.

**COPY's contract.** `ContractKept` follows from the invariant of the
transactions. The contract implies `FinalizedCopyIsDurable`, which the invariant
needs as a part and which no run checks beside it. A commit or the end of a
session can make visible only what is pending in that session, and by `PlacesOK`
that is the rows of its owner or of copies that have failed (`PendingFacts`): so
no step of others touches the rows
of a running copy (`CommitUntouched`, `EndsUntouched`). The one step that does is
`Finalize`, whose session has all the rows the copy has sent and none of which is
visible yet (`FinalizeSucceeds`). A chunk that is accepted is `SendChunk`, a step
to `failed` or `aborted` of a copy that was running is `FailCopy`, and everything
else is `OthersCommit` or stutters.

**ATTACH.** `NamesOK` and `EnteredOK` tie the alias map to its history: a database that
was the last to enter its name, or is still being attached, points to the state the map
leads to and so keeps it alive. `ProgressOK` says what each step of ATTACH has set, `PointersOK` that what
somebody points to is alive and what is alive is registered, `AloneOK` that an
ATTACH that overlaps no other one finds its own state in the info; the last is
the invariant form of "unless another ATTACH overlapped".

**Catalog state.** `ThreadsOK` says what a thread between two unlocked reads relies
on, or which excuse it has, and `VersionOK` that `version_detected` implies that
the flags are filled in or the last detection failed, also while the lock is held
and the flag not yet set. `ListIsFull` is the fact about cardinalities behind
`ClearShowsObjects`: a list of as many names as there are objects has them all.

**Scan.** `BindOK` and `PushedOK` say that bind's names and settings stay and whether
the query was rewritten, `FiltersOK` that a filter is with DuckDB or with Oracle,
and in the case of one pushdown what exactly Oracle has; `StateOK` ties the column
mapping and the buffers to the query, `CursorOK` is the account of the rows.
For `ValuesKeepPromisedType`, `TypesAgree` and `NativeTypesAgree` go through all kinds and
settings, for attached tables and for `oracle_query`, and show of each kind that its
values arrive or that they do not; `MappingOfColumn` finds the first column of a name
for `OutputsShowAskedColumns`. `ClauseKeeps` shows that a clause with the comparison
turned round keeps the rows of its filter.

`TypeOK` of the scan says among other things that no buffer is out of range. That
needs `TypeInv`: after pruning, the column ids are either columns of the
relation or the row id alone, never both, because the row id falls back to
buffer 1 and two of them would need two buffers (`MappingTypes`). What `KeptUpTo`
computes is shown without induction over data: if the claim fails for some
prefix, it fails for a smallest one (`Smallest`, from the well-founded order of the
natural numbers), whose predecessor refutes it. `PrunesExists` shows in this way
that the recursive function exists, `KeptAreIds` that it yields a sequence of
needed ids.

**COPY's table.** `BestOK` says what the loop has kept after `n` rows: a table that
was among them, the exact one if that was, and in its two maps the rows of that table and
no others. It holds for every prefix by a smallest counterexample, with one
lemma for each branch of the loop (`BestContinues`, `BestRemains`, `BestSwitches`);
`FollowsExists` and `BestComputes` show that the function is the loop. That the
exact table may come after the other one, so that maps must be cleared, is the case
`BestSwitches`. `AllRows` shows that an enumeration of a finite dictionary leaves no
row out, so that "no row was seen" means that there is none. `Picked` then holds
of the target until the end, and from it follow `ExactTableWins`,
`ColumnsMatchTarget` and `DescribedInsertIsValid`.

**COPY's buffers.** `BoundOK` (nothing is bound and every buffer empty, or OCI has
every buffer at its present size) is inductive because one buffer that grows has
all of them bound again. `RequiredSizeBounds` shows that the buffer holds the
chunk's longest value; the maximum exists because the sizes are bounded
(`Largest`, by well-founded induction). `CellsOK` gives the types.

**Wallet.** `HasWallet` holds of every ATTACH in progress and of the state: the
process has its wallet or `replaced` is set. One lemma (`SetWalletStep`) covers the
three ways in which `TNS_ADMIN` changes.

**Connection strings.** `SecretsLogIn` needs `Validated`, that only checked secrets are
stored, for its three parts are then not empty. `BuildIsLogon` shows that every branch of
`BuildConnectionString` yields user, `/`, password, `@` and what identifies the database,
`Positions` and `FindFirst` where the parser finds the separators: the first `/`
is behind the user if the user has none, and the first `@` after it behind the
password if the password has none, whatever the other characters are. `LogonParses`
puts the pieces together.

Assumed: the pool's clients are finitely many (their cardinalities are taken),
limits are positive (`GetOracleSettings` and `ApplyOptions` take the maximum with
1, and a pool starts with 8), and a null pointer is no object
(`ClientsAssumption`, `LimitsAssumption`, `NoneAssumption`); the kinds of clients
are disjoint (`ClientKinds`); identities are not null (`AttachAssumption`,
`SecretsAssumption`); the current schema exists and is not called `main`, and a
schema has finitely many objects (`StateAssumption`); columns are of the kinds of
`OracleTypes`, and every relation has one, as a SELECT must (`ScanAssumption`);
the smallest buffer is a multiple of four, value sizes are bounded, the dictionary
is finite and its rows, like the requests, have the fields of the right types
(`WriteAssumption`); CREATE SECRET gets the options it declares, with
values of their types (`SecretsAssumption`). Each is checked by TLC for the
instances.

## 6. What is only model-checked, and what is not modelled

Only model-checked: liveness, that is `AcquireReturns` and `CopyReturnsSession`, which
rest on fairness and `ENABLED`. Every other property of a passing run is a theorem of
section 5. The properties of the four runs that expect a violation are refuted,
each by TLC's counterexample.

Not modelled:

* the OCI calls inside `CreateConnection` (one step that succeeds or fails) and
  the process's exit (the manager's destructor);
* rendering and parsing of values: digits, dates, hexadecimal text and arrays
  (`Decode` says only for which text a conversion succeeds); how
  `ToSQLString` writes a constant of a clause, and whether Oracle compares it as
  DuckDB does; the truncation of a value at its buffer's end;
* the sessions of scans: a scan takes one in its initialisation and returns it with its state, as
  a client of `OracleConnectionManager` that only reads; statements with effects
  passed to `oracle_query`;
* data races on `active`, on the storage info and on the catalog state's fields
  beyond the interleaving of their reads and writes;
* pools and wallets in one model, and the generators for schemas other than
  `main`, tables and synonyms, which make an entry of what the server answers;
* `ListTables` and `ObjectExists`, which nothing calls, the branch of
  `projection_ids`, which nothing requests, and the registration of functions and
  options.

## 7. Plan

Done: the pool with its proofs and refinement, transactions with the contract of
COPY, ATTACH, catalog state, types, scan, COPY's data and secrets; all safety
properties and type invariants are proved.

Left, in this order:

1. `OracleTables`: the table generator with name look-up, synonyms and columns of
   tables whose names differ in case, and objects that change between its queries.
2. Pools keyed by connection string together with `TNS_ADMIN`, from
   `OracleConnectionManager` and `OracleSecrets`.
3. Scans as clients of `OracleTransactions`, with statements that have effects.
