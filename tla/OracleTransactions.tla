------------------------- MODULE OracleTransactions -------------------------
(***************************************************************************)
(* Who commits what on a pooled session.  Three kinds of users share the   *)
(* sessions that SessionPool hands out, and a session comes as its last    *)
(* user left it, an open Oracle transaction included:                      *)
(*   - COPY ... TO (FORMAT ORACLE): a session for the look-up in bind, one *)
(*     from the start of the copy to its end, commit in finalize;          *)
(*   - oracle_execute: one statement with OCI_COMMIT_ON_SUCCESS;           *)
(*   - DuckDB's transactions on an attached database: a session from the   *)
(*     commit or rollback on, until the database is detached.              *)
(* One connection string is enough here: sessions of different strings     *)
(* never meet.                                                             *)
(***************************************************************************)
EXTENDS SessionPool, Naturals, FiniteSets

CONSTANTS
    Copies,         \* COPY statements
    Executions,     \* threads that call oracle_execute
    Txns,           \* DuckDB transactions of an attached database
    MaxBatches,     \* chunks of one COPY
    RowsPerBatch    \* rows of a chunk

ASSUME ClientKinds ==
    /\ Clients = Copies \cup Executions \cup Txns
    /\ Copies \cap Executions = {} /\ Copies \cap Txns = {} /\ Executions \cap Txns = {}
    /\ None \notin Clients \cup ConnStrings
    /\ MaxBatches \in Nat /\ RowsPerBatch \in Nat \ {0}

VARIABLES
    pc,         \* where each copy, execution and transaction is
    sunk,       \* [Copies -> 0..MaxBatches], chunks Sink returned from
    pending,    \* [Contexts -> sets of rows], the session's open transaction
    committed,  \* the rows other sessions see
    detaching   \* the attached database is being torn down

tableVars == <<pending, committed>>
vars == <<owner, login, pc, sunk, pending, committed, detaching>>

\* A row is named by who inserts it, the chunk, and its place there.
Row(u, b, i) == <<u, b, i>>
Batch(w, b)  == {Row(w, b, i) : i \in 1..RowsPerBatch}
RowsOf(w)    == UNION {Batch(w, b) : b \in 1..MaxBatches}
Rows         == (UNION {RowsOf(w) : w \in Copies}) \cup {Row(e, 1, 1) : e \in Executions}

CopyPc == {"idle",       \* not bound yet
           "binding",    \* bind holds its temporary connection
           "bound",
           "sinking",    \* the global state holds a handle
           "failed",     \* an exception or interrupt: states to be destroyed
           "finalized",  \* finalize returned: states to be destroyed
           "aborted", "done"}
ExecPc == {"idle", "acquired", "executed"}
TxnPc  == {"none", "active", "commit", "rollback", "ended"}

TypeOK ==
    /\ SessionPoolTypeOK
    /\ \A w \in Copies : pc[w] \in CopyPc
    /\ \A e \in Executions : pc[e] \in ExecPc
    /\ \A x \in Txns : pc[x] \in TxnPc
    /\ sunk \in [Copies -> 0..MaxBatches]
    /\ pending \in [Contexts -> SUBSET Rows]
    /\ committed \subseteq Rows
    /\ detaching \in BOOLEAN

Init ==
    /\ SessionPoolInit
    /\ pc = [u \in Clients |-> IF u \in Txns THEN "none" ELSE "idle"]
    /\ sunk = [w \in Copies |-> 0]
    /\ pending = [c \in Contexts |-> {}]
    /\ committed = {}
    /\ detaching = FALSE

-----------------------------------------------------------------------------
(* Sessions and the server.                                                *)

Goto(u, label) == pc' = [pc EXCEPT ![u] = label]

HasSession(u) == \E c \in Contexts : owner[c] = u

\* Mutant of Acquire: the session of another client is shared.
AcquireShared(u) ==
    \E c \in Contexts :
        \/ Reuse(u, c)
        \/ \E s \in ConnStrings : Open(u, c, s)
        \/ /\ login[c] # None
           /\ ~HasSession(u)
           /\ owner' = [owner EXCEPT ![c] = u]
           /\ UNCHANGED login

\* OracleConnectionManager::Acquire returns a handle.
Acquire(u) ==
    \E c \in Contexts : Reuse(u, c) \/ \E s \in ConnStrings : Open(u, c, s)

\* The sessions in closed end.  Whether the server then commits or discards
\* what they had pending is not the extension's choice.
EndSessions(closed) ==
    \E kept \in SUBSET closed :
        /\ committed' = committed \cup (UNION {pending[c] : c \in kept})
        /\ pending' = [c \in Contexts |-> IF c \in closed THEN {} ELSE pending[c]]

\* ~OracleConnectionHandle: no rollback, no check.  If the pool is gone, or
\* there was none, the session ends.
Release(u) ==
    \E c \in Contexts : \E closed \in {{}, {c}} :
        /\ GiveUp(u, c, closed)
        /\ EndSessions(closed)

\* The session of u makes its open transaction permanent, with extra rows.
CommitSession(u, extra) ==
    \E c \in Contexts :
        /\ owner[c] = u
        /\ committed' = committed \cup pending[c] \cup extra
        /\ pending' = [pending EXCEPT ![c] = {}]

\* The session of u drops its open transaction.
RollbackSession(u) ==
    \E c \in Contexts :
        /\ owner[c] = u
        /\ pending' = [pending EXCEPT ![c] = {}]
        /\ UNCHANGED committed

\* The session of u has rows added to its open transaction.
Insert(u, rows) ==
    \E c \in Contexts :
        /\ owner[c] = u
        /\ pending' = [pending EXCEPT ![c] = pending[c] \cup rows]
        /\ UNCHANGED committed

-----------------------------------------------------------------------------
(* COPY ... TO (FORMAT ORACLE)                                             *)

\* OracleWriteBind connects to look the table's columns up, ...
BindConnects(w) ==
    /\ pc[w] = "idle"
    /\ Acquire(w)
    /\ Goto(w, "binding")
    /\ UNCHANGED <<sunk, tableVars, detaching>>

\* ... goes on without if that fails or there is no connection string, ...
BindSkips(w) ==
    /\ pc[w] = "idle"
    /\ Goto(w, "bound")
    /\ UNCHANGED <<poolVars, sunk, tableVars, detaching>>

\* ... and drops the connection, whether the query succeeds or throws.
BindReleases(w) ==
    /\ pc[w] = "binding"
    /\ Release(w)
    /\ Goto(w, "bound")
    /\ UNCHANGED <<sunk, detaching>>

\* OracleWriteInitGlobal acquires the session of the copy and prepares the
\* INSERT; if that throws, the handle is dropped on the way out.
InitGlobal(w) ==
    /\ pc[w] = "bound"
    /\ Acquire(w)
    /\ Goto(w, "sinking") \/ Goto(w, "failed")
    /\ UNCHANGED <<sunk, tableVars, detaching>>

\* Acquire throws, or the query stops before it starts to write.
InitGlobalFails(w) ==
    /\ pc[w] = "bound"
    /\ Goto(w, "aborted")
    /\ UNCHANGED <<poolVars, sunk, tableVars, detaching>>

\* Mutant of Sink: the array is executed with one row too many.
SinkOneRowTooMany(w) ==
    /\ pc[w] = "sinking"
    /\ sunk[w] < MaxBatches
    /\ sunk' = [sunk EXCEPT ![w] = sunk[w] + 1]
    /\ Insert(w, Batch(w, sunk[w] + 1) \cup {Row(w, sunk[w] + 1, RowsPerBatch + 1)})
    /\ UNCHANGED <<poolVars, pc, detaching>>

\* Mutant of Sink: the INSERT is executed with OCI_COMMIT_ON_SUCCESS.
SinkCommits(w) ==
    /\ pc[w] = "sinking"
    /\ sunk[w] < MaxBatches
    /\ sunk' = [sunk EXCEPT ![w] = sunk[w] + 1]
    /\ CommitSession(w, Batch(w, sunk[w] + 1))
    /\ UNCHANGED <<poolVars, pc, detaching>>

\* Mutant of Sink: the handle is not kept from one chunk to the next.
SinkReleases(w) ==
    /\ pc[w] = "sinking"
    /\ sunk[w] < MaxBatches
    /\ sunk' = [sunk EXCEPT ![w] = sunk[w] + 1]
    /\ Insert(w, Batch(w, sunk[w] + 1))
    /\ \E c \in Contexts : GiveUp(w, c, {})
    /\ UNCHANGED <<pc, detaching>>

\* Sink of one chunk: bind its rows and execute the array INSERT.
Sink(w) ==
    /\ pc[w] = "sinking"
    /\ sunk[w] < MaxBatches
    /\ sunk' = [sunk EXCEPT ![w] = sunk[w] + 1]
    /\ Insert(w, Batch(w, sunk[w] + 1))
    /\ UNCHANGED <<poolVars, pc, detaching>>

\* Mutant of SinkFails: a chunk the server refused is tried again on another
\* session, without a rollback on the first.
SinkFailsRetriesElsewhere(w) ==
    /\ pc[w] = "sinking"
    /\ sunk[w] < MaxBatches
    /\ \E c, d \in Contexts : \E n \in 0..RowsPerBatch - 1 :
          /\ owner[c] = w /\ login[d] # None /\ owner[d] = None
          /\ owner' = [owner EXCEPT ![c] = None, ![d] = w]
          /\ pending' = [pending EXCEPT
                 ![c] = @ \cup {Row(w, sunk[w] + 1, i) : i \in 1..n},
                 ![d] = @ \cup Batch(w, sunk[w] + 1)]
    /\ sunk' = [sunk EXCEPT ![w] = sunk[w] + 1]
    /\ UNCHANGED <<login, pc, committed, detaching>>

\* Sink throws: binding did (no row is inserted), or the server refused a row
\* (the ones before it in the array are).
SinkFails(w) ==
    /\ pc[w] = "sinking"
    /\ sunk[w] < MaxBatches
    /\ \E n \in 0..RowsPerBatch - 1 :
           Insert(w, {Row(w, sunk[w] + 1, i) : i \in 1..n})
    /\ Goto(w, "failed")
    /\ UNCHANGED <<poolVars, sunk, detaching>>

\* The query is interrupted or its source fails: no function of the extension
\* is called but the destructors.
Cancel(w) ==
    /\ pc[w] = "sinking"
    /\ Goto(w, "failed")
    /\ UNCHANGED <<poolVars, sunk, tableVars, detaching>>

\* OracleWriteFinalize: OCITransCommit.
Finalize(w) ==
    /\ pc[w] = "sinking"
    /\ CommitSession(w, {})
    /\ Goto(w, "finalized")
    /\ UNCHANGED <<poolVars, sunk, detaching>>

\* Mutant of FinalizeFails: the status of OCITransCommit is not checked.
FinalizeIgnoresStatus(w) ==
    /\ pc[w] = "sinking"
    /\ RollbackSession(w) \/ UNCHANGED tableVars
    /\ Goto(w, "finalized")
    /\ UNCHANGED <<poolVars, sunk, detaching>>

\* The commit fails: the server has rolled back, or the transaction is still
\* open.  The exception ends the query.
FinalizeFails(w) ==
    /\ pc[w] = "sinking"
    /\ RollbackSession(w) \/ UNCHANGED tableVars
    /\ Goto(w, "failed")
    /\ UNCHANGED <<poolVars, sunk, detaching>>

\* Mutant of DestroyStates: an exception leaks the handle.
DestroyStatesUnlessFailed(w) ==
    /\ pc[w] = "finalized"
    /\ Release(w)
    /\ Goto(w, "done")
    /\ UNCHANGED <<sunk, detaching>>

\* Mutant of DestroyStates: the state of a COPY that failed leaks.
DestroyStatesLeaks(w) ==
    /\ pc[w] \in {"failed", "finalized"}
    /\ IF pc[w] = "failed" THEN UNCHANGED <<poolVars, tableVars>> ELSE Release(w)
    /\ Goto(w, IF pc[w] = "failed" THEN "aborted" ELSE "done")
    /\ UNCHANGED <<sunk, detaching>>

\* DuckDB destroys the local and the global state: the handle's last owner.
DestroyStates(w) ==
    /\ pc[w] \in {"failed", "finalized"}
    /\ Release(w)
    /\ Goto(w, IF pc[w] = "failed" THEN "aborted" ELSE "done")
    /\ UNCHANGED <<sunk, detaching>>

-----------------------------------------------------------------------------
(* oracle_execute                                                          *)

ExecuteAcquires(e) ==
    /\ pc[e] = "idle"
    /\ Acquire(e)
    /\ Goto(e, "acquired")
    /\ UNCHANGED <<sunk, tableVars, detaching>>

\* OCI_COMMIT_ON_SUCCESS commits the session's transaction, all of it; a
\* statement that fails has no effect and commits nothing.
Execute(e) ==
    /\ pc[e] = "acquired"
    /\ CommitSession(e, {Row(e, 1, 1)}) \/ UNCHANGED tableVars
    /\ Goto(e, "executed")
    /\ UNCHANGED <<poolVars, sunk, detaching>>

ExecuteReturns(e) ==
    /\ pc[e] = "executed"
    /\ Release(e)
    /\ Goto(e, "idle")
    /\ UNCHANGED <<sunk, detaching>>

-----------------------------------------------------------------------------
(* OracleTransactionManager                                                *)

\* The transaction is added to "active"; it has no session yet.
StartTransaction(x) ==
    /\ pc[x] = "none"
    /\ ~detaching
    /\ Goto(x, "active")
    /\ UNCHANGED <<poolVars, sunk, tableVars, detaching>>

\* CommitTransaction and RollbackTransaction call GetConnection, which is the
\* first use of the transaction's connection, ...
GetConnection(x) ==
    /\ pc[x] = "active"
    /\ Acquire(x)
    /\ Goto(x, "commit") \/ Goto(x, "rollback")
    /\ UNCHANGED <<sunk, tableVars, detaching>>

\* ... and which may throw: the error is returned, or suppressed.
GetConnectionFails(x) ==
    /\ pc[x] = "active"
    /\ Goto(x, "ended")
    /\ UNCHANGED <<poolVars, sunk, tableVars, detaching>>

\* OCITransCommit, successful or not.  The transaction stays in "active" and
\* keeps its session.
CommitTransaction(x) ==
    /\ pc[x] = "commit"
    /\ CommitSession(x, {}) \/ RollbackSession(x) \/ UNCHANGED tableVars
    /\ Goto(x, "ended")
    /\ UNCHANGED <<poolVars, sunk, detaching>>

\* OCITransRollback; an error is suppressed.
RollbackTransaction(x) ==
    /\ pc[x] = "rollback"
    /\ RollbackSession(x) \/ UNCHANGED tableVars
    /\ Goto(x, "ended")
    /\ UNCHANGED <<poolVars, sunk, detaching>>

\* DETACH, when no transaction is running: the transaction manager goes, ...
Detach ==
    /\ ~detaching
    /\ \A x \in Txns : pc[x] \in {"none", "ended"}
    /\ detaching' = TRUE
    /\ UNCHANGED <<poolVars, pc, sunk, tableVars>>

\* ... and with it each transaction in "active", ...
DestroyTransaction(x) ==
    /\ detaching
    /\ pc[x] = "ended"
    /\ IF HasSession(x) THEN Release(x) ELSE UNCHANGED <<poolVars, tableVars>>
    /\ Goto(x, "none")
    /\ UNCHANGED <<sunk, detaching>>

\* ... until the database can be attached anew.
Detached ==
    /\ detaching
    /\ \A x \in Txns : pc[x] = "none"
    /\ detaching' = FALSE
    /\ UNCHANGED <<poolVars, pc, sunk, tableVars>>

-----------------------------------------------------------------------------

\* oracle_clear_cache, and the end of a pool that nobody refers to: sessions
\* that nobody uses are closed.
ClearPools ==
    /\ \E closed \in (SUBSET Contexts) \ {{}} : Close(closed) /\ EndSessions(closed)
    /\ UNCHANGED <<pc, sunk, detaching>>

CopyNext(w) ==
    \/ BindConnects(w) \/ BindSkips(w) \/ BindReleases(w)
    \/ InitGlobal(w) \/ InitGlobalFails(w)
    \/ Sink(w) \/ SinkFails(w) \/ Cancel(w)
    \/ Finalize(w) \/ FinalizeFails(w)
    \/ DestroyStates(w)

ExecuteNext(e) == ExecuteAcquires(e) \/ Execute(e) \/ ExecuteReturns(e)

TxnNext(x) ==
    \/ StartTransaction(x)
    \/ GetConnection(x) \/ GetConnectionFails(x)
    \/ CommitTransaction(x) \/ RollbackTransaction(x)
    \/ DestroyTransaction(x)

Next ==
    \/ \E w \in Copies : CopyNext(w)
    \/ \E e \in Executions : ExecuteNext(e)
    \/ \E x \in Txns : TxnNext(x)
    \/ Detach
    \/ Detached
    \/ ClearPools

Spec == Init /\ [][Next]_vars

\* DuckDB goes on with a COPY that has started until its states are destroyed;
\* every call of the extension on the way returns or throws, because Acquire
\* and OCI's calls have time-outs.
FairSpec == Spec /\ \A w \in Copies : WF_vars(pc[w] # "idle" /\ CopyNext(w))

-----------------------------------------------------------------------------
(* Correctness.                                                            *)

Sunk(w) == UNION {Batch(w, b) : b \in 1..sunk[w]}

\* Until its finalize, a COPY is all there in the transaction of its own
\* session and nowhere else, whatever executions, transactions and other
\* copies commit or roll back on theirs meanwhile.
RunningCopyIntact ==
    \A w \in Copies : pc[w] = "sinking" =>
        /\ RowsOf(w) \cap committed = {}
        /\ \E c \in Contexts : owner[c] = w /\ pending[c] \cap RowsOf(w) = Sunk(w)

\* A COPY that reports success has committed every row of every chunk.
FinalizedCopyIsDurable ==
    \A w \in Copies : pc[w] \in {"finalized", "done"} => Sunk(w) \subseteq committed

\* A row waits in the transaction of at most one session, and of none once it is
\* committed: no row of a COPY can become visible twice by way of a session that
\* it failed on and a session that carried on (oracle_write.cpp:457).  A
\* second insertion on the same session would not show, rows being sets.
RowsOnce ==
    /\ \A c, d \in Contexts : c # d => pending[c] \cap pending[d] = {}
    /\ \A c \in Contexts : pending[c] \cap committed = {}

\* What a session still has open is its user's own, or what a COPY left there
\* that failed: no client can commit rows of a statement that is running.
LeftoversAreOfFailedCopies ==
    \A c \in Contexts : \A r \in pending[c] :
        r[1] = owner[c] \/ (r[1] \in Copies /\ pc[r[1]] = "aborted")

\* The labels of a client that is using a session.
Working == {"binding", "sinking", "failed", "finalized",
            "acquired", "executed", "commit", "rollback"}

\* A client has a session exactly while it works with it, whatever throws or
\* is interrupted; only a transaction that has ended may still have one.
SessionsFollowWork ==
    \A u \in Clients : pc[u] # "ended" => (HasSession(u) <=> pc[u] \in Working)

\* How far a COPY is for its user.
CopyStatus(w) ==
    CASE pc[w] \in {"finalized", "done"} -> "succeeded"
      [] pc[w] \in {"failed", "aborted"} -> "failed"
      [] OTHER                           -> "running"

Contract == INSTANCE CopyContract
    WITH CopyRows <- [w \in Copies |-> RowsOf(w)],
         status   <- [w \in Copies |-> CopyStatus(w)],
         sent     <- [w \in Copies |-> Sunk(w)],
         visible  <- committed

\* A COPY is all or nothing for every other session: its rows appear in the one
\* step in which it succeeds, or, once it has failed, as leftovers
\* (oracle_write.cpp:450 inserts without OCI_COMMIT_ON_SUCCESS, 469 commits).
KeepsCopyContract == Contract!ContractSpec

\* Every COPY that has started gives its session back, however it ends.
CopyReturnsSession ==
    \A w \in Copies :
        pc[w] # "idle" ~> pc[w] \in {"aborted", "done"} /\ ~HasSession(w)

\* The rows of a COPY that failed are rolled back: no statement of another
\* client, executed later on the same session, commits them.
AbortedCopyIsRolledBack ==
    [][\A u \in Executions \cup Txns, w \in Copies :
          /\ pc[u] \in {"acquired", "commit"} /\ pc'[u] # pc[u]
          /\ pc[w] = "aborted"
          => (committed' \ committed) \cap RowsOf(w) = {}]_vars

\* A transaction holds its connection "for the duration of the transaction",
\* and not beyond.
EndedTxnHoldsNoSession ==
    \A x \in Txns : pc[x] = "ended" => ~HasSession(x)
=============================================================================
