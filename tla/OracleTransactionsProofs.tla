---------------------- MODULE OracleTransactionsProofs ----------------------
(***************************************************************************)
(* Proofs about OracleTransactions, for any numbers of copies, executions, *)
(* transactions, sessions and connection strings, and chunks of any size.  *)
(***************************************************************************)
EXTENDS OracleTransactions, TLAPS

\* The labels of a client.
Labels(u) == IF u \in Copies THEN CopyPc ELSE IF u \in Executions THEN ExecPc ELSE TxnPc

PcOK ==
    /\ pc = [u \in Clients |-> pc[u]]
    /\ \A u \in Clients : pc[u] \in Labels(u)

\* A client has one session, and a session in use is open.
SessionsOK ==
    /\ SessionPoolTypeOK
    /\ \A c, d \in Contexts : owner[c] = owner[d] /\ owner[c] # None => c = d
    /\ \A c \in Contexts : owner[c] # None => login[c] # None

TablesOK ==
    /\ sunk \in [Copies -> 0..MaxBatches]
    /\ pending \in [Contexts -> SUBSET Rows]
    /\ committed \subseteq Rows
    /\ detaching \in BOOLEAN

\* Rows of a copy wait in its own session, or anywhere once it is aborted.
PlacesOK ==
    \A c \in Contexts : \A r \in pending[c] :
        /\ r[1] \in Copies
        /\ \/ pc[r[1]] \in {"sinking", "failed"} /\ owner[c] = r[1]
           \/ pc[r[1]] = "aborted"

\* A copy that does not write yet has left nothing in the table.
FreshOK ==
    \A w \in Copies : pc[w] \in {"idle", "binding", "bound"} =>
        sunk[w] = 0 /\ RowsOf(w) \cap committed = {}

IInv ==
    /\ PcOK /\ SessionsOK /\ TablesOK
    /\ PlacesOK /\ FreshOK
    /\ RunningCopyIntact /\ FinalizedCopyIsDurable /\ RowsOnce

-----------------------------------------------------------------------------
(* Facts about rows and labels.                                            *)

\* A row tells whose it is.
LEMMA RowFacts ==
    /\ \A w \in Copies : \A r \in RowsOf(w) : r \in Rows /\ r[1] = w
    /\ \A r \in Rows : r[1] \in Copies => r \in RowsOf(r[1])
    /\ \A r \in Rows : r[1] \in Copies \cup Executions
    /\ \A e \in Executions : Row(e, 1, 1) \in Rows /\ Row(e, 1, 1)[1] = e
<1>1. ASSUME NEW w \in Copies, NEW r \in RowsOf(w) PROVE r \in Rows /\ r[1] = w
    <2>1. PICK b \in 1..MaxBatches : r \in Batch(w, b)
        BY DEF RowsOf
    <2>2. PICK i \in 1..RowsPerBatch : r = <<w, b, i>>
        BY <2>1 DEF Batch, Row
    <2>3. RowsOf(w) \in {RowsOf(v) : v \in Copies}
        OBVIOUS
    <2>4. r \in Rows
        BY <2>3, Zenon DEF Rows
    <2>5. QED
        BY <2>2, <2>4
<1>2. ASSUME NEW e \in Executions PROVE Row(e, 1, 1) \in Rows /\ Row(e, 1, 1)[1] = e
    <2>1. Row(e, 1, 1) \in {Row(f, 1, 1) : f \in Executions}
        OBVIOUS
    <2>2. Row(e, 1, 1) \in Rows
        BY <2>1 DEF Rows
    <2>3. QED
        BY <2>2 DEF Row
<1>3. ASSUME NEW r \in Rows PROVE
          (\E w \in Copies : r \in RowsOf(w)) \/ (\E e \in Executions : r = Row(e, 1, 1))
    <2>1. r \in UNION {RowsOf(w) : w \in Copies} \/ r \in {Row(e, 1, 1) : e \in Executions}
        BY DEF Rows
    <2>2. ASSUME r \in UNION {RowsOf(w) : w \in Copies} PROVE \E w \in Copies : r \in RowsOf(w)
        BY <2>2
    <2>3. QED
        BY <2>1, <2>2
<1>4. QED
    BY <1>1, <1>2, <1>3, ClientKinds

\* The rows of a chunk belong to its copy.
LEMMA BatchRows ==
    ASSUME NEW w \in Copies, NEW b \in 1..MaxBatches
    PROVE  Batch(w, b) \subseteq RowsOf(w)
BY DEF RowsOf

\* What a copy has sunk are rows of its own; at first none.
LEMMA SunkRows ==
    ASSUME TablesOK, NEW w \in Copies
    PROVE  Sunk(w) \subseteq RowsOf(w) /\ (sunk[w] = 0 => Sunk(w) = {})
<1>1. sunk[w] \in 0..MaxBatches /\ MaxBatches \in Nat
    BY ClientKinds DEF TablesOK
<1>2. \A b \in 1..sunk[w] : b \in 1..MaxBatches
    BY <1>1
<1>3. Sunk(w) \subseteq RowsOf(w)
    BY <1>2, BatchRows DEF Sunk
<1>4. sunk[w] = 0 => 1..sunk[w] = {}
    BY <1>1
<1>5. QED
    BY <1>3, <1>4 DEF Sunk

\* A new label keeps the labels' types.
LEMMA PcStep ==
    ASSUME PcOK, NEW u \in Clients, NEW l \in Labels(u), pc' = [pc EXCEPT ![u] = l]
    PROVE  PcOK' /\ pc'[u] = l /\ \A v \in Clients : v # u => pc'[v] = pc[v]
BY DEF PcOK, Labels

-----------------------------------------------------------------------------
(* What the steps have in common.                                          *)

\* Init.
LEMMA InitIInv == Init => IInv
<1> SUFFICES ASSUME Init PROVE IInv
    OBVIOUS
<1> USE DEF Init, SessionPoolInit
<1>1. PcOK
    BY ClientKinds DEF PcOK, Labels, CopyPc, ExecPc, TxnPc
<1>2. SessionsOK
    BY DEF SessionsOK, SessionPoolTypeOK
<1>3. 0 \in 0..MaxBatches
    BY ClientKinds
<1>4. TablesOK
    BY <1>3 DEF TablesOK
<1>5. \A w \in Copies : w \in Clients /\ w \notin Txns /\ pc[w] = "idle" /\ sunk[w] = 0
    BY ClientKinds
<1>6. QED
    BY <1>1, <1>2, <1>4, <1>5
       DEF IInv, PlacesOK, FreshOK, RunningCopyIntact, FinalizedCopyIsDurable, RowsOnce

\* A client gets a session; a copy goes on to bind, sink or fail with it.
LEMMA AcquireStep ==
    ASSUME IInv, NEW u \in Clients, NEW l \in Labels(u),
           Acquire(u), pc' = [pc EXCEPT ![u] = l],
           UNCHANGED <<sunk, tableVars, detaching>>,
           u \in Copies => pc[u] \in {"idle", "bound"} /\ l \in {"binding", "sinking", "failed"}
    PROVE  IInv'
<1> USE DEF IInv, tableVars
<1>1. PICK c \in Contexts :
          /\ owner[c] = None
          /\ \A d \in Contexts : owner[d] # u
          /\ owner' = [owner EXCEPT ![c] = u]
          /\ login' = login \/ (\E s \in ConnStrings : login' = [login EXCEPT ![c] = s])
          /\ login'[c] # None
    BY ClientKinds DEF Acquire, Reuse, Open, Unused, SessionsOK, SessionPoolTypeOK
<1>2. PcOK' /\ pc'[u] = l /\ \A v \in Clients : v # u => pc'[v] = pc[v]
    BY PcStep
<1>3. SessionsOK'
    <2>1. SessionPoolTypeOK'
        BY <1>1 DEF SessionsOK, SessionPoolTypeOK
    <2>2. \A d \in Contexts : owner'[d] = (IF d = c THEN u ELSE owner[d])
        BY <1>1 DEF SessionsOK, SessionPoolTypeOK
    <2>3. \A d \in Contexts : d # c => login'[d] = login[d]
        BY <1>1 DEF SessionsOK, SessionPoolTypeOK
    <2>4. QED
        BY <1>1, <2>1, <2>2, <2>3 DEF SessionsOK
<1>4. TablesOK'
    BY DEF TablesOK
<1>5. \A d \in Contexts : owner'[d] = (IF d = c THEN u ELSE owner[d])
    BY <1>1 DEF SessionsOK, SessionPoolTypeOK
<1>6. None \notin Clients /\ Copies \subseteq Clients
    BY ClientKinds
<1>7. PlacesOK'
    BY <1>1, <1>2, <1>5, <1>6 DEF PlacesOK
<1>8. FreshOK'
    BY <1>2, <1>6 DEF FreshOK
<1>9. RunningCopyIntact'
    <2> SUFFICES ASSUME NEW w \in Copies, pc'[w] = "sinking"
                 PROVE  /\ RowsOf(w) \cap committed = {}
                        /\ \E d \in Contexts :
                              owner'[d] = w /\ pending[d] \cap RowsOf(w) = Sunk(w)'
        BY DEF RunningCopyIntact, RowsOf, Batch, Row
    <2>1. Sunk(w)' = Sunk(w)
        BY DEF Sunk, Batch, Row
    <2>2. CASE w = u
        <3>1. pc[w] \in {"idle", "bound"} /\ sunk[w] = 0 /\ RowsOf(w) \cap committed = {}
            BY <2>2 DEF FreshOK
        <3>2. Sunk(w) = {}
            BY <3>1, SunkRows
        <3>3. pending[c] \cap RowsOf(w) = {}
            BY <3>1, RowFacts DEF PlacesOK
        <3>4. QED
            BY <1>5, <2>1, <2>2, <3>1, <3>2, <3>3
    <2>3. CASE w # u
        BY <1>1, <1>2, <1>5, <1>6, <2>1, <2>3 DEF RunningCopyIntact
    <2>4. QED
        BY <2>2, <2>3
<1>10. FinalizedCopyIsDurable'
    <2>1. \A w \in Copies : Sunk(w)' = Sunk(w)
        BY DEF Sunk, Batch, Row
    <2>2. QED
        BY <1>2, <1>6, <2>1 DEF FinalizedCopyIsDurable
<1>11. RowsOnce'
    BY DEF RowsOnce
<1>12. QED
    BY <1>2, <1>3, <1>4, <1>7, <1>8, <1>9, <1>10, <1>11


\* A client gives its session up, which may end with what is pending in it.
LEMMA ReleaseStep ==
    ASSUME IInv, NEW u \in Clients, NEW l \in Labels(u),
           Release(u), pc' = [pc EXCEPT ![u] = l],
           UNCHANGED <<sunk, detaching>>,
           u \in Copies => \/ pc[u] = "binding" /\ l = "bound"
                           \/ pc[u] = "failed" /\ l = "aborted"
                           \/ pc[u] = "finalized" /\ l = "done"
    PROVE  IInv'
<1> USE DEF IInv
<1>1. PICK c \in Contexts : \E closed \in {{}, {c}} :
          GiveUp(u, c, closed) /\ EndSessions(closed)
    BY DEF Release
<1>2. PICK closed \in {{}, {c}} : GiveUp(u, c, closed) /\ EndSessions(closed)
    BY <1>1
<1>3. PICK kept \in SUBSET closed :
          /\ committed' = committed \cup (UNION {pending[d] : d \in kept})
          /\ pending' = [d \in Contexts |-> IF d \in closed THEN {} ELSE pending[d]]
    BY <1>2 DEF EndSessions
<1>4. /\ owner[c] = u /\ closed \subseteq {c}
      /\ owner' = [owner EXCEPT ![c] = None]
      /\ login' = [d \in Contexts |-> IF d \in closed THEN None ELSE login[d]]
    BY <1>2 DEF GiveUp
<1>5. PcOK' /\ pc'[u] = l /\ \A v \in Clients : v # u => pc'[v] = pc[v]
    BY PcStep
<1>6. None \notin Clients /\ Copies \subseteq Clients
    BY ClientKinds
<1>7. \A d \in Contexts : owner'[d] = (IF d = c THEN None ELSE owner[d])
    BY <1>4 DEF SessionsOK, SessionPoolTypeOK
<1>8. /\ \A d \in Contexts : pending'[d] \subseteq pending[d]
      /\ \A r \in committed' : r \in committed \/ (r \in pending[c] /\ pending'[c] = {})
      /\ committed \subseteq committed'
    BY <1>3, <1>4
<1>9. SessionsOK'
    <2>1. SessionPoolTypeOK'
        BY <1>4 DEF SessionsOK, SessionPoolTypeOK
    <2>2. QED
        BY <1>4, <1>6, <1>7, <2>1 DEF SessionsOK
<1>10. TablesOK'
    BY <1>3, <1>8 DEF TablesOK
\* What is pending in the session is of aborted copies, or u's and u has failed.
<1>11. \A r \in pending[c] :
           /\ r[1] \in Copies
           /\ pc[r[1]] = "aborted" \/ (r[1] = u /\ pc[u] = "failed")
    BY <1>4, <1>6 DEF PlacesOK
<1>12. PlacesOK'
    BY <1>5, <1>6, <1>7, <1>8, <1>11 DEF PlacesOK
<1>13. \A w \in Copies : pc'[w] \in {"idle", "binding", "bound", "sinking"} =>
           RowsOf(w) \cap committed' = RowsOf(w) \cap committed
    BY <1>5, <1>6, <1>8, <1>11, RowFacts
<1>14. FreshOK'
    BY <1>5, <1>6, <1>13 DEF FreshOK, RowsOf, Batch, Row
<1>15. \A w \in Copies : Sunk(w)' = Sunk(w)
    BY DEF Sunk, Batch, Row
<1>16. RunningCopyIntact'
    <2> SUFFICES ASSUME NEW w \in Copies, pc'[w] = "sinking"
                 PROVE  /\ RowsOf(w) \cap committed' = {}
                        /\ \E d \in Contexts :
                              owner'[d] = w /\ pending'[d] \cap RowsOf(w) = Sunk(w)'
        BY DEF RunningCopyIntact, RowsOf, Batch, Row
    <2>1. w # u /\ pc[w] = "sinking"
        BY <1>5, <1>6
    <2>2. PICK d \in Contexts : owner[d] = w /\ pending[d] \cap RowsOf(w) = Sunk(w)
        BY <2>1 DEF RunningCopyIntact
    <2>3. d # c /\ owner'[d] = w
        BY <1>4, <1>7, <2>1, <2>2
    <2>4. pending'[d] = pending[d]
        BY <1>3, <1>4, <2>3
    <2>5. QED
        BY <1>13, <1>15, <2>1, <2>2, <2>3, <2>4 DEF RunningCopyIntact
<1>17. FinalizedCopyIsDurable'
    BY <1>5, <1>6, <1>8, <1>15 DEF FinalizedCopyIsDurable
<1>18. RowsOnce'
    BY <1>8 DEF RowsOnce
<1>19. QED
    BY <1>5, <1>9, <1>10, <1>12, <1>14, <1>16, <1>17, <1>18

\* A client that is no copy or whose copy finalizes commits its session.
LEMMA CommitStep ==
    ASSUME IInv, NEW u \in Clients, NEW l \in Labels(u), NEW extra,
           CommitSession(u, extra), pc' = [pc EXCEPT ![u] = l],
           UNCHANGED <<poolVars, sunk, detaching>>,
           \/ extra = {}
           \/ u \in Executions /\ extra = {Row(u, 1, 1)},
           u \in Copies => pc[u] = "sinking" /\ l = "finalized"
    PROVE  IInv'
<1> USE DEF IInv, poolVars
<1>1. PICK c \in Contexts :
          /\ owner[c] = u
          /\ committed' = committed \cup pending[c] \cup extra
          /\ pending' = [pending EXCEPT ![c] = {}]
    BY DEF CommitSession
<1>2. PcOK' /\ pc'[u] = l /\ \A v \in Clients : v # u => pc'[v] = pc[v]
    BY PcStep
<1>3. None \notin Clients /\ Copies \subseteq Clients /\ Copies \cap Executions = {}
    BY ClientKinds
<1>4. \A r \in extra : r \in Rows /\ r[1] = u /\ u \notin Copies
    BY <1>3, RowFacts
<1>5. \A d \in Contexts : pending'[d] = (IF d = c THEN {} ELSE pending[d])
    BY <1>1 DEF TablesOK
<1>6. SessionsOK' /\ TablesOK'
    BY <1>1, <1>4 DEF SessionsOK, SessionPoolTypeOK, TablesOK
<1>7. \A r \in pending[c] : r[1] \in Copies /\ (pc[r[1]] = "aborted" \/ r[1] = u)
    BY <1>1 DEF PlacesOK
<1>8. PlacesOK'
    <2> SUFFICES ASSUME NEW d \in Contexts, NEW r \in pending'[d]
                 PROVE  /\ r[1] \in Copies
                        /\ \/ pc'[r[1]] \in {"sinking", "failed"} /\ owner[d] = r[1]
                           \/ pc'[r[1]] = "aborted"
        BY DEF PlacesOK
    <2>1. d # c /\ r \in pending[d]
        BY <1>5
    <2>2. r[1] \in Copies
        BY <2>1 DEF PlacesOK
    <2>3. r[1] # u
        BY <1>1, <1>3, <2>1 DEF PlacesOK, SessionsOK
    <2>4. QED
        BY <1>2, <1>3, <2>1, <2>2, <2>3 DEF PlacesOK
<1>9. \A w \in Copies : pc'[w] \in {"idle", "binding", "bound", "sinking"} =>
          w # u /\ pc[w] = pc'[w] /\ RowsOf(w) \cap committed' = RowsOf(w) \cap committed
    BY <1>1, <1>2, <1>3, <1>4, <1>7, RowFacts
<1>10. FreshOK'
    BY <1>9 DEF FreshOK, RowsOf, Batch, Row
<1>11. \A w \in Copies : Sunk(w)' = Sunk(w)
    BY DEF Sunk, Batch, Row
<1>12. RunningCopyIntact'
    <2> SUFFICES ASSUME NEW w \in Copies, pc'[w] = "sinking"
                 PROVE  /\ RowsOf(w) \cap committed' = {}
                        /\ \E d \in Contexts :
                              owner'[d] = w /\ pending'[d] \cap RowsOf(w) = Sunk(w)'
        BY DEF RunningCopyIntact, RowsOf, Batch, Row
    <2>1. w # u /\ pc[w] = "sinking"
        BY <1>9
    <2>2. PICK d \in Contexts : owner[d] = w /\ pending[d] \cap RowsOf(w) = Sunk(w)
        BY <2>1 DEF RunningCopyIntact
    <2>3. owner' = owner /\ pending'[d] = pending[d]
        BY <1>1, <1>5, <2>1, <2>2
    <2>4. QED
        BY <1>9, <1>11, <2>1, <2>2, <2>3 DEF RunningCopyIntact
<1>13. FinalizedCopyIsDurable'
    <2> SUFFICES ASSUME NEW w \in Copies, pc'[w] \in {"finalized", "done"}
                 PROVE  Sunk(w) \subseteq committed'
        BY <1>11 DEF FinalizedCopyIsDurable
    <2>1. CASE w = u
        <3>1. PICK d \in Contexts : owner[d] = w /\ pending[d] \cap RowsOf(w) = Sunk(w)
            BY <2>1 DEF RunningCopyIntact
        <3>2. d = c
            BY <1>1, <1>3, <2>1, <3>1 DEF SessionsOK
        <3>3. QED
            BY <1>1, <3>1, <3>2
    <2>2. CASE w # u
        BY <1>1, <1>2, <1>3, <2>2 DEF FinalizedCopyIsDurable
    <2>3. QED
        BY <2>1, <2>2
<1>14. RowsOnce'
    <2>1. \A d \in Contexts : pending'[d] \cap committed' = {}
        <3> SUFFICES ASSUME NEW d \in Contexts, NEW r \in pending'[d], r \in committed'
                     PROVE  FALSE
            OBVIOUS
        <3>1. d # c /\ r \in pending[d] /\ r[1] \in Copies
            BY <1>5 DEF PlacesOK
        <3>2. r \notin committed /\ r \notin pending[c]
            BY <3>1 DEF RowsOnce
        <3>3. r \notin extra
            BY <1>4, <3>1
        <3>4. QED
            BY <1>1, <3>2, <3>3
    <2>2. QED
        BY <1>5, <2>1 DEF RowsOnce
<1>15. QED
    BY <1>2, <1>6, <1>8, <1>10, <1>12, <1>13, <1>14

\* A client goes on with its session, or drops what is pending in it; a copy
\* that has written fails with that.
LEMMA DropStep ==
    ASSUME IInv, NEW u \in Clients, NEW l \in Labels(u),
           RollbackSession(u) \/ UNCHANGED tableVars, pc' = [pc EXCEPT ![u] = l],
           UNCHANGED <<poolVars, sunk, detaching>>,
           u \in Copies => \/ pc[u] = "idle" /\ l = "bound"
                           \/ pc[u] = "bound" /\ l = "aborted"
                           \/ pc[u] = "sinking" /\ l = "failed"
    PROVE  IInv'
<1> USE DEF IInv, poolVars, tableVars
<1>1. /\ committed' = committed
      /\ \/ pending' = pending
         \/ \E c \in Contexts : owner[c] = u /\ pending' = [pending EXCEPT ![c] = {}]
    BY DEF RollbackSession
<1>2. PcOK' /\ pc'[u] = l /\ \A v \in Clients : v # u => pc'[v] = pc[v]
    BY PcStep
<1>3. None \notin Clients /\ Copies \subseteq Clients
    BY ClientKinds
<1>4. /\ \A d \in Contexts : pending'[d] \subseteq pending[d]
      /\ \A d \in Contexts : owner[d] # u => pending'[d] = pending[d]
      /\ pending' \in [Contexts -> SUBSET Rows]
    BY <1>1 DEF TablesOK
<1>5. SessionsOK' /\ TablesOK'
    BY <1>1, <1>4 DEF SessionsOK, SessionPoolTypeOK, TablesOK
<1>6. PlacesOK'
    BY <1>2, <1>3, <1>4 DEF PlacesOK
<1>7. FreshOK'
    BY <1>1, <1>2, <1>3 DEF FreshOK, RowsOf, Batch, Row
<1>8. \A w \in Copies : Sunk(w)' = Sunk(w)
    BY DEF Sunk, Batch, Row
<1>9. RunningCopyIntact'
    <2> SUFFICES ASSUME NEW w \in Copies, pc'[w] = "sinking"
                 PROVE  /\ RowsOf(w) \cap committed' = {}
                        /\ \E d \in Contexts :
                              owner'[d] = w /\ pending'[d] \cap RowsOf(w) = Sunk(w)'
        BY DEF RunningCopyIntact, RowsOf, Batch, Row
    <2>1. w # u /\ pc[w] = "sinking"
        BY <1>2, <1>3
    <2>2. QED
        BY <1>1, <1>4, <1>8, <2>1 DEF RunningCopyIntact
<1>10. FinalizedCopyIsDurable'
    BY <1>1, <1>2, <1>3, <1>8 DEF FinalizedCopyIsDurable
<1>11. RowsOnce'
    BY <1>1, <1>4 DEF RowsOnce
<1>12. QED
    BY <1>2, <1>5, <1>6, <1>7, <1>9, <1>10, <1>11

\* Rows of its next chunk join a running copy's transaction ...
LEMMA InsertPlace ==
    ASSUME IInv, NEW w \in Copies, NEW rows, Insert(w, rows)
    PROVE  \E c \in Contexts :
              /\ owner[c] = w
              /\ \A d \in Contexts :
                    pending'[d] = (IF d = c THEN pending[c] \cup rows ELSE pending[d])
<1>1. PICK c \in Contexts :
          owner[c] = w /\ pending' = [pending EXCEPT ![c] = pending[c] \cup rows]
    BY DEF Insert
<1>2. QED
    BY <1>1 DEF IInv, TablesOK

\* ... and what the session holds then.
LEMMA InsertFacts ==
    ASSUME IInv, NEW w \in Copies, NEW rows \in SUBSET Batch(w, sunk[w] + 1),
           pc[w] = "sinking", sunk[w] < MaxBatches, Insert(w, rows),
           UNCHANGED poolVars
    PROVE  /\ Batch(w, sunk[w] + 1) \subseteq RowsOf(w)
           /\ committed' = committed
           /\ \A r \in rows : r \in Rows /\ r[1] = w /\ r \notin committed
           /\ pending' \in [Contexts -> SUBSET Rows]
           /\ SessionsOK' /\ RowsOnce'
<1> USE DEF IInv, poolVars
<1>1. sunk[w] + 1 \in 1..MaxBatches
    BY ClientKinds DEF TablesOK
<1>2. Batch(w, sunk[w] + 1) \subseteq RowsOf(w)
    BY <1>1, BatchRows
<1>3. \A r \in rows : r \in Rows /\ r[1] = w /\ r \notin committed
    BY <1>2, RowFacts DEF RunningCopyIntact
<1>4. PICK c \in Contexts :
          /\ owner[c] = w
          /\ committed' = committed
          /\ pending' = [pending EXCEPT ![c] = pending[c] \cup rows]
    BY DEF Insert
<1>5. \A d \in Contexts : pending'[d] = IF d = c THEN pending[c] \cup rows ELSE pending[d]
    BY <1>4 DEF TablesOK
<1>6. pending' \in [Contexts -> SUBSET Rows]
    BY <1>3, <1>4 DEF TablesOK
<1>7. SessionsOK'
    BY DEF SessionsOK, SessionPoolTypeOK
<1>8. RowsOnce'
    <2>1. \A d \in Contexts : d # c => pending[d] \cap rows = {}
        BY <1>3, <1>4, ClientKinds DEF PlacesOK, SessionsOK
    <2>2. QED
        BY <1>3, <1>4, <1>5, <2>1 DEF RowsOnce
<1>9. QED
    BY <1>2, <1>3, <1>4, <1>5, <1>6, <1>7, <1>8

\* Sink of a whole chunk.
LEMMA SinkStep ==
    ASSUME IInv, NEW w \in Copies, Sink(w)
    PROVE  IInv'
<1> USE DEF IInv, Sink
<1>1. /\ Batch(w, sunk[w] + 1) \subseteq RowsOf(w)
      /\ committed' = committed
      /\ \A r \in Batch(w, sunk[w] + 1) : r[1] = w
      /\ pending' \in [Contexts -> SUBSET Rows]
      /\ SessionsOK' /\ RowsOnce'
    BY InsertFacts
<1>2. PICK c \in Contexts :
          /\ owner[c] = w
          /\ \A d \in Contexts :
                pending'[d] = (IF d = c THEN pending[c] \cup Batch(w, sunk[w] + 1) ELSE pending[d])
    BY InsertPlace
<1>3. pc' = pc /\ owner' = owner
    BY DEF poolVars
<1>4. TablesOK' /\ sunk'[w] = sunk[w] + 1 /\ \A v \in Copies : v # w => sunk'[v] = sunk[v]
    BY <1>1, ClientKinds DEF TablesOK
<1>5. PcOK'
    BY <1>3 DEF PcOK
<1>6. PlacesOK'
    BY <1>1, <1>2, <1>3 DEF PlacesOK
<1>7. FreshOK'
    BY <1>1, <1>3, <1>4 DEF FreshOK, RowsOf, Batch, Row
<1>8. /\ Sunk(w)' = Sunk(w) \cup Batch(w, sunk[w] + 1)
      /\ \A v \in Copies : v # w => Sunk(v)' = Sunk(v)
    <2>1. 1..sunk'[w] = (1..sunk[w]) \cup {sunk[w] + 1}
        BY <1>4 DEF TablesOK
    <2>2. Sunk(w)' = UNION {Batch(w, b) : b \in 1..sunk'[w]}
        BY DEF Sunk, Batch, Row
    <2>3. Sunk(w)' = Sunk(w) \cup Batch(w, sunk[w] + 1)
        BY <2>1, <2>2 DEF Sunk
    <2>4. QED
        BY <1>4, <2>3 DEF Sunk, Batch, Row
<1>9. RunningCopyIntact'
    <2> SUFFICES ASSUME NEW v \in Copies, pc[v] = "sinking"
                 PROVE  /\ RowsOf(v) \cap committed = {}
                        /\ \E d \in Contexts :
                              owner[d] = v /\ pending'[d] \cap RowsOf(v) = Sunk(v)'
        BY <1>1, <1>3 DEF RunningCopyIntact, RowsOf, Batch, Row
    <2>1. PICK d \in Contexts : owner[d] = v /\ pending[d] \cap RowsOf(v) = Sunk(v)
        BY DEF RunningCopyIntact
    <2>2. CASE v = w
        <3>1. d = c
            BY <1>2, <2>1, <2>2, ClientKinds DEF SessionsOK
        <3>2. QED
            BY <1>1, <1>2, <1>8, <2>1, <2>2, <3>1 DEF RunningCopyIntact
    <2>3. CASE v # w
        BY <1>2, <1>8, <2>1, <2>3 DEF RunningCopyIntact
    <2>4. QED
        BY <2>2, <2>3
<1>10. FinalizedCopyIsDurable'
    BY <1>1, <1>3, <1>8 DEF FinalizedCopyIsDurable
<1>11. QED
    BY <1>1, <1>4, <1>5, <1>6, <1>7, <1>9, <1>10

\* Sink throws after some rows of the chunk, or none.
LEMMA SinkFailsStep ==
    ASSUME IInv, NEW w \in Copies, SinkFails(w)
    PROVE  IInv'
<1> USE DEF IInv, SinkFails
<1>1. PICK n \in 0..RowsPerBatch - 1 : Insert(w, {Row(w, sunk[w] + 1, i) : i \in 1..n})
    OBVIOUS
<1> DEFINE rows == {Row(w, sunk[w] + 1, i) : i \in 1..n}
<1>2. rows \in SUBSET Batch(w, sunk[w] + 1)
    <2>1. \A i \in 1..n : i \in 1..RowsPerBatch
        BY ClientKinds
    <2>2. QED
        BY <2>1 DEF Batch
<1> HIDE DEF rows
<1>3. Insert(w, rows)
    BY <1>1 DEF rows
<1>4. /\ committed' = committed
      /\ \A r \in rows : r[1] = w
      /\ pending' \in [Contexts -> SUBSET Rows]
      /\ SessionsOK' /\ RowsOnce'
    BY <1>2, <1>3, InsertFacts
<1>5. PICK c \in Contexts :
          /\ owner[c] = w
          /\ \A d \in Contexts :
                pending'[d] = (IF d = c THEN pending[c] \cup rows ELSE pending[d])
    BY <1>3, InsertPlace
<1>6. w \in Clients /\ "failed" \in Labels(w) /\ Copies \subseteq Clients
    BY ClientKinds DEF Labels, CopyPc
<1>7. pc' = [pc EXCEPT ![w] = "failed"] /\ owner' = owner
    BY DEF Goto, poolVars
<1>8. PcOK' /\ pc'[w] = "failed" /\ \A v \in Clients : v # w => pc'[v] = pc[v]
    BY <1>6, <1>7, PcStep
<1>9. TablesOK'
    BY <1>4 DEF TablesOK
<1>10. PlacesOK'
    BY <1>4, <1>5, <1>6, <1>7, <1>8 DEF PlacesOK
<1>11. FreshOK'
    BY <1>4, <1>6, <1>8 DEF FreshOK, RowsOf, Batch, Row
<1>12. \A v \in Copies : Sunk(v)' = Sunk(v)
    BY DEF Sunk, Batch, Row
<1>13. RunningCopyIntact'
    <2> SUFFICES ASSUME NEW v \in Copies, pc'[v] = "sinking"
                 PROVE  /\ RowsOf(v) \cap committed = {}
                        /\ \E d \in Contexts :
                              owner[d] = v /\ pending'[d] \cap RowsOf(v) = Sunk(v)'
        BY <1>4, <1>7 DEF RunningCopyIntact, RowsOf, Batch, Row
    <2>1. v # w /\ pc[v] = "sinking"
        BY <1>6, <1>8
    <2>2. QED
        BY <1>5, <1>12, <2>1 DEF RunningCopyIntact
<1>14. FinalizedCopyIsDurable'
    BY <1>4, <1>6, <1>8, <1>12 DEF FinalizedCopyIsDurable
<1>15. QED
    BY <1>4, <1>8, <1>9, <1>10, <1>11, <1>13, <1>14

\* Sessions that nobody uses are closed.
LEMMA ClearPoolsStep ==
    ASSUME IInv, ClearPools
    PROVE  IInv'
<1> USE DEF IInv, ClearPools
<1>1. PICK closed \in (SUBSET Contexts) \ {{}} : Close(closed) /\ EndSessions(closed)
    OBVIOUS
<1>2. PICK kept \in SUBSET closed :
          /\ committed' = committed \cup (UNION {pending[d] : d \in kept})
          /\ pending' = [d \in Contexts |-> IF d \in closed THEN {} ELSE pending[d]]
    BY <1>1 DEF EndSessions
<1>3. /\ \A d \in closed : owner[d] = None
      /\ owner' = owner
      /\ login' = [d \in Contexts |-> IF d \in closed THEN None ELSE login[d]]
    BY <1>1 DEF Close, Unused
<1>4. PcOK' /\ pc' = pc
    BY DEF PcOK
<1>5. \A d \in Contexts : pending'[d] = (IF d \in closed THEN {} ELSE pending[d])
    BY <1>2
<1>6. \A r \in committed' : r \in committed \/ \E d \in closed : r \in pending[d]
    BY <1>2
<1>7. SessionsOK'
    BY <1>3 DEF SessionsOK, SessionPoolTypeOK
<1>8. TablesOK'
    BY <1>2, <1>5, <1>6 DEF TablesOK
<1>9. \A d \in closed : \A r \in pending[d] : r[1] \in Copies /\ pc[r[1]] = "aborted"
    BY <1>3, ClientKinds DEF PlacesOK
<1>10. PlacesOK'
    BY <1>3, <1>4, <1>5 DEF PlacesOK
<1>11. \A w \in Copies : pc[w] # "aborted" =>
           RowsOf(w) \cap committed' = RowsOf(w) \cap committed
    BY <1>2, <1>6, <1>9, RowFacts
<1>12. FreshOK'
    BY <1>4, <1>11 DEF FreshOK, RowsOf, Batch, Row
<1>13. \A w \in Copies : Sunk(w)' = Sunk(w)
    BY DEF Sunk, Batch, Row
<1>14. RunningCopyIntact'
    <2> SUFFICES ASSUME NEW w \in Copies, pc[w] = "sinking"
                 PROVE  /\ RowsOf(w) \cap committed' = {}
                        /\ \E d \in Contexts :
                              owner[d] = w /\ pending'[d] \cap RowsOf(w) = Sunk(w)'
        BY <1>3, <1>4 DEF RunningCopyIntact, RowsOf, Batch, Row
    <2>1. PICK d \in Contexts : owner[d] = w /\ pending[d] \cap RowsOf(w) = Sunk(w)
        BY DEF RunningCopyIntact
    <2>2. d \notin closed
        BY <1>3, <2>1, ClientKinds
    <2>3. QED
        BY <1>5, <1>11, <1>13, <2>1, <2>2 DEF RunningCopyIntact
<1>15. FinalizedCopyIsDurable'
    BY <1>2, <1>4, <1>13 DEF FinalizedCopyIsDurable
<1>16. RowsOnce'
    <2>1. \A d \in Contexts : pending'[d] \cap committed' = {}
        BY <1>1, <1>5, <1>6 DEF RowsOnce
    <2>2. QED
        BY <1>5, <2>1 DEF RowsOnce
<1>17. QED
    BY <1>4, <1>7, <1>8, <1>10, <1>12, <1>14, <1>15, <1>16

\* A step of a COPY.
LEMMA CopyStep ==
    ASSUME IInv, NEW w \in Copies, CopyNext(w)
    PROVE  IInv'
<1>1. w \in Clients /\ \A l \in CopyPc : l \in Labels(w)
    BY ClientKinds DEF Labels
<1> USE DEF CopyPc, Goto
<1>2. CASE BindConnects(w)
    BY <1>1, <1>2, AcquireStep DEF BindConnects
<1>3. CASE BindSkips(w)
    BY <1>1, <1>3, DropStep DEF BindSkips
<1>4. CASE BindReleases(w)
    BY <1>1, <1>4, ReleaseStep DEF BindReleases
<1>5. CASE InitGlobal(w)
    BY <1>1, <1>5, AcquireStep DEF InitGlobal
<1>6. CASE InitGlobalFails(w)
    BY <1>1, <1>6, DropStep DEF InitGlobalFails
<1>7. CASE Sink(w) \/ SinkFails(w)
    BY <1>7, SinkStep, SinkFailsStep
<1>8. CASE Cancel(w)
    BY <1>1, <1>8, DropStep DEF Cancel
<1>9. CASE Finalize(w)
    BY <1>1, <1>9, CommitStep DEF Finalize
<1>10. CASE FinalizeFails(w)
    BY <1>1, <1>10, DropStep DEF FinalizeFails
<1>11. CASE DestroyStates(w)
    BY <1>1, <1>11, ReleaseStep DEF DestroyStates
<1>12. QED
    BY <1>2, <1>3, <1>4, <1>5, <1>6, <1>7, <1>8, <1>9, <1>10, <1>11 DEF CopyNext

\* A step of a call of oracle_execute.
LEMMA ExecuteStep ==
    ASSUME IInv, NEW e \in Executions, ExecuteNext(e)
    PROVE  IInv'
<1>1. e \in Clients /\ e \notin Copies /\ \A l \in ExecPc : l \in Labels(e)
    BY ClientKinds DEF Labels
<1> USE DEF ExecPc, Goto
<1>2. CASE ExecuteAcquires(e)
    BY <1>1, <1>2, AcquireStep DEF ExecuteAcquires
<1>3. CASE Execute(e)
    <2>1. CASE CommitSession(e, {Row(e, 1, 1)})
        BY <1>1, <1>3, <2>1, CommitStep DEF Execute
    <2>2. CASE UNCHANGED tableVars
        BY <1>1, <1>3, <2>2, DropStep DEF Execute
    <2>3. QED
        BY <1>3, <2>1, <2>2 DEF Execute
<1>4. CASE ExecuteReturns(e)
    BY <1>1, <1>4, ReleaseStep DEF ExecuteReturns
<1>5. QED
    BY <1>2, <1>3, <1>4 DEF ExecuteNext

\* A step of a DuckDB transaction.
LEMMA TxnStep ==
    ASSUME IInv, NEW x \in Txns, TxnNext(x)
    PROVE  IInv'
<1>1. x \in Clients /\ x \notin Copies /\ \A l \in TxnPc : l \in Labels(x)
    BY ClientKinds DEF Labels
<1> USE DEF TxnPc, Goto
<1>2. CASE StartTransaction(x)
    BY <1>1, <1>2, DropStep DEF StartTransaction
<1>3. CASE GetConnection(x)
    BY <1>1, <1>3, AcquireStep DEF GetConnection
<1>4. CASE GetConnectionFails(x)
    BY <1>1, <1>4, DropStep DEF GetConnectionFails
<1>5. CASE CommitTransaction(x)
    <2>1. CASE CommitSession(x, {})
        BY <1>1, <1>5, <2>1, CommitStep DEF CommitTransaction
    <2>2. CASE RollbackSession(x) \/ UNCHANGED tableVars
        BY <1>1, <1>5, <2>2, DropStep DEF CommitTransaction
    <2>3. QED
        BY <1>5, <2>1, <2>2 DEF CommitTransaction
<1>6. CASE RollbackTransaction(x)
    BY <1>1, <1>6, DropStep DEF RollbackTransaction
<1>7. CASE DestroyTransaction(x)
    <2>1. CASE HasSession(x)
        BY <1>1, <1>7, <2>1, ReleaseStep DEF DestroyTransaction
    <2>2. CASE ~HasSession(x)
        BY <1>1, <1>7, <2>2, DropStep DEF DestroyTransaction
    <2>3. QED
        BY <2>1, <2>2
<1>8. QED
    BY <1>2, <1>3, <1>4, <1>5, <1>6, <1>7 DEF TxnNext

\* A step that changes at most whether the database is being detached.
LEMMA DetachStep ==
    ASSUME IInv, UNCHANGED <<poolVars, pc, sunk, tableVars>>, detaching' \in BOOLEAN
    PROVE  IInv'
<1>1. /\ owner' = owner /\ login' = login /\ pc' = pc /\ sunk' = sunk
      /\ pending' = pending /\ committed' = committed
    BY DEF poolVars, tableVars
<1>2. PcOK' /\ SessionsOK' /\ TablesOK'
    BY <1>1 DEF IInv, PcOK, SessionsOK, SessionPoolTypeOK, TablesOK
<1>3. PlacesOK' /\ FreshOK' /\ RowsOnce'
    BY <1>1 DEF IInv, PlacesOK, FreshOK, RowsOnce, RowsOf, Batch, Row
<1>4. \A w \in Copies : Sunk(w)' = Sunk(w)
    BY <1>1 DEF Sunk, Batch, Row
<1>5. RunningCopyIntact' /\ FinalizedCopyIsDurable'
    BY <1>1, <1>4 DEF IInv, RunningCopyIntact, FinalizedCopyIsDurable, RowsOf, Batch, Row
<1>6. QED
    BY <1>2, <1>3, <1>5 DEF IInv

LEMMA NextIInv == IInv /\ [Next]_vars => IInv'
<1> SUFFICES ASSUME IInv, [Next]_vars PROVE IInv'
    OBVIOUS
<1>1. CASE \E w \in Copies : CopyNext(w)
    BY <1>1, CopyStep
<1>2. CASE \E e \in Executions : ExecuteNext(e)
    BY <1>2, ExecuteStep
<1>3. CASE \E x \in Txns : TxnNext(x)
    BY <1>3, TxnStep
<1>4. CASE Detach \/ Detached
    BY <1>4, DetachStep DEF Detach, Detached
<1>5. CASE ClearPools
    BY <1>5, ClearPoolsStep
<1>6. CASE UNCHANGED vars
    <2>1. UNCHANGED <<poolVars, pc, sunk, tableVars>> /\ detaching' = detaching
        BY <1>6 DEF vars, poolVars, tableVars
    <2>2. QED
        BY <2>1, DetachStep DEF IInv, TablesOK
<1>7. QED
    BY <1>1, <1>2, <1>3, <1>4, <1>5, <1>6 DEF Next

-----------------------------------------------------------------------------

\* Sessions, labels and rows keep their types: every row in the table or in a
\* session's transaction is one that a copy or an execution inserts
\* (oracle_write.cpp:450).
THEOREM TxnTypeCorrect == Spec => []TypeOK
<1>1. IInv => TypeOK
    <2>1. /\ \A w \in Copies : w \in Clients /\ Labels(w) = CopyPc
          /\ \A e \in Executions : e \in Clients /\ Labels(e) = ExecPc
          /\ \A x \in Txns : x \in Clients /\ Labels(x) = TxnPc
        BY ClientKinds DEF Labels
    <2>2. IInv => /\ \A w \in Copies : pc[w] \in CopyPc
                  /\ \A e \in Executions : pc[e] \in ExecPc
                  /\ \A x \in Txns : pc[x] \in TxnPc
        BY <2>1 DEF IInv, PcOK
    <2>3. QED
        BY <2>2 DEF IInv, SessionsOK, TablesOK, TypeOK
<1>2. QED
    BY InitIInv, NextIInv, <1>1, PTL DEF Spec

\* Nobody commits or rolls back the rows of a running COPY, however many users
\* the pool has (oracle_write.cpp:234, oracle_transaction_manager.cpp:21).
THEOREM CopyIntact == Spec => []RunningCopyIntact
<1>1. IInv => RunningCopyIntact
    BY DEF IInv
<1>2. QED
    BY InitIInv, NextIInv, <1>1, PTL DEF Spec

\* A COPY that reports success has committed all of its chunks
\* (oracle_write.cpp:469).
THEOREM CopyDurable == Spec => []FinalizedCopyIsDurable
<1>1. IInv => FinalizedCopyIsDurable
    BY DEF IInv
<1>2. QED
    BY InitIInv, NextIInv, <1>1, PTL DEF Spec

\* No row is in two transactions, or in one and in the table.
THEOREM RowInOnePlace == Spec => []RowsOnce
<1>1. IInv => RowsOnce
    BY DEF IInv
<1>2. QED
    BY InitIInv, NextIInv, <1>1, PTL DEF Spec

\* What a session has open is its user's, or of a COPY that failed: the pool
\* hands nobody else's work on (oracle_connection_manager.cpp:74).
THEOREM LeftoversKnown == Spec => []LeftoversAreOfFailedCopies
<1>1. IInv => LeftoversAreOfFailedCopies
    BY DEF IInv, PlacesOK, LeftoversAreOfFailedCopies
<1>2. QED
    BY InitIInv, NextIInv, <1>1, PTL DEF Spec
-----------------------------------------------------------------------------
(* The contract of COPY.                                                   *)

\* The rows of copies that have not failed stay as they are in the table,
\* except for those of the copies in some.
Untouched(some) ==
    /\ committed \subseteq committed'
    /\ \A v \in Copies \ some :
          CopyStatus(v) # "failed" => committed' \cap RowsOf(v) = committed \cap RowsOf(v)

\* What the contract sees of a step, said of this specification.
LEMMA ContractTerms ==
    /\ \A some : Contract!OnlyLeftovers(some) <=> Untouched(some)
    /\ \A w \in Copies : Contract!Seen(w) = committed \cap RowsOf(w)
                         /\ Contract!Seen(w)' = committed' \cap RowsOf(w)
<1>1. \A w \in Copies : RowsOf(w)' = RowsOf(w)
    BY DEF RowsOf, Batch, Row
<1>2. \A w \in Copies : Contract!Seen(w) = committed \cap RowsOf(w)
                        /\ Contract!Seen(w)' = committed' \cap RowsOf(w)
    BY <1>1 DEF Contract!Seen
<1>3. \A some : Contract!OnlyLeftovers(some) <=> Untouched(some)
    BY <1>2 DEF Contract!OnlyLeftovers, Untouched
<1>4. QED
    BY <1>2, <1>3

\* A step of nobody's COPY.
LEMMA OthersStep ==
    ASSUME sunk' = sunk, \A v \in Copies : CopyStatus(v)' = CopyStatus(v), Untouched({})
    PROVE  Contract!ContractNext
<1>1. \A v \in Copies : Sunk(v)' = Sunk(v)
    BY DEF Sunk, Batch, Row
<1>2. Contract!OthersCommit
    BY <1>1, ContractTerms DEF Contract!OthersCommit
<1>3. QED
    BY <1>2 DEF Contract!ContractNext

\* A COPY fails.
LEMMA FailsStep ==
    ASSUME sunk' = sunk, committed' = committed, NEW w \in Copies,
           CopyStatus(w) = "running", CopyStatus(w)' = "failed",
           \A v \in Copies : v # w => CopyStatus(v)' = CopyStatus(v)
    PROVE  Contract!ContractNext
<1>1. \A v \in Copies : Sunk(v)' = Sunk(v)
    BY DEF Sunk, Batch, Row
<1>2. Contract!FailCopy(w)
    BY <1>1 DEF Contract!FailCopy
<1>3. QED
    BY <1>2 DEF Contract!ContractNext

\* Labels of copies stay while one client changes its own.
LEMMA StatusStep ==
    ASSUME PcOK, NEW u \in Clients, NEW l \in Labels(u), Goto(u, l)
    PROVE  /\ pc'[u] = l
           /\ \A v \in Copies : v # u => CopyStatus(v)' = CopyStatus(v)
<1>1. pc'[u] = l /\ \A v \in Clients : v # u => pc'[v] = pc[v]
    BY PcStep DEF Goto
<1>2. Copies \subseteq Clients
    BY ClientKinds
<1>3. QED
    BY <1>1, <1>2 DEF CopyStatus

\* What a session may commit when it ends or its user commits: leftovers of
\* copies that failed, and its user's own rows.
LEMMA PendingFacts ==
    ASSUME IInv, NEW c \in Contexts, NEW r \in pending[c]
    PROVE  /\ r[1] \in Copies
           /\ CopyStatus(r[1]) = "failed" \/ (owner[c] = r[1] /\ pc[r[1]] = "sinking")
    BY DEF IInv, PlacesOK, CopyStatus

\* Sessions end, and with them nobody's rows but those of copies that failed
\* become visible.
LEMMA EndsUntouched ==
    ASSUME IInv, NEW closed \in SUBSET Contexts, EndSessions(closed),
           \A c \in closed : owner[c] \in Copies => pc[owner[c]] # "sinking"
    PROVE  Untouched({})
<1>1. PICK kept \in SUBSET closed : committed' = committed \cup (UNION {pending[c] : c \in kept})
    BY DEF EndSessions
<1>2. \A r \in committed' : r \in committed \/ \E c \in closed : r \in pending[c]
    BY <1>1
<1>3. \A r \in committed' \ committed : r[1] \in Copies /\ CopyStatus(r[1]) = "failed"
    BY <1>2, PendingFacts
<1>4. ASSUME NEW v \in Copies, CopyStatus(v) # "failed"
      PROVE  committed' \cap RowsOf(v) = committed \cap RowsOf(v)
    <2>1. \A r \in RowsOf(v) : r[1] = v
        BY RowFacts
    <2>2. QED
        BY <1>1, <1>3, <1>4, <2>1
<1>5. QED
    BY <1>1, <1>4 DEF Untouched

\* A client that is no COPY commits nothing of a running one.
LEMMA CommitUntouched ==
    ASSUME IInv, NEW u \in Clients, u \notin Copies, NEW extra, CommitSession(u, extra),
           extra = {} \/ (u \in Executions /\ extra = {Row(u, 1, 1)})
    PROVE  Untouched({})
<1>1. PICK c \in Contexts : owner[c] = u /\ committed' = committed \cup pending[c] \cup extra
    BY DEF CommitSession
<1>2. \A r \in extra : r[1] \notin Copies
    BY RowFacts
<1>3. \A r \in pending[c] : r[1] \in Copies /\ CopyStatus(r[1]) = "failed"
    BY <1>1, PendingFacts
<1>4. ASSUME NEW v \in Copies, CopyStatus(v) # "failed"
      PROVE  committed' \cap RowsOf(v) = committed \cap RowsOf(v)
    <2>1. \A r \in RowsOf(v) : r[1] = v
        BY RowFacts
    <2>2. QED
        BY <1>1, <1>2, <1>3, <1>4, <2>1
<1>5. QED
    BY <1>1, <1>4 DEF Untouched

\* Finalize makes exactly the chunks sent visible, with leftovers of others.
LEMMA FinalizeSucceeds ==
    ASSUME IInv, NEW w \in Copies, Finalize(w)
    PROVE  Contract!ContractNext
<1>1. pc[w] = "sinking" /\ Goto(w, "finalized") /\ sunk' = sunk /\ CommitSession(w, {})
    BY DEF Finalize
<1>2. PICK c \in Contexts : owner[c] = w /\ committed' = committed \cup pending[c]
    BY <1>1 DEF CommitSession
<1>3. /\ CopyStatus(w) = "running" /\ CopyStatus(w)' = "succeeded"
      /\ \A v \in Copies : v # w => CopyStatus(v)' = CopyStatus(v)
    <2>1. w \in Clients /\ "finalized" \in Labels(w)
        BY ClientKinds DEF Labels, CopyPc
    <2>2. QED
        BY <1>1, <2>1, StatusStep DEF IInv, CopyStatus
<1>4. RowsOf(w) \cap committed = {} /\ pending[c] \cap RowsOf(w) = Sunk(w)
    <2>1. w # None
        BY ClientKinds
    <2>2. PICK d \in Contexts : owner[d] = w /\ pending[d] \cap RowsOf(w) = Sunk(w)
        BY <1>1 DEF IInv, RunningCopyIntact
    <2>3. c = d
        BY <1>2, <2>1, <2>2 DEF IInv, SessionsOK
    <2>4. QED
        BY <1>1, <2>2, <2>3 DEF IInv, RunningCopyIntact
<1>5. Untouched({w})
    <2>1. ASSUME NEW v \in Copies, v # w, CopyStatus(v) # "failed"
          PROVE  committed' \cap RowsOf(v) = committed \cap RowsOf(v)
        <3>1. \A r \in RowsOf(v) : r[1] = v
            BY RowFacts
        <3>2. \A r \in pending[c] : r[1] # v
            BY <1>2, <2>1, PendingFacts
        <3>3. QED
            BY <1>2, <3>1, <3>2
    <2>2. QED
        BY <1>2, <2>1 DEF Untouched
<1>6. \A v \in Copies : Sunk(v)' = Sunk(v)
    BY <1>1 DEF Sunk, Batch, Row
<1>7. committed' \cap RowsOf(w) = Sunk(w)
    BY <1>2, <1>4
<1>8. Contract!Succeed(w)
    BY <1>3, <1>4, <1>5, <1>6, <1>7, ContractTerms DEF Contract!Succeed
<1>9. QED
    BY <1>8 DEF Contract!ContractNext

\* A chunk is sent.
LEMMA SinkSends ==
    ASSUME IInv, NEW w \in Copies, Sink(w)
    PROVE  Contract!ContractNext
<1>1. /\ pc[w] = "sinking" /\ sunk[w] < MaxBatches /\ sunk' = [sunk EXCEPT ![w] = sunk[w] + 1]
      /\ pc' = pc /\ committed' = committed
    BY DEF Sink, Insert
<1>2. \A v \in Copies : CopyStatus(v)' = CopyStatus(v) /\ CopyStatus(w) = "running"
    BY <1>1 DEF CopyStatus
<1>3. sunk[w] \in Nat /\ sunk[w] + 1 \in 1..MaxBatches /\ sunk'[w] = sunk[w] + 1
          /\ \A v \in Copies : v # w => sunk'[v] = sunk[v]
    BY <1>1, ClientKinds DEF IInv, TablesOK
<1>4. Batch(w, sunk[w] + 1) \subseteq RowsOf(w)
    BY <1>3, BatchRows
<1>5. Sunk(w)' = Sunk(w) \cup Batch(w, sunk[w] + 1)
    <2>1. 1..(sunk[w] + 1) = (1..sunk[w]) \cup {sunk[w] + 1}
        BY <1>3
    <2>2. Sunk(w)' = UNION {Batch(w, b) : b \in 1..(sunk[w] + 1)}
        BY <1>3 DEF Sunk, Batch, Row
    <2>3. QED
        BY <2>1, <2>2 DEF Sunk
<1>6. \A v \in Copies : v # w => Sunk(v)' = Sunk(v)
    BY <1>3 DEF Sunk, Batch, Row
<1>7. [v \in Copies |-> Sunk(v)]'
          = [[v \in Copies |-> Sunk(v)] EXCEPT ![w] = Sunk(w) \cup Batch(w, sunk[w] + 1)]
    BY <1>5, <1>6
<1>8. Contract!SendChunk(w)
    BY <1>1, <1>2, <1>4, <1>7 DEF Contract!SendChunk
<1>9. QED
    BY <1>8 DEF Contract!ContractNext

\* The steps of a COPY.
LEMMA CopyKeepsContract ==
    ASSUME IInv, NEW w \in Copies, CopyNext(w)
    PROVE  Contract!ContractNext
<1>1. w \in Clients /\ \A l \in CopyPc : l \in Labels(w)
    BY ClientKinds DEF Labels
<1> USE DEF CopyPc
<1>2. ASSUME NEW l \in Labels(w), Goto(w, l), sunk' = sunk, committed' = committed,
             CopyStatus(w) = "running", l \in {"binding", "bound", "sinking", "failed", "aborted"}
      PROVE  Contract!ContractNext
    <2>1. pc'[w] = l /\ \A v \in Copies : v # w => CopyStatus(v)' = CopyStatus(v)
        BY <1>1, <1>2, StatusStep DEF IInv
    <2>2. CASE l \in {"failed", "aborted"}
        BY <1>2, <2>1, <2>2, FailsStep DEF CopyStatus
    <2>3. CASE l \notin {"failed", "aborted"}
        <3>1. CopyStatus(w)' = "running"
            BY <1>2, <2>1, <2>3 DEF CopyStatus
        <3>2. QED
            BY <1>2, <2>1, <3>1, OthersStep DEF Untouched
    <2>4. QED
        BY <2>2, <2>3
<1>3. ASSUME NEW l \in Labels(w), Goto(w, l), sunk' = sunk, Release(w),
             \/ pc[w] = "binding" /\ l = "bound"
             \/ pc[w] = "failed" /\ l = "aborted"
             \/ pc[w] = "finalized" /\ l = "done"
      PROVE  Contract!ContractNext
    <2>1. pc'[w] = l /\ \A v \in Copies : v # w => CopyStatus(v)' = CopyStatus(v)
        BY <1>1, <1>3, StatusStep DEF IInv
    <2>2. CopyStatus(w)' = CopyStatus(w)
        BY <1>3, <2>1 DEF CopyStatus
    <2>3. PICK c \in Contexts : \E closed \in {{}, {c}} : GiveUp(w, c, closed) /\ EndSessions(closed)
        BY <1>3 DEF Release
    <2>4. PICK closed \in {{}, {c}} : GiveUp(w, c, closed) /\ EndSessions(closed)
        BY <2>3
    <2>5. owner[c] = w /\ closed \in SUBSET Contexts /\ closed \subseteq {c} /\ pc[w] # "sinking"
        BY <1>3, <2>4 DEF GiveUp
    <2>6. Untouched({})
        BY <2>4, <2>5, EndsUntouched
    <2>7. QED
        BY <1>3, <2>1, <2>2, <2>6, OthersStep
<1>4. CASE BindConnects(w) \/ BindSkips(w)
    BY <1>1, <1>2, <1>4 DEF BindConnects, BindSkips, tableVars, CopyStatus
<1>5. CASE InitGlobal(w) \/ InitGlobalFails(w)
    BY <1>1, <1>2, <1>5 DEF InitGlobal, InitGlobalFails, tableVars, CopyStatus
<1>6. CASE BindReleases(w)
    BY <1>1, <1>3, <1>6 DEF BindReleases
<1>7. CASE DestroyStates(w)
    BY <1>1, <1>3, <1>7 DEF DestroyStates
<1>8. CASE Sink(w)
    BY <1>8, SinkSends
<1>9. CASE SinkFails(w)
    BY <1>1, <1>2, <1>9 DEF SinkFails, Insert, CopyStatus
<1>10. CASE Cancel(w)
    BY <1>1, <1>2, <1>10 DEF Cancel, tableVars, CopyStatus
<1>11. CASE Finalize(w)
    BY <1>11, FinalizeSucceeds
<1>12. CASE FinalizeFails(w)
    BY <1>1, <1>2, <1>12 DEF FinalizeFails, RollbackSession, tableVars, CopyStatus
<1>13. QED
    BY <1>4, <1>5, <1>6, <1>7, <1>8, <1>9, <1>10, <1>11, <1>12 DEF CopyNext

\* Whatever a user that is no COPY does.
LEMMA OthersKeepContract ==
    ASSUME IInv, NEW u \in Clients, u \notin Copies, NEW l \in Labels(u), Goto(u, l), sunk' = sunk,
           \/ committed' = committed
           \/ CommitSession(u, {})
           \/ u \in Executions /\ CommitSession(u, {Row(u, 1, 1)})
           \/ Release(u)
    PROVE  Contract!ContractNext
<1>1. \A v \in Copies : CopyStatus(v)' = CopyStatus(v)
    BY StatusStep DEF IInv
<1>2. Untouched({})
    <2>1. CASE committed' = committed
        BY <2>1 DEF Untouched
    <2>2. CASE CommitSession(u, {}) \/ (u \in Executions /\ CommitSession(u, {Row(u, 1, 1)}))
        BY <2>2, CommitUntouched
    <2>3. CASE Release(u)
        <3>1. PICK c \in Contexts : \E closed \in {{}, {c}} :
                  GiveUp(u, c, closed) /\ EndSessions(closed)
            BY <2>3 DEF Release
        <3>2. PICK closed \in {{}, {c}} : GiveUp(u, c, closed) /\ EndSessions(closed)
            BY <3>1
        <3>3. owner[c] = u /\ closed \in SUBSET Contexts /\ closed \subseteq {c}
            BY <3>2 DEF GiveUp
        <3>4. QED
            BY <3>2, <3>3, EndsUntouched
    <2>4. QED
        BY <2>1, <2>2, <2>3
<1>3. QED
    BY <1>1, <1>2, OthersStep

LEMMA NextKeepsContract ==
    IInv /\ [Next]_vars => [Contract!ContractNext]_(Contract!contractVars)
<1> SUFFICES ASSUME IInv, [Next]_vars
             PROVE  [Contract!ContractNext]_(Contract!contractVars)
    OBVIOUS
<1>1. CASE \E w \in Copies : CopyNext(w)
    BY <1>1, CopyKeepsContract
<1>2. ASSUME NEW e \in Executions, ExecuteNext(e)
      PROVE  Contract!ContractNext
    <2>1. e \in Clients /\ e \notin Copies /\ \A l \in ExecPc : l \in Labels(e)
        BY ClientKinds DEF Labels
    <2>2. PICK l \in ExecPc : Goto(e, l) /\ sunk' = sunk
        BY <1>2 DEF ExecuteNext, ExecuteAcquires, Execute, ExecuteReturns, ExecPc
    <2>3. \/ committed' = committed \/ CommitSession(e, {Row(e, 1, 1)}) \/ Release(e)
        BY <1>2 DEF ExecuteNext, ExecuteAcquires, Execute, ExecuteReturns, tableVars
    <2>4. QED
        BY <2>1, <2>2, <2>3, OthersKeepContract
<1>3. ASSUME NEW x \in Txns, TxnNext(x)
      PROVE  Contract!ContractNext
    <2>1. x \in Clients /\ x \notin Copies /\ \A l \in TxnPc : l \in Labels(x)
        BY ClientKinds DEF Labels
    <2>2. PICK l \in TxnPc : Goto(x, l) /\ sunk' = sunk
        BY <1>3 DEF TxnNext, StartTransaction, GetConnection, GetConnectionFails,
                    CommitTransaction, RollbackTransaction, DestroyTransaction, TxnPc
    <2>3. \/ committed' = committed \/ CommitSession(x, {}) \/ Release(x)
        BY <1>3 DEF TxnNext, StartTransaction, GetConnection, GetConnectionFails,
                    CommitTransaction, RollbackTransaction, DestroyTransaction,
                    RollbackSession, tableVars
    <2>4. QED
        BY <2>1, <2>2, <2>3, OthersKeepContract
<1>4. ASSUME pc' = pc, sunk' = sunk, Untouched({})
      PROVE  Contract!ContractNext
    <2>1. \A v \in Copies : CopyStatus(v)' = CopyStatus(v)
        BY <1>4 DEF CopyStatus
    <2>2. QED
        BY <1>4, <2>1, OthersStep
<1>5. CASE Detach \/ Detached
    BY <1>4, <1>5 DEF Detach, Detached, tableVars, Untouched
<1>6. CASE ClearPools
    <2>1. PICK closed \in SUBSET Contexts : Close(closed) /\ EndSessions(closed)
        BY <1>6 DEF ClearPools
    <2>2. \A c \in closed : owner[c] \notin Copies
        BY <2>1, ClientKinds DEF Close, Unused
    <2>3. QED
        BY <1>4, <1>6, <2>1, <2>2, EndsUntouched DEF ClearPools
<1>7. CASE UNCHANGED vars
    BY <1>4, <1>7 DEF vars, Untouched
<1>8. QED
    BY <1>1, <1>2, <1>3, <1>5, <1>6, <1>7 DEF Next

LEMMA InitContract == Init => Contract!ContractInit
<1> SUFFICES ASSUME Init PROVE Contract!ContractInit
    OBVIOUS
<1>1. \A w \in Copies : pc[w] = "idle" /\ sunk[w] = 0
    BY ClientKinds DEF Init
<1>2. \A w \in Copies : CopyStatus(w) = "running" /\ Sunk(w) = {}
    BY <1>1 DEF CopyStatus, Sunk
<1>3. QED
    BY <1>2 DEF Contract!ContractInit, Init

\* A COPY is all or nothing for the other sessions, however many users share
\* the pool and whatever becomes of the sessions: its rows appear in the step in
\* which it succeeds and not before, or else as leftovers after it has failed
\* (oracle_write.cpp:450, 469).
THEOREM ContractKept == Spec => KeepsCopyContract
<1>1. QED
    BY InitIInv, NextIInv, InitContract, NextKeepsContract, PTL
       DEF Spec, KeepsCopyContract, Contract!ContractSpec
-----------------------------------------------------------------------------
(* Sessions follow the work.                                               *)

\* A client that acquires has a session from then on; the others keep theirs.
LEMMA AcquireHolds ==
    ASSUME IInv, NEW u \in Clients, Acquire(u)
    PROVE  /\ ~HasSession(u) /\ HasSession(u)'
           /\ \A v \in Clients : v # u => (HasSession(v)' <=> HasSession(v))
<1>1. PICK c \in Contexts :
          /\ \A d \in Contexts : owner[d] # u
          /\ owner' = [owner EXCEPT ![c] = u]
          /\ owner[c] = None
    BY DEF Acquire, Reuse, Open, Unused, IInv, SessionsOK
<1>2. owner \in [Contexts -> Clients \cup {None}] /\ None \notin Clients
    BY ClientKinds DEF IInv, SessionsOK, SessionPoolTypeOK
<1>3. \A d \in Contexts : owner'[d] = IF d = c THEN u ELSE owner[d]
    BY <1>1, <1>2
<1>4. QED
    BY <1>1, <1>2, <1>3 DEF HasSession

\* A client that releases has none from then on; the others keep theirs.
LEMMA ReleaseHolds ==
    ASSUME IInv, NEW u \in Clients, Release(u)
    PROVE  /\ ~HasSession(u)'
           /\ \A v \in Clients : v # u => (HasSession(v)' <=> HasSession(v))
<1>1. PICK c \in Contexts : owner[c] = u /\ owner' = [owner EXCEPT ![c] = None]
    BY DEF Release, GiveUp
<1>2. /\ owner \in [Contexts -> Clients \cup {None}] /\ None \notin Clients
      /\ \A d \in Contexts : owner[d] = u => d = c
    BY <1>1, ClientKinds DEF IInv, SessionsOK, SessionPoolTypeOK
<1>3. \A d \in Contexts : owner'[d] = IF d = c THEN None ELSE owner[d]
    BY <1>1, <1>2
<1>4. QED
    BY <1>1, <1>2, <1>3 DEF HasSession

\* A client's step that neither acquires nor releases.
LEMMA OwnerStays ==
    ASSUME owner' = owner
    PROVE  \A v \in Clients : HasSession(v)' <=> HasSession(v)
    BY DEF HasSession

\* A client goes to a label that fits what it did with its session.
LEMMA HoldsStep ==
    ASSUME IInv, SessionsFollowWork, NEW u \in Clients, NEW l \in Labels(u), Goto(u, l),
           \/ Acquire(u) /\ l \in Working
           \/ Release(u) /\ l \notin Working
           \/ owner' = owner /\ (l = "ended" \/ (l \in Working <=> HasSession(u)))
    PROVE  SessionsFollowWork'
<1>1. pc'[u] = l /\ \A v \in Clients : v # u => pc'[v] = pc[v]
    BY PcStep DEF IInv, Goto
<1>2. \A v \in Clients : v # u => (HasSession(v)' <=> HasSession(v))
    BY AcquireHolds, ReleaseHolds, OwnerStays
<1>3. l = "ended" \/ (HasSession(u)' <=> l \in Working)
    BY AcquireHolds, ReleaseHolds, OwnerStays
<1>4. QED
    BY <1>1, <1>2, <1>3 DEF SessionsFollowWork

LEMMA CopyHolds ==
    ASSUME IInv, SessionsFollowWork, NEW w \in Copies, CopyNext(w)
    PROVE  SessionsFollowWork'
<1>1. w \in Clients /\ \A l \in CopyPc : l \in Labels(w)
    BY ClientKinds DEF Labels
<1>2. pc[w] # "ended" => (HasSession(w) <=> pc[w] \in Working)
    BY <1>1 DEF SessionsFollowWork
<1> USE DEF CopyPc, Working
<1>3. CASE BindConnects(w) \/ InitGlobal(w)
    BY <1>1, <1>3, HoldsStep DEF BindConnects, InitGlobal
<1>4. CASE BindSkips(w) \/ InitGlobalFails(w)
    BY <1>1, <1>2, <1>4, HoldsStep DEF BindSkips, InitGlobalFails, poolVars
<1>5. CASE BindReleases(w)
    BY <1>1, <1>5, HoldsStep DEF BindReleases
<1>6. CASE DestroyStates(w)
    BY <1>1, <1>6, HoldsStep DEF DestroyStates
<1>7. CASE Sink(w)
    BY <1>7 DEF Sink, poolVars, SessionsFollowWork, HasSession
<1>8. CASE SinkFails(w) \/ Cancel(w) \/ Finalize(w) \/ FinalizeFails(w)
    BY <1>1, <1>2, <1>8, HoldsStep DEF SinkFails, Cancel, Finalize, FinalizeFails, poolVars
<1>9. QED
    BY <1>3, <1>4, <1>5, <1>6, <1>7, <1>8 DEF CopyNext

LEMMA NextHolds == IInv /\ SessionsFollowWork /\ [Next]_vars => SessionsFollowWork'
<1> SUFFICES ASSUME IInv, SessionsFollowWork, [Next]_vars PROVE SessionsFollowWork'
    OBVIOUS
<1>1. CASE \E w \in Copies : CopyNext(w)
    BY <1>1, CopyHolds
<1>2. ASSUME NEW e \in Executions, ExecuteNext(e)
      PROVE  SessionsFollowWork'
    <2>1. e \in Clients /\ \A l \in ExecPc : l \in Labels(e)
        BY ClientKinds DEF Labels
    <2>2. pc[e] # "ended" => (HasSession(e) <=> pc[e] \in Working)
        BY <2>1 DEF SessionsFollowWork
    <2> USE DEF ExecPc, Working
    <2>3. CASE ExecuteAcquires(e)
        BY <2>1, <2>3, HoldsStep DEF ExecuteAcquires
    <2>4. CASE Execute(e)
        BY <2>1, <2>2, <2>4, HoldsStep DEF Execute, poolVars
    <2>5. CASE ExecuteReturns(e)
        BY <2>1, <2>5, HoldsStep DEF ExecuteReturns
    <2>6. QED
        BY <1>2, <2>3, <2>4, <2>5 DEF ExecuteNext
<1>3. ASSUME NEW x \in Txns, TxnNext(x)
      PROVE  SessionsFollowWork'
    <2>1. x \in Clients /\ \A l \in TxnPc : l \in Labels(x)
        BY ClientKinds DEF Labels
    <2>2. pc[x] # "ended" => (HasSession(x) <=> pc[x] \in Working)
        BY <2>1 DEF SessionsFollowWork
    <2> USE DEF TxnPc, Working
    <2>3. CASE StartTransaction(x) \/ GetConnectionFails(x) \/ CommitTransaction(x)
               \/ RollbackTransaction(x)
        BY <2>1, <2>2, <2>3, HoldsStep
           DEF StartTransaction, GetConnectionFails, CommitTransaction, RollbackTransaction, poolVars
    <2>4. CASE GetConnection(x)
        BY <2>1, <2>4, HoldsStep DEF GetConnection
    <2>5. CASE DestroyTransaction(x)
        <3>1. CASE HasSession(x)
            BY <2>1, <2>5, <3>1, HoldsStep DEF DestroyTransaction
        <3>2. CASE ~HasSession(x)
            BY <2>1, <2>5, <3>2, HoldsStep DEF DestroyTransaction, poolVars
        <3>3. QED
            BY <3>1, <3>2
    <2>6. QED
        BY <1>3, <2>3, <2>4, <2>5 DEF TxnNext
<1>4. CASE owner' = owner /\ pc' = pc
    BY <1>4, OwnerStays DEF SessionsFollowWork
<1>5. CASE Detach \/ Detached \/ ClearPools \/ UNCHANGED vars
    BY <1>4, <1>5 DEF Detach, Detached, ClearPools, Close, poolVars, vars
<1>6. QED
    BY <1>1, <1>2, <1>3, <1>5 DEF Next

\* No session is leaked or lost on any path, exceptions and interrupts
\* included: a client has one exactly while it works with it, but for a
\* transaction that has ended (oracle_connection_manager.cpp:71,
\* oracle_transaction_manager.cpp:14).
THEOREM SessionsFollow == Spec => []SessionsFollowWork
<1>1. Init => SessionsFollowWork
    <2> SUFFICES ASSUME Init PROVE SessionsFollowWork
        OBVIOUS
    <2>1. None \notin Clients
        BY ClientKinds
    <2>2. \A u \in Clients : ~HasSession(u)
        BY <2>1 DEF Init, SessionPoolInit, HasSession
    <2>3. QED
        BY <2>2 DEF Init, SessionsFollowWork, Working
<1>2. QED
    BY InitIInv, NextIInv, NextHolds, <1>1, PTL DEF Spec
=============================================================================
