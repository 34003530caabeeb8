----------------------- MODULE OracleCatalogStateProofs -----------------------
(***************************************************************************)
(* Proofs about OracleCatalogState, for any numbers of threads, schemas,   *)
(* objects and changes on the server, and any options.                     *)
(***************************************************************************)
EXTENDS OracleCatalogState, FiniteSetTheorems, TLAPS

\* What a thread in the middle of an operation relies on.
ThreadsOK ==
    \A t \in Threads :
        /\ pc[t] = "mainCreate" =>
              seen[t] \in {Current, Main} /\ (seen[t] = Main => excuse[t] # {})
        /\ pc[t] = "mainLookUp" => excuse[t] # {}
        /\ pc[t] = "mainReread" => current_schema # None \/ excuse[t] # {}
        /\ pc[t] \in {"scanFlags", "scanned"} => version_detected \/ "cleared" \in excuse[t]

\* version_detected tells that the last detection went well, or did not.
VersionOK == version_detected \/ lock # None => version_info = Version \/ missed

IInv ==
    /\ TypeOK
    /\ ThreadsOK
    /\ VersionOK
    /\ ScanSeesVersion
    /\ MainIsCurrent
    /\ MainListedForCurrent
    /\ ClearShowsObjects

-----------------------------------------------------------------------------

\* A list as long as its limit allows shows all objects or is full.
LEMMA ListIsFull ==
    ASSUME NEW limit \in Nat, objects \subseteq Objects, NEW names \in SUBSET objects,
           Cardinality(names) = Shown(Cardinality(objects), limit)
    PROVE  names = objects \/ (limit > 0 /\ Cardinality(names) >= limit)
<1>1. IsFiniteSet(objects) /\ Cardinality(objects) \in Nat
    BY FS_Subset, FS_CardinalityType, StateAssumption
<1>2. CASE limit = 0 \/ Cardinality(objects) <= limit
    <2>1. Cardinality(names) = Cardinality(objects)
        BY <1>2 DEF Shown
    <2>2. names = objects
        BY <1>1, <2>1, FS_Subset
    <2>3. QED
        BY <2>2
<1>3. CASE ~(limit = 0 \/ Cardinality(objects) <= limit)
    <2>1. Cardinality(names) = limit
        BY <1>3 DEF Shown
    <2>2. QED
        BY <1>3, <2>1
<1>4. QED
    BY <1>2, <1>3

\* The first state satisfies the invariant.
LEMMA InitIInv == Init => IInv
<1> USE StateAssumption
<1>1. ASSUME Init PROVE TypeOK
    <2>1. PICK t \in Threads :
              pc = [u \in Threads |-> IF u = t THEN "attachConnect" ELSE "idle"]
        BY <1>1 DEF Init
    <2>2. pc \in [Threads -> PcValues]
        BY <2>1 DEF PcValues
    <2>3. \A u \in Threads : pc[u] \notin {"attachLatch", "scanLatch"} /\ lock # u
        BY <1>1, <2>1 DEF Init
    <2>4. /\ lock = None /\ changes \in 0..MaxChanges
          /\ kept \subseteq objects /\ objects \subseteq known /\ known \subseteq Objects
        BY <1>1 DEF Init
    <2>5. seen \in [Threads -> {Current, Main, Version, None}]
        BY <1>1 DEF Init
    <2>6. excuse \in [Threads -> SUBSET {"cleared", "failed"}]
        BY <1>1 DEF Init
    <2>7. \A u \in Threads : pc[u] \in {"attachLatch", "scanLatch"} <=> lock = u
        BY <2>3
    <2>8. QED
        BY <1>1, <2>2, <2>4, <2>5, <2>6, <2>7 DEF Init, TypeOK
<1>2. Init => ThreadsOK /\ VersionOK /\ ScanSeesVersion
    BY DEF Init, ThreadsOK, VersionOK, ScanSeesVersion
<1>3. Init => MainIsCurrent /\ MainListedForCurrent /\ ClearShowsObjects
    BY DEF Init, MainIsCurrent, MainListedForCurrent, ClearShowsObjects
<1>4. QED
    BY <1>1, <1>2, <1>3 DEF IInv

\* ATTACH takes the state up.
LEMMA AttachStep ==
    ASSUME IInv, NEW t \in Threads, NEW options \in Options, Attach(t, options)
    PROVE  IInv'
<1> USE StateAssumption DEF IInv, Attach
<1>1. TypeOK'
    BY DEF Goto, caches, version, duckdb, server, TypeOK, PcValues, ObjectLists, ThreadsOK
<1>2. ThreadsOK' /\ VersionOK' /\ ScanSeesVersion'
    BY DEF Goto, caches, version, duckdb, server, TypeOK, ThreadsOK, VersionOK, ScanSeesVersion
<1>3. MainIsCurrent' /\ MainListedForCurrent' /\ ClearShowsObjects'
    BY DEF Goto, caches, version, duckdb, server, TypeOK, ThreadsOK, MainIsCurrent,
           MainListedForCurrent, ClearShowsObjects
<1>4. QED
    BY <1>1, <1>2, <1>3

\* The session of ATTACH.
LEMMA ConnectStep ==
    ASSUME IInv, NEW t \in Threads, Connect(t)
    PROVE  IInv'
<1> USE StateAssumption DEF IInv, Connect
<1>1. TypeOK'
    <2>1. UNCHANGED <<settings, lock, current_schema, version_info, version_detected,
                      schema_cache, object_cache, attached, mainSchema, seen, objects,
                      changes, kept, known, missed, excuse, mainExcuse>>
        BY DEF Connects, ConnectThrows, caches, version, duckdb, server
    <2>2. connected' \in BOOLEAN
        BY DEF Connects, ConnectThrows, TypeOK
    <2>3. pc' = [pc EXCEPT ![t] = "attachSchema"] \/ pc' = [pc EXCEPT ![t] = "idle"]
        BY DEF Goto
    <2>4. pc' \in [Threads -> PcValues]
        BY <2>3 DEF TypeOK, PcValues
    <2>5. \A u \in Threads : pc'[u] \in {"attachLatch", "scanLatch"} <=> lock' = u
        BY <2>1, <2>3 DEF TypeOK
    <2>6. QED
        BY <2>1, <2>2, <2>4, <2>5 DEF TypeOK
<1>2. ThreadsOK' /\ VersionOK' /\ ScanSeesVersion'
    BY DEF Connects, ConnectThrows, Goto, caches, version, duckdb, server, TypeOK, ThreadsOK,
           VersionOK, ScanSeesVersion
<1>3. MainIsCurrent' /\ MainListedForCurrent' /\ ClearShowsObjects'
    BY DEF Connects, ConnectThrows, Goto, caches, version, duckdb, server, TypeOK, ThreadsOK,
           MainIsCurrent, MainListedForCurrent, ClearShowsObjects
<1>4. QED
    BY <1>1, <1>2, <1>3

\* ATTACH reads the current schema.
LEMMA DetectAtAttachStep ==
    ASSUME IInv, NEW t \in Threads, DetectAtAttach(t)
    PROVE  IInv'
<1> USE StateAssumption DEF IInv, DetectAtAttach
<1>1. TypeOK'
    <2>1. lock = None /\ UNCHANGED <<settings, lock, version_info, version_detected, schema_cache,
                                     object_cache, attached, mainSchema, objects, changes, kept, known,
                                     missed, mainExcuse>>
        BY DEF DetectCurrentSchema, MethodThrows, caches, version, duckdb, server
    <2>2. /\ pc' = [pc EXCEPT ![t] = "attachVersion"] \/ pc' = [pc EXCEPT ![t] = "idle"]
          /\ seen' = seen \/ seen' = [seen EXCEPT ![t] = None]
          /\ \/ excuse' = excuse
             \/ excuse' = [excuse EXCEPT ![t] = excuse[t] \cup {"failed"}]
             \/ excuse' = [excuse EXCEPT ![t] = {}]
        BY DEF DetectCurrentSchema, MethodThrows, End, Goto
    <2>3. current_schema' \in {current_schema, Current} /\ connected' \in {connected, TRUE, FALSE}
        BY DEF DetectCurrentSchema, MethodThrows, Connects, ConnectThrows, caches
    <2>4. pc' \in [Threads -> PcValues]
        BY <2>2 DEF TypeOK, PcValues
    <2>5. seen' \in [Threads -> {Current, Main, Version, None}]
        BY <2>2 DEF TypeOK
    <2>6. excuse' \in [Threads -> SUBSET {"cleared", "failed"}]
        BY <2>2 DEF TypeOK
    <2>7. \A u \in Threads : pc'[u] \notin {"attachLatch", "scanLatch"} /\ lock' # u
        BY <2>1, <2>2 DEF TypeOK
    <2>8. QED
        BY <2>1, <2>3, <2>4, <2>5, <2>6, <2>7 DEF TypeOK
<1>2. ThreadsOK' /\ VersionOK' /\ ScanSeesVersion'
    BY DEF DetectCurrentSchema, MethodThrows, End, Connects, ConnectThrows, Goto, caches,
           version, duckdb, server, TypeOK, ThreadsOK, VersionOK, ScanSeesVersion
<1>3. MainIsCurrent' /\ MainListedForCurrent' /\ ClearShowsObjects'
    BY DEF DetectCurrentSchema, MethodThrows, End, Connects, ConnectThrows, Goto, caches,
           version, duckdb, server, TypeOK, ThreadsOK, MainIsCurrent, MainListedForCurrent,
           ClearShowsObjects
<1>4. QED
    BY <1>1, <1>2, <1>3

\* The version has been detected.
LEMMA VersionIsKnownStep ==
    ASSUME IInv, NEW t \in Threads, VersionIsKnown(t)
    PROVE  IInv'
<1> USE StateAssumption DEF IInv, VersionIsKnown
<1>1. TypeOK'
    BY DEF AfterVersion, Attaches, Goto, caches, version, duckdb, server, TypeOK, PcValues,
           ObjectLists, ThreadsOK
<1>2. ThreadsOK' /\ VersionOK' /\ ScanSeesVersion'
    BY DEF AfterVersion, Attaches, Goto, caches, version, duckdb, server, TypeOK, ThreadsOK,
           VersionOK, ScanSeesVersion
<1>3. MainIsCurrent' /\ MainListedForCurrent' /\ ClearShowsObjects'
    BY DEF AfterVersion, Attaches, Goto, caches, version, duckdb, server, TypeOK, ThreadsOK,
           MainIsCurrent, MainListedForCurrent, ClearShowsObjects
<1>4. QED
    BY <1>1, <1>2, <1>3

\* The queries for the version.
LEMMA DetectVersionStep ==
    ASSUME IInv, NEW t \in Threads, DetectVersion(t)
    PROVE  IInv'
<1> USE StateAssumption DEF IInv, DetectVersion
<1>1. TypeOK'
    <2>1. lock = None /\ lock' = t
        OBVIOUS
    <2>2. pc' = [pc EXCEPT ![t] = "attachLatch"] \/ pc' = [pc EXCEPT ![t] = "scanLatch"]
        <3>1. pc[t] = "attachVersion" \/ pc[t] = "scanDetect"
            BY DEF VersionLatch
        <3>2. VersionLatch["attachVersion"] = "attachLatch" /\ VersionLatch["scanDetect"] = "scanLatch"
            BY DEF VersionLatch
        <3>3. QED
            BY <3>1, <3>2 DEF Goto
    <2>3. pc' \in [Threads -> PcValues]
        BY <2>2 DEF TypeOK, PcValues
    <2>4. \A u \in Threads : pc'[u] \in {"attachLatch", "scanLatch"} <=> lock' = u
        BY <2>1, <2>2 DEF TypeOK
    <2>5. connected' \in BOOLEAN /\ version_info' \in {Version, None} /\ missed' \in BOOLEAN
        BY DEF Connects, TypeOK
    <2>6. UNCHANGED <<settings, caches, version_detected, duckdb, server, seen, excuse>>
        OBVIOUS
    <2>7. QED
        BY <2>1, <2>3, <2>4, <2>5, <2>6 DEF TypeOK, caches, duckdb, server
<1>2. ThreadsOK' /\ VersionOK' /\ ScanSeesVersion'
    BY DEF VersionLatch, Connects, Goto, caches, version, duckdb, server, TypeOK, ThreadsOK,
           VersionOK, ScanSeesVersion
<1>3. MainIsCurrent' /\ MainListedForCurrent' /\ ClearShowsObjects'
    BY DEF VersionLatch, Connects, Goto, caches, version, duckdb, server, TypeOK, ThreadsOK,
           MainIsCurrent, MainListedForCurrent, ClearShowsObjects
<1>4. QED
    BY <1>1, <1>2, <1>3

\* The version counts as detected.
LEMMA LatchVersionStep ==
    ASSUME IInv, NEW t \in Threads, LatchVersion(t)
    PROVE  IInv'
<1> USE StateAssumption DEF IInv, LatchVersion
<1>1. TypeOK'
    BY DEF AfterLatch, Attaches, Goto, caches, version, duckdb, server, TypeOK, PcValues,
           ObjectLists, ThreadsOK
<1>2. ThreadsOK' /\ VersionOK' /\ ScanSeesVersion'
    BY DEF AfterLatch, Attaches, Goto, caches, version, duckdb, server, TypeOK, ThreadsOK,
           VersionOK, ScanSeesVersion
<1>3. MainIsCurrent' /\ MainListedForCurrent' /\ ClearShowsObjects'
    BY DEF AfterLatch, Attaches, Goto, caches, version, duckdb, server, TypeOK, ThreadsOK,
           MainIsCurrent, MainListedForCurrent, ClearShowsObjects
<1>4. QED
    BY <1>1, <1>2, <1>3

\* There is no session to ask for the version.
LEMMA DetectVersionThrowsStep ==
    ASSUME IInv, NEW t \in Threads, DetectVersionThrows(t)
    PROVE  IInv'
<1> USE StateAssumption DEF IInv, DetectVersionThrows
<1>1. TypeOK'
    BY DEF MethodThrows, End, Connects, ConnectThrows, Goto, caches, version, duckdb, server,
           TypeOK, PcValues, ObjectLists, ThreadsOK
<1>2. ThreadsOK' /\ VersionOK' /\ ScanSeesVersion'
    BY DEF MethodThrows, End, Connects, ConnectThrows, Goto, caches, version, duckdb, server,
           TypeOK, ThreadsOK, VersionOK, ScanSeesVersion
<1>3. MainIsCurrent' /\ MainListedForCurrent' /\ ClearShowsObjects'
    BY DEF MethodThrows, End, Connects, ConnectThrows, Goto, caches, version, duckdb, server,
           TypeOK, ThreadsOK, MainIsCurrent, MainListedForCurrent, ClearShowsObjects
<1>4. QED
    BY <1>1, <1>2, <1>3

\* Schema "main" is looked up.
LEMMA StartMainStep ==
    ASSUME IInv, NEW t \in Threads, StartMain(t)
    PROVE  IInv'
<1> USE StateAssumption DEF IInv, StartMain
<1>1. TypeOK'
    BY DEF Goto, caches, version, duckdb, server, TypeOK, PcValues, ObjectLists, ThreadsOK
<1>2. ThreadsOK' /\ VersionOK' /\ ScanSeesVersion'
    BY DEF Goto, caches, version, duckdb, server, TypeOK, ThreadsOK, VersionOK, ScanSeesVersion
<1>3. MainIsCurrent' /\ MainListedForCurrent' /\ ClearShowsObjects'
    BY DEF Goto, caches, version, duckdb, server, TypeOK, ThreadsOK, MainIsCurrent,
           MainListedForCurrent, ClearShowsObjects
<1>4. QED
    BY <1>1, <1>2, <1>3

\* The current schema is detected for it.
LEMMA DetectForMainStep ==
    ASSUME IInv, NEW t \in Threads, DetectForMain(t)
    PROVE  IInv'
<1> USE StateAssumption DEF IInv, DetectForMain
<1>1. TypeOK'
    <2>1. lock = None /\ UNCHANGED <<settings, lock, version_info, version_detected, schema_cache,
                                     object_cache, attached, mainSchema, objects, changes, kept, known,
                                     missed, mainExcuse>>
        BY DEF DetectCurrentSchema, MethodThrows, caches, version, duckdb, server
    <2>2. /\ pc' = [pc EXCEPT ![t] = "mainReread"] \/ pc' = [pc EXCEPT ![t] = "idle"]
          /\ seen' = seen \/ seen' = [seen EXCEPT ![t] = None]
          /\ \/ excuse' = excuse
             \/ excuse' = [excuse EXCEPT ![t] = excuse[t] \cup {"failed"}]
             \/ excuse' = [excuse EXCEPT ![t] = {}]
        BY DEF DetectCurrentSchema, MethodThrows, End, Goto
    <2>3. current_schema' \in {current_schema, Current} /\ connected' \in {connected, TRUE, FALSE}
        BY DEF DetectCurrentSchema, MethodThrows, Connects, ConnectThrows, caches
    <2>4. pc' \in [Threads -> PcValues]
        BY <2>2 DEF TypeOK, PcValues
    <2>5. seen' \in [Threads -> {Current, Main, Version, None}]
        BY <2>2 DEF TypeOK
    <2>6. excuse' \in [Threads -> SUBSET {"cleared", "failed"}]
        BY <2>2 DEF TypeOK
    <2>7. \A u \in Threads : pc'[u] \notin {"attachLatch", "scanLatch"} /\ lock' # u
        BY <2>1, <2>2 DEF TypeOK
    <2>8. QED
        BY <2>1, <2>3, <2>4, <2>5, <2>6, <2>7 DEF TypeOK
<1>2. ThreadsOK' /\ VersionOK' /\ ScanSeesVersion'
    BY DEF DetectCurrentSchema, MethodThrows, End, Connects, ConnectThrows, Goto, caches,
           version, duckdb, server, TypeOK, ThreadsOK, VersionOK, ScanSeesVersion
<1>3. MainIsCurrent' /\ MainListedForCurrent' /\ ClearShowsObjects'
    BY DEF DetectCurrentSchema, MethodThrows, End, Connects, ConnectThrows, Goto, caches,
           version, duckdb, server, TypeOK, ThreadsOK, MainIsCurrent, MainListedForCurrent,
           ClearShowsObjects
<1>4. QED
    BY <1>1, <1>2, <1>3

\* The second look at the current schema.
LEMMA RereadMainStep ==
    ASSUME IInv, NEW t \in Threads, RereadMain(t)
    PROVE  IInv'
<1> USE StateAssumption DEF IInv, RereadMain
<1>1. TypeOK'
    BY DEF Goto, caches, version, duckdb, server, TypeOK, PcValues, ObjectLists, ThreadsOK
<1>2. ThreadsOK' /\ VersionOK' /\ ScanSeesVersion'
    BY DEF Goto, caches, version, duckdb, server, TypeOK, ThreadsOK, VersionOK, ScanSeesVersion
<1>3. MainIsCurrent' /\ MainListedForCurrent' /\ ClearShowsObjects'
    BY DEF Goto, caches, version, duckdb, server, TypeOK, ThreadsOK, MainIsCurrent,
           MainListedForCurrent, ClearShowsObjects
<1>4. QED
    BY <1>1, <1>2, <1>3

\* No user has that name.
LEMMA LookUpMainStep ==
    ASSUME IInv, NEW t \in Threads, LookUpMain(t)
    PROVE  IInv'
<1> USE StateAssumption DEF IInv, LookUpMain
<1>1. TypeOK'
    BY DEF MethodThrows, End, Connects, ConnectThrows, Goto, caches, version, duckdb, server,
           TypeOK, PcValues, ObjectLists, ThreadsOK
<1>2. ThreadsOK' /\ VersionOK' /\ ScanSeesVersion'
    BY DEF MethodThrows, End, Connects, ConnectThrows, Goto, caches, version, duckdb, server,
           TypeOK, ThreadsOK, VersionOK, ScanSeesVersion
<1>3. MainIsCurrent' /\ MainListedForCurrent' /\ ClearShowsObjects'
    BY DEF MethodThrows, End, Connects, ConnectThrows, Goto, caches, version, duckdb, server,
           TypeOK, ThreadsOK, MainIsCurrent, MainListedForCurrent, ClearShowsObjects
<1>4. QED
    BY <1>1, <1>2, <1>3

\* The entry is made.
LEMMA CreateMainStep ==
    ASSUME IInv, NEW t \in Threads, CreateMain(t)
    PROVE  IInv'
<1> USE StateAssumption DEF IInv, CreateMain
<1>1. TypeOK'
    <2>1. mainSchema' \in {Current, Main, None} /\ mainExcuse' \subseteq {"cleared", "failed"}
        <3>1. seen[t] \in {Current, Main} /\ excuse[t] \subseteq {"cleared", "failed"}
            BY DEF ThreadsOK, TypeOK
        <3>2. QED
            BY <3>1 DEF TypeOK
    <2>2. /\ pc' = [pc EXCEPT ![t] = "idle"]
          /\ seen' = [seen EXCEPT ![t] = None]
          /\ excuse' = [excuse EXCEPT ![t] = {}]
        BY DEF End, Goto
    <2>3. /\ pc' \in [Threads -> PcValues]
          /\ seen' \in [Threads -> {Current, Main, Version, None}]
          /\ excuse' \in [Threads -> SUBSET {"cleared", "failed"}]
        BY <2>2 DEF TypeOK, PcValues
    <2>4. UNCHANGED <<settings, connected, caches, version, attached, server>>
        OBVIOUS
    <2>5. \A u \in Threads : pc'[u] \in {"attachLatch", "scanLatch"} <=> lock' = u
        BY <2>2, <2>4 DEF TypeOK, version
    <2>6. QED
        BY <2>1, <2>3, <2>4, <2>5 DEF TypeOK, caches, version, server
<1>2. ThreadsOK' /\ VersionOK' /\ ScanSeesVersion'
    BY DEF End, Goto, caches, version, duckdb, server, TypeOK, ThreadsOK, VersionOK,
           ScanSeesVersion
<1>3. MainIsCurrent' /\ MainListedForCurrent' /\ ClearShowsObjects'
    BY DEF End, Goto, caches, version, duckdb, server, TypeOK, ThreadsOK, MainIsCurrent,
           MainListedForCurrent, ClearShowsObjects
<1>4. QED
    BY <1>1, <1>2, <1>3

\* A scan is planned.
LEMMA StartScanStep ==
    ASSUME IInv, NEW t \in Threads, StartScan(t)
    PROVE  IInv'
<1> USE StateAssumption DEF IInv, StartScan
<1>1. TypeOK'
    BY DEF Goto, caches, version, duckdb, server, TypeOK, PcValues, ObjectLists, ThreadsOK
<1>2. ThreadsOK' /\ VersionOK' /\ ScanSeesVersion'
    BY DEF Goto, caches, version, duckdb, server, TypeOK, ThreadsOK, VersionOK, ScanSeesVersion
<1>3. MainIsCurrent' /\ MainListedForCurrent' /\ ClearShowsObjects'
    BY DEF Goto, caches, version, duckdb, server, TypeOK, ThreadsOK, MainIsCurrent,
           MainListedForCurrent, ClearShowsObjects
<1>4. QED
    BY <1>1, <1>2, <1>3

\* It reads the feature flags.
LEMMA ReadFlagsStep ==
    ASSUME IInv, NEW t \in Threads, ReadFlags(t)
    PROVE  IInv'
<1> USE StateAssumption DEF IInv, ReadFlags
<1>1. TypeOK'
    BY DEF Goto, caches, version, duckdb, server, TypeOK, PcValues, ObjectLists, ThreadsOK
<1>2. ThreadsOK' /\ VersionOK' /\ ScanSeesVersion'
    BY DEF Goto, caches, version, duckdb, server, TypeOK, ThreadsOK, VersionOK, ScanSeesVersion
<1>3. MainIsCurrent' /\ MainListedForCurrent' /\ ClearShowsObjects'
    BY DEF Goto, caches, version, duckdb, server, TypeOK, ThreadsOK, MainIsCurrent,
           MainListedForCurrent, ClearShowsObjects
<1>4. QED
    BY <1>1, <1>2, <1>3

\* It is done with them.
LEMMA FinishScanStep ==
    ASSUME IInv, NEW t \in Threads, FinishScan(t)
    PROVE  IInv'
<1> USE StateAssumption DEF IInv, FinishScan
<1>1. TypeOK'
    BY DEF End, Goto, caches, version, duckdb, server, TypeOK, PcValues, ObjectLists, ThreadsOK
<1>2. ThreadsOK' /\ VersionOK' /\ ScanSeesVersion'
    BY DEF End, Goto, caches, version, duckdb, server, TypeOK, ThreadsOK, VersionOK,
           ScanSeesVersion
<1>3. MainIsCurrent' /\ MainListedForCurrent' /\ ClearShowsObjects'
    BY DEF End, Goto, caches, version, duckdb, server, TypeOK, ThreadsOK, MainIsCurrent,
           MainListedForCurrent, ClearShowsObjects
<1>4. QED
    BY <1>1, <1>2, <1>3

\* The list of schemas is filled.
LEMMA ListSchemasStep ==
    ASSUME IInv, NEW t \in Threads, ListSchemas(t)
    PROVE  IInv'
<1> USE StateAssumption DEF IInv, ListSchemas
<1>1. TypeOK'
    BY DEF Connects, Goto, caches, version, duckdb, server, TypeOK, PcValues, ObjectLists,
           ThreadsOK
<1>2. ThreadsOK' /\ VersionOK' /\ ScanSeesVersion'
    BY DEF Connects, Goto, caches, version, duckdb, server, TypeOK, ThreadsOK, VersionOK,
           ScanSeesVersion
<1>3. MainIsCurrent' /\ MainListedForCurrent' /\ ClearShowsObjects'
    BY DEF Connects, Goto, caches, version, duckdb, server, TypeOK, ThreadsOK, MainIsCurrent,
           MainListedForCurrent, ClearShowsObjects
<1>4. QED
    BY <1>1, <1>2, <1>3

\* A list of objects is filled.
LEMMA ListObjectsStep ==
    ASSUME IInv, NEW t \in Threads, ListObjects(t)
    PROVE  IInv'
<1> USE StateAssumption DEF IInv, ListObjects
<1>1. TypeOK'
    BY DEF Connects, Goto, caches, version, duckdb, server, TypeOK, PcValues, ObjectLists,
           ThreadsOK
<1>2. ThreadsOK' /\ VersionOK' /\ ScanSeesVersion'
    BY DEF Connects, Goto, caches, version, duckdb, server, TypeOK, ThreadsOK, VersionOK,
           ScanSeesVersion
<1>3. MainIsCurrent' /\ MainListedForCurrent'
    BY DEF TypeOK, MainIsCurrent, MainListedForCurrent, duckdb
<1>4. ClearShowsObjects'
    <2> DEFINE limit == settings.metadata_result_limit
    <2>1. PICK names \in SUBSET objects :
              /\ Cardinality(names) = Shown(Cardinality(objects), limit)
              /\ object_cache' = [names |-> names, limit |-> limit]
        OBVIOUS
    <2>2. /\ limit \in Nat /\ objects \subseteq Objects
          /\ kept' \subseteq objects /\ objects \subseteq known'
        BY DEF TypeOK, server
    <2>3. names = objects \/ (limit > 0 /\ Cardinality(names) >= limit)
        BY <2>1, <2>2, ListIsFull
    <2>4. object_cache'.names = names /\ object_cache'.limit = limit
        BY <2>1
    <2>5. QED
        BY <2>2, <2>3, <2>4 DEF ClearShowsObjects
<1>5. QED
    BY <1>1, <1>2, <1>3, <1>4

\* Filling a list fails.
LEMMA ListThrowsStep ==
    ASSUME IInv, NEW t \in Threads, ListThrows(t)
    PROVE  IInv'
<1> USE StateAssumption DEF IInv, ListThrows
<1>1. TypeOK'
    BY DEF Connects, ConnectThrows, Goto, caches, version, duckdb, server, TypeOK, PcValues,
           ObjectLists, ThreadsOK
<1>2. ThreadsOK' /\ VersionOK' /\ ScanSeesVersion'
    BY DEF Connects, ConnectThrows, Goto, caches, version, duckdb, server, TypeOK, ThreadsOK,
           VersionOK, ScanSeesVersion
<1>3. MainIsCurrent' /\ MainListedForCurrent' /\ ClearShowsObjects'
    BY DEF Connects, ConnectThrows, Goto, caches, version, duckdb, server, TypeOK, ThreadsOK,
           MainIsCurrent, MainListedForCurrent, ClearShowsObjects
<1>4. QED
    BY <1>1, <1>2, <1>3

\* oracle_clear_cache.
LEMMA ClearCachesStep ==
    ASSUME IInv, ClearCaches
    PROVE  IInv'
<1> USE StateAssumption DEF IInv, ClearCaches
<1>1. TypeOK'
    BY DEF HistoryOfClear, Goto, caches, version, duckdb, server, TypeOK, PcValues,
           ObjectLists, ThreadsOK
<1>2. ThreadsOK' /\ VersionOK' /\ ScanSeesVersion'
    BY DEF HistoryOfClear, Goto, caches, version, duckdb, server, TypeOK, ThreadsOK, VersionOK,
           ScanSeesVersion
<1>3. MainIsCurrent' /\ MainListedForCurrent' /\ ClearShowsObjects'
    BY DEF HistoryOfClear, Goto, caches, version, duckdb, server, TypeOK, ThreadsOK,
           MainIsCurrent, MainListedForCurrent, ClearShowsObjects
<1>4. QED
    BY <1>1, <1>2, <1>3

\* DETACH.
LEMMA DetachStep ==
    ASSUME IInv, Detach
    PROVE  IInv'
<1> USE StateAssumption DEF IInv, Detach
<1>1. TypeOK'
    BY DEF Goto, caches, version, duckdb, server, TypeOK, PcValues, ObjectLists, ThreadsOK
<1>2. ThreadsOK' /\ VersionOK' /\ ScanSeesVersion'
    BY DEF Goto, caches, version, duckdb, server, TypeOK, ThreadsOK, VersionOK, ScanSeesVersion
<1>3. MainIsCurrent' /\ MainListedForCurrent' /\ ClearShowsObjects'
    BY DEF Goto, caches, version, duckdb, server, TypeOK, ThreadsOK, MainIsCurrent,
           MainListedForCurrent, ClearShowsObjects
<1>4. QED
    BY <1>1, <1>2, <1>3

\* DDL on the server.
LEMMA ChangeStep ==
    ASSUME IInv, NEW o \in Objects, Change(o)
    PROVE  IInv'
<1> USE StateAssumption DEF IInv, Change
<1>1. TypeOK'
    BY DEF Goto, caches, version, duckdb, server, TypeOK, PcValues, ObjectLists, ThreadsOK
<1>2. ThreadsOK' /\ VersionOK' /\ ScanSeesVersion'
    BY DEF Goto, caches, version, duckdb, server, TypeOK, ThreadsOK, VersionOK, ScanSeesVersion
<1>3. MainIsCurrent' /\ MainListedForCurrent' /\ ClearShowsObjects'
    BY DEF Goto, caches, version, duckdb, server, TypeOK, ThreadsOK, MainIsCurrent,
           MainListedForCurrent, ClearShowsObjects
<1>4. QED
    BY <1>1, <1>2, <1>3

\* No step breaks the invariant.
LEMMA NextIInv == IInv /\ [Next]_vars => IInv'
<1> SUFFICES ASSUME IInv, [Next]_vars PROVE IInv'
    OBVIOUS
<1>1. CASE UNCHANGED vars
    <2> USE <1>1 DEF vars, caches, version, duckdb, server
    <2>1. TypeOK' /\ ThreadsOK' /\ VersionOK' /\ ScanSeesVersion'
        BY DEF IInv, TypeOK, ThreadsOK, VersionOK, ScanSeesVersion
    <2>2. MainIsCurrent' /\ MainListedForCurrent' /\ ClearShowsObjects'
        BY DEF IInv, MainIsCurrent, MainListedForCurrent, ClearShowsObjects
    <2>3. QED
        BY <2>1, <2>2 DEF IInv
<1>2. ASSUME NEW t \in Threads,
             \/ \E options \in Options : Attach(t, options)
             \/ Connect(t) \/ DetectAtAttach(t)
             \/ VersionIsKnown(t) \/ DetectVersion(t) \/ LatchVersion(t)
             \/ DetectVersionThrows(t)
      PROVE  IInv'
    BY <1>2, AttachStep, ConnectStep, DetectAtAttachStep, VersionIsKnownStep, DetectVersionStep,
       LatchVersionStep, DetectVersionThrowsStep
<1>3. ASSUME NEW t \in Threads,
             \/ StartMain(t) \/ DetectForMain(t) \/ RereadMain(t)
             \/ LookUpMain(t) \/ CreateMain(t)
             \/ StartScan(t) \/ ReadFlags(t) \/ FinishScan(t)
             \/ ListSchemas(t) \/ ListObjects(t) \/ ListThrows(t)
      PROVE  IInv'
    BY <1>3, StartMainStep, DetectForMainStep, RereadMainStep, LookUpMainStep, CreateMainStep,
       StartScanStep, ReadFlagsStep, FinishScanStep, ListSchemasStep, ListObjectsStep, ListThrowsStep
<1>4. CASE ClearCaches \/ Detach \/ \E o \in Objects : Change(o)
    BY <1>4, ClearCachesStep, DetachStep, ChangeStep
<1>5. QED
    BY <1>1, <1>2, <1>3, <1>4 DEF Next

-----------------------------------------------------------------------------

\* The fields of the state, the history and the threads keep their types, and
\* the lock belongs to the thread that is inside DetectOracleVersion.
THEOREM StateTypeCorrect == Spec => []TypeOK
<1>1. IInv => TypeOK
    BY DEF IInv
<1>2. QED
    BY InitIInv, NextIInv, <1>1, PTL DEF Spec

\* The unlocked look at version_detected is good enough: no scan is built with
\* flags that DetectOracleVersion has not yet filled in.
THEOREM VersionSeen == Spec => []ScanSeesVersion
<1>1. IInv => ScanSeesVersion
    BY DEF IInv
<1>2. QED
    BY InitIInv, NextIInv, <1>1, PTL DEF Spec

\* "main" is the login's current schema, unless detection failed or a clear
\* came between detection and second look (oracle_schema_entry.cpp:97).
THEOREM MainCorrect == Spec => []MainIsCurrent
<1>1. IInv => MainIsCurrent
    BY DEF IInv
<1>2. QED
    BY InitIInv, NextIInv, <1>1, PTL DEF Spec

\* "main" is listed only with the schema it stands for.
THEOREM MainListed == Spec => []MainListedForCurrent
<1>1. IInv => MainListedForCurrent
    BY DEF IInv
<1>2. QED
    BY InitIInv, NextIInv, <1>1, PTL DEF Spec

\* After oracle_clear_cache no list from before it is served: none with an object
\* that has not existed since, and none that lacks one that has existed ever
\* since, but for the limit, for any number of objects and any limit.
THEOREM ClearCorrect == Spec => []ClearShowsObjects
<1>1. IInv => ClearShowsObjects
    BY DEF IInv
<1>2. QED
    BY InitIInv, NextIInv, <1>1, PTL DEF Spec
=============================================================================
