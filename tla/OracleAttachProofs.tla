-------------------------- MODULE OracleAttachProofs --------------------------
(***************************************************************************)
(* Proofs about OracleAttach, for any DuckDB instances, aliases, strings   *)
(* and states, and any number of ATTACH statements in progress.            *)
(***************************************************************************)
EXTENDS OracleAttach, TLAPS

\* What each step of ATTACH leaves behind for the next.
ProgressOK ==
    \A d \in Databases :
        /\ pc[d] \in {"storing", "connecting", "managing", "attached"} => cat[d] # None
        /\ pc[d] # "detached" => want[d] # None
        /\ pc[d] \in {"connecting", "managing"} => info[d[1]] # None

\* What somebody points to is alive, and what is alive is registered.
PointersOK ==
    /\ \A i \in Instances : Alive(info[i]) \/ info[i] = None
    /\ \A d \in Databases : /\ Alive(cat[d]) \/ cat[d] = None
                            /\ Alive(mgr[d]) \/ mgr[d] = None
    /\ \A s \in States : connStr[s] # None => s \in registry

\* Names are entered with states that were made; while the state lives, its
\* string is the one the name was entered with.
NamesOK ==
    \A a \in Aliases :
        /\ aliasMap[a] # None => aliasMap[a] \in made
        /\ Alive(aliasMap[a]) => connStr[aliasMap[a]] = named[a]

\* A database that entered its name has made its state and keeps it.
EnteredOK ==
    \A d \in entered :
        /\ pc[d] \notin {"detached", "creating"}
        /\ Alive(cat[d]) /\ aliasMap[d[2]] = cat[d] /\ connStr[cat[d]] = want[d]

\* An ATTACH that overlaps no other finds in the info what its catalog has.
AloneOK ==
    \A d \in alone :
        /\ d \in InProgress =>
               \A e \in InProgress : e[1] = d[1] => e = d
        /\ pc[d] \in {"connecting", "managing"} => info[d[1]] = cat[d]
        /\ pc[d] = "attached" => mgr[d] = cat[d]

IInv ==
    /\ TypeOK
    /\ NoFallbackManager
    /\ ProgressOK
    /\ PointersOK
    /\ NamesOK
    /\ EnteredOK
    /\ AloneOK

-----------------------------------------------------------------------------

\* Destroying the states nobody points to leaves the others as they are.
LEMMA DestructFacts ==
    ASSUME TypeOK, Destruct
    PROVE  /\ connStr' \in [States -> ConnStrings \cup {None}]
           /\ \A s \in States : connStr'[s] \in {connStr[s], None}
           /\ \A i \in Instances : info'[i] \in States => connStr'[info'[i]] = connStr[info'[i]]
           /\ \A d \in Databases : cat'[d] \in States => connStr'[cat'[d]] = connStr[cat'[d]]
           /\ \A d \in Databases : mgr'[d] \in States => connStr'[mgr'[d]] = connStr[mgr'[d]]
    BY DEF TypeOK, Destruct

\* The two parts of a database are its instance and its alias.
LEMMA DatabaseParts ==
    \A d \in Databases : d[1] \in Instances /\ d[2] \in Aliases
    BY DEF Databases

\* States that die take their names along.
LEMMA NamesStay ==
    ASSUME TypeOK, NamesOK, UNCHANGED <<aliasMap, made, named>>,
           \A s \in States : connStr'[s] \in {connStr[s], None}
    PROVE  NamesOK'
<1>1. ASSUME NEW a \in Aliases, aliasMap[a] # None
      PROVE  aliasMap[a] \in States
    BY <1>1 DEF TypeOK
<1>2. QED
    BY <1>1 DEF NamesOK, Alive

\* A database that keeps its state keeps its name.
LEMMA EnteredStay ==
    ASSUME EnteredOK, UNCHANGED aliasMap, entered' \subseteq entered,
           \A e \in entered' : /\ want'[e] = want[e] /\ cat'[e] = cat[e]
                               /\ pc'[e] \notin {"detached", "creating"}
                               /\ connStr'[cat[e]] = connStr[cat[e]]
    PROVE  EnteredOK'
    BY DEF EnteredOK, Alive

\* The state of a catalog survives a step that leaves the catalog its state.
LEMMA CatalogKeepsState ==
    ASSUME TypeOK, EnteredOK, Destruct
    PROVE  \A e \in entered : cat'[e] = cat[e] => connStr'[cat[e]] = connStr[cat[e]]
<1> SUFFICES ASSUME NEW e \in entered, cat'[e] = cat[e]
             PROVE  connStr'[cat[e]] = connStr[cat[e]]
    OBVIOUS
<1>1. e \in Databases /\ cat[e] \in States
    BY DEF TypeOK, EnteredOK, Alive
<1>2. QED
    BY <1>1, DestructFacts

\* The first state satisfies the invariant.
LEMMA InitIInv == Init => IInv
<1> SUFFICES ASSUME Init PROVE IInv
    OBVIOUS
<1>1. TypeOK
    BY DEF Init, TypeOK, PcValues
<1>2. AloneOK
    BY DEF Init, AloneOK
<1>3. QED
    BY <1>1, <1>2 DEF Init, IInv, NoFallbackManager, ProgressOK, PointersOK, NamesOK,
                      EnteredOK, Alive

\* Reading the info.
LEMMA ReadInfoStep ==
    ASSUME IInv, NEW d \in Databases, NEW s \in ConnStrings, ReadInfo(d, s)
    PROVE  IInv'
<1> USE DatabaseParts, AttachAssumption DEF IInv
<1>1. TypeOK'
    BY DEF ReadInfo, TypeOK, Goto, PcValues, NoteOverlap, InProgress
<1>2. NoFallbackManager' /\ ProgressOK'
    BY DEF ReadInfo, TypeOK, Goto, NoFallbackManager, ProgressOK
<1>3. PointersOK'
    BY DEF ReadInfo, TypeOK, PointersOK, Alive
<1>4. NamesOK' /\ EnteredOK'
    <2>1. UNCHANGED <<aliasMap, made, named, connStr, entered>> /\ pc[d] = "detached"
        BY DEF ReadInfo
    <2>2. \A e \in entered : e \in Databases /\ e # d
        BY <2>1 DEF TypeOK, EnteredOK
    <2>3. \A e \in entered : want'[e] = want[e] /\ cat'[e] = cat[e] /\ pc'[e] = pc[e]
        BY <2>2 DEF ReadInfo, Goto, TypeOK
    <2>4. QED
        BY <2>1, <2>3, NamesStay, EnteredStay DEF EnteredOK
<1>5. AloneOK'
    BY DEF ReadInfo, TypeOK, Goto, AloneOK, NoteOverlap, InProgress, PcValues
<1>6. QED
    BY <1>1, <1>2, <1>3, <1>4, <1>5

\* Making a state.
LEMMA CreateStateStep ==
    ASSUME IInv, NEW d \in Databases, NEW s \in States, CreateState(d, s)
    PROVE  IInv'
<1> USE DatabaseParts, AttachAssumption DEF IInv
<1>1. TypeOK'
    <2>1. named' \in [Aliases -> ConnStrings \cup {None}] /\ entered' \subseteq Databases
        BY DEF CreateState, NoteEntry, TypeOK
    <2>2. QED
        BY <2>1 DEF CreateState, TypeOK, Goto, PcValues
<1>2. NoFallbackManager' /\ ProgressOK'
    BY DEF CreateState, TypeOK, Goto, NoFallbackManager, ProgressOK
<1>3. PointersOK'
    BY DEF CreateState, TypeOK, PointersOK, Alive, ProgressOK
<1>4. NamesOK' /\ EnteredOK'
    <2>1. /\ pc[d] = "creating" /\ s \notin made /\ s # None /\ want[d] # None
          /\ made' = made \cup {s} /\ want' = want
          /\ connStr' = [connStr EXCEPT ![s] = want[d]]
          /\ cat' = [cat EXCEPT ![d] = s]
          /\ aliasMap' = [aliasMap EXCEPT ![d[2]] = s]
          /\ named' = [named EXCEPT ![d[2]] = want[d]]
          /\ entered' = {e \in entered : e[2] # d[2]} \cup {d}
          /\ pc' = [pc EXCEPT ![d] = "storing"]
        BY DEF CreateState, NoteEntry, Goto, ProgressOK
    <2>2. connStr'[s] = want[d] /\ cat'[d] = s /\ pc'[d] = "storing"
              /\ aliasMap'[d[2]] = s /\ named'[d[2]] = want[d]
        BY <2>1 DEF TypeOK
    <2>3. \A t \in States : t # s => connStr'[t] = connStr[t]
        BY <2>1 DEF TypeOK
    <2>4. ASSUME NEW a \in Aliases
          PROVE  /\ aliasMap'[a] # None => aliasMap'[a] \in made'
                 /\ aliasMap'[a] # None /\ connStr'[aliasMap'[a]] # None
                        => connStr'[aliasMap'[a]] = named'[a]
        <3>1. CASE a = d[2]
            BY <2>1, <2>2, <3>1
        <3>2. CASE a # d[2]
            <4>1. aliasMap'[a] = aliasMap[a] /\ named'[a] = named[a]
                BY <2>1, <3>2 DEF TypeOK
            <4>2. aliasMap[a] # None => aliasMap[a] \in made /\ aliasMap[a] \in States
                                            /\ aliasMap[a] # s
                BY <2>1 DEF NamesOK, TypeOK
            <4>3. QED
                BY <2>1, <2>3, <4>1, <4>2 DEF NamesOK, Alive
        <3>3. QED
            BY <3>1, <3>2
    <2>5. NamesOK'
        BY <2>4 DEF NamesOK, Alive
    <2>6. ASSUME NEW e \in entered'
          PROVE  /\ pc'[e] \notin {"detached", "creating"}
                 /\ cat'[e] # None /\ connStr'[cat'[e]] # None
                 /\ aliasMap'[e[2]] = cat'[e] /\ connStr'[cat'[e]] = want'[e]
        <3>1. CASE e = d
            BY <2>1, <2>2, <3>1
        <3>2. CASE e # d
            <4>1. e \in entered /\ e[2] # d[2] /\ e \in Databases /\ e[2] \in Aliases
                BY <2>1, <3>2 DEF TypeOK
            <4>2. /\ pc[e] \notin {"detached", "creating"} /\ cat[e] # None
                  /\ connStr[cat[e]] # None /\ aliasMap[e[2]] = cat[e]
                  /\ connStr[cat[e]] = want[e]
                BY <4>1 DEF EnteredOK, Alive
            <4>3. pc'[e] = pc[e] /\ cat'[e] = cat[e] /\ aliasMap'[e[2]] = aliasMap[e[2]]
                BY <2>1, <3>2, <4>1 DEF TypeOK
            <4>4. cat[e] \in made /\ cat[e] \in States
                BY <4>1, <4>2 DEF NamesOK, TypeOK
            <4>5. QED
                BY <2>1, <2>3, <4>2, <4>3, <4>4
        <3>3. QED
            BY <3>1, <3>2
    <2>7. QED
        BY <2>5, <2>6 DEF EnteredOK, Alive
<1>5. AloneOK'
    BY DEF CreateState, TypeOK, Goto, AloneOK, InProgress, PcValues
<1>6. QED
    BY <1>1, <1>2, <1>3, <1>4, <1>5

\* Storing it in the info.
LEMMA StoreInfoStep ==
    ASSUME IInv, NEW d \in Databases, StoreInfo(d)
    PROVE  IInv'
<1> USE DatabaseParts, AttachAssumption DEF IInv
<1>0. Destruct
    BY DEF StoreInfo
<1>1. TypeOK'
    BY <1>0, DestructFacts DEF StoreInfo, TypeOK, Goto, PcValues
<1>2. NoFallbackManager' /\ ProgressOK'
    BY DEF StoreInfo, TypeOK, Goto, NoFallbackManager, ProgressOK
<1>3. PointersOK'
    BY <1>0, DestructFacts DEF StoreInfo, TypeOK, PointersOK, Alive
<1>4. NamesOK' /\ EnteredOK'
    <2>1. UNCHANGED <<aliasMap, made, named, entered, want, cat>>
        BY DEF StoreInfo
    <2>2. \A e \in entered : pc'[e] \notin {"detached", "creating"}
        BY DEF StoreInfo, Goto, TypeOK, EnteredOK
    <2>3. QED
        BY <1>0, <2>1, <2>2, DestructFacts, CatalogKeepsState, NamesStay, EnteredStay
<1>5. AloneOK'
    BY DEF StoreInfo, TypeOK, Goto, AloneOK, InProgress, PcValues
<1>6. QED
    BY <1>1, <1>2, <1>3, <1>4, <1>5

\* Initialize connects.
LEMMA ConnectStep ==
    ASSUME IInv, NEW d \in Databases, Connect(d)
    PROVE  IInv'
<1> USE DatabaseParts, AttachAssumption DEF IInv
<1>1. TypeOK'
    BY DEF Connect, TypeOK, Goto, PcValues
<1>2. NoFallbackManager' /\ ProgressOK'
    BY DEF Connect, TypeOK, Goto, NoFallbackManager, ProgressOK
<1>3. PointersOK' /\ NamesOK' /\ EnteredOK'
    <2>1. UNCHANGED <<aliasMap, made, named, entered, connStr, want, cat>>
        BY DEF Connect
    <2>2. \A e \in entered : pc'[e] \notin {"detached", "creating"}
        BY DEF Connect, Goto, TypeOK, EnteredOK
    <2>3. NamesOK' /\ EnteredOK'
        BY <2>1, <2>2, NamesStay, EnteredStay
    <2>4. PointersOK'
        BY DEF Connect, TypeOK, PointersOK, Alive
    <2>5. QED
        BY <2>3, <2>4
<1>4. AloneOK'
    BY DEF Connect, TypeOK, Goto, AloneOK, InProgress, PcValues
<1>5. QED
    BY <1>1, <1>2, <1>3, <1>4

\* Initialize throws.
LEMMA ConnectFailsStep ==
    ASSUME IInv, NEW d \in Databases, ConnectFails(d)
    PROVE  IInv'
<1> USE DatabaseParts, AttachAssumption DEF IInv
<1>0. Destruct
    BY DEF ConnectFails
<1>1. TypeOK'
    BY <1>0, DestructFacts DEF ConnectFails, TypeOK, Goto, PcValues
<1>2. NoFallbackManager' /\ ProgressOK'
    BY DEF ConnectFails, TypeOK, Goto, NoFallbackManager, ProgressOK
<1>3. PointersOK'
    BY <1>0, DestructFacts DEF ConnectFails, TypeOK, PointersOK, Alive
<1>4. NamesOK' /\ EnteredOK'
    <2>1. UNCHANGED <<aliasMap, made, named>> /\ entered' = entered \ {d}
        BY DEF ConnectFails
    <2>2. \A e \in entered' : /\ e \in entered /\ want'[e] = want[e] /\ cat'[e] = cat[e]
                             /\ pc'[e] \notin {"detached", "creating"}
        BY <2>1 DEF ConnectFails, Goto, TypeOK, EnteredOK
    <2>3. QED
        BY <1>0, <2>1, <2>2, DestructFacts, CatalogKeepsState, NamesStay, EnteredStay
<1>5. AloneOK'
    BY DEF ConnectFails, TypeOK, Goto, AloneOK, InProgress, PcValues
<1>6. QED
    BY <1>1, <1>2, <1>3, <1>4, <1>5

\* The transaction manager is made from the info.
LEMMA CreateTransactionManagerStep ==
    ASSUME IInv, NEW d \in Databases, CreateTransactionManager(d)
    PROVE  IInv'
<1> USE DatabaseParts, AttachAssumption DEF IInv
<1>1. TypeOK'
    BY DEF CreateTransactionManager, TypeOK, Goto, PcValues
<1>2. NoFallbackManager' /\ ProgressOK'
    BY DEF CreateTransactionManager, TypeOK, Goto, NoFallbackManager, ProgressOK
<1>3. PointersOK' /\ NamesOK' /\ EnteredOK'
    <2>1. UNCHANGED <<aliasMap, made, named, entered, connStr, want, cat>>
        BY DEF CreateTransactionManager
    <2>2. \A e \in entered : pc'[e] \notin {"detached", "creating"}
        BY DEF CreateTransactionManager, Goto, TypeOK, EnteredOK
    <2>3. NamesOK' /\ EnteredOK'
        BY <2>1, <2>2, NamesStay, EnteredStay
    <2>4. PointersOK'
        BY DEF CreateTransactionManager, TypeOK, PointersOK, Alive
    <2>5. QED
        BY <2>3, <2>4
<1>4. AloneOK'
    BY DEF CreateTransactionManager, TypeOK, Goto, AloneOK, InProgress, PcValues
<1>5. QED
    BY <1>1, <1>2, <1>3, <1>4

\* A database is detached.
LEMMA DetachStep ==
    ASSUME IInv, NEW d \in Databases, Detach(d)
    PROVE  IInv'
<1> USE DatabaseParts, AttachAssumption DEF IInv
<1>0. Destruct
    BY DEF Detach
<1>1. TypeOK'
    BY <1>0, DestructFacts DEF Detach, TypeOK, Goto, PcValues
<1>2. NoFallbackManager' /\ ProgressOK'
    BY DEF Detach, TypeOK, Goto, NoFallbackManager, ProgressOK
<1>3. PointersOK'
    BY <1>0, DestructFacts DEF Detach, TypeOK, PointersOK, Alive
<1>4. NamesOK' /\ EnteredOK'
    <2>1. UNCHANGED <<aliasMap, made, named>> /\ entered' = entered \ {d}
        BY DEF Detach
    <2>2. \A e \in entered' : /\ e \in entered /\ want'[e] = want[e] /\ cat'[e] = cat[e]
                             /\ pc'[e] \notin {"detached", "creating"}
        BY <2>1 DEF Detach, Goto, TypeOK, EnteredOK
    <2>3. QED
        BY <1>0, <2>1, <2>2, DestructFacts, CatalogKeepsState, NamesStay, EnteredStay
<1>5. AloneOK'
    BY DEF Detach, TypeOK, Goto, AloneOK, InProgress, PcValues
<1>6. QED
    BY <1>1, <1>2, <1>3, <1>4, <1>5

\* An instance is closed with all its databases.
LEMMA CloseInstanceStep ==
    ASSUME IInv, NEW i \in Instances, CloseInstance(i)
    PROVE  IInv'
<1> USE DatabaseParts, AttachAssumption DEF IInv
<1>0. Destruct
    BY DEF CloseInstance
<1>1. TypeOK'
    BY <1>0, DestructFacts DEF CloseInstance, TypeOK, PcValues
<1>2. NoFallbackManager' /\ ProgressOK'
    BY DEF CloseInstance, TypeOK, NoFallbackManager, ProgressOK
<1>3. PointersOK'
    BY <1>0, DestructFacts DEF CloseInstance, TypeOK, PointersOK, Alive
<1>4. NamesOK' /\ EnteredOK'
    <2>1. UNCHANGED <<aliasMap, made, named>> /\ entered' = {e \in entered : e[1] # i}
        BY DEF CloseInstance
    <2>2. \A e \in entered' : /\ e \in entered /\ want'[e] = want[e] /\ cat'[e] = cat[e]
                             /\ pc'[e] \notin {"detached", "creating"}
        BY <2>1 DEF CloseInstance, TypeOK, EnteredOK
    <2>3. QED
        BY <1>0, <2>1, <2>2, DestructFacts, CatalogKeepsState, NamesStay, EnteredStay
<1>5. AloneOK'
    BY DEF CloseInstance, TypeOK, AloneOK, InProgress, PcValues
<1>6. QED
    BY <1>1, <1>2, <1>3, <1>4, <1>5

\* Dead entries of a registry are erased.
LEMMA RegistryStep ==
    ASSUME IInv, ClearAllCaches \/ \E a \in Aliases : LookupByAlias(a)
    PROVE  IInv'
<1> USE AttachAssumption DEF IInv
<1>1. TypeOK' /\ PointersOK' /\ NamesOK' /\ EnteredOK'
    <2>1. CASE ClearAllCaches
        BY <2>1 DEF ClearAllCaches, TypeOK, PointersOK, NamesOK, EnteredOK, Alive
    <2>2. CASE \E a \in Aliases : LookupByAlias(a)
        <3>1. TypeOK' /\ PointersOK'
            BY <2>2 DEF LookupByAlias, TypeOK, PointersOK, Alive
        <3>2. UNCHANGED <<connStr, made, pc, want, cat, named, entered>>
            BY <2>2 DEF LookupByAlias
        <3>3. \A b \in Aliases : /\ aliasMap'[b] \in {aliasMap[b], None}
                                 /\ Alive(aliasMap[b]) => aliasMap'[b] = aliasMap[b]
            BY <2>2 DEF LookupByAlias, TypeOK
        <3>4. NamesOK'
            BY <3>2, <3>3 DEF NamesOK, Alive
        <3>5. \A d \in entered : d[2] \in Aliases
            BY DatabaseParts DEF TypeOK
        <3>6. EnteredOK'
            BY <3>2, <3>3, <3>5 DEF EnteredOK, Alive
        <3>7. QED
            BY <3>1, <3>4, <3>6
    <2>3. QED
        BY <2>1, <2>2
<1>2. UNCHANGED <<info, pc, want, cat, mgr, alone>>
    BY DEF ClearAllCaches, LookupByAlias
<1>3. NoFallbackManager' /\ ProgressOK' /\ AloneOK'
    BY <1>2 DEF NoFallbackManager, ProgressOK, AloneOK, InProgress
<1>4. QED
    BY <1>1, <1>3

\* No step breaks the invariant.
LEMMA NextIInv == IInv /\ [Next]_vars => IInv'
<1> SUFFICES ASSUME IInv, [Next]_vars PROVE IInv'
    OBVIOUS
<1>1. ASSUME NEW d \in Databases, NEW s \in ConnStrings, ReadInfo(d, s) PROVE IInv'
    BY <1>1, ReadInfoStep
<1>2. ASSUME NEW d \in Databases, NEW s \in States, CreateState(d, s) PROVE IInv'
    BY <1>2, CreateStateStep
<1>3. ASSUME NEW d \in Databases,
             StoreInfo(d) \/ Connect(d) \/ ConnectFails(d)
                \/ CreateTransactionManager(d) \/ Detach(d)
      PROVE  IInv'
    BY <1>3, StoreInfoStep, ConnectStep, ConnectFailsStep, CreateTransactionManagerStep,
       DetachStep
<1>4. ASSUME NEW i \in Instances, CloseInstance(i) PROVE IInv'
    BY <1>4, CloseInstanceStep
<1>5. CASE ClearAllCaches \/ \E a \in Aliases : LookupByAlias(a)
    BY <1>5, RegistryStep
<1>6. CASE UNCHANGED vars
    BY <1>6 DEF vars, IInv, TypeOK, NoFallbackManager, ProgressOK, PointersOK, NamesOK,
                EnteredOK, AloneOK, InProgress, Alive
<1>7. QED
    BY <1>1, <1>2, <1>3, <1>4, <1>5, <1>6 DEF Next

-----------------------------------------------------------------------------

\* The variables of the attach model keep their types: registries, infos and
\* databases only ever hold states that were made.
THEOREM AttachTypeCorrect == Spec => []TypeOK
<1>1. IInv => TypeOK
    BY DEF IInv
<1>2. QED
    BY InitIInv, NextIInv, <1>1, PTL DEF Spec

\* oracle_clear_cache reaches the state of every catalog: the weak pointers of
\* Registry() outlive no catalog's use of a state, for any number of instances
\* and overlapping ATTACH statements.
THEOREM CatalogsRegistered == Spec => []EveryCatalogIsRegistered
<1>1. IInv => EveryCatalogIsRegistered
    BY DEF IInv, EveryCatalogIsRegistered, PointersOK, TypeOK, Alive
<1>2. QED
    BY InitIInv, NextIInv, <1>1, PTL DEF Spec

\* LookupByAlias finds the string with which the alias was last entered, if any,
\* and the state of the database that entered it, as long as that is attached and
\* no other has entered the alias since: for any number of instances, aliases,
\* strings and overlapping ATTACH statements.
THEOREM AliasResolves == Spec => []AliasResolvesToItsAttach
<1>1. IInv => AliasResolvesToItsAttach
    BY DEF IInv, NamesOK, EnteredOK, AliasResolvesToItsAttach
<1>2. QED
    BY InitIInv, NextIInv, <1>1, PTL DEF Spec

\* OracleCreateTransactionManager never finds an empty info.
THEOREM NoFallback == Spec => []NoFallbackManager
<1>1. IInv => NoFallbackManager
    BY DEF IInv
<1>2. QED
    BY InitIInv, NextIInv, <1>1, PTL DEF Spec

\* Catalog and transaction manager agree on the state, unless another ATTACH
\* of the instance was in progress.
THEOREM CatalogManagerAgree == Spec => []CatalogAndManagerAgree
<1>1. IInv => CatalogAndManagerAgree
    BY DEF IInv, AloneOK, CatalogAndManagerAgree
<1>2. QED
    BY InitIInv, NextIInv, <1>1, PTL DEF Spec
=============================================================================
