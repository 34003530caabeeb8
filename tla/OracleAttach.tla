----------------------------- MODULE OracleAttach -----------------------------
(***************************************************************************)
(* Attached Oracle databases and the states behind them.  ATTACH finds its *)
(* OracleCatalogState in the storage extension's info, one per DuckDB      *)
(* instance, or makes it and enters it in two registries of the process:   *)
(* the list that oracle_clear_cache walks, and the alias map with which    *)
(* oracle_query and oracle_execute resolve a name.  Both hold weak         *)
(* pointers: an entry whose state is gone is dropped when it is met.       *)
(*                                                                         *)
(* DuckDB runs ATTACH statements of several connections side by side, and  *)
(* nothing in the extension locks the info; MaxOverlap says how many may   *)
(* be in progress.                                                         *)
(***************************************************************************)
EXTENDS Naturals, FiniteSets

CONSTANTS
    Instances,      \* DuckDB instances of the process
    Aliases,        \* names after AS, lower case
    ConnStrings,    \* connection strings
    States,         \* identities of OracleCatalogState objects, used once
    MaxOverlap,     \* ATTACH statements in progress at a time
    None            \* a null pointer

ASSUME AttachAssumption ==
    MaxOverlap \in Nat \ {0} /\ None \notin ConnStrings \cup States

\* A database attached to an instance, or being attached.
Databases == Instances \X Aliases

VARIABLES
    info,       \* [Instances -> States \cup {None}], OracleStorageInfo::state
    registry,   \* Registry(): the states entered in it
    aliasMap,   \* AliasRegistry(): [Aliases -> States \cup {None}]
    connStr,    \* [States -> ConnStrings \cup {None}], None: no such object
    made,       \* the identities that have been used
    pc,         \* [Databases -> where its ATTACH is]
    want,       \* [Databases -> the connection string its ATTACH asked for]
    cat,        \* [Databases -> the state of its OracleCatalog]
    mgr,        \* [Databases -> the state of its OracleTransactionManager]
    named,      \* [Aliases -> the string the alias was last entered with], history
    entered,    \* databases whose ATTACH entered their alias, no other since, history
    alone       \* databases whose ATTACH overlapped no other, history

vars == <<info, registry, aliasMap, connStr, made, pc, want, cat, mgr, named, entered, alone>>

PcValues == {"detached", "creating", "storing", "connecting", "managing", "attached"}

TypeOK ==
    /\ info \in [Instances -> States \cup {None}]
    /\ registry \subseteq made /\ made \subseteq States
    /\ aliasMap \in [Aliases -> States \cup {None}]
    /\ connStr \in [States -> ConnStrings \cup {None}]
    /\ pc \in [Databases -> PcValues]
    /\ want \in [Databases -> ConnStrings \cup {None}]
    /\ cat \in [Databases -> States \cup {None}]
    /\ mgr \in [Databases -> States \cup {None}]
    /\ named \in [Aliases -> ConnStrings \cup {None}]
    /\ entered \subseteq Databases
    /\ alone \subseteq Databases

Init ==
    /\ info = [i \in Instances |-> None]
    /\ registry = {}
    /\ aliasMap = [a \in Aliases |-> None]
    /\ connStr = [s \in States |-> None]
    /\ made = {}
    /\ pc = [d \in Databases |-> "detached"]
    /\ want = [d \in Databases |-> None]
    /\ cat = [d \in Databases |-> None]
    /\ mgr = [d \in Databases |-> None]
    /\ named = [a \in Aliases |-> None]
    /\ entered = {}
    /\ alone = {}

Alive(s) == s # None /\ connStr[s] # None

\* The last shared pointer to a state is gone: so is the state.
Destruct ==
    connStr' = [s \in States |->
        IF \/ \E i \in Instances : info'[i] = s
           \/ \E d \in Databases : cat'[d] = s \/ mgr'[d] = s
        THEN connStr[s] ELSE None]

Goto(d, label) == pc' = [pc EXCEPT ![d] = label]

InProgress == {d \in Databases : pc[d] \notin {"detached", "attached"}}

\* The ATTACH of d starts: does it overlap another one of its instance?
NoteOverlap(d) ==
    LET others == {e \in InProgress : e[1] = d[1]}
    IN  alone' = IF others = {} THEN alone \cup {d} ELSE alone \ (others \cup {d})

\* The ATTACH of d enters its alias, which any other database loses.
NoteEntry(d) ==
    /\ named' = [named EXCEPT ![d[2]] = want[d]]
    /\ entered' = {e \in entered : e[2] # d[2]} \cup {d}

-----------------------------------------------------------------------------
(* ATTACH                                                                  *)

\* Mutant of ReadInfo: the alias is taken for the connection string.
ReadInfoSwapped(d, s) ==
    /\ pc[d] = "detached"
    /\ Cardinality(InProgress) < MaxOverlap
    /\ want' = [want EXCEPT ![d] = d[2]]
    /\ cat' = [cat EXCEPT ![d] = info[d[1]]]
    /\ Goto(d, IF info[d[1]] = None THEN "creating" ELSE "connecting")
    /\ NoteOverlap(d)
    /\ UNCHANGED <<info, registry, aliasMap, connStr, made, mgr, named, entered>>

\* OracleAttach resolves path or secret to a connection string and reads the
\* info.  A state that is there is taken, whatever its connection string.
ReadInfo(d, s) ==
    /\ pc[d] = "detached"
    /\ Cardinality(InProgress) < MaxOverlap
    /\ want' = [want EXCEPT ![d] = s]
    /\ cat' = [cat EXCEPT ![d] = info[d[1]]]
    /\ Goto(d, IF info[d[1]] = None THEN "creating" ELSE "connecting")
    /\ NoteOverlap(d)
    /\ UNCHANGED <<info, registry, aliasMap, connStr, made, mgr, named, entered>>

\* Mutant of CreateState: only the alias is registered.
CreateStateAliasOnly(d, s) ==
    /\ pc[d] = "creating"
    /\ s \notin made
    /\ made' = made \cup {s}
    /\ connStr' = [connStr EXCEPT ![s] = want[d]]
    /\ cat' = [cat EXCEPT ![d] = s]
    /\ aliasMap' = [aliasMap EXCEPT ![d[2]] = s]
    /\ Goto(d, "storing")
    /\ NoteEntry(d)
    /\ UNCHANGED <<info, registry, want, mgr, alone>>

\* Otherwise a state is made and registered, the alias with it, ...
CreateState(d, s) ==
    /\ pc[d] = "creating"
    /\ s \notin made
    /\ made' = made \cup {s}
    /\ connStr' = [connStr EXCEPT ![s] = want[d]]
    /\ cat' = [cat EXCEPT ![d] = s]
    /\ registry' = registry \cup {s}
    /\ aliasMap' = [aliasMap EXCEPT ![d[2]] = s]
    /\ Goto(d, "storing")
    /\ NoteEntry(d)
    /\ UNCHANGED <<info, want, mgr, alone>>

\* Mutant of StoreInfo: the info is not told of the new state.
StoreInfoOmitted(d) ==
    /\ pc[d] = "storing"
    /\ Goto(d, "connecting")
    /\ UNCHANGED <<info, registry, aliasMap, connStr, made, want, cat, mgr, named, entered, alone>>

\* ... and stored in the info.
StoreInfo(d) ==
    /\ pc[d] = "storing"
    /\ info' = [info EXCEPT ![d[1]] = cat[d]]
    /\ Goto(d, "connecting")
    /\ UNCHANGED <<registry, aliasMap, made, want, cat, mgr, named, entered, alone>>
    /\ Destruct

\* OracleCatalog::Initialize connects and detects schema and version.
Connect(d) ==
    /\ pc[d] = "connecting"
    /\ Goto(d, "managing")
    /\ UNCHANGED <<info, registry, aliasMap, connStr, made, want, cat, mgr, named, entered, alone>>

\* Mutant of ConnectFails: the info forgets the state that failed.
ConnectFailsResetsInfo(d) ==
    /\ pc[d] = "connecting"
    /\ Goto(d, "detached")
    /\ info' = [info EXCEPT ![d[1]] = None]
    /\ want' = [want EXCEPT ![d] = None]
    /\ cat' = [cat EXCEPT ![d] = None]
    /\ entered' = entered \ {d}
    /\ UNCHANGED <<registry, aliasMap, made, mgr, named, alone>>
    /\ Destruct

\* It throws: ATTACH fails, and what it stored in the info stays there.
ConnectFails(d) ==
    /\ pc[d] = "connecting"
    /\ Goto(d, "detached")
    /\ want' = [want EXCEPT ![d] = None]
    /\ cat' = [cat EXCEPT ![d] = None]
    /\ entered' = entered \ {d}
    /\ UNCHANGED <<info, registry, aliasMap, made, mgr, named, alone>>
    /\ Destruct

\* OracleCreateTransactionManager reads the info a second time.
CreateTransactionManager(d) ==
    /\ pc[d] = "managing"
    /\ mgr' = [mgr EXCEPT ![d] = info[d[1]]]
    /\ Goto(d, "attached")
    /\ UNCHANGED <<info, registry, aliasMap, connStr, made, want, cat, named, entered, alone>>

-----------------------------------------------------------------------------
(* The other operations                                                    *)

Detach(d) ==
    /\ pc[d] = "attached"
    /\ Goto(d, "detached")
    /\ want' = [want EXCEPT ![d] = None]
    /\ cat' = [cat EXCEPT ![d] = None]
    /\ mgr' = [mgr EXCEPT ![d] = None]
    /\ entered' = entered \ {d}
    /\ UNCHANGED <<info, registry, aliasMap, made, named, alone>>
    /\ Destruct

\* The DuckDB instance is closed, and its storage extensions with it.
CloseInstance(i) ==
    LET Gone(d) == d[1] = i
    IN  /\ info[i] # None
        /\ \A d \in InProgress : ~Gone(d)
        /\ info' = [info EXCEPT ![i] = None]
        /\ pc' = [d \in Databases |-> IF Gone(d) THEN "detached" ELSE pc[d]]
        /\ want' = [d \in Databases |-> IF Gone(d) THEN None ELSE want[d]]
        /\ cat' = [d \in Databases |-> IF Gone(d) THEN None ELSE cat[d]]
        /\ mgr' = [d \in Databases |-> IF Gone(d) THEN None ELSE mgr[d]]
        /\ entered' = {d \in entered : ~Gone(d)}
        /\ UNCHANGED <<registry, aliasMap, made, named, alone>>
        /\ Destruct

\* ClearAllCaches, as far as the registry goes: dead entries are erased.
ClearAllCaches ==
    /\ registry' = {s \in registry : Alive(s)}
    /\ UNCHANGED <<info, aliasMap, connStr, made, pc, want, cat, mgr, named, entered, alone>>

\* Mutant of LookupByAlias: an expired entry is replaced by any live state.
LookupByAliasFallsBack(a) ==
    /\ aliasMap[a] # None
    /\ IF Alive(aliasMap[a]) THEN UNCHANGED aliasMap
       ELSE \E s \in registry : Alive(s) /\ aliasMap' = [aliasMap EXCEPT ![a] = s]
    /\ UNCHANGED <<info, registry, connStr, made, pc, want, cat, mgr, named, entered, alone>>

\* LookupByAlias: an expired entry is erased.
LookupByAlias(a) ==
    /\ aliasMap[a] # None
    /\ aliasMap' = [aliasMap EXCEPT ![a] = IF Alive(aliasMap[a]) THEN @ ELSE None]
    /\ UNCHANGED <<info, registry, connStr, made, pc, want, cat, mgr, named, entered, alone>>

Next ==
    \/ \E d \in Databases :
           \/ \E s \in ConnStrings : ReadInfo(d, s)
           \/ \E s \in States : CreateState(d, s)
           \/ StoreInfo(d)
           \/ Connect(d)
           \/ ConnectFails(d)
           \/ CreateTransactionManager(d)
           \/ Detach(d)
    \/ \E i \in Instances : CloseInstance(i)
    \/ ClearAllCaches
    \/ \E a \in Aliases : LookupByAlias(a)

Spec == Init /\ [][Next]_vars

-----------------------------------------------------------------------------
(* Correctness.                                                            *)

\* oracle_clear_cache reaches the state of every catalog, even of one whose
\* alias another instance has taken or whose info another ATTACH overwrote.
EveryCatalogIsRegistered ==
    \A d \in Databases : cat[d] # None => Alive(cat[d]) /\ cat[d] \in registry

\* An alias that resolves leads to the connection string of the ATTACH that last
\* entered it, and for a database whose own ATTACH did so to its catalog's state
\* and string, however detaching, closing, failing and looking names up interleave
\* (oracle_catalog.cpp:110, 133).  Who enters a name last is another matter: the map
\* belongs to the process, so an ATTACH of another instance takes the name over
\* (oracle_catalog.cpp:115), and an ATTACH that reuses its instance's state
\* enters no name at all (oracle_storage_extension.cpp:71).
AliasResolvesToItsAttach ==
    /\ \A a \in Aliases : Alive(aliasMap[a]) => connStr[aliasMap[a]] = named[a]
    /\ \A d \in entered : /\ Alive(cat[d]) /\ aliasMap[d[2]] = cat[d]
                          /\ connStr[cat[d]] = want[d]

\* An attached database has a transaction manager of its own kind: the info it
\* is made from is never empty when a catalog exists.
NoFallbackManager ==
    \A d \in Databases : pc[d] = "attached" => mgr[d] # None

\* Catalog and transaction manager of a database use one state, so a commit
\* goes where the queries went, if no other ATTACH of the same instance was in
\* progress with its own; those of other instances do not matter.
CatalogAndManagerAgree ==
    \A d \in alone : pc[d] = "attached" => mgr[d] = cat[d]

\* There is a "state per attached Oracle database": the catalog's queries go to
\* the database that its own ATTACH named.
AttachedUsesItsConnString ==
    \A d \in Databases : pc[d] = "attached" => connStr[cat[d]] = want[d]
=============================================================================
