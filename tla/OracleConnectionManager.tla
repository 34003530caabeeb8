----------------------- MODULE OracleConnectionManager -----------------------
(***************************************************************************)
(* The process-wide cache of Oracle sessions: OracleConnectionManager,     *)
(* OracleConnectionPool and OracleConnectionHandle.                        *)
(*                                                                         *)
(* A step of this module is one critical section of the code (a block that *)
(* holds manager_mutex or a pool's lock), or one call of CreateConnection, *)
(* which runs outside every lock.  Steps of different clients interleave   *)
(* freely, so a pool can be dropped from the map between the look-up and   *)
(* the lock of one call of Acquire.                                        *)
(*                                                                         *)
(* Shared pointers are modelled by reachability: a pool lives as long as   *)
(* the map or a client refers to it, and when the last reference goes, the *)
(* sessions in its idle list are closed in the same step.                  *)
(***************************************************************************)
EXTENDS Integers, Sequences, FiniteSets

CONSTANTS
    Clients,        \* users of connection handles: scans, writers, catalogs
    ConnStrings,    \* connection strings
    Pools,          \* identities of OracleConnectionPool objects
    Contexts,       \* identities of OracleContext objects (Oracle sessions)
    DefaultLimit,   \* OracleConnectionPool::limit of a new pool
    Limits,         \* values of OracleSettings::connection_limit
    None            \* a null pointer

ASSUME ClientsAssumption == IsFiniteSet(Clients)
ASSUME LimitsAssumption  == DefaultLimit \in Nat \ {0} /\ Limits \subseteq Nat \ {0}
ASSUME NoneAssumption    ==
    None \notin Clients \cup ConnStrings \cup Pools \cup Contexts

VARIABLES
    \* The manager.
    pools,      \* [ConnStrings -> Pools \cup {None}], the map of pools
    \* Each pool.
    idle,       \* [Pools -> Seq(Contexts)], a stack: the last one is reused
    total,      \* [Pools -> Nat], sessions and reserved slots
    limit,      \* [Pools -> Nat]
    \* Each client: the frame of Acquire, then the handle it returned.
    pc,         \* where the client is
    pool,       \* the pool it refers to
    ctx,        \* the session its handle owns
    req,        \* the connection string it asked for
    expired,    \* whether the deadline of its call has passed
    \* The Oracle server.
    opened      \* [Contexts -> ConnStrings \cup {None}], login of a session

mgrVars    == <<idle, total, limit>>
clientVars == <<pc, pool, ctx, req, expired>>
vars       == <<pools, idle, total, limit, pc, pool, ctx, req, expired, opened>>

PcValues == {"out",         \* no call, no handle
             "standalone",  \* in CreateConnection, cache disabled
             "entering",    \* has looked the pool up, wants its lock
             "creating",    \* in CreateConnection, slot reserved
             "waiting",     \* blocked on the condition variable
             "woken",       \* notified, wants the lock again
             "using"}       \* Acquire has returned a handle

TypeOK ==
    /\ pools \in [ConnStrings -> Pools \cup {None}]
    /\ idle \in [Pools -> Seq(Contexts)]
    /\ total \in [Pools -> Nat]
    /\ limit \in [Pools -> Nat]
    /\ pc \in [Clients -> PcValues]
    /\ pool \in [Clients -> Pools \cup {None}]
    /\ ctx \in [Clients -> Contexts \cup {None}]
    /\ req \in [Clients -> ConnStrings \cup {None}]
    /\ expired \in [Clients -> BOOLEAN]
    /\ opened \in [Contexts -> ConnStrings \cup {None}]

Init ==
    /\ pools = [s \in ConnStrings |-> None]
    /\ idle = [p \in Pools |-> <<>>]
    /\ total = [p \in Pools |-> 0]
    /\ limit = [p \in Pools |-> DefaultLimit]
    /\ pc = [t \in Clients |-> "out"]
    /\ pool = [t \in Clients |-> None]
    /\ ctx = [t \in Clients |-> None]
    /\ req = [t \in Clients |-> None]
    /\ expired = [t \in Clients |-> FALSE]
    /\ opened = [c \in Contexts |-> None]

-----------------------------------------------------------------------------
(* Reference counts and the condition variable.                            *)

Elements(stack) == {stack[i] : i \in 1..Len(stack)}

\* The pools the map or a client still points to.
Referenced(map, refs) == {map[s] : s \in ConnStrings} \cup {refs[t] : t \in Clients}

\* Mutant of Destruct: destroying a context does not end its session.
DestructWithoutSessionEnd(idles, totals, dropped) ==
    LET dead == Pools \ Referenced(pools', pool')
    IN  /\ idle'  = [p \in Pools |-> IF p \in dead THEN <<>> ELSE idles[p]]
        /\ total' = [p \in Pools |-> IF p \in dead THEN 0 ELSE totals[p]]
        /\ limit' = [p \in Pools |-> IF p \in dead THEN DefaultLimit ELSE limit[p]]
        /\ UNCHANGED opened

\* The end of a step that may have dropped references: idles and totals are
\* the pools' fields at that point.  The pools nobody points to any more are
\* destroyed, and ~OracleContext ends the session of everything in their idle
\* lists and of the contexts in "dropped".  A destroyed pool's fields get the
\* values the constructor gives them, so that its identity can be used again.
Destruct(idles, totals, dropped) ==
    LET dead   == Pools \ Referenced(pools', pool')
        closed == dropped \cup UNION {Elements(idles[p]) : p \in dead}
    IN  /\ idle'   = [p \in Pools |-> IF p \in dead THEN <<>> ELSE idles[p]]
        /\ total'  = [p \in Pools |-> IF p \in dead THEN 0 ELSE totals[p]]
        /\ limit'  = [p \in Pools |-> IF p \in dead THEN DefaultLimit ELSE limit[p]]
        /\ opened' = [c \in Contexts |-> IF c \in closed THEN None ELSE opened[c]]

Waiters(p) == {t \in Clients : pc[t] = "waiting" /\ pool[t] = p}

\* notify_one: the sets of clients it may wake.
NotifyOne(p) == IF Waiters(p) = {} THEN {{}} ELSE {{w} : w \in Waiters(p)}

\* The frame or the handle of t is gone, and the clients in woken are runnable.
Leave(t, woken) ==
    /\ pc' = [u \in Clients |-> IF u = t THEN "out"
                                ELSE IF u \in woken THEN "woken" ELSE pc[u]]
    /\ pool' = [pool EXCEPT ![t] = None]
    /\ ctx' = [ctx EXCEPT ![t] = None]
    /\ req' = [req EXCEPT ![t] = None]
    /\ expired' = [expired EXCEPT ![t] = FALSE]

-----------------------------------------------------------------------------
(* OracleConnectionManager::Acquire                                        *)

\* connection_cache is false: no pool is involved.
AcquireStandalone(t, s) ==
    /\ pc[t] = "out"
    /\ pc' = [pc EXCEPT ![t] = "standalone"]
    /\ req' = [req EXCEPT ![t] = s]
    /\ UNCHANGED <<pools, mgrVars, pool, ctx, expired, opened>>

\* Mutant of AcquireLookup: pools are shared between connection strings.
AcquireAnyPool(t, s) ==
    /\ pc[t] = "out"
    /\ \E p \in IF \E r \in ConnStrings : pools[r] # None
                THEN {pools[r] : r \in ConnStrings} \ {None}
                ELSE Pools \ Referenced(pools, pool) :
          /\ pools' = [pools EXCEPT ![s] = p]
          /\ pool' = [pool EXCEPT ![t] = p]
    /\ pc' = [pc EXCEPT ![t] = "entering"]
    /\ req' = [req EXCEPT ![t] = s]
    /\ UNCHANGED <<mgrVars, ctx, expired, opened>>

\* The deadline is taken and, under manager_mutex, the pool looked up or made.
AcquireLookup(t, s) ==
    /\ pc[t] = "out"
    /\ \E p \in IF pools[s] # None THEN {pools[s]}
                ELSE Pools \ Referenced(pools, pool) :
          /\ pools' = [pools EXCEPT ![s] = p]
          /\ pool' = [pool EXCEPT ![t] = p]
    /\ pc' = [pc EXCEPT ![t] = "entering"]
    /\ req' = [req EXCEPT ![t] = s]
    /\ UNCHANGED <<mgrVars, ctx, expired, opened>>

\* Mutant of TakeIdle: idle.back() without pop_back().
TakeIdleWithoutPop(t, p) ==
    /\ idle[p] # <<>>
    /\ ctx' = [ctx EXCEPT ![t] = idle[p][Len(idle[p])]]
    /\ pc' = [pc EXCEPT ![t] = "using"]
    /\ UNCHANGED <<idle, total>>

\* One round of the loop, under the pool's lock, when the limit is lim: take
\* the last idle session, ...
TakeIdle(t, p) ==
    /\ idle[p] # <<>>
    /\ ctx' = [ctx EXCEPT ![t] = idle[p][Len(idle[p])]]
    /\ idle' = [idle EXCEPT ![p] = SubSeq(idle[p], 1, Len(idle[p]) - 1)]
    /\ pc' = [pc EXCEPT ![t] = "using"]
    /\ UNCHANGED total

\* Mutant of ReserveSlot: off by one at the limit.
ReserveSlotBeyondLimit(t, p, lim) ==
    /\ idle[p] = <<>>
    /\ total[p] <= lim
    /\ total' = [total EXCEPT ![p] = total[p] + 1]
    /\ pc' = [pc EXCEPT ![t] = "creating"]
    /\ UNCHANGED <<idle, ctx>>

\* ... or reserve a slot and unlock to create a connection, ...
ReserveSlot(t, p, lim) ==
    /\ idle[p] = <<>>
    /\ total[p] < lim
    /\ total' = [total EXCEPT ![p] = total[p] + 1]
    /\ pc' = [pc EXCEPT ![t] = "creating"]
    /\ UNCHANGED <<idle, ctx>>

\* ... or wait.
WaitForSession(t, p, lim) ==
    /\ idle[p] = <<>>
    /\ total[p] >= lim
    /\ pc' = [pc EXCEPT ![t] = "waiting"]
    /\ UNCHANGED <<idle, total, ctx>>

TryOnce(t, p, lim) ==
    \/ TakeIdle(t, p)
    \/ ReserveSlot(t, p, lim)
    \/ WaitForSession(t, p, lim)

\* The caller's limit is applied to the pool: it is only ever raised.
RaisedLimit(p, lim) == IF lim > limit[p] THEN lim ELSE limit[p]

\* The pool is locked for the first time.
EnterPool(t, lim) ==
    /\ pc[t] = "entering"
    /\ limit' = [limit EXCEPT ![pool[t]] = RaisedLimit(pool[t], lim)]
    /\ TryOnce(t, pool[t], RaisedLimit(pool[t], lim))
    /\ UNCHANGED <<pools, pool, req, expired, opened>>

\* Mutant of Retry: every round of the loop waits for the full time again.
RetryWithNewDeadline(t) ==
    /\ pc[t] = "woken"
    /\ TryOnce(t, pool[t], limit[pool[t]])
    /\ expired' = [expired EXCEPT ![t] = FALSE]
    /\ UNCHANGED <<pools, limit, pool, req, opened>>

\* wait_until returned no_timeout: next round of the loop.
Retry(t) ==
    /\ pc[t] = "woken"
    /\ ~expired[t]
    /\ TryOnce(t, pool[t], limit[pool[t]])
    /\ UNCHANGED <<pools, limit, pool, req, expired, opened>>

\* Mutant of WaitTimesOut: a slot is given back that was never reserved.
WaitTimesOutFreesSlot(t) ==
    /\ pc[t] \in {"waiting", "woken"}
    /\ expired[t]
    /\ Leave(t, {})
    /\ UNCHANGED pools
    /\ Destruct(idle, [total EXCEPT ![pool[t]] = total[pool[t]] - 1], {})

\* wait_until returned timeout: Acquire throws, even if the client had been
\* notified or an idle session is there.
WaitTimesOut(t) ==
    /\ pc[t] \in {"waiting", "woken"}
    /\ expired[t]
    /\ Leave(t, {})
    /\ UNCHANGED pools
    /\ Destruct(idle, total, {})

\* CreateConnection logs in, for the reserved slot or for a standalone handle.
CreateSucceeds(t, c) ==
    /\ pc[t] \in {"creating", "standalone"}
    /\ opened[c] = None
    /\ opened' = [opened EXCEPT ![c] = req[t]]
    /\ ctx' = [ctx EXCEPT ![t] = c]
    /\ pc' = [pc EXCEPT ![t] = "using"]
    /\ UNCHANGED <<pools, mgrVars, pool, req, expired>>

\* Mutant of CreateFails: the reserved slot is not given back.
CreateFailsKeepsSlot(t) ==
    \/ /\ pc[t] = "standalone"
       /\ Leave(t, {})
       /\ UNCHANGED <<pools, mgrVars, opened>>
    \/ /\ pc[t] = "creating"
       /\ \E woken \in NotifyOne(pool[t]) : Leave(t, woken)
       /\ UNCHANGED pools
       /\ Destruct(idle, total, {})

\* CreateConnection throws.  ~OracleContext of the partly built context leaves
\* no session behind.  A reserved slot is given back under the lock.
CreateFails(t) ==
    \/ /\ pc[t] = "standalone"
       /\ Leave(t, {})
       /\ UNCHANGED <<pools, mgrVars, opened>>
    \/ /\ pc[t] = "creating"
       /\ \E woken \in NotifyOne(pool[t]) : Leave(t, woken)
       /\ UNCHANGED pools
       /\ Destruct(idle, [total EXCEPT ![pool[t]] = total[pool[t]] - 1], {})

-----------------------------------------------------------------------------
(* The rest of the interface, the clock and the condition variable.        *)

\* Mutant of Release: nobody is told of the session that came back.
ReleaseWithoutNotify(t) ==
    /\ pc[t] = "using"
    /\ UNCHANGED pools
    /\ Leave(t, {})
    /\ IF pool[t] = None
       THEN Destruct(idle, total, {ctx[t]})
       ELSE Destruct([idle EXCEPT ![pool[t]] = Append(idle[pool[t]], ctx[t])],
                     total, {})

\* ~OracleConnectionHandle: the session goes back to its pool, whatever state
\* it is in; a standalone handle's session ends with it.
Release(t) ==
    /\ pc[t] = "using"
    /\ UNCHANGED pools
    /\ \/ /\ pool[t] = None
          /\ Leave(t, {})
          /\ Destruct(idle, total, {ctx[t]})
       \/ /\ pool[t] # None
          /\ \E woken \in NotifyOne(pool[t]) : Leave(t, woken)
          /\ Destruct([idle EXCEPT ![pool[t]] = Append(idle[pool[t]], ctx[t])],
                      total, {})

\* Mutant of Clear: the sessions that are in use are ended, too.
ClearEndsAllSessions ==
    /\ pools' = [s \in ConnStrings |-> None]
    /\ UNCHANGED clientVars
    /\ Destruct(idle, total, Contexts)

\* oracle_clear_cache: the manager forgets every pool.  Handles and callers
\* inside Acquire keep theirs.
Clear ==
    /\ pools' = [s \in ConnStrings |-> None]
    /\ UNCHANGED clientVars
    /\ Destruct(idle, total, {})

\* The deadline of a call of Acquire passes.
Expire(t) ==
    /\ pc[t] \in {"entering", "waiting", "woken"}
    /\ ~expired[t]
    /\ expired' = [expired EXCEPT ![t] = TRUE]
    /\ UNCHANGED <<pools, mgrVars, pc, pool, ctx, req, opened>>

\* A condition variable may wake a client that nobody notified.
SpuriousWake(t) ==
    /\ pc[t] = "waiting"
    /\ pc' = [pc EXCEPT ![t] = "woken"]
    /\ UNCHANGED <<pools, mgrVars, pool, ctx, req, expired, opened>>

Next ==
    \/ \E t \in Clients, s \in ConnStrings :
           AcquireStandalone(t, s) \/ AcquireLookup(t, s)
    \/ \E t \in Clients, lim \in Limits : EnterPool(t, lim)
    \/ \E t \in Clients, c \in Contexts : CreateSucceeds(t, c)
    \/ \E t \in Clients :
           \/ Retry(t)
           \/ WaitTimesOut(t)
           \/ CreateFails(t)
           \/ Release(t)
           \/ Expire(t)
           \/ SpuriousWake(t)
    \/ Clear

Spec == Init /\ [][Next]_vars

\* What the code guarantees of a thread inside Acquire: it runs, its locks are
\* held for a few instructions, its clock advances, and OCI's time-outs end
\* every call of CreateConnection.  Nothing makes a user release a handle.
Fairness ==
    \A t \in Clients :
        /\ WF_vars(\E lim \in Limits : EnterPool(t, lim))
        /\ WF_vars(Retry(t))
        /\ WF_vars(WaitTimesOut(t))
        /\ WF_vars(CreateFails(t) \/ \E c \in Contexts : CreateSucceeds(t, c))
        /\ WF_vars(Expire(t))

FairSpec == Spec /\ Fairness

-----------------------------------------------------------------------------
(* Correctness.                                                            *)

\* The clients that account for a unit of total: they have, or are about to
\* have, a session of pool p.
SlotHolders(p) == {t \in Clients : pool[t] = p /\ pc[t] \in {"creating", "using"}}

\* A pool's counter agrees with what exists: every unit of total is an idle
\* session, a handle, or a connection being made.  A slot lost on an error
\* path would lower the capacity of the pool for the life of the process.
SessionAccounting ==
    \A p \in Pools : total[p] = Len(idle[p]) + Cardinality(SlotHolders(p))

\* However the calls interleave, with failing logins, time-outs and Clear
\* among them, a pool never has more sessions (idle, in use or being opened)
\* than its limit.
WithinLimit ==
    \A p \in Pools : Len(idle[p]) + Cardinality(SlotHolders(p)) <= limit[p]

\* A session has one user: no two handles share one, and no pool offers a
\* session that is in use, or the same session twice.
ExclusiveSessions ==
    /\ \A t, u \in Clients : ctx[t] # None /\ ctx[t] = ctx[u] => t = u
    /\ \A t \in Clients, p \in Pools : ctx[t] \notin Elements(idle[p])
    /\ \A p, q \in Pools : \A i \in 1..Len(idle[p]), j \in 1..Len(idle[q]) :
           idle[p][i] = idle[q][j] => p = q /\ i = j

\* The sessions open on the server are the ones a handle owns or a reachable
\* pool keeps: none is leaked when a pool loses its last reference (Clear,
\* then the last release, a time-out or a failed login), and none that a
\* handle owns or a pool may hand out has been ended.
LiveSessions ==
    \A c \in Contexts :
        opened[c] # None <=>
            \/ \E t \in Clients : ctx[t] = c
            \/ \E p \in Referenced(pools, pool) \ {None} : c \in Elements(idle[p])

\* A handle's session is logged in with the connection string the caller
\* passed, even if the pool was dropped and its string mapped anew meanwhile.
OwnSession ==
    \A t \in Clients : ctx[t] # None => opened[ctx[t]] = req[t]

\* Sessions and slots that pool p could hand out now.
Free(p) == Len(idle[p]) + (limit[p] - total[p])

Woken(p) == {t \in Clients : pc[t] = "woken" /\ pool[t] = p}

\* Somebody sleeps although more can be handed out than clients are awake.
Oversleeping(p) == Waiters(p) # {} /\ Free(p) > Cardinality(Woken(p))

\* Wake-ups are lost in two ways only: a caller raises the limit (no
\* notification), or a client that was notified finds its deadline passed and
\* throws.  Every other step that frees capacity while clients sleep, a release
\* or a failed login, wakes one of them.
CapacityIsAnnounced ==
    [][\A p \in Pools :
          ~Oversleeping(p) /\ Oversleeping(p)'
              => \/ limit'[p] > limit[p]
                 \/ \E t \in Woken(p) : expired[t] /\ pc'[t] = "out"]_vars

\* Acquire returns a handle or throws, whatever the other clients do: the
\* deadline is fixed at the start, so neither lost nor spurious wake-ups nor
\* clients that never release a session keep a caller in the loop.
AcquireReturns ==
    \A t \in Clients : pc[t] \notin {"out", "using"} ~> pc[t] \in {"out", "using"}

\* The manager implements the session pool its users rely on.
OwnerOf(c) ==
    IF \E t \in Clients : ctx[t] = c THEN CHOOSE t \in Clients : ctx[t] = c ELSE None

Abstract == INSTANCE SessionPool
                WITH owner <- [c \in Contexts |-> OwnerOf(c)], login <- opened

\* Sessions are opened, reused, given up and closed only as SessionPool allows.
ImplementsSessionPool == Abstract!SessionPoolSpec
=============================================================================
