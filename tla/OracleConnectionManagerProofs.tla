-------------------- MODULE OracleConnectionManagerProofs --------------------
(***************************************************************************)
(* Proofs about OracleConnectionManager, for any numbers of clients,       *)
(* pools, sessions and connection strings and any limits.                  *)
(***************************************************************************)
EXTENDS OracleConnectionManager, FiniteSetTheorems, TLAPS

\* How the parts of a client's frame or handle belong together.
FrameOK ==
    \A t \in Clients :
        /\ pc[t] \in {"out", "standalone"} => pool[t] = None
        /\ pc[t] \in {"entering", "creating", "waiting", "woken"} => pool[t] \in Pools
        /\ pc[t] = "using" <=> ctx[t] # None
        /\ pc[t] = "out" <=> req[t] = None

\* The pools' counters: what is counted, and that it stays below the limit.
CountersOK ==
    \A p \in Pools :
        /\ total[p] = Len(idle[p]) + Cardinality(SlotHolders(p))
        /\ total[p] <= limit[p]

CountingInv == TypeOK /\ FrameOK /\ CountersOK

-----------------------------------------------------------------------------
(* Facts about the operators.                                              *)

\* The clients that hold a slot are finitely many.
LEMMA SlotHoldersFinite ==
    \A p : /\ IsFiniteSet(SlotHolders(p))
           /\ Cardinality(SlotHolders(p)) \in Nat
<1>1. \A p : SlotHolders(p) \subseteq Clients
    BY DEF SlotHolders
<1>2. QED
    BY <1>1, ClientsAssumption, FS_Subset, FS_CardinalityType

\* Destroying the pools nobody points to keeps the remaining ones as the step
\* left them.
LEMMA DestructFields ==
    ASSUME NEW idles, NEW totals, NEW dropped, Destruct(idles, totals, dropped),
           NEW p \in Pools
    PROVE  \/ /\ \A t \in Clients : pool'[t] # p
              /\ idle'[p] = <<>>
              /\ total'[p] = 0
              /\ limit'[p] = DefaultLimit
           \/ /\ idle'[p] = idles[p]
              /\ total'[p] = totals[p]
              /\ limit'[p] = limit[p]
<1>1. CASE p \in Referenced(pools', pool')
    BY <1>1 DEF Destruct
<1>2. CASE p \notin Referenced(pools', pool')
    BY <1>2 DEF Destruct, Referenced
<1>3. QED
    BY <1>1, <1>2

\* The fields keep their types.
LEMMA DestructTypes ==
    ASSUME NEW idles, NEW totals, NEW dropped, Destruct(idles, totals, dropped),
           TypeOK, idles \in [Pools -> Seq(Contexts)], totals \in [Pools -> Nat]
    PROVE  /\ idle' \in [Pools -> Seq(Contexts)]
           /\ total' \in [Pools -> Nat]
           /\ limit' \in [Pools -> Nat]
           /\ opened' \in [Contexts -> ConnStrings \cup {None}]
<1> DEFINE dead == Pools \ Referenced(pools', pool')
<1>1. <<>> \in Seq(Contexts) /\ 0 \in Nat /\ DefaultLimit \in Nat
    BY LimitsAssumption
<1>2. idle' = [p \in Pools |-> IF p \in dead THEN <<>> ELSE idles[p]]
    BY DEF Destruct
<1>3. total' = [p \in Pools |-> IF p \in dead THEN 0 ELSE totals[p]]
    BY DEF Destruct
<1>4. limit' = [p \in Pools |-> IF p \in dead THEN DefaultLimit ELSE limit[p]]
    BY DEF Destruct
<1>5. opened' \in [Contexts -> ConnStrings \cup {None}]
    BY DEF Destruct, TypeOK
<1> HIDE DEF dead
<1>6. QED
    BY <1>1, <1>2, <1>3, <1>4, <1>5 DEF TypeOK

\* If the counters are right before the unreferenced pools are destroyed, they
\* are right afterwards: a destroyed pool has no slot holder.
LEMMA DestructCounters ==
    ASSUME NEW idles, NEW totals, NEW dropped, Destruct(idles, totals, dropped),
           \A p \in Pools : /\ totals[p] = Len(idles[p]) + Cardinality(SlotHolders(p)')
                            /\ totals[p] <= limit[p]
    PROVE  CountersOK'
<1>1. SUFFICES ASSUME NEW p \in Pools
               PROVE  /\ total'[p] = Len(idle'[p]) + Cardinality(SlotHolders(p)')
                      /\ total'[p] <= limit'[p]
    BY DEF CountersOK
<1>2. CASE /\ \A t \in Clients : pool'[t] # p
           /\ idle'[p] = <<>>
           /\ total'[p] = 0
           /\ limit'[p] = DefaultLimit
    <2>1. SlotHolders(p)' = {}
        BY <1>2 DEF SlotHolders
    <2>2. QED
        BY <1>2, <2>1, FS_EmptySet, LimitsAssumption
<1>3. CASE /\ idle'[p] = idles[p]
           /\ total'[p] = totals[p]
           /\ limit'[p] = limit[p]
    BY <1>3
<1>4. QED
    BY <1>2, <1>3, DestructFields

\* notify_one wakes waiters of its pool only.
LEMMA NotifyOneWakesWaiters ==
    ASSUME NEW p, NEW woken \in NotifyOne(p)
    PROVE  woken \subseteq Waiters(p)
BY DEF NotifyOne

\* A client that takes a session or a slot adds itself to the slot holders of
\* its pool, and to those of no other pool.
LEMMA SlotTaken ==
    ASSUME TypeOK, NEW t \in Clients, NEW p \in Pools, pool[t] = p,
           pc[t] \notin {"creating", "using"},
           NEW to \in {"creating", "using"}, pc' = [pc EXCEPT ![t] = to],
           pool' = pool
    PROVE  /\ Cardinality(SlotHolders(p)') = Cardinality(SlotHolders(p)) + 1
           /\ \A q \in Pools \ {p} : SlotHolders(q)' = SlotHolders(q)
<1>1. SlotHolders(p)' = SlotHolders(p) \cup {t}
    BY DEF SlotHolders, TypeOK
<1>2. t \notin SlotHolders(p)
    BY DEF SlotHolders
<1>3. \A q \in Pools \ {p} : SlotHolders(q)' = SlotHolders(q)
    BY DEF SlotHolders, TypeOK
<1>4. QED
    BY <1>1, <1>2, <1>3, SlotHoldersFinite, FS_AddElement

\* A client that leaves is removed from the slot holders; waking waiters does
\* not change them.
LEMMA SlotFreed ==
    ASSUME TypeOK, NEW t \in Clients, NEW woken, Leave(t, woken),
           \A u \in woken : pc[u] = "waiting"
    PROVE  \A q \in Pools : SlotHolders(q)' = SlotHolders(q) \ {t}
<1>1. SUFFICES ASSUME NEW q \in Pools
               PROVE  SlotHolders(q)' = SlotHolders(q) \ {t}
    OBVIOUS
<1>2. ASSUME NEW u \in Clients
      PROVE  u \in SlotHolders(q)' <=> u \in SlotHolders(q) \ {t}
    <2>1. CASE u = t
        BY <2>1, NoneAssumption DEF SlotHolders, Leave, TypeOK
    <2>2. CASE u # t
        BY <2>2 DEF SlotHolders, Leave, TypeOK
    <2>3. QED
        BY <2>1, <2>2
<1>3. SlotHolders(q)' \subseteq Clients /\ SlotHolders(q) \subseteq Clients
    BY DEF SlotHolders
<1>4. QED
    BY <1>2, <1>3

\* The types and the shape of the frames after a client has left.
LEMMA LeaveFrames ==
    ASSUME TypeOK, FrameOK, NEW t \in Clients, NEW woken, Leave(t, woken),
           \A u \in woken : pc[u] = "waiting"
    PROVE  /\ pc' \in [Clients -> PcValues]
           /\ pool' \in [Clients -> Pools \cup {None}]
           /\ ctx' \in [Clients -> Contexts \cup {None}]
           /\ req' \in [Clients -> ConnStrings \cup {None}]
           /\ expired' \in [Clients -> BOOLEAN]
           /\ FrameOK'
<1>1. /\ pc' \in [Clients -> PcValues]
      /\ pool' \in [Clients -> Pools \cup {None}]
      /\ ctx' \in [Clients -> Contexts \cup {None}]
      /\ req' \in [Clients -> ConnStrings \cup {None}]
    BY DEF Leave, TypeOK, PcValues
<1>2. expired' \in [Clients -> BOOLEAN]
    BY Zenon DEF Leave, TypeOK
<1>3. SUFFICES ASSUME NEW u \in Clients
               PROVE  /\ pc'[u] \in {"out", "standalone"} => pool'[u] = None
                      /\ pc'[u] \in {"entering", "creating", "waiting", "woken"}
                             => pool'[u] \in Pools
                      /\ pc'[u] = "using" <=> ctx'[u] # None
                      /\ pc'[u] = "out" <=> req'[u] = None
    BY <1>1, <1>2 DEF FrameOK
<1>4. CASE u = t
    BY <1>4 DEF Leave, TypeOK
<1>5. CASE u # t /\ u \in woken
    BY <1>5 DEF Leave, TypeOK, FrameOK
<1>6. CASE u # t /\ u \notin woken
    BY <1>6 DEF Leave, TypeOK, FrameOK
<1>7. QED
    BY <1>4, <1>5, <1>6

-----------------------------------------------------------------------------
(* The counting invariant.                                                 *)

\* One round of the loop in Acquire, at the limit lim that the pool now has.
LEMMA TryOnceCounters ==
    ASSUME CountingInv, NEW t \in Clients, NEW p \in Pools, NEW lim \in Nat,
           pc[t] \in {"entering", "woken"}, pool[t] = p,
           limit' \in [Pools -> Nat],
           \A q \in Pools : limit'[q] >= limit[q],
           limit'[p] = lim,
           TryOnce(t, p, lim),
           UNCHANGED <<pools, pool, req, expired, opened>>
    PROVE  CountingInv'
<1>1. p \in Pools /\ idle[p] \in Seq(Contexts) /\ Len(idle[p]) \in Nat /\ total[p] \in Nat
    BY DEF CountingInv, TypeOK, FrameOK
<1>2. /\ total[p] = Len(idle[p]) + Cardinality(SlotHolders(p))
      /\ \A q \in Pools : /\ total[q] = Len(idle[q]) + Cardinality(SlotHolders(q))
                          /\ total[q] <= limit'[q]
                          /\ total[q] \in Nat /\ limit'[q] \in Nat
    BY <1>1 DEF CountingInv, CountersOK, TypeOK
<1>3. UNCHANGED <<pools, pool, req, expired, opened>> /\ TypeOK /\ FrameOK
    BY DEF CountingInv
<1>4. CASE TakeIdle(t, p)
    <2>1. idle[p] # <<>> /\ Len(idle[p]) > 0 /\ idle[p][Len(idle[p])] \in Contexts
        BY <1>1, <1>4 DEF TakeIdle
    <2>2. /\ SubSeq(idle[p], 1, Len(idle[p]) - 1) \in Seq(Contexts)
          /\ Len(SubSeq(idle[p], 1, Len(idle[p]) - 1)) = Len(idle[p]) - 1
        BY <1>1, <2>1
    <2>3. /\ pc' = [pc EXCEPT ![t] = "using"]
          /\ ctx' = [ctx EXCEPT ![t] = idle[p][Len(idle[p])]]
          /\ idle' = [idle EXCEPT ![p] = SubSeq(idle[p], 1, Len(idle[p]) - 1)]
          /\ total' = total
        BY <1>4 DEF TakeIdle
    <2>4. TypeOK'
        BY <1>1, <1>3, <2>1, <2>2, <2>3 DEF TypeOK, PcValues
    <2>5. FrameOK'
        BY <1>3, <2>1, <2>3, NoneAssumption DEF TypeOK, FrameOK
    <2>6. /\ Cardinality(SlotHolders(p)') = Cardinality(SlotHolders(p)) + 1
          /\ \A q \in Pools \ {p} : SlotHolders(q)' = SlotHolders(q)
        BY <1>1, <1>3, <2>3, SlotTaken
    <2>7. /\ idle'[p] = SubSeq(idle[p], 1, Len(idle[p]) - 1)
          /\ \A q \in Pools \ {p} : idle'[q] = idle[q]
        BY <1>1, <1>3, <2>3 DEF TypeOK
    <2>8. CountersOK'
        <3>1. SUFFICES ASSUME NEW q \in Pools
                       PROVE  /\ total'[q] = Len(idle'[q]) + Cardinality(SlotHolders(q)')
                              /\ total'[q] <= limit'[q]
            BY DEF CountersOK
        <3>2. CASE q = p
            BY <1>1, <1>2, <2>2, <2>3, <2>6, <2>7, <3>2, SlotHoldersFinite
        <3>3. CASE q # p
            BY <1>2, <2>3, <2>6, <2>7, <3>3
        <3>4. QED
            BY <3>2, <3>3
    <2>9. QED
        BY <2>4, <2>5, <2>8 DEF CountingInv
<1>5. CASE ReserveSlot(t, p, lim)
    <2>1. /\ pc' = [pc EXCEPT ![t] = "creating"]
          /\ total' = [total EXCEPT ![p] = total[p] + 1]
          /\ idle' = idle /\ ctx' = ctx
          /\ total[p] < lim
        BY <1>5 DEF ReserveSlot
    <2>2. TypeOK'
        BY <1>1, <1>3, <2>1 DEF TypeOK, PcValues
    <2>3. FrameOK'
        BY <1>1, <1>3, <2>1 DEF TypeOK, FrameOK
    <2>4. /\ Cardinality(SlotHolders(p)') = Cardinality(SlotHolders(p)) + 1
          /\ \A q \in Pools \ {p} : SlotHolders(q)' = SlotHolders(q)
        BY <1>1, <1>3, <2>1, SlotTaken
    <2>5. /\ total'[p] = total[p] + 1
          /\ total'[p] <= limit'[p]
          /\ \A q \in Pools \ {p} : total'[q] = total[q]
        BY <1>1, <1>3, <2>1 DEF TypeOK
    <2>6. CountersOK'
        <3>1. SUFFICES ASSUME NEW q \in Pools
                       PROVE  /\ total'[q] = Len(idle'[q]) + Cardinality(SlotHolders(q)')
                              /\ total'[q] <= limit'[q]
            BY DEF CountersOK
        <3>2. CASE q = p
            BY <1>1, <1>2, <2>1, <2>4, <2>5, <3>2, SlotHoldersFinite
        <3>3. CASE q # p
            BY <1>2, <2>1, <2>4, <2>5, <3>3
        <3>4. QED
            BY <3>2, <3>3
    <2>7. QED
        BY <2>2, <2>3, <2>6 DEF CountingInv
<1>6. CASE WaitForSession(t, p, lim)
    <2>1. /\ pc' = [pc EXCEPT ![t] = "waiting"]
          /\ total' = total /\ idle' = idle /\ ctx' = ctx
        BY <1>6 DEF WaitForSession
    <2>2. TypeOK'
        BY <1>1, <1>3, <2>1 DEF TypeOK, PcValues
    <2>3. FrameOK'
        BY <1>1, <1>3, <2>1 DEF TypeOK, FrameOK
    <2>4. \A q \in Pools : SlotHolders(q)' = SlotHolders(q)
        BY <1>3, <2>1 DEF SlotHolders, TypeOK
    <2>5. CountersOK'
        BY <1>2, <2>1, <2>4 DEF CountersOK
    <2>6. QED
        BY <2>2, <2>3, <2>5 DEF CountingInv
<1>7. QED
    BY <1>4, <1>5, <1>6 DEF TryOnce

\* A client leaves its pool with the counters idles and totals: the facts the
\* three ways of leaving (time-out, failed login, release) have in common.
LEMMA LeaveCounters ==
    ASSUME CountingInv, NEW t \in Clients, NEW woken,
           NEW idles \in [Pools -> Seq(Contexts)], NEW totals \in [Pools -> Nat],
           NEW dropped,
           \A u \in woken : pc[u] = "waiting",
           Leave(t, woken), pools' = pools, Destruct(idles, totals, dropped),
           \A q \in Pools :
               /\ totals[q] = Len(idles[q]) + Cardinality(SlotHolders(q) \ {t})
               /\ totals[q] <= limit[q]
    PROVE  CountingInv'
<1>1. TypeOK /\ FrameOK
    BY DEF CountingInv
<1>2. CountersOK'
    <2>1. \A q \in Pools : SlotHolders(q)' = SlotHolders(q) \ {t}
        BY <1>1, SlotFreed
    <2>2. \A q \in Pools : /\ totals[q] = Len(idles[q]) + Cardinality(SlotHolders(q)')
                           /\ totals[q] <= limit[q]
        BY <2>1
    <2>3. QED
        BY <2>2, DestructCounters
<1>3. /\ idle' \in [Pools -> Seq(Contexts)]
      /\ total' \in [Pools -> Nat]
      /\ limit' \in [Pools -> Nat]
      /\ opened' \in [Contexts -> ConnStrings \cup {None}]
    BY <1>1, DestructTypes
<1>4. /\ pc' \in [Clients -> PcValues]
      /\ pool' \in [Clients -> Pools \cup {None}]
      /\ ctx' \in [Clients -> Contexts \cup {None}]
      /\ req' \in [Clients -> ConnStrings \cup {None}]
      /\ expired' \in [Clients -> BOOLEAN]
      /\ FrameOK'
    BY <1>1, LeaveFrames
<1>5. QED
    BY <1>1, <1>2, <1>3, <1>4 DEF CountingInv, TypeOK

\* The counting invariant holds initially ...
LEMMA CountingInit == Init => CountingInv
<1>1. SUFFICES ASSUME Init PROVE CountingInv
    OBVIOUS
<1>2. TypeOK
    BY <1>1, LimitsAssumption DEF Init, TypeOK, PcValues
<1>3. FrameOK
    BY <1>1 DEF Init, FrameOK
<1>4. CountersOK
    <2>1. \A p \in Pools : SlotHolders(p) = {}
        BY <1>1, NoneAssumption DEF SlotHolders, Init
    <2>2. \A p \in Pools : total[p] = 0 /\ Len(idle[p]) = 0 /\ limit[p] \in Nat
        BY <1>1, LimitsAssumption DEF Init
    <2>3. Cardinality({}) = 0
        BY FS_EmptySet
    <2>4. ASSUME NEW p \in Pools
          PROVE  /\ total[p] = Len(idle[p]) + Cardinality(SlotHolders(p))
                 /\ total[p] <= limit[p]
        <3>1. Cardinality(SlotHolders(p)) = 0
            BY <2>1, <2>3
        <3>2. QED
            BY <2>2, <3>1
    <2>5. QED
        BY <2>4 DEF CountersOK
<1>5. QED
    BY <1>2, <1>3, <1>4 DEF CountingInv

\* ... and every step keeps it.
LEMMA CountingStep == CountingInv /\ [Next]_vars => CountingInv'
<1>1. SUFFICES ASSUME CountingInv, [Next]_vars
               PROVE  CountingInv'
    OBVIOUS
<1>2. TypeOK /\ FrameOK /\ CountersOK
    BY <1>1 DEF CountingInv
<1>3. \A p \in Pools : /\ total[p] \in Nat /\ limit[p] \in Nat
                       /\ idle[p] \in Seq(Contexts) /\ Len(idle[p]) \in Nat
                       /\ total[p] = Len(idle[p]) + Cardinality(SlotHolders(p))
                       /\ total[p] <= limit[p]
    BY <1>2 DEF TypeOK, CountersOK
<1>4. ASSUME NEW t \in Clients, NEW s \in ConnStrings, AcquireStandalone(t, s)
      PROVE  CountingInv'
    <2>1. TypeOK'
        BY <1>2, <1>4 DEF AcquireStandalone, mgrVars, TypeOK, PcValues
    <2>2. FrameOK'
        BY <1>2, <1>4, NoneAssumption DEF AcquireStandalone, TypeOK, FrameOK
    <2>3. \A p \in Pools : SlotHolders(p)' = SlotHolders(p)
        BY <1>2, <1>4 DEF AcquireStandalone, SlotHolders, TypeOK
    <2>4. CountersOK'
        BY <1>3, <1>4, <2>3 DEF AcquireStandalone, mgrVars, CountersOK
    <2>5. QED
        BY <2>1, <2>2, <2>4 DEF CountingInv
<1>5. ASSUME NEW t \in Clients, NEW s \in ConnStrings, AcquireLookup(t, s)
      PROVE  CountingInv'
    <2>1. PICK p \in Pools : /\ pools' = [pools EXCEPT ![s] = p]
                             /\ pool' = [pool EXCEPT ![t] = p]
        BY <1>2, <1>5 DEF AcquireLookup, TypeOK
    <2>2. TypeOK'
        BY <1>2, <1>5, <2>1 DEF AcquireLookup, mgrVars, TypeOK, PcValues
    <2>3. FrameOK'
        BY <1>2, <1>5, <2>1, NoneAssumption DEF AcquireLookup, TypeOK, FrameOK
    <2>4. \A q \in Pools : SlotHolders(q)' = SlotHolders(q)
        BY <1>2, <1>5, <2>1, NoneAssumption
           DEF AcquireLookup, SlotHolders, TypeOK, FrameOK
    <2>5. CountersOK'
        BY <1>3, <1>5, <2>4 DEF AcquireLookup, mgrVars, CountersOK
    <2>6. QED
        BY <2>2, <2>3, <2>5 DEF CountingInv
<1>6. ASSUME NEW t \in Clients, NEW lim \in Limits, EnterPool(t, lim)
      PROVE  CountingInv'
    <2>1. PICK p \in Pools : pool[t] = p
        BY <1>2, <1>6 DEF EnterPool, FrameOK
    <2>2. lim \in Nat /\ RaisedLimit(p, lim) \in Nat /\ RaisedLimit(p, lim) >= limit[p]
        BY <1>3, LimitsAssumption DEF RaisedLimit
    <2>3. limit' = [limit EXCEPT ![p] = RaisedLimit(p, lim)]
        BY <1>6, <2>1 DEF EnterPool
    <2>4. /\ limit' \in [Pools -> Nat]
          /\ \A q \in Pools : limit'[q] >= limit[q]
          /\ limit'[p] = RaisedLimit(p, lim)
        BY <1>2, <1>3, <2>2, <2>3 DEF TypeOK
    <2>5. /\ pc[t] \in {"entering", "woken"}
          /\ TryOnce(t, p, RaisedLimit(p, lim))
          /\ UNCHANGED <<pools, pool, req, expired, opened>>
        BY <1>6, <2>1 DEF EnterPool
    <2>6. QED
        BY <1>1, <2>1, <2>2, <2>4, <2>5, TryOnceCounters
<1>7. ASSUME NEW t \in Clients, Retry(t)
      PROVE  CountingInv'
    <2>1. PICK p \in Pools : pool[t] = p
        BY <1>2, <1>7 DEF Retry, FrameOK
    <2>2. /\ limit' \in [Pools -> Nat]
          /\ \A q \in Pools : limit'[q] >= limit[q]
          /\ limit'[p] = limit[p]
          /\ limit[p] \in Nat
        BY <1>2, <1>3, <1>7 DEF Retry, TypeOK
    <2>3. /\ pc[t] \in {"entering", "woken"}
          /\ TryOnce(t, p, limit[p])
          /\ UNCHANGED <<pools, pool, req, expired, opened>>
        BY <1>7, <2>1 DEF Retry
    <2>4. QED
        BY <1>1, <2>1, <2>2, <2>3, TryOnceCounters
<1>8. ASSUME NEW t \in Clients, WaitTimesOut(t)
      PROVE  CountingInv'
    <2>1. \A q \in Pools : SlotHolders(q) \ {t} = SlotHolders(q)
        BY <1>8 DEF WaitTimesOut, SlotHolders
    <2>2. /\ Leave(t, {}) /\ pools' = pools /\ Destruct(idle, total, {})
          /\ idle \in [Pools -> Seq(Contexts)] /\ total \in [Pools -> Nat]
        BY <1>2, <1>8 DEF WaitTimesOut, TypeOK
    <2>3. \A q \in Pools :
             /\ total[q] = Len(idle[q]) + Cardinality(SlotHolders(q) \ {t})
             /\ total[q] <= limit[q]
        BY <1>3, <2>1
    <2>4. \A u \in {} : pc[u] = "waiting"
        OBVIOUS
    <2>5. QED
        BY <1>1, <2>2, <2>3, <2>4, LeaveCounters
<1>9. ASSUME NEW t \in Clients, NEW c \in Contexts, CreateSucceeds(t, c)
      PROVE  CountingInv'
    <2>1. TypeOK'
        BY <1>2, <1>9 DEF CreateSucceeds, mgrVars, TypeOK, PcValues
    <2>2. FrameOK'
        BY <1>2, <1>9, NoneAssumption DEF CreateSucceeds, TypeOK, FrameOK
    <2>3. \A q \in Pools : SlotHolders(q)' = SlotHolders(q)
        BY <1>2, <1>9, NoneAssumption DEF CreateSucceeds, SlotHolders, TypeOK, FrameOK
    <2>4. CountersOK'
        BY <1>3, <1>9, <2>3 DEF CreateSucceeds, mgrVars, CountersOK
    <2>5. QED
        BY <2>1, <2>2, <2>4 DEF CountingInv
<1>10. ASSUME NEW t \in Clients, CreateFails(t)
       PROVE  CountingInv'
    <2>1. CASE /\ pc[t] = "standalone"
               /\ Leave(t, {})
               /\ UNCHANGED <<pools, mgrVars, opened>>
        <3>1. \A q \in Pools : SlotHolders(q)' = SlotHolders(q) \ {t}
            BY <1>2, <2>1, SlotFreed
        <3>2. \A q \in Pools : SlotHolders(q)' = SlotHolders(q)
            BY <2>1, <3>1 DEF SlotHolders
        <3>3. CountersOK'
            BY <1>3, <2>1, <3>2 DEF mgrVars, CountersOK
        <3>4. FrameOK' /\ TypeOK'
            BY <1>2, <2>1, LeaveFrames DEF mgrVars, TypeOK
        <3>5. QED
            BY <3>3, <3>4 DEF CountingInv
    <2>2. CASE /\ pc[t] = "creating"
               /\ \E woken \in NotifyOne(pool[t]) : Leave(t, woken)
               /\ UNCHANGED pools
               /\ Destruct(idle, [total EXCEPT ![pool[t]] = total[pool[t]] - 1], {})
        <3>1. PICK p \in Pools : pool[t] = p
            BY <1>2, <2>2 DEF FrameOK
        <3>2. PICK woken : woken \in NotifyOne(p) /\ Leave(t, woken)
            BY <2>2, <3>1
        <3>3. \A u \in woken : pc[u] = "waiting"
            BY <3>2, NotifyOneWakesWaiters DEF Waiters
        <3> DEFINE totals == [total EXCEPT ![p] = total[p] - 1]
        <3>4. t \in SlotHolders(p)
            BY <2>2, <3>1 DEF SlotHolders
        <3>5. /\ Cardinality(SlotHolders(p) \ {t}) = Cardinality(SlotHolders(p)) - 1
              /\ Cardinality(SlotHolders(p) \ {t}) \in Nat
              /\ \A q \in Pools \ {p} : SlotHolders(q) \ {t} = SlotHolders(q)
            <4>1. \A q \in Pools \ {p} : SlotHolders(q) \ {t} = SlotHolders(q)
                BY <3>1 DEF SlotHolders
            <4>2. QED
                BY <3>4, <4>1, SlotHoldersFinite, FS_RemoveElement, FS_CardinalityType
        <3>6. total[p] - 1 \in Nat
            BY <1>3, <3>1, <3>5, SlotHoldersFinite
        <3>7. totals \in [Pools -> Nat] /\ totals[p] = total[p] - 1
              /\ \A q \in Pools \ {p} : totals[q] = total[q]
            BY <1>2, <3>1, <3>6 DEF TypeOK
        <3>8. \A q \in Pools :
                 /\ totals[q] = Len(idle[q]) + Cardinality(SlotHolders(q) \ {t})
                 /\ totals[q] <= limit[q]
            <4> HIDE DEF totals
            <4>1. ASSUME NEW q \in Pools
                  PROVE  /\ totals[q] = Len(idle[q]) + Cardinality(SlotHolders(q) \ {t})
                         /\ totals[q] <= limit[q]
                <5>1. CASE q = p
                    BY <1>3, <3>5, <3>7, <5>1, SlotHoldersFinite
                <5>2. CASE q # p
                    BY <1>3, <3>5, <3>7, <5>2
                <5>3. QED
                    BY <5>1, <5>2
            <4>2. QED
                BY <4>1
        <3>9. Destruct(idle, totals, {}) /\ pools' = pools
            BY <2>2, <3>1
        <3>10. idle \in [Pools -> Seq(Contexts)]
            BY <1>2 DEF TypeOK
        <3> HIDE DEF totals
        <3>11. QED
            BY <1>1, <3>2, <3>3, <3>7, <3>8, <3>9, <3>10, LeaveCounters
    <2>3. QED
        BY <1>10, <2>1, <2>2 DEF CreateFails
<1>11. ASSUME NEW t \in Clients, Release(t)
       PROVE  CountingInv'
    <2>1. ctx[t] \in Contexts
        BY <1>2, <1>11 DEF Release, FrameOK, TypeOK
    <2>2. CASE pool[t] = None /\ Leave(t, {}) /\ Destruct(idle, total, {ctx[t]})
        <3>1. \A q \in Pools : SlotHolders(q) \ {t} = SlotHolders(q)
            BY <2>2, NoneAssumption DEF SlotHolders
        <3>2. /\ pools' = pools
              /\ idle \in [Pools -> Seq(Contexts)] /\ total \in [Pools -> Nat]
            BY <1>2, <1>11 DEF Release, TypeOK
        <3>3. \A q \in Pools :
                 /\ total[q] = Len(idle[q]) + Cardinality(SlotHolders(q) \ {t})
                 /\ total[q] <= limit[q]
            BY <1>3, <3>1
        <3>4. \A u \in {} : pc[u] = "waiting"
            OBVIOUS
        <3>5. QED
            BY <1>1, <2>2, <3>2, <3>3, <3>4, LeaveCounters
    <2>3. CASE /\ pool[t] # None
               /\ \E woken \in NotifyOne(pool[t]) : Leave(t, woken)
               /\ Destruct([idle EXCEPT ![pool[t]] = Append(idle[pool[t]], ctx[t])],
                           total, {})
        <3>1. PICK p \in Pools : pool[t] = p
            BY <1>2, <2>3 DEF TypeOK
        <3>2. PICK woken : woken \in NotifyOne(p) /\ Leave(t, woken)
            BY <2>3, <3>1
        <3>3. \A u \in woken : pc[u] = "waiting"
            BY <3>2, NotifyOneWakesWaiters DEF Waiters
        <3> DEFINE idles == [idle EXCEPT ![p] = Append(idle[p], ctx[t])]
        <3>4. t \in SlotHolders(p)
            BY <1>11, <3>1 DEF Release, SlotHolders
        <3>5. /\ Cardinality(SlotHolders(p) \ {t}) = Cardinality(SlotHolders(p)) - 1
              /\ \A q \in Pools \ {p} : SlotHolders(q) \ {t} = SlotHolders(q)
            <4>1. \A q \in Pools \ {p} : SlotHolders(q) \ {t} = SlotHolders(q)
                BY <3>1 DEF SlotHolders
            <4>2. QED
                BY <3>4, <4>1, SlotHoldersFinite, FS_RemoveElement
        <3>6. /\ Append(idle[p], ctx[t]) \in Seq(Contexts)
              /\ Len(Append(idle[p], ctx[t])) = Len(idle[p]) + 1
            BY <1>3, <2>1, <3>1
        <3>7. /\ idles \in [Pools -> Seq(Contexts)]
              /\ Len(idles[p]) = Len(idle[p]) + 1
              /\ \A q \in Pools \ {p} : idles[q] = idle[q]
            BY <1>2, <3>1, <3>6 DEF TypeOK
        <3>8. \A q \in Pools :
                 /\ total[q] = Len(idles[q]) + Cardinality(SlotHolders(q) \ {t})
                 /\ total[q] <= limit[q]
            <4> HIDE DEF idles
            <4>1. ASSUME NEW q \in Pools
                  PROVE  /\ total[q] = Len(idles[q]) + Cardinality(SlotHolders(q) \ {t})
                         /\ total[q] <= limit[q]
                <5>1. CASE q = p
                    BY <1>3, <3>5, <3>7, <5>1, SlotHoldersFinite
                <5>2. CASE q # p
                    BY <1>3, <3>5, <3>7, <5>2
                <5>3. QED
                    BY <5>1, <5>2
            <4>2. QED
                BY <4>1
        <3>9. Destruct(idles, total, {}) /\ pools' = pools
            BY <1>11, <2>3, <3>1 DEF Release
        <3>10. total \in [Pools -> Nat]
            BY <1>2 DEF TypeOK
        <3> HIDE DEF idles
        <3>11. QED
            BY <1>1, <3>2, <3>3, <3>7, <3>8, <3>9, <3>10, LeaveCounters
    <2>4. QED
        BY <1>11, <2>2, <2>3 DEF Release
<1>12. ASSUME Clear
       PROVE  CountingInv'
    <2>1. Destruct(idle, total, {}) /\ UNCHANGED clientVars
        BY <1>12 DEF Clear
    <2>2. \A q \in Pools : SlotHolders(q)' = SlotHolders(q)
        BY <2>1 DEF clientVars, SlotHolders
    <2>3. CountersOK'
        BY <1>3, <2>1, <2>2, DestructCounters
    <2>4. /\ idle' \in [Pools -> Seq(Contexts)]
          /\ total' \in [Pools -> Nat]
          /\ limit' \in [Pools -> Nat]
          /\ opened' \in [Contexts -> ConnStrings \cup {None}]
        BY <1>2, <2>1, DestructTypes DEF TypeOK
    <2>5. pools' \in [ConnStrings -> Pools \cup {None}]
        BY <1>12 DEF Clear
    <2>6. TypeOK'
        BY <1>2, <2>1, <2>4, <2>5 DEF clientVars, TypeOK
    <2>7. FrameOK'
        BY <1>2, <2>1 DEF clientVars, FrameOK
    <2>8. QED
        BY <2>3, <2>6, <2>7 DEF CountingInv
<1>13. ASSUME NEW t \in Clients, Expire(t)
       PROVE  CountingInv'
    <2>1. expired' \in [Clients -> BOOLEAN]
        BY <1>2, <1>13, Zenon DEF Expire, TypeOK
    <2>2. TypeOK'
        BY <1>2, <1>13, <2>1 DEF Expire, mgrVars, TypeOK
    <2>3. FrameOK'
        BY <1>2, <1>13 DEF Expire, FrameOK
    <2>4. CountersOK'
        BY <1>2, <1>13 DEF Expire, mgrVars, CountersOK, SlotHolders
    <2>5. QED
        BY <2>2, <2>3, <2>4 DEF CountingInv
<1>14. ASSUME NEW t \in Clients, SpuriousWake(t)
       PROVE  CountingInv'
    <2>1. TypeOK'
        BY <1>2, <1>14 DEF SpuriousWake, mgrVars, TypeOK, PcValues
    <2>2. FrameOK'
        BY <1>2, <1>14 DEF SpuriousWake, TypeOK, FrameOK
    <2>3. \A q \in Pools : SlotHolders(q)' = SlotHolders(q)
        BY <1>2, <1>14 DEF SpuriousWake, SlotHolders, TypeOK
    <2>4. CountersOK'
        BY <1>3, <1>14, <2>3 DEF SpuriousWake, mgrVars, CountersOK
    <2>5. QED
        BY <2>1, <2>2, <2>4 DEF CountingInv
<1>15. CASE UNCHANGED vars
    <2>1. TypeOK'
        BY <1>2, <1>15 DEF vars, TypeOK
    <2>2. FrameOK'
        BY <1>2, <1>15 DEF vars, FrameOK
    <2>3. \A p \in Pools : SlotHolders(p)' = SlotHolders(p)
        BY <1>15 DEF vars, SlotHolders
    <2>4. CountersOK'
        BY <1>3, <1>15, <2>3 DEF vars, CountersOK
    <2>5. QED
        BY <2>1, <2>2, <2>4 DEF CountingInv
<1>16. QED
    BY <1>1, <1>4, <1>5, <1>6, <1>7, <1>8, <1>9, <1>10, <1>11, <1>12, <1>13,
       <1>14, <1>15 DEF Next

\* Every reachable state satisfies the counting invariant.
THEOREM CountingInvariant == Spec => []CountingInv
BY CountingInit, CountingStep, PTL DEF Spec

\* The variables keep their types; in particular total, which the error path
\* of Acquire decrements, never wraps below zero.
THEOREM TypeCorrectness == Spec => []TypeOK
<1>1. CountingInv => TypeOK
    BY DEF CountingInv
<1>2. QED
    BY <1>1, CountingInvariant, PTL

\* The counter of every pool is the number of its sessions and reserved slots.
THEOREM AccountingCorrect == Spec => []SessionAccounting
<1>1. CountingInv => SessionAccounting
    BY DEF CountingInv, CountersOK, SessionAccounting
<1>2. QED
    BY <1>1, CountingInvariant, PTL

\* No pool ever has more sessions than its limit.
THEOREM LimitCorrect == Spec => []WithinLimit
<1>1. CountingInv => WithinLimit
    BY DEF CountingInv, CountersOK, WithinLimit
<1>2. QED
    BY <1>1, CountingInvariant, PTL

-----------------------------------------------------------------------------
(* Capacity and sleeping callers.                                          *)

\* The clients that are awake are finitely many.
LEMMA WokenFinite ==
    \A p : /\ IsFiniteSet(Woken(p)) /\ IsFiniteSet(Woken(p)')
           /\ Cardinality(Woken(p)) \in Nat /\ Cardinality(Woken(p)') \in Nat
<1>1. \A p : Woken(p) \subseteq Clients /\ Woken(p)' \subseteq Clients
    BY DEF Woken
<1>2. QED
    BY <1>1, ClientsAssumption, FS_Subset, FS_CardinalityType

\* Nobody oversleeps after a step that puts nobody to sleep and frees no more
\* than it wakes.
LEMMA StaysAwake ==
    ASSUME TypeOK, TypeOK', NEW p \in Pools, ~Oversleeping(p), NEW k \in Int,
           Waiters(p)' \subseteq Waiters(p),
           Cardinality(Woken(p)') >= Cardinality(Woken(p)) + k,
           Free(p)' <= Free(p) + k
    PROVE  ~Oversleeping(p)'
<1>1. Free(p) \in Int /\ Free(p)' \in Int
    BY DEF Free, TypeOK
<1>2. Cardinality(Woken(p)) \in Nat /\ Cardinality(Woken(p)') \in Nat
    BY WokenFinite
<1>3. Waiters(p) = {} \/ Free(p) <= Cardinality(Woken(p))
    BY <1>1, <1>2 DEF Oversleeping
<1>4. QED
    BY <1>1, <1>2, <1>3 DEF Oversleeping

\* A round of the loop in Acquire uses up what its client was woken for, or
\* finds nothing left.
LEMMA TryOnceCapacity ==
    ASSUME TypeOK, TypeOK', NEW t \in Clients, NEW q \in Pools, pool[t] = q,
           pc[t] \in {"entering", "woken"}, pool' = pool,
           limit'[q] = limit[q], \A r \in Pools \ {q} : limit'[r] = limit[r],
           TryOnce(t, q, limit[q]), NEW p \in Pools, ~Oversleeping(p)
    PROVE  ~Oversleeping(p)'
<1>1. /\ idle[p] \in Seq(Contexts) /\ Len(idle[p]) \in Nat
      /\ total[p] \in Nat /\ limit[p] \in Nat
    BY DEF TypeOK
<1>2. limit'[p] = limit[p]
    OBVIOUS
<1>3. CASE p # q
    <2>1. Waiters(p)' = Waiters(p) /\ Woken(p)' = Woken(p)
        BY <1>3 DEF TryOnce, TakeIdle, ReserveSlot, WaitForSession, Waiters, Woken, TypeOK
    <2>2. idle'[p] = idle[p] /\ total'[p] = total[p]
        BY <1>3 DEF TryOnce, TakeIdle, ReserveSlot, WaitForSession, TypeOK
    <2>3. Free(p)' = Free(p)
        BY <1>2, <2>2 DEF Free
    <2>4. QED
        BY <2>1, <2>3 DEF Oversleeping
<1>4. CASE p = q /\ (TakeIdle(t, q) \/ ReserveSlot(t, q, limit[q]))
    <2>1. /\ pc'[t] \in {"using", "creating"}
          /\ \A u \in Clients \ {t} : pc'[u] = pc[u]
        BY <1>4 DEF TakeIdle, ReserveSlot, TypeOK
    <2>2. Waiters(p)' = Waiters(p) /\ Woken(p)' = Woken(p) \ {t}
        BY <2>1 DEF Waiters, Woken
    <2>3. Cardinality(Woken(p)') >= Cardinality(Woken(p)) + (-1)
        BY <2>2, WokenFinite, FS_RemoveElement
    <2>4. Len(idle'[p]) - total'[p] = Len(idle[p]) - total[p] - 1
        <3>1. CASE TakeIdle(t, q)
            <4>1. idle'[p] = SubSeq(idle[p], 1, Len(idle[p]) - 1)
                BY <1>4, <3>1 DEF TakeIdle, TypeOK
            <4>2. total'[p] = total[p] /\ Len(idle[p]) > 0
                BY <1>1, <1>4, <3>1 DEF TakeIdle
            <4>3. Len(SubSeq(idle[p], 1, Len(idle[p]) - 1)) = Len(idle[p]) - 1
                BY <1>1, <4>2
            <4>4. QED
                BY <1>1, <4>1, <4>2, <4>3
        <3>2. CASE ReserveSlot(t, q, limit[q])
            <4>1. idle'[p] = idle[p] /\ total'[p] = total[p] + 1
                BY <1>4, <3>2 DEF ReserveSlot, TypeOK
            <4>2. QED
                BY <1>1, <4>1
        <3>3. QED
            BY <1>4, <3>1, <3>2
    <2>5. Len(idle'[p]) \in Nat /\ total'[p] \in Nat
        BY DEF TypeOK
    <2>6. Free(p)' <= Free(p) + (-1)
        <3>1. Free(p) = Len(idle[p]) + (limit[p] - total[p])
            BY DEF Free
        <3>2. Free(p)' = Len(idle'[p]) + (limit[p] - total'[p])
            BY <1>2 DEF Free
        <3>3. \A i, j, k, l, m \in Int :
                  j - l = i - k - 1 => j + (m - l) <= i + (m - k) + (-1)
            OBVIOUS
        <3>4. Len(idle'[p]) + (limit[p] - total'[p])
                  <= Len(idle[p]) + (limit[p] - total[p]) + (-1)
            <4>1. /\ Len(idle[p]) \in Int /\ Len(idle'[p]) \in Int
                  /\ total[p] \in Int /\ total'[p] \in Int /\ limit[p] \in Int
                BY <1>1, <2>5
            <4>2. QED
                BY <2>4, <3>3, <4>1
        <3>5. QED
            BY <3>1, <3>2, <3>4
    <2>7. -1 \in Int /\ Waiters(p)' \subseteq Waiters(p)
        BY <2>2
    <2>8. QED
        BY <2>3, <2>6, <2>7, StaysAwake
<1>5. CASE p = q /\ WaitForSession(t, q, limit[q])
    <2>1. idle'[p] = <<>> /\ total'[p] >= limit'[p] /\ total'[p] \in Nat
        BY <1>1, <1>2, <1>5 DEF WaitForSession
    <2>2. Free(p)' <= 0
        BY <1>1, <1>2, <2>1 DEF Free
    <2>3. Cardinality(Woken(p)') \in Nat /\ Free(p)' \in Int
        BY <1>1, <1>2, <2>1, WokenFinite DEF Free
    <2>4. QED
        BY <2>2, <2>3 DEF Oversleeping
<1>6. QED
    BY <1>3, <1>4, <1>5 DEF TryOnce

\* A client that leaves wakes as many others as it makes room for, or there is
\* nobody to wake.  One that was itself woken for the pool is not covered.
LEMMA LeaveCapacity ==
    ASSUME TypeOK, TypeOK', NEW t \in Clients, NEW woken, Leave(t, woken),
           NEW idles, NEW totals, NEW dropped, Destruct(idles, totals, dropped),
           NEW p \in Pools, ~Oversleeping(p), ~(pc[t] = "woken" /\ pool[t] = p),
           NEW k \in {0, 1}, Len(idles[p]) \in Nat, totals[p] \in Nat,
           Len(idles[p]) - totals[p] = Len(idle[p]) - total[p] + k,
           k = 1 => woken \in NotifyOne(p) /\ pc[t] # "waiting"
    PROVE  ~Oversleeping(p)'
<1>1. Len(idle[p]) \in Nat /\ total[p] \in Nat /\ limit[p] \in Nat
    BY DEF TypeOK
<1>2. Waiters(p)' \subseteq Waiters(p) /\ Waiters(p)' \cap woken = {}
    BY NoneAssumption DEF Leave, Waiters, TypeOK
<1>3. Woken(p) \subseteq Woken(p)'
    BY DEF Leave, Woken, TypeOK
<1>4. CASE Waiters(p)' = {}
    BY <1>4 DEF Oversleeping
<1>5. CASE Waiters(p)' # {}
    <2>1. PICK u \in Clients : pool'[u] = p
        BY <1>5 DEF Waiters
    <2>2. /\ idle'[p] = idles[p]
          /\ total'[p] = totals[p]
          /\ limit'[p] = limit[p]
        BY <2>1, DestructFields
    <2>3. Free(p)' <= Free(p) + k
        BY <1>1, <2>2 DEF Free
    <2>4. Cardinality(Woken(p)') >= Cardinality(Woken(p)) + k
        <3>1. CASE k = 0
            <4>1. Cardinality(Woken(p)) <= Cardinality(Woken(p)')
                BY <1>3, WokenFinite, FS_Subset
            <4>2. QED
                BY <3>1, <4>1, WokenFinite
        <3>2. CASE k = 1
            <4>1. PICK w \in Waiters(p) : woken = {w}
                BY <1>2, <1>5, <3>2 DEF NotifyOne
            <4>2. w \in Woken(p)' /\ w \notin Woken(p)
                BY <3>2, <4>1 DEF Leave, Waiters, Woken, TypeOK
            <4>3. Woken(p) \cup {w} \subseteq Woken(p)'
                BY <1>3, <4>2
            <4>4. Cardinality(Woken(p) \cup {w}) = Cardinality(Woken(p)) + 1
                BY <4>2, WokenFinite, FS_AddElement
            <4>5. Cardinality(Woken(p) \cup {w}) <= Cardinality(Woken(p)')
                BY <4>3, WokenFinite, FS_Subset
            <4>6. QED
                BY <3>2, <4>4, <4>5, WokenFinite
        <3>3. QED
            BY <3>1, <3>2
    <2>5. k \in Int
        OBVIOUS
    <2>6. QED
        BY <1>2, <2>3, <2>4, <2>5, StaysAwake
<1>6. QED
    BY <1>4, <1>5

\* A step that frees capacity while callers sleep, other than by raising the
\* limit or by a woken caller that gives up, wakes one of them.
LEMMA CapacityStep ==
    ASSUME CountingInv, CountingInv', [Next]_vars, NEW p \in Pools,
           ~Oversleeping(p), ~(limit'[p] > limit[p]),
           ~\E t \in Woken(p) : expired[t] /\ pc'[t] = "out"
    PROVE  ~Oversleeping(p)'
<1>1. TypeOK /\ TypeOK' /\ FrameOK
    BY DEF CountingInv
<1>2. /\ idle[p] \in Seq(Contexts) /\ Len(idle[p]) \in Nat
      /\ total[p] \in Nat /\ limit[p] \in Nat
    BY <1>1 DEF TypeOK
<1>3. ASSUME UNCHANGED mgrVars, Waiters(p)' = Waiters(p), Woken(p)' = Woken(p)
      PROVE  ~Oversleeping(p)'
    BY <1>3 DEF mgrVars, Free, Oversleeping
<1>4. ASSUME NEW t \in Clients, NEW s \in ConnStrings, AcquireStandalone(t, s)
      PROVE  ~Oversleeping(p)'
    <2>1. Waiters(p)' = Waiters(p) /\ Woken(p)' = Woken(p)
        BY <1>1, <1>4 DEF AcquireStandalone, Waiters, Woken, TypeOK
    <2>2. QED
        BY <1>3, <1>4, <2>1 DEF AcquireStandalone
<1>5. ASSUME NEW t \in Clients, NEW s \in ConnStrings, AcquireLookup(t, s)
      PROVE  ~Oversleeping(p)'
    <2>1. Waiters(p)' = Waiters(p) /\ Woken(p)' = Woken(p)
        BY <1>1, <1>5 DEF AcquireLookup, Waiters, Woken, TypeOK
    <2>2. QED
        BY <1>3, <1>5, <2>1 DEF AcquireLookup
<1>6. ASSUME NEW t \in Clients, NEW lim \in Limits, EnterPool(t, lim)
      PROVE  ~Oversleeping(p)'
    <2>1. PICK q \in Pools : pool[t] = q
        BY <1>1, <1>6 DEF EnterPool, FrameOK
    <2>2. /\ pc[t] \in {"entering", "woken"} /\ pool' = pool
          /\ limit' = [limit EXCEPT ![q] = RaisedLimit(q, lim)]
          /\ TryOnce(t, q, RaisedLimit(q, lim))
        BY <1>6, <2>1 DEF EnterPool
    <2>3. \A r \in Pools \ {q} : limit'[r] = limit[r]
        BY <1>1, <2>2 DEF TypeOK
    <2>4. CASE RaisedLimit(q, lim) = limit[q]
        <3>1. limit'[q] = limit[q] /\ TryOnce(t, q, limit[q])
            BY <1>1, <2>2, <2>4 DEF TypeOK
        <3>2. QED
            BY <1>1, <2>1, <2>2, <2>3, <3>1, TryOnceCapacity
    <2>5. CASE RaisedLimit(q, lim) # limit[q]
        <3>1. limit'[q] > limit[q]
            BY <1>1, <2>2, <2>5 DEF RaisedLimit, TypeOK
        <3>2. p # q
            BY <3>1
        <3>3. /\ idle'[p] = idle[p] /\ total'[p] = total[p] /\ limit'[p] = limit[p]
              /\ Waiters(p)' = Waiters(p) /\ Woken(p)' = Woken(p)
            BY <1>1, <2>1, <2>2, <2>3, <3>2
               DEF TryOnce, TakeIdle, ReserveSlot, WaitForSession, Waiters, Woken, TypeOK
        <3>4. QED
            BY <3>3 DEF Free, Oversleeping
    <2>6. QED
        BY <2>4, <2>5
<1>7. ASSUME NEW t \in Clients, Retry(t)
      PROVE  ~Oversleeping(p)'
    <2>1. PICK q \in Pools : pool[t] = q
        BY <1>1, <1>7 DEF Retry, FrameOK
    <2>2. /\ pc[t] \in {"entering", "woken"} /\ pool' = pool /\ limit' = limit
          /\ TryOnce(t, q, limit[q])
        BY <1>7, <2>1 DEF Retry
    <2>3. QED
        BY <1>1, <2>1, <2>2, TryOnceCapacity
<1>8. ASSUME NEW t \in Clients, WaitTimesOut(t)
      PROVE  ~Oversleeping(p)'
    <2>1. Leave(t, {}) /\ Destruct(idle, total, {}) /\ expired[t]
        BY <1>8 DEF WaitTimesOut
    <2>2. pc'[t] = "out"
        BY <1>1, <2>1 DEF Leave
    <2>3. ~(pc[t] = "woken" /\ pool[t] = p)
        BY <2>1, <2>2 DEF Woken
    <2>4. Len(idle[p]) - total[p] = Len(idle[p]) - total[p] + 0
        BY <1>2
    <2>5. QED
        BY <1>1, <1>2, <2>1, <2>3, <2>4, LeaveCapacity
<1>9. ASSUME NEW t \in Clients, NEW c \in Contexts, CreateSucceeds(t, c)
      PROVE  ~Oversleeping(p)'
    <2>1. Waiters(p)' = Waiters(p) /\ Woken(p)' = Woken(p)
        BY <1>1, <1>9 DEF CreateSucceeds, Waiters, Woken, TypeOK
    <2>2. QED
        BY <1>3, <1>9, <2>1 DEF CreateSucceeds
<1>10. ASSUME NEW t \in Clients, CreateFails(t)
       PROVE  ~Oversleeping(p)'
    <2>1. CASE pc[t] = "standalone" /\ Leave(t, {}) /\ UNCHANGED mgrVars
        <3>1. Waiters(p)' = Waiters(p) /\ Woken(p)' = Woken(p)
            BY <1>1, <2>1, NoneAssumption DEF Leave, Waiters, Woken, TypeOK
        <3>2. QED
            BY <1>3, <2>1, <3>1
    <2>2. CASE /\ pc[t] = "creating"
               /\ \E woken \in NotifyOne(pool[t]) : Leave(t, woken)
               /\ Destruct(idle, [total EXCEPT ![pool[t]] = total[pool[t]] - 1], {})
        <3>1. PICK q \in Pools : pool[t] = q
            BY <1>1, <2>2 DEF FrameOK
        <3>2. PICK woken \in NotifyOne(q) : Leave(t, woken)
            BY <2>2, <3>1
        <3>3. t \in SlotHolders(q)
            BY <2>2, <3>1 DEF SlotHolders
        <3>4. total[q] \in Nat /\ total[q] - 1 \in Nat
            <4>1. total[q] = Len(idle[q]) + Cardinality(SlotHolders(q))
                BY <3>1 DEF CountingInv, CountersOK
            <4>2. Cardinality(SlotHolders(q)) # 0
                BY <3>3, SlotHoldersFinite, FS_EmptySet
            <4>3. Len(idle[q]) \in Nat /\ total[q] \in Nat
                BY <1>1, <3>1 DEF TypeOK
            <4>4. QED
                BY <4>1, <4>2, <4>3, SlotHoldersFinite
        <3> DEFINE totals == [total EXCEPT ![q] = total[q] - 1]
        <3>5. totals[p] = IF p = q THEN total[p] - 1 ELSE total[p]
            BY <1>1 DEF TypeOK
        <3>6. Destruct(idle, totals, {})
            BY <2>2, <3>1
        <3>7. ~(pc[t] = "woken" /\ pool[t] = p) /\ pc[t] # "waiting"
            BY <2>2
        <3> HIDE DEF totals
        <3>8. CASE p = q
            <4>1. totals[p] \in Nat /\ Len(idle[p]) - totals[p] = Len(idle[p]) - total[p] + 1
                BY <1>2, <3>4, <3>5, <3>8
            <4>2. QED
                BY <1>1, <1>2, <3>2, <3>6, <3>7, <3>8, <4>1, LeaveCapacity
        <3>9. CASE p # q
            <4>1. totals[p] \in Nat /\ Len(idle[p]) - totals[p] = Len(idle[p]) - total[p] + 0
                BY <1>2, <3>5, <3>9
            <4>2. QED
                BY <1>1, <1>2, <3>2, <3>6, <3>7, <4>1, LeaveCapacity
        <3>10. QED
            BY <3>8, <3>9
    <2>3. QED
        BY <1>10, <2>1, <2>2 DEF CreateFails
<1>11. ASSUME NEW t \in Clients, Release(t)
       PROVE  ~Oversleeping(p)'
    <2>1. pc[t] = "using" /\ ~(pc[t] = "woken" /\ pool[t] = p) /\ pc[t] # "waiting"
        BY <1>11 DEF Release
    <2>2. CASE Leave(t, {}) /\ Destruct(idle, total, {ctx[t]})
        <3>1. Len(idle[p]) - total[p] = Len(idle[p]) - total[p] + 0
            BY <1>2
        <3>2. QED
            BY <1>1, <1>2, <2>1, <2>2, <3>1, LeaveCapacity
    <2>3. CASE /\ pool[t] # None
               /\ \E woken \in NotifyOne(pool[t]) : Leave(t, woken)
               /\ Destruct([idle EXCEPT ![pool[t]] = Append(idle[pool[t]], ctx[t])],
                           total, {})
        <3>1. PICK q \in Pools : pool[t] = q
            BY <1>1, <2>3 DEF TypeOK
        <3>2. PICK woken \in NotifyOne(q) : Leave(t, woken)
            BY <2>3, <3>1
        <3> DEFINE idles == [idle EXCEPT ![q] = Append(idle[q], ctx[t])]
        <3>3. idles[p] = IF p = q THEN Append(idle[p], ctx[t]) ELSE idle[p]
            BY <1>1 DEF TypeOK
        <3>4. Destruct(idles, total, {})
            BY <2>3, <3>1
        <3> HIDE DEF idles
        <3>5. CASE p = q
            <4>1. ctx[t] \in Contexts
                BY <1>1, <2>1 DEF FrameOK, TypeOK
            <4>2. Len(idles[p]) = Len(idle[p]) + 1
                BY <1>2, <3>3, <3>5, <4>1
            <4>3. Len(idles[p]) \in Nat /\ Len(idles[p]) - total[p] = Len(idle[p]) - total[p] + 1
                BY <1>2, <4>2
            <4>4. QED
                BY <1>1, <1>2, <2>1, <3>2, <3>4, <3>5, <4>3, LeaveCapacity
        <3>6. CASE p # q
            <4>1. Len(idles[p]) \in Nat /\ Len(idles[p]) - total[p] = Len(idle[p]) - total[p] + 0
                BY <1>2, <3>3, <3>6
            <4>2. QED
                BY <1>1, <1>2, <2>1, <3>2, <3>4, <4>1, LeaveCapacity
        <3>7. QED
            BY <3>5, <3>6
    <2>4. QED
        BY <1>11, <2>2, <2>3 DEF Release
<1>12. ASSUME Clear
       PROVE  ~Oversleeping(p)'
    <2>1. Destruct(idle, total, {}) /\ UNCHANGED clientVars
        BY <1>12 DEF Clear
    <2>2. Waiters(p)' = Waiters(p) /\ Woken(p)' = Woken(p)
        BY <2>1 DEF clientVars, Waiters, Woken
    <2>3. CASE \A t \in Clients : pool'[t] # p
        BY <2>3 DEF Waiters, Oversleeping
    <2>4. CASE idle'[p] = idle[p] /\ total'[p] = total[p] /\ limit'[p] = limit[p]
        BY <2>2, <2>4 DEF Free, Oversleeping
    <2>5. QED
        BY <2>1, <2>3, <2>4, DestructFields
<1>13. ASSUME NEW t \in Clients, Expire(t)
       PROVE  ~Oversleeping(p)'
    <2>1. Waiters(p)' = Waiters(p) /\ Woken(p)' = Woken(p)
        BY <1>13 DEF Expire, Waiters, Woken
    <2>2. QED
        BY <1>3, <1>13, <2>1 DEF Expire
<1>14. ASSUME NEW t \in Clients, SpuriousWake(t)
       PROVE  ~Oversleeping(p)'
    <2>1. Waiters(p)' \subseteq Waiters(p) /\ Woken(p) \subseteq Woken(p)'
        BY <1>1, <1>14 DEF SpuriousWake, Waiters, Woken, TypeOK
    <2>2. Cardinality(Woken(p)) <= Cardinality(Woken(p)')
        BY <2>1, WokenFinite, FS_Subset
    <2>3. Free(p)' = Free(p) /\ Free(p) \in Int
        BY <1>2, <1>14 DEF SpuriousWake, mgrVars, Free
    <2>4. Cardinality(Woken(p)') >= Cardinality(Woken(p)) + 0 /\ Free(p)' <= Free(p) + 0
        BY <2>2, <2>3, WokenFinite
    <2>5. QED
        BY <1>1, <2>1, <2>4, StaysAwake
<1>15. CASE UNCHANGED vars
    <2>1. Waiters(p)' = Waiters(p) /\ Woken(p)' = Woken(p)
        BY <1>15 DEF vars, Waiters, Woken
    <2>2. QED
        BY <1>3, <1>15, <2>1 DEF vars, mgrVars
<1>16. QED
    BY <1>4, <1>5, <1>6, <1>7, <1>8, <1>9, <1>10, <1>11, <1>12, <1>13, <1>14,
       <1>15 DEF Next

\* Wake-ups are lost only when a caller raises the limit or when a woken one
\* finds its deadline passed: releases and failed logins wake a sleeper.
THEOREM CapacityAnnounced == Spec => CapacityIsAnnounced
<1>1. CountingInv /\ CountingInv' /\ [Next]_vars
        => [\A p \in Pools :
              ~Oversleeping(p) /\ Oversleeping(p)'
                  => \/ limit'[p] > limit[p]
                     \/ \E t \in Woken(p) : expired[t] /\ pc'[t] = "out"]_vars
    BY CapacityStep
<1>2. QED
    BY <1>1, CountingInvariant, PTL DEF Spec, CapacityIsAnnounced
=============================================================================
