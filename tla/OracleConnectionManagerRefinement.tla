------------------ MODULE OracleConnectionManagerRefinement ------------------
(***************************************************************************)
(* Who owns an Oracle session, proved for any numbers of clients, pools,   *)
(* sessions and connection strings, and from it that the connection        *)
(* manager implements SessionPool.                                         *)
(***************************************************************************)
EXTENDS OracleConnectionManagerProofs

\* p is a pool of the connection string s.
Serves(p, s) ==
    \/ pools[s] = p
    \/ \E t \in Clients : pool[t] = p /\ req[t] = s

\* A pool belongs to one connection string for as long as it lives.
OneString ==
    \A p \in Pools : \A r, s \in ConnStrings : Serves(p, r) /\ Serves(p, s) => r = s

\* A pool nobody points to is empty, as a new one is.
UnreferencedEmpty ==
    \A p \in Pools : p \notin Referenced(pools, pool) => idle[p] = <<>>

\* What the handles own (ctxs) and what the idle lists keep (idles) are
\* different sessions, each of them once, and exactly the open ones (opens).
Separate(ctxs, idles, opens) ==
    /\ \A t, u \in Clients : ctxs[t] # None /\ ctxs[t] = ctxs[u] => t = u
    /\ \A t \in Clients, p \in Pools : \A i \in 1..Len(idles[p]) : ctxs[t] # idles[p][i]
    /\ \A p, q \in Pools : \A i \in 1..Len(idles[p]), j \in 1..Len(idles[q]) :
           idles[p][i] = idles[q][j] => p = q /\ i = j
    /\ \A c \in Contexts :
           opens[c] # None <=>
               \/ \E t \in Clients : ctxs[t] = c
               \/ \E p \in Pools : \E i \in 1..Len(idles[p]) : idles[p][i] = c

\* Idle sessions are logged in with the connection string of their pool.
IdleLogins(idles, opens) ==
    \A p \in Pools, s \in ConnStrings :
        Serves(p, s) => \A i \in 1..Len(idles[p]) : opens[idles[p][i]] = s

\* The inductive invariant.
SessionInv ==
    /\ CountingInv
    /\ OneString
    /\ UnreferencedEmpty
    /\ Separate(ctx, idle, opened)
    /\ IdleLogins(idle, opened)
    /\ OwnSession

\* A step that may have dropped references, seen without the destruction of
\* pools, has left the handles and the idle lists idles separate; then so they
\* are after it.
LEMMA DestructSeparate ==
    ASSUME NEW idles \in [Pools -> Seq(Contexts)], NEW totals, NEW dropped,
           TypeOK, Destruct(idles, totals, dropped),
           Separate(ctx', idles, [c \in Contexts |-> IF c \in dropped THEN None ELSE opened[c]])
    PROVE  /\ Separate(ctx', idle', opened')
           /\ UnreferencedEmpty'
<1> DEFINE dead  == Pools \ Referenced(pools', pool')
           opens == [c \in Contexts |-> IF c \in dropped THEN None ELSE opened[c]]
<1>1. /\ \A p \in Pools : p \in dead => idle'[p] = <<>>
      /\ \A p \in Pools : p \notin dead => idle'[p] = idles[p]
    BY DEF Destruct
<1>2. \A p \in Pools : p \in dead => Len(idle'[p]) = 0
    BY <1>1
<1>3. \A p \in Pools : \A i \in 1..Len(idle'[p]) :
          p \notin dead /\ i \in 1..Len(idles[p]) /\ idle'[p][i] = idles[p][i]
    BY <1>1, <1>2
<1>4. \A c \in Contexts :
          opened'[c] = IF \E p \in dead : c \in Elements(idles[p]) THEN None ELSE opens[c]
    <2>1. ASSUME NEW c \in Contexts
          PROVE  opened'[c] = IF \E p \in dead : c \in Elements(idles[p])
                              THEN None ELSE opens[c]
        <3>1. opened'[c] = IF c \in dropped \cup UNION {Elements(idles[p]) : p \in dead}
                           THEN None ELSE opened[c]
            BY DEF Destruct
        <3>2. c \in UNION {Elements(idles[p]) : p \in dead}
                <=> \E p \in dead : c \in Elements(idles[p])
            OBVIOUS
        <3>3. QED
            BY <3>1, <3>2
    <2>2. QED
        BY <2>1
<1>5. \A p : \A c : c \in Elements(idles[p]) <=> \E i \in 1..Len(idles[p]) : idles[p][i] = c
    BY DEF Elements
<1>6. UnreferencedEmpty'
    BY <1>1 DEF UnreferencedEmpty, Referenced
<1>7. /\ \A t, u \in Clients : ctx'[t] # None /\ ctx'[t] = ctx'[u] => t = u
      /\ \A t \in Clients, p \in Pools : \A i \in 1..Len(idles[p]) : ctx'[t] # idles[p][i]
      /\ \A p, q \in Pools : \A i \in 1..Len(idles[p]), j \in 1..Len(idles[q]) :
             idles[p][i] = idles[q][j] => p = q /\ i = j
      /\ \A c \in Contexts :
             opens[c] # None <=>
                 \/ \E t \in Clients : ctx'[t] = c
                 \/ \E p \in Pools : \E i \in 1..Len(idles[p]) : idles[p][i] = c
    BY DEF Separate
<1>8. dead \subseteq Pools
    OBVIOUS
<1> HIDE DEF dead, opens
<1>9. ASSUME NEW c \in Contexts
      PROVE  opened'[c] # None <=>
                 \/ \E t \in Clients : ctx'[t] = c
                 \/ \E p \in Pools : \E i \in 1..Len(idle'[p]) : idle'[p][i] = c
    <2>1. CASE \E p \in dead : c \in Elements(idles[p])
        <3>1. PICK p \in dead : \E i \in 1..Len(idles[p]) : idles[p][i] = c
            BY <1>5, <2>1
        <3>2. p \in Pools /\ opened'[c] = None
            BY <1>4, <1>8, <2>1
        <3>3. \A t \in Clients : ctx'[t] # c
            BY <1>7, <3>1, <3>2
        <3>4. \A q \in Pools : \A i \in 1..Len(idle'[q]) : idle'[q][i] # c
            BY <1>3, <1>7, <3>1, <3>2
        <3>5. QED
            BY <3>2, <3>3, <3>4
    <2>2. CASE ~ \E p \in dead : c \in Elements(idles[p])
        <3>1. opened'[c] = opens[c]
            BY <1>4, <2>2
        <3>2. (\E p \in Pools : \E i \in 1..Len(idles[p]) : idles[p][i] = c)
                <=> \E p \in Pools : \E i \in 1..Len(idle'[p]) : idle'[p][i] = c
            <4>1. ASSUME NEW p \in Pools, NEW i \in 1..Len(idles[p]), idles[p][i] = c
                  PROVE  i \in 1..Len(idle'[p]) /\ idle'[p][i] = c
                <5>1. p \notin dead
                    BY <1>5, <2>2, <4>1
                <5>2. QED
                    BY <1>1, <4>1, <5>1
            <4>2. ASSUME NEW p \in Pools, NEW i \in 1..Len(idle'[p]), idle'[p][i] = c
                  PROVE  i \in 1..Len(idles[p]) /\ idles[p][i] = c
                BY <1>3, <4>2
            <4>3. QED
                BY <4>1, <4>2
        <3>3. QED
            BY <1>7, <3>1, <3>2
    <2>3. QED
        BY <2>1, <2>2
<1>10. \A t \in Clients, p \in Pools : \A i \in 1..Len(idle'[p]) : ctx'[t] # idle'[p][i]
    BY <1>3, <1>7
<1>11. \A p, q \in Pools : \A i \in 1..Len(idle'[p]), j \in 1..Len(idle'[q]) :
           idle'[p][i] = idle'[q][j] => p = q /\ i = j
    BY <1>3, <1>7
<1>12. QED
    BY <1>6, <1>7, <1>9, <1>10, <1>11 DEF Separate

\* Idle lists that lost some of their elements, logins that stayed, and pools
\* that serve at most what they served before: the idle logins are still right.
LEMMA DestructLogins ==
    ASSUME NEW idles \in [Pools -> Seq(Contexts)], NEW totals, NEW dropped,
           TypeOK, Destruct(idles, totals, dropped),
           \A p \in Pools, s \in ConnStrings : Serves(p, s)' => Serves(p, s),
           Separate(ctx', idle', opened'),
           IdleLogins(idles, opened), OneString, OwnSession,
           req' \in [Clients -> ConnStrings \cup {None}],
           \A t \in Clients : ctx'[t] # None => ctx'[t] = ctx[t] /\ req'[t] = req[t]
    PROVE  /\ IdleLogins(idle, opened)'
           /\ OneString'
           /\ OwnSession'
<1>1. \A c \in Contexts : opened'[c] # None => opened'[c] = opened[c]
    BY DEF Destruct
<1>2. \A p \in Pools : idle'[p] = <<>> \/ idle'[p] = idles[p]
    BY DEF Destruct
<1>3. OneString'
    BY DEF OneString
<1>4. idle' \in [Pools -> Seq(Contexts)]
    BY DestructTypes, <1>2 DEF Destruct
<1>5. IdleLogins(idle, opened)'
    <2>1. SUFFICES ASSUME NEW p \in Pools, NEW s \in ConnStrings, Serves(p, s)',
                          NEW i \in 1..Len(idle'[p])
                   PROVE  opened'[idle'[p][i]] = s
        BY DEF IdleLogins
    <2>2. idle'[p] = idles[p] /\ idle'[p][i] \in Contexts
        BY <1>2, <1>4
    <2>3. opened'[idle'[p][i]] # None
        BY <2>2 DEF Separate
    <2>4. opened[idle'[p][i]] = s
        BY <2>1, <2>2 DEF IdleLogins
    <2>5. QED
        BY <1>1, <2>2, <2>3, <2>4
<1>6. OwnSession'
    <2>1. SUFFICES ASSUME NEW t \in Clients, ctx'[t] # None
                   PROVE  opened'[ctx'[t]] = req'[t]
        BY DEF OwnSession
    <2>2. ctx'[t] = ctx[t] /\ req'[t] = req[t] /\ ctx[t] \in Contexts
        BY <2>1 DEF TypeOK
    <2>3. opened'[ctx[t]] # None
        BY <2>2 DEF Separate
    <2>4. opened[ctx[t]] = req[t]
        BY <2>1, <2>2 DEF OwnSession
    <2>5. QED
        BY <1>1, <2>2, <2>3, <2>4
<1>7. QED
    BY <1>3, <1>5, <1>6
-----------------------------------------------------------------------------
(* How the operations move a session between handles and idle lists.       *)

\* A handle without a session takes the last one of an idle list.
LEMMA SeparateTaken ==
    ASSUME TypeOK, Separate(ctx, idle, opened), NEW t \in Clients, NEW p \in Pools,
           ctx[t] = None, TakeIdle(t, p)
    PROVE  /\ Separate(ctx', idle', opened)
           /\ \A q \in Pools : \A i \in 1..Len(idle'[q]) :
                  i \in 1..Len(idle[q]) /\ idle'[q][i] = idle[q][i]
           /\ Len(idle[p]) \in 1..Len(idle[p])
<1> DEFINE n == Len(idle[p])
<1>1. /\ idle[p] \in Seq(Contexts) /\ n \in Nat /\ n > 0
      /\ idle[p][n] \in Contexts /\ idle[p][n] # None
    BY NoneAssumption DEF TypeOK, TakeIdle
<1>2. /\ ctx'[t] = idle[p][n]
      /\ \A u \in Clients \ {t} : ctx'[u] = ctx[u]
    BY DEF TakeIdle, TypeOK
<1>3. /\ idle'[p] = SubSeq(idle[p], 1, n - 1)
      /\ \A q \in Pools \ {p} : idle'[q] = idle[q]
    BY DEF TakeIdle, TypeOK
<1>4. /\ Len(idle'[p]) = n - 1
      /\ \A i \in 1..(n - 1) : idle'[p][i] = idle[p][i]
    BY <1>1, <1>3
<1>5. \A q \in Pools : \A i \in 1..Len(idle'[q]) :
          /\ i \in 1..Len(idle[q]) /\ idle'[q][i] = idle[q][i]
          /\ q = p => i # n
    BY <1>1, <1>3, <1>4
<1>6. \A q \in Pools : \A i \in 1..Len(idle[q]) :
          (q = p => i # n) => i \in 1..Len(idle'[q]) /\ idle'[q][i] = idle[q][i]
    BY <1>1, <1>3, <1>4
<1>7. n \in 1..Len(idle[p])
    BY <1>1
<1> HIDE DEF n
<1>8. \A u \in Clients, v \in Clients : ctx'[u] # None /\ ctx'[u] = ctx'[v] => u = v
    BY <1>2, <1>7 DEF Separate
<1>9. \A u \in Clients, q \in Pools : \A i \in 1..Len(idle'[q]) : ctx'[u] # idle'[q][i]
    <2>1. ASSUME NEW u \in Clients, NEW q \in Pools, NEW i \in 1..Len(idle'[q])
          PROVE  ctx'[u] # idle'[q][i]
        <3>1. i \in 1..Len(idle[q]) /\ idle'[q][i] = idle[q][i] /\ (q = p => i # n)
            BY <1>5, <2>1
        <3>2. CASE u = t
            BY <1>2, <1>7, <3>1, <3>2 DEF Separate
        <3>3. CASE u # t
            BY <1>2, <3>1, <3>3 DEF Separate
        <3>4. QED
            BY <3>2, <3>3
    <2>2. QED
        BY <2>1
<1>10. \A q, r \in Pools : \A i \in 1..Len(idle'[q]), j \in 1..Len(idle'[r]) :
           idle'[q][i] = idle'[r][j] => q = r /\ i = j
    BY <1>5 DEF Separate
<1>11. ASSUME NEW c \in Contexts
       PROVE  opened[c] # None <=>
                  \/ \E u \in Clients : ctx'[u] = c
                  \/ \E q \in Pools : \E i \in 1..Len(idle'[q]) : idle'[q][i] = c
    <2>1. opened[c] # None <=>
              \/ \E u \in Clients : ctx[u] = c
              \/ \E q \in Pools : \E i \in 1..Len(idle[q]) : idle[q][i] = c
        BY DEF Separate
    <2>2. ASSUME NEW u \in Clients, ctx'[u] = c
          PROVE  opened[c] # None
        BY <1>2, <1>7, <2>1, <2>2
    <2>3. ASSUME NEW u \in Clients, ctx[u] = c
          PROVE  ctx'[u] = c
        BY <1>2, <2>3, NoneAssumption
    <2>4. ASSUME NEW q \in Pools, NEW i \in 1..Len(idle'[q]), idle'[q][i] = c
          PROVE  opened[c] # None
        BY <1>5, <2>1, <2>4
    <2>5. ASSUME NEW q \in Pools, NEW i \in 1..Len(idle[q]), idle[q][i] = c
          PROVE  \/ ctx'[t] = c
                 \/ i \in 1..Len(idle'[q]) /\ idle'[q][i] = c
        BY <1>2, <1>6, <2>5
    <2>6. QED
        BY <2>1, <2>2, <2>3, <2>4, <2>5
<1>12. QED
    BY <1>5, <1>7, <1>8, <1>9, <1>10, <1>11 DEF Separate, n

\* A handle without a session gets a new one.
LEMMA SeparateOpened ==
    ASSUME TypeOK, Separate(ctx, idle, opened), NEW t \in Clients, NEW c \in Contexts,
           NEW s \in ConnStrings, ctx[t] = None, opened[c] = None,
           ctx' = [ctx EXCEPT ![t] = c], opened' = [opened EXCEPT ![c] = s]
    PROVE  Separate(ctx', idle, opened')
<1>1. /\ ctx'[t] = c
      /\ \A u \in Clients \ {t} : ctx'[u] = ctx[u]
      /\ opened'[c] = s /\ s # None /\ c # None
      /\ \A d \in Contexts \ {c} : opened'[d] = opened[d]
    BY NoneAssumption DEF TypeOK
<1>2. /\ \A u \in Clients : ctx[u] # c
      /\ \A q \in Pools : \A i \in 1..Len(idle[q]) : idle[q][i] # c
    BY DEF Separate
<1>3. \A u, v \in Clients : ctx'[u] # None /\ ctx'[u] = ctx'[v] => u = v
    BY <1>1, <1>2 DEF Separate
<1>4. \A u \in Clients, q \in Pools : \A i \in 1..Len(idle[q]) : ctx'[u] # idle[q][i]
    BY <1>1, <1>2 DEF Separate
<1>5. ASSUME NEW d \in Contexts
      PROVE  opened'[d] # None <=>
                 \/ \E u \in Clients : ctx'[u] = d
                 \/ \E q \in Pools : \E i \in 1..Len(idle[q]) : idle[q][i] = d
    <2>1. CASE d = c
        BY <1>1, <2>1
    <2>2. CASE d # c
        <3>1. (\E u \in Clients : ctx'[u] = d) <=> \E u \in Clients : ctx[u] = d
            BY <1>1, <2>2, NoneAssumption
        <3>2. QED
            BY <1>1, <2>2, <3>1 DEF Separate
    <2>3. QED
        BY <2>1, <2>2
<1>6. QED
    BY <1>3, <1>4, <1>5 DEF Separate
\* A handle's session is put on top of an idle list.
LEMMA SeparateReturned ==
    ASSUME TypeOK, Separate(ctx, idle, opened), NEW t \in Clients, NEW p \in Pools,
           ctx[t] # None, ctx' = [ctx EXCEPT ![t] = None]
    PROVE  /\ [idle EXCEPT ![p] = Append(idle[p], ctx[t])] \in [Pools -> Seq(Contexts)]
           /\ Separate(ctx', [idle EXCEPT ![p] = Append(idle[p], ctx[t])], opened)
<1> DEFINE n     == Len(idle[p]) + 1
           idles == [idle EXCEPT ![p] = Append(idle[p], ctx[t])]
<1>1. idle[p] \in Seq(Contexts) /\ n \in Nat /\ n > 0 /\ ctx[t] \in Contexts
    BY DEF TypeOK
<1>2. /\ ctx'[t] = None
      /\ \A u \in Clients \ {t} : ctx'[u] = ctx[u]
    BY DEF TypeOK
<1>3. /\ idles \in [Pools -> Seq(Contexts)]
      /\ idles[p] = Append(idle[p], ctx[t])
      /\ \A q \in Pools \ {p} : idles[q] = idle[q]
    BY <1>1 DEF TypeOK
<1>4. /\ Len(idles[p]) = n /\ idles[p][n] = ctx[t]
      /\ \A i \in 1..Len(idle[p]) : i \in 1..n /\ idles[p][i] = idle[p][i]
      /\ \A i \in 1..n : i # n => i \in 1..Len(idle[p])
      /\ n \in 1..n
    BY <1>1, <1>3
<1> HIDE DEF n, idles
<1>5. \A q \in Pools : \A i \in 1..Len(idles[q]) :
          \/ q = p /\ i = n /\ idles[q][i] = ctx[t]
          \/ /\ i \in 1..Len(idle[q])
             /\ idles[q][i] = idle[q][i]
             /\ ctx[t] # idles[q][i]
    <2>1. \A q \in Pools : \A i \in 1..Len(idle[q]) : ctx[t] # idle[q][i]
        BY DEF Separate
    <2>2. \A q \in Pools \ {p} : \A i \in 1..Len(idles[q]) :
              i \in 1..Len(idle[q]) /\ idles[q][i] = idle[q][i]
        BY <1>3
    <2>3. \A i \in 1..Len(idles[p]) :
              \/ i = n /\ idles[p][i] = ctx[t]
              \/ i \in 1..Len(idle[p]) /\ idles[p][i] = idle[p][i]
        BY <1>4
    <2>4. QED
        BY <2>1, <2>2, <2>3
<1>6. \A q \in Pools : \A i \in 1..Len(idle[q]) :
          i \in 1..Len(idles[q]) /\ idles[q][i] = idle[q][i]
    BY <1>3, <1>4
<1>7. \A u, v \in Clients : ctx'[u] # None /\ ctx'[u] = ctx'[v] => u = v
    BY <1>2 DEF Separate
<1>8. ASSUME NEW u \in Clients, NEW q \in Pools, NEW i \in 1..Len(idles[q])
      PROVE  ctx'[u] # idles[q][i]
    <2>1. CASE u = t
        <3>1. idles[q][i] \in Contexts
            BY <1>3
        <3>2. QED
            BY <1>2, <2>1, <3>1, NoneAssumption
    <2>2. CASE u # t
        BY <1>2, <1>5, <2>2 DEF Separate
    <2>3. QED
        BY <2>1, <2>2
<1>9. ASSUME NEW q \in Pools, NEW r \in Pools,
             NEW i \in 1..Len(idles[q]), NEW j \in 1..Len(idles[r]),
             idles[q][i] = idles[r][j]
      PROVE  q = r /\ i = j
    <2>1. CASE q = p /\ i = n /\ idles[q][i] = ctx[t]
        BY <1>5, <1>9, <2>1
    <2>2. CASE /\ i \in 1..Len(idle[q])
               /\ idles[q][i] = idle[q][i]
               /\ ctx[t] # idles[q][i]
        <3>1. j \in 1..Len(idle[r]) /\ idles[r][j] = idle[r][j]
            BY <1>5, <1>9, <2>2
        <3>2. idle[q][i] = idle[r][j] => q = r /\ i = j
            BY <2>2, <3>1 DEF Separate
        <3>3. QED
            BY <1>9, <2>2, <3>1, <3>2
    <2>3. QED
        BY <1>5, <2>1, <2>2
<1>10. ASSUME NEW c \in Contexts
       PROVE  opened[c] # None <=>
                  \/ \E u \in Clients : ctx'[u] = c
                  \/ \E q \in Pools : \E i \in 1..Len(idles[q]) : idles[q][i] = c
    <2>1. opened[c] # None <=>
              \/ \E u \in Clients : ctx[u] = c
              \/ \E q \in Pools : \E i \in 1..Len(idle[q]) : idle[q][i] = c
        BY DEF Separate
    <2>2. ASSUME NEW u \in Clients, ctx'[u] = c
          PROVE  ctx[u] = c
        BY <1>2, <2>2, NoneAssumption
    <2>3. ASSUME NEW u \in Clients, ctx[u] = c
          PROVE  \/ ctx'[u] = c
                 \/ n \in 1..Len(idles[p]) /\ idles[p][n] = c
        BY <1>2, <1>4, <2>3
    <2>4. ASSUME NEW q \in Pools, NEW i \in 1..Len(idles[q]), idles[q][i] = c
          PROVE  opened[c] # None
        BY <1>5, <2>1, <2>4
    <2>5. ASSUME NEW q \in Pools, NEW i \in 1..Len(idle[q]), idle[q][i] = c
          PROVE  i \in 1..Len(idles[q]) /\ idles[q][i] = c
        BY <1>6, <2>5
    <2>6. QED
        BY <2>1, <2>2, <2>3, <2>4, <2>5
<1>11. Separate(ctx', idles, opened)
    BY <1>7, <1>8, <1>9, <1>10 DEF Separate
<1>12. QED
    BY <1>3, <1>11 DEF idles

\* A handle's session ends with it.
LEMMA SeparateEnded ==
    ASSUME TypeOK, Separate(ctx, idle, opened), NEW t \in Clients,
           ctx[t] # None, ctx' = [ctx EXCEPT ![t] = None]
    PROVE  Separate(ctx', idle,
                    [c \in Contexts |-> IF c \in {ctx[t]} THEN None ELSE opened[c]])
<1> DEFINE opens == [c \in Contexts |-> IF c \in {ctx[t]} THEN None ELSE opened[c]]
<1>1. ctx[t] \in Contexts
    BY DEF TypeOK
<1>2. /\ ctx'[t] = None
      /\ \A u \in Clients \ {t} : ctx'[u] = ctx[u]
    BY DEF TypeOK
<1>3. /\ opens[ctx[t]] = None
      /\ \A c \in Contexts \ {ctx[t]} : opens[c] = opened[c]
    BY <1>1
<1> HIDE DEF opens
<1>4. \A u, v \in Clients : ctx'[u] # None /\ ctx'[u] = ctx'[v] => u = v
    BY <1>2 DEF Separate
<1>5. ASSUME NEW u \in Clients, NEW q \in Pools, NEW i \in 1..Len(idle[q])
      PROVE  ctx'[u] # idle[q][i]
    <2>1. idle[q][i] \in Contexts
        BY DEF TypeOK
    <2>2. QED
        BY <1>2, <2>1, NoneAssumption DEF Separate
<1>6. ASSUME NEW c \in Contexts
      PROVE  opens[c] # None <=>
                 \/ \E u \in Clients : ctx'[u] = c
                 \/ \E q \in Pools : \E i \in 1..Len(idle[q]) : idle[q][i] = c
    <2>1. CASE c = ctx[t]
        <3>1. \A u \in Clients : ctx'[u] # c
            BY <1>1, <1>2, <2>1, NoneAssumption DEF Separate
        <3>2. QED
            BY <1>3, <2>1, <3>1 DEF Separate
    <2>2. CASE c # ctx[t]
        <3>1. (\E u \in Clients : ctx'[u] = c) <=> \E u \in Clients : ctx[u] = c
            BY <1>2, <2>2, NoneAssumption
        <3>2. QED
            BY <1>3, <2>2, <3>1 DEF Separate
    <2>3. QED
        BY <2>1, <2>2
<1>7. Separate(ctx', idle, opens)
    BY <1>4, <1>5, <1>6 DEF Separate
<1>8. QED
    BY <1>7 DEF opens
-----------------------------------------------------------------------------
(* The invariant.                                                          *)

\* A client leaves: what a time-out, a failed login and a release have in
\* common once it is known what became of its session.
LEMMA LeaveSessions ==
    ASSUME SessionInv, CountingInv', NEW t \in Clients, NEW woken,
           NEW idles \in [Pools -> Seq(Contexts)], NEW totals, NEW dropped,
           Leave(t, woken), pools' = pools, Destruct(idles, totals, dropped),
           Separate(ctx', idles,
                    [c \in Contexts |-> IF c \in dropped THEN None ELSE opened[c]]),
           IdleLogins(idles, opened)
    PROVE  SessionInv'
<1>1. TypeOK /\ FrameOK /\ OneString /\ OwnSession /\ TypeOK'
    BY DEF SessionInv, CountingInv
<1>2. Separate(ctx', idle', opened') /\ UnreferencedEmpty'
    BY <1>1, DestructSeparate
<1>3. ASSUME NEW p \in Pools, NEW s \in ConnStrings, Serves(p, s)'
      PROVE  Serves(p, s)
    BY <1>1, <1>3, NoneAssumption DEF Serves, Leave, TypeOK
<1>4. \A u \in Clients : ctx'[u] # None => ctx'[u] = ctx[u] /\ req'[u] = req[u]
    BY <1>1 DEF Leave, TypeOK
<1>5. req' \in [Clients -> ConnStrings \cup {None}]
    BY <1>1 DEF TypeOK
<1>6. IdleLogins(idle, opened)' /\ OneString' /\ OwnSession'
    BY <1>1, <1>2, <1>3, <1>4, <1>5, DestructLogins
<1>7. QED
    BY <1>2, <1>6 DEF SessionInv

\* The same for a client that has no session.
LEMMA LeaveWithoutSession ==
    ASSUME SessionInv, CountingInv', NEW t \in Clients, NEW woken, NEW totals,
           Leave(t, woken), pools' = pools, Destruct(idle, totals, {}),
           ctx[t] = None
    PROVE  SessionInv'
<1>1. ctx' = ctx
    BY DEF Leave, SessionInv, CountingInv, TypeOK
<1>2. [c \in Contexts |-> IF c \in {} THEN None ELSE opened[c]] = opened
    BY DEF SessionInv, CountingInv, TypeOK
<1>3. Separate(ctx', idle, [c \in Contexts |-> IF c \in {} THEN None ELSE opened[c]])
    BY <1>1, <1>2 DEF SessionInv
<1>4. IdleLogins(idle, opened) /\ idle \in [Pools -> Seq(Contexts)]
    BY DEF SessionInv, CountingInv, TypeOK
<1>5. QED
    BY <1>3, <1>4, LeaveSessions

\* One round of the loop in Acquire.
LEMMA TryOnceSessions ==
    ASSUME SessionInv, CountingInv', NEW t \in Clients, NEW p \in Pools, NEW lim,
           pc[t] \in {"entering", "woken"}, pool[t] = p,
           TryOnce(t, p, lim),
           UNCHANGED <<pools, pool, req, expired, opened>>
    PROVE  SessionInv'
<1>1. TypeOK /\ FrameOK /\ TypeOK'
    BY DEF SessionInv, CountingInv
<1>2. /\ OneString /\ UnreferencedEmpty /\ Separate(ctx, idle, opened)
      /\ IdleLogins(idle, opened) /\ OwnSession
    BY DEF SessionInv
<1>3. /\ \A q, s : Serves(q, s)' <=> Serves(q, s)
      /\ Referenced(pools, pool)' = Referenced(pools, pool)
    BY DEF Serves, Referenced
<1>4. OneString'
    BY <1>2, <1>3 DEF OneString
<1>5. CASE TakeIdle(t, p)
    <2>1. ctx[t] = None
        BY <1>1 DEF FrameOK
    <2>2. /\ Separate(ctx', idle', opened)
          /\ \A q \in Pools : \A i \in 1..Len(idle'[q]) :
                 i \in 1..Len(idle[q]) /\ idle'[q][i] = idle[q][i]
          /\ Len(idle[p]) \in 1..Len(idle[p])
        BY <1>1, <1>2, <1>5, <2>1, SeparateTaken
    <2>3. UnreferencedEmpty'
        <3>1. \A q \in Pools \ {p} : idle'[q] = idle[q]
            BY <1>1, <1>5 DEF TakeIdle, TypeOK
        <3>2. p \in Referenced(pools, pool)
            BY DEF Referenced
        <3>3. QED
            BY <1>2, <1>3, <3>1, <3>2 DEF UnreferencedEmpty
    <2>4. IdleLogins(idle, opened)'
        BY <1>2, <1>3, <2>2 DEF IdleLogins
    <2>5. OwnSession'
        <3>1. /\ ctx'[t] = idle[p][Len(idle[p])]
              /\ \A u \in Clients \ {t} : ctx'[u] = ctx[u]
            BY <1>1, <1>5 DEF TakeIdle, TypeOK
        <3>2. req[t] \in ConnStrings /\ Serves(p, req[t])
            BY <1>1 DEF FrameOK, TypeOK, Serves
        <3>3. opened[ctx'[t]] = req[t]
            BY <1>2, <2>2, <3>1, <3>2 DEF IdleLogins
        <3>4. QED
            BY <1>2, <3>1, <3>3 DEF OwnSession
    <2>6. QED
        BY <1>4, <2>2, <2>3, <2>4, <2>5 DEF SessionInv
<1>6. CASE ReserveSlot(t, p, lim) \/ WaitForSession(t, p, lim)
    <2>1. ctx' = ctx /\ idle' = idle
        BY <1>6 DEF ReserveSlot, WaitForSession
    <2>2. UnreferencedEmpty' /\ Separate(ctx, idle, opened)' /\ OwnSession'
        BY <1>2, <1>3, <2>1 DEF UnreferencedEmpty, Separate, OwnSession
    <2>3. IdleLogins(idle, opened)'
        BY <1>2, <1>3, <2>1 DEF IdleLogins
    <2>4. QED
        BY <1>4, <2>2, <2>3 DEF SessionInv
<1>7. QED
    BY <1>5, <1>6 DEF TryOnce
\* The session invariant holds initially ...
LEMMA SessionInit == Init => SessionInv
<1>1. SUFFICES ASSUME Init PROVE SessionInv
    OBVIOUS
<1>2. CountingInv
    BY <1>1, CountingInit
<1>3. \A p \in Pools : idle[p] = <<>> /\ Len(idle[p]) = 0
    BY <1>1 DEF Init
<1>4. \A p \in Pools, s \in ConnStrings : ~Serves(p, s)
    BY <1>1, NoneAssumption DEF Init, Serves
<1>5. OneString /\ IdleLogins(idle, opened) /\ UnreferencedEmpty
    BY <1>3, <1>4 DEF OneString, IdleLogins, UnreferencedEmpty
<1>6. Separate(ctx, idle, opened)
    BY <1>1, <1>3, NoneAssumption DEF Init, Separate
<1>7. OwnSession
    BY <1>1 DEF Init, OwnSession
<1>8. QED
    BY <1>2, <1>5, <1>6, <1>7 DEF SessionInv

\* ... and every step keeps it.
LEMMA SessionStep == SessionInv /\ [Next]_vars => SessionInv'
<1>1. SUFFICES ASSUME SessionInv, [Next]_vars
               PROVE  SessionInv'
    OBVIOUS
<1>2. CountingInv /\ CountingInv'
    BY <1>1, CountingStep DEF SessionInv
<1>3. TypeOK /\ FrameOK /\ TypeOK' /\ FrameOK'
    BY <1>2 DEF CountingInv
<1>4. /\ OneString /\ UnreferencedEmpty /\ Separate(ctx, idle, opened)
      /\ IdleLogins(idle, opened) /\ OwnSession
    BY <1>1 DEF SessionInv
<1>5. ASSUME NEW t \in Clients, NEW s \in ConnStrings, AcquireStandalone(t, s)
      PROVE  SessionInv'
    <2>1. UNCHANGED <<pools, idle, pool, ctx, opened>> /\ req' = [req EXCEPT ![t] = s]
        BY <1>5 DEF AcquireStandalone, mgrVars
    <2>2. pool[t] = None /\ ctx[t] = None
        BY <1>3, <1>5 DEF AcquireStandalone, FrameOK
    <2>3. \A p \in Pools, r \in ConnStrings : Serves(p, r)' => Serves(p, r)
        BY <1>3, <2>1, <2>2, NoneAssumption DEF Serves, TypeOK
    <2>4. OneString' /\ IdleLogins(idle, opened)'
        BY <1>4, <2>1, <2>3 DEF OneString, IdleLogins
    <2>5. UnreferencedEmpty' /\ Separate(ctx, idle, opened)'
        BY <1>4, <2>1 DEF UnreferencedEmpty, Referenced, Separate
    <2>6. OwnSession'
        BY <1>3, <1>4, <2>1, <2>2 DEF OwnSession, TypeOK
    <2>7. QED
        BY <1>2, <2>4, <2>5, <2>6 DEF SessionInv
<1>6. ASSUME NEW t \in Clients, NEW s \in ConnStrings, AcquireLookup(t, s)
      PROVE  SessionInv'
    <2>1. UNCHANGED <<idle, ctx, opened>> /\ req' = [req EXCEPT ![t] = s]
        BY <1>6 DEF AcquireLookup, mgrVars
    <2>2. pool[t] = None /\ ctx[t] = None
        BY <1>3, <1>6 DEF AcquireLookup, FrameOK
    <2>3. PICK p \in Pools :
              /\ pools' = [pools EXCEPT ![s] = p]
              /\ pool' = [pool EXCEPT ![t] = p]
              /\ \/ pools[s] = p
                 \/ pools[s] = None /\ p \notin Referenced(pools, pool)
        BY <1>3, <1>6 DEF AcquireLookup, TypeOK
    <2>4. \A r \in ConnStrings : Serves(p, r) => r = s
        BY <1>4, <2>3 DEF Serves, Referenced, OneString
    <2>5. \A q \in Pools, r \in ConnStrings : Serves(q, r)' => Serves(q, r) \/ (q = p /\ r = s)
        <3>1. ASSUME NEW q \in Pools, NEW r \in ConnStrings, Serves(q, r)'
              PROVE  Serves(q, r) \/ (q = p /\ r = s)
            <4>1. CASE pools'[r] = q
                BY <1>3, <2>3, <4>1 DEF Serves, TypeOK
            <4>2. CASE \E u \in Clients : pool'[u] = q /\ req'[u] = r
                BY <1>3, <2>1, <2>3, <4>2 DEF Serves, TypeOK
            <4>3. QED
                BY <3>1, <4>1, <4>2 DEF Serves
        <3>2. QED
            BY <3>1
    <2>6. OneString'
        BY <1>4, <2>4, <2>5 DEF OneString
    <2>7. IdleLogins(idle, opened)'
        <3>1. ASSUME NEW i \in 1..Len(idle[p])
              PROVE  opened[idle[p][i]] = s
            <4>1. CASE pools[s] = p
                BY <1>4, <4>1 DEF IdleLogins, Serves
            <4>2. CASE p \notin Referenced(pools, pool)
                <5>1. Len(idle[p]) = 0
                    BY <1>4, <4>2 DEF UnreferencedEmpty
                <5>2. QED
                    BY <3>1, <5>1
            <4>3. QED
                BY <2>3, <4>1, <4>2
        <3>2. QED
            BY <1>4, <2>1, <2>5, <3>1 DEF IdleLogins
    <2>8. UnreferencedEmpty'
        <3>1. ASSUME NEW q \in Pools, q \in Referenced(pools, pool)
              PROVE  q \in Referenced(pools, pool)'
            <4>1. CASE \E r \in ConnStrings : pools[r] = q
                <5>1. PICK r \in ConnStrings : pools[r] = q
                    BY <4>1
                <5>2. pools'[r] = q
                    BY <1>3, <2>3, <5>1, NoneAssumption DEF TypeOK
                <5>3. QED
                    BY <5>2 DEF Referenced
            <4>2. CASE \E u \in Clients : pool[u] = q
                <5>1. PICK u \in Clients : pool[u] = q
                    BY <4>2
                <5>2. u # t
                    BY <2>2, <5>1, NoneAssumption
                <5>3. pool'[u] = q
                    BY <1>3, <2>3, <5>1, <5>2 DEF TypeOK
                <5>4. QED
                    BY <5>3 DEF Referenced
            <4>3. QED
                BY <3>1, <4>1, <4>2 DEF Referenced
        <3>2. QED
            BY <1>4, <2>1, <3>1 DEF UnreferencedEmpty
    <2>9. Separate(ctx, idle, opened)'
        BY <1>4, <2>1 DEF Separate
    <2>10. OwnSession'
        BY <1>3, <1>4, <2>1, <2>2 DEF OwnSession, TypeOK
    <2>11. QED
        BY <1>2, <2>6, <2>7, <2>8, <2>9, <2>10 DEF SessionInv
<1>7. ASSUME NEW t \in Clients, NEW lim \in Limits, EnterPool(t, lim)
      PROVE  SessionInv'
    <2>1. PICK p \in Pools : pool[t] = p
        BY <1>3, <1>7 DEF EnterPool, FrameOK
    <2>2. /\ pc[t] \in {"entering", "woken"}
          /\ TryOnce(t, p, RaisedLimit(p, lim))
          /\ UNCHANGED <<pools, pool, req, expired, opened>>
        BY <1>7, <2>1 DEF EnterPool
    <2>3. QED
        BY <1>1, <1>2, <2>1, <2>2, TryOnceSessions
<1>8. ASSUME NEW t \in Clients, Retry(t)
      PROVE  SessionInv'
    <2>1. PICK p \in Pools : pool[t] = p
        BY <1>3, <1>8 DEF Retry, FrameOK
    <2>2. /\ pc[t] \in {"entering", "woken"}
          /\ TryOnce(t, p, limit[p])
          /\ UNCHANGED <<pools, pool, req, expired, opened>>
        BY <1>8, <2>1 DEF Retry
    <2>3. QED
        BY <1>1, <1>2, <2>1, <2>2, TryOnceSessions
<1>9. ASSUME NEW t \in Clients, WaitTimesOut(t)
      PROVE  SessionInv'
    <2>1. ctx[t] = None
        BY <1>3, <1>9 DEF WaitTimesOut, FrameOK
    <2>2. Leave(t, {}) /\ pools' = pools /\ Destruct(idle, total, {})
        BY <1>9 DEF WaitTimesOut
    <2>3. QED
        BY <1>1, <1>2, <2>1, <2>2, LeaveWithoutSession
<1>10. ASSUME NEW t \in Clients, NEW c \in Contexts, CreateSucceeds(t, c)
       PROVE  SessionInv'
    <2>1. /\ UNCHANGED <<pools, idle, pool, req>>
          /\ opened[c] = None
          /\ opened' = [opened EXCEPT ![c] = req[t]]
          /\ ctx' = [ctx EXCEPT ![t] = c]
        BY <1>10 DEF CreateSucceeds, mgrVars
    <2>2. ctx[t] = None /\ req[t] \in ConnStrings
        BY <1>3, <1>10 DEF CreateSucceeds, FrameOK, TypeOK
    <2>3. Separate(ctx, idle, opened)'
        BY <1>3, <1>4, <2>1, <2>2, SeparateOpened
    <2>4. OneString' /\ UnreferencedEmpty'
        BY <1>4, <2>1 DEF OneString, UnreferencedEmpty, Serves, Referenced
    <2>5. \A q \in Pools : \A i \in 1..Len(idle[q]) :
              idle[q][i] # c /\ opened'[idle[q][i]] = opened[idle[q][i]]
        BY <1>3, <1>4, <2>1 DEF Separate, TypeOK
    <2>6. IdleLogins(idle, opened)'
        BY <1>4, <2>1, <2>5 DEF IdleLogins, Serves
    <2>7. OwnSession'
        <3>1. \A u \in Clients \ {t} : ctx'[u] = ctx[u] /\ ctx[u] # c
            BY <1>3, <1>4, <2>1 DEF Separate, TypeOK
        <3>2. ctx'[t] = c /\ opened'[c] = req[t]
            BY <1>3, <2>1 DEF TypeOK
        <3>3. \A u \in Clients \ {t} :
                  ctx'[u] # None => opened'[ctx'[u]] = req'[u]
            BY <1>3, <1>4, <2>1, <3>1 DEF OwnSession, TypeOK
        <3>4. QED
            BY <2>1, <3>2, <3>3 DEF OwnSession
    <2>8. QED
        BY <1>2, <2>3, <2>4, <2>6, <2>7 DEF SessionInv
<1>11. ASSUME NEW t \in Clients, CreateFails(t)
       PROVE  SessionInv'
    <2>1. CASE /\ pc[t] = "standalone"
               /\ Leave(t, {})
               /\ UNCHANGED <<pools, mgrVars, opened>>
        <3>1. ctx[t] = None /\ pool[t] = None
            BY <1>3, <2>1 DEF FrameOK
        <3>2. UNCHANGED <<pools, idle, pool, ctx, opened>>
            BY <1>3, <2>1, <3>1 DEF mgrVars, Leave, TypeOK
        <3>3. \A u \in Clients \ {t} : req'[u] = req[u]
            BY <1>3, <2>1 DEF Leave, TypeOK
        <3>4. \A p \in Pools, r \in ConnStrings : Serves(p, r)' => Serves(p, r)
            BY <3>1, <3>2, <3>3, NoneAssumption DEF Serves
        <3>5. OneString' /\ IdleLogins(idle, opened)'
            BY <1>4, <3>2, <3>4 DEF OneString, IdleLogins
        <3>6. UnreferencedEmpty' /\ Separate(ctx, idle, opened)'
            BY <1>4, <3>2 DEF UnreferencedEmpty, Referenced, Separate
        <3>7. OwnSession'
            BY <1>4, <3>1, <3>2, <3>3 DEF OwnSession
        <3>8. QED
            BY <1>2, <3>5, <3>6, <3>7 DEF SessionInv
    <2>2. CASE /\ pc[t] = "creating"
               /\ \E woken \in NotifyOne(pool[t]) : Leave(t, woken)
               /\ UNCHANGED pools
               /\ Destruct(idle, [total EXCEPT ![pool[t]] = total[pool[t]] - 1], {})
        <3>1. ctx[t] = None
            BY <1>3, <2>2 DEF FrameOK
        <3>2. PICK woken : Leave(t, woken)
            BY <2>2
        <3>3. QED
            BY <1>1, <1>2, <2>2, <3>1, <3>2, LeaveWithoutSession
    <2>3. QED
        BY <1>11, <2>1, <2>2 DEF CreateFails
<1>12. ASSUME NEW t \in Clients, Release(t)
       PROVE  SessionInv'
    <2>1. ctx[t] # None /\ ctx[t] \in Contexts /\ pools' = pools
        BY <1>3, <1>12 DEF Release, FrameOK, TypeOK
    <2>2. CASE pool[t] = None /\ Leave(t, {}) /\ Destruct(idle, total, {ctx[t]})
        <3>1. ctx' = [ctx EXCEPT ![t] = None]
            BY <2>2 DEF Leave
        <3>2. Separate(ctx', idle,
                  [c \in Contexts |-> IF c \in {ctx[t]} THEN None ELSE opened[c]])
            BY <1>3, <1>4, <2>1, <3>1, SeparateEnded
        <3>3. idle \in [Pools -> Seq(Contexts)]
            BY <1>3 DEF TypeOK
        <3>4. QED
            BY <1>1, <1>2, <1>4, <2>1, <2>2, <3>2, <3>3, LeaveSessions
    <2>3. CASE /\ pool[t] # None
               /\ \E woken \in NotifyOne(pool[t]) : Leave(t, woken)
               /\ Destruct([idle EXCEPT ![pool[t]] = Append(idle[pool[t]], ctx[t])],
                           total, {})
        <3>1. PICK p \in Pools : pool[t] = p
            BY <1>3, <2>3 DEF TypeOK
        <3>2. PICK woken : Leave(t, woken)
            BY <2>3
        <3> DEFINE idles == [idle EXCEPT ![p] = Append(idle[p], ctx[t])]
        <3>3. ctx' = [ctx EXCEPT ![t] = None]
            BY <3>2 DEF Leave
        <3>4. idles \in [Pools -> Seq(Contexts)] /\ Separate(ctx', idles, opened)
            BY <1>3, <1>4, <2>1, <3>3, SeparateReturned
        <3>5. [c \in Contexts |-> IF c \in {} THEN None ELSE opened[c]] = opened
            BY <1>3 DEF TypeOK
        <3>6. Destruct(idles, total, {})
            BY <2>3, <3>1
        <3>7. opened[ctx[t]] = req[t] /\ req[t] \in ConnStrings
            BY <1>3, <1>4, <1>12, <2>1 DEF OwnSession, Release, FrameOK, TypeOK
        <3>8. Serves(p, req[t])
            BY <3>1, <3>7 DEF Serves
        <3>9. IdleLogins(idles, opened)
            <4>1. SUFFICES ASSUME NEW q \in Pools, NEW s \in ConnStrings, Serves(q, s),
                                  NEW i \in 1..Len(idles[q])
                           PROVE  opened[idles[q][i]] = s
                BY DEF IdleLogins
            <4>2. CASE q # p
                BY <1>3, <1>4, <4>1, <4>2 DEF IdleLogins, TypeOK
            <4>3. CASE q = p
                <5>1. s = req[t]
                    BY <1>4, <3>7, <3>8, <4>1, <4>3 DEF OneString
                <5>2. idle[p] \in Seq(Contexts) /\ idles[p] = Append(idle[p], ctx[t])
                    BY <1>3 DEF TypeOK
                <5>3. \/ i \in 1..Len(idle[p]) /\ idles[p][i] = idle[p][i]
                      \/ idles[p][i] = ctx[t]
                    BY <2>1, <4>1, <4>3, <5>2
                <5>4. QED
                    BY <1>4, <3>7, <3>8, <4>3, <5>1, <5>3 DEF IdleLogins
            <4>4. QED
                BY <4>2, <4>3
        <3> HIDE DEF idles
        <3>10. Separate(ctx', idles,
                   [c \in Contexts |-> IF c \in {} THEN None ELSE opened[c]])
            BY <3>4, <3>5
        <3>11. QED
            BY <1>1, <1>2, <2>1, <3>2, <3>4, <3>6, <3>9, <3>10, LeaveSessions
    <2>4. QED
        BY <1>12, <2>2, <2>3 DEF Release
<1>13. ASSUME Clear
       PROVE  SessionInv'
    <2>1. /\ pools' = [s \in ConnStrings |-> None]
          /\ UNCHANGED <<pool, ctx, req>>
          /\ Destruct(idle, total, {})
        BY <1>13 DEF Clear, clientVars
    <2>2. [c \in Contexts |-> IF c \in {} THEN None ELSE opened[c]] = opened
          /\ idle \in [Pools -> Seq(Contexts)]
        BY <1>3 DEF TypeOK
    <2>3. Separate(ctx', idle,
              [c \in Contexts |-> IF c \in {} THEN None ELSE opened[c]])
        BY <1>4, <2>1, <2>2
    <2>4. Separate(ctx', idle', opened') /\ UnreferencedEmpty'
        BY <1>3, <2>1, <2>2, <2>3, DestructSeparate
    <2>5. \A p \in Pools, s \in ConnStrings : Serves(p, s)' => Serves(p, s)
        BY <2>1, NoneAssumption DEF Serves
    <2>6. req' \in [Clients -> ConnStrings \cup {None}]
        BY <1>3 DEF TypeOK
    <2>7. \A u \in Clients : ctx'[u] # None => ctx'[u] = ctx[u] /\ req'[u] = req[u]
        BY <2>1
    <2>8. IdleLogins(idle, opened)' /\ OneString' /\ OwnSession'
        BY <1>3, <1>4, <2>1, <2>2, <2>4, <2>5, <2>6, <2>7, DestructLogins
    <2>9. QED
        BY <1>2, <2>4, <2>8 DEF SessionInv
<1>14. ASSUME UNCHANGED <<pools, idle, pool, ctx, req, opened>>
       PROVE  SessionInv'
    <2>1. OneString' /\ UnreferencedEmpty'
        BY <1>4, <1>14 DEF OneString, UnreferencedEmpty, Serves, Referenced
    <2>2. Separate(ctx, idle, opened)' /\ OwnSession'
        BY <1>4, <1>14 DEF Separate, OwnSession
    <2>3. IdleLogins(idle, opened)'
        BY <1>4, <1>14 DEF IdleLogins, Serves
    <2>4. QED
        BY <1>2, <2>1, <2>2, <2>3 DEF SessionInv
<1>15. ASSUME NEW t \in Clients, Expire(t) \/ SpuriousWake(t)
       PROVE  SessionInv'
    BY <1>14, <1>15 DEF Expire, SpuriousWake, mgrVars
<1>16. CASE UNCHANGED vars
    BY <1>14, <1>16 DEF vars
<1>17. QED
    BY <1>1, <1>5, <1>6, <1>7, <1>8, <1>9, <1>10, <1>11, <1>12, <1>13,
       <1>15, <1>16 DEF Next

\* Every reachable state satisfies the session invariant.
THEOREM SessionInvariant == Spec => []SessionInv
BY SessionInit, SessionStep, PTL DEF Spec
\* Two handles never share a session, and a pool never offers one that is in
\* use or offers one twice, whatever is released, cleared or timed out.
THEOREM ExclusiveCorrect == Spec => []ExclusiveSessions
<1>1. SessionInv => ExclusiveSessions
    <2>1. SUFFICES ASSUME SessionInv PROVE ExclusiveSessions
        OBVIOUS
    <2>2. ASSUME NEW t \in Clients, NEW p \in Pools
          PROVE  ctx[t] \notin Elements(idle[p])
        BY <2>1 DEF SessionInv, Separate, Elements
    <2>3. QED
        BY <2>1, <2>2 DEF SessionInv, Separate, ExclusiveSessions
<1>2. QED
    BY <1>1, SessionInvariant, PTL

\* The sessions open on the server are those a handle owns or a reachable pool
\* keeps: no step leaks one, and none ends one that is still to be used.
THEOREM LiveCorrect == Spec => []LiveSessions
<1>1. SessionInv => LiveSessions
    <2>1. SUFFICES ASSUME SessionInv, NEW c \in Contexts
                   PROVE  opened[c] # None <=>
                              \/ \E t \in Clients : ctx[t] = c
                              \/ \E p \in Referenced(pools, pool) \ {None} :
                                     c \in Elements(idle[p])
        BY DEF LiveSessions
    <2>2. Referenced(pools, pool) \ {None} \subseteq Pools
        BY <2>1 DEF SessionInv, CountingInv, TypeOK, Referenced
    <2>3. ASSUME NEW p \in Pools, c \in Elements(idle[p])
          PROVE  p \in Referenced(pools, pool) \ {None}
        <3>1. idle[p] # <<>>
            BY <2>3 DEF Elements
        <3>2. QED
            BY <2>1, <3>1, NoneAssumption DEF SessionInv, UnreferencedEmpty
    <2>4. \A p \in Pools : c \in Elements(idle[p])
                              <=> \E i \in 1..Len(idle[p]) : idle[p][i] = c
        BY DEF Elements
    <2>5. QED
        BY <2>1, <2>2, <2>3, <2>4 DEF SessionInv, Separate
<1>2. QED
    BY <1>1, SessionInvariant, PTL

\* A handle's session is logged in with the connection string its user asked
\* for, even when Clear has dropped the pool meanwhile.
THEOREM OwnSessionCorrect == Spec => []OwnSession
<1>1. SessionInv => OwnSession
    BY DEF SessionInv
<1>2. QED
    BY <1>1, SessionInvariant, PTL

-----------------------------------------------------------------------------
(* The refinement of SessionPool.                                          *)

\* The owner of a session, seen from the handles.
OwnersAre ==
    \A c \in Contexts :
        /\ \A t \in Clients : OwnerOf(c) = t <=> ctx[t] = c
        /\ OwnerOf(c) = None <=> \A t \in Clients : ctx[t] # c
        /\ OwnerOf(c) \in Clients \cup {None}

LEMMA Owners == SessionInv => OwnersAre
<1>1. SUFFICES ASSUME SessionInv, NEW c \in Contexts
               PROVE  /\ \A t \in Clients : OwnerOf(c) = t <=> ctx[t] = c
                      /\ OwnerOf(c) = None <=> \A t \in Clients : ctx[t] # c
                      /\ OwnerOf(c) \in Clients \cup {None}
    BY DEF OwnersAre
<1>2. c # None
    BY NoneAssumption
<1>3. CASE \E t \in Clients : ctx[t] = c
    <2>1. PICK t \in Clients : ctx[t] = c
        BY <1>3
    <2>2. OwnerOf(c) \in Clients /\ ctx[OwnerOf(c)] = c
        BY <1>3 DEF OwnerOf
    <2>3. \A u \in Clients : ctx[u] = c => u = OwnerOf(c)
        BY <1>1, <1>2, <2>2 DEF SessionInv, Separate
    <2>4. QED
        BY <2>1, <2>2, <2>3, NoneAssumption
<1>4. CASE ~ \E t \in Clients : ctx[t] = c
    BY <1>4, NoneAssumption DEF OwnerOf
<1>5. QED
    BY <1>3, <1>4

LEMMA OwnersNext == SessionInv' => OwnersAre'
BY Owners, PTL
\* A step that keeps every handle's session, and every login except those it
\* ends, closes sessions nobody uses.
LEMMA ClosesUnused ==
    ASSUME SessionInv, SessionInv', ctx' = ctx,
           \A c \in Contexts : opened'[c] \in {None, opened[c]}
    PROVE  \E closed \in SUBSET Contexts : Abstract!Close(closed)
<1> DEFINE closed == {c \in Contexts : opened'[c] = None}
<1>1. TypeOK /\ TypeOK' /\ OwnersAre /\ Separate(ctx', idle', opened')
    BY Owners DEF SessionInv, CountingInv
<1>2. \A c \in closed : Abstract!Unused(c)
    <2>1. SUFFICES ASSUME NEW c \in Contexts, opened'[c] = None
                   PROVE  OwnerOf(c) = None
        BY DEF Abstract!Unused
    <2>2. \A t \in Clients : ctx[t] # c
        BY <1>1, <2>1 DEF Separate
    <2>3. QED
        BY <1>1, <2>2 DEF OwnersAre
<1>3. opened' = [c \in Contexts |-> IF c \in closed THEN None ELSE opened[c]]
    BY <1>1 DEF TypeOK
<1>4. [c \in Contexts |-> OwnerOf(c)]' = [c \in Contexts |-> OwnerOf(c)]
    BY DEF OwnerOf
<1>5. closed \in SUBSET Contexts
    OBVIOUS
<1> HIDE DEF closed
<1>6. Abstract!Close(closed)
    BY <1>2, <1>3, <1>4 DEF Abstract!Close
<1>7. QED
    BY <1>5, <1>6

\* A client with no session gets an open one that nobody uses.
LEMMA TakesUnused ==
    ASSUME SessionInv, SessionInv', NEW t \in Clients, NEW p \in Pools,
           ctx[t] = None, TakeIdle(t, p), opened' = opened
    PROVE  \E c \in Contexts : Abstract!Reuse(t, c)
<1>1. TypeOK /\ OwnersAre /\ OwnersAre' /\ Separate(ctx, idle, opened)
    BY Owners, OwnersNext DEF SessionInv, CountingInv
<1>2. Len(idle[p]) \in 1..Len(idle[p])
    BY <1>1, SeparateTaken
<1>3. idle[p][Len(idle[p])] \in Contexts
    BY <1>1, <1>2 DEF TypeOK
<1>4. PICK c \in Contexts : c = idle[p][Len(idle[p])]
    BY <1>3
<1>5. opened[c] # None /\ \A u \in Clients : ctx[u] # c
    BY <1>1, <1>2, <1>4 DEF Separate
<1>6. ctx'[t] = c /\ \A u \in Clients \ {t} : ctx'[u] = ctx[u]
    BY <1>1, <1>4 DEF TakeIdle, TypeOK
<1>7. \A d \in Contexts : OwnerOf(d)' = IF d = c THEN t ELSE OwnerOf(d)
    <2>1. SUFFICES ASSUME NEW d \in Contexts
                   PROVE  OwnerOf(d)' = IF d = c THEN t ELSE OwnerOf(d)
        OBVIOUS
    <2>2. CASE d = c
        BY <1>1, <1>6, <2>2 DEF OwnersAre
    <2>3. CASE d # c
        <3>1. d # None
            BY NoneAssumption
        <3>2. \A u \in Clients : ctx'[u] = d <=> ctx[u] = d
            BY <1>6, <2>3, <3>1
        <3>3. QED
            BY <1>1, <2>3, <3>2 DEF OwnersAre
    <2>4. QED
        BY <2>2, <2>3
<1>8. \A d \in Contexts : OwnerOf(d) # t
    BY <1>1, NoneAssumption DEF OwnersAre
<1>9. OwnerOf(c) = None
    BY <1>1, <1>5 DEF OwnersAre
<1>10. [d \in Contexts |-> OwnerOf(d)]' = [[d \in Contexts |-> OwnerOf(d)] EXCEPT ![c] = t]
    BY <1>7
<1>11. Abstract!Reuse(t, c)
    BY <1>5, <1>8, <1>9, <1>10 DEF Abstract!Reuse, Abstract!Unused
<1>12. QED
    BY <1>11
\* A client with no session logs in with a new one.
LEMMA OpensNew ==
    ASSUME SessionInv, SessionInv', NEW t \in Clients, NEW c \in Contexts,
           CreateSucceeds(t, c)
    PROVE  \E s \in ConnStrings : Abstract!Open(t, c, s)
<1>1. TypeOK /\ FrameOK /\ OwnersAre /\ OwnersAre' /\ Separate(ctx, idle, opened)
    BY Owners, OwnersNext DEF SessionInv, CountingInv
<1>2. PICK s \in ConnStrings : s = req[t]
    BY <1>1 DEF CreateSucceeds, FrameOK, TypeOK
<1>3. /\ ctx[t] = None /\ opened[c] = None /\ opened' = [opened EXCEPT ![c] = s]
      /\ ctx'[t] = c /\ \A u \in Clients \ {t} : ctx'[u] = ctx[u]
    BY <1>1, <1>2 DEF CreateSucceeds, FrameOK, TypeOK
<1>4. \A d \in Contexts : OwnerOf(d)' = IF d = c THEN t ELSE OwnerOf(d)
    <2>1. SUFFICES ASSUME NEW d \in Contexts
                   PROVE  OwnerOf(d)' = IF d = c THEN t ELSE OwnerOf(d)
        OBVIOUS
    <2>2. CASE d = c
        BY <1>1, <1>3, <2>2 DEF OwnersAre
    <2>3. CASE d # c
        <3>1. d # None
            BY NoneAssumption
        <3>2. \A u \in Clients : ctx'[u] = d <=> ctx[u] = d
            BY <1>3, <2>3, <3>1
        <3>3. QED
            BY <1>1, <2>3, <3>2 DEF OwnersAre
    <2>4. QED
        BY <2>2, <2>3
<1>5. \A d \in Contexts : OwnerOf(d) # t
    BY <1>1, <1>3, NoneAssumption DEF OwnersAre
<1>6. [d \in Contexts |-> OwnerOf(d)]' = [[d \in Contexts |-> OwnerOf(d)] EXCEPT ![c] = t]
    BY <1>4
<1>7. Abstract!Open(t, c, s)
    BY <1>3, <1>5, <1>6 DEF Abstract!Open
<1>8. QED
    BY <1>7

\* A client gives its session up; those that end with the step are its own
\* and sessions nobody uses.
LEMMA GivesUp ==
    ASSUME SessionInv, SessionInv', NEW t \in Clients, NEW woken,
           ctx[t] # None, Leave(t, woken),
           \A c \in Contexts : opened'[c] \in {None, opened[c]}
    PROVE  \E c \in Contexts, closed \in SUBSET Contexts : Abstract!GiveUp(t, c, closed)
<1> DEFINE closed == {c \in Contexts : opened'[c] = None}
<1>1. /\ TypeOK /\ TypeOK' /\ OwnersAre /\ OwnersAre'
      /\ Separate(ctx, idle, opened) /\ Separate(ctx', idle', opened')
    BY Owners, OwnersNext DEF SessionInv, CountingInv
<1>2. PICK c \in Contexts : c = ctx[t]
    BY <1>1 DEF TypeOK
<1>3. ctx'[t] = None /\ \A u \in Clients \ {t} : ctx'[u] = ctx[u]
    BY <1>1 DEF Leave, TypeOK
<1>4. \A d \in Contexts : OwnerOf(d)' = IF d = c THEN None ELSE OwnerOf(d)
    <2>1. SUFFICES ASSUME NEW d \in Contexts
                   PROVE  OwnerOf(d)' = IF d = c THEN None ELSE OwnerOf(d)
        OBVIOUS
    <2>2. d # None
        BY NoneAssumption
    <2>3. CASE d = c
        <3>1. \A u \in Clients : ctx'[u] # d
            BY <1>1, <1>2, <1>3, <2>2, <2>3 DEF Separate
        <3>2. QED
            BY <1>1, <2>3, <3>1 DEF OwnersAre
    <2>4. CASE d # c
        <3>1. \A u \in Clients : ctx'[u] = d <=> ctx[u] = d
            BY <1>2, <1>3, <2>2, <2>4
        <3>2. QED
            BY <1>1, <2>4, <3>1 DEF OwnersAre
    <2>5. QED
        BY <2>3, <2>4
<1>5. OwnerOf(c) = t
    BY <1>1, <1>2 DEF OwnersAre
<1>6. \A d \in closed : d = c \/ OwnerOf(d) = None
    <2>1. SUFFICES ASSUME NEW d \in Contexts, opened'[d] = None, d # c
                   PROVE  OwnerOf(d) = None
        OBVIOUS
    <2>2. \A u \in Clients : ctx'[u] # d
        BY <1>1, <2>1 DEF Separate
    <2>3. \A u \in Clients : ctx[u] # d
        BY <1>2, <1>3, <2>1, <2>2
    <2>4. QED
        BY <1>1, <2>3 DEF OwnersAre
<1>7. opened' = [d \in Contexts |-> IF d \in closed THEN None ELSE opened[d]]
    BY <1>1 DEF TypeOK
<1>8. closed \in SUBSET Contexts
    OBVIOUS
<1>9. [d \in Contexts |-> OwnerOf(d)]' = [[d \in Contexts |-> OwnerOf(d)] EXCEPT ![c] = None]
    BY <1>4
<1> HIDE DEF closed
<1>10. Abstract!GiveUp(t, c, closed)
    BY <1>5, <1>6, <1>7, <1>8, <1>9 DEF Abstract!GiveUp, Abstract!Unused
<1>11. QED
    BY <1>8, <1>10

\* The manager starts as a session pool does ...
LEMMA RefinementInit == Init => Abstract!SessionPoolInit
<1>1. SUFFICES ASSUME Init PROVE Abstract!SessionPoolInit
    OBVIOUS
<1>2. \A c \in Contexts : OwnerOf(c) = None
    BY <1>1, NoneAssumption DEF Init, OwnerOf
<1>3. QED
    BY <1>1, <1>2 DEF Init, Abstract!SessionPoolInit

\* ... and every step of it is a step of a session pool, or none.
LEMMA RefinementStep ==
    SessionInv /\ SessionInv' /\ [Next]_vars
        => [Abstract!SessionPoolNext]_(Abstract!poolVars)
<1>1. SUFFICES ASSUME SessionInv, SessionInv', [Next]_vars
               PROVE  [Abstract!SessionPoolNext]_(Abstract!poolVars)
    OBVIOUS
<1>2. TypeOK /\ FrameOK
    BY <1>1 DEF SessionInv, CountingInv
<1>3. ASSUME ctx' = ctx, opened' = opened
      PROVE  UNCHANGED Abstract!poolVars
    BY <1>3 DEF Abstract!poolVars, OwnerOf
<1>4. ASSUME ctx' = ctx, NEW idles, NEW totals, Destruct(idles, totals, {})
      PROVE  Abstract!SessionPoolNext
    <2>1. \A c \in Contexts : opened'[c] \in {None, opened[c]}
        BY <1>4 DEF Destruct
    <2>2. QED
        BY <1>1, <1>4, <2>1, ClosesUnused DEF Abstract!SessionPoolNext
<1>5. ASSUME NEW t \in Clients, NEW s \in ConnStrings,
             AcquireStandalone(t, s) \/ AcquireLookup(t, s)
      PROVE  UNCHANGED Abstract!poolVars
    BY <1>3, <1>5 DEF AcquireStandalone, AcquireLookup
<1>6. ASSUME NEW t \in Clients, NEW lim, NEW p \in Pools, pool[t] = p,
             pc[t] \in {"entering", "woken"}, TryOnce(t, p, lim), opened' = opened
      PROVE  [Abstract!SessionPoolNext]_(Abstract!poolVars)
    <2>1. CASE TakeIdle(t, p)
        <3>1. ctx[t] = None
            BY <1>2, <1>6 DEF FrameOK
        <3>2. QED
            BY <1>1, <1>6, <2>1, <3>1, TakesUnused DEF Abstract!SessionPoolNext
    <2>2. CASE ReserveSlot(t, p, lim) \/ WaitForSession(t, p, lim)
        BY <1>3, <1>6, <2>2 DEF ReserveSlot, WaitForSession
    <2>3. QED
        BY <1>6, <2>1, <2>2 DEF TryOnce
<1>7. ASSUME NEW t \in Clients, NEW lim \in Limits, EnterPool(t, lim)
      PROVE  [Abstract!SessionPoolNext]_(Abstract!poolVars)
    <2>1. PICK p \in Pools : pool[t] = p
        BY <1>2, <1>7 DEF EnterPool, FrameOK
    <2>2. /\ pc[t] \in {"entering", "woken"} /\ opened' = opened
          /\ TryOnce(t, p, RaisedLimit(p, lim))
        BY <1>7, <2>1 DEF EnterPool
    <2>3. QED
        BY <1>6, <2>1, <2>2
<1>8. ASSUME NEW t \in Clients, Retry(t)
      PROVE  [Abstract!SessionPoolNext]_(Abstract!poolVars)
    <2>1. PICK p \in Pools : pool[t] = p
        BY <1>2, <1>8 DEF Retry, FrameOK
    <2>2. /\ pc[t] \in {"entering", "woken"} /\ opened' = opened
          /\ TryOnce(t, p, limit[p])
        BY <1>8, <2>1 DEF Retry
    <2>3. QED
        BY <1>6, <2>1, <2>2
<1>9. ASSUME NEW t \in Clients, WaitTimesOut(t)
      PROVE  Abstract!SessionPoolNext
    <2>1. ctx' = ctx
        BY <1>2, <1>9 DEF WaitTimesOut, FrameOK, Leave, TypeOK
    <2>2. Destruct(idle, total, {})
        BY <1>9 DEF WaitTimesOut
    <2>3. QED
        BY <1>4, <2>1, <2>2
<1>10. ASSUME NEW t \in Clients, NEW c \in Contexts, CreateSucceeds(t, c)
       PROVE  Abstract!SessionPoolNext
    BY <1>1, <1>10, OpensNew DEF Abstract!SessionPoolNext
<1>11. ASSUME NEW t \in Clients, CreateFails(t)
       PROVE  [Abstract!SessionPoolNext]_(Abstract!poolVars)
    <2>1. ctx' = ctx
        BY <1>2, <1>11 DEF CreateFails, FrameOK, Leave, TypeOK
    <2>2. CASE opened' = opened
        BY <1>3, <2>1, <2>2
    <2>3. CASE Destruct(idle, [total EXCEPT ![pool[t]] = total[pool[t]] - 1], {})
        BY <1>4, <2>1, <2>3
    <2>4. QED
        BY <1>11, <2>2, <2>3 DEF CreateFails
<1>12. ASSUME NEW t \in Clients, Release(t)
       PROVE  Abstract!SessionPoolNext
    <2>1. PICK woken : Leave(t, woken)
        BY <1>12 DEF Release
    <2>2. ctx[t] # None
        BY <1>2, <1>12 DEF Release, FrameOK
    <2>3. \A c \in Contexts : opened'[c] \in {None, opened[c]}
        BY <1>12 DEF Release, Destruct
    <2>4. QED
        BY <1>1, <2>1, <2>2, <2>3, GivesUp DEF Abstract!SessionPoolNext
<1>13. ASSUME Clear
       PROVE  Abstract!SessionPoolNext
    <2>1. ctx' = ctx /\ Destruct(idle, total, {})
        BY <1>13 DEF Clear, clientVars
    <2>2. QED
        BY <1>4, <2>1
<1>14. ASSUME NEW t \in Clients, Expire(t) \/ SpuriousWake(t)
       PROVE  UNCHANGED Abstract!poolVars
    BY <1>3, <1>14 DEF Expire, SpuriousWake
<1>15. CASE UNCHANGED vars
    BY <1>3, <1>15 DEF vars
<1>16. QED
    BY <1>1, <1>5, <1>7, <1>8, <1>9, <1>10, <1>11, <1>12, <1>13, <1>14, <1>15
       DEF Next

\* OracleConnectionManager implements SessionPool: whatever its users are
\* promised there, they get.
THEOREM Refinement == Spec => ImplementsSessionPool
<1>1. SessionInv /\ SessionInv' /\ [Next]_vars
          => [Abstract!SessionPoolNext]_(Abstract!poolVars)
    BY RefinementStep
<1>2. QED
    BY <1>1, RefinementInit, SessionInvariant, PTL
       DEF Spec, ImplementsSessionPool, Abstract!SessionPoolSpec
=============================================================================
