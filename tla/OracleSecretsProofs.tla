-------------------------- MODULE OracleSecretsProofs --------------------------
(***************************************************************************)
(* Proofs about OracleSecrets, for any secrets, connection strings,        *)
(* wallets and numbers of ATTACH statements side by side.                  *)
(***************************************************************************)
EXTENDS OracleSecrets, SequenceTheorems, TLAPS

\* Nobody, or one who attached.
Attacher(x) ==
    \/ x = None
    \/ x = [string |-> x.string, secret |-> x.secret, replaced |-> x.replaced]

\* The process has the wallet of the secret unless it was replaced since.
HasWallet(x, wallet) ==
    x # None /\ x.secret # None /\ x.secret.wallet # None /\ ~x.replaced
        => wallet = x.secret.wallet

IInv ==
    /\ DOMAIN attaching = Threads
    /\ \A t \in Threads : Attacher(attaching[t]) /\ HasWallet(attaching[t], tns_admin)
    /\ Attacher(state) /\ HasWallet(state, tns_admin)
    /\ WalletUntilReplaced

-----------------------------------------------------------------------------

\* Setting the flag leaves an attacher.
LEMMA FlagSet ==
    ASSUME NEW x, NEW y,
           x = [string |-> x.string, secret |-> x.secret, replaced |-> x.replaced],
           y = [x EXCEPT !.replaced = TRUE]
    PROVE  y = [string |-> y.string, secret |-> y.secret, replaced |-> y.replaced] /\ y.replaced
<1>1. y.string = x.string /\ y.secret = x.secret /\ y.replaced = TRUE
    OBVIOUS
<1>2. y = [string |-> x.string, secret |-> x.secret, replaced |-> TRUE]
    OBVIOUS
<1>3. QED
    BY <1>1, <1>2

\* Replacing the wallet leaves an attacher whose flag says so, unless the new
\* wallet is its own.
LEMMA ReplacedFacts ==
    ASSUME NEW x, NEW wallet, Attacher(x)
    PROVE  Attacher(Replaced(x, wallet)) /\ HasWallet(Replaced(x, wallet), wallet)
<1>1. CASE x = None
    BY <1>1 DEF Replaced, Attacher, HasWallet
<1>2. CASE x # None /\ (x.secret = None \/ x.secret.wallet = wallet)
    BY <1>2 DEF Replaced, Attacher, HasWallet
<1>3. CASE x # None /\ x.secret # None /\ x.secret.wallet # wallet
    <2>1. x = [string |-> x.string, secret |-> x.secret, replaced |-> x.replaced]
        BY <1>3 DEF Attacher
    <2> DEFINE y == [x EXCEPT !.replaced = TRUE]
    <2>2. y = [string |-> y.string, secret |-> y.secret, replaced |-> y.replaced] /\ y.replaced
        BY <2>1, FlagSet
    <2>3. Replaced(x, wallet) = y
        BY Zenon, <1>3 DEF Replaced
    <2> HIDE DEF y
    <2>4. QED
        BY <2>2, <2>3 DEF Attacher, HasWallet
<1>4. QED
    BY <1>1, <1>2, <1>3

\* setenv keeps everybody in order.
LEMMA SetWalletStep ==
    ASSUME IInv, NEW wallet, NEW threads, SetWallet(wallet, threads), login' = login,
           \A t \in Threads : Attacher(threads[t])
    PROVE  IInv'
<1>1. \A t \in Threads : attaching'[t] = Replaced(threads[t], wallet)
    BY DEF SetWallet
<1>2. DOMAIN attaching' = Threads /\ tns_admin' = wallet /\ state' = Replaced(state, wallet)
    BY DEF SetWallet
<1>3. \A t \in Threads : Attacher(attaching'[t]) /\ HasWallet(attaching'[t], tns_admin')
    BY <1>1, <1>2, ReplacedFacts
<1>4. Attacher(state') /\ HasWallet(state', tns_admin')
    BY <1>2, ReplacedFacts DEF IInv
<1>5. WalletUntilReplaced'
    BY DEF IInv, WalletUntilReplaced
<1>6. QED
    BY <1>2, <1>3, <1>4, <1>5 DEF IInv, Attacher, HasWallet

\* A login uses the wallet the process has.
LEMMA LoginStep ==
    ASSUME WalletUntilReplaced, NEW string, Login(string), state' # None,
           HasWallet(state', tns_admin)
    PROVE  WalletUntilReplaced'
<1>1. CASE login' = login
    BY <1>1 DEF WalletUntilReplaced
<1>2. CASE login' = [wallet |-> tns_admin, by |-> state']
    <2>1. login'.wallet = tns_admin /\ login'.by = state'
        BY <1>2
    <2>2. SUFFICES ASSUME login' # None, state'.secret # None, state'.secret.wallet # None,
                          ~state'.replaced
                   PROVE  tns_admin = state'.secret.wallet
        BY <2>1 DEF WalletUntilReplaced
    <2>3. QED
        BY <2>2 DEF HasWallet
<1>3. QED
    BY <1>1, <1>2 DEF Login

-----------------------------------------------------------------------------

\* Nobody has logged in yet.
LEMMA InitIInv == Init => IInv
    BY DEF Init, IInv, Attacher, HasWallet, WalletUntilReplaced

\* What ATTACH makes is an attacher, without a wallet if it has no secret.
LEMMA AttachedFacts ==
    ASSUME NEW string, NEW params
    PROVE  /\ Attacher(Attached(string, params))
           /\ Attached(string, params).secret = params
<1>1. Attacher(Attached(string, params))
    BY DEF Attacher, Attached
<1>2. QED
    BY <1>1 DEF Attached

\* ATTACH that leaves TNS_ADMIN alone.
LEMMA AttachStep ==
    ASSUME IInv, NEW t \in Threads, NEW string, NEW params,
           params = None \/ params.wallet = None,
           attaching' = [attaching EXCEPT ![t] = Attached(string, params)],
           UNCHANGED <<tns_admin, state, login>>
    PROVE  IInv'
<1> DEFINE x == Attached(string, params)
<1>1. Attacher(x) /\ x.secret = params
    BY AttachedFacts
<1> HIDE DEF x
<1>2. HasWallet(x, tns_admin)
    BY <1>1 DEF HasWallet
<1>3. DOMAIN attaching' = Threads
    BY DEF IInv
<1>4. \A u \in Threads : attaching'[u] = IF u = t THEN x ELSE attaching[u]
    BY DEF IInv, x
<1>5. \A u \in Threads : Attacher(attaching'[u]) /\ HasWallet(attaching'[u], tns_admin')
    <2> TAKE u \in Threads
    <2>1. CASE u = t
        BY <1>1, <1>2, <1>4, <2>1
    <2>2. CASE u # t
        BY <1>4, <2>2 DEF IInv
    <2>3. QED
        BY <2>1, <2>2
<1>6. Attacher(state') /\ HasWallet(state', tns_admin')
    BY DEF IInv
<1>7. WalletUntilReplaced'
    BY DEF IInv, WalletUntilReplaced
<1>8. QED
    BY <1>3, <1>5, <1>6, <1>7 DEF IInv, Attacher, HasWallet

\* ATTACH from a secret.
LEMMA AttachFromSecretStep ==
    ASSUME IInv, NEW t \in Threads, NEW name \in Names, AttachFromSecret(t, name)
    PROVE  IInv'
<1> DEFINE params == secrets[name]
           string == BuildConnectionString(params)
           threads == [attaching EXCEPT ![t] = Attached(string, params)]
<1>1. CASE params.wallet = None
    <2>1. attaching' = threads /\ UNCHANGED <<tns_admin, state, login>>
        BY <1>1 DEF AttachFromSecret
    <2> HIDE DEF params, string
    <2>2. QED
        BY <1>1, <2>1, AttachStep
<1>2. CASE params.wallet # None
    <2>1. SetWallet(params.wallet, threads) /\ login' = login
        BY <1>2 DEF AttachFromSecret
    <2>2. Attacher(Attached(string, params))
        BY AttachedFacts
    <2>3. \A u \in Threads : Attacher(threads[u])
        <3> DEFINE x == Attached(string, params)
        <3> TAKE u \in Threads
        <3>1. threads[u] = IF u = t THEN x ELSE attaching[u]
            <4>1. DOMAIN attaching = Threads
                BY DEF IInv
            <4>2. threads = [attaching EXCEPT ![t] = x]
                OBVIOUS
            <4> HIDE DEF x, threads
            <4>3. QED
                BY <4>1, <4>2
        <3> HIDE DEF x, threads
        <3>2. CASE u = t
            BY <2>2, <3>1, <3>2 DEF x
        <3>3. CASE u # t
            BY <3>1, <3>3 DEF IInv
        <3>4. QED
            BY <3>2, <3>3
    <2> HIDE DEF params, threads
    <2>4. QED
        BY <2>1, <2>3, SetWalletStep
<1>3. QED
    BY <1>1, <1>2

\* The first ATTACH leaves the state, and every one logs in.
LEMMA FinishAttachStep ==
    ASSUME IInv, NEW t \in Threads, FinishAttach(t)
    PROVE  IInv'
<1>1. /\ state' = IF state = None THEN attaching[t] ELSE state
      /\ attaching[t] # None
      /\ attaching' = [attaching EXCEPT ![t] = None]
      /\ Login(state'.string) /\ tns_admin' = tns_admin
    BY DEF FinishAttach
<1>2. Attacher(state') /\ HasWallet(state', tns_admin) /\ state' # None
    <2>1. CASE state = None
        BY <1>1, <2>1 DEF IInv
    <2>2. CASE state # None
        BY <1>1, <2>2 DEF IInv
    <2>3. QED
        BY <2>1, <2>2
<1>3. \A u \in Threads : attaching'[u] \in {None, attaching[u]}
    BY <1>1 DEF IInv
<1>4. \A u \in Threads : Attacher(attaching'[u]) /\ HasWallet(attaching'[u], tns_admin)
    <2>1. Attacher(None) /\ HasWallet(None, tns_admin)
        BY DEF Attacher, HasWallet
    <2>2. QED
        BY <1>3, <2>1 DEF IInv
<1>5. WalletUntilReplaced'
    BY <1>1, <1>2, LoginStep DEF IInv
<1>6. DOMAIN attaching' = Threads
    BY <1>1 DEF IInv
<1>7. QED
    BY <1>1, <1>2, <1>4, <1>5, <1>6 DEF IInv, Attacher, HasWallet

\* A later login.
LEMMA LogInAgainStep ==
    ASSUME IInv, LogInAgain
    PROVE  IInv'
<1>1. state # None /\ UNCHANGED <<state, tns_admin, attaching>> /\ Login(state.string)
    BY DEF LogInAgain
<1>2. HasWallet(state', tns_admin) /\ state' # None
    BY <1>1 DEF IInv, HasWallet
<1>3. WalletUntilReplaced'
    BY <1>1, <1>2, LoginStep DEF IInv
<1>4. QED
    BY <1>1, <1>3 DEF IInv, Attacher, HasWallet

\* oracle_attach_wallet.
LEMMA AttachWalletStep ==
    ASSUME IInv, NEW wallet \in Wallets, OracleAttachWallet(wallet)
    PROVE  IInv'
<1>1. SetWallet(wallet, attaching) /\ login' = login
    BY DEF OracleAttachWallet
<1>2. \A t \in Threads : Attacher(attaching[t])
    BY DEF IInv
<1>3. QED
    BY <1>1, <1>2, SetWalletStep

\* No step breaks the invariant.
LEMMA NextIInv == IInv /\ [Next]_vars => IInv'
<1> SUFFICES ASSUME IInv, [Next]_vars PROVE IInv'
    OBVIOUS
<1>1. ASSUME NEW t \in Threads, NEW name \in Names, AttachFromSecret(t, name) PROVE IInv'
    BY <1>1, AttachFromSecretStep
<1>2. ASSUME NEW t \in Threads, NEW path \in Paths, AttachFromPath(t, path) PROVE IInv'
    <2>1. attaching' = [attaching EXCEPT ![t] = Attached(path, None)]
              /\ UNCHANGED <<tns_admin, state, login>>
        BY <1>2 DEF AttachFromPath
    <2>2. QED
        BY <2>1, AttachStep
<1>3. ASSUME NEW t \in Threads, FinishAttach(t) PROVE IInv'
    BY <1>3, FinishAttachStep
<1>4. CASE LogInAgain
    BY <1>4, LogInAgainStep
<1>5. ASSUME NEW wallet \in Wallets, OracleAttachWallet(wallet) PROVE IInv'
    BY <1>5, AttachWalletStep
<1>6. ASSUME UNCHANGED <<tns_admin, attaching, state, login>> PROVE IInv'
    BY <1>6 DEF IInv, WalletUntilReplaced, Attacher, HasWallet
<1>7. CASE \E name \in Names : DropSecret(name) \/ \E input \in Inputs : CreateOracleSecret(name, input)
    BY <1>6, <1>7 DEF DropSecret, CreateOracleSecret
<1>8. CASE UNCHANGED vars
    BY <1>6, <1>8 DEF vars
<1>9. QED
    BY <1>1, <1>2, <1>3, <1>4, <1>5, <1>7, <1>8 DEF Next

-----------------------------------------------------------------------------

\* TNS_ADMIN belongs to the process; still, every login of a database attached
\* from a secret with a wallet uses that wallet until somebody names another,
\* however many ATTACH statements interleave between setenv and login
\* (oracle_secret.cpp:128).
THEOREM WalletKept == Spec => []WalletUntilReplaced
<1>1. IInv => WalletUntilReplaced
    BY DEF IInv
<1>2. QED
    BY InitIInv, NextIInv, <1>1, PTL DEF Spec

-----------------------------------------------------------------------------

\* The parts of strings; the constants are among them whatever a prover knows
\* of STRING.
Text == STRING \cup {"localhost"}

\* What an option list leaves unsaid has its default.
LEMMA ParamsType ==
    ASSUME NEW p \in Params
    PROVE  /\ p.user \in Seq(Text) /\ p.password \in Seq(Text)
           /\ p.service \in Seq(Text) /\ p.host \in Seq(Text)
           /\ p.wallet \in Wallets \cup {None}
<1>1. PICK input \in Inputs : p = ParseOracleSecret(input)
    BY DEF Params
<1>2. /\ DOMAIN input \subseteq {"user", "password", "service", "database", "host", "port", "wallet"}
      /\ \A name \in DOMAIN input \ {"port", "wallet"} : input[name] \in Seq(STRING)
      /\ "wallet" \in DOMAIN input => input["wallet"] \in Wallets
    BY SecretsAssumption
<1>3. <<>> \in Seq(Text) /\ <<"localhost">> \in Seq(Text)
    BY DEF Text
<1>4. \A s \in Seq(STRING) : s \in Seq(Text)
    BY SeqMonotonic DEF Text
<1>5. /\ Option(input, "user", <<>>) \in Seq(Text)
      /\ Option(input, "password", <<>>) \in Seq(Text)
      /\ Option(input, "service", <<>>) \in Seq(Text)
      /\ Option(input, "database", <<>>) \in Seq(Text)
      /\ Option(input, "host", <<"localhost">>) \in Seq(Text)
    BY <1>2, <1>3, <1>4 DEF Option
<1>6. Option(input, "wallet", None) \in Wallets \cup {None}
    BY <1>2 DEF Option
<1>7. QED
    BY <1>1, <1>5, <1>6 DEF ParseOracleSecret

\* The first of a set of positions.
LEMMA FirstPosition ==
    ASSUME NEW S, NEW first \in S, \A i \in S : first <= i, S \subseteq Nat
    PROVE  Min(S) = first
<1>1. Min(S) \in S /\ \A i \in S : Min(S) <= i
    <2> DEFINE Least(x) == x \in S /\ \A i \in S : x <= i
    <2>1. Min(S) = CHOOSE x : Least(x)
        BY Zenon DEF Min
    <2>2. Least(first)
        OBVIOUS
    <2>3. Least(CHOOSE x : Least(x))
        BY Zenon, <2>2
    <2>4. QED
        BY <2>1, <2>3
<1>2. Min(S) \in Nat /\ first \in Nat /\ Min(S) <= first /\ first <= Min(S)
    BY <1>1
<1>3. QED
    BY <1>2

\* Find returns a position that has the character, if none before it does.
LEMMA FindFirst ==
    ASSUME NEW string, NEW char, Len(string) \in Nat, NEW from \in Nat, from > 0,
           NEW first \in from..Len(string), string[first] = char,
           \A i \in from..(first - 1) : string[i] # char
    PROVE  Find(string, char, from) = first
<1> DEFINE found == {i \in from..Len(string) : string[i] = char}
<1>1. first \in found /\ found \subseteq Nat
    OBVIOUS
<1>2. \A i \in found : first <= i
    OBVIOUS
<1>3. Find(string, char, from) = IF found = {} THEN 0 ELSE Min(found)
    BY DEF Find
<1> HIDE DEF found
<1>4. QED
    BY <1>1, <1>2, <1>3, FirstPosition

\* A stretch of a string that has the parts of s is s.
LEMMA Stretch ==
    ASSUME NEW S, NEW s \in Seq(S), NEW string, NEW m \in Int,
           \A i \in 1..Len(s) : string[m + i - 1] = s[i]
    PROVE  SubSeq(string, m, m + Len(s) - 1) = s
<1> DEFINE n == m + Len(s) - 1
           sub == SubSeq(string, m, n)
<1>1. Len(s) \in Nat /\ n \in Int
    OBVIOUS
<1>2. \A i \in m..n : string[i] \in S
    <2> TAKE i \in m..n
    <2>1. i - m + 1 \in 1..Len(s) /\ m + (i - m + 1) - 1 = i
        BY <1>1
    <2>2. string[i] = s[i - m + 1]
        BY <2>1
    <2>3. QED
        BY <2>1, <2>2, ElementOfSeq
<1>3. /\ sub \in Seq(S)
      /\ Len(sub) = IF m <= n THEN n - m + 1 ELSE 0
      /\ \A i \in 1..(n - m + 1) : sub[i] = string[m + i - 1]
    BY <1>1, <1>2, SubSeqProperties
<1> HIDE DEF sub
<1>4. Len(sub) = Len(s) /\ \A i \in 1..Len(s) : sub[i] = s[i]
    BY <1>1, <1>3
<1>5. sub = s
    BY <1>3, <1>4, SeqEqual
<1>6. QED
    BY <1>5 DEF sub

\* What a concatenation has at each position.
LEMMA ConcatAt ==
    ASSUME NEW S, NEW s \in Seq(S), NEW t \in Seq(S), NEW st, st = s \o t
    PROVE  /\ st \in Seq(S) /\ Len(st) = Len(s) + Len(t)
           /\ \A i \in 1..(Len(s) + Len(t)) :
                 st[i] = IF i <= Len(s) THEN s[i] ELSE t[i - Len(s)]
    BY ConcatProperties

\* A connection string by its parts; the separators have names because what
\* they are matters only where the string is built and parsed.
Slash == "/"
At == "@"
Colon == ":"
Logon(user, password, db) == user \o <<Slash>> \o password \o <<At>> \o db

\* Where the parts of a string are.
Laid(string, user, password, db) ==
    /\ Len(string) = Len(user) + Len(password) + 2 + Len(db)
    /\ \A i \in 1..Len(user) : string[i] = user[i]
    /\ string[Len(user) + 1] = Slash
    /\ \A i \in 1..Len(password) : string[Len(user) + 1 + i] = password[i]
    /\ string[Len(user) + Len(password) + 2] = At
    /\ \A i \in 1..Len(db) : string[Len(user) + Len(password) + 2 + i] = db[i]

\* Where the parts of a connection string are.
LEMMA Positions ==
    ASSUME NEW S, NEW user \in Seq(S), NEW password \in Seq(S), NEW db \in Seq(S),
           Slash \in S, At \in S,
           NEW string, string = Logon(user, password, db)
    PROVE  Laid(string, user, password, db)
<1> DEFINE a == user \o <<Slash>>
           b == a \o password
           c == b \o <<At>>
<1>1. Len(user) \in Nat /\ Len(password) \in Nat /\ Len(db) \in Nat
    OBVIOUS
<1>2. /\ <<Slash>> \in Seq(S) /\ Len(<<Slash>>) = 1 /\ <<Slash>>[1] = Slash
      /\ <<At>> \in Seq(S) /\ Len(<<At>>) = 1 /\ <<At>>[1] = At
    OBVIOUS
<1>3. /\ a \in Seq(S) /\ Len(a) = Len(user) + 1
      /\ \A i \in 1..(Len(user) + 1) :
            a[i] = IF i <= Len(user) THEN user[i] ELSE <<Slash>>[i - Len(user)]
    BY <1>2, ConcatProperties
<1>a. a \in Seq(S)
    BY <1>3
<1> HIDE DEF a
<1>4. /\ b \in Seq(S) /\ Len(b) = Len(a) + Len(password)
      /\ \A i \in 1..(Len(a) + Len(password)) :
            b[i] = IF i <= Len(a) THEN a[i] ELSE password[i - Len(a)]
    BY <1>a, ConcatProperties
<1>b. b \in Seq(S)
    BY <1>4
<1> HIDE DEF b
<1>5. /\ c \in Seq(S) /\ Len(c) = Len(b) + 1
      /\ \A i \in 1..(Len(b) + 1) :
            c[i] = IF i <= Len(b) THEN b[i] ELSE <<At>>[i - Len(b)]
    BY <1>2, <1>b, ConcatProperties
<1>c. c \in Seq(S)
    BY <1>5
<1> HIDE DEF c
<1>6. string = c \o db
    BY DEF a, b, c, Logon
<1>7. /\ Len(string) = Len(c) + Len(db)
      /\ \A i \in 1..(Len(c) + Len(db)) :
            string[i] = IF i <= Len(c) THEN c[i] ELSE db[i - Len(c)]
    BY <1>c, <1>6, ConcatAt
<1>d. /\ Len(a) = Len(user) + 1 /\ Len(b) = Len(a) + Len(password) /\ Len(c) = Len(b) + 1
      /\ Len(a) \in Nat /\ Len(b) \in Nat /\ Len(c) \in Nat
    BY <1>1, <1>3, <1>4, <1>5
<1>e. \A i \in 1..Len(c) : string[i] = c[i]
    <2>1. \A i \in 1..Len(c) : i \in 1..(Len(c) + Len(db)) /\ i <= Len(c)
        BY <1>1, <1>d
    <2>2. QED
        BY <2>1, <1>7
<1>f. \A i \in 1..Len(b) : string[i] = b[i]
    <2>1. \A i \in 1..Len(b) : i \in 1..Len(c) /\ i \in 1..(Len(b) + 1) /\ i <= Len(b)
        BY <1>d
    <2>2. QED
        BY <2>1, <1>e, <1>5
<1>g. \A i \in 1..Len(a) : string[i] = a[i]
    <2>1. \A i \in 1..Len(a) :
              i \in 1..Len(b) /\ i \in 1..(Len(a) + Len(password)) /\ i <= Len(a)
        BY <1>1, <1>d
    <2>2. QED
        BY <2>1, <1>f, <1>4
<1>8. \A i \in 1..Len(user) : string[i] = user[i]
    <2>1. \A i \in 1..Len(user) :
              i \in 1..Len(a) /\ i \in 1..(Len(user) + 1) /\ i <= Len(user)
        BY <1>1, <1>d
    <2>2. QED
        BY <2>1, <1>g, <1>3
<1>9. string[Len(user) + 1] = Slash
    <2>1. string[Len(user) + 1] = a[Len(user) + 1]
        BY <1>1, <1>d, <1>g
    <2>2. QED
        BY <2>1, <1>1, <1>2, <1>3
<1>10. \A i \in 1..Len(password) : string[Len(user) + 1 + i] = password[i]
    <2> TAKE i \in 1..Len(password)
    <2>1. string[Len(user) + 1 + i] = b[Len(a) + i]
        <3>1. Len(a) + i \in 1..Len(b) /\ Len(user) + 1 + i = Len(a) + i
            BY <1>1, <1>d
        <3>2. QED
            BY <3>1, <1>f
    <2>2. b[Len(a) + i] = password[i]
        <3>1. Len(a) \in Nat /\ Len(a) + i - Len(a) = i
            BY <1>1, <1>3
        <3>2. Len(a) + i \in 1..(Len(a) + Len(password)) /\ ~(Len(a) + i <= Len(a))
            BY <1>1, <3>1
        <3>3. QED
            BY <3>1, <3>2, <1>4
    <2>3. QED
        BY <2>1, <2>2
<1>11. string[Len(user) + Len(password) + 2] = At
    <2>1. string[Len(user) + Len(password) + 2] = c[Len(b) + 1]
        <3>1. Len(b) + 1 \in 1..Len(c) /\ Len(user) + Len(password) + 2 = Len(b) + 1
            BY <1>1, <1>d
        <3>2. QED
            BY <3>1, <1>e
    <2>2. c[Len(b) + 1] = <<At>>[1]
        <3>1. Len(b) \in Nat
            BY <1>1, <1>3, <1>4
        <3>2. Len(b) + 1 \in 1..(Len(b) + 1) /\ ~(Len(b) + 1 <= Len(b)) /\ Len(b) + 1 - Len(b) = 1
            BY <3>1
        <3>3. QED
            BY <3>2, <1>5
    <2>3. QED
        BY <2>1, <2>2, <1>2
<1>12. \A i \in 1..Len(db) : string[Len(user) + Len(password) + 2 + i] = db[i]
    <2> TAKE i \in 1..Len(db)
    <2>1. string[Len(c) + i] = db[i]
        <3>1. Len(c) \in Nat /\ Len(c) + i - Len(c) = i
            BY <1>1, <1>3, <1>4, <1>5
        <3>2. Len(c) + i \in 1..(Len(c) + Len(db)) /\ ~(Len(c) + i <= Len(c))
            BY <1>1, <3>1
        <3>3. QED
            BY <3>1, <3>2, <1>7
    <2>2. Len(user) + Len(password) + 2 + i = Len(c) + i
        BY <1>1, <1>d
    <2>3. QED
        BY <2>1, <2>2
<1>13. Len(string) = Len(user) + Len(password) + 2 + Len(db)
    <2>1. Len(string) = Len(c) + Len(db)
        BY <1>7
    <2>2. QED
        BY <2>1, <1>1, <1>d
<1>14. QED
    BY Zenon, <1>8, <1>9, <1>10, <1>11, <1>12, <1>13 DEF Laid

\* A login gets back user, password and what follows the second separator.
LEMMA LogonParses ==
    ASSUME NEW S, NEW user \in Seq(S), NEW password \in Seq(S), NEW db \in Seq(S),
           Slash \in S, At \in S, user # <<>>, password # <<>>, db # <<>>,
           ~Occurs(Slash, user), ~Occurs(At, password),
           NEW string, string = Logon(user, password, db)
    PROVE  ParseOracleConnectionString(string) =
               [user |-> user, password |-> password, db |-> db]
<1> DEFINE slash == Len(user) + 1
           at == Len(user) + Len(password) + 2
<1>1. /\ Len(string) = Len(user) + Len(password) + 2 + Len(db)
      /\ \A i \in 1..Len(user) : string[i] = user[i]
      /\ string[slash] = Slash
      /\ \A i \in 1..Len(password) : string[slash + i] = password[i]
      /\ string[at] = At
      /\ \A i \in 1..Len(db) : string[at + i] = db[i]
    <2>1. Laid(string, user, password, db)
        BY Positions
    <2>2. QED
        BY <2>1 DEF Laid
<1>2. Len(user) \in Nat \ {0} /\ Len(password) \in Nat \ {0} /\ Len(db) \in Nat \ {0}
    BY EmptySeq
<1>3. Find(string, Slash, 1) = slash
    <2>1. \A i \in 1..(slash - 1) : string[i] # Slash
        BY <1>1, <1>2 DEF Occurs
    <2>2. slash \in 1..Len(string) /\ Len(string) \in Nat /\ 1 \in Nat /\ 1 > 0
        BY <1>1, <1>2
    <2> HIDE DEF slash
    <2>3. QED
        BY <1>1, <2>1, <2>2, FindFirst
<1>4. Find(string, At, slash) = at
    <2>1. \A i \in slash..(at - 1) : string[i] # At
        <3> TAKE i \in slash..(at - 1)
        <3>1. CASE i = slash
            BY <1>1, <3>1 DEF Slash, At
        <3>2. CASE i # slash
            <4>1. i - slash \in 1..Len(password) /\ slash + (i - slash) = i
                BY <1>2, <3>2
            <4>2. string[i] = password[i - slash]
                BY <1>1, <4>1
            <4>3. password[i - slash] # At
                BY <4>1 DEF Occurs
            <4>4. QED
                BY <4>2, <4>3
        <3>3. QED
            BY <3>1, <3>2
    <2>2. at \in slash..Len(string) /\ Len(string) \in Nat /\ slash \in Nat /\ slash > 0
        BY <1>1, <1>2
    <2> HIDE DEF slash, at
    <2>3. QED
        BY <1>1, <2>1, <2>2, FindFirst
<1>5. slash > 1 /\ at > slash + 1 /\ at # Len(string)
    BY <1>1, <1>2
<1>6. SubSeq(string, 1, slash - 1) = user
    <2>1. \A i \in 1..Len(user) : string[1 + i - 1] = user[i]
        BY <1>1, <1>2
    <2>2. SubSeq(string, 1, 1 + Len(user) - 1) = user
        BY <2>1, Stretch
    <2>3. 1 + Len(user) - 1 = slash - 1
        BY <1>2
    <2>4. QED
        BY <2>2, <2>3
<1>7. SubSeq(string, slash + 1, at - 1) = password
    <2>1. \A i \in 1..Len(password) : string[slash + 1 + i - 1] = password[i]
        BY <1>1, <1>2
    <2>2. slash + 1 \in Int /\ slash + 1 + Len(password) - 1 = at - 1
        BY <1>2
    <2> HIDE DEF slash, at
    <2>3. SubSeq(string, slash + 1, slash + 1 + Len(password) - 1) = password
        BY <2>1, <2>2, Stretch
    <2>4. QED
        BY <2>2, <2>3
<1>8. SubSeq(string, at + 1, Len(string)) = db
    <2>1. \A i \in 1..Len(db) : string[at + 1 + i - 1] = db[i]
        BY <1>1, <1>2
    <2>2. at + 1 \in Int /\ at + 1 + Len(db) - 1 = Len(string)
        BY <1>1, <1>2
    <2> HIDE DEF slash, at
    <2>3. SubSeq(string, at + 1, at + 1 + Len(db) - 1) = db
        BY <2>1, <2>2, Stretch
    <2>4. QED
        BY <2>2, <2>3
<1>9. slash # 0 /\ ~(slash <= 1) /\ ~(at <= slash + 1) /\ at # Len(string)
    BY <1>2, <1>5
<1> HIDE DEF slash, at
<1>10. ParseOracleConnectionString(string) =
           [user     |-> SubSeq(string, 1, slash - 1),
            password |-> SubSeq(string, slash + 1, at - 1),
            db       |-> SubSeq(string, at + 1, Len(string))]
    BY <1>3, <1>4, <1>9 DEF ParseOracleConnectionString, Slash, At
<1>11. QED
    BY <1>6, <1>7, <1>8, <1>10

\* Concatenations can be regrouped; named, so that it is used for the
\* sequences at hand only.
Regrouped(S) ==
    \A s, t, u, v \in Seq(S) : ((s \o t) \o u) \o v = s \o ((t \o u) \o v)

LEMMA Regroup ==
    ASSUME NEW S
    PROVE  Regrouped(S)
<1> SUFFICES ASSUME NEW s \in Seq(S), NEW t \in Seq(S), NEW u \in Seq(S), NEW v \in Seq(S)
             PROVE  ((s \o t) \o u) \o v = s \o ((t \o u) \o v)
    BY DEF Regrouped
<1>1. t \o u \in Seq(S)
    BY ConcatProperties
<1>2. PICK tu \in Seq(S) : tu = t \o u
    BY <1>1
<1>3. (s \o t) \o u = s \o tu
    BY <1>2, ConcatAssociative
<1>4. (s \o tu) \o v = s \o (tu \o v)
    BY ConcatAssociative
<1>5. QED
    BY <1>2, <1>3, <1>4

\* User, password and the separators after them.
LEMMA FrontType ==
    ASSUME NEW S, Slash \in S, At \in S, NEW user \in Seq(S), NEW password \in Seq(S)
    PROVE  user \o <<Slash>> \o password \o <<At>> \in Seq(S)
<1>1. user \o <<Slash>> \in Seq(S)
    BY ConcatProperties
<1>2. PICK a \in Seq(S) : a = user \o <<Slash>>
    BY <1>1
<1>3. a \o password \in Seq(S)
    BY ConcatProperties
<1>4. PICK b \in Seq(S) : b = a \o password
    BY <1>3
<1>5. b \o <<At>> \in Seq(S)
    BY ConcatProperties
<1>6. QED
    BY <1>2, <1>4, <1>5

\* The text after the separators has a port, so it is not empty.
LEMMA DbType ==
    ASSUME NEW S, NEW host \in Seq(S), NEW port \in Seq(S), NEW service \in Seq(S), Len(port) = 3
    PROVE  host \o port \o service \in Seq(S) /\ host \o port \o service # <<>>
<1>1. host \o port \in Seq(S) /\ Len(host \o port) = Len(host) + Len(port)
    BY ConcatProperties
<1>2. PICK hp \in Seq(S) : hp = host \o port
    BY <1>1
<1>3. hp \o service \in Seq(S) /\ Len(hp \o service) = Len(hp) + Len(service)
    BY ConcatProperties
<1>4. Len(host) \in Nat /\ Len(service) \in Nat /\ Len(<<>>) = 0
    OBVIOUS
<1>5. Len(hp \o service) # 0
    BY <1>1, <1>2, <1>3, <1>4
<1>6. QED
    BY <1>2, <1>3, <1>4, <1>5

\* S has everything that strings built from secret p are made of.
Covers(S, p) ==
    Text \subseteq S /\ Slash \in S /\ At \in S /\ Colon \in S /\ ToString(p.port) \in S

\* What BuildConnectionString makes of a secret is a logon.
LEMMA BuildIsLogon ==
    ASSUME NEW p \in Params, NEW S, Covers(S, p)
    PROVE  /\ p.user \in Seq(S) /\ p.password \in Seq(S)
           /\ Identifier(p) \in Seq(S) /\ Identifier(p) # <<>>
           /\ BuildConnectionString(p) = Logon(p.user, p.password, Identifier(p))
<1> DEFINE port == <<Colon, ToString(p.port), Slash>>
           front == p.user \o <<Slash>> \o p.password \o <<At>>
<1>1. Regrouped(S)
    BY Regroup
<1>2. /\ p.user \in Seq(S) /\ p.password \in Seq(S)
      /\ p.host \in Seq(S) /\ p.service \in Seq(S)
    <2>1. \A s \in Seq(Text) : s \in Seq(S)
        BY SeqMonotonic DEF Covers
    <2>2. QED
        BY <2>1, ParamsType
<1>3. port \in Seq(S) /\ Len(port) = 3
    BY DEF Covers
<1>4. front \in Seq(S)
    BY <1>2, FrontType DEF Covers
<1>5. Identifier(p) = p.host \o port \o p.service
    BY DEF Identifier, Slash, Colon
<1>6. BuildConnectionString(p) = front \o p.host \o port \o p.service
    BY DEF BuildConnectionString, Slash, At, Colon
<1>7. Logon(p.user, p.password, Identifier(p)) = front \o Identifier(p)
    BY DEF Logon
<1> HIDE DEF port, front
<1>8. Identifier(p) \in Seq(S) /\ Identifier(p) # <<>>
    BY <1>2, <1>3, <1>5, DbType
<1>9. front \o p.host \o port \o p.service = front \o (p.host \o port \o p.service)
    <2>1. \A t, u, v \in Seq(S) : ((front \o t) \o u) \o v = front \o ((t \o u) \o v)
        BY Zenon, <1>1, <1>4 DEF Regrouped
    <2>2. QED
        BY Zenon, <1>2, <1>3, <2>1
<1>10. QED
    BY <1>2, <1>5, <1>6, <1>7, <1>8, <1>9

-----------------------------------------------------------------------------

\* Who attached from secret p.
FromSecretOf(p) == [string : {BuildConnectionString(p)}, secret : {p}, replaced : BOOLEAN]

LEMMA FromSecret ==
    ASSUME NEW x
    PROVE  x \in Attachments <=>
               \/ x \in [string : Paths, secret : {None}, replaced : {FALSE}]
               \/ \E p \in Params : ValidateOracleSecret(p) /\ x \in FromSecretOf(p)
<1> DEFINE froms == {FromSecretOf(p) : p \in {q \in Params : ValidateOracleSecret(q)}}
<1>1. Attachments = [string : Paths, secret : {None}, replaced : {FALSE}] \cup UNION froms
    BY Zenon DEF Attachments, FromSecretOf
<1>2. x \in UNION froms <=> \E p \in Params : ValidateOracleSecret(p) /\ x \in FromSecretOf(p)
    OBVIOUS
<1> HIDE DEF froms
<1>3. QED
    BY Zenon, <1>1, <1>2

\* The records of those who attached from secret p.
LEMMA FromSecretFields ==
    ASSUME NEW p, NEW x
    PROVE  /\ x \in FromSecretOf(p) => [x EXCEPT !.replaced = TRUE] \in FromSecretOf(p)
           /\ [string |-> BuildConnectionString(p), secret |-> p, replaced |-> FALSE] \in FromSecretOf(p)
    BY DEF FromSecretOf

\* Whoever attaches has an attachment, before and after the flag is set.
LEMMA ReplacedType ==
    ASSUME NEW x \in Attachments \cup {None}, NEW wallet
    PROVE  Replaced(x, wallet) \in Attachments \cup {None}
<1>1. CASE x = None \/ x.secret = None \/ x.secret.wallet = wallet
    BY <1>1 DEF Replaced
<1>2. CASE x # None /\ x.secret # None /\ x.secret.wallet # wallet
    <2>1. x \in Attachments /\ x \notin [string : Paths, secret : {None}, replaced : {FALSE}]
        BY <1>2
    <2>2. PICK p \in Params : ValidateOracleSecret(p) /\ x \in FromSecretOf(p)
        BY Zenon, <2>1, FromSecret
    <2>3. [x EXCEPT !.replaced = TRUE] \in Attachments
        BY Zenon, <2>2, FromSecret, FromSecretFields
    <2>4. QED
        BY Zenon, <1>2, <2>3 DEF Replaced
<1>3. QED
    BY <1>1, <1>2

\* setenv only sets flags.
LEMMA SetWalletType ==
    ASSUME NEW wallet \in Wallets \cup {None}, NEW threads,
           threads \in [Threads -> Attachments \cup {None}],
           state \in Attachments \cup {None}, SetWallet(wallet, threads)
    PROVE  /\ tns_admin' \in Wallets \cup {None}
           /\ attaching' \in [Threads -> Attachments \cup {None}]
           /\ state' \in Attachments \cup {None}
<1>1. \A t \in Threads : Replaced(threads[t], wallet) \in Attachments \cup {None}
    BY ReplacedType
<1>2. Replaced(state, wallet) \in Attachments \cup {None}
    BY ReplacedType
<1>3. QED
    BY <1>1, <1>2 DEF SetWallet

\* ATTACH from a secret makes an attachment.
LEMMA AttachFromSecretType ==
    ASSUME TypeOK, NEW t \in Threads, NEW name \in Names, AttachFromSecret(t, name)
    PROVE  TypeOK'
<1> DEFINE params == secrets[name]
           x == Attached(BuildConnectionString(params), params)
           threads == [attaching EXCEPT ![t] = x]
<1>1. params \in Params /\ ValidateOracleSecret(params)
    BY DEF AttachFromSecret, TypeOK
<1>2. x \in Attachments
    BY Zenon, <1>1, FromSecret, FromSecretFields DEF Attached
<1> HIDE DEF x
<1>3. threads \in [Threads -> Attachments \cup {None}]
    BY <1>2 DEF TypeOK
<1>4. IF params.wallet = None
      THEN attaching' = threads /\ UNCHANGED <<tns_admin, state>>
      ELSE SetWallet(params.wallet, threads)
    BY DEF AttachFromSecret, x
<1>5. UNCHANGED <<secrets, login>>
    BY DEF AttachFromSecret
<1>6. params.wallet \in Wallets \cup {None}
    BY <1>1, ParamsType
<1> HIDE DEF params, threads
<1>7. /\ tns_admin' \in Wallets \cup {None}
      /\ attaching' \in [Threads -> Attachments \cup {None}]
      /\ state' \in Attachments \cup {None}
    <2>1. CASE params.wallet = None
        BY <1>3, <1>4, <2>1 DEF TypeOK
    <2>2. CASE params.wallet # None
        BY <1>3, <1>4, <1>6, <2>2, SetWalletType DEF TypeOK
    <2>3. QED
        BY <2>1, <2>2
<1>8. QED
    BY <1>5, <1>7 DEF TypeOK

\* A login leaves who logged in, and with which wallet.
LEMMA LoginType ==
    ASSUME TypeOK, NEW string, Login(string), state' \in Attachments
    PROVE  login' \in [wallet : Wallets \cup {None}, by : Attachments] \cup {None}
<1>1. login' = login \/ login' = [wallet |-> tns_admin, by |-> state']
    BY DEF Login
<1>2. QED
    BY <1>1 DEF TypeOK

\* Nothing is stored, attached or logged in at first.
LEMMA InitTypeOK == Init => TypeOK
    BY DEF Init, TypeOK

\* Every step keeps the types.
LEMMA NextTypeOK == TypeOK /\ [Next]_vars => TypeOK'
<1> SUFFICES ASSUME TypeOK, [Next]_vars PROVE TypeOK'
    OBVIOUS
<1>1. ASSUME NEW name \in Names, NEW input \in Inputs, CreateOracleSecret(name, input) PROVE TypeOK'
    <2>1. ParseOracleSecret(input) \in Params
        BY DEF Params
    <2>2. secrets' = [secrets EXCEPT ![name] = ParseOracleSecret(input)]
              /\ UNCHANGED <<tns_admin, attaching, state, login>>
        BY <1>1 DEF CreateOracleSecret
    <2>3. QED
        BY <2>1, <2>2 DEF TypeOK
<1>2. ASSUME NEW name \in Names, DropSecret(name) PROVE TypeOK'
    BY <1>2 DEF DropSecret, TypeOK
<1>3. ASSUME NEW t \in Threads, NEW name \in Names, AttachFromSecret(t, name) PROVE TypeOK'
    BY <1>3, AttachFromSecretType
<1>4. ASSUME NEW t \in Threads, NEW path \in Paths, AttachFromPath(t, path) PROVE TypeOK'
    <2>1. Attached(path, None) \in Attachments
        BY DEF Attached, Attachments
    <2>2. QED
        BY <1>4, <2>1 DEF AttachFromPath, TypeOK
<1>5. ASSUME NEW t \in Threads, FinishAttach(t) PROVE TypeOK'
    <2>1. /\ attaching[t] # None /\ UNCHANGED <<secrets, tns_admin>>
          /\ state' = IF state = None THEN attaching[t] ELSE state
          /\ attaching' = [attaching EXCEPT ![t] = None] /\ Login(state'.string)
        BY <1>5 DEF FinishAttach
    <2>2. state' \in Attachments
        BY <2>1 DEF TypeOK
    <2>3. login' \in [wallet : Wallets \cup {None}, by : Attachments] \cup {None}
        BY <2>1, <2>2, LoginType
    <2>4. attaching' \in [Threads -> Attachments \cup {None}]
        BY <2>1 DEF TypeOK
    <2>5. QED
        BY <2>1, <2>2, <2>3, <2>4 DEF TypeOK
<1>6. CASE LogInAgain
    <2>1. state # None /\ UNCHANGED <<state, secrets, tns_admin, attaching>> /\ Login(state.string)
        BY <1>6 DEF LogInAgain
    <2>2. state' \in Attachments
        BY <2>1 DEF TypeOK
    <2>3. login' \in [wallet : Wallets \cup {None}, by : Attachments] \cup {None}
        BY <2>1, <2>2, LoginType
    <2>4. QED
        BY <2>1, <2>3 DEF TypeOK
<1>7. ASSUME NEW wallet \in Wallets, OracleAttachWallet(wallet) PROVE TypeOK'
    <2>1. SetWallet(wallet, attaching) /\ UNCHANGED <<secrets, login>>
        BY <1>7 DEF OracleAttachWallet
    <2>2. /\ tns_admin' \in Wallets \cup {None}
          /\ attaching' \in [Threads -> Attachments \cup {None}]
          /\ state' \in Attachments \cup {None}
        BY <2>1, SetWalletType DEF TypeOK
    <2>3. QED
        BY <2>1, <2>2 DEF TypeOK
<1>8. CASE UNCHANGED vars
    BY <1>8 DEF vars, TypeOK
<1>9. QED
    BY <1>1, <1>2, <1>3, <1>4, <1>5, <1>6, <1>7, <1>8 DEF Next

\* Secrets, attachments and logins stay what they are said to be, whatever
\* ATTACH, CREATE SECRET and oracle_attach_wallet do side by side: a
\* connection string always comes with the secret it was built from
\* (oracle_secret.cpp:128).
THEOREM SecretsTypeCorrect == Spec => []TypeOK
    BY InitTypeOK, NextTypeOK, PTL DEF Spec

-----------------------------------------------------------------------------

\* What is stored has been validated.
Validated ==
    \A n \in Names : secrets[n] # None => ValidateOracleSecret(secrets[n])

\* Only CREATE SECRET stores, and only what it has validated.
LEMMA NextValidated == TypeOK /\ Validated /\ [Next]_vars => Validated'
<1> SUFFICES ASSUME TypeOK, Validated, [Next]_vars PROVE Validated'
    OBVIOUS
<1>1. ASSUME NEW name \in Names, NEW input \in Inputs, CreateOracleSecret(name, input)
      PROVE  Validated'
    <2> DEFINE params == ParseOracleSecret(input)
    <2>1. ValidateOracleSecret(params) /\ secrets' = [secrets EXCEPT ![name] = params]
        BY <1>1 DEF CreateOracleSecret
    <2> HIDE DEF params
    <2>2. \A n \in Names : secrets'[n] = IF n = name THEN params ELSE secrets[n]
        BY <2>1 DEF TypeOK
    <2>3. \A n \in Names : secrets'[n] # None => ValidateOracleSecret(secrets'[n])
        BY <2>1, <2>2 DEF Validated
    <2>4. QED
        BY Zenon, <2>3 DEF Validated, ValidateOracleSecret
<1>2. ASSUME NEW name \in Names, DropSecret(name) PROVE Validated'
    <2>1. secrets' = [secrets EXCEPT ![name] = None]
        BY <1>2 DEF DropSecret
    <2>2. \A n \in Names : secrets'[n] = IF n = name THEN None ELSE secrets[n]
        BY <2>1 DEF TypeOK
    <2>3. \A n \in Names : secrets'[n] # None => ValidateOracleSecret(secrets'[n])
        BY <2>2 DEF Validated
    <2>4. QED
        BY Zenon, <2>3 DEF Validated, ValidateOracleSecret
<1>3. ASSUME UNCHANGED secrets PROVE Validated'
    BY Zenon, <1>3 DEF Validated, ValidateOracleSecret
<1>4. QED
    BY <1>1, <1>2, <1>3 DEF Next, vars, AttachFromSecret, AttachFromPath, FinishAttach,
       LogInAgain, OracleAttachWallet

\* A validated secret whose separators are plain survives building and parsing.
LEMMA SecretLogsIn ==
    ASSUME NEW p \in Params, ValidateOracleSecret(p), Plain(p)
    PROVE  ParseOracleConnectionString(BuildConnectionString(p)) =
               [user |-> p.user, password |-> p.password, db |-> Identifier(p)]
<1>1. PICK S : Covers(S, p)
    <2>1. Covers(Text \cup {Slash, At, Colon, ToString(p.port)}, p)
        BY DEF Covers
    <2>2. QED
        BY <2>1
<1>2. /\ p.user \in Seq(S) /\ p.password \in Seq(S)
      /\ Identifier(p) \in Seq(S) /\ Identifier(p) # <<>>
      /\ BuildConnectionString(p) = Logon(p.user, p.password, Identifier(p))
    BY <1>1, BuildIsLogon
<1>3. p.user # <<>> /\ p.password # <<>>
    BY Zenon DEF ValidateOracleSecret
<1>4. ~Occurs(Slash, p.user) /\ ~Occurs(At, p.password)
    BY DEF Plain, Slash, At
<1>5. Slash \in S /\ At \in S
    BY <1>1 DEF Covers
<1>6. QED
    BY <1>2, <1>3, <1>4, <1>5, LogonParses

\* What CREATE SECRET takes, ATTACH can use: every stored secret is valid, and
\* the login gets back its user, its password and its database, whatever
\* characters they have, but for a "/" in the user and an "@" in the password
\* (oracle_secret.cpp:71, 132, oracle_connection_manager.cpp:20).
THEOREM SecretsLogIn == Spec => []StoredSecretsLogIn
<1>1. Init => Validated
    BY DEF Init, Validated
<1>2. TypeOK /\ Validated => StoredSecretsLogIn
    <2> SUFFICES ASSUME TypeOK, Validated, NEW n \in Names, secrets[n] # None
                 PROVE  /\ ValidateOracleSecret(secrets[n])
                        /\ Plain(secrets[n]) =>
                               ParseOracleConnectionString(BuildConnectionString(secrets[n])) =
                                   [user |-> secrets[n].user, password |-> secrets[n].password,
                                    db |-> Identifier(secrets[n])]
        BY DEF StoredSecretsLogIn
    <2>1. secrets[n] \in Params /\ ValidateOracleSecret(secrets[n])
        BY DEF TypeOK, Validated
    <2>2. QED
        BY <2>1, SecretLogsIn
<1>3. QED
    BY <1>1, <1>2, InitTypeOK, NextTypeOK, NextValidated, PTL DEF Spec
=============================================================================
