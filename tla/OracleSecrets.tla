---------------------------- MODULE OracleSecrets ----------------------------
(***************************************************************************)
(* CREATE SECRET (TYPE oracle), the connection string that ATTACH builds   *)
(* from a secret, what the login makes of that string, and TNS_ADMIN, the  *)
(* environment variable through which wallets reach every login of the     *)
(* process.  A string is the sequence of its parts, so that "/" and "@"    *)
(* in a name or a password can be told from the separators.                *)
(***************************************************************************)
EXTENDS Integers, Sequences, SequencesExt

CONSTANTS
    Threads,   \* connections that run ATTACH
    Names,     \* names of secrets
    Inputs,    \* option lists of CREATE SECRET: functions on names of options
    Paths,     \* connection strings given to ATTACH directly
    Wallets,   \* directories that oracle_attach_wallet and secrets name
    None

ASSUME SecretsAssumption ==
    /\ None \notin Wallets
    /\ \A input \in Inputs :
        /\ DOMAIN input \subseteq {"user", "password", "service", "database", "host", "port", "wallet"}
        /\ \A name \in DOMAIN input \ {"port", "wallet"} : input[name] \in Seq(STRING)
        /\ "wallet" \in DOMAIN input => input["wallet"] \in Wallets

VARIABLES
    secrets,    \* DuckDB's secret manager: per name the stored secret or None
    tns_admin,  \* the environment variable
    attaching,  \* per thread: the connection string of its ATTACH, or None
    state,      \* the OracleCatalogState that all ATTACH statements share
    login       \* history: the wallet of the last login, and who logged in

vars == <<secrets, tns_admin, attaching, state, login>>

-----------------------------------------------------------------------------

Option(input, name, default) == IF name \in DOMAIN input THEN input[name] ELSE default

\* OracleSecretParameters; an empty DATABASE or SERVICE is no service.
ParseOracleSecret(input) ==
    LET service == Option(input, "service", <<>>)
    IN  [user     |-> Option(input, "user", <<>>),
         password |-> Option(input, "password", <<>>),
         service  |-> IF service = <<>> THEN Option(input, "database", <<>>) ELSE service,
         host     |-> Option(input, "host", <<"localhost">>),
         port     |-> Option(input, "port", 1521),
         wallet   |-> Option(input, "wallet", None)]

MaxPort == 65535

ValidateOracleSecret(params) ==
    /\ params.user # <<>> /\ params.service # <<>> /\ params.password # <<>>
    /\ params.port \in 1..MaxPort

BuildConnectionString(params) ==
    params.user \o <<"/">> \o params.password \o <<"@">>
        \o params.host \o <<":", ToString(params.port), "/">> \o params.service

\* The position of a character, from a position on; 0 if there is none.
Find(string, char, from) ==
    LET found == {i \in from..Len(string) : string[i] = char}
    IN  IF found = {} THEN 0 ELSE Min(found)

\* Mutant of ParseOracleConnectionString: the first "@" of the string counts.
ParseFromFirstAt(string) ==
    LET slash == Find(string, "/", 1)
        at == Find(string, "@", 1)
    IN  IF slash <= 1 \/ at <= slash + 1 \/ at = Len(string)
        THEN None
        ELSE [user     |-> SubSeq(string, 1, slash - 1),
              password |-> SubSeq(string, slash + 1, at - 1),
              db       |-> SubSeq(string, at + 1, Len(string))]

\* Everything before the first "/" is the user, up to the next "@" the password.
ParseOracleConnectionString(string) ==
    LET slash == Find(string, "/", 1)
        at == Find(string, "@", IF slash = 0 THEN 1 ELSE slash)
    IN  IF slash <= 1 \/ at <= slash + 1 \/ at = Len(string)
        THEN None
        ELSE [user     |-> SubSeq(string, 1, slash - 1),
              password |-> SubSeq(string, slash + 1, at - 1),
              db       |-> SubSeq(string, at + 1, Len(string))]

-----------------------------------------------------------------------------

Init ==
    /\ secrets = [n \in Names |-> None]
    /\ tns_admin = None
    /\ attaching = [t \in Threads |-> None]
    /\ state = None
    /\ login = None

\* An ATTACH, or the state made by one: its string, the secret the string was
\* built from, and (history) whether TNS_ADMIN has since become another wallet.
Attached(string, params) == [string |-> string, secret |-> params, replaced |-> FALSE]

Replaced(attached, wallet) ==
    IF attached = None \/ attached.secret = None \/ attached.secret.wallet = wallet
    THEN attached
    ELSE [attached EXCEPT !.replaced = TRUE]

\* setenv, and its history.
SetWallet(wallet, threads) ==
    /\ tns_admin' = wallet
    /\ attaching' = [t \in Threads |-> Replaced(threads[t], wallet)]
    /\ state' = Replaced(state, wallet)

\* Mutant of CreateOracleSecret: the options are stored as they were given.
CreateSecretFromOptions(name, input) ==
    /\ ValidateOracleSecret(ParseOracleSecret(input))
    /\ secrets' = [secrets EXCEPT ![name] = input]
    /\ UNCHANGED <<tns_admin, attaching, state, login>>

\* CREATE [OR REPLACE] SECRET; a list of options that is not valid throws.
CreateOracleSecret(name, input) ==
    /\ ValidateOracleSecret(ParseOracleSecret(input))
    /\ secrets' = [secrets EXCEPT ![name] = ParseOracleSecret(input)]
    /\ UNCHANGED <<tns_admin, attaching, state, login>>

DropSecret(name) ==
    /\ secrets[name] # None
    /\ secrets' = [secrets EXCEPT ![name] = None]
    /\ UNCHANGED <<tns_admin, attaching, state, login>>

\* Mutant of AttachFromSecret: setenv does not overwrite.
AttachWithoutOverwrite(t, name) ==
    /\ attaching[t] = None
    /\ secrets[name] # None
    /\ ValidateOracleSecret(secrets[name])
    /\ LET params == secrets[name]
           threads == [attaching EXCEPT ![t] = Attached(BuildConnectionString(params), params)]
       IN  IF params.wallet = None \/ tns_admin # None
           THEN attaching' = threads /\ UNCHANGED <<tns_admin, state>>
           ELSE SetWallet(params.wallet, threads)
    /\ UNCHANGED <<secrets, login>>

\* ATTACH with SECRET name; without it, DuckDB picks one of type oracle.
\* The secret's wallet becomes the process's.
AttachFromSecret(t, name) ==
    /\ attaching[t] = None
    /\ secrets[name] # None
    /\ ValidateOracleSecret(secrets[name])
    /\ LET params == secrets[name]
           threads == [attaching EXCEPT ![t] = Attached(BuildConnectionString(params), params)]
       IN  IF params.wallet = None
           THEN attaching' = threads /\ UNCHANGED <<tns_admin, state>>
           ELSE SetWallet(params.wallet, threads)
    /\ UNCHANGED <<secrets, login>>

AttachFromPath(t, path) ==
    /\ attaching[t] = None
    /\ attaching' = [attaching EXCEPT ![t] = Attached(path, None)]
    /\ UNCHANGED <<secrets, tns_admin, state, login>>

\* A login needs a string it can parse, and reads TNS_ADMIN when it happens.
Login(string) ==
    IF ParseOracleConnectionString(string) = None
    THEN UNCHANGED login
    ELSE login' = [wallet |-> tns_admin, by |-> state']

\* The rest of ATTACH: it takes the state an earlier one left, or makes one,
\* which connects; whether the server agrees makes no difference here.
FinishAttach(t) ==
    /\ attaching[t] # None
    /\ state' = IF state = None THEN attaching[t] ELSE state
    /\ attaching' = [attaching EXCEPT ![t] = None]
    /\ Login(state'.string)
    /\ UNCHANGED <<secrets, tns_admin>>

\* A scan, a COPY or a transaction for which the pool has no session.
LogInAgain ==
    /\ state # None
    /\ UNCHANGED state
    /\ Login(state.string)
    /\ UNCHANGED <<secrets, tns_admin, attaching>>

\* oracle_attach_wallet; a path that is no directory throws.
OracleAttachWallet(wallet) ==
    /\ SetWallet(wallet, attaching)
    /\ UNCHANGED <<secrets, login>>

Next ==
    \/ \E name \in Names, input \in Inputs : CreateOracleSecret(name, input)
    \/ \E name \in Names : DropSecret(name)
    \/ \E t \in Threads, name \in Names : AttachFromSecret(t, name)
    \/ \E t \in Threads, path \in Paths : AttachFromPath(t, path)
    \/ \E t \in Threads : FinishAttach(t)
    \/ LogInAgain
    \/ \E wallet \in Wallets : OracleAttachWallet(wallet)

Spec == Init /\ [][Next]_vars

-----------------------------------------------------------------------------

Params == {ParseOracleSecret(input) : input \in Inputs}
Attachments ==
    [string : Paths, secret : {None}, replaced : {FALSE}]
    \cup UNION {[string : {BuildConnectionString(p)}, secret : {p}, replaced : BOOLEAN] :
                    p \in {q \in Params : ValidateOracleSecret(q)}}

TypeOK ==
    /\ secrets \in [Names -> Params \cup {None}]
    /\ tns_admin \in Wallets \cup {None}
    /\ attaching \in [Threads -> Attachments \cup {None}]
    /\ state \in Attachments \cup {None}
    /\ login \in [wallet : Wallets \cup {None}, by : Attachments] \cup {None}

-----------------------------------------------------------------------------

Occurs(char, string) == \E i \in DOMAIN string : string[i] = char

\* The separators are unambiguous for this user and password.
Plain(params) == ~Occurs("/", params.user) /\ ~Occurs("@", params.password)

Identifier(params) == params.host \o <<":", ToString(params.port), "/">> \o params.service

\* A secret that CREATE SECRET took can be attached: it is still valid, and
\* unless the user has a "/" or the password an "@", the login gets back what
\* the secret says; a "/" in the password or an "@" in the user does no harm
\* (oracle_secret.cpp:71, 132, oracle_connection_manager.cpp:20).
StoredSecretsLogIn ==
    \A n \in Names : secrets[n] # None =>
        /\ ValidateOracleSecret(secrets[n])
        /\ Plain(secrets[n]) =>
               ParseOracleConnectionString(BuildConnectionString(secrets[n])) =
                   [user |-> secrets[n].user, password |-> secrets[n].password,
                    db |-> Identifier(secrets[n])]

\* Logins for a database attached from a secret with a wallet use that wallet,
\* the first one inside ATTACH as well as the later ones, until another ATTACH
\* or oracle_attach_wallet names a different one (oracle_secret.cpp:128).
WalletUntilReplaced ==
    login # None /\ login.by.secret # None /\ login.by.secret.wallet # None
    /\ ~login.by.replaced
        => login.wallet = login.by.secret.wallet
=============================================================================
