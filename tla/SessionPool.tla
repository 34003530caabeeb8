----------------------------- MODULE SessionPool -----------------------------
(***************************************************************************)
(* What the connection manager promises to the rest of the extension: an   *)
(* Oracle session has at most one user at a time, it is logged in with one *)
(* connection string for as long as it lives, and it is closed only while  *)
(* nobody uses it (or by the step in which its user gives it up).  Nothing *)
(* is promised about limits, waiting or which session a user gets: those   *)
(* are the business of OracleConnectionManager, which implements this      *)
(* specification, and OracleTransactions builds on it.                            *)
(***************************************************************************)
CONSTANTS
    Clients,        \* the owners of connection handles
    ConnStrings,    \* connection strings
    Contexts,       \* identities of OracleContext objects
    None            \* a null pointer

VARIABLES
    owner,          \* [Contexts -> Clients \cup {None}], who uses a session
    login           \* [Contexts -> ConnStrings \cup {None}], None: not open

poolVars == <<owner, login>>

SessionPoolTypeOK ==
    /\ owner \in [Contexts -> Clients \cup {None}]
    /\ login \in [Contexts -> ConnStrings \cup {None}]

SessionPoolInit ==
    /\ owner = [c \in Contexts |-> None]
    /\ login = [c \in Contexts |-> None]

Unused(c) == owner[c] = None

\* A client without a session logs in with a new one.
Open(t, c, s) ==
    /\ \A d \in Contexts : owner[d] # t
    /\ login[c] = None
    /\ login' = [login EXCEPT ![c] = s]
    /\ owner' = [owner EXCEPT ![c] = t]

\* A client without a session gets an open one that nobody uses.  The
\* session comes as its last user left it.
Reuse(t, c) ==
    /\ \A d \in Contexts : owner[d] # t
    /\ login[c] # None
    /\ Unused(c)
    /\ owner' = [owner EXCEPT ![c] = t]
    /\ UNCHANGED login

\* A client gives its session up; it, and any session nobody uses, may be
\* closed in the same step.
GiveUp(t, c, closed) ==
    /\ owner[c] = t
    /\ \A d \in closed : d = c \/ Unused(d)
    /\ owner' = [owner EXCEPT ![c] = None]
    /\ login' = [d \in Contexts |-> IF d \in closed THEN None ELSE login[d]]

\* Sessions nobody uses are closed.
Close(closed) ==
    /\ \A d \in closed : Unused(d)
    /\ login' = [d \in Contexts |-> IF d \in closed THEN None ELSE login[d]]
    /\ UNCHANGED owner

SessionPoolNext ==
    \/ \E t \in Clients, c \in Contexts, s \in ConnStrings : Open(t, c, s)
    \/ \E t \in Clients, c \in Contexts : Reuse(t, c)
    \/ \E t \in Clients, c \in Contexts, closed \in SUBSET Contexts :
           GiveUp(t, c, closed)
    \/ \E closed \in SUBSET Contexts : Close(closed)

SessionPoolSpec == SessionPoolInit /\ [][SessionPoolNext]_poolVars
=============================================================================
