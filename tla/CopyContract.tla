---------------------------- MODULE CopyContract ----------------------------
(***************************************************************************)
(* What the user of COPY ... TO (FORMAT ORACLE) can rely on: while the     *)
(* statement runs, other sessions see none of its rows; if it succeeds,    *)
(* they see all it has sent from the step in which it does, and for ever.  *)
(* Of the rows of a statement that failed nothing is promised: any of them *)
(* may appear at any later time.  Sessions, pools and transactions are the *)
(* business of OracleTransactions, which implements this specification.    *)
(***************************************************************************)
CONSTANTS
    Copies,         \* COPY statements
    CopyRows        \* [Copies -> sets of rows], what each may insert

VARIABLES
    status,         \* [Copies -> {"running", "succeeded", "failed"}]
    sent,           \* [Copies -> sets of rows], of the chunks that were accepted
    visible         \* the rows other sessions see

contractVars == <<status, sent, visible>>

ContractInit ==
    /\ status = [w \in Copies |-> "running"]
    /\ sent = [w \in Copies |-> {}]
    /\ visible = {}

Seen(w) == visible \cap CopyRows[w]

\* Nothing disappears, and what appears is of nobody else but statements that
\* have failed and users that are no COPY.
OnlyLeftovers(except) ==
    /\ visible \subseteq visible'
    /\ \A v \in Copies \ except : status[v] # "failed" => Seen(v)' = Seen(v)

\* A chunk is accepted.
SendChunk(w) ==
    /\ status[w] = "running"
    /\ \E rows \in SUBSET CopyRows[w] : sent' = [sent EXCEPT ![w] = sent[w] \cup rows]
    /\ UNCHANGED <<status, visible>>

\* All rows become visible at once, and none was before.
Succeed(w) ==
    /\ status[w] = "running"
    /\ status' = [status EXCEPT ![w] = "succeeded"]
    /\ Seen(w) = {}
    /\ Seen(w)' = sent[w]
    /\ OnlyLeftovers({w})
    /\ UNCHANGED sent

\* The statement ends with an exception; none of its rows is visible yet.
FailCopy(w) ==
    /\ status[w] = "running"
    /\ status' = [status EXCEPT ![w] = "failed"]
    /\ UNCHANGED <<sent, visible>>

\* Another user of the database, or the end of a session.
OthersCommit ==
    /\ OnlyLeftovers({})
    /\ UNCHANGED <<status, sent>>

ContractNext ==
    \/ \E w \in Copies : SendChunk(w) \/ Succeed(w) \/ FailCopy(w)
    \/ OthersCommit

ContractSpec == ContractInit /\ [][ContractNext]_contractVars
=============================================================================
