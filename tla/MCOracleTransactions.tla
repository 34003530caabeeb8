------------------------ MODULE MCOracleTransactions ------------------------
(***************************************************************************)
(* Small instances of OracleTransactions for TLC.                          *)
(***************************************************************************)
EXTENDS OracleTransactions, TLC

CONSTANTS w1, w2, e1, x1, x2, c1, c2, c3

\* Two copies, a caller of oracle_execute, two transactions, three sessions.
MCCopies == {w1, w2}
MCExecutions == {e1}
MCTxns == {x1, x2}
MCClients == MCCopies \cup MCExecutions \cup MCTxns
MCContexts == {c1, c2, c3}

MCSymmetry ==
    Permutations(MCCopies) \cup Permutations(MCTxns) \cup Permutations(MCContexts)
=============================================================================
