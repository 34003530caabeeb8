---------------------- MODULE MCOracleConnectionManager ----------------------
(***************************************************************************)
(* Small instances of OracleConnectionManager for TLC.                     *)
(***************************************************************************)
EXTENDS OracleConnectionManager, TLC

\* Clients, sessions, pools and connection strings are only ever compared with
\* each other.
MCSymmetry ==
    Permutations(Clients) \cup Permutations(Contexts) \cup Permutations(Pools)
    \cup Permutations(ConnStrings)
=============================================================================
