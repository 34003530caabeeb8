---------------------------- MODULE MCOracleAttach ----------------------------
(***************************************************************************)
(* Small instances of OracleAttach for TLC.                                *)
(***************************************************************************)
EXTENDS OracleAttach, TLC

MCSymmetry == Permutations(Instances) \cup Permutations(Aliases)
                  \cup Permutations(ConnStrings) \cup Permutations(States)
=============================================================================
