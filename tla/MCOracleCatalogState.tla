------------------------ MODULE MCOracleCatalogState ------------------------
(* Instances of OracleCatalogState for TLC.                                *)
EXTENDS OracleCatalogState, TLC

Option(lazy, current, cache, limit) ==
    [lazy_schema_loading |-> lazy, use_current_schema |-> current,
     connection_cache |-> cache, metadata_result_limit |-> limit]

TwoOptions == {Option(TRUE, TRUE, TRUE, 0), Option(FALSE, FALSE, FALSE, 1)}
Symmetries == Permutations(Threads) \cup Permutations(Objects)
=============================================================================
