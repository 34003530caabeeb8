---------------------------- MODULE MCOracleWrite ----------------------------
(***************************************************************************)
(* Instances of OracleWrite for TLC: schema HR with a table in both cases, *)
(* in one case only, with columns that differ in case, or in another       *)
(* schema.                                                                 *)
(***************************************************************************)
EXTENDS OracleWrite

MCIdentifiers == {"hr", "HR", "APP", "t", "T", "a", "A", "b", "B"}
MCUpperCase ==
    [i \in MCIdentifiers |->
        CASE i = "hr" -> "HR" [] i = "t" -> "T" [] i = "a" -> "A" [] i = "b" -> "B" [] OTHER -> i]

Row(owner, table, id, column, type) ==
    [owner |-> owner, table |-> table, id |-> id, column |-> column, type |-> type]

UpperT == {Row("HR", "T", 1, "A", "BLOB"), Row("HR", "T", 2, "B", "DATE")}
LowerT == {Row("HR", "t", 1, "A", "NUMBER"), Row("HR", "t", 2, "b", "CLOB")}
OtherT == {Row("APP", "T", 1, "A", "NUMBER")}
MixedT == {Row("HR", "T", 1, "a", "DATE"), Row("HR", "T", 2, "A", "BLOB")}

MCDictionaries == {UpperT, LowerT \cup UpperT, UpperT \cup OtherT, MixedT, LowerT}
Request(schema, object, columns, current) ==
    [schema |-> schema, object |-> object, columns |-> columns, current |-> current]
\* One column at a time for every spelling, both together for one.
MCRequests ==
    {Request(schema, object, <<column>>, "HR") :
        schema \in {None, "hr", "HR"}, object \in {"t", "T"}, column \in {"a", "B"}}
    \cup {Request(None, "T", <<"a", "B">>, current) : current \in {"HR", "APP"}}
=============================================================================
