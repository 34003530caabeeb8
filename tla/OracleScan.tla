----------------------------- MODULE OracleScan -----------------------------
(***************************************************************************)
(* One scan of an Oracle relation by a DuckDB query: bind, plan, filter    *)
(* pushdown, column pruning, initialisation and fetch.  The relation is a  *)
(* sequence of columns; the query's filters compare a column with a        *)
(* constant.  DuckDB's planner and the Oracle server are external.         *)
(***************************************************************************)
EXTENDS OracleTypes, Naturals, Sequences, FiniteSets, SequencesExt

CONSTANTS
    Scans,          \* the scans considered: [columns, attached, settings, session]
    Ops,            \* the comparisons the user writes
    BatchSize,      \* STANDARD_VECTOR_SIZE
    MaxRows,        \* bound on the rows a cursor returns
    MaxFilters,     \* bound on the filters of one pushdown
    MaxPushdowns,   \* bound on the calls of the pushdown callback
    MaxExecutions   \* bound on the executions of one prepared plan

\* The settings of an attached database's state and of a session; whether the
\* session can cast text to GEOMETRY (the spatial extension is loaded).
StateSettings == [enable_pushdown : BOOLEAN, enable_spatial_types : BOOLEAN,
                  vector_to_list : BOOLEAN, try_native_lobs : BOOLEAN,
                  enable_type_conversion : BOOLEAN, supports_json_type : BOOLEAN]
SessionSettings == [enable_pushdown : BOOLEAN, enable_spatial_types : BOOLEAN,
                    geometry_cast : BOOLEAN]

\* "other" stands for every condition that the pushdown leaves alone.
AllOps == {"=", "<", ">", "<=", ">=", "IS NULL", "other"}

ASSUME ScanAssumption ==
    /\ BatchSize \in Nat \ {0}
    /\ {MaxRows, MaxPushdowns, MaxExecutions} \subseteq Nat
    /\ Ops \subseteq AllOps
    /\ \A s \in Scans :
        /\ s.columns \in Seq([name : STRING, kind : Kinds])
        /\ s.columns # <<>>    \* a SELECT has a column
        /\ s.attached \in BOOLEAN
        /\ s.settings \in StateSettings
        /\ s.session \in SessionSettings

VARIABLES
    stage,     \* how far the query has got
    scan,      \* what is scanned, a member of Scans
    bind,      \* OracleBindData
    get,       \* DuckDB's LogicalGet, its filters and the columns asked for
    asked,     \* history: the filters the user wrote
    calls,     \* pushdowns so far
    gstate,    \* OracleScanState
    cursor,    \* the rows the open cursor has left and those delivered
    executions

vars == <<stage, scan, bind, get, asked, calls, gstate, cursor, executions>>

Columns == DOMAIN scan.columns
Names == [c \in Columns |-> scan.columns[c].name]
Distinct == \A c, d \in Columns : Names[c] = Names[d] => c = d

\* The column id of a row that needs no column; the code sees a large number.
RowId == Len(scan.columns) + 1

(***************************************************************************)
(* GetOracleSettings: every session option has a value, so it replaces     *)
(* what ATTACH put into the state.                                         *)
(***************************************************************************)
GetOracleSettings ==
    [scan.settings EXCEPT !.enable_pushdown = scan.session.enable_pushdown,
                          !.enable_spatial_types = scan.session.enable_spatial_types]

\* What the bound query selects: an attached table's columns are rewritten,
\* oracle_scan and oracle_query select them as they are.
BaseItem(c) ==
    IF scan.attached THEN SelectItem(scan.columns[c].kind, scan.settings)
                     ELSE NativeItem(scan.columns[c].kind)

\* The type DuckDB plans column c with.
PromisedType(c) ==
    IF scan.attached THEN MapOracleColumn(scan.columns[c].kind, scan.settings)
                     ELSE DescribedType(BaseItem(c))

(***************************************************************************)
(* Bind.  The session of the describe call goes back before bind ends.     *)
(***************************************************************************)
NoBind == [original_names |-> <<>>, column_names |-> <<>>,
           pushed |-> FALSE, where |-> {}, settings |-> {}]
NoGet == [column_ids |-> <<>>, filters |-> {}, selected |-> {}]
NoState == [column_mapping |-> <<>>, defines |-> <<>>,
            executed |-> FALSE, finished |-> FALSE]
NoCursor == [left |-> 0, delivered |-> 0, total |-> 0]

Init ==
    /\ stage = "start"
    /\ scan \in Scans
    /\ bind = NoBind
    /\ get = NoGet
    /\ asked = {}
    /\ calls = 0
    /\ gstate = NoState
    /\ cursor = NoCursor
    /\ executions = 0

OracleBindInternal ==
    /\ stage = "start"
    /\ stage' = "bound"
    /\ bind' = [original_names |-> Names, column_names |-> Names,
                pushed |-> FALSE, where |-> {}, settings |-> GetOracleSettings]
    /\ UNCHANGED <<scan, get, asked, calls, gstate, cursor, executions>>

\* Any OCI call of bind, initialisation or fetch may fail; the query ends.
Fail ==
    /\ stage \in {"start", "optimized", "running"}
    /\ stage' = "failed"
    /\ UNCHANGED <<scan, bind, get, asked, calls, gstate, cursor, executions>>

(***************************************************************************)
(* DuckDB's binder lists the columns of a scan in the order in which the   *)
(* query first mentions them (joins, WHERE, SELECT); a filter refers to a  *)
(* column by its place in that list.                                       *)
(***************************************************************************)
Filter(refs) == {[column |-> refs[i], at |-> i, op |-> op, flipped |-> flipped] :
                    i \in DOMAIN refs, op \in Ops, flipped \in BOOLEAN}

FilterSets(refs) ==
    {{}} \cup {{f} : f \in Filter(refs)}
         \cup (IF MaxFilters > 1 THEN {{f, g} : f, g \in Filter(refs)} ELSE {})

References == UNION {{s \in [1..n -> Columns] : IsInjective(s)} : n \in 0..Len(scan.columns)}

PlanQuery ==
    /\ stage = "bound"
    /\ stage' = "planned"
    /\ \E refs \in References :
          \E filters \in FilterSets(refs) :
             \E selected \in {ToSet(refs), ToSet(refs) \ {f.column : f \in filters}} :
                /\ get' = [column_ids |-> refs, filters |-> filters,
                           selected |-> selected]
                /\ asked' = filters
    /\ UNCHANGED <<scan, bind, calls, gstate, cursor, executions>>

(***************************************************************************)
(* OraclePushdownComplexFilter.  A filter that compares a column with a    *)
(* constant, or tests it for NULL, becomes a clause and leaves DuckDB's    *)
(* plan.  The clause names column_names[column_index], with column_index   *)
(* the place in column_ids.  The query is built from the base query anew.  *)
(***************************************************************************)
FlippedOp == [op \in AllOps |->
    CASE op = ">"  -> "<"
      [] op = ">=" -> "<="
      [] op = "<"  -> ">"
      [] op = "<=" -> ">="
      [] OTHER     -> op]

Extractable(f) == f.op # "other" /\ f.at <= Len(bind.column_names)

\* Mutant of Clause: a constant on the left does not turn the comparison round.
ClauseNotFlipped(f) == [name |-> bind.column_names[f.at], op |-> f.op]

Clause(f) == [name |-> bind.column_names[f.at],
              op |-> IF f.flipped THEN FlippedOp[f.op] ELSE f.op]

PushdownComplexFilter ==
    /\ stage = "planned"
    /\ calls < MaxPushdowns
    /\ calls' = calls + 1
    /\ IF ~bind.settings.enable_pushdown
       THEN UNCHANGED <<bind, get>>
       ELSE LET extracted == {f \in get.filters : Extractable(f)}
            IN  /\ get' = [get EXCEPT !.filters = @ \ extracted]
                /\ bind' = [bind EXCEPT !.where = {Clause(f) : f \in extracted},
                                        !.column_names = bind.original_names,
                                        !.pushed = TRUE]
    /\ UNCHANGED <<stage, scan, asked, gstate, cursor, executions>>

\* The optimizer pushes the filters of a CTE's consumers into the CTE, on the
\* same scan, after the first pass.
MoreFilters ==
    /\ stage = "planned"
    /\ calls \in 1..MaxPushdowns - 1
    /\ \E f \in Filter(get.column_ids) :
          /\ f \notin asked
          /\ Cardinality(asked) < MaxFilters
          /\ get' = [get EXCEPT !.filters = @ \cup {f}]
          /\ asked' = asked \cup {f}
    /\ UNCHANGED <<stage, scan, bind, calls, gstate, cursor, executions>>

\* The ids that are needed, in their order, after each of the ids.
KeptUpTo(ids, needed) ==
    LET kept[n \in 0..Len(ids)] ==
            IF n = 0 THEN <<>>
            ELSE IF ids[n] \in needed THEN Append(kept[n - 1], ids[n])
            ELSE kept[n - 1]
    IN  kept

\* projection_pushdown: columns that nothing above the scan reads any more go.
RemoveUnusedColumns ==
    /\ stage = "planned"
    /\ calls > 0
    /\ stage' = "optimized"
    /\ LET needed == get.selected \cup {f.column : f \in get.filters}
           kept == KeptUpTo(get.column_ids, needed)[Len(get.column_ids)]
       IN  get' = [get EXCEPT !.column_ids = IF kept = <<>> THEN <<RowId>> ELSE kept]
    /\ UNCHANGED <<scan, bind, asked, calls, gstate, cursor, executions>>

(***************************************************************************)
(* OracleInitGlobal: output i is read from the first buffer whose column   *)
(* has the name of the column asked for; one buffer per selected column.   *)
(***************************************************************************)
\* Mutant of ColumnMapping: column ids are taken for buffers.
ColumnMappingById == get.column_ids

\* Mutant of ColumnMapping: the outputs are the first buffers.
ColumnMappingInOrder == [i \in DOMAIN get.column_ids |-> i]

ColumnMapping ==
    [i \in DOMAIN get.column_ids |->
        LET c == get.column_ids[i]
            same == {j \in DOMAIN bind.column_names :
                        c \in Columns /\ bind.column_names[j] = bind.original_names[c]}
        IN  IF same = {} THEN i ELSE CHOOSE j \in same : \A k \in same : j <= k]

OracleInitGlobal ==
    /\ stage = "optimized"
    /\ executions < MaxExecutions
    /\ stage' = "running"
    /\ executions' = executions + 1
    /\ gstate' = [NoState EXCEPT
                    !.column_mapping = ColumnMapping,
                    !.defines = [j \in DOMAIN bind.column_names |->
                                    DefineType(DescribedType(BaseItem(j)))]]
    /\ cursor' = NoCursor
    /\ UNCHANGED <<scan, bind, get, asked, calls>>

\* The server refuses a rewritten query that names a column twice, and a
\* text buffer for an object or a file.
Refused ==
    \/ bind.pushed /\ ~Distinct
    \/ \E j \in DOMAIN gstate.defines : Arrives(BaseItem(j), gstate.defines[j]) = "error"

(***************************************************************************)
(* OracleQueryFunction: the first call executes; every call fetches up to  *)
(* BatchSize rows.  The server answers OCI_NO_DATA when it has fewer.      *)
(***************************************************************************)
\* Mutant of FetchBatch: OCI_NO_DATA ends the scan, with the rows it came with.
FetchBatchDropsLast(left) ==
    LET rows == IF left < BatchSize THEN 0 ELSE BatchSize
    IN  /\ cursor' = [cursor EXCEPT !.left = left - rows,
                                    !.total = IF gstate.executed THEN @ ELSE left,
                                    !.delivered = @ + rows]
        /\ gstate' = [gstate EXCEPT !.executed = TRUE, !.finished = left < BatchSize]
        /\ stage' = IF rows = 0 THEN "done" ELSE "running"

FetchBatch(left) ==
    LET rows == IF left < BatchSize THEN left ELSE BatchSize
        no_data == left < BatchSize
    IN  /\ cursor' = [cursor EXCEPT !.left = left - rows,
                                    !.total = IF gstate.executed THEN @ ELSE left,
                                    !.delivered = @ + rows]
        /\ gstate' = [gstate EXCEPT !.executed = TRUE, !.finished = no_data]
        /\ stage' = IF rows = 0 THEN "done" ELSE "running"

OracleQueryFunction ==
    /\ stage = "running"
    /\ IF gstate.finished
       THEN stage' = "done" /\ UNCHANGED <<gstate, cursor>>
       ELSE IF gstate.executed
       THEN FetchBatch(cursor.left)
       ELSE IF Refused
       THEN stage' = "failed" /\ UNCHANGED <<gstate, cursor>>
       ELSE \E rows \in 0..MaxRows : FetchBatch(rows)
    /\ UNCHANGED <<scan, bind, get, asked, calls, executions>>

\* A prepared statement runs again on the same bind data.
ExecuteAgain ==
    /\ stage = "done"
    /\ executions < MaxExecutions
    /\ stage' = "optimized"
    /\ UNCHANGED <<scan, bind, get, asked, calls, gstate, cursor, executions>>

Ended ==
    /\ stage \in {"done", "failed"}
    /\ UNCHANGED vars

Next ==
    \/ OracleBindInternal
    \/ Fail
    \/ PlanQuery
    \/ PushdownComplexFilter
    \/ MoreFilters
    \/ RemoveUnusedColumns
    \/ OracleInitGlobal
    \/ OracleQueryFunction
    \/ ExecuteAgain
    \/ Ended

Spec == Init /\ [][Next]_vars

-----------------------------------------------------------------------------

TypeOK ==
    /\ stage \in {"start", "bound", "planned", "optimized", "running", "done", "failed"}
    /\ scan \in Scans
    /\ bind.column_names \in Seq({scan.columns[c].name : c \in Columns})
    /\ bind.pushed \in BOOLEAN
    /\ get.column_ids \in Seq(1..RowId)
    /\ get.filters \subseteq asked
    /\ \A f \in asked : f.column \in Columns /\ f.at \in Columns /\ f.op \in Ops
    /\ calls \in 0..MaxPushdowns
    /\ gstate.column_mapping \in Seq(Columns)
    /\ gstate.executed \in BOOLEAN /\ gstate.finished \in BOOLEAN
    /\ cursor \in [left : 0..MaxRows, delivered : 0..MaxRows, total : 0..MaxRows]
    /\ executions \in 0..MaxExecutions

(***************************************************************************)
(* Which rows a filter keeps.  A row gives each column a value; 0 is NULL  *)
(* and every filter compares with the constant 2.                          *)
(***************************************************************************)
Compare(op, a, b) ==
    CASE op = "="  -> a = b
      [] op = "<"  -> a < b
      [] op = "<=" -> a <= b
      [] op = ">"  -> a > b
      [] op = ">=" -> a >= b
      [] OTHER     -> a # b

Keeps(op, flipped, v) ==
    IF op = "IS NULL" THEN v = 0
    ELSE v # 0 /\ IF flipped THEN Compare(op, 2, v) ELSE Compare(op, v, 2)

ColumnNamed(name) == CHOOSE c \in Columns : Names[c] = name

\* Oracle and DuckDB together keep the rows the query asked for.
SameRows ==
    \A row \in [Columns -> 0..3] :
        (\A f \in asked : Keeps(f.op, f.flipped, row[f.column]))
        <=> /\ \A c \in bind.where : Keeps(c.op, FALSE, row[ColumnNamed(c.name)])
            /\ \A f \in get.filters : Keeps(f.op, f.flipped, row[f.column])

Answering == stage \in {"running", "done"} /\ gstate.executed

\* Every filter of the query is applied to its own column, by Oracle or by
\* DuckDB (oracle_extension.cpp:1030): what the project requires of the
\* pushdown.
FiltersSelectAskedRows == Answering => SameRows

(***************************************************************************)
(* What holds: the rows are right when the session switches pushdown off,  *)
(* and when every filter's column stands at its own place in column_ids    *)
(* and one pushdown ran (oracle_extension.cpp:929 takes the place for the  *)
(* column, 1113 starts again from the base query).                         *)
(***************************************************************************)
AlignedFiltersSelectAskedRows ==
    Answering /\ (\/ ~scan.session.enable_pushdown
                  \/ calls = 1 /\ \A f \in asked : f.at = f.column) => SameRows

\* An output column shows the column the query asked for, however columns were
\* pruned after the pushdown fixed the SELECT list, exactly if no earlier column
\* of the relation has the same name: of two such columns the second shows the
\* first (oracle_extension.cpp:486).  That is left to a session that switches
\* pushdown off: a rewritten query that names a column twice is refused.
OutputsShowAskedColumns ==
    Answering =>
        /\ bind.settings.enable_pushdown => Distinct
        /\ \A i \in DOMAIN get.column_ids :
              LET c == get.column_ids[i]
              IN  c \in Columns =>
                     (gstate.column_mapping[i] = c
                      <=> \A d \in Columns : Names[d] = Names[c] => c <= d)

\* The columns whose values do not arrive: the text of a TIMESTAMP WITH TIME
\* ZONE is in the server's default format; a LONG is described and fetched as
\* bytes; the entry casts the scale of a NUMBER to 8 bits without a look at the
\* precision; WKT needs the spatial extension to become a GEOMETRY.
Misread(c) ==
    LET kind == scan.columns[c].kind
    IN  \/ kind \in {"TIMESTAMP WITH TIME ZONE", "LONG"}
        \/ scan.attached /\ kind \in OddScales
        \/ /\ scan.attached /\ kind = "SDO_GEOMETRY"
           /\ scan.settings.enable_spatial_types /\ ~scan.session.geometry_cast

\* In a scan that answers, a value of a column arrives as the type DuckDB
\* planned it with exactly if the column is not one of those: the entry's type,
\* the rewriting, the described type, the buffer and the fetch agree or differ
\* (oracle_table_entry.cpp:16, 71, 112, oracle_extension.cpp:372, 415, 619, 800,
\* 863).  A relation with a column of files or of a user-defined type, needed or
\* not, never answers, because every column gets a buffer.
ValuesKeepPromisedType ==
    Answering =>
        /\ \A c \in Columns : scan.columns[c].kind \notin {"BFILE", "OBJECT"}
        /\ Distinct =>
              \A i \in DOMAIN get.column_ids :
                 LET c == get.column_ids[i]
                     j == gstate.column_mapping[i]
                     text == Arrives(BaseItem(j), gstate.defines[j])
                 IN  c \in Columns =>
                        (Decode(PromisedType(c), text, scan.session.geometry_cast) = "value"
                         <=> ~Misread(c))

\* A scan that has ended gave DuckDB every row of the cursor once, the last and
\* shorter batch too, in every execution of the plan (oracle_extension.cpp:762,
\* 879).
AllRowsDelivered ==
    stage = "done" => cursor.delivered = cursor.total /\ cursor.left = 0
=============================================================================
