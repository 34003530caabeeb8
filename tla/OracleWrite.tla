----------------------------- MODULE OracleWrite -----------------------------
(***************************************************************************)
(* The data side of COPY ... TO (FORMAT ORACLE): the table and columns     *)
(* that bind picks from Oracle's dictionary, the INSERT it prepares, and   *)
(* the buffers through which the sink passes each chunk to OCI.  Sessions, *)
(* commits and failures of a COPY are in OracleTransactions.               *)
(***************************************************************************)
EXTENDS Integers, Sequences, FiniteSets, SequencesExt

CONSTANTS
    Identifiers,   \* names of schemas, tables and columns
    UpperCase,     \* the upper-case form of each
    Dictionaries,  \* sets of columns that all_tab_columns may hold
    Requests,      \* what a user asks for: [schema, object, columns], and the
                   \* session's current schema
    DefaultSize,   \* 4096, the smallest buffer for a value
    Sizes,         \* the sizes in bytes of the values
    MaxBatch,      \* MAX_BATCH_SIZE, rows in a chunk
    None,
    Null

\* The external types of binds.
ExternalTypes == {"SQLT_LBI", "SQLT_LNG", "SQLT_CHR"}

ASSUME WriteAssumption ==
    /\ UpperCase \in [Identifiers -> Identifiers]
    /\ None \notin Identifiers
    /\ \A d \in Dictionaries :
        /\ IsFiniteSet(d)
        /\ d \subseteq [owner : Identifiers, table : Identifiers, id : Nat,
                       column : Identifiers, type : STRING]
    /\ Requests \subseteq [schema : Identifiers \cup {None}, object : Identifiers,
                           columns : Seq(Identifiers), current : Identifiers]
    /\ DefaultSize \in Nat \ {0} /\ DefaultSize % 4 = 0
    /\ Sizes \subseteq Nat
    /\ \E n \in Sizes : \A m \in Sizes : m <= n
    /\ None \notin [size : Nat, type : ExternalTypes]
    /\ MaxBatch \in Nat \ {0}
    /\ Null \notin Nat

VARIABLES
    dictionary,   \* the columns of Oracle's tables
    request,      \* what the user asked for
    stage,        \* "bind", "sink", "done", "failed", "too large"
    target,       \* OracleWriteBindData: [schema, object, columns, types], and
                  \* whether the dictionary had the table (history)
    buffers,      \* per column: the element size of its buffer
    bound,        \* per column: the [size, type] OCIBindByPos was given
    cells,        \* per column and row: indicator and length
    chunk,        \* history: the chunk of the last batch
    sent          \* history: the values Oracle read for it

bindVars == <<dictionary, request, target>>
vars == <<dictionary, request, stage, target, buffers, bound, cells, chunk, sent>>

Columns == DOMAIN request.columns

-----------------------------------------------------------------------------

(***************************************************************************)
(* Bind.  The rows of all_tab_columns for the owner and the two spellings  *)
(* of the table come in order; the loop keeps the columns of the best      *)
(* table so far.  A later column replaces one with the same upper case.    *)
(***************************************************************************)
\* schema.table gives a schema; its metadata are those of upper(schema).
Owner(r) == IF r.schema = None THEN r.current ELSE UpperCase[r.schema]

Matches(r) ==
    {row \in dictionary : /\ row.owner = Owner(r)
                          /\ row.table \in {r.object, UpperCase[r.object]}}

NoTable == [table |-> None, owner |-> None, exact |-> FALSE, names |-> <<>>, types |-> <<>>]

\* map[key] = value.
Put(map, key, value) ==
    [k \in DOMAIN map \cup {key} |-> IF k = key THEN value ELSE map[k]]

\* Mutant of KeepBest: the first table stays.
KeepBestFirst(object, best, row) ==
    IF best.table # None /\ row.table # best.table THEN best
    ELSE [table |-> row.table, owner |-> row.owner, exact |-> row.table = object,
          names |-> Put(best.names, UpperCase[row.column], row.column),
          types |-> Put(best.types, row.column, row.type)]

\* Mutant of KeepBest: columns of the table that lost are kept, too.
KeepBestAllColumns(object, best, row) ==
    LET exact == row.table = object
        table == IF best.table = None \/ (exact /\ ~best.exact) THEN row.table ELSE best.table
    IN  [table |-> table, owner |-> row.owner, exact |-> best.exact \/ exact,
         names |-> Put(best.names, UpperCase[row.column], row.column),
         types |-> Put(best.types, row.column, row.type)]

KeepBest(object, best, row) ==
    LET exact == row.table = object
        switch == best.table = None \/ (exact /\ ~best.exact /\ row.table # best.table)
        base == IF switch THEN NoTable ELSE best
        table == IF switch THEN row.table ELSE best.table
    IN  IF row.table # table THEN best
        ELSE [table |-> table,
              owner |-> IF switch THEN row.owner ELSE best.owner,
              exact |-> best.exact \/ exact,
              names |-> Put(base.names, UpperCase[row.column], row.column),
              types |-> Put(base.types, row.column, row.type)]

\* The best table after each number of rows.
BestUpTo(object, rows) ==
    LET best[n \in 0..Len(rows)] ==
            IF n = 0 THEN NoTable ELSE KeepBest(object, best[n - 1], rows[n])
    IN  best

\* Sorted by table, and by column_id within a table.
Sorted(rows) ==
    \A i, j \in DOMAIN rows :
        i < j => \/ rows[i].table = rows[j].table /\ rows[i].id < rows[j].id
                 \/ rows[i].table # rows[j].table
                    /\ \A k \in i..j : rows[k].table \in {rows[i].table, rows[j].table}

\* The column a DuckDB column goes to, and its Oracle type.
ActualName(best, name) ==
    IF UpperCase[name] \in DOMAIN best.names THEN best.names[UpperCase[name]]
    ELSE IF name \in DOMAIN best.types THEN name ELSE None

\* Mutant of Bound: a column that is not in the dictionary loses its name.
BoundUnnamed(r, best) ==
    LET actual == [i \in DOMAIN r.columns |-> ActualName(best, r.columns[i])]
    IN  [described |-> best.table # None,
         schema  |-> IF r.schema = None THEN best.owner ELSE r.schema,
         object  |-> IF best.table = None THEN r.object ELSE best.table,
         columns |-> actual,
         types   |-> [i \in DOMAIN r.columns |->
                         IF actual[i] = None THEN "VARCHAR2" ELSE best.types[actual[i]]]]

\* Mutant of Bound: the INSERT keeps the names of the query.
BoundAsGiven(r, best) ==
    LET actual == [i \in DOMAIN r.columns |-> ActualName(best, r.columns[i])]
    IN  [described |-> best.table # None,
         schema  |-> IF r.schema = None THEN best.owner ELSE r.schema,
         object  |-> IF best.table = None THEN r.object ELSE best.table,
         columns |-> r.columns,
         types   |-> [i \in DOMAIN r.columns |->
                         IF actual[i] = None THEN "VARCHAR2" ELSE best.types[actual[i]]]]

Bound(r, best) ==
    LET actual == [i \in DOMAIN r.columns |-> ActualName(best, r.columns[i])]
    IN  [described |-> best.table # None,
         schema  |-> IF r.schema = None THEN best.owner ELSE r.schema,
         object  |-> IF best.table = None THEN r.object ELSE best.table,
         columns |-> [i \in DOMAIN r.columns |->
                         IF actual[i] = None THEN r.columns[i] ELSE actual[i]],
         types   |-> [i \in DOMAIN r.columns |->
                         IF actual[i] = None THEN "VARCHAR2" ELSE best.types[actual[i]]]]

Init ==
    /\ dictionary \in Dictionaries
    /\ request \in Requests
    /\ stage = "bind"
    /\ target = Bound(request, NoTable)
    /\ buffers = [c \in Columns |-> 0]
    /\ bound = [c \in Columns |-> None]
    /\ cells = [c \in Columns |-> [r \in 1..MaxBatch |-> [indicator |-> 0, length |-> 0]]]
    /\ chunk = <<>>
    /\ sent = <<>>

\* If the metadata query fails, bind goes on with what the user wrote.
OracleWriteBind ==
    /\ stage = "bind"
    /\ \/ \E rows \in SetToSeqs(Matches(request)) :
             /\ Sorted(rows)
             /\ target' = Bound(request, BestUpTo(request.object, rows)[Len(rows)])
       \/ target' = Bound(request, NoTable)
    /\ stage' = "sink"
    /\ UNCHANGED <<dictionary, request, buffers, bound, cells, chunk, sent>>

-----------------------------------------------------------------------------

\* The INSERT names the target between quotes; without a schema the table is
\* the current schema's.
InsertIsValid ==
    \A i \in Columns :
        \E row \in dictionary :
            /\ row.owner = (IF target.schema = None THEN request.current ELSE target.schema)
            /\ row.table = target.object
            /\ row.column = target.columns[i]

\* The external type of a bind, and the function around the placeholder.
BindType(type) ==
    IF type \in {"BLOB", "RAW"} THEN "SQLT_LBI"
    ELSE IF type = "CLOB" THEN "SQLT_LNG" ELSE "SQLT_CHR"

\* The types whose names contain TIMESTAMP.
Timestamps == {"TIMESTAMP", "TIMESTAMP WITH TIME ZONE", "TIMESTAMP WITH LOCAL TIME ZONE"}

Placeholder(type) ==
    CASE type = "DATE"                                   -> "TO_DATE"
      [] type \in Timestamps                             -> "TO_TIMESTAMP"
      [] type \in {"SDO_GEOMETRY", "MDSYS.SDO_GEOMETRY"} -> "FROM_WKTGEOMETRY"
      [] OTHER                                           -> "value"

(***************************************************************************)
(* Sink.  A chunk gives each column a value per row, Null or its size.     *)
(***************************************************************************)
Align(n) == ((n + 3) \div 4) * 4

\* Mutant of MaxLength: only the first row is measured.
MaxLengthFirstRow(values) == IF values = <<>> \/ values[1] = Null THEN 0 ELSE values[1]

MaxLength(values) ==
    LET lengths == {values[r] : r \in DOMAIN values} \ {Null}
    IN  IF lengths = {} THEN 0 ELSE CHOOSE n \in lengths : \A m \in lengths : m <= n

RequiredSize(values) ==
    Align(IF MaxLength(values) > DefaultSize THEN MaxLength(values) + 32 ELSE DefaultSize)

Grows(c, data) == RequiredSize(data[c]) > buffers[c]

\* A buffer only grows, and moves or stays where it is; its size tells the
\* block that OCI was given from a later one.
Resized(data) ==
    [c \in Columns |-> IF Grows(c, data) THEN RequiredSize(data[c]) ELSE buffers[c]]

\* Mutant of Rebound: buffers are bound for the first chunk only.
ReboundOnce(data, blocks) ==
    [c \in Columns |->
        IF bound[c] = None THEN [size |-> blocks[c], type |-> BindType(target.types[c])]
        ELSE bound[c]]

\* A rebind gives OCI the buffer, element size and type of every column.
Rebound(data, blocks) ==
    IF \E c \in Columns : Grows(c, data)
    THEN [c \in Columns |-> [size |-> blocks[c], type |-> BindType(target.types[c])]]
    ELSE bound

\* Lengths have 16 bits.
LengthLimit == 65536

\* BindColumn, for the rows of the chunk.
Filled(values, row, cell) ==
    IF row \notin DOMAIN values THEN cell
    ELSE IF values[row] = Null THEN [indicator |-> -1, length |-> 0]
    ELSE [indicator |-> 0, length |-> values[row] % LengthLimit]

FilledCells(data) ==
    [c \in Columns |-> [r \in 1..MaxBatch |-> Filled(data[c], r, cells[c][r])]]

TooLarge(data, blocks) ==
    \E c \in Columns : \E r \in DOMAIN data[c] :
        data[c][r] # Null /\ data[c][r] > blocks[c]

\* What OCI reads of a row through the binding of its column: -1 stands for
\* memory that is not the buffer's.
Read(size, binding, cell) ==
    IF binding = None \/ binding.size # size THEN -1
    ELSE IF cell.indicator = -1 THEN Null
    ELSE cell.length

Chunks == UNION {[Columns -> [1..n -> Sizes \cup {Null}]] : n \in 0..MaxBatch}

\* The whole of OracleWriteLocalState::Sink; an empty chunk is skipped.
Sink(data) ==
    /\ stage = "sink"
    /\ IF \A c \in Columns : data[c] = <<>>
       THEN UNCHANGED <<stage, buffers, bound, cells, chunk, sent>>
       ELSE LET blocks == Resized(data)
                bindings == Rebound(data, blocks)
                filled == FilledCells(data)
            IN  /\ buffers' = blocks
                /\ bound' = bindings
                /\ IF TooLarge(data, blocks)
                   THEN stage' = "too large" /\ UNCHANGED <<cells, chunk, sent>>
                   ELSE /\ cells' = filled
                        /\ chunk' = data
                        /\ IF InsertIsValid
                           THEN /\ UNCHANGED stage
                                /\ sent' = [c \in Columns |-> [r \in DOMAIN data[c] |->
                                               Read(blocks[c], bindings[c], filled[c][r])]]
                           ELSE stage' = "failed" /\ UNCHANGED sent
    /\ UNCHANGED bindVars

\* OCIBindByPos or the execution of a batch fails for another reason.
Fail ==
    /\ stage = "sink"
    /\ stage' = "failed"
    /\ UNCHANGED <<dictionary, request, target, buffers, bound, cells, chunk, sent>>

OracleWriteFinalize ==
    /\ stage = "sink"
    /\ stage' = "done"
    /\ UNCHANGED <<dictionary, request, target, buffers, bound, cells, chunk, sent>>

Ended == stage \in {"done", "failed", "too large"} /\ UNCHANGED vars

Next ==
    \/ OracleWriteBind
    \/ \E data \in Chunks : Sink(data)
    \/ Fail
    \/ OracleWriteFinalize
    \/ Ended

Spec == Init /\ [][Next]_vars

-----------------------------------------------------------------------------

Cells == [indicator : {0, -1}, length : 0..(LengthLimit - 1)]

TypeOK ==
    /\ dictionary \in Dictionaries /\ request \in Requests
    /\ stage \in {"bind", "sink", "done", "failed", "too large"}
    /\ target.columns \in [Columns -> Identifiers]
    /\ DOMAIN target.types = Columns
    /\ buffers \in [Columns -> Nat]
    /\ DOMAIN bound = Columns
    /\ cells \in [Columns -> [1..MaxBatch -> Cells]]

-----------------------------------------------------------------------------

\* The table meant by the user: the one of exactly that name, if there is one.
RowsOf(table) == {row \in dictionary : row.owner = Owner(request) /\ row.table = table}
Meant == IF RowsOf(request.object) # {} THEN request.object ELSE UpperCase[request.object]
Like(i) == {row \in RowsOf(Meant) : UpperCase[row.column] = UpperCase[request.columns[i]]}

\* A table whose name is exactly the one asked for wins over the upper-case
\* one, in whatever order the dictionary lists them (oracle_write.cpp:114).
ExactTableWins == target.described => target.object = Meant

\* Every copied column that the table has, in whatever case, goes to such a
\* column and is bound and converted as that column's type wants, never as the
\* type of a like-named table (oracle_write.cpp:155, 255).
ColumnsMatchTarget ==
    target.described =>
        \A i \in Columns : Like(i) # {} =>
            \E row \in Like(i) :
                /\ row.column = target.columns[i]
                /\ BindType(row.type) = BindType(target.types[i])
                /\ Placeholder(row.type) = Placeholder(target.types[i])

\* An INSERT whose table and columns the dictionary has names them as they are,
\* unless the user wrote the schema in lower case (oracle_write.cpp:163).
DescribedInsertIsValid ==
    /\ target.described
    /\ request.schema = None \/ request.schema = UpperCase[request.schema]
    /\ \A i \in Columns : Like(i) # {}
    => InsertIsValid

\* A length has 16 bits.
AsGiven(value) == IF value = Null THEN Null ELSE value % LengthLimit

\* Oracle reads each row of every batch as the chunk gives it, NULLs and
\* lengths, whatever earlier batches left in the arrays and however often
\* buffers grew or moved; only the length of a value of 64 KiB or more is taken
\* modulo 2^16 (oracle_write.cpp:362, 409).
BatchIsReadAsGiven ==
    sent # <<>> /\ stage = "sink" =>
        \A c \in Columns : \A r \in DOMAIN chunk[c] :
            sent[c][r] = AsGiven(chunk[c][r])

\* No value is ever larger than the buffer computed for its chunk
\* (oracle_write.cpp:445).
NeverTooLarge == stage # "too large"
=============================================================================
