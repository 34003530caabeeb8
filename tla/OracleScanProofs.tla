--------------------------- MODULE OracleScanProofs ---------------------------
(***************************************************************************)
(* Proofs about OracleScan, for every relation, every setting, every batch *)
(* size and any numbers of filters, pushdowns, rows and executions.        *)
(***************************************************************************)
EXTENDS OracleScan, WellFoundedInduction, TLAPS

\* Records keep their fields.
ShapeOK ==
    /\ scan \in Scans
    /\ bind = [original_names |-> bind.original_names, column_names |-> bind.column_names,
               pushed |-> bind.pushed, where |-> bind.where, settings |-> bind.settings]
    /\ get = [column_ids |-> get.column_ids, filters |-> get.filters, selected |-> get.selected]
    /\ gstate = [column_mapping |-> gstate.column_mapping, defines |-> gstate.defines,
                 executed |-> gstate.executed, finished |-> gstate.finished]
    /\ gstate.executed \in BOOLEAN /\ gstate.finished \in BOOLEAN

\* What bind found stays: the names, and the settings of the session.
BindOK ==
    stage \notin {"start", "failed"} =>
        /\ bind.original_names = Names
        /\ bind.column_names = Names
        /\ bind.settings = GetOracleSettings

\* The bind data know whether the pushdown rewrote the query.
PushedOK ==
    /\ calls \in Nat
    /\ stage \in {"start", "bound"} => calls = 0
    /\ stage \in {"optimized", "running", "done"} => calls > 0
    /\ stage \notin {"start", "failed"} =>
          (bind.pushed <=> calls > 0 /\ scan.session.enable_pushdown)

\* A filter is with DuckDB or, as a clause, with Oracle.
FiltersOK ==
    /\ get.filters \subseteq asked
    /\ \A f \in asked : f.column \in Columns /\ f.op \in AllOps /\ f.flipped \in BOOLEAN
    /\ stage = "planned" => \A i \in DOMAIN get.column_ids : get.column_ids[i] \in Columns
    /\ stage \in {"start", "bound"} => asked = {}
    /\ stage \notin {"start", "failed"} /\ (calls = 0 \/ ~scan.session.enable_pushdown) =>
          bind.where = {} /\ get.filters = asked
    /\ stage \notin {"start", "failed"} /\ calls = 1 /\ scan.session.enable_pushdown =>
          /\ bind.where = {Clause(f) : f \in asked \ get.filters}
          /\ \A f \in asked \ get.filters : f.op # "other"

\* Initialisation follows the bind data and the columns asked for; the cursor
\* is open once the server took the query.
StateOK ==
    stage \in {"running", "done"} =>
        /\ gstate.column_mapping = ColumnMapping
        /\ gstate.defines = [j \in DOMAIN bind.column_names |->
                                DefineType(DescribedType(BaseItem(j)))]
        /\ gstate.executed => ~Refused

\* The rows of the open cursor.
CursorOK ==
    stage \in {"running", "done"} =>
        /\ cursor \in [left : Nat, delivered : Nat, total : Nat]
        /\ ~gstate.executed => cursor = NoCursor
        /\ cursor.delivered + cursor.left = cursor.total
        /\ gstate.finished => cursor.left = 0
        /\ stage = "done" => cursor.left = 0

IInv ==
    /\ ShapeOK
    /\ BindOK
    /\ PushedOK
    /\ FiltersOK
    /\ StateOK
    /\ CursorOK

\* The types of TypeOK, with what carries them over the steps: a plan has no
\* more columns than the relation, and pruning leaves columns or one row id.
TypeInv ==
    /\ TypeOK
    /\ bind.original_names \in Seq({scan.columns[c].name : c \in Columns})
    /\ stage = "planned" => Len(get.column_ids) <= Len(scan.columns)
    /\ stage \in {"optimized", "running", "done"} =>
          \/ \A i \in DOMAIN get.column_ids : get.column_ids[i] \in Columns
          \/ get.column_ids = <<RowId>>

-----------------------------------------------------------------------------
(* Facts about the operators.                                              *)

\* An element of a sequence.
LEMMA SeqElement ==
    ASSUME NEW S, NEW seq \in Seq(S), NEW i \in DOMAIN seq
    PROVE  seq[i] \in S
    OBVIOUS

\* Columns and settings of a scan.
LEMMA ScanFacts ==
    ASSUME scan \in Scans
    PROVE  /\ Columns = 1..Len(scan.columns)
           /\ Len(scan.columns) \in Nat
           /\ \A c \in Columns : /\ scan.columns[c] \in [name : STRING, kind : Kinds]
                                 /\ scan.columns[c].kind \in Kinds
           /\ scan.attached \in BOOLEAN
           /\ scan.settings \in StateSettings
           /\ scan.session \in SessionSettings
<1>1. scan.columns \in Seq([name : STRING, kind : Kinds])
    BY ScanAssumption
<1>2. scan.attached \in BOOLEAN /\ scan.settings \in StateSettings
          /\ scan.session \in SessionSettings
    BY ScanAssumption
<1>3. \A c \in Columns : scan.columns[c] \in [name : STRING, kind : Kinds]
    BY <1>1, SeqElement DEF Columns
<1>4. QED
    BY <1>1, <1>2, <1>3 DEF Columns

\* The session's setting decides about the pushdown.
LEMMA SettingsFacts ==
    ASSUME scan \in Scans
    PROVE  GetOracleSettings.enable_pushdown = scan.session.enable_pushdown
    BY ScanFacts DEF GetOracleSettings, StateSettings, SessionSettings

\* Misread, as a condition on an attached table's column.
MisreadAttached(kind, settings, cast) ==
    \/ kind \in {"TIMESTAMP WITH TIME ZONE", "LONG"}
    \/ kind \in OddScales
    \/ kind = "SDO_GEOMETRY" /\ settings.enable_spatial_types /\ ~cast

\* The chain from table entry to vector, for every kind and all settings: which
\* values arrive, and that a file or an object does not.
LEMMA TypesAgree ==
    ASSUME NEW kind \in Kinds, NEW settings \in StateSettings, NEW cast,
           NEW item, item = SelectItem(kind, settings),
           NEW text, text = Arrives(item, DefineType(DescribedType(item))),
           text # "error"
    PROVE  /\ kind \notin {"BFILE", "OBJECT"}
           /\ Decode(MapOracleColumn(kind, settings), text, cast) = "value"
              <=> ~MisreadAttached(kind, settings, cast)
<1> USE DEF DescribedType, DefineType, Arrives, Decode, MisreadAttached
<1> DEFINE converted == {"SDO_GEOMETRY", "VECTOR", "JSON", "XMLTYPE"}
<1>1. ASSUME kind \notin converted PROVE item = NativeItem(kind)
    <2>1. Category(kind) \notin {"SPATIAL", "VECTOR", "JSON", "XML"}
        BY <1>1 DEF Category, Kinds
    <2>2. GetConversionExpression(kind, settings) = NativeItem(kind)
        BY <2>1 DEF GetConversionExpression, NeedsServerConversion
    <2>3. QED
        BY <2>2 DEF SelectItem
<1>2. CASE kind \in Numbers
    <2>1. item \in {Item("INT", "number"), Item("NUM", "number")}
        <3>1. kind \notin converted
            BY <1>2 DEF Numbers, OddScales
        <3>2. NativeItem(kind) \in {Item("INT", "number"), Item("NUM", "number")}
            BY <1>2 DEF NativeItem, Numbers, OddScales
        <3>3. QED
            BY <1>1, <3>1, <3>2
    <2>2. text = "number"
        BY <2>1 DEF Item
    <2>3. MapOracleColumn(kind, settings) =
              IF kind \in OddScales THEN "DECIMAL, scale > width"
              ELSE IF kind = "NUMBER" THEN "DOUBLE" ELSE "DECIMAL"
        <3>1. Category(kind) = "NUMERIC"
            BY <1>2 DEF Category, Numbers, OddScales
        <3>2. CASE kind = "NUMBER"
            BY <3>1, <3>2 DEF MapOracleColumn, OddScales
        <3>3. CASE kind \in {"NUMBER(p)", "NUMBER(p,s)"}
            BY <3>1, <3>3 DEF MapOracleColumn, OddScales
        <3>4. CASE kind \in OddScales
            BY <3>1, <3>4 DEF MapOracleColumn, OddScales
        <3>5. QED
            BY <1>2, <3>2, <3>3, <3>4 DEF Numbers
    <2>4. QED
        BY <1>2, <2>2, <2>3 DEF Numbers, OddScales
<1>3. CASE kind \in {"VARCHAR2", "CLOB", "LONG", "OBJECT"}
    <2>1. MapOracleColumn(kind, settings) = "VARCHAR"
        BY <1>3 DEF MapOracleColumn, Category, Numbers, OddScales
    <2>2. item = IF kind = "VARCHAR2" THEN Item("CHR", "chars")
                 ELSE IF kind = "CLOB" THEN Item("CLOB", "chars")
                 ELSE IF kind = "LONG" THEN Item("LNG", "chars") ELSE Item("NTY", "object")
        BY <1>1, <1>3 DEF NativeItem, Numbers, OddScales
    <2>3. text = IF kind = "LONG" THEN "unhexed" ELSE IF kind = "OBJECT" THEN "error" ELSE "chars"
        BY <1>3, <2>2 DEF Item
    <2>4. QED
        BY <1>3, <2>1, <2>3 DEF OddScales
<1>4. CASE kind \in {"DATE", "TIMESTAMP"}
    <2>1. MapOracleColumn(kind, settings) = "TIMESTAMP"
        BY <1>4 DEF MapOracleColumn, Category, Numbers, OddScales
    <2>2. item = Item("TIMESTAMP", "datetime")
        BY <1>1, <1>4 DEF NativeItem, Numbers, OddScales
    <2>3. text = "datetime"
        BY <2>2 DEF Item
    <2>4. QED
        BY <1>4, <2>1, <2>3 DEF OddScales
<1>4a. CASE kind = "TIMESTAMP WITH TIME ZONE"
    <2>1. MapOracleColumn(kind, settings) = "TIMESTAMP"
        BY <1>4a DEF MapOracleColumn, Category, Numbers, OddScales
    <2>2. item = Item("TIMESTAMP", "zoned")
        BY <1>1, <1>4a DEF NativeItem, Numbers, OddScales
    <2>3. text = "zoned"
        <3>1. item.oci = "TIMESTAMP" /\ item.content = "zoned"
            BY <2>2 DEF Item
        <3>2. DefineType(DescribedType(item)) = "SQLT_STR"
            BY <3>1
        <3>3. Arrives(item, "SQLT_STR") = "zoned"
            BY <3>1
        <3>4. QED
            BY <3>2, <3>3
    <2>4. Decode("TIMESTAMP", "zoned", cast) = "1970-01-01"
        OBVIOUS
    <2>5. QED
        BY <1>4a, <2>1, <2>3, <2>4
<1>5. CASE kind \in {"BLOB", "RAW", "BFILE"}
    <2>1. MapOracleColumn(kind, settings) = "BLOB"
        BY <1>5 DEF MapOracleColumn, Category, Numbers, OddScales
    <2>2. item = IF kind = "BLOB" THEN Item("BLOB", "bytes")
                 ELSE IF kind = "RAW" THEN Item("BIN", "bytes") ELSE Item("FILE", "locator")
        BY <1>1, <1>5 DEF NativeItem, Numbers, OddScales
    <2>3. text = IF kind = "BFILE" THEN "error" ELSE "bytes"
        BY <1>5, <2>2 DEF Item
    <2>4. QED
        BY <1>5, <2>1, <2>3 DEF OddScales
<1>6. CASE kind = "SDO_GEOMETRY"
    <2>1. MapOracleColumn(kind, settings) =
              IF settings.enable_spatial_types THEN "GEOMETRY" ELSE "VARCHAR"
        BY <1>6 DEF MapOracleColumn, Category, Numbers, OddScales
    <2>2. item \in {Item("CLOB", "wkt"), Item("NTY", "object")}
        BY <1>6 DEF SelectItem, GetConversionExpression, NativeItem, Category, Numbers, OddScales
    <2>3. text = "wkt"
        BY <2>2 DEF Item
    <2>4. QED
        BY <1>6, <2>1, <2>3 DEF OddScales
<1>7. CASE kind = "VECTOR"
    <2>1. MapOracleColumn(kind, settings) \in {"LIST", "VARCHAR"}
        BY <1>7 DEF MapOracleColumn, Category, Numbers, OddScales
    <2>2. item \in {Item("CHR", "array"), Item("VEC", "array")}
        BY <1>7 DEF SelectItem, GetConversionExpression, NativeItem, Category, Numbers, OddScales
    <2>3. text = "array"
        BY <2>2 DEF Item
    <2>4. QED
        BY <1>7, <2>1, <2>3 DEF OddScales
<1>8. CASE kind \in {"JSON", "XMLTYPE"}
    <2>1. MapOracleColumn(kind, settings) = "VARCHAR"
        BY <1>8 DEF MapOracleColumn, Category, Numbers, OddScales
    <2>2. item \in {Item("CHR", "chars"), Item("JSON", "chars"), Item("CLOB", "chars"),
                    Item("NTY", "object")}
        BY <1>8 DEF SelectItem, GetConversionExpression, NativeItem, Category, Numbers, OddScales
    <2>3. text = "chars"
        BY <2>2 DEF Item
    <2>4. QED
        BY <1>8, <2>1, <2>3 DEF OddScales
<1>9. QED
    BY <1>2, <1>3, <1>4, <1>4a, <1>5, <1>6, <1>7, <1>8 DEF Kinds

\* A relation that is not attached is read with the types it was described with.
LEMMA NativeTypesAgree ==
    ASSUME NEW kind \in Kinds, NEW cast,
           NEW item, item = NativeItem(kind),
           NEW text, text = Arrives(item, DefineType(DescribedType(item))),
           text # "error"
    PROVE  /\ kind \notin {"BFILE", "OBJECT"}
           /\ Decode(DescribedType(item), text, cast) = "value"
              <=> kind \notin {"TIMESTAMP WITH TIME ZONE", "LONG"}
<1> USE DEF NativeItem, Item, DescribedType, DefineType, Arrives, Decode, Numbers, OddScales
<1>1. CASE kind \in Numbers
    BY <1>1
<1>2. CASE kind \in Kinds \ Numbers
    BY <1>2 DEF Kinds
<1>3. QED
    BY <1>1, <1>2

\* Turning a comparison round, a constant on the left gives the same rows.
LEMMA FlippedKeeps ==
    ASSUME NEW op \in AllOps, op # "other", NEW v \in 0..3
    PROVE  Keeps(FlippedOp[op], FALSE, v) <=> Keeps(op, TRUE, v)
    BY DEF Keeps, FlippedOp, Compare, AllOps

\* With distinct names, a name leads back to its column.
LEMMA NameOfColumn ==
    ASSUME Distinct, NEW c \in Columns
    PROVE  ColumnNamed(Names[c]) = c
    BY DEF Distinct, ColumnNamed, Names

\* A set of naturals has a smallest element.
LEMMA Smallest ==
    ASSUME NEW T, T \subseteq Nat, T # {}
    PROVE  \E x \in T : \A y \in T : x <= y
<1> DEFINE R == {ss \in Nat \X Nat : ss[1] < ss[2]}
<1>1. IsWellFoundedOn(R, Nat)
    BY NatLessThanWellFounded DEF OpToRel
<1> HIDE DEF R
<1>2. \E x \in T : \A y \in T : ~(<<y, x>> \in R)
    BY <1>1, WFMin
<1>3. \E x \in T : \A y \in T : ~(y < x)
    BY <1>2 DEF R
<1>4. QED
    BY <1>3

\* Each output is mapped to the first column of the name of the column asked for.
LEMMA MappingOfColumn ==
    ASSUME scan \in Scans, bind.original_names = Names, bind.column_names = Names,
           NEW i \in DOMAIN get.column_ids, get.column_ids[i] \in Columns
    PROVE  /\ ColumnMapping[i] \in Columns
           /\ Names[ColumnMapping[i]] = Names[get.column_ids[i]]
           /\ \A d \in Columns : Names[d] = Names[get.column_ids[i]] => ColumnMapping[i] <= d
<1> DEFINE c == get.column_ids[i]
           same == {j \in DOMAIN bind.column_names :
                       c \in Columns /\ bind.column_names[j] = bind.original_names[c]}
<1>1. same = {j \in Columns : Names[j] = Names[c]}
    BY DEF Names
<1>2. c \in same /\ same \subseteq Nat
    BY <1>1, ScanFacts
<1>3. ColumnMapping[i] = IF same = {} THEN i ELSE CHOOSE j \in same : \A k \in same : j <= k
    BY DEF ColumnMapping
<1> HIDE DEF same, c
<1>4. \E j \in same : \A k \in same : j <= k
    BY <1>2, Smallest
<1>5. ColumnMapping[i] \in same /\ \A k \in same : ColumnMapping[i] <= k
    BY <1>2, <1>3, <1>4
<1>6. QED
    BY <1>1, <1>5 DEF c

\* With distinct names, that is the column asked for.
LEMMA MappingOfDistinct ==
    ASSUME scan \in Scans, Distinct, bind.original_names = Names, bind.column_names = Names,
           NEW i \in DOMAIN get.column_ids, get.column_ids[i] \in Columns
    PROVE  ColumnMapping[i] = get.column_ids[i]
    BY MappingOfColumn DEF Distinct

-----------------------------------------------------------------------------
(* Pruning: the loop over the ids computes what it should, and keeps ids.  *)

\* One turn of the loop.
Keep(ids, needed, kept, n) == IF ids[n] \in needed THEN Append(kept, ids[n]) ELSE kept

\* A function that follows the loop for the first k ids.
Prunes(ids, needed, kept, k) ==
    kept = [n \in 0..k |-> IF n = 0 THEN <<>> ELSE Keep(ids, needed, kept[n - 1], n)]

\* There is one for every k: otherwise take the smallest k without one and
\* extend the function for k - 1.
LEMMA PrunesExists ==
    ASSUME NEW ids, NEW needed, NEW k \in Nat
    PROVE  \E kept : Prunes(ids, needed, kept, k)
<1> DEFINE bad == {j \in Nat : ~\E kept : Prunes(ids, needed, kept, j)}
<1> SUFFICES ASSUME bad # {} PROVE FALSE
    OBVIOUS
<1>1. PICK j \in bad : \A i \in bad : j <= i
    <2>1. bad \subseteq Nat
        OBVIOUS
    <2> HIDE DEF bad
    <2>2. QED
        BY <2>1, Smallest
<1>2. j \in Nat /\ ~\E kept : Prunes(ids, needed, kept, j)
    OBVIOUS
<1>3. CASE j = 0
    <2> DEFINE f == [n \in 0..0 |-> <<>>]
    <2>1. f = [n \in 0..0 |-> IF n = 0 THEN <<>> ELSE Keep(ids, needed, f[n - 1], n)]
        OBVIOUS
    <2> HIDE DEF f
    <2>2. Prunes(ids, needed, f, j)
        BY <1>3, <2>1 DEF Prunes
    <2>3. QED
        BY <1>2, <2>2
<1>4. CASE j # 0
    <2>1. j - 1 \in Nat /\ j - 1 \notin bad
        BY <1>1, <1>2, <1>4
    <2>2. PICK f : Prunes(ids, needed, f, j - 1)
        BY <2>1
    <2>3. f = [n \in 0..(j - 1) |-> IF n = 0 THEN <<>> ELSE Keep(ids, needed, f[n - 1], n)]
        BY <2>2 DEF Prunes
    <2> DEFINE last == Keep(ids, needed, f[j - 1], j)
               g == [n \in 0..j |-> IF n = j THEN last ELSE f[n]]
               h == [n \in 0..j |-> IF n = 0 THEN <<>> ELSE Keep(ids, needed, g[n - 1], n)]
    <2>4. ASSUME NEW n \in 0..j PROVE g[n] = h[n]
        <3>1. CASE n = 0
            <4>1. n # j /\ n \in 0..(j - 1)
                BY <1>2, <1>4, <3>1
            <4>2. g[n] = f[n] /\ f[n] = <<>>
                BY <2>3, <3>1, <4>1
            <4>3. QED
                BY <3>1, <4>2
        <3>2. CASE n # 0 /\ n # j
            <4>1. n \in 0..(j - 1) /\ n - 1 \in 0..j /\ n - 1 # j
                BY <1>2, <3>2
            <4>2. g[n] = f[n] /\ g[n - 1] = f[n - 1]
                BY <3>2, <4>1
            <4> HIDE DEF g
            <4>3. f[n] = Keep(ids, needed, f[n - 1], n)
                BY <2>3, <3>2, <4>1
            <4>4. QED
                BY <3>2, <4>2, <4>3
        <3>3. CASE n = j
            <4>1. j - 1 \in 0..j /\ j - 1 # j /\ j \in 0..j
                BY <1>2, <1>4
            <4>2. g[j] = last /\ g[j - 1] = f[j - 1]
                BY <4>1
            <4> HIDE DEF g
            <4>3. QED
                BY <1>4, <3>3, <4>1, <4>2
        <3>4. QED
            BY <3>1, <3>2, <3>3
    <2>5. g = [n \in 0..j |-> g[n]] /\ h = [n \in 0..j |-> h[n]]
        OBVIOUS
    <2>6. g = h
        <3> HIDE DEF g, h
        <3>1. QED
            BY <2>4, <2>5
    <2>7. g = [n \in 0..j |-> IF n = 0 THEN <<>> ELSE Keep(ids, needed, g[n - 1], n)]
        <3> HIDE DEF g
        <3>1. QED
            BY <2>6 DEF h
    <2> HIDE DEF g, h
    <2>8. Prunes(ids, needed, g, j)
        BY <2>7 DEF Prunes
    <2>9. QED
        BY <1>2, <2>8
<1>5. QED
    BY <1>3, <1>4

\* So KeptUpTo is what the loop computes.
LEMMA KeptComputes ==
    ASSUME NEW ids, NEW needed, Len(ids) \in Nat
    PROVE  Prunes(ids, needed, KeptUpTo(ids, needed), Len(ids))
<1> DEFINE kept == KeptUpTo(ids, needed)
<1>1. kept = CHOOSE f : Prunes(ids, needed, f, Len(ids))
    BY DEF KeptUpTo, Prunes, Keep
<1>2. \E f : Prunes(ids, needed, f, Len(ids))
    BY PrunesExists
<1> HIDE DEF kept
<1>3. Prunes(ids, needed, kept, Len(ids))
    BY <1>1, <1>2
<1>4. QED
    BY <1>3 DEF kept

\* What is kept are ids, whatever is needed.
LEMMA KeptAreIds ==
    ASSUME NEW S, NEW ids \in Seq(S), NEW needed
    PROVE  KeptUpTo(ids, needed)[Len(ids)] \in Seq(S)
<1> DEFINE kept == KeptUpTo(ids, needed)
           bad == {n \in 0..Len(ids) : kept[n] \notin Seq(S)}
<1>1. Len(ids) \in Nat
    OBVIOUS
<1>2. Prunes(ids, needed, kept, Len(ids))
    BY <1>1, KeptComputes
<1> HIDE DEF kept
<1>3. kept = [n \in 0..Len(ids) |-> IF n = 0 THEN <<>> ELSE Keep(ids, needed, kept[n - 1], n)]
    BY <1>2 DEF Prunes
<1>4. bad = {}
    <2> SUFFICES ASSUME bad # {} PROVE FALSE
        OBVIOUS
    <2>1. PICK n \in bad : \A m \in bad : n <= m
        <3>1. bad \subseteq Nat
            BY <1>1
        <3> HIDE DEF bad
        <3>2. QED
            BY <3>1, Smallest
    <2>2. n \in 0..Len(ids) /\ kept[n] \notin Seq(S)
        OBVIOUS
    <2>3. CASE n = 0
        <3>1. kept[n] = <<>>
            BY <1>3, <2>2, <2>3
        <3>2. QED
            BY <2>2, <3>1
    <2>4. CASE n # 0
        <3>1. n \in 1..Len(ids) /\ n - 1 \in 0..Len(ids) /\ n - 1 \notin bad
            BY <1>1, <2>1, <2>2, <2>4
        <3>2. kept[n - 1] \in Seq(S)
            BY <3>1
        <3>3. kept[n] = Keep(ids, needed, kept[n - 1], n)
            BY <1>3, <2>2, <2>4
        <3>4. ids[n] \in S
            BY <3>1
        <3>5. QED
            BY <2>2, <3>2, <3>3, <3>4 DEF Keep
    <2>5. QED
        BY <2>3, <2>4
<1>5. QED
    BY <1>1, <1>4 DEF kept

-----------------------------------------------------------------------------

\* The first state satisfies the invariant.
LEMMA InitIInv == Init => IInv
    BY DEF Init, NoBind, NoGet, NoState, NoCursor, IInv, ShapeOK, BindOK, PushedOK, FiltersOK,
           StateOK, CursorOK

\* Bind.
LEMMA BindStep ==
    ASSUME IInv, OracleBindInternal
    PROVE  IInv'
<1> USE DEF IInv, OracleBindInternal
<1>1. ShapeOK' /\ BindOK' /\ PushedOK'
    BY DEF ShapeOK, BindOK, PushedOK, Names, GetOracleSettings, Columns
<1>2. FiltersOK'
    BY DEF FiltersOK, PushedOK, Columns
<1>3. StateOK' /\ CursorOK'
    BY DEF StateOK, CursorOK
<1>4. QED
    BY <1>1, <1>2, <1>3

\* A failure ends the query.
LEMMA FailStep ==
    ASSUME IInv, Fail
    PROVE  IInv'
    BY DEF IInv, Fail, ShapeOK, BindOK, PushedOK, FiltersOK, Columns, StateOK, CursorOK

\* The planner refers to columns by their places.
LEMMA PlanQueryStep ==
    ASSUME IInv, PlanQuery
    PROVE  IInv'
<1> USE DEF IInv, PlanQuery
<1>1. PICK refs \in References : \E filters \in FilterSets(refs) :
          asked' = filters /\ get'.column_ids = refs /\ get'.filters = filters
    BY DEF PlanQuery
<1>2. \A i \in DOMAIN refs : refs[i] \in Columns
    BY DEF References
<1>3. \A filters \in FilterSets(refs) : filters \subseteq Filter(refs)
    BY DEF FilterSets
<1>4. \A f \in Filter(refs) : f.column \in Columns /\ f.op \in AllOps /\ f.flipped \in BOOLEAN
    BY <1>2, ScanAssumption DEF Filter
<1>5. ShapeOK' /\ BindOK' /\ PushedOK'
    BY DEF ShapeOK, BindOK, PushedOK, Names, GetOracleSettings, Columns
<1>6. FiltersOK'
    BY <1>1, <1>2, <1>3, <1>4 DEF FiltersOK, PushedOK, Columns
<1>7. StateOK' /\ CursorOK'
    BY DEF StateOK, CursorOK
<1>8. QED
    BY <1>5, <1>6, <1>7

\* The pushdown takes filters over as clauses.
LEMMA PushdownStep ==
    ASSUME IInv, PushdownComplexFilter
    PROVE  IInv'
<1> USE DEF IInv, PushdownComplexFilter
<1>1. bind.settings.enable_pushdown = scan.session.enable_pushdown
    BY SettingsFacts DEF BindOK, ShapeOK
<1>2. /\ ShapeOK'
      /\ bind'.original_names = bind.original_names /\ bind'.column_names = bind.column_names
      /\ bind'.settings = bind.settings
      /\ bind'.pushed = IF bind.settings.enable_pushdown THEN TRUE ELSE bind.pushed
    <2>1. CASE ~bind.settings.enable_pushdown
        BY <2>1 DEF ShapeOK
    <2>2. CASE bind.settings.enable_pushdown
        <3>1. PICK filters, clauses :
                  /\ get' = [get EXCEPT !.filters = filters]
                  /\ bind' = [bind EXCEPT !.where = clauses, !.column_names = bind.original_names,
                                          !.pushed = TRUE]
            BY <2>2
        <3>2. QED
            BY <2>2, <3>1 DEF ShapeOK, BindOK
    <2>3. QED
        BY <2>1, <2>2
<1>2a. BindOK' /\ PushedOK'
    BY <1>1, <1>2 DEF BindOK, PushedOK, Names, GetOracleSettings, Columns
<1>3. FiltersOK'
    <2>1. CASE ~scan.session.enable_pushdown
        BY <1>1, <2>1 DEF FiltersOK, PushedOK, Columns
    <2>2. CASE scan.session.enable_pushdown
        <3> DEFINE extracted == {f \in get.filters : Extractable(f)}
        <3>1. /\ get'.filters = get.filters \ extracted
              /\ get'.column_ids = get.column_ids
              /\ bind'.where = {Clause(f) : f \in extracted}
              /\ bind'.column_names = bind.column_names
            BY <1>1, <2>2 DEF ShapeOK, BindOK
        <3>2. calls' = 1 => asked' \ get'.filters = extracted
            BY <3>1 DEF FiltersOK, PushedOK
        <3>3. \A f : Clause(f)' = Clause(f)
            BY <3>1 DEF Clause
        <3>4. calls' = 1 => bind'.where = {Clause(f)' : f \in (asked \ get.filters)'}
            BY <3>1, <3>2, <3>3
        <3>5. QED
            BY <2>2, <3>1, <3>2, <3>4 DEF FiltersOK, PushedOK, Columns, Extractable
    <2>3. QED
        BY <2>1, <2>2, ScanFacts DEF ShapeOK, SessionSettings
<1>4. StateOK' /\ CursorOK'
    BY DEF StateOK, CursorOK
<1>5. QED
    BY <1>2, <1>2a, <1>3, <1>4

\* The optimizer adds a filter.
LEMMA MoreFiltersStep ==
    ASSUME IInv, MoreFilters
    PROVE  IInv'
<1> USE DEF IInv, MoreFilters
<1>1. PICK f \in Filter(get.column_ids) :
          /\ f \notin asked
          /\ get' = [get EXCEPT !.filters = get.filters \cup {f}]
          /\ asked' = asked \cup {f}
    BY DEF MoreFilters
<1>2. f.column \in Columns /\ f.op \in AllOps /\ f.flipped \in BOOLEAN
    BY ScanAssumption DEF Filter, FiltersOK
<1>3. ShapeOK' /\ BindOK' /\ PushedOK'
    BY <1>1 DEF ShapeOK, BindOK, PushedOK, Names, GetOracleSettings, Columns
<1>4. FiltersOK'
    <2>1. get'.filters = get.filters \cup {f} /\ get'.column_ids = get.column_ids
        BY <1>1 DEF ShapeOK
    <2>2. asked' \ get'.filters = asked \ get.filters
        BY <1>1, <2>1 DEF FiltersOK
    <2>3. \A g : Clause(g)' = Clause(g)
        BY DEF Clause
    <2>4. {Clause(g)' : g \in (asked \ get.filters)'} = {Clause(g) : g \in asked \ get.filters}
        BY <2>2, <2>3
    <2>5. QED
        BY <1>1, <1>2, <2>1, <2>2, <2>4 DEF FiltersOK, PushedOK, Columns
<1>5. StateOK' /\ CursorOK'
    BY DEF StateOK, CursorOK
<1>6. QED
    BY <1>3, <1>4, <1>5

\* Columns that are not read any more go; filters stay.
LEMMA RemoveUnusedColumnsStep ==
    ASSUME IInv, RemoveUnusedColumns
    PROVE  IInv'
<1> USE DEF IInv, RemoveUnusedColumns
<1>1. PICK ids : get' = [get EXCEPT !.column_ids = ids]
    BY DEF RemoveUnusedColumns
<1>2. ShapeOK' /\ BindOK' /\ PushedOK'
    BY <1>1 DEF ShapeOK, BindOK, PushedOK, Names, GetOracleSettings, Columns
<1>3. FiltersOK'
    <2>1. get'.filters = get.filters
        BY <1>1 DEF ShapeOK
    <2>2. \A g : Clause(g)' = Clause(g)
        BY DEF Clause
    <2>3. {Clause(g)' : g \in (asked \ get.filters)'} = {Clause(g) : g \in asked \ get.filters}
        BY <2>1, <2>2
    <2>4. QED
        BY <2>1, <2>3 DEF FiltersOK, PushedOK, Columns
<1>4. StateOK' /\ CursorOK'
    BY DEF StateOK, CursorOK
<1>5. QED
    BY <1>2, <1>3, <1>4

\* When only stage, state and cursor change, bind data and filters stay right.
LEMMA FiltersStay ==
    ASSUME IInv, UNCHANGED <<scan, bind, get, asked, calls>>,
           stage \in {"optimized", "running", "done"},
           stage' \in {"optimized", "running", "done", "failed"}
    PROVE  BindOK' /\ PushedOK' /\ FiltersOK'
<1>1. \A g : Clause(g)' = Clause(g)
    BY DEF Clause
<1>2. {Clause(g)' : g \in (asked \ get.filters)'} = {Clause(g) : g \in asked \ get.filters}
    BY <1>1
<1>3. QED
    BY <1>2 DEF IInv, BindOK, PushedOK, FiltersOK, Names, GetOracleSettings, Columns

\* Neither the mapping nor the server's verdict depends on the cursor.
LEMMA MappingStays ==
    ASSUME UNCHANGED <<scan, bind, get>>, gstate'.defines = gstate.defines
    PROVE  /\ ColumnMapping' = ColumnMapping
           /\ \A j : BaseItem(j)' = BaseItem(j)
           /\ Refused' <=> Refused
<1>1. ColumnMapping' = ColumnMapping
    BY DEF ColumnMapping, Columns
<1>2. \A j : BaseItem(j)' = BaseItem(j)
    BY DEF BaseItem
<1>3. Distinct' <=> Distinct
    BY DEF Distinct, Names, Columns
<1>4. Refused' <=> (bind.pushed /\ ~Distinct)
                   \/ \E j \in DOMAIN gstate.defines : Arrives(BaseItem(j)', gstate.defines[j]) = "error"
    BY <1>3 DEF Refused
<1>5. QED
    BY <1>1, <1>2, <1>4 DEF Refused

\* So what StateOK says of them stays, too.
LEMMA StateStays ==
    ASSUME StateOK, UNCHANGED <<scan, bind, get>>, stage = "running",
           gstate'.defines = gstate.defines, gstate'.column_mapping = gstate.column_mapping,
           gstate'.executed => ~Refused
    PROVE  StateOK'
<1>1. /\ ColumnMapping' = ColumnMapping
      /\ \A j : BaseItem(j)' = BaseItem(j)
      /\ Refused' <=> Refused
    BY MappingStays
<1>2. [j \in DOMAIN bind'.column_names |-> DefineType(DescribedType(BaseItem(j)'))]
          = [j \in DOMAIN bind.column_names |-> DefineType(DescribedType(BaseItem(j)))]
    BY <1>1
<1>3. QED
    BY <1>1, <1>2 DEF StateOK

\* Initialisation defines the buffers.
LEMMA InitGlobalStep ==
    ASSUME IInv, OracleInitGlobal
    PROVE  IInv'
<1> USE DEF IInv, OracleInitGlobal
<1>1. BindOK' /\ PushedOK' /\ FiltersOK'
    BY FiltersStay
<1>2. ShapeOK'
    BY DEF ShapeOK, NoState
<1>3. StateOK'
    BY DEF StateOK, NoState, ColumnMapping, BaseItem, Columns, Names
<1>4. CursorOK'
    BY DEF CursorOK, NoState, NoCursor
<1>5. QED
    BY <1>1, <1>2, <1>3, <1>4

\* A batch moves rows from the cursor to DuckDB.
LEMMA FetchBatchCursor ==
    ASSUME IInv, NEW left \in Nat, FetchBatch(left), stage = "running", ~gstate.finished,
           gstate.executed => left = cursor.left
    PROVE  /\ CursorOK'
           /\ gstate'.column_mapping = gstate.column_mapping
           /\ gstate'.defines = gstate.defines
           /\ ShapeOK' \/ ~UNCHANGED <<scan, bind, get>>
           /\ stage' \in {"running", "done"}
<1> USE ScanAssumption
<1> DEFINE rows == IF left < BatchSize THEN left ELSE BatchSize
<1>1. rows \in Nat /\ left - rows \in Nat /\ (left < BatchSize => left - rows = 0)
          /\ (rows = 0 => left = 0)
    OBVIOUS
<1>2. /\ cursor' = [cursor EXCEPT !.left = left - rows,
                                  !.total = IF gstate.executed THEN cursor.total ELSE left,
                                  !.delivered = cursor.delivered + rows]
      /\ gstate' = [gstate EXCEPT !.executed = TRUE, !.finished = left < BatchSize]
      /\ stage' = IF rows = 0 THEN "done" ELSE "running"
    BY DEF FetchBatch
<1>3. /\ gstate'.column_mapping = gstate.column_mapping
      /\ gstate'.defines = gstate.defines
      /\ gstate'.executed /\ gstate'.finished = (left < BatchSize)
    BY <1>2 DEF IInv, ShapeOK
<1>4. cursor \in [left : Nat, delivered : Nat, total : Nat]
    BY DEF IInv, CursorOK
<1> HIDE DEF rows
<1> DEFINE total == IF gstate.executed THEN cursor.total ELSE left
<1>4a. cursor.delivered \in Nat /\ cursor.left \in Nat /\ total \in Nat
    BY <1>4
<1>4b. cursor.delivered + rows \in Nat
    BY <1>1, <1>4a
<1>4c. cursor' = [left |-> left - rows, delivered |-> cursor.delivered + rows, total |-> total]
    BY <1>2, <1>4
<1>5. /\ cursor'.left = left - rows
      /\ cursor'.delivered = cursor.delivered + rows
      /\ cursor'.total = total
      /\ cursor' \in [left : Nat, delivered : Nat, total : Nat]
    <2> HIDE DEF total
    <2>1. QED
        BY <1>1, <1>4a, <1>4b, <1>4c
<1>6. ~gstate.executed => cursor.delivered = 0
    BY DEF IInv, CursorOK, NoCursor
<1>7. gstate.executed => cursor.delivered + cursor.left = cursor.total
    BY DEF IInv, CursorOK
<1>8. cursor'.delivered + cursor'.left = cursor'.total
    <2>1. CASE gstate.executed
        BY <1>1, <1>4a, <1>5, <1>7, <2>1
    <2>2. CASE ~gstate.executed
        BY <1>1, <1>4a, <1>5, <1>6, <2>2
    <2>3. QED
        BY <2>1, <2>2
<1>9. CursorOK'
    <2>1. cursor'.left = 0 \/ ~(left < BatchSize)
        BY <1>1, <1>5
    <2>2. stage' = "done" => cursor'.left = 0
        BY <1>1, <1>2, <1>5
    <2>3. QED
        BY <1>3, <1>5, <1>8, <2>1, <2>2 DEF CursorOK
<1>10. ShapeOK' \/ ~UNCHANGED <<scan, bind, get>>
    <2> DEFINE no_data == left < BatchSize
    <2>1. no_data \in BOOLEAN
        OBVIOUS
    <2>2. gstate' = [gstate EXCEPT !.executed = TRUE, !.finished = no_data]
        BY <1>2
    <2> HIDE DEF no_data
    <2>3. QED
        BY <2>1, <2>2 DEF IInv, ShapeOK
<1>11. QED
    BY <1>2, <1>3, <1>9, <1>10

\* Fetching.
LEMMA QueryFunctionStep ==
    ASSUME IInv, OracleQueryFunction
    PROVE  IInv'
<1> USE DEF OracleQueryFunction
<1>2. stage = "running" /\ UNCHANGED <<scan, bind, get, asked, calls>>
    OBVIOUS
<1>3. ASSUME UNCHANGED <<gstate, cursor>>, (stage' = "done" /\ gstate.finished) \/ stage' = "failed"
      PROVE  IInv'
    <2>1. BindOK' /\ PushedOK' /\ FiltersOK'
        BY <1>2, <1>3, FiltersStay
    <2>2. ShapeOK' /\ CursorOK'
        BY <1>2, <1>3 DEF IInv, ShapeOK, CursorOK
    <2>3. StateOK'
        BY <1>2, <1>3, StateStays DEF IInv, StateOK
    <2>4. QED
        BY <2>1, <2>2, <2>3 DEF IInv
<1>4. ASSUME NEW left \in Nat, FetchBatch(left), ~gstate.finished,
             gstate.executed => left = cursor.left, gstate.executed \/ ~Refused
      PROVE  IInv'
    <2>1. /\ CursorOK'
          /\ gstate'.column_mapping = gstate.column_mapping
          /\ gstate'.defines = gstate.defines
          /\ ShapeOK'
          /\ stage' \in {"running", "done"}
        BY <1>2, <1>4, FetchBatchCursor
    <2>2. BindOK' /\ PushedOK' /\ FiltersOK'
        BY <1>2, <2>1, FiltersStay
    <2>4. ~Refused
        BY <1>2, <1>4 DEF IInv, StateOK
    <2>5. StateOK'
        BY <1>2, <2>1, <2>4, StateStays DEF IInv
    <2>6. QED
        BY <2>1, <2>2, <2>5 DEF IInv
<1>5. CASE gstate.finished
    BY <1>3, <1>5
<1>6. CASE ~gstate.finished /\ gstate.executed
    <2>1. cursor.left \in Nat
        BY <1>2 DEF IInv, CursorOK
    <2>2. QED
        BY <1>4, <1>6, <2>1
<1>7. CASE ~gstate.finished /\ ~gstate.executed
    <2>1. CASE Refused
        BY <1>3, <1>7, <2>1
    <2>2. CASE ~Refused
        <3>1. PICK left \in 0..MaxRows : FetchBatch(left)
            BY <1>7, <2>2
        <3>2. left \in Nat
            BY ScanAssumption
        <3>3. QED
            BY <1>4, <1>7, <2>2, <3>1, <3>2
    <2>3. QED
        BY <2>1, <2>2
<1>8. QED
    BY <1>5, <1>6, <1>7

\* No step breaks the invariant.
LEMMA NextIInv == IInv /\ [Next]_vars => IInv'
<1> SUFFICES ASSUME IInv, [Next]_vars PROVE IInv'
    OBVIOUS
<1>1. CASE ExecuteAgain
    <2>1. BindOK' /\ PushedOK' /\ FiltersOK'
        BY <1>1, FiltersStay DEF ExecuteAgain
    <2>2. QED
        BY <1>1, <2>1 DEF ExecuteAgain, IInv, ShapeOK, StateOK, CursorOK
<1>2. CASE Ended \/ UNCHANGED vars
    <2>1. UNCHANGED vars
        BY <1>2 DEF Ended
    <2>2. /\ ColumnMapping' = ColumnMapping
          /\ \A j : BaseItem(j)' = BaseItem(j)
          /\ Refused' <=> Refused
        BY <2>1, MappingStays DEF vars
    <2>3. [j \in DOMAIN bind'.column_names |-> DefineType(DescribedType(BaseItem(j)'))]
              = [j \in DOMAIN bind.column_names |-> DefineType(DescribedType(BaseItem(j)))]
        BY <2>1, <2>2 DEF vars
    <2>4. StateOK'
        BY <2>1, <2>2, <2>3 DEF IInv, StateOK, vars
    <2>5. \A g : Clause(g)' = Clause(g)
        BY <2>1 DEF Clause, vars
    <2>6. {Clause(g)' : g \in (asked \ get.filters)'} = {Clause(g) : g \in asked \ get.filters}
        BY <2>1, <2>5 DEF vars
    <2>7. FiltersOK'
        BY <2>1, <2>6 DEF IInv, FiltersOK, Columns, vars
    <2>8. ShapeOK' /\ BindOK' /\ PushedOK' /\ CursorOK'
        BY <2>1 DEF vars, IInv, ShapeOK, BindOK, PushedOK, CursorOK, Names, Columns,
                    GetOracleSettings
    <2>9. QED
        BY <2>4, <2>7, <2>8 DEF IInv
<1>3. QED
    BY <1>1, <1>2, BindStep, FailStep, PlanQueryStep, PushdownStep, MoreFiltersStep,
       RemoveUnusedColumnsStep, InitGlobalStep, QueryFunctionStep DEF Next

-----------------------------------------------------------------------------

\* A scan that ended gave DuckDB each row of its cursor once: the last batch,
\* which comes with OCI_NO_DATA, is neither dropped nor fetched again, for
\* every batch size and every number of rows (oracle_extension.cpp:762, 879).
THEOREM RowsDelivered == Spec => []AllRowsDelivered
<1>1. IInv => AllRowsDelivered
    BY DEF IInv, CursorOK, AllRowsDelivered
<1>2. QED
    BY InitIInv, NextIInv, <1>1, PTL DEF Spec

\* An output shows the column asked for exactly if no earlier column has its
\* name, whatever the relation and whichever columns the optimizer removes between
\* pushdown and initialisation; with pushdown, every output does
\* (oracle_extension.cpp:486).
THEOREM OutputsRight == Spec => []OutputsShowAskedColumns
<1>1. IInv => OutputsShowAskedColumns
    <2> SUFFICES ASSUME IInv, Answering PROVE OutputsShowAskedColumns
        BY DEF OutputsShowAskedColumns
    <2>1. /\ scan \in Scans
          /\ bind.original_names = Names /\ bind.column_names = Names
          /\ bind.settings.enable_pushdown = scan.session.enable_pushdown
          /\ gstate.column_mapping = ColumnMapping
        BY SettingsFacts DEF IInv, ShapeOK, BindOK, StateOK, Answering
    <2>2. ASSUME bind.settings.enable_pushdown PROVE Distinct
        BY <2>1, <2>2 DEF IInv, PushedOK, StateOK, Answering, Refused
    <2>3. ASSUME NEW i \in DOMAIN get.column_ids, get.column_ids[i] \in Columns
          PROVE  ColumnMapping[i] = get.column_ids[i]
                 <=> \A d \in Columns : Names[d] = Names[get.column_ids[i]]
                                           => get.column_ids[i] <= d
        <3> DEFINE m == ColumnMapping[i]
                   c == get.column_ids[i]
        <3>1. /\ m \in Columns /\ Names[m] = Names[c]
              /\ \A d \in Columns : Names[d] = Names[c] => m <= d
            BY <2>1, <2>3, MappingOfColumn
        <3>2. c \in Columns /\ Columns \subseteq Nat
            BY <2>1, <2>3, ScanFacts
        <3> HIDE DEF m, c
        <3>3. m = c <=> \A d \in Columns : Names[d] = Names[c] => c <= d
            BY <3>1, <3>2
        <3>4. QED
            BY <3>3 DEF m, c
    <2>4. QED
        BY <2>1, <2>2, <2>3 DEF OutputsShowAskedColumns
<1>2. QED
    BY InitIInv, NextIInv, <1>1, PTL DEF Spec

\* Values arrive as the type DuckDB planned with, under every combination of
\* the settings, exactly if the column is none of those that Misread lists, and a
\* scan with a column of files or objects never answers
\* (oracle_table_entry.cpp:16, 71, 112, oracle_extension.cpp:372, 415, 619, 800, 863).
THEOREM ValuesRight == Spec => []ValuesKeepPromisedType
<1>1. IInv => ValuesKeepPromisedType
    <2> SUFFICES ASSUME IInv, Answering PROVE ValuesKeepPromisedType
        BY DEF ValuesKeepPromisedType
    <2>1. /\ scan \in Scans
          /\ bind.original_names = Names /\ bind.column_names = Names
          /\ gstate.column_mapping = ColumnMapping
          /\ gstate.defines = [j \in DOMAIN bind.column_names |->
                                  DefineType(DescribedType(BaseItem(j)))]
          /\ \A j \in DOMAIN gstate.defines : Arrives(BaseItem(j), gstate.defines[j]) # "error"
        BY DEF IInv, ShapeOK, BindOK, StateOK, Answering, Refused
    <2>2. scan.session.geometry_cast \in BOOLEAN /\ scan.settings \in StateSettings
              /\ scan.attached \in BOOLEAN
        BY <2>1, ScanFacts DEF SessionSettings
    <2>3. ASSUME NEW c \in Columns
          PROVE  /\ scan.columns[c].kind \notin {"BFILE", "OBJECT"}
                 /\ Decode(PromisedType(c), Arrives(BaseItem(c), gstate.defines[c]),
                           scan.session.geometry_cast) = "value"
                    <=> ~Misread(c)
        <3> DEFINE kind == scan.columns[c].kind
                   cast == scan.session.geometry_cast
                   item == BaseItem(c)
                   text == Arrives(item, gstate.defines[c])
        <3>1. kind \in Kinds
            BY <2>1, ScanFacts
        <3>2. c \in DOMAIN gstate.defines
                  /\ gstate.defines[c] = DefineType(DescribedType(item))
            BY <2>1, <2>3 DEF Names
        <3>3. text # "error"
            BY <2>1, <3>2
        <3>4. CASE scan.attached
            <4> DEFINE settings == scan.settings
            <4>1. item = SelectItem(kind, settings)
                      /\ PromisedType(c) = MapOracleColumn(kind, settings)
                BY <3>4 DEF BaseItem, PromisedType
            <4>2. Misread(c) <=> MisreadAttached(kind, settings, cast)
                BY <3>4 DEF Misread, MisreadAttached
            <4>3. text = Arrives(item, DefineType(DescribedType(item)))
                BY <3>2
            <4>4. settings \in StateSettings
                BY <2>2
            <4> HIDE DEF kind, cast, item, text, settings
            <4>5. /\ kind \notin {"BFILE", "OBJECT"}
                  /\ Decode(MapOracleColumn(kind, settings), text, cast) = "value"
                     <=> ~MisreadAttached(kind, settings, cast)
                BY <3>1, <3>3, <4>1, <4>3, <4>4, TypesAgree
            <4>6. Decode(PromisedType(c), text, cast) = "value" <=> ~Misread(c)
                BY <4>1, <4>2, <4>5
            <4>7. QED
                BY <4>5, <4>6 DEF kind, cast, item, text
        <3>5. CASE ~scan.attached
            <4>1. item = NativeItem(kind) /\ PromisedType(c) = DescribedType(item)
                BY <3>5 DEF BaseItem, PromisedType
            <4>2. Misread(c) <=> kind \in {"TIMESTAMP WITH TIME ZONE", "LONG"}
                BY <3>5 DEF Misread
            <4>3. text = Arrives(item, DefineType(DescribedType(item)))
                BY <3>2
            <4> HIDE DEF kind, cast, item, text
            <4>4. cast \in BOOLEAN
                BY <2>2 DEF cast
            <4>5. /\ kind \notin {"BFILE", "OBJECT"}
                  /\ Decode(DescribedType(item), text, cast) = "value"
                     <=> kind \notin {"TIMESTAMP WITH TIME ZONE", "LONG"}
                BY <3>1, <3>3, <4>1, <4>3, <4>4, NativeTypesAgree
            <4>6. Decode(PromisedType(c), text, cast) = "value" <=> ~Misread(c)
                BY <4>1, <4>2, <4>5
            <4>7. QED
                BY <4>5, <4>6 DEF kind, cast, item, text
        <3>6. QED
            BY <2>2, <3>4, <3>5
    <2>4. ASSUME Distinct, NEW i \in DOMAIN get.column_ids, get.column_ids[i] \in Columns
          PROVE  gstate.column_mapping[i] = get.column_ids[i]
        BY <2>1, <2>4, MappingOfDistinct
    <2>5. QED
        BY <2>3, <2>4 DEF ValuesKeepPromisedType
<1>2. QED
    BY InitIInv, NextIInv, <1>1, PTL DEF Spec

\* A clause keeps the rows of the filter it was made from, if the filter's
\* place is its column.
LEMMA ClauseKeeps ==
    ASSUME IInv, Distinct, bind.column_names = Names, NEW f \in asked, f.at = f.column,
           f.op # "other", NEW row \in [Columns -> 0..3]
    PROVE  Keeps(Clause(f).op, FALSE, row[ColumnNamed(Clause(f).name)])
               <=> Keeps(f.op, f.flipped, row[f.column])
<1>1. f.column \in Columns /\ f.op \in AllOps /\ f.flipped \in BOOLEAN
    BY DEF IInv, FiltersOK
<1>2. row[f.column] \in 0..3
    BY <1>1
<1>3. ColumnNamed(Clause(f).name) = f.column
    BY <1>1, NameOfColumn DEF Clause
<1>4. CASE f.flipped
    <2>1. Clause(f).op = FlippedOp[f.op]
        BY <1>4 DEF Clause
    <2>2. Keeps(FlippedOp[f.op], FALSE, row[f.column]) <=> Keeps(f.op, TRUE, row[f.column])
        BY <1>1, <1>2, FlippedKeeps
    <2>3. f.flipped = TRUE
        BY <1>1, <1>4
    <2>4. QED
        BY <1>3, <2>1, <2>2, <2>3
<1>5. CASE ~f.flipped
    <2>1. Clause(f).op = f.op
        BY <1>5 DEF Clause
    <2>2. f.flipped = FALSE
        BY <1>1, <1>5
    <2>3. QED
        BY <1>3, <2>1, <2>2
<1>6. QED
    BY <1>4, <1>5

\* Oracle and DuckDB together keep the rows asked for when pushdown is off, and
\* after one pushdown whose filters stand at their columns' places, for every
\* set of filters: no filter is lost or applied twice differently, and
\* comparisons with the constant on the left are turned round
\* (oracle_extension.cpp:929).
THEOREM AlignedFilters == Spec => []AlignedFiltersSelectAskedRows
<1>1. IInv => AlignedFiltersSelectAskedRows
    <2> SUFFICES ASSUME IInv, Answering,
                        \/ ~scan.session.enable_pushdown
                        \/ calls = 1 /\ \A f \in asked : f.at = f.column,
                        NEW row \in [Columns -> 0..3]
                 PROVE  (\A f \in asked : Keeps(f.op, f.flipped, row[f.column]))
                        <=> /\ \A c \in bind.where : Keeps(c.op, FALSE, row[ColumnNamed(c.name)])
                            /\ \A f \in get.filters : Keeps(f.op, f.flipped, row[f.column])
        BY DEF AlignedFiltersSelectAskedRows, SameRows
    <2>1. CASE ~scan.session.enable_pushdown
        BY <2>1 DEF IInv, FiltersOK, Answering
    <2>2. CASE scan.session.enable_pushdown
        <3>1. bind.column_names = Names
            BY DEF IInv, BindOK, Answering
        <3>2. Distinct
            BY <2>2 DEF IInv, PushedOK, StateOK, Answering, Refused
        <3>3. /\ bind.where = {Clause(f) : f \in asked \ get.filters}
              /\ \A f \in asked \ get.filters : f.op # "other"
              /\ get.filters \subseteq asked
            BY <2>2 DEF IInv, FiltersOK, Answering
        <3>4. \A f \in asked \ get.filters :
                  Keeps(Clause(f).op, FALSE, row[ColumnNamed(Clause(f).name)])
                      <=> Keeps(f.op, f.flipped, row[f.column])
            BY <2>2, <3>1, <3>2, <3>3, ClauseKeeps
        <3>5. (\A c \in bind.where : Keeps(c.op, FALSE, row[ColumnNamed(c.name)]))
                  <=> \A f \in asked \ get.filters : Keeps(f.op, f.flipped, row[f.column])
            BY <3>3, <3>4
        <3>6. QED
            BY <3>3, <3>5
    <2>3. QED
        BY <2>1, <2>2
<1>2. QED
    BY InitIInv, NextIInv, <1>1, PTL DEF Spec
-----------------------------------------------------------------------------
(* Types.                                                                  *)

\* The sets the types are built from depend on the scanned relation alone.
LEMMA ScanTypes ==
    ASSUME scan \in Scans
    PROVE  /\ RowId \in Nat /\ RowId # 0 /\ 1 \in Columns
           /\ Columns \subseteq 1..RowId
           /\ Names \in Seq({scan.columns[c].name : c \in Columns})
<1>1. Columns = 1..Len(scan.columns) /\ Len(scan.columns) \in Nat
    BY ScanFacts
<1>2. Len(scan.columns) # 0
    <2>1. scan.columns # <<>> /\ scan.columns \in Seq([name : STRING, kind : Kinds])
        BY ScanAssumption
    <2>2. QED
        BY <2>1
<1>3. Names \in [1..Len(scan.columns) -> {scan.columns[c].name : c \in Columns}]
    BY <1>1 DEF Names
<1>4. QED
    BY <1>1, <1>2, <1>3 DEF RowId

\* With the same scan the types are the same.
LEMMA TypesStay ==
    ASSUME UNCHANGED scan
    PROVE  /\ Columns' = Columns /\ RowId' = RowId
           /\ {scan.columns[c].name : c \in Columns}' = {scan.columns[c].name : c \in Columns}
    BY DEF Columns, RowId

LEMMA InitTypes == Init => TypeInv
<1> SUFFICES ASSUME Init PROVE TypeInv
    OBVIOUS
<1>1. /\ MaxRows \in Nat /\ MaxPushdowns \in Nat /\ MaxExecutions \in Nat
    BY ScanAssumption
<1>2. cursor \in [left : 0..MaxRows, delivered : 0..MaxRows, total : 0..MaxRows]
    BY <1>1 DEF Init, NoCursor
<1>3. \A S : <<>> \in Seq(S)
    OBVIOUS
<1>4. QED
    BY <1>1, <1>2, <1>3 DEF Init, TypeInv, TypeOK, NoBind, NoGet, NoState

LEMMA BindTypes ==
    ASSUME IInv, TypeInv, OracleBindInternal
    PROVE  TypeInv'
<1> USE DEF OracleBindInternal
<1>1. UNCHANGED scan /\ scan \in Scans
    BY DEF IInv, ShapeOK
<1>2. /\ bind'.original_names = Names /\ bind'.column_names = Names
      /\ bind'.pushed = FALSE
    OBVIOUS
<1>3. QED
    BY <1>1, <1>2, ScanTypes, TypesStay DEF TypeInv, TypeOK

LEMMA PlanQueryTypes ==
    ASSUME IInv, TypeInv, PlanQuery
    PROVE  TypeInv'
<1> USE DEF PlanQuery
<1>1. UNCHANGED scan /\ scan \in Scans /\ stage' = "planned"
    BY DEF IInv, ShapeOK
<1>2. PICK refs \in References : \E filters \in FilterSets(refs) :
          asked' = filters /\ get'.column_ids = refs /\ get'.filters = filters
    OBVIOUS
<1>3. refs \in Seq(Columns) /\ Len(refs) <= Len(scan.columns)
    <2>1. Len(scan.columns) \in Nat
        BY <1>1, ScanFacts
    <2>2. PICK n \in 0..Len(scan.columns) : refs \in [1..n -> Columns]
        BY DEF References
    <2>3. QED
        BY <2>1, <2>2
<1>4. DOMAIN refs \subseteq Columns
    BY <1>1, <1>3, ScanFacts
<1>5. \A f \in Filter(refs) : f.column \in Columns /\ f.at \in Columns /\ f.op \in Ops
    BY <1>3, <1>4 DEF Filter
<1>6. \A filters \in FilterSets(refs) : filters \subseteq Filter(refs)
    BY DEF FilterSets
<1>7. \A f \in asked' : f.column \in Columns /\ f.at \in Columns /\ f.op \in Ops
    BY <1>2, <1>5, <1>6
<1>8. refs \in Seq(1..RowId)
    BY <1>1, <1>3, ScanTypes
<1>9. get'.filters \subseteq asked'
    BY <1>2
<1>10. QED
    BY <1>1, <1>2, <1>3, <1>7, <1>8, <1>9, TypesStay DEF TypeInv, TypeOK

LEMMA PushdownTypes ==
    ASSUME IInv, TypeInv, PushdownComplexFilter
    PROVE  TypeInv'
<1> USE DEF PushdownComplexFilter
<1>1. UNCHANGED scan /\ stage' = stage /\ stage = "planned"
    OBVIOUS
<1>2. calls' \in 0..MaxPushdowns
    BY ScanAssumption DEF TypeInv, TypeOK
<1>3. /\ get'.column_ids = get.column_ids /\ get'.filters \subseteq get.filters
      /\ bind'.original_names = bind.original_names
      /\ bind'.column_names \in {bind.column_names, bind.original_names}
      /\ bind'.pushed \in {TRUE, bind.pushed}
    <2>1. CASE ~bind.settings.enable_pushdown
        BY <2>1
    <2>2. CASE bind.settings.enable_pushdown
        <3>1. PICK filters, clauses :
                  /\ filters \subseteq get.filters
                  /\ get' = [get EXCEPT !.filters = filters]
                  /\ bind' = [bind EXCEPT !.where = clauses, !.column_names = bind.original_names,
                                          !.pushed = TRUE]
            <4> DEFINE extracted == {f \in get.filters : Extractable(f)}
                       others == get.filters \ extracted
                       taken == {Clause(f) : f \in extracted}
            <4>1. /\ get' = [get EXCEPT !.filters = others]
                  /\ bind' = [bind EXCEPT !.where = taken, !.column_names = bind.original_names,
                                          !.pushed = TRUE]
                BY <2>2
            <4>2. others \subseteq get.filters
                OBVIOUS
            <4> HIDE DEF others, taken
            <4>3. QED
                BY <4>1, <4>2
        <3>2. QED
            BY <3>1 DEF IInv, ShapeOK
    <2>3. QED
        BY <2>1, <2>2
<1>4. QED
    BY <1>1, <1>2, <1>3, TypesStay DEF TypeInv, TypeOK

LEMMA MoreFiltersTypes ==
    ASSUME IInv, TypeInv, MoreFilters
    PROVE  TypeInv'
<1> USE DEF MoreFilters
<1>1. UNCHANGED <<stage, scan, bind, calls, gstate, cursor, executions>> /\ stage = "planned"
    OBVIOUS
<1>2. PICK f \in Filter(get.column_ids) :
          /\ get' = [get EXCEPT !.filters = get.filters \cup {f}]
          /\ asked' = asked \cup {f}
    OBVIOUS
<1>3. scan \in Scans /\ get.column_ids \in Seq(1..RowId)
          /\ Len(get.column_ids) <= Len(scan.columns)
    BY <1>1 DEF TypeInv, TypeOK
<1>4. \A i \in DOMAIN get.column_ids : i \in Columns /\ get.column_ids[i] \in Columns
    BY <1>1, <1>3, ScanFacts DEF IInv, FiltersOK
<1>5. f.column \in Columns /\ f.at \in Columns /\ f.op \in Ops
    BY <1>2, <1>4 DEF Filter
<1>6. get'.filters = get.filters \cup {f} /\ get'.column_ids = get.column_ids
    BY <1>2 DEF IInv, ShapeOK
<1>7. get'.filters \subseteq asked'
    BY <1>2, <1>6 DEF TypeInv, TypeOK
<1>8. QED
    BY <1>1, <1>2, <1>5, <1>6, <1>7, TypesStay DEF TypeInv, TypeOK

LEMMA RemoveUnusedColumnsTypes ==
    ASSUME IInv, TypeInv, RemoveUnusedColumns
    PROVE  TypeInv'
<1> USE DEF RemoveUnusedColumns
<1>1. UNCHANGED <<scan, bind, asked, calls, gstate, cursor, executions>> /\ stage = "planned"
          /\ stage' = "optimized"
    OBVIOUS
<1>2. PICK needed : LET kept == KeptUpTo(get.column_ids, needed)[Len(get.column_ids)]
                    IN  get' = [get EXCEPT !.column_ids = IF kept = <<>> THEN <<RowId>> ELSE kept]
    OBVIOUS
<1> DEFINE kept == KeptUpTo(get.column_ids, needed)[Len(get.column_ids)]
<1>3. scan \in Scans /\ get.column_ids \in Seq(Columns)
    <2>1. scan \in Scans /\ get.column_ids \in Seq(1..RowId)
        BY DEF TypeInv, TypeOK
    <2>2. \A i \in DOMAIN get.column_ids : get.column_ids[i] \in Columns
        BY <1>1 DEF IInv, FiltersOK
    <2>3. QED
        BY <2>1, <2>2
<1>4. kept \in Seq(Columns)
    BY <1>3, KeptAreIds
<1> HIDE DEF kept
<1>5. get'.filters = get.filters /\ get'.column_ids = IF kept = <<>> THEN <<RowId>> ELSE kept
    BY <1>2 DEF kept, IInv, ShapeOK
<1>6. <<RowId>> \in Seq(1..RowId) /\ kept \in Seq(1..RowId)
    BY <1>3, <1>4, ScanTypes
<1>7. \/ \A i \in DOMAIN get'.column_ids : get'.column_ids[i] \in Columns
      \/ get'.column_ids = <<RowId>>
    <2>1. CASE kept = <<>>
        BY <1>5, <2>1
    <2>2. CASE kept # <<>>
        <3>1. get'.column_ids \in Seq(Columns)
            BY <1>4, <1>5, <2>2
        <3>2. QED
            BY <3>1, SeqElement
    <2>3. QED
        BY <2>1, <2>2
<1>8. get'.column_ids \in Seq(1..RowId)
    BY <1>5, <1>6
<1>9. QED
    BY <1>1, <1>5, <1>7, <1>8, TypesStay DEF TypeInv, TypeOK

\* The buffers that outputs are read from are columns.
LEMMA MappingTypes ==
    ASSUME IInv, TypeInv, stage = "optimized"
    PROVE  ColumnMapping \in Seq(Columns)
<1>1. /\ scan \in Scans /\ get.column_ids \in Seq(1..RowId)
      /\ bind.original_names = Names /\ bind.column_names = Names
    BY DEF TypeInv, TypeOK, IInv, BindOK
<1>2. ASSUME NEW i \in DOMAIN get.column_ids PROVE ColumnMapping[i] \in Columns
    <2> DEFINE c == get.column_ids[i]
               same == {j \in DOMAIN bind.column_names :
                           c \in Columns /\ bind.column_names[j] = bind.original_names[c]}
    <2>1. ColumnMapping[i] = IF same = {} THEN i ELSE CHOOSE j \in same : \A k \in same : j <= k
        BY DEF ColumnMapping
    <2>2. same \subseteq Columns
        BY <1>1 DEF Names
    <2>3. Columns \subseteq Nat
        BY <1>1, ScanFacts
    <2>4. c \in Columns => c \in same
        BY <1>1 DEF Names
    <2>5. c \notin Columns => i \in Columns
        <3>1. ASSUME c \notin Columns PROVE get.column_ids = <<RowId>>
            BY <3>1 DEF TypeInv
        <3>2. QED
            BY <1>1, <3>1, ScanTypes
    <2> HIDE DEF c, same
    <2>6. CASE same = {}
        BY <2>1, <2>4, <2>5, <2>6
    <2>7. CASE same # {}
        <3>1. \E j \in same : \A k \in same : j <= k
            BY <2>2, <2>3, <2>7, Smallest
        <3>2. QED
            BY <2>1, <2>2, <2>7, <3>1
    <2>8. QED
        BY <2>6, <2>7
<1>3. /\ DOMAIN ColumnMapping = DOMAIN get.column_ids
      /\ ColumnMapping = [i \in DOMAIN get.column_ids |-> ColumnMapping[i]]
    BY DEF ColumnMapping
<1>4. DOMAIN get.column_ids = 1..Len(get.column_ids) /\ Len(get.column_ids) \in Nat
    BY <1>1
<1>5. ColumnMapping \in [1..Len(get.column_ids) -> Columns]
    BY <1>2, <1>3, <1>4
<1>6. QED
    BY <1>4, <1>5

LEMMA InitGlobalTypes ==
    ASSUME IInv, TypeInv, OracleInitGlobal
    PROVE  TypeInv'
<1> USE DEF OracleInitGlobal
<1>1. UNCHANGED <<scan, bind, get, asked, calls>> /\ stage = "optimized" /\ stage' = "running"
    OBVIOUS
<1>2. executions' \in 0..MaxExecutions
    BY ScanAssumption DEF TypeInv, TypeOK
<1>3. /\ gstate'.column_mapping = ColumnMapping
      /\ gstate'.executed = FALSE /\ gstate'.finished = FALSE
    BY DEF NoState
<1>4. cursor' \in [left : 0..MaxRows, delivered : 0..MaxRows, total : 0..MaxRows]
    BY ScanAssumption DEF NoCursor
<1>5. QED
    BY <1>1, <1>2, <1>3, <1>4, MappingTypes, TypesStay DEF TypeInv, TypeOK

LEMMA QueryFunctionTypes ==
    ASSUME IInv, TypeInv, OracleQueryFunction
    PROVE  TypeInv'
<1> USE DEF OracleQueryFunction
<1>1. UNCHANGED <<scan, bind, get, asked, calls, executions>> /\ stage = "running"
    OBVIOUS
<1>2. ASSUME UNCHANGED <<gstate, cursor>>, stage' \in {"done", "failed"}
      PROVE  TypeInv'
    BY <1>1, <1>2, TypesStay DEF TypeInv, TypeOK
<1>3. ASSUME NEW left \in 0..MaxRows, FetchBatch(left), ~gstate.finished,
             gstate.executed => left = cursor.left
      PROVE  TypeInv'
    <2>1. MaxRows \in Nat /\ left \in Nat
        BY ScanAssumption
    <2>2. /\ CursorOK'
          /\ gstate'.column_mapping = gstate.column_mapping
          /\ stage' \in {"running", "done"}
        BY <1>1, <1>3, <2>1, FetchBatchCursor
    <2>3. gstate'.executed \in BOOLEAN /\ gstate'.finished \in BOOLEAN
        BY <1>1, <1>3, <2>1, FetchBatchCursor DEF ShapeOK
    <2>4. cursor'.total \in 0..MaxRows
        <3>1. cursor \in [left : 0..MaxRows, delivered : 0..MaxRows, total : 0..MaxRows]
            BY DEF TypeInv, TypeOK
        <3>2. cursor'.total = IF gstate.executed THEN cursor.total ELSE left
            BY <1>3, <3>1 DEF FetchBatch
        <3>3. QED
            BY <3>1, <3>2
    <2>5. cursor' \in [left : Nat, delivered : Nat, total : Nat]
              /\ cursor'.delivered + cursor'.left = cursor'.total
        BY <2>2 DEF CursorOK
    <2>6. cursor' \in [left : 0..MaxRows, delivered : 0..MaxRows, total : 0..MaxRows]
        <3>1. cursor'.left \in 0..MaxRows /\ cursor'.delivered \in 0..MaxRows
            BY <2>1, <2>4, <2>5
        <3>2. cursor' = [left |-> cursor'.left, delivered |-> cursor'.delivered,
                         total |-> cursor'.total]
            BY <2>5
        <3>3. QED
            BY <2>4, <3>1, <3>2
    <2>7. QED
        BY <1>1, <2>2, <2>3, <2>6, TypesStay DEF TypeInv, TypeOK
<1>4. CASE gstate.finished
    BY <1>2, <1>4
<1>5. CASE ~gstate.finished /\ gstate.executed
    <2>1. cursor.left \in 0..MaxRows
        BY DEF TypeInv, TypeOK
    <2>2. QED
        BY <1>3, <1>5, <2>1
<1>6. CASE ~gstate.finished /\ ~gstate.executed
    <2>1. CASE Refused
        BY <1>2, <1>6, <2>1
    <2>2. CASE ~Refused
        BY <1>3, <1>6, <2>2
    <2>3. QED
        BY <2>1, <2>2
<1>7. QED
    BY <1>4, <1>5, <1>6

LEMMA NextTypes == IInv /\ TypeInv /\ [Next]_vars => TypeInv'
<1> SUFFICES ASSUME IInv, TypeInv, [Next]_vars PROVE TypeInv'
    OBVIOUS
<1>1. CASE Fail
    BY <1>1, TypesStay DEF Fail, TypeInv, TypeOK
<1>2. CASE ExecuteAgain
    BY <1>2, TypesStay DEF ExecuteAgain, TypeInv, TypeOK
<1>3. CASE Ended \/ UNCHANGED vars
    <2>1. UNCHANGED vars
        BY <1>3 DEF Ended
    <2>2. QED
        BY <2>1, TypesStay DEF vars, TypeInv, TypeOK
<1>4. QED
    BY <1>1, <1>2, <1>3, BindTypes, PlanQueryTypes, PushdownTypes, MoreFiltersTypes,
       RemoveUnusedColumnsTypes, InitGlobalTypes, QueryFunctionTypes DEF Next

\* Every variable keeps its type, whatever the relation and however many
\* filters, pushdowns and executions: the ids left by pruning are columns or one
\* row id, so that every output is read from a buffer that exists
\* (oracle_extension.cpp:478-500), and the cursor stays within its rows.
THEOREM ScanTypeCorrect == Spec => []TypeOK
<1>1. TypeInv => TypeOK
    BY DEF TypeInv
<1>2. QED
    BY InitIInv, NextIInv, InitTypes, NextTypes, <1>1, PTL DEF Spec
=============================================================================
