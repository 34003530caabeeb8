----------------------------- MODULE OracleTypes -----------------------------
(***************************************************************************)
(* What becomes of a column on its way from Oracle's dictionary to a       *)
(* DuckDB vector: the type the table entry promises, the expression the    *)
(* scan selects, the type the describe call reports, the form the value is *)
(* fetched in, and what the fetch makes of it.  Lengths and formats are    *)
(* left out.  A type stands for all types the code treats alike:           *)
(*   NUMBER         without a precision, FLOAT, BINARY_FLOAT, BINARY_DOUBLE *)
(*   NUMBER(p)      of scale 0 and at most 18 digits                       *)
(*   NUMBER(p,s)    with 0 < s <= p, or scale 0 and more than 18 digits    *)
(*   NUMBER(p,-s)   and NUMBER(p,s>p), which are legal in Oracle           *)
(*   VARCHAR2       the character types, ROWID, INTERVAL                   *)
(*   CLOB, RAW      and NCLOB, LONG RAW                                    *)
(*   TIMESTAMP      and TIMESTAMP WITH LOCAL TIME ZONE                     *)
(*   OBJECT         a user-defined type                                    *)
(* The precision of a NUMBER never exceeds 38.                             *)
(***************************************************************************)

\* Numbers whose scale does not lie between 0 and the precision.
OddScales == {"NUMBER(p,-s)", "NUMBER(p,s>p)"}
Numbers == {"NUMBER", "NUMBER(p)", "NUMBER(p,s)"} \cup OddScales

Kinds == Numbers \cup
         {"VARCHAR2", "CLOB", "LONG", "DATE", "TIMESTAMP", "TIMESTAMP WITH TIME ZONE",
          "BLOB", "BFILE", "RAW", "SDO_GEOMETRY", "VECTOR", "JSON", "XMLTYPE", "OBJECT"}

\* The constructor of OracleColumnMetadata.
Category(kind) ==
    CASE kind = "SDO_GEOMETRY"                              -> "SPATIAL"
      [] kind \in {"VECTOR", "JSON", "RAW"}                 -> kind
      [] kind \in {"BLOB", "BFILE"}                         -> "LOB_BLOB"
      [] kind = "CLOB"                                      -> "LOB_CLOB"
      [] kind = "XMLTYPE"                                   -> "XML"
      [] kind \in Numbers                                   -> "NUMERIC"
      [] kind \in {"DATE", "TIMESTAMP", "TIMESTAMP WITH TIME ZONE"} -> "TEMPORAL"
      [] kind = "VARCHAR2"                                  -> "STANDARD"
      [] kind \in {"LONG", "OBJECT"}                        -> "UNKNOWN"

NeedsServerConversion(kind) == Category(kind) \in {"SPATIAL", "VECTOR", "JSON", "XML"}

RequiresQueryRewrite(kind, settings) ==
    \/ Category(kind) \in {"SPATIAL", "XML", "VECTOR"}
    \/ Category(kind) = "JSON" /\ settings.supports_json_type
    \/ /\ Category(kind) \in {"LOB_BLOB", "RAW"}
       /\ ~settings.try_native_lobs \/ NeedsServerConversion(kind)
    \/ Category(kind) = "LOB_CLOB" /\ NeedsServerConversion(kind)

(***************************************************************************)
(* The items of a SELECT list: the type OCI describes, and what the text   *)
(* or the bytes of a value are.  Neither an object ("NTY") nor the locator *)
(* of a file can be fetched as text.                                       *)
(***************************************************************************)
Item(oci, content) == [oci |-> oci, content |-> content]

NativeItem(kind) ==
    CASE kind = "VARCHAR2"                    -> Item("CHR", "chars")
      [] kind = "CLOB"                        -> Item("CLOB", "chars")
      [] kind = "LONG"                        -> Item("LNG", "chars")
      [] kind = "NUMBER(p)"                   -> Item("INT", "number")
      [] kind \in Numbers \ {"NUMBER(p)"}     -> Item("NUM", "number")
      [] kind \in {"DATE", "TIMESTAMP"}       -> Item("TIMESTAMP", "datetime")
      [] kind = "TIMESTAMP WITH TIME ZONE"    -> Item("TIMESTAMP", "zoned")
      [] kind = "BLOB"                        -> Item("BLOB", "bytes")
      [] kind = "BFILE"                       -> Item("FILE", "locator")
      [] kind = "RAW"                         -> Item("BIN", "bytes")
      [] kind = "VECTOR"                      -> Item("VEC", "array")
      [] kind = "JSON"                        -> Item("JSON", "chars")
      [] kind \in {"SDO_GEOMETRY", "XMLTYPE", "OBJECT"} -> Item("NTY", "object")

\* SDO_UTIL.TO_WKTGEOMETRY, VECTOR_SERIALIZE, JSON_SERIALIZE, XMLSERIALIZE,
\* RAWTOHEX, TO_CHAR, or the column itself.
GetConversionExpression(kind, settings) ==
    LET category == Category(kind)
    IN  CASE category = "SPATIAL"                               -> Item("CLOB", "wkt")
          [] category = "VECTOR"                                -> Item("CHR", "array")
          [] category = "JSON" /\ settings.supports_json_type   -> Item("CHR", "chars")
          [] category = "XML"                                   -> Item("CLOB", "chars")
          [] category \in {"LOB_BLOB", "RAW"} /\ NeedsServerConversion(kind)
                                                                -> Item("CHR", "hex")
          [] category = "LOB_CLOB" /\ NeedsServerConversion(kind) -> Item("CHR", "chars")
          [] OTHER                                              -> NativeItem(kind)

\* The column list of GetScanFunction, which reads the settings of the state.
SelectItem(kind, settings) ==
    IF settings.enable_type_conversion /\ RequiresQueryRewrite(kind, settings)
    THEN GetConversionExpression(kind, settings)
    ELSE NativeItem(kind)

\* The DuckDB type of a column of an attached table.  The scale is read as an
\* unsigned number and cast to 8 bits: -s becomes 256 - s, at least 172.  So an
\* odd scale, of either sign, makes a DECIMAL whose scale exceeds its width.
MapOracleColumn(kind, settings) ==
    CASE kind = "VECTOR" /\ settings.vector_to_list              -> "LIST"
      [] kind = "SDO_GEOMETRY" /\ settings.enable_spatial_types  -> "GEOMETRY"
      [] kind = "NUMBER"                                         -> "DOUBLE"
      [] kind \in {"NUMBER(p)", "NUMBER(p,s)"}                   -> "DECIMAL"
      [] kind \in OddScales                                      -> "DECIMAL, scale > width"
      [] Category(kind) = "TEMPORAL"                             -> "TIMESTAMP"
      [] kind \in {"BLOB", "RAW", "BFILE"}                       -> "BLOB"
      [] OTHER                                                   -> "VARCHAR"

\* The switch over the described type in OracleBindInternal: original_types.
\* A NUMBER of scale 0 and at most 18 digits is described like an integer; a
\* BFILE takes the default.
DescribedType(item) ==
    CASE item.oci = "INT"                    -> "BIGINT"
      [] item.oci = "NUM"                    -> "DOUBLE"
      [] item.oci = "TIMESTAMP"              -> "TIMESTAMP"
      [] item.oci \in {"BLOB", "BIN", "LNG"} -> "BLOB"
      [] OTHER                               -> "VARCHAR"

\* Mutant of DefineType: bytes are fetched like text.
DefineTypeText(original_type) == "SQLT_STR"

\* The external type OracleInitGlobal defines a buffer with.
DefineType(original_type) == IF original_type = "BLOB" THEN "SQLT_BIN" ELSE "SQLT_STR"

\* What OCI writes into the buffer.  Login sets the formats of DATE and
\* TIMESTAMP, and leaves that of TIMESTAMP WITH TIME ZONE alone.  Characters
\* that go into a binary buffer are taken for hex digits, or the call fails.
Arrives(item, define) ==
    CASE item.content \in {"object", "locator"}         -> "error"
      [] item.content = "bytes" /\ define = "SQLT_STR"  -> "hex"
      [] item.content = "chars" /\ define = "SQLT_BIN"  -> "unhexed"
      [] OTHER                                          -> item.content

\* What the switch over the output type in OracleQueryFunction stores for a
\* value: the value, or what it puts in the place of one it cannot parse.  Text
\* is cast to GEOMETRY by a function of the spatial extension, if geometry_cast.
\* DuckDB says nothing about a DECIMAL whose scale exceeds its width.
Decode(type, text, geometry_cast) ==
    CASE text = "error"                               -> "error"
      [] type = "VARCHAR"                             -> IF text \in {"unhexed", "hex"} THEN "other text" ELSE "value"
      [] type = "BLOB"                                -> IF text = "bytes" THEN "value" ELSE "other bytes"
      [] type \in {"BIGINT", "DOUBLE", "DECIMAL"}     -> IF text = "number" THEN "value" ELSE "NULL"
      [] type = "DECIMAL, scale > width"              -> "unspecified"
      [] type = "TIMESTAMP"                           -> IF text = "datetime" THEN "value" ELSE "1970-01-01"
      [] type = "LIST"                                -> IF text = "array" THEN "value" ELSE "empty list"
      [] type = "GEOMETRY"                            -> IF text = "wkt" /\ geometry_cast THEN "value" ELSE "NULL"
=============================================================================
