---------------------------- MODULE MCOracleScan ----------------------------
(***************************************************************************)
(* Instances of OracleScan for TLC: every kind of column under every       *)
(* setting of its type, and relations of two and three columns, one with a *)
(* name used twice.                                                        *)
(***************************************************************************)
EXTENDS OracleScan, TLC

Settings(spatial, list, lobs, conversion, json) ==
    [enable_pushdown |-> TRUE, enable_spatial_types |-> spatial, vector_to_list |-> list,
     try_native_lobs |-> lobs, enable_type_conversion |-> conversion,
     supports_json_type |-> json]
Default == Settings(TRUE, TRUE, TRUE, TRUE, TRUE)

Session(pushdown, cast) ==
    [enable_pushdown |-> pushdown, enable_spatial_types |-> FALSE, geometry_cast |-> cast]
Column(name, kind) == [name |-> name, kind |-> kind]
Scan(columns, attached, settings, pushdown) ==
    [columns |-> columns, attached |-> attached, settings |-> settings,
     session |-> Session(pushdown, TRUE)]

WithoutSpatial ==
    {[Scan(<<Column("A", "SDO_GEOMETRY")>>, TRUE, Settings(spatial, TRUE, TRUE, TRUE, TRUE), TRUE)
         EXCEPT !.session = Session(TRUE, FALSE)] : spatial \in BOOLEAN}

\* Every setting of types is switched off once.
EveryKind ==
    {Scan(<<Column("A", kind)>>, TRUE, [Default EXCEPT ![off] = FALSE], TRUE) :
        kind \in Kinds, off \in {"enable_spatial_types", "vector_to_list", "try_native_lobs",
                                "supports_json_type", "enable_type_conversion"}}
    \cup {Scan(<<Column("A", kind)>>, attached, Default, TRUE) :
        kind \in Kinds, attached \in BOOLEAN}

Wide(names, kinds) == [i \in DOMAIN names |-> Column(names[i], kinds[i])]
Several ==
    {Scan(Wide(<<"ID", "NAME", "PHOTO">>, <<"NUMBER(p)", "VARCHAR2", "BLOB">>), TRUE, Default, pushdown) :
        pushdown \in BOOLEAN}
    \cup {Scan(Wide(<<"ID", "ID">>, <<"NUMBER", "VARCHAR2">>), FALSE, Default, pushdown) :
        pushdown \in BOOLEAN}

MCScans == EveryKind \cup WithoutSpatial \cup Several
TwoColumns == {Scan(Wide(<<"ID", "NAME">>, <<"NUMBER(p)", "VARCHAR2">>), TRUE, Default, TRUE)}
=============================================================================
