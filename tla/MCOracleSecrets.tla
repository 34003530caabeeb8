--------------------------- MODULE MCOracleSecrets ---------------------------
(***************************************************************************)
(* An instance of OracleSecrets for TLC: secrets with a DATABASE instead   *)
(* of a SERVICE, with separators in user and password, with two wallets,   *)
(* and lists of options that have to be refused.                           *)
(***************************************************************************)
EXTENDS OracleSecrets, TLC

Basic == [user |-> <<"scott">>, password |-> <<"tiger">>, service |-> <<"XEPDB1">>]

MCInputs ==
    {Basic,
     [user |-> <<"a", "@", "b">>, password |-> <<"p", "/", "q">>, database |-> <<"FREE">>,
      host |-> <<"h">>, port |-> 65535, wallet |-> "w1"],
     [Basic EXCEPT !.password = <<"p", "@", "q">>] @@ [wallet |-> "w2"],
     [Basic EXCEPT !.user = <<"a", "/", "b">>],
     Basic @@ [port |-> 0],
     Basic @@ [port |-> 65536],
     [Basic EXCEPT !.password = <<>>],
     [user |-> <<"scott">>, password |-> <<"tiger">>],
     [password |-> <<"tiger">>, service |-> <<"XEPDB1">>]}

MCPaths == {<<"u", "/", "p", "@", "db">>, <<"u", "@", "db">>}
MCWallets == {"w1", "w2"}
=============================================================================
