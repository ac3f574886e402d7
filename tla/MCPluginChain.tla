---------------------------- MODULE MCPluginChain ----------------------------
(* Instances of PluginChain.                                               *)
EXTENDS PluginChain

CONSTANTS r1, r2, plain, two

\* A global plugin, and routes with none or two of their own.
TwoRoutes == {plain, two}
OneGlobal == <<"auth">>
OwnOf == (plain :> <<>>) @@ (two :> <<"log", "gzip">>)
=============================================================================
