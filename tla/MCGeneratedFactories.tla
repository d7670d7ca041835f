------------------------ MODULE MCGeneratedFactories -------------------------
(* GeneratedFactories for TLC, with the four factories of pkg/generated.   *)
EXTENDS GeneratedFactories, GeneratedTables

UnknownResource == <<"no/v0", "such">>
=============================================================================
