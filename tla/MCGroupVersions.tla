--------------------------- MODULE MCGroupVersions ---------------------------
(* GroupVersions for TLC: packages without types, with types that are or   *)
(* are not listed, and with an internal type beside another one; and that  *)
(* the tables which the generator wrote into pkg/generated fit together.   *)
EXTENDS GroupVersions

Type(n, l, m) == [name |-> n, listed |-> l, meta |-> m]

PackageContents ==
    { {}, {Type("t", TRUE, "none")}, {Type("t", FALSE, "json")}, {Type("t", TRUE, "json")},
      {Type("t", TRUE, "json"), Type("u", TRUE, "internal")} }

Written == INSTANCE GeneratedTables

\* What GeneratedFactoriesProofs presupposes of a factory's tables.
ASSUME GeneratedTablesMatch == \A f \in Written!PkgGenerated : Written!Matching(f)
=============================================================================
