---------------------------- MODULE MCConfigStore ----------------------------
(* Small instances of ConfigStore for TLC: a legacy text that migrates and one *)
(* that V1Migration refuses.                                                   *)
EXTENDS ConfigStore

MigratedTexts == [text \in Legacy |-> IF text = "v1" THEN "v2_migrated" ELSE Absent]
=============================================================================
