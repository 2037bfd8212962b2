-------------------------- MODULE MCLegacyMigration --------------------------
(***************************************************************************)
(* Small instances of LegacyMigration: three replicas of one adapter, or   *)
(* two adapters on one database.                                           *)
(***************************************************************************)
EXTENDS LegacyMigration, TLC

CONSTANTS r1, r2, r3, s1, s2

MCSchemaOf == [r \in Replicas |-> IF r = r3 /\ s2 \in Schemas THEN s2 ELSE s1]
(* a database the release before the renames has used, and one where the first
   table was renamed by hand and restored and the second renamed by hand *)
MCStarts == {{Legacy} \X {1, 2}, {<<Legacy, 1>>, <<s1, 1>>, <<s1, 2>>}}
MCSymmetry == Permutations(Replicas \ {r3})
=============================================================================
