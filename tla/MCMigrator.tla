------------------------------ MODULE MCMigrator ------------------------------
(***************************************************************************)
(* Small instances of Migrator: three accounts, one opened late, two       *)
(* legacy transfers and one of the server.                                 *)
(***************************************************************************)
EXTENDS Migrator

CONSTANTS a, b, late, t1, t2, n1

MCParties ==
    [t \in {t1, t2, n1} |-> IF t = t2 THEN {b, late} ELSE {a, b}]
=============================================================================
