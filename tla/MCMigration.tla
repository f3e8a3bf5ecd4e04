---------------------------- MODULE MCMigration ----------------------------
(* Migration for TLC: plans of one and of two migrations. *)
EXTENDS Migration

TwoMigrations ==
    << [id |-> 1, breaking |-> FALSE, fields |-> <<"f", "g">>],
       [id |-> 2, breaking |-> TRUE, fields |-> <<"g">>] >>

OneMigration == << [id |-> 1, breaking |-> FALSE, fields |-> <<"f">>] >>
=============================================================================
