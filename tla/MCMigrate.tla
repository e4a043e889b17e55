------------------------------ MODULE MCMigrate ------------------------------
(***************************************************************************)
(* Small instances of Migrate for TLC.                                     *)
(***************************************************************************)
EXTENDS Migrate

CONSTANTS a, b

Row(v, s) == [version |-> v, sum |-> s]

\* A release, the next one, a build that disagrees about version 2, and one
\* whose files have a gap.
SomeBuilds == {{Row(1, a), Row(2, a)}, {Row(1, a), Row(2, a), Row(3, a)},
               {Row(1, a), Row(2, b)}, {Row(1, a), Row(3, a)}}

Up(vs) == [v \in Versions |-> IF v \in vs THEN a ELSE None]

\* Empty; a baseline loaded by the container; a history with a missing row.
SomeDatabases ==
    {[tracked |-> FALSE, history |-> Up({}), schema |-> Up({})],
     [tracked |-> FALSE, history |-> Up({}), schema |-> Up({1})],
     [tracked |-> TRUE, history |-> Up({1, 3}), schema |-> Up({1, 2, 3})]}
=============================================================================
