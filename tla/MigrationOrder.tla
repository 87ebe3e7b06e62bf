---------------------------- MODULE MigrationOrder ----------------------------
(***************************************************************************)
(* What the database may rely on of its migrations, whoever runs them and  *)
(* whatever fails: the files are applied one at a time, in the order of    *)
(* their names, none of them twice.                                        *)
(***************************************************************************)
EXTENDS Naturals, Sequences

CONSTANT LastFile   \* the number of migration files

VARIABLE log        \* the files whose statements have taken effect

ApplyNext == Len(log) < LastFile /\ log' = Append(log, Len(log) + 1)

Spec == log = <<>> /\ [][ApplyNext]_log
===============================================================================
