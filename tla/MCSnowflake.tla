----------------------------- MODULE MCSnowflake -----------------------------
(* A file splitting into three tables: a failed table can come before,   *)
(* between or after stored ones.                                          *)
EXTENDS Snowflake, TLC

CONSTANTS tb1, tb2, tb3

MCTables == {tb1, tb2, tb3}

TableSymmetry == Permutations(MCTables)
=============================================================================
