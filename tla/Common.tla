-------------------------------- MODULE Common --------------------------------
(***************************************************************************)
(* What the modules about files, updates and lists share: NULL, lists, and *)
(* rows that are kept under a number.                                      *)
(***************************************************************************)
EXTENDS Sequences, Functions

CONSTANT Null  \* NULL: no such object, or one that could not be read

IsList(s) == s \in Seq(Range(s))

\* A table after INSERT, where the row is missing, and UPDATE.
Put(f, k, v) == [x \in DOMAIN f \cup {k} |-> IF x = k THEN v ELSE f[x]]
=============================================================================
