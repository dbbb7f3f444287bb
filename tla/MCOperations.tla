------------------------------ MODULE MCOperations ------------------------------
(* Two containers and three revisions; a monitor of one market; two products *)
(* and three orphans; periods of two and three days, of which two are kept.  *)
EXTENDS Operations, Revisions, TLC

\* One revision with a rule and indexes, one with indexes of which one is unique,
\* and one with a rule that is added and checked in its transaction.
TheScript == <<Scale, Directory, States>>

=============================================================================
