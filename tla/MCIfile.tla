------------------------------- MODULE MCIfile -------------------------------
(***************************************************************************)
(* Small volumes for TLC.  With NB = 2 a file has 8 blocs: two direct ones, *)
(* two in the table of one level, two in each of the two rows of the second *)
(* level.                                                                   *)
(***************************************************************************)
EXTENDS Ifile

\* The beginning, the second bloc of the table and the last bloc of all.
SomeBlocs == {0, (NB + 1) * S, (F - 1) * S}
\* A bloc at a time, a character at a time.
WholeBlocs == {S}
=============================================================================
