----------------------------- MODULE MCFreeBlocs -----------------------------
(* FreeBlocs for TLC: a volume of a few sectors.                            *)
EXTENDS FreeBlocs

\* The properties of the run with deletions speak of lives in which no limit has
\* been passed yet and at most one call was cut.  Neither condition comes back
\* once lost: the life needs not be followed any further.  (A volume found full
\* is, to see what the next process meets on bloc 0.)
Followed == fault # "singleton" /\ torn < 2
=============================================================================
