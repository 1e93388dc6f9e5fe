----------------------------- MODULE MCDirectory -----------------------------
(***************************************************************************)
(* A small volume for TLC: entries of four bytes in blocs of five, so that  *)
(* most lie in two blocs, one of them with its number alone in the first; a *)
(* directory shows three.                                                   *)
(***************************************************************************)
EXTENDS Directory

\* 20 is a name of more characters than an entry holds, which begins like 2.
Longs == {20}
Starts == [name \in Longs |-> 2]
Names == {1, 2} \cup Longs
\* A directory, a file beside it, a file in it; any number of each, and one whose name
\* is cut to that of another.
Requests == {<<<<1>>, "DIRECTORY">>, <<<<2>>, "NORMAL">>, <<<<1, 2>>, "NORMAL">>,
             <<<<20>>, "NORMAL">>}
Paths == {r[1] : r \in Requests}
\* No descriptors but the local ones.
Nobody == {}
=============================================================================
