------------------------------ MODULE BlocPool ------------------------------
(***************************************************************************)
(* What the bloc allocator of a volume promises its clients, whatever the   *)
(* list on the disk looks like, call by call: new_bloc() answers with a     *)
(* bloc nobody holds ("Retourne un nouveau bloc sur le volume courant",     *)
(* filesystem.c:230), which is held from then on, and with 0 only when      *)
(* every bloc is ("Retourne 0 si aucun bloc n'est libre", l. 231);          *)
(* free_bloc() takes back one bloc that is held.  Nothing else, in          *)
(* particular no crash, changes who holds what.                             *)
(***************************************************************************)
EXTENDS Integers

CONSTANTS
    NSector,                \* sectors of the volume; bloc 0 is the superbloc
    None                    \* no answer: no call of new_bloc is being used

VARIABLES
    held,                   \* the blocs handed out and not given back
    answer                  \* what new_bloc gave to the client, till it is done with it

Pool == 1 .. NSector - 1

Init == held = {} /\ answer = None

\* new_bloc() returns a bloc.  To give a bloc that is held is a step of nothing here.
Give ==
    /\ answer = None
    /\ \E b \in Pool \ held : held' = held \cup {b} /\ answer' = b

\* new_bloc() returns 0: the volume is full.
Refuse ==
    /\ answer = None /\ held = Pool
    /\ answer' = 0 /\ UNCHANGED held

\* The client has used the bloc, or its process is over.
Over == answer # None /\ answer' = None /\ UNCHANGED held

\* free_bloc(b) returned.
Free == answer = None /\ (\E b \in held : held' = held \ {b}) /\ UNCHANGED answer

GrowNext == Give \/ Refuse \/ Over

\* The promise of a life in which no bloc is ever given back.
GrowSpec == Init /\ [][GrowNext]_<<held, answer>>

Spec == Init /\ [][GrowNext \/ Free]_<<held, answer>>
=============================================================================
