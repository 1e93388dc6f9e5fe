------------------------------- MODULE ProdCon -------------------------------
(***************************************************************************)
(* The producers and consumers of src/ordonnancement/prod_con.c, as clients *)
(* of the semaphores, on the cores where they are created.                  *)
(***************************************************************************)
EXTENDS Semaphore, FiniteSets

CONSTANTS
    Producer, Consumer,
    Core, CoreOf,   \* the cores, and the one that each context is created on
    FirstOn,        \* the context that is created first on each core
    N               \* the objects that the stack holds

ASSUME CoreAssumption ==
    /\ CoreOf \in [Ctx -> Core] /\ FirstOn \in [Core -> Ctx]
    /\ \A c \in Core : CoreOf[FirstOn[c]] = c

ASSUME ProdConAssumption ==
    /\ N \in Nat \ {0}
    /\ Producer \cap Consumer = {} /\ Ctx = Producer \cup Consumer /\ IsFiniteSet(Ctx)
    /\ Sem = {"mutex", "vide", "plein"}
    /\ Val = [s \in Sem |-> IF s = "mutex" THEN 1 ELSE IF s = "vide" THEN N ELSE 0]

VARIABLES
    at,         \* what each context does when the operation under way returns
    cpt,        \* the objects in the stack
    val,        \* cpt between the read and the write of ++ and --
    stock       \* objects put minus objects taken (properties only)

vars == <<semVars, at, cpt, val, stock>>

Init ==
    /\ SemInit
    /\ at = [x \in Ctx |-> "want"]
    /\ cpt = 0 /\ stock = 0
    /\ val = [x \in Ctx |-> 0]

\* add_ctx leaves the first context of a core in ctxs[core], next_ctx answers with
\* that one, and producteur and consommateur never end: the others never run.
Current(x) == FirstOn[CoreOf[x]] = x

\* The semaphore a context takes first, and the one it gives at the end.
Takes(x) == IF x \in Producer THEN "vide" ELSE "plein"
Gives(x) == IF x \in Producer THEN "plein" ELSE "vide"
Change(x) == IF x \in Producer THEN 1 ELSE -1

Then(x, from, to) ==
    /\ at[x] = from
    /\ at' = [at EXCEPT ![x] = to]

Want(x) ==
    /\ Then(x, "want", "lock")
    /\ Call(x, "down", Takes(x))
    /\ UNCHANGED <<cpt, val, stock>>

\* Mistake: the stack is used without the lock.
LockNot(x) ==
    /\ pc[x] = "client"
    /\ Then(x, "lock", "read")
    /\ UNCHANGED <<semaphores, locals, crashed, cpt, val, stock>>

Lock(x) ==
    /\ Then(x, "lock", "read")
    /\ Call(x, "down", "mutex")
    /\ UNCHANGED <<cpt, val, stock>>

\* mettre_objet and retirer_objet: cpt++ and cpt--.
ReadCpt(x) ==
    /\ pc[x] = "client"
    /\ Then(x, "read", "write")
    /\ val' = [val EXCEPT ![x] = cpt]
    /\ UNCHANGED <<semaphores, locals, crashed, cpt, stock>>

WriteCpt(x) ==
    /\ pc[x] = "client"
    /\ Then(x, "write", "unlock")
    /\ cpt' = val[x] + Change(x)
    /\ stock' = stock + Change(x)
    /\ val' = [val EXCEPT ![x] = 0]
    /\ UNCHANGED <<semaphores, locals, crashed>>

Unlock(x) ==
    /\ Then(x, "unlock", "give")
    /\ Call(x, "up", "mutex")
    /\ UNCHANGED <<cpt, val, stock>>

Give(x) ==
    /\ Then(x, "give", "want")
    /\ Call(x, "up", Gives(x))
    /\ UNCHANGED <<cpt, val, stock>>

Client(x) == Want(x) \/ Lock(x) \/ ReadCpt(x) \/ WriteCpt(x) \/ Unlock(x) \/ Give(x)

Step(x) ==
    /\ Current(x) /\ ~crashed
    /\ \/ Client(x) /\ ~raced    \* Bound: after a meeting, to the end of the operations only
       \/ Operation(x) /\ UNCHANGED <<at, cpt, val, stock>>
    /\ Remember

Next == \E x \in Ctx : Step(x)

Spec == Init /\ [][Next]_vars

-----------------------------------------------------------------------------
TypeOK ==
    /\ SemTypeOK
    /\ at \in [Ctx -> {"want", "lock", "read", "write", "unlock", "give"}]
    /\ cpt \in Int /\ stock \in Int
    /\ val \in [Ctx -> Int]

\* Until two operations met, sem_up finds whom to wake, the stack never holds
\* less than nothing nor more than N, and cpt is what is in it: cpt++ and cpt--
\* are one at a time (mettre_objet, retirer_objet).
StackRight ==
    ~raced =>
        /\ ~crashed
        /\ 0 <= stock /\ stock <= N
        /\ cpt = stock

\* Until two operations met, sem_down and sem_up are the operations of a counting
\* semaphore, whatever their clients do: the permits a down waits for and an up
\* hands on are neither lost nor made up between the counter and the list.
KeepsSemaphore == Promise!Init /\ [][raced' \/ [Promise!Next]_(Promise!vars)]_vars
=============================================================================
