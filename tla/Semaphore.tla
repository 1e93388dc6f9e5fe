------------------------------ MODULE Semaphore ------------------------------
(***************************************************************************)
(* sem_down and sem_up of src/ordonnancement/context.c, on several cores.   *)
(*                                                                          *)
(* irq_disable() masks the interrupts of the core that calls it and nothing *)
(* else, so that two cores can be in the operations of one semaphore at the *)
(* same time: every access to a shared field is a step of its own.  The     *)
(* compiler does not optimise (Makefile: -g), and each "--" and "++" reads  *)
(* and writes, each test reads again.                                       *)
(*                                                                          *)
(* next_ctx() answers with the current context, so that a core runs its     *)
(* current context and no other until that one ends, and one that is        *)
(* BLOCKED keeps its core in yield(); the clients' module says which        *)
(* contexts these are.  The timer changes nothing: the yield() it calls     *)
(* goes on with that context, or spins in its place.                        *)
(***************************************************************************)
EXTENDS Integers

CONSTANTS
    Ctx,        \* the contexts
    Sem,        \* the semaphores
    Val,        \* the value each of them is initialised with
    Null

ASSUME SemAssumption == Null \notin Ctx /\ Val \in [Sem -> Nat]

VARIABLES
    count,      \* sem_max_use of each semaphore
    list,       \* sem_ctx_lst
    next,       \* sem_next of each context
    etat,       \* ctx_etat: "blocked", or "activated" (READY before it runs)
    pc,         \* the next access of the operation under way, or "client"
    sem,        \* the semaphore of that operation
    reg,        \* sem_max_use between the read and the write of -- and ++
    tmp,        \* tmp of sem_up
    crashed,    \* sem_up dereferenced NULL: the process is over
    raced       \* two operations met (properties only)

semaphores == <<count, list, next, etat>>
locals     == <<pc, sem, reg, tmp>>
semVars    == <<semaphores, locals, crashed, raced>>

\* sem_init(), by main and before the contexts exist.
SemInit ==
    /\ count = Val
    /\ list = [s \in Sem |-> Null]
    /\ next = [x \in Ctx |-> Null]
    /\ etat = [x \in Ctx |-> "activated"]
    /\ pc = [x \in Ctx |-> "client"]
    /\ sem \in [Ctx -> Sem] /\ \A x, y \in Ctx : sem[x] = sem[y]
    /\ reg = [x \in Ctx |-> 0]
    /\ tmp = [x \in Ctx |-> Null]
    /\ crashed = FALSE /\ raced = FALSE

Goto(x, l) == pc' = [pc EXCEPT ![x] = l]

-----------------------------------------------------------------------------
(* When operations meet: one touches a semaphore in the middle of the other,*)
(* or a context that was woken goes on before sem_up has taken it off.      *)

Inside(x) == pc[x] \in {"downwrite", "downtest", "block", "link", "push",
                        "upwrite", "uptest", "pick", "wake", "unlink"}

Meet(x, y) ==
    /\ Inside(x) /\ Inside(y)
    /\ sem[x] = sem[y] \/ (pc[x] = "unlink" /\ tmp[x] = y)

Overlap == \E x, y \in Ctx : x # y /\ Meet(x, y)

Remember == raced' = (raced \/ Overlap')

-----------------------------------------------------------------------------
(* sem_down.                                                                *)

\* The client calls one of the two.
Call(x, op, s) ==
    /\ pc[x] = "client"
    /\ Goto(x, op)
    /\ sem' = [sem EXCEPT ![x] = s]
    /\ UNCHANGED <<semaphores, reg, tmp, crashed>>

DownRead(x) ==
    /\ pc[x] = "down"
    /\ reg' = [reg EXCEPT ![x] = count[sem[x]]]
    /\ Goto(x, "downwrite")
    /\ UNCHANGED <<semaphores, sem, tmp, crashed>>

\* The register is dead after the write.
DownWrite(x) ==
    /\ pc[x] = "downwrite"
    /\ count' = [count EXCEPT ![sem[x]] = reg[x] - 1]
    /\ reg' = [reg EXCEPT ![x] = 0]
    /\ Goto(x, "downtest")
    /\ UNCHANGED <<list, next, etat, sem, tmp, crashed>>

DownTest(x) ==
    /\ pc[x] = "downtest"
    /\ Goto(x, IF count[sem[x]] >= 0 THEN "client" ELSE "block")
    /\ UNCHANGED <<semaphores, sem, reg, tmp, crashed>>

DownBlock(x) ==
    /\ pc[x] = "block"
    /\ etat' = [etat EXCEPT ![x] = "blocked"]
    /\ Goto(x, "link")
    /\ UNCHANGED <<count, list, next, sem, reg, tmp, crashed>>

\* Mistake: those who wait already are forgotten.
DownLinkNothing(x) ==
    /\ pc[x] = "link"
    /\ next' = [next EXCEPT ![x] = Null]
    /\ Goto(x, "push")
    /\ UNCHANGED <<count, list, etat, sem, reg, tmp, crashed>>

DownLink(x) ==
    /\ pc[x] = "link"
    /\ next' = [next EXCEPT ![x] = list[sem[x]]]
    /\ Goto(x, "push")
    /\ UNCHANGED <<count, list, etat, sem, reg, tmp, crashed>>

DownPush(x) ==
    /\ pc[x] = "push"
    /\ list' = [list EXCEPT ![sem[x]] = x]
    /\ Goto(x, "spin")
    /\ UNCHANGED <<count, next, etat, sem, reg, tmp, crashed>>

\* yield(): next_ctx() answers with the same context, as long as it is BLOCKED.
Spin(x) ==
    /\ pc[x] = "spin" /\ etat[x] # "blocked"
    /\ Goto(x, "client")
    /\ UNCHANGED <<semaphores, sem, reg, tmp, crashed>>

-----------------------------------------------------------------------------
(* sem_up.                                                                  *)

UpRead(x) ==
    /\ pc[x] = "up"
    /\ reg' = [reg EXCEPT ![x] = count[sem[x]]]
    /\ Goto(x, "upwrite")
    /\ UNCHANGED <<semaphores, sem, tmp, crashed>>

UpWrite(x) ==
    /\ pc[x] = "upwrite"
    /\ count' = [count EXCEPT ![sem[x]] = reg[x] + 1]
    /\ reg' = [reg EXCEPT ![x] = 0]
    /\ Goto(x, "uptest")
    /\ UNCHANGED <<list, next, etat, sem, tmp, crashed>>

\* Mistake: the last one that waits is not woken.
UpTestLess(x) ==
    /\ pc[x] = "uptest"
    /\ Goto(x, IF count[sem[x]] < 0 THEN "pick" ELSE "client")
    /\ UNCHANGED <<semaphores, sem, reg, tmp, crashed>>

UpTest(x) ==
    /\ pc[x] = "uptest"
    /\ Goto(x, IF count[sem[x]] <= 0 THEN "pick" ELSE "client")
    /\ UNCHANGED <<semaphores, sem, reg, tmp, crashed>>

UpPick(x) ==
    /\ pc[x] = "pick"
    /\ tmp' = [tmp EXCEPT ![x] = list[sem[x]]]
    /\ Goto(x, "wake")
    /\ UNCHANGED <<semaphores, sem, reg, crashed>>

\* Mistake: READY, as add_ctx leaves a new context: yield() would call its
\* function again.
UpWakeReady(x) ==
    /\ pc[x] = "wake" /\ tmp[x] # Null
    /\ etat' = [etat EXCEPT ![tmp[x]] = "ready"]
    /\ Goto(x, "unlink")
    /\ UNCHANGED <<count, list, next, sem, reg, tmp, crashed>>

UpWake(x) ==
    /\ pc[x] = "wake" /\ tmp[x] # Null
    /\ etat' = [etat EXCEPT ![tmp[x]] = "activated"]
    /\ Goto(x, "unlink")
    /\ UNCHANGED <<count, list, next, sem, reg, tmp, crashed>>

\* Nothing says that the list holds the context the counter speaks of.
UpNobody(x) ==
    /\ pc[x] = "wake" /\ tmp[x] = Null
    /\ crashed' = TRUE
    /\ UNCHANGED <<semaphores, locals>>

UpUnlink(x) ==
    /\ pc[x] = "unlink"
    /\ list' = [list EXCEPT ![sem[x]] = next[tmp[x]]]
    /\ tmp' = [tmp EXCEPT ![x] = Null]
    /\ Goto(x, "client")
    /\ UNCHANGED <<count, next, etat, sem, reg, crashed>>

-----------------------------------------------------------------------------
\* The code of the operations; Spin waits.
Operation(x) ==
    \/ DownRead(x) \/ DownWrite(x) \/ DownTest(x)
    \/ DownBlock(x) \/ DownLink(x) \/ DownPush(x) \/ Spin(x)
    \/ UpRead(x) \/ UpWrite(x) \/ UpTest(x)
    \/ UpPick(x) \/ UpWake(x) \/ UpNobody(x) \/ UpUnlink(x)

Label == {"client", "down", "downwrite", "downtest", "block", "link", "push",
          "spin", "up", "upwrite", "uptest", "pick", "wake", "unlink"}

\* The types; a context that is to be taken off is one.
SemTypeOK ==
    /\ count \in [Sem -> Int]
    /\ list \in [Sem -> Ctx \cup {Null}]
    /\ next \in [Ctx -> Ctx \cup {Null}]
    /\ etat \in [Ctx -> {"activated", "blocked"}]
    /\ pc \in [Ctx -> Label]
    /\ sem \in [Ctx -> Sem]
    /\ reg \in [Ctx -> Int]
    /\ tmp \in [Ctx -> Ctx \cup {Null}]
    /\ crashed \in BOOLEAN /\ raced \in BOOLEAN
    /\ \A x \in Ctx : pc[x] = "unlink" => tmp[x] \in Ctx

\* A context waits from the decrement that went below zero to its wake-up.
Waits(x) ==
    \/ pc[x] \in {"block", "link", "push"}
    \/ pc[x] = "downtest" /\ count[sem[x]] < 0
    \/ pc[x] = "spin" /\ etat[x] = "blocked"

\* The call a context is in; that of a down ends with the decrement, unless it
\* went below zero, and that of an up with the increment, unless somebody waits.
Asks(x) ==
    CASE Waits(x) -> {<<"wait", sem[x]>>}
      [] pc[x] \in {"down", "downwrite"} -> {<<"down", sem[x]>>}
      [] \/ pc[x] \in {"up", "upwrite", "pick", "wake"}
         \/ pc[x] = "uptest" /\ count[sem[x]] <= 0 -> {<<"up", sem[x]>>}
      [] OTHER -> {}

Promise == INSTANCE CountingSemaphore WITH
    free  <- [s \in Sem |-> IF count[s] > 0 THEN count[s] ELSE 0],
    calls <- [x \in Ctx |-> Asks(x)]
=============================================================================
