---------------------------- MODULE ContextProofs ----------------------------
(***************************************************************************)
(* Proofs about Context, for any number of cores and of commands: the types,*)
(* that no core ever runs or links a context of another one, that every     *)
(* function is called once, and, as long as the writers of a list do not    *)
(* meet, what its links lead to and that the walk misses no context.        *)
(***************************************************************************)
EXTENDS Context, Induction, FiniteSetTheorems, TLAPS

\* A pointer that core c follows leads, if anywhere, to a context created for c.
Mine(c, p) == p \in Ctx => etat[p] # "none" /\ home[p] = c

\* ... for every pointer a core holds while it may still follow it,
OwnPointers(c) ==
    /\ Mine(c, cur[c]) /\ Mine(c, exec[c])
    /\ exec[c] # Boot => cur[c] # Null
    /\ pc[c] \in {"walk", "find"} => Mine(c, w[c])
    /\ pc[c] = "find" => Mine(c, suiv[c])
    /\ pc[c] \in {"del", "find"} => Mine(c, arg[c])
    /\ pc[c] \in {"add", "publish", "self", "link", "insert"} => etat[arg[c]] # "none"

\* ... and for every link.
OwnLink(x) == nxt[x] \in Ctx => etat[x] # "none" /\ Mine(home[x], nxt[x])

\* What is still to be created does not exist: nothing can point to it.
Fresh ==
    /\ \A c \in Core \ {0} : pc[c] = "boot" => etat[Idle(c)] = "none"
    /\ pc[0] = "boot" => etat[Shell] = "none"
    /\ \A k \in sent + 1 .. NTask : etat[Task(k)] = "none"

ListInv ==
    /\ TypeOK
    /\ \A c \in Core : OwnPointers(c)
    /\ \A x \in Ctx : OwnLink(x)
    /\ Fresh

-----------------------------------------------------------------------------

\* The numbers that stand for pointers: an idle context, the shell and the
\* commands are contexts, and none of them is the NULL or the junk pointer.
LEMMA Numbers ==
    /\ 0 \in Core /\ 1 \in Core /\ Shell \in Ctx
    /\ \A c \in Core \ {0} : Idle(c) \in Ctx /\ Idle(c) # Shell
    /\ \A k \in 1 .. NTask : Task(k) \in Ctx /\ Task(k) # Shell
    /\ \A c \in Core \ {0}, k \in 1 .. NTask : Idle(c) # Task(k)
    /\ Null \notin Ctx /\ Junk \notin Ctx /\ Junk # Null
BY SizeAssumption DEF Core, Ctx, Idle, Shell, Task, Null, Junk

\* The turn of the commands (cmd.c) never leaves the cores.
LEMMA NextCoreType ==
    ASSUME NEW r \in Core
    PROVE  NextCore(r) \in Core
BY SizeAssumption DEF NextCore, Core

\* Before the cores start there is no context.
LEMMA InitListInv == Init => ListInv
<1> SUFFICES ASSUME Init PROVE ListInv
    OBVIOUS
<1>1. TypeOK
    <2>1. /\ cur \in [Core -> {Null} \cup Ctx] /\ exec \in [Core -> {Boot} \cup Ctx]
          /\ arg \in [Core -> {Null} \cup Ctx]
          /\ w \in [Core -> {Null} \cup Link] /\ suiv \in [Core -> {Null} \cup Link]
        BY DEF Init, Boot
    <2>2. /\ nxt \in [Ctx -> Link] /\ home \in [Ctx -> Core]
          /\ etat \in [Ctx -> {"none", "ready", "activated", "terminated"}]
        BY Numbers DEF Init, Link
    <2>3. pc \in [Core -> Label] /\ \A c \in Core : pc[c] = "boot"
        BY DEF Init, Label
    <2>4. rr \in Core /\ sent \in 0 .. NTask
        BY Numbers, SizeAssumption DEF Init
    <2>5. crashed \in BOOLEAN /\ raced \in BOOLEAN
        BY Zenon DEF Init
    <2> QED
        BY <2>1, <2>2, <2>3, <2>4, <2>5 DEF TypeOK, Operands
<1>2. \A c \in Core : OwnPointers(c)
    BY Numbers DEF Init, OwnPointers, Mine, Boot
<1>3. \A x \in Ctx : OwnLink(x)
    BY Numbers DEF Init, OwnLink
<1>4. Fresh
    BY Numbers, SizeAssumption DEF Init, Fresh, Ctx, Shell, Task
<1> QED
    BY <1>1, <1>2, <1>3, <1>4 DEF ListInv

\* A creation: x did not exist.
LEMMA CreateKeeps ==
    ASSUME ListInv, raced' \in BOOLEAN,
           NEW c \in Core, NEW x \in Ctx, NEW d \in Core,
           etat[x] = "none", Create(c, x, d),
           pc[c] \in {"boot", "run"}
    PROVE  /\ cur' = cur /\ nxt' = nxt /\ exec' = exec /\ w' = w /\ suiv' = suiv
           /\ \A e \in Core : OwnPointers(e)'
           /\ \A y \in Ctx : OwnLink(y)'
           /\ etat' \in [Ctx -> {"none", "ready", "activated", "terminated"}]
           /\ home' \in [Ctx -> Core] /\ pc' \in [Core -> Label]
           /\ arg' \in [Core -> {Null} \cup Ctx]
           /\ \A y \in Ctx \ {x} : etat'[y] = etat[y]
           /\ \A e \in Core : pc'[e] = "boot" => pc[e] = "boot" /\ e # c
           /\ \A e \in Core : Operands(e)'
<1> USE DEF Create, Goto
<1>1. cur' = cur /\ nxt' = nxt /\ exec' = exec /\ w' = w /\ suiv' = suiv
    OBVIOUS
<1>2. TypeOK
    BY DEF ListInv
<1>3. \A y \in Ctx \ {x} : etat'[y] = etat[y] /\ home'[y] = home[y]
    BY <1>2 DEF TypeOK
<1>4. etat'[x] = "ready"
    BY <1>2 DEF TypeOK
<1>5. \A e \in Core : \A p : Mine(e, p) => Mine(e, p)'
    BY <1>3, <1>4 DEF Mine
<1>6. /\ pc'[c] = "add" /\ arg'[c] = x
      /\ \A e \in Core \ {c} : pc'[e] = pc[e] /\ arg'[e] = arg[e]
    BY <1>2 DEF TypeOK
<1>7. \A e \in Core : OwnPointers(e)'
    <2> SUFFICES ASSUME NEW e \in Core PROVE OwnPointers(e)'
        OBVIOUS
    <2>1. OwnPointers(e)
        BY DEF ListInv
    <2>2. CASE e = c
        BY <2>1, <2>2, <1>1, <1>4, <1>5, <1>6 DEF OwnPointers
    <2>3. CASE e # c
        <3>1. pc[e] \in {"add", "publish", "self", "link", "insert"} => arg[e] \in Ctx
            BY <1>2 DEF TypeOK, Operands
        <3>2. pc'[e] \in {"add", "publish", "self", "link", "insert"} => etat'[arg'[e]] # "none"
            BY <3>1, <2>1, <2>3, <1>3, <1>4, <1>6 DEF OwnPointers
        <3> QED
            BY <2>1, <2>3, <3>2, <1>1, <1>5, <1>6 DEF OwnPointers
    <2> QED
        BY <2>2, <2>3
<1>8. \A y \in Ctx : OwnLink(y)'
    <2> SUFFICES ASSUME NEW y \in Ctx, nxt[y] \in Ctx
                 PROVE  etat'[y] # "none" /\ Mine(home[y], nxt[y])' /\ home'[y] = home[y]
        BY <1>1 DEF OwnLink, Mine
    <2>1. etat[y] # "none" /\ Mine(home[y], nxt[y])
        BY DEF ListInv, OwnLink
    <2> QED
        BY <2>1, <1>1, <1>3, <1>4 DEF Mine
<1>9. /\ etat' \in [Ctx -> {"none", "ready", "activated", "terminated"}]
      /\ home' \in [Ctx -> Core]
      /\ arg' \in [Core -> {Null} \cup Ctx]
    BY <1>2 DEF TypeOK
<1>10. pc' \in [Core -> Label]
    BY <1>2 DEF TypeOK, Label
<1>11. \A e \in Core : pc'[e] = "boot" => pc[e] = "boot" /\ e # c
    BY <1>6
<1>12. ASSUME NEW e \in Core PROVE Operands(e)'
    <2>1. CASE e = c
        BY <2>1, <1>6 DEF Operands
    <2>2. CASE e # c
        <3>1. pc[e] \in {"link", "insert"} => arg[e] \in Ctx /\ etat[arg[e]] # "none"
            BY <1>2 DEF TypeOK, Operands, ListInv, OwnPointers
        <3> QED
            BY <3>1, <2>2, <1>1, <1>2, <1>3, <1>6 DEF TypeOK, Operands
    <2> QED
        BY <2>1, <2>2
<1> QED
    BY <1>1, <1>3, <1>7, <1>8, <1>9, <1>10, <1>11, <1>12

\* main and the starting cores create a context of their own each.
LEMMA StartsKeep ==
    ASSUME ListInv, raced' \in BOOLEAN, NEW c \in Core,
           CoreStarts(c) \/ MainStarts(c)
    PROVE  ListInv'
<1>1. TypeOK /\ Fresh
    BY DEF ListInv
<1>2. PICK x \in Ctx, d \in Core :
         /\ etat[x] = "none" /\ Create(c, x, d) /\ pc[c] = "boot"
         /\ x = IF c = 0 THEN Shell ELSE Idle(c)
    BY <1>1, Numbers DEF CoreStarts, MainStarts, Fresh
<1>3. UNCHANGED <<rr, sent, crashed>>
    BY DEF CoreStarts, MainStarts, shell, Create
<1>4. Fresh'
    <2>1. \A y \in Ctx \ {x} : etat'[y] = etat[y]
        BY <1>2, CreateKeeps
    <2>2. \A e \in Core : pc'[e] = "boot" => pc[e] = "boot" /\ e # c
        BY <1>2, CreateKeeps
    <2>3. \A k \in sent + 1 .. NTask : k \in 1 .. NTask
        BY <1>1 DEF TypeOK
    <2> QED
        BY <2>1, <2>2, <2>3, <1>1, <1>2, <1>3, Numbers DEF Fresh, Idle
<1>5. TypeOK'
    BY <1>1, <1>2, <1>3, CreateKeeps DEF TypeOK
<1> QED
    BY <1>2, <1>4, <1>5, CreateKeeps DEF ListInv

\* The shell creates one context per "&" command, never the same twice.
LEMMA DispatchKeeps ==
    ASSUME ListInv, raced' \in BOOLEAN, NEW c \in Core, Dispatch(c)
    PROVE  ListInv'
<1>1. TypeOK /\ Fresh
    BY DEF ListInv
<1> DEFINE x == Task(sent + 1)
<1>2. /\ x \in Ctx /\ rr \in Core /\ etat[x] = "none"
      /\ Create(c, x, rr) /\ pc[c] = "run"
    BY <1>1, Numbers, SizeAssumption DEF Dispatch, Fresh, TypeOK
<1> HIDE DEF x
<1>3. /\ sent' = sent + 1 /\ sent < NTask /\ sent' \in 0 .. NTask
      /\ rr' \in Core /\ crashed' = crashed
    BY <1>1, NextCoreType, SizeAssumption DEF Dispatch, TypeOK, Create
<1>4. Fresh'
    <2>1. \A y \in Ctx \ {x} : etat'[y] = etat[y]
        BY <1>2, CreateKeeps
    <2>2. \A e \in Core : pc'[e] = "boot" => pc[e] = "boot" /\ e # c
        BY <1>2, CreateKeeps
    <2>3. \A k \in sent' + 1 .. NTask : k \in sent + 1 .. NTask /\ k \in 1 .. NTask /\ Task(k) # x
        BY <1>1, <1>3, SizeAssumption DEF TypeOK, Task, x
    <2>4. sent + 1 \in 1 .. NTask
        BY <1>1, <1>3, SizeAssumption DEF TypeOK
    <2>5. Shell # x /\ \A e \in Core \ {0} : Idle(e) # x
        BY <2>4, Numbers DEF x
    <2> QED
        BY <2>1, <2>2, <2>3, <2>5, <1>1, Numbers DEF Fresh
<1>5. TypeOK'
    BY <1>1, <1>2, <1>3, CreateKeeps DEF TypeOK
<1> QED
    BY <1>2, <1>4, <1>5, CreateKeeps DEF ListInv

\* Any other step: contexts are neither created nor moved to another core.
LEMMA FreshKept ==
    ASSUME ListInv, NEW c \in Core,
           UNCHANGED <<home, sent>>,
           \A x \in Ctx : etat'[x] = "none" <=> etat[x] = "none",
           \A e \in Core : pc'[e] = "boot" => pc[e] = "boot"
    PROVE  Fresh' /\ \A e \in Core : \A p : Mine(e, p)' <=> Mine(e, p)
<1>1. \A k \in sent + 1 .. NTask : k \in 1 .. NTask
    BY DEF ListInv, TypeOK
<1> QED
    BY <1>1, Numbers DEF ListInv, Fresh, Mine

\* The five steps of add_ctx: ctxs[core] and the links only receive contexts of
\* that core.
LEMMA AddKeeps ==
    ASSUME ListInv, raced' \in BOOLEAN, NEW c \in Core,
           \/ AddTest(c) \/ AddPublish(c) \/ AddSelf(c)
           \/ AddLink(c) \/ AddInsert(c)
    PROVE  ListInv'
<1> DEFINE x == arg[c]
           d == home[x]
<1>1. TypeOK /\ OwnPointers(c)
    BY DEF ListInv
<1>2. /\ x \in Ctx /\ d \in Core /\ etat[x] # "none" /\ home[x] = d
      /\ Mine(d, cur[d]) /\ cur[d] \in {Null} \cup Ctx
    BY <1>1 DEF AddTest, AddPublish, AddSelf, AddLink, AddInsert, TypeOK, Operands,
                ListInv, OwnPointers
<1>3. UNCHANGED <<etat, home, exec, arg, w, suiv, rr, sent, crashed>>
    BY DEF AddTest, AddPublish, AddSelf, AddLink, AddInsert, lists, shell
<1>4. /\ pc' \in [Core -> Label]
      /\ \A e \in Core \ {c} : pc'[e] = pc[e]
      /\ pc'[c] \in {"publish", "self", "link", "insert", "yield", "run"}
      /\ pc'[c] = "run" => exec[c] # Boot
      /\ pc[c] \in {"add", "publish", "self", "link", "insert"}
    <2>1. ASSUME NEW l \in Label, Goto(c, l)
          PROVE  /\ pc' \in [Core -> Label] /\ pc'[c] = l
                 /\ \A e \in Core \ {c} : pc'[e] = pc[e]
        BY <2>1, <1>1 DEF Goto, TypeOK
    <2>2. \E l \in {"publish", "self", "link", "insert", "yield", "run"} :
             Goto(c, l) /\ (l = "run" => exec[c] # Boot)
        BY DEF AddTest, AddPublish, AddSelf, AddLink, AddInsert, Added
    <2>3. pc[c] \in {"add", "publish", "self", "link", "insert"}
        BY DEF AddTest, AddPublish, AddSelf, AddLink, AddInsert
    <2>4. {"publish", "self", "link", "insert", "yield", "run"} \subseteq Label
        BY DEF Label
    <2> QED
        BY <2>1, <2>2, <2>3, <2>4
<1>5. /\ cur' \in [Core -> {Null} \cup Ctx]
      /\ \A e \in Core : cur'[e] = cur[e] \/ (e = d /\ cur'[e] = x)
    <2>1. CASE AddPublish(c)
        BY <2>1, <1>1, <1>2 DEF AddPublish, TypeOK
    <2>2. CASE cur' = cur
        BY <2>2, <1>1 DEF TypeOK
    <2> QED
        BY <2>1, <2>2 DEF AddTest, AddSelf, AddLink, AddInsert, lists
<1>6. /\ nxt' \in [Ctx -> Link]
      /\ \A y \in Ctx : \/ nxt'[y] = nxt[y]
                        \/ y = x /\ nxt'[y] = x
                        \/ y = x /\ cur[d] \in Ctx /\ nxt'[y] = nxt[cur[d]]
                        \/ cur[d] \in Ctx /\ y = cur[d] /\ nxt'[y] = x
    <2>1. CASE AddTest(c) \/ AddPublish(c)
        BY <2>1, <1>1 DEF AddTest, AddPublish, lists, TypeOK
    <2>2. CASE AddSelf(c)
        BY <2>2, <1>1, <1>2 DEF AddSelf, TypeOK, Link
    <2>3. CASE AddLink(c) \/ AddInsert(c)
        <3>1. cur[d] \in Ctx /\ nxt[cur[d]] \in Link
            BY <2>3, <1>1, <1>2 DEF AddLink, AddInsert, TypeOK, Operands
        <3> QED
            BY <2>3, <3>1, <1>1, <1>2 DEF AddLink, AddInsert, TypeOK, Link
    <2> QED
        BY <2>1, <2>2, <2>3
<1>7. pc'[c] \in {"link", "insert"} => cur'[d] # Null
    BY <1>1, <1>2 DEF AddTest, AddPublish, AddSelf, AddLink, AddInsert, Added, Goto,
                      lists, TypeOK, Operands
<1> HIDE DEF x, d
<1>8. Fresh' /\ \A e \in Core : \A p : Mine(e, p)' <=> Mine(e, p)
    BY <1>3, <1>4, FreshKept
<1>9. TypeOK'
    <2>1. ASSUME NEW e \in Core PROVE Operands(e)'
        <3>1. \A f \in Core : cur[f] # Null => cur'[f] # Null
            BY <1>2, <1>5, Numbers
        <3>2. CASE e = c
            <4>1. exec[c] # Boot => cur[c] # Null
                BY <1>1 DEF OwnPointers
            <4> QED
                BY <3>1, <3>2, <4>1, <1>1, <1>2, <1>3, <1>4, <1>7 DEF TypeOK, Operands, x, d
        <3>3. CASE e # c
            <4>1. pc[e] \in {"link", "insert"} => home[arg[e]] \in Core
                BY <1>1 DEF TypeOK, Operands
            <4> QED
                BY <3>3, <3>1, <4>1, <1>1, <1>3, <1>4 DEF TypeOK, Operands
        <3> QED
            BY <3>2, <3>3
    <2> QED
        BY <2>1, <1>1, <1>3, <1>4, <1>5, <1>6 DEF TypeOK
<1>10. \A e \in Core : OwnPointers(e)'
    <2> SUFFICES ASSUME NEW e \in Core PROVE OwnPointers(e)'
        OBVIOUS
    <2>1. OwnPointers(e)
        BY DEF ListInv
    <2>2. Mine(e, cur'[e]) /\ (cur[e] # Null => cur'[e] # Null)
        BY <2>1, <1>2, <1>5, Numbers DEF OwnPointers, Mine
    <2>3. CASE e = c
        BY <2>1, <2>2, <2>3, <1>2, <1>3, <1>4, <1>8 DEF OwnPointers, x
    <2>4. CASE e # c
        BY <2>1, <2>2, <2>4, <1>3, <1>4, <1>8 DEF OwnPointers
    <2> QED
        BY <2>3, <2>4
<1>11. \A y \in Ctx : OwnLink(y)'
    <2> SUFFICES ASSUME NEW y \in Ctx, nxt'[y] \in Ctx
                 PROVE  etat[y] # "none" /\ Mine(home[y], nxt'[y])
        BY <1>3 DEF OwnLink, Mine
    <2>1. \A z \in Ctx : OwnLink(z)
        BY DEF ListInv
    <2> QED
        BY <2>1, <1>2, <1>6 DEF OwnLink, Mine
<1> QED
    BY <1>8, <1>9, <1>10, <1>11 DEF ListInv

\* yield, its walk, the switch and the timer.
LEMMA YieldKeeps ==
    ASSUME ListInv, raced' \in BOOLEAN, NEW c \in Core,
           \/ Yield(c) \/ Skip(c) \/ Lost(c) \/ Timer(c)
           \/ SetCurrent(c) \/ Load(c) \/ Test(c) \/ Nowhere(c) \/ Call(c)
    PROVE  ListInv'
<1>1. TypeOK /\ OwnPointers(c) /\ Operands(c)
    BY DEF ListInv, TypeOK
<1>2. UNCHANGED <<nxt, home, arg, suiv, rr, sent>> /\ crashed' \in BOOLEAN
    <2>1. UNCHANGED <<nxt, home, arg, suiv, rr, sent>>
        BY DEF Yield, Skip, Lost, Timer, SetCurrent, Load, Test, Nowhere, Call, lists, here, shell
    <2>2. crashed \in BOOLEAN
        BY <1>1 DEF TypeOK
    <2> QED
        BY <2>1, <2>2, Zenon
           DEF Yield, Skip, Lost, Timer, SetCurrent, Load, Test, Nowhere, Call
\* The context that the walk has reached, and the next one, are of this core.
<1>3. pc[c] = "walk" /\ w[c] # Junk =>
         /\ w[c] \in Ctx /\ etat[w[c]] # "none" /\ home[w[c]] = c
         /\ nxt[w[c]] \in Link /\ Mine(c, nxt[w[c]])
    <2> SUFFICES ASSUME pc[c] = "walk", w[c] # Junk
                 PROVE  /\ w[c] \in Ctx /\ etat[w[c]] # "none" /\ home[w[c]] = c
                        /\ nxt[w[c]] \in Link /\ Mine(c, nxt[w[c]])
        OBVIOUS
    <2>1. w[c] \in Ctx
        BY <1>1 DEF TypeOK, Operands, Link
    <2>2. etat[w[c]] # "none" /\ home[w[c]] = c
        BY <2>1, <1>1 DEF OwnPointers, Mine
    <2> QED
        BY <2>1, <2>2, <1>1 DEF TypeOK, ListInv, OwnLink, Mine
\* So is the current one.
<1>4. cur[c] # Null => cur[c] \in Ctx /\ etat[cur[c]] # "none" /\ home[cur[c]] = c
    BY <1>1 DEF TypeOK, OwnPointers, Mine
<1>5. /\ pc' \in [Core -> Label] /\ w' \in [Core -> {Null} \cup Link]
      /\ \A e \in Core \ {c} : pc'[e] = pc[e] /\ w'[e] = w[e]
      /\ pc'[c] \in {"yield", "walk", "load", "test", "call", "run", "find"}
    <2>1. ASSUME NEW l \in Label, Goto(c, l)
          PROVE  /\ pc' \in [Core -> Label] /\ pc'[c] = l
                 /\ \A e \in Core \ {c} : pc'[e] = pc[e]
        BY <2>1, <1>1 DEF Goto, TypeOK
    <2> DEFINE On == {"yield", "walk", "load", "test", "call", "run"}
    <2>2. On \subseteq Label
        BY DEF Label
    <2>3. (pc' = pc /\ pc[c] \in {"yield", "walk", "load", "test", "find"}) \/ \E l \in On : Goto(c, l)
        BY DEF Yield, Skip, Lost, Timer, SetCurrent, Load, Test, Nowhere, Call, here
    <2>4. /\ pc' \in [Core -> Label]
          /\ \A e \in Core \ {c} : pc'[e] = pc[e]
          /\ pc'[c] \in {"yield", "walk", "load", "test", "call", "run", "find"}
        <3>1. CASE pc' = pc /\ pc[c] \in {"yield", "walk", "load", "test", "find"}
            BY <3>1, <1>1 DEF TypeOK
        <3>2. CASE \E l \in On : Goto(c, l)
            <4>1. PICK l \in On : Goto(c, l)
                BY <3>2
            <4> QED
                BY <4>1, <2>1, <2>2
        <3> QED
            BY <3>1, <3>2, <2>3
    <2>5. \/ w' = w
          \/ w' = [w EXCEPT ![c] = cur[c]]
          \/ w' = [w EXCEPT ![c] = nxt[w[c]]] /\ nxt[w[c]] \in Link
        BY <1>3 DEF Yield, Skip, Lost, Timer, SetCurrent, Load, Test, Nowhere, Call, here
    <2>6. cur[c] \in {Null} \cup Link
        BY <1>1 DEF TypeOK, Link
    <2> QED
        BY <2>4, <2>5, <2>6, <1>1 DEF TypeOK
<1>6. /\ etat' \in [Ctx -> {"none", "ready", "activated", "terminated"}]
      /\ \A x \in Ctx : etat'[x] = "none" <=> etat[x] = "none"
    <2>1. CASE Call(c)
        BY <2>1, <1>1, <1>4 DEF Call, TypeOK, Operands
    <2>2. CASE etat' = etat
        BY <2>2, <1>1 DEF TypeOK
    <2> QED
        BY <2>1, <2>2 DEF Yield, Skip, Lost, Timer, SetCurrent, Load, Test, Nowhere, lists
<1>7. /\ cur' \in [Core -> {Null} \cup Ctx] /\ exec' \in [Core -> {Boot} \cup Ctx]
      /\ \A e \in Core \ {c} : cur'[e] = cur[e] /\ exec'[e] = exec[e]
      /\ \/ cur'[c] = cur[c] /\ exec'[c] = exec[c]
         \/ cur'[c] = w[c] /\ exec'[c] = exec[c] /\ w[c] \in Ctx /\ Mine(c, w[c])
         \/ cur'[c] = cur[c] /\ exec'[c] = cur[c] /\ cur[c] # Null
    <2>1. CASE SetCurrent(c)
        BY <2>1, <1>1, <1>3 DEF SetCurrent, TypeOK, Mine
    <2>2. CASE Call(c)
        BY <2>2, <1>1, <1>4 DEF Call, TypeOK, Operands
    <2>3. CASE UNCHANGED <<cur, exec>>
        BY <2>3, <1>1 DEF TypeOK
    <2> QED
        BY <2>1, <2>2, <2>3 DEF Yield, Skip, Lost, Timer, Load, Test, Nowhere, lists, here
<1>8. /\ pc'[c] \in {"walk", "find"} => w'[c] # Null /\ Mine(c, w'[c])
      /\ pc'[c] \in {"load", "test", "call", "run"} => cur'[c] # Null
      /\ pc'[c] = "run" => exec'[c] # Boot
      /\ pc'[c] = "find" => pc[c] = "find"
    <2>1. CASE SetCurrent(c)
        BY <2>1, <1>1, <1>3, Numbers DEF SetCurrent, Goto, TypeOK
    <2>2. CASE Load(c) \/ Test(c) \/ Nowhere(c) \/ Call(c)
        BY <2>2, <1>1, <1>4, Numbers DEF Load, Test, Nowhere, Call, Goto, TypeOK, Operands,
           lists, here, Boot
    <2>3. CASE Yield(c)
        BY <2>3, <1>1 DEF Yield, Goto, TypeOK, OwnPointers, here
    <2>4. CASE Skip(c)
        BY <2>4, <1>1, <1>3, Numbers DEF Skip, TypeOK, Link
    <2>5. CASE Lost(c) \/ Timer(c)
        BY <2>5, <1>1, <1>3 DEF Lost, Timer, Goto, TypeOK, Operands, OwnPointers, here
    <2> QED
        BY <2>1, <2>2, <2>3, <2>4, <2>5
<1>9. Fresh' /\ \A e \in Core : \A p : Mine(e, p)' <=> Mine(e, p)
    BY <1>2, <1>5, <1>6, FreshKept
<1>10. ASSUME NEW e \in Core PROVE Operands(e)' /\ OwnPointers(e)'
    <2>1. Operands(e) /\ OwnPointers(e)
        BY <1>1 DEF ListInv, TypeOK
    <2>2. CASE e = c
        <3>1. /\ cur[c] # Null => cur'[c] # Null
              /\ exec[c] # Boot => exec'[c] # Boot
            BY <1>7, Numbers DEF Boot
        <3>2. Operands(e)'
            BY <2>1, <2>2, <3>1, <1>2, <1>5, <1>8, Numbers DEF Operands
        <3>3. Mine(c, cur'[c]) /\ Mine(c, exec'[c]) /\ (exec'[c] # Boot => cur'[c] # Null)
            BY <2>1, <2>2, <1>7, Numbers DEF OwnPointers
        <3> QED
            BY <2>1, <2>2, <3>2, <3>3, <1>2, <1>5, <1>8, <1>9 DEF OwnPointers
    <2>3. CASE e # c
        <3>1. \A f \in Core : cur[f] # Null => cur'[f] # Null
            BY <1>7, Numbers
        <3>2. arg[e] \in Ctx => home[arg[e]] \in Core /\ (etat'[arg[e]] = "none" <=> etat[arg[e]] = "none")
            BY <1>1, <1>6 DEF TypeOK
        <3>3. Operands(e)'
            BY <2>1, <2>3, <3>1, <3>2, <1>2, <1>5, <1>7 DEF Operands
        <3>4. OwnPointers(e)'
            BY <2>1, <2>3, <3>2, <1>2, <1>5, <1>7, <1>9 DEF Operands, OwnPointers
        <3> QED
            BY <3>3, <3>4
    <2> QED
        BY <2>2, <2>3
<1>11. \A y \in Ctx : OwnLink(y)'
    BY <1>1, <1>2, <1>6, <1>9 DEF ListInv, TypeOK, OwnLink
<1>12. TypeOK'
    BY <1>1, <1>2, <1>5, <1>6, <1>7, <1>10 DEF TypeOK
<1> QED
    BY <1>9, <1>10, <1>11, <1>12 DEF ListInv

\* del_ctx: what it writes in a link was read in a link of the same core.
LEMMA EndKeeps ==
    ASSUME ListInv, raced' \in BOOLEAN, NEW c \in Core,
           Return(c) \/ DelAlone(c) \/ DelRead(c) \/ DelFind(c) \/ DelCut(c)
    PROVE  ListInv'
<1>1. TypeOK /\ OwnPointers(c) /\ Operands(c)
    BY DEF ListInv, TypeOK
<1>2. UNCHANGED <<cur, home, exec, rr, sent, crashed>>
    BY DEF Return, DelAlone, DelRead, DelFind, DelCut, lists, shell
<1>3. exec[c] # Boot /\ cur[c] \in Ctx /\ home[cur[c]] = c /\ etat[cur[c]] # "none"
    BY <1>1 DEF Return, DelAlone, DelRead, DelFind, DelCut, TypeOK, Operands,
                OwnPointers, Mine
\* The context that ends, and every link followed from it, are of this core.
<1>4. /\ arg' \in [Core -> {Null} \cup Ctx]
      /\ \A e \in Core \ {c} : arg'[e] = arg[e]
      /\ arg'[c] \in Ctx /\ home[arg'[c]] = c /\ etat[arg'[c]] # "none"
    <2>1. CASE Return(c)
        BY <2>1, <1>1, <1>3 DEF Return, TypeOK
    <2>2. CASE arg' = arg /\ pc[c] \in {"del", "find"}
        BY <2>2, <1>1 DEF TypeOK, Operands, OwnPointers, Mine
    <2> QED
        BY <2>1, <2>2 DEF Return, DelAlone, DelRead, DelFind, DelCut
<1>5. \A x \in Ctx : home[x] = c => nxt[x] \in Link /\ Mine(c, nxt[x])
    BY <1>1 DEF TypeOK, ListInv, OwnLink, Mine
<1>6. pc[c] = "find" => /\ w[c] \in Link /\ w[c] # Null /\ Mine(c, w[c])
                        /\ suiv[c] \in Link /\ suiv[c] # Null /\ Mine(c, suiv[c])
    BY <1>1 DEF TypeOK, Operands, OwnPointers
<1>7. /\ etat' \in [Ctx -> {"none", "ready", "activated", "terminated"}]
      /\ \A x \in Ctx : etat'[x] = "none" <=> etat[x] = "none"
    BY <1>1, <1>3 DEF Return, DelAlone, DelRead, DelFind, DelCut, lists, TypeOK
<1>8. /\ pc' \in [Core -> Label]
      /\ \A e \in Core \ {c} : pc'[e] = pc[e]
      /\ pc'[c] \in {"del", "find", "yield"}
    <2>1. ASSUME NEW l \in Label, Goto(c, l)
          PROVE  /\ pc' \in [Core -> Label] /\ pc'[c] = l
                 /\ \A e \in Core \ {c} : pc'[e] = pc[e]
        BY <2>1, <1>1 DEF Goto, TypeOK
    <2>2. {"del", "find", "yield"} \subseteq Label
        BY DEF Label
    <2>3. CASE DelFind(c)
        BY <2>3, <1>1 DEF DelFind, TypeOK
    <2> QED
        BY <2>1, <2>2, <2>3 DEF Return, DelAlone, DelRead, DelCut
<1>9. /\ w' \in [Core -> {Null} \cup Link] /\ suiv' \in [Core -> {Null} \cup Link]
      /\ \A e \in Core \ {c} : w'[e] = w[e] /\ suiv'[e] = suiv[e]
      /\ pc'[c] = "find" => /\ w'[c] # Null /\ Mine(c, w'[c])
                            /\ suiv'[c] # Null /\ Mine(c, suiv'[c])
    <2>1. CASE DelRead(c)
        <3>1. arg[c] \in Ctx /\ home[arg[c]] = c /\ etat[arg[c]] # "none" /\ arg[c] # Null
            BY <2>1, <1>4, Numbers DEF DelRead
        <3>2. nxt[arg[c]] \in Link /\ nxt[arg[c]] # Null /\ Mine(c, nxt[arg[c]])
            BY <3>1, <1>5, Numbers DEF Link
        <3> QED
            BY <2>1, <3>1, <3>2, <1>1 DEF DelRead, TypeOK, Link, Mine
    <2>2. CASE DelFind(c)
        <3>1. w[c] \in Ctx /\ home[w[c]] = c
            BY <2>2, <1>6 DEF DelFind, Link, Mine
        <3>2. nxt[w[c]] \in Link /\ nxt[w[c]] # Null /\ Mine(c, nxt[w[c]])
            BY <3>1, <1>5, Numbers DEF Link
        <3> QED
            BY <2>2, <3>2, <1>1, <1>6 DEF DelFind, TypeOK
    <2>3. CASE UNCHANGED <<w, suiv>> /\ pc'[c] # "find"
        BY <2>3, <1>1 DEF TypeOK
    <2> QED
        BY <2>1, <2>2, <2>3, <1>1 DEF Return, DelAlone, DelCut, Goto, TypeOK
<1>10. /\ nxt' \in [Ctx -> Link]
       /\ \A x \in Ctx : \/ nxt'[x] = nxt[x]
                         \/ /\ home[x] = c /\ etat[x] # "none"
                            /\ Mine(c, nxt'[x])
    <2>1. CASE DelCut(c)
        <3>1. w[c] \in Ctx /\ home[w[c]] = c /\ etat[w[c]] # "none"
            BY <2>1, <1>6 DEF DelCut, Link, Mine
        <3> QED
            BY <2>1, <3>1, <1>1, <1>6 DEF DelCut, TypeOK
    <2>2. CASE nxt' = nxt
        BY <2>2, <1>1 DEF TypeOK
    <2> QED
        BY <2>1, <2>2 DEF Return, DelAlone, DelRead, DelFind, lists
<1>11. Fresh' /\ \A e \in Core : \A p : Mine(e, p)' <=> Mine(e, p)
    BY <1>2, <1>7, <1>8, FreshKept
<1>12. ASSUME NEW e \in Core PROVE Operands(e)' /\ OwnPointers(e)'
    <2>1. Operands(e) /\ OwnPointers(e)
        BY <1>1 DEF ListInv, TypeOK
    <2>2. CASE e = c
        <3>1. Operands(e)'
            BY <2>1, <2>2, <1>2, <1>3, <1>4, <1>8, <1>9, Numbers DEF Operands
        <3>2. OwnPointers(e)'
            BY <2>1, <2>2, <1>2, <1>4, <1>7, <1>8, <1>9, <1>11 DEF OwnPointers, Mine
        <3> QED
            BY <3>1, <3>2
    <2>3. CASE e # c
        <3>1. arg[e] \in Ctx => (etat'[arg[e]] = "none" <=> etat[arg[e]] = "none")
            BY <1>7
        <3>2. Operands(e)'
            BY <2>1, <2>3, <1>2, <1>4, <1>8, <1>9 DEF Operands
        <3>3. OwnPointers(e)'
            BY <2>1, <2>3, <3>1, <1>2, <1>4, <1>8, <1>9, <1>11 DEF Operands, OwnPointers
        <3> QED
            BY <3>2, <3>3
    <2> QED
        BY <2>2, <2>3
<1>13. \A y \in Ctx : OwnLink(y)'
    <2> SUFFICES ASSUME NEW y \in Ctx, nxt'[y] \in Ctx
                 PROVE  etat[y] # "none" /\ Mine(home[y], nxt'[y])
        BY <1>1, <1>2, <1>7, <1>11 DEF OwnLink, TypeOK
    <2> QED
        BY <1>10 DEF ListInv, OwnLink
<1>14. TypeOK'
    BY <1>1, <1>2, <1>4, <1>7, <1>8, <1>9, <1>10, <1>12 DEF TypeOK
<1> QED
    BY <1>11, <1>12, <1>13, <1>14 DEF ListInv

-----------------------------------------------------------------------------

\* The invariant is inductive.
LEMMA NextListInv == ListInv /\ [Next]_vars => ListInv'
<1> SUFFICES ASSUME ListInv, [Next]_vars PROVE ListInv'
    OBVIOUS
<1>1. ASSUME NEW c \in Core, Step(c) PROVE ListInv'
    <2>1. raced' \in BOOLEAN
        BY <1>1, Zenon DEF Step, Remember
    <2> QED
        BY <1>1, <2>1, StartsKeep, DispatchKeeps, AddKeeps, YieldKeeps, EndKeeps
           DEF Step, Work
<1>2. CASE UNCHANGED vars
    BY <1>2 DEF vars, lists, here, shell, ListInv, TypeOK, Operands, OwnPointers,
                OwnLink, Mine, Fresh
<1> QED
    BY <1>1, <1>2 DEF Next

\* The types, and the pointers an operation under way needs, for any number of
\* cores and commands.
THEOREM Types == Spec => []TypeOK
<1>1. ListInv => TypeOK
    BY DEF ListInv
<1> QED
    BY <1>1, InitListInv, NextListInv, PTL DEF Spec

\* No core ever runs, links or has as its current context one that was created
\* for another core, although ctxs[] and the links are shared without a lock and
\* however the writers of a list meet.
THEOREM CoresApart == Spec => []Pinned
<1>1. ListInv => Pinned
    BY Numbers DEF ListInv, TypeOK, OwnPointers, OwnLink, Mine, Pinned, Link, Boot
<1> QED
    BY <1>1, InitListInv, NextListInv, PTL DEF Spec

-----------------------------------------------------------------------------
(* What a step finds.                                                       *)

\* An addition is under way.
Busy(c) == pc[c] \in {"add", "publish", "self", "link", "insert"}

\* What the pointers in use lead to.
LEMMA Facts ==
    ASSUME ListInv
    PROVE  /\ \A c \in Core : cur[c] # Null =>
                 cur[c] \in Ctx /\ home[cur[c]] = c /\ etat[cur[c]] # "none"
           /\ \A c \in Core : exec[c] # Boot =>
                 /\ exec[c] \in Ctx /\ home[exec[c]] = c /\ etat[exec[c]] # "none"
                 /\ cur[c] # Null
           /\ \A c \in Core : Busy(c) =>
                 arg[c] \in Ctx /\ home[arg[c]] \in Core /\ etat[arg[c]] # "none"
           /\ \A c \in Core : pc[c] \in {"walk", "find"} /\ w[c] # Junk =>
                 w[c] \in Ctx /\ home[w[c]] = c
           /\ \A c \in Core : pc[c] = "find" /\ suiv[c] # Junk => suiv[c] \in Ctx
           /\ \A c \in Core : pc[c] \in {"run", "del", "find"} => exec[c] # Boot /\ cur[c] # Null
           /\ \A c \in Core : pc[c] \in {"load", "test", "call"} => cur[c] # Null
           /\ \A c \in Core : pc[c] \in {"link", "insert"} => cur[home[arg[c]]] # Null
           /\ \A x \in Ctx : nxt[x] # Junk => nxt[x] \in Ctx /\ home[nxt[x]] = home[x]
<1>1. TypeOK /\ (\A c \in Core : OwnPointers(c)) /\ (\A x \in Ctx : OwnLink(x))
  BY DEF ListInv
<1>2. \A c \in Core : Operands(c)
  BY <1>1 DEF TypeOK
<1>3. ASSUME NEW c \in Core
      PROVE  /\ cur[c] # Null => cur[c] \in Ctx /\ home[cur[c]] = c /\ etat[cur[c]] # "none"
             /\ exec[c] # Boot => /\ exec[c] \in Ctx /\ home[exec[c]] = c /\ etat[exec[c]] # "none"
                                  /\ cur[c] # Null
             /\ Busy(c) => arg[c] \in Ctx /\ home[arg[c]] \in Core /\ etat[arg[c]] # "none"
  BY <1>1, <1>2 DEF TypeOK, OwnPointers, Mine, Operands, Busy
<1>4. ASSUME NEW c \in Core
      PROVE  /\ pc[c] \in {"walk", "find"} /\ w[c] # Junk => w[c] \in Ctx /\ home[w[c]] = c
             /\ pc[c] = "find" /\ suiv[c] # Junk => suiv[c] \in Ctx
             /\ pc[c] \in {"run", "del", "find"} => exec[c] # Boot /\ cur[c] # Null
             /\ pc[c] \in {"load", "test", "call"} => cur[c] # Null
             /\ pc[c] \in {"link", "insert"} => cur[home[arg[c]]] # Null
  BY <1>1, <1>2 DEF TypeOK, OwnPointers, Mine, Operands, Link
<1>5. \A x \in Ctx : nxt[x] # Junk => nxt[x] \in Ctx /\ home[nxt[x]] = home[x]
  BY <1>1 DEF TypeOK, OwnLink, Mine, Link
<1> QED
  BY <1>3, <1>4, <1>5

-----------------------------------------------------------------------------
(* Who adds what, and where.                                                *)

\* What a core could get hold of.
Known(p) ==
    \/ \E c \in Core :
          \/ cur[c] = p \/ exec[c] = p
          \/ pc[c] \in {"walk", "find"} /\ w[c] = p
          \/ pc[c] = "find" /\ suiv[c] = p
          \/ pc[c] \in {"del", "find"} /\ arg[c] = p
    \/ \E x \in Ctx : nxt[x] = p

Early == {"add", "publish", "link", "insert"}

\* Before its last write a new context is in no list.
NotYet(e) == pc[e] \in Early => ~Known(arg[e])

\* The contexts that a core creates, one after the other.
Adds(e) ==
    /\ pc[e] = "boot" => exec[e] = Boot
    /\ Busy(e) => \/ e # 0 /\ exec[e] = Boot /\ arg[e] = Idle(e)
                  \/ e = 0 /\ exec[e] = Boot /\ arg[e] = Shell
                  \/ exec[e] = Shell /\ sent > 0 /\ arg[e] = Task(sent)

Homes ==
    /\ \A c \in Core \ {0} : etat[Idle(c)] # "none" => home[Idle(c)] = c
    /\ etat[Shell] # "none" => home[Shell] = 1

\* No command is sent before the shell is in its list.
ShellFirst ==
    exec[0] = Boot /\ pc[0] \in Early \cup {"boot"} =>
        sent = 0 /\ \A c \in Core : exec[c] # Shell

\* The list of a command that was sent is not empty, unless the command is on its
\* way to it.
TaskListed ==
    \A k \in 1 .. sent :
        \/ cur[home[Task(k)]] # Null
        \/ \E e \in Core : pc[e] \in {"add", "publish"} /\ arg[e] = Task(k)

\* Where the shell found an empty list there is nothing to run but the command it
\* adds and the idle context.
FirstTask(e) ==
    pc[e] = "publish" /\ exec[e] # Boot =>
        /\ home[arg[e]] # e
        /\ \A x \in Ctx : home[x] = home[arg[e]] /\ etat[x] # "none" =>
              x = arg[e] \/ x = Idle(home[arg[e]])

\* A new context stays READY until it is in its list.
StillReady(e) == pc[e] \in Early => etat[arg[e]] = "ready"

\* What a core runs, but its idle context, was started, and what it is about to call
\* was not.
Runs(c) == exec[c] # Boot /\ exec[c] \notin {Idle(d) : d \in Core \ {0}}
Started(c) ==
    /\ (pc[c] = "run" \/ Busy(c)) /\ Runs(c) => etat[cur[c]] \in {"activated", "terminated"}
    /\ pc[c] = "call" => etat[cur[c]] = "ready"

LifeInv ==
    /\ \A e \in Core : NotYet(e) /\ Adds(e) /\ FirstTask(e) /\ StillReady(e) /\ Started(e)
    /\ Homes /\ ShellFirst /\ TaskListed

LEMMA KnownExists ==
    ASSUME ListInv, NEW p \in Ctx, Known(p)
    PROVE  etat[p] # "none"
<1>1. TypeOK /\ \A c \in Core : OwnPointers(c)
  BY DEF ListInv
<1>2. \A x \in Ctx : nxt[x] = p => etat[p] # "none"
  BY DEF ListInv, OwnLink, Mine
<1> QED
  BY <1>1, <1>2 DEF OwnPointers, Mine, Known

\* No two cores add the same context.
LEMMA ArgsApart ==
    ASSUME ListInv, LifeInv, NEW e \in Core, NEW f \in Core, e # f, Busy(e), Busy(f)
    PROVE  arg[e] # arg[f]
<1>1. Adds(e) /\ Adds(f)
  BY DEF LifeInv
<1>2. exec[e] # Shell \/ exec[f] # Shell
  <2>1. exec[e] = Shell => home[Shell] = e
    BY Facts, Numbers DEF Boot
  <2>2. exec[f] = Shell => home[Shell] = f
    BY Facts, Numbers DEF Boot
  <2> QED
    BY <2>1, <2>2
<1>3. sent \in 0 .. NTask /\ (sent > 0 => sent \in 1 .. NTask)
  BY SizeAssumption DEF ListInv, TypeOK
<1>4. \A c, d \in Core : c # d => Idle(c) # Idle(d)
  BY DEF Idle
<1> QED
  BY <1>1, <1>2, <1>3, <1>4, Numbers DEF Adds

\* The contexts.
LEMMA Kinds ==
    \A x \in Ctx : \/ \E c \in Core \ {0} : x = Idle(c)
                   \/ x = Shell
                   \/ \E k \in 1 .. NTask : x = Task(k)
<1> SUFFICES ASSUME NEW x \in Ctx, x > NCore
             PROVE  \E k \in 1 .. NTask : x = Task(k)
  BY SizeAssumption DEF Ctx, Core, Idle, Shell
<1>1. x - NCore \in 1 .. NTask /\ x = Task(x - NCore)
  BY SizeAssumption DEF Ctx, Task
<1> QED
  BY <1>1

LEMMA LifeInit == Init => LifeInv
BY Numbers DEF Init, LifeInv, NotYet, Adds, FirstTask, StillReady, Started, Homes, ShellFirst, TaskListed,
   Busy, Early, Boot

-----------------------------------------------------------------------------
(* The steps that create nothing.                                           *)

\* Core c moves on.
Moves(c) ==
    /\ UNCHANGED <<home, sent>>
    /\ \A x \in Ctx : etat'[x] = "none" <=> etat[x] = "none"
    /\ \A e \in Core \ {c} : pc'[e] = pc[e] /\ arg'[e] = arg[e] /\ exec'[e] = exec[e]
    /\ pc'[c] \notin {"boot", "add"}
    /\ Busy(c)' => Busy(c) /\ arg'[c] = arg[c] /\ exec'[c] = exec[c]
    /\ pc'[c] \in Early => pc[c] \in Early
    /\ \A d \in Core : cur[d] # Null => cur'[d] # Null
    /\ pc[c] \in {"add", "publish"} =>
          cur'[home[arg[c]]] # Null \/ (pc'[c] \in {"add", "publish"} /\ arg'[c] = arg[c])

LEMMA MovesKeep ==
    ASSUME ListInv, LifeInv, NEW c \in Core, Moves(c),
           \A p \in Ctx : Known(p)' => Known(p) \/ (p = arg[c] /\ Busy(c) /\ pc'[c] \notin Early),
           \A x \in Ctx : etat'[x] # etat[x] => Known(x),
           exec'[c] = exec[c] \/ Known(exec'[c]),
           FirstTask(c)', \A e \in Core : Started(e)'
    PROVE  LifeInv'
<1>1. /\ \A e \in Core : NotYet(e) /\ Adds(e) /\ FirstTask(e) /\ StillReady(e)
      /\ Homes /\ ShellFirst /\ TaskListed
  BY DEF LifeInv
<1>2. \A e \in Core : pc[e] \in Early => Busy(e) /\ arg[e] \in Ctx
  BY Facts DEF Early, Busy
<1>3. ASSUME NEW e \in Core, pc'[e] \in Early
      PROVE  pc[e] \in Early /\ arg'[e] = arg[e] /\ arg[e] \in Ctx /\ ~Known(arg[e])
  <2>1. CASE e = c
    BY <1>1, <1>2, <1>3, <2>1 DEF Moves, Early, Busy, NotYet
  <2>2. CASE e # c
    BY <1>1, <1>2, <1>3, <2>2 DEF Moves, NotYet
  <2> QED
    BY <2>1, <2>2
<1>9. \A e \in Core : NotYet(e)'
  <2> SUFFICES ASSUME NEW e \in Core, pc'[e] \in Early, NEW p, p = arg'[e], Known(p)'
               PROVE  FALSE
    BY DEF NotYet, Known
  <2>1. arg[e] = arg[c] /\ Busy(c) /\ pc'[c] \notin Early
    BY <1>3
  <2> QED
    BY <1>2, <1>3, <2>1, ArgsApart
<1>10. \A e \in Core : StillReady(e)'
  BY <1>1, <1>3 DEF StillReady
<1>4. \A e \in Core : Adds(e)'
  BY <1>1 DEF Adds, Moves, Busy
<1>5. \A e \in Core \ {c} : FirstTask(e)'
  <2> SUFFICES ASSUME NEW e \in Core \ {c} PROVE FirstTask(e)'
    OBVIOUS
  <2> QED
    BY <1>1 DEF FirstTask, Moves
<1>6. Homes'
  BY <1>1, Numbers DEF Homes, Moves
<1>7. ShellFirst'
  <2> SUFFICES ASSUME exec'[0] = Boot, pc'[0] \in Early \cup {"boot"}
               PROVE  sent = 0 /\ \A d \in Core : exec'[d] # Shell
    BY DEF ShellFirst, Moves
  <2>1. exec[0] = Boot /\ pc[0] \in Early \cup {"boot"}
    BY Numbers DEF Moves, Early, Busy
  <2>2. sent = 0 /\ \A d \in Core : exec[d] # Shell
    BY <1>1, <2>1 DEF ShellFirst
  <2>3. ~Known(Shell)
    <3>1. CASE pc[0] = "boot"
      BY <3>1, KnownExists, Numbers DEF ListInv, Fresh
    <3>2. CASE pc[0] \in Early
      <4>1. Busy(0) /\ arg[0] = Shell
        BY <1>1, <1>2, <2>1, <2>2, <3>2, Numbers DEF Adds
      <4> QED
        BY <1>1, <3>2, <4>1, Numbers DEF NotYet
    <3> QED
      BY <2>1, <3>1, <3>2
  <2> QED
    BY <2>2, <2>3 DEF Moves
<1>8. TaskListed'
  <2> SUFFICES ASSUME NEW k \in 1 .. sent, cur'[home[Task(k)]] = Null
               PROVE  \E e \in Core : pc'[e] \in {"add", "publish"} /\ arg'[e] = Task(k)
    BY DEF TaskListed, Moves
  <2>1. Task(k) \in Ctx /\ home[Task(k)] \in Core
    BY Numbers, SizeAssumption DEF ListInv, TypeOK
  <2>2. cur[home[Task(k)]] = Null
    BY <2>1 DEF Moves
  <2>3. PICK e \in Core : pc[e] \in {"add", "publish"} /\ arg[e] = Task(k)
    BY <1>1, <2>2 DEF TaskListed
  <2> QED
    BY <2>3 DEF Moves
<1> QED
  BY <1>4, <1>5, <1>6, <1>7, <1>8, <1>9, <1>10 DEF LifeInv

\* The walk, and what is left of the switch up to the call.
LEMMA LifeWalk ==
    ASSUME ListInv, LifeInv, NEW c \in Core,
           \/ Yield(c) \/ Skip(c) \/ Lost(c) \/ Timer(c) \/ Load(c) \/ Test(c) \/ Nowhere(c)
           \/ DelAlone(c) \/ DelRead(c) \/ DelFind(c)
    PROVE  LifeInv'
<1> USE DEF Yield, Skip, Lost, Timer, Load, Test, Nowhere, DelAlone, DelRead, DelFind
<1>1. TypeOK /\ Operands(c)
  BY DEF ListInv, TypeOK
<1>2. /\ UNCHANGED <<cur, nxt, etat, home, exec, arg, sent>>
      /\ \A e \in Core \ {c} : pc'[e] = pc[e] /\ w'[e] = w[e] /\ suiv'[e] = suiv[e]
      /\ pc[c] \notin {"add", "publish", "self", "link", "insert"}
      /\ pc'[c] \in {"yield", "walk", "load", "test", "call", "run", "find"}
      /\ pc'[c] = "find" => pc[c] \in {"del", "find"}
      /\ pc'[c] = "find" /\ pc[c] = "find" => suiv'[c] = suiv[c]
      /\ pc'[c] \in {"call", "run"} => Test(c)
  BY <1>1 DEF Goto, TypeOK, lists, here, shell
<1>3. /\ pc'[c] = "walk" => \/ w'[c] = cur[c]
                            \/ pc[c] = "walk" /\ w'[c] = w[c]
                            \/ pc[c] = "walk" /\ w[c] \in Ctx /\ w'[c] = nxt[w[c]]
      /\ pc'[c] = "find" => \/ pc[c] = "del" /\ w'[c] = arg[c]
                            \/ pc[c] = "find" /\ w'[c] = w[c]
                            \/ pc[c] = "find" /\ w[c] \in Ctx /\ w'[c] = nxt[w[c]]
      /\ pc'[c] = "find" /\ pc[c] = "del" => arg[c] \in Ctx /\ suiv'[c] = nxt[arg[c]]
  BY <1>1 DEF Goto, TypeOK, lists, here, shell, Operands, Link
<1>4. \A p \in Ctx : Known(p)' => Known(p)
  BY <1>2, <1>3 DEF Known
<1>5. Moves(c) /\ FirstTask(c)'
  BY <1>2 DEF Moves, FirstTask, Early, Busy
<1>6. Test(c) => /\ pc'[c] = "call" => etat[cur[c]] = "ready"
                 /\ pc'[c] = "run" => etat[cur[c]] \in {"activated", "terminated"}
  <2> SUFFICES ASSUME Test(c)
               PROVE  /\ pc'[c] = "call" => etat[cur[c]] = "ready"
                      /\ pc'[c] = "run" => etat[cur[c]] \in {"activated", "terminated"}
    OBVIOUS
  <2>1. cur[c] \in Ctx /\ etat[cur[c]] # "none"
    BY Facts
  <2> QED
    BY <1>1, <2>1 DEF Goto, TypeOK
<1>7. \A e \in Core : Started(e)'
  <2> SUFFICES ASSUME NEW e \in Core PROVE Started(e)'
    OBVIOUS
  <2>1. Started(e)
    BY DEF LifeInv
  <2>2. CASE e = c
    BY <1>2, <1>6, <2>1, <2>2 DEF Started, Busy
  <2>3. CASE e # c
    BY <1>2, <2>1, <2>3 DEF Started, Runs, Busy
  <2> QED
    BY <2>2, <2>3
<1> QED
  BY <1>2, <1>4, <1>5, <1>7, MovesKeep

LEMMA LifeCut ==
    ASSUME ListInv, LifeInv, NEW c \in Core, DelCut(c)
    PROVE  LifeInv'
<1>1. TypeOK
  BY DEF ListInv
<1>2. /\ UNCHANGED <<cur, etat, home, exec, arg, w, suiv, sent>>
      /\ \A e \in Core \ {c} : pc'[e] = pc[e]
      /\ pc[c] = "find" /\ pc'[c] = "yield"
      /\ \A x \in Ctx : nxt'[x] = nxt[x] \/ nxt'[x] = suiv[c]
  BY <1>1 DEF DelCut, Goto, TypeOK, shell
<1>3. \A p \in Ctx : Known(p)' => Known(p)
  BY <1>2 DEF Known
<1>4. Moves(c) /\ FirstTask(c)'
  BY <1>2 DEF Moves, FirstTask, Early, Busy
<1>5. \A e \in Core : Started(e)'
  <2> SUFFICES ASSUME NEW e \in Core PROVE Started(e)'
    OBVIOUS
  <2>1. Started(e)
    BY DEF LifeInv
  <2> QED
    BY <1>2, <2>1 DEF Started, Runs, Busy
<1> QED
  BY <1>2, <1>3, <1>4, <1>5, MovesKeep

LEMMA LifeSetCurrent ==
    ASSUME ListInv, LifeInv, NEW c \in Core, SetCurrent(c)
    PROVE  LifeInv'
<1>1. TypeOK /\ w[c] \in Ctx /\ pc[c] = "walk"
  BY Facts DEF SetCurrent, ListInv
<1>2. /\ UNCHANGED <<nxt, etat, home, exec, arg, w, suiv, sent>>
      /\ \A e \in Core \ {c} : pc'[e] = pc[e] /\ cur'[e] = cur[e]
      /\ cur'[c] = w[c] /\ pc'[c] \in {"load", "test"}
  BY <1>1 DEF SetCurrent, Goto, TypeOK, shell
<1>3. \A p \in Ctx : Known(p)' => Known(p)
  BY <1>1, <1>2 DEF Known
<1>4. Moves(c) /\ FirstTask(c)'
  BY <1>1, <1>2, Numbers DEF Moves, FirstTask, Early, Busy
<1>5. \A e \in Core : Started(e)'
  <2> SUFFICES ASSUME NEW e \in Core PROVE Started(e)'
    OBVIOUS
  <2>1. Started(e)
    BY DEF LifeInv
  <2> QED
    BY <1>1, <1>2, <2>1 DEF Started, Runs, Busy
<1> QED
  BY <1>2, <1>3, <1>4, <1>5, MovesKeep

LEMMA LifeCall ==
    ASSUME ListInv, LifeInv, NEW c \in Core, Call(c)
    PROVE  LifeInv'
<1>1. TypeOK /\ cur[c] \in Ctx /\ etat[cur[c]] # "none" /\ home[cur[c]] = c /\ pc[c] = "call"
  BY Facts DEF Call, ListInv
<1>2. /\ UNCHANGED <<cur, nxt, home, arg, w, suiv, sent>>
      /\ \A e \in Core \ {c} : pc'[e] = pc[e] /\ exec'[e] = exec[e]
      /\ exec'[c] = cur[c] /\ pc'[c] = "run"
      /\ \A x \in Ctx : etat'[x] = IF x = cur[c] THEN "activated" ELSE etat[x]
  BY <1>1 DEF Call, Goto, TypeOK, shell
<1>3. Known(cur[c]) /\ \A p \in Ctx : Known(p)' => Known(p)
  BY <1>1, <1>2 DEF Known
<1>4. Moves(c) /\ FirstTask(c)'
  BY <1>1, <1>2, Numbers DEF Moves, FirstTask, Early, Busy
<1>5. \A e \in Core : Started(e)'
  <2> SUFFICES ASSUME NEW e \in Core PROVE Started(e)'
    OBVIOUS
  <2>1. /\ Started(e)
        /\ exec[e] # Boot \/ pc[e] = "call" => cur[e] \in Ctx /\ home[cur[e]] = e
    BY Facts DEF LifeInv
  <2> QED
    BY <1>1, <1>2, <2>1 DEF Started, Runs, Busy
<1> QED
  BY <1>2, <1>3, <1>4, <1>5, MovesKeep

LEMMA LifeReturn ==
    ASSUME ListInv, LifeInv, NEW c \in Core, Return(c)
    PROVE  LifeInv'
<1>1. TypeOK /\ cur[c] \in Ctx /\ etat[cur[c]] # "none" /\ home[cur[c]] = c /\ pc[c] = "run"
  BY Facts DEF Return, ListInv
<1>2. /\ UNCHANGED <<cur, nxt, home, exec, w, suiv, sent>>
      /\ \A e \in Core \ {c} : pc'[e] = pc[e] /\ arg'[e] = arg[e]
      /\ arg'[c] = cur[c] /\ pc'[c] = "del"
      /\ \A x \in Ctx : etat'[x] = IF x = cur[c] THEN "terminated" ELSE etat[x]
  BY <1>1 DEF Return, Goto, TypeOK, shell
<1>3. Known(cur[c]) /\ \A p \in Ctx : Known(p)' => Known(p)
  BY <1>1, <1>2 DEF Known
<1>4. Moves(c) /\ FirstTask(c)'
  BY <1>1, <1>2 DEF Moves, FirstTask, Early, Busy
<1>5. \A e \in Core : Started(e)'
  <2> SUFFICES ASSUME NEW e \in Core PROVE Started(e)'
    OBVIOUS
  <2>1. /\ Started(e)
        /\ exec[e] # Boot \/ pc[e] = "call" => cur[e] \in Ctx /\ home[cur[e]] = e
    BY Facts DEF LifeInv
  <2> QED
    BY <1>1, <1>2, <2>1 DEF Started, Runs, Busy
<1> QED
  BY <1>2, <1>3, <1>4, <1>5, MovesKeep

LEMMA LifeLinks ==
    ASSUME ListInv, LifeInv, NEW c \in Core, AddSelf(c) \/ AddLink(c) \/ AddInsert(c)
    PROVE  LifeInv'
<1>1. TypeOK /\ Operands(c) /\ Busy(c) /\ arg[c] \in Ctx /\ home[arg[c]] \in Core
  BY Facts DEF AddSelf, AddLink, AddInsert, Busy, ListInv, TypeOK
<1>2. /\ UNCHANGED <<cur, etat, home, exec, arg, w, suiv, sent>>
      /\ \A e \in Core \ {c} : pc'[e] = pc[e]
      /\ pc[c] \in {"self", "link", "insert"} /\ pc'[c] \in {"insert", "yield", "run"}
      /\ pc'[c] = "insert" => pc[c] = "link"
      /\ pc'[c] # "insert" => pc'[c] \notin Early
  BY <1>1 DEF AddSelf, AddLink, AddInsert, Added, Goto, TypeOK, shell, Early
<1>3. \A x \in Ctx : \/ nxt'[x] = nxt[x]
                     \/ nxt'[x] = arg[c] /\ pc'[c] \notin Early
                     \/ \E y \in Ctx : nxt'[x] = nxt[y]
  <2>1. CASE AddSelf(c) \/ AddInsert(c)
    <3>1. pc'[c] \notin Early
      BY <1>2, <2>1 DEF AddSelf, AddInsert
    <3> QED
      BY <1>1, <2>1, <3>1 DEF AddSelf, AddInsert, TypeOK
  <2>2. CASE AddLink(c)
    <3>1. cur[home[arg[c]]] \in Ctx
      BY <1>1, <2>2 DEF AddLink, TypeOK, Operands
    <3> QED
      BY <1>1, <2>2, <3>1 DEF AddLink, TypeOK
  <2> QED
    BY <2>1, <2>2
<1>4. \A p \in Ctx : Known(p)' => Known(p) \/ (p = arg[c] /\ Busy(c) /\ pc'[c] \notin Early)
  BY <1>1, <1>2, <1>3 DEF Known
<1>5. Moves(c) /\ FirstTask(c)'
  BY <1>1, <1>2 DEF Moves, FirstTask, Early, Busy
<1>6. \A e \in Core : Started(e)'
  <2> SUFFICES ASSUME NEW e \in Core PROVE Started(e)'
    OBVIOUS
  <2>1. Started(e)
    BY DEF LifeInv
  <2> QED
    BY <1>1, <1>2, <2>1 DEF Started, Runs, Busy
<1> QED
  BY <1>2, <1>4, <1>5, <1>6, MovesKeep

\* The shell finds an empty list.
LEMMA LifeAddTest ==
    ASSUME ListInv, LifeInv, NEW c \in Core, AddTest(c)
    PROVE  LifeInv'
<1>1. TypeOK /\ Busy(c) /\ arg[c] \in Ctx /\ home[arg[c]] \in Core
  BY Facts DEF AddTest, Busy, ListInv
<1>2. /\ UNCHANGED <<cur, nxt, etat, home, exec, arg, w, suiv, sent>>
      /\ \A e \in Core \ {c} : pc'[e] = pc[e]
      /\ pc[c] = "add"
      /\ pc'[c] = IF cur[home[arg[c]]] = Null THEN "publish" ELSE "link"
  BY <1>1 DEF AddTest, Goto, TypeOK, lists, shell
<1>3. \A p \in Ctx : Known(p)' => Known(p)
  BY <1>2 DEF Known
<1>4. Moves(c)
  BY <1>1, <1>2 DEF Moves, Early, Busy
<1>5. FirstTask(c)'
  <2> SUFFICES ASSUME exec[c] # Boot, cur[home[arg[c]]] = Null
               PROVE  /\ home[arg[c]] # c
                      /\ \A x \in Ctx : home[x] = home[arg[c]] /\ etat[x] # "none" =>
                            x = arg[c] \/ x = Idle(home[arg[c]])
    BY <1>2 DEF FirstTask
  <2>1. home[arg[c]] # c
    BY Facts
  <2>2. exec[c] = Shell /\ arg[c] = Task(sent) /\ c = 1 /\ sent \in 0 .. NTask
    <3>1. exec[c] = Shell /\ arg[c] = Task(sent)
      BY <1>1 DEF LifeInv, Adds
    <3>2. home[Shell] = c /\ etat[Shell] # "none"
      BY <3>1, Facts
    <3> QED
      BY <3>1, <3>2 DEF LifeInv, Homes, ListInv, TypeOK
  <2>3. ASSUME NEW x \in Ctx, home[x] = home[arg[c]], etat[x] # "none"
        PROVE  x = arg[c] \/ x = Idle(home[arg[c]])
    <3>1. CASE \E d \in Core \ {0} : x = Idle(d)
      BY <2>3, <3>1 DEF LifeInv, Homes
    <3>2. x # Shell
      BY <2>1, <2>2, <2>3 DEF LifeInv, Homes
    <3>3. ASSUME NEW k \in 1 .. NTask, x = Task(k)
          PROVE  x = arg[c]
      <4>1. k \in 1 .. sent
        BY <2>2, <2>3, <3>3, SizeAssumption DEF ListInv, Fresh
      <4>2. PICK e \in Core : pc[e] \in {"add", "publish"} /\ arg[e] = x
        BY <2>3, <3>3, <4>1 DEF LifeInv, TaskListed
      <4>3. Busy(e)
        BY <4>2 DEF Busy
      <4>4. exec[e] = Shell /\ arg[e] = Task(sent)
        BY <3>3, <4>2, <4>3, Numbers DEF LifeInv, Adds
      <4> QED
        BY <2>2, <4>2, <4>4
    <3> QED
      BY <3>1, <3>2, <3>3, Kinds
  <2> QED
    BY <2>1, <2>3
<1>6. \A e \in Core : Started(e)'
  <2> SUFFICES ASSUME NEW e \in Core PROVE Started(e)'
    OBVIOUS
  <2>1. Started(e)
    BY DEF LifeInv
  <2> QED
    BY <1>1, <1>2, <2>1 DEF Started, Runs, Busy
<1> QED
  BY <1>2, <1>3, <1>4, <1>5, <1>6, MovesKeep

\* A context put in front of a list that another core runs.
LEMMA LifePublish ==
    ASSUME ListInv, LifeInv, NEW c \in Core, AddPublish(c)
    PROVE  LifeInv'
<1>1. /\ TypeOK /\ Busy(c) /\ arg[c] \in Ctx /\ home[arg[c]] \in Core /\ etat[arg[c]] # "none"
      /\ arg[c] # Null
  BY Facts, Numbers DEF AddPublish, Busy, ListInv
<1>2. /\ UNCHANGED <<nxt, etat, home, exec, arg, w, suiv, sent>>
      /\ \A e \in Core \ {c} : pc'[e] = pc[e]
      /\ pc[c] = "publish" /\ pc'[c] = "self"
      /\ \A e \in Core : cur'[e] = IF e = home[arg[c]] THEN arg[c] ELSE cur[e]
  BY <1>1 DEF AddPublish, Goto, TypeOK, lists, shell
<1>3. \A p \in Ctx : Known(p)' => Known(p) \/ (p = arg[c] /\ Busy(c) /\ pc'[c] \notin Early)
  BY <1>1, <1>2 DEF Known, Early
<1>4. Moves(c) /\ FirstTask(c)'
  BY <1>1, <1>2 DEF Moves, FirstTask, Early, Busy
<1>5. \A e \in Core : Started(e)'
  <2>3. \A e \in Core : pc'[e] = "call" => etat[cur'[e]] = "ready"
    BY <1>2 DEF LifeInv, Started, StillReady, Early
  <2> SUFFICES ASSUME NEW e \in Core, Runs(e), pc[e] = "run" \/ Busy(e)
               PROVE  etat[cur'[e]] \in {"activated", "terminated"}
    BY <1>1, <1>2, <2>3 DEF Started, Runs, Busy
  <2>1. etat[cur[e]] \in {"activated", "terminated"}
    BY DEF LifeInv, Started
  <2>2. ASSUME e = home[arg[c]]
        PROVE  FALSE
    <3>1. exec[e] \in Ctx /\ home[exec[e]] = e /\ etat[exec[e]] # "none"
      BY Facts DEF Runs
    <3>2. exec[e] # arg[c]
      BY <1>2 DEF LifeInv, NotYet, Known, Early
    <3>3. CASE exec[c] # Boot
      <4>1. exec[e] = Idle(e) /\ e # c
        BY <1>2, <2>2, <3>1, <3>2, <3>3 DEF LifeInv, FirstTask
      <4>2. e # 0
        BY <3>1, <4>1 DEF Idle, Ctx
      <4> QED
        BY <4>1, <4>2 DEF Runs
    <3>4. CASE exec[c] = Boot
      <4>1. CASE c # 0
        <5>1. arg[c] = Idle(c) /\ home[arg[c]] = c
          BY <1>1, <3>4, <4>1, Numbers DEF LifeInv, Adds, Homes, Boot
        <5> QED
          BY <2>2, <3>4, <5>1 DEF Runs
      <4>2. CASE c = 0
        <5>1. arg[c] = Shell /\ e = 1
          BY <1>1, <2>2, <3>4, <4>2, Numbers DEF LifeInv, Adds, Homes, Boot
        <5>2. sent = 0
          BY <1>2, <3>4, <4>2 DEF LifeInv, ShellFirst, Early
        <5>3. \A k \in 1 .. NTask : exec[e] # Task(k)
          BY <3>1, <5>2 DEF ListInv, Fresh
        <5> QED
          BY <3>1, <3>2, <5>1, <5>3, Kinds DEF Runs
      <4> QED
        BY <4>1, <4>2
    <3> QED
      BY <3>3, <3>4
  <2> QED
    BY <1>2, <2>1, <2>2
<1> QED
  BY <1>2, <1>3, <1>4, <1>5, MovesKeep

-----------------------------------------------------------------------------
(* The steps that create.                                                   *)

LEMMA LifeCreate ==
    ASSUME ListInv, ListInv', LifeInv, NEW c \in Core,
           CoreStarts(c) \/ MainStarts(c) \/ Dispatch(c)
    PROVE  LifeInv'
<1>1. /\ TypeOK /\ Fresh /\ sent \in 0 .. NTask
      /\ \A e \in Core : NotYet(e) /\ Adds(e) /\ FirstTask(e) /\ StillReady(e) /\ Started(e)
      /\ Homes /\ ShellFirst /\ TaskListed
  BY DEF ListInv, TypeOK, LifeInv
<1>2. PICK x \in Ctx, d \in Core :
         /\ Create(c, x, d) /\ etat[x] = "none"
         /\ \/ CoreStarts(c) /\ x = Idle(c) /\ d = c /\ c # 0 /\ pc[c] = "boot" /\ sent' = sent
            \/ MainStarts(c) /\ x = Shell /\ d = 1 /\ c = 0 /\ pc[c] = "boot" /\ sent' = sent
            \/ /\ Dispatch(c) /\ x = Task(sent + 1) /\ pc[c] = "run" /\ exec[c] = Shell
               /\ sent + 1 \in 1 .. NTask /\ sent' = sent + 1
  <2>1. CASE CoreStarts(c)
    BY <1>1, <2>1, Numbers DEF CoreStarts, Fresh, shell
  <2>2. CASE MainStarts(c)
    BY <1>1, <2>2, Numbers DEF MainStarts, Fresh, shell
  <2>3. CASE Dispatch(c)
    <3>1. sent + 1 \in sent + 1 .. NTask /\ sent + 1 \in 1 .. NTask /\ rr \in Core
      BY <1>1, <2>3, SizeAssumption DEF Dispatch, TypeOK
    <3> QED
      BY <1>1, <2>3, <3>1, Numbers DEF Dispatch, Fresh
  <2> QED
    BY <2>1, <2>2, <2>3
<1>3. /\ UNCHANGED <<cur, nxt, exec, w, suiv>>
      /\ \A e \in Core \ {c} : pc'[e] = pc[e] /\ arg'[e] = arg[e]
      /\ pc'[c] = "add" /\ arg'[c] = x
      /\ \A y \in Ctx : etat'[y] = IF y = x THEN "ready" ELSE etat[y]
      /\ \A y \in Ctx : home'[y] = IF y = x THEN d ELSE home[y]
  BY <1>1, <1>2 DEF Create, Goto, TypeOK
<1>4. /\ ~Known(x) /\ pc[c] \in {"boot", "run"}
      /\ \A e \in Core : Busy(e) => arg[e] # x /\ arg[e] \in Ctx /\ e # c
      /\ \A e \in Core : cur[e] # x
  <2>1. ~Known(x)
    BY <1>2, KnownExists
  <2> QED
    BY <1>2, <2>1, Facts DEF Known, Busy
<1>5. \A p \in Ctx : Known(p)' => Known(p)
  BY <1>3 DEF Known
<1>6. \A e \in Core : NotYet(e)'
  <2> SUFFICES ASSUME NEW e \in Core, pc'[e] \in Early, NEW p, p = arg'[e], Known(p)'
               PROVE  FALSE
    BY DEF NotYet, Known
  <2>1. p \in Ctx
    BY <1>3, <1>4 DEF Early, Busy
  <2> QED
    BY <1>1, <1>3, <1>4, <1>5, <2>1 DEF NotYet
<1>7. \A e \in Core : Adds(e)'
  <2> SUFFICES ASSUME NEW e \in Core PROVE Adds(e)'
    OBVIOUS
  <2>1. CASE e = c
    BY <1>1, <1>2, <1>3, <2>1 DEF Adds, Busy
  <2>2. CASE e # c
    <3>1. exec[e] = Shell => ~Dispatch(c)
      <4>1. exec[e] = Shell => home[Shell] = e
        BY Facts, Numbers DEF Boot
      <4>2. Dispatch(c) => exec[c] = Shell /\ home[Shell] = c
        BY Facts, Numbers DEF Boot, Dispatch
      <4> QED
        BY <2>2, <4>1, <4>2
    <3> QED
      BY <1>1, <1>2, <1>3, <2>2, <3>1 DEF Adds, Busy
  <2> QED
    BY <2>1, <2>2
<1>8. Homes'
  <2>1. \A e \in Core \ {0} : Idle(e) = x => e = c /\ d = e
    BY <1>1, <1>2, Numbers DEF Idle
  <2>2. x = Shell => d = 1
    BY <1>2, Numbers
  <2> QED
    BY <1>1, <1>3, <2>1, <2>2, Numbers DEF Homes
<1>9. ShellFirst'
  <2> SUFFICES ASSUME exec[0] = Boot, pc'[0] \in Early \cup {"boot"}
               PROVE  sent' = 0 /\ \A e \in Core : exec[e] # Shell
    BY <1>3 DEF ShellFirst
  <2>1. pc[0] \in Early \cup {"boot"}
    BY <1>2, <1>3, Facts, Numbers
  <2> QED
    BY <1>1, <1>2, <2>1 DEF ShellFirst
<1>10. TaskListed'
  <2> SUFFICES ASSUME NEW k \in 1 .. sent', cur'[home'[Task(k)]] = Null
               PROVE  \E e \in Core : pc'[e] \in {"add", "publish"} /\ arg'[e] = Task(k)
    BY DEF TaskListed
  <2>1. CASE Task(k) = x
    BY <1>3, <2>1
  <2>2. CASE Task(k) # x
    <3>1. k \in 1 .. sent /\ Task(k) \in Ctx
      BY <1>1, <1>2, <2>2, Numbers, SizeAssumption
    <3>2. PICK e \in Core : pc[e] \in {"add", "publish"} /\ arg[e] = Task(k)
      BY <1>1, <1>3, <2>2, <3>1 DEF TaskListed
    <3>3. e # c
      BY <1>4, <3>2
    <3> QED
      BY <1>3, <3>2, <3>3
  <2> QED
    BY <2>1, <2>2
<1>11. \A e \in Core : FirstTask(e)'
  <2> SUFFICES ASSUME NEW e \in Core, pc'[e] = "publish", exec[e] # Boot
               PROVE  /\ home'[arg'[e]] # e
                      /\ \A y \in Ctx : home'[y] = home'[arg'[e]] /\ etat'[y] # "none" =>
                            y = arg'[e] \/ y = Idle(home'[arg'[e]])
    BY <1>3 DEF FirstTask
  <2>1. e # c /\ pc[e] = "publish" /\ Busy(e) /\ arg'[e] = arg[e] /\ arg[e] \in Ctx /\ arg[e] # x
    BY <1>3, <1>4 DEF Busy
  <2>2. exec[e] = Shell /\ sent > 0 /\ home[Shell] = e /\ etat[Shell] # "none"
    BY <1>1, <2>1, Facts, Numbers DEF Adds
  <2>3. e = 1 /\ home[arg[e]] # e
    BY <1>1, <2>1, <2>2 DEF Homes, FirstTask
  <2>4. home'[arg'[e]] = home[arg[e]]
    BY <1>3, <2>1
  <2>5. ~Dispatch(c) /\ ~MainStarts(c)
    <3>1. Dispatch(c) => home[exec[c]] = c /\ exec[c] = Shell
      BY Facts, Numbers DEF Dispatch, Boot
    <3>2. MainStarts(c) => pc[0] = "boot"
      BY DEF MainStarts
    <3> QED
      BY <1>1, <2>1, <2>2, <3>1, <3>2 DEF Fresh
  <2>6. x = Idle(c) /\ d = c
    BY <1>2, <2>5
  <2> QED
    BY <1>1, <1>3, <2>1, <2>3, <2>4, <2>6 DEF FirstTask
<1>12. \A e \in Core : Started(e)'
  <2> SUFFICES ASSUME NEW e \in Core PROVE Started(e)'
    OBVIOUS
  <2>1. Started(e) /\ (exec[e] # Boot \/ pc[e] = "call" => cur[e] \in Ctx)
    BY <1>1, Facts
  <2>2. CASE e = c
    <3>1. pc[c] = "boot" => ~Runs(c)
      BY <1>1 DEF Adds, Runs
    <3> QED
      BY <1>3, <1>4, <2>1, <2>2, <3>1 DEF Started, Runs
  <2>3. CASE e # c
    BY <1>3, <1>4, <2>1, <2>3 DEF Started, Runs, Busy
  <2> QED
    BY <2>2, <2>3
<1>13. \A e \in Core : StillReady(e)'
  BY <1>1, <1>2, <1>3, <1>4 DEF StillReady, Early, Busy
<1> QED
  BY <1>6, <1>7, <1>8, <1>9, <1>10, <1>11, <1>12, <1>13 DEF LifeInv

LEMMA LifeStep ==
    ASSUME ListInv, LifeInv, [Next]_vars
    PROVE  LifeInv'
<1>1. ListInv'
  BY NextListInv
<1>2. ASSUME NEW c \in Core, Step(c) PROVE LifeInv'
  BY <1>1, <1>2, LifeWalk, LifeCut, LifeSetCurrent, LifeCall, LifeReturn, LifeLinks, LifeAddTest, LifePublish,
     LifeCreate DEF Step, Work
<1>3. CASE UNCHANGED vars
  BY <1>3 DEF vars, lists, here, shell, LifeInv, NotYet, Known, Adds, FirstTask, StillReady, Started, Runs,
     Homes, ShellFirst, TaskListed, Busy, Early
<1> QED
  BY <1>2, <1>3 DEF Next

LEMMA LifeAlways == Spec => [](ListInv /\ LifeInv)
<1>1. Init => ListInv /\ LifeInv
  BY InitListInv, LifeInit
<1>2. ListInv /\ LifeInv /\ [Next]_vars => (ListInv /\ LifeInv)'
  BY NextListInv, LifeStep
<1> QED
  BY <1>1, <1>2, PTL DEF Spec

\* For any number of cores and commands, however the writers of a list meet and
\* wherever the timer cuts a switch: the function of a context is called once, by its
\* own core, and what is marked as over was started.
THEOREM CalledOnce == Spec => Lifecycle
<1>1. ASSUME ListInv, LifeInv, Next, NEW x \in Ctx, etat'[x] # etat[x]
      PROVE  \/ etat[x] = "none" /\ etat'[x] = "ready"
             \/ etat[x] = "ready" /\ etat'[x] = "activated" /\ exec'[home[x]] = x
             \/ etat[x] = "activated" /\ etat'[x] = "terminated" /\ pc'[home[x]] = "del"
  <2>1. TypeOK /\ Fresh /\ sent \in 0 .. NTask
    BY <1>1 DEF ListInv, TypeOK
  <2>2. PICK c \in Core : Work(c) \/ Dispatch(c) \/ Return(c) \/ Timer(c)
    BY <1>1 DEF Next, Step
  <2>3. ASSUME NEW y \in Ctx, NEW d \in Core, Create(c, y, d), etat[y] = "none"
        PROVE  etat[x] = "none" /\ etat'[x] = "ready"
    BY <1>1, <2>1, <2>3 DEF Create, TypeOK
  <2>4. CASE CoreStarts(c) \/ MainStarts(c)
    BY <2>1, <2>3, <2>4, Numbers DEF CoreStarts, MainStarts, Fresh
  <2>5. CASE Dispatch(c)
    <3>1. sent + 1 \in sent + 1 .. NTask /\ sent + 1 \in 1 .. NTask /\ rr \in Core
      BY <2>1, <2>5, SizeAssumption DEF Dispatch, TypeOK
    <3> QED
      BY <2>1, <2>3, <2>5, <3>1, Numbers DEF Dispatch, Fresh
  <2>6. CASE Call(c)
    <3>1. cur[c] \in Ctx /\ home[cur[c]] = c /\ etat[cur[c]] = "ready"
      BY <1>1, <2>6, Facts DEF Call, LifeInv, Started
    <3> QED
      BY <1>1, <2>1, <2>6, <3>1 DEF Call, TypeOK
  <2>7. CASE Return(c)
    <3>1. exec[c] # Boot /\ cur[c] \in Ctx /\ home[cur[c]] = c /\ pc[c] = "run" /\ Runs(c)
      BY <1>1, <2>7, Facts DEF Return, Runs
    <3>2. x = cur[c] /\ etat'[x] = "terminated" /\ pc'[c] = "del"
      BY <1>1, <2>1, <2>7, <3>1 DEF Return, Goto, TypeOK
    <3>3. etat[x] \in {"activated", "terminated"}
      BY <1>1, <3>1, <3>2 DEF LifeInv, Started
    <3> QED
      BY <1>1, <3>1, <3>2, <3>3
  <2>8. CASE UNCHANGED etat
    BY <1>1, <2>8
  <2> QED
    BY <2>2, <2>4, <2>5, <2>6, <2>7, <2>8
    DEF Work, AddTest, AddPublish, AddSelf, AddLink, AddInsert, Yield, Skip, Lost, Timer, SetCurrent,
        Load, Test, Nowhere, DelAlone,
        DelRead, DelFind, DelCut, lists
<1>2. ASSUME ListInv, LifeInv, Next, NEW x \in Ctx, NEW c \in Core,
             pc[c] = "call", pc'[c] = "run", exec'[c] = x
      PROVE  etat[x] = "ready" /\ etat'[x] = "activated"
  <2>1. TypeOK /\ cur[c] \in Ctx /\ etat[cur[c]] = "ready"
    BY <1>2, Facts DEF ListInv, LifeInv, Started
  <2>2. PICK d \in Core : Step(d)
    BY <1>2 DEF Next
  <2>3. d = c
    <3>1. ASSUME d # c PROVE pc'[c] = pc[c]
      BY <2>1, <2>2, <3>1
      DEF Step, Work, CoreStarts, MainStarts, Dispatch, Create, AddTest, AddPublish, AddSelf,
          AddLink, AddInsert, Added, Yield, Skip, Lost, SetCurrent, Load, Test, Nowhere, Call,
          Timer, Return, DelAlone, DelRead, DelFind, DelCut, Goto, here, TypeOK
    <3> QED
      BY <1>2, <3>1
  <2>4. Call(c) \/ Timer(c)
    BY <1>2, <2>2, <2>3
    DEF Step, Work, CoreStarts, MainStarts, Dispatch, AddTest, AddPublish, AddSelf,
        AddLink, AddInsert, Yield, Skip, Lost, SetCurrent, Load, Test, Nowhere,
        Return, DelAlone, DelRead, DelFind, DelCut
  <2>5. ~Timer(c)
    BY <1>2, <2>1 DEF Timer, Goto, TypeOK
  <2> QED
    BY <1>2, <2>1, <2>4, <2>5 DEF Call, TypeOK
<1>3. ListInv /\ LifeInv /\ [Next]_vars =>
         [\A x \in Ctx :
             /\ etat'[x] # etat[x] =>
                 \/ etat[x] = "none" /\ etat'[x] = "ready"
                 \/ etat[x] = "ready" /\ etat'[x] = "activated" /\ exec'[home[x]] = x
                 \/ etat[x] = "activated" /\ etat'[x] = "terminated" /\ pc'[home[x]] = "del"
             /\ \A c \in Core : pc[c] = "call" /\ pc'[c] = "run" /\ exec'[c] = x =>
                   etat[x] = "ready" /\ etat'[x] = "activated"]_vars
  BY <1>1, <1>2
<1> QED
  BY <1>3, LifeAlways, PTL DEF Spec, Lifecycle

-----------------------------------------------------------------------------
(* As long as the writers of a list do not meet, no link that was never set  *)
(* is followed, and the walk of yield() misses no context.  The invariant    *)
(* for the first of these, one link at a time.                               *)

\* The first context of a list is there before it has a successor.
CurOK(d) ==
    cur[d] # Null /\ nxt[cur[d]] = Junk =>
        \E e \in Core : pc[e] = "self" /\ arg[e] = cur[d]

\* What a core is about to follow is set, and what it runs is its current context, or
\* is over and about to be left.
CoreOK(c) ==
    /\ exec[c] # Boot => \/ cur[c] = exec[c]
                         \/ pc[c] \in Switching /\ etat[exec[c]] = "terminated"
    /\ pc[c] = "boot" => exec[c] = Boot
    /\ pc[c] = "publish" => cur[home[arg[c]]] = Null
    /\ pc[c] = "insert" => nxt[arg[c]] # Junk
    /\ pc[c] = "walk" => /\ cur[c] # Null /\ w[c] # Junk
                         /\ nxt[w[c]] # Junk \/ w[c] = cur[c]
                         /\ w[c] = cur[c] \/ etat[cur[c]] = "terminated"
    /\ pc[c] = "load" => exec[c] # Boot /\ etat[exec[c]] = "terminated"
    /\ pc[c] \in {"load", "test"} => etat[cur[c]] # "terminated"
    /\ pc[c] \in {"del", "find"} => arg[c] = cur[c] /\ etat[cur[c]] = "terminated"
    /\ pc[c] = "find" => /\ w[c] # Junk /\ nxt[w[c]] # Junk
                         /\ suiv[c] # Junk /\ nxt[suiv[c]] # Junk
    /\ CurOK(c)

\* A core that is switched on has added its idle context before it yields, unless the
\* alarm comes first: then that context is never made.
First(e, d) == pc[e] \in {"publish", "self"} /\ home[arg[e]] = d
NoIdle(c) == etat[Idle(c)] = "none"
Coming(c) == NoIdle(c) \/ (exec[c] = Boot /\ pc[c] = "add")

StartOK(c) ==
    c # 0 =>
        /\ Busy(c) /\ exec[c] = Boot => home[arg[c]] = c
        /\ pc[c] \notin {"boot", "add", "publish"} =>
              cur[c] # Null \/ (pc[c] = "yield" /\ NoIdle(c))
        /\ \A e \in Core \ {c} : First(e, c) => Coming(c)

\* Core 0 has none: main yields on what the shell has sent there.
MainOK ==
    /\ etat[Shell] # "none" => home[Shell] = 1
    /\ \A e \in Core \ {0} :
          pc[e] = "self" /\ home[arg[e]] = 0 => exec[0] = Boot \/ pc[0] = "run"

\* What was called is what its core runs, or is over.
OnlyOK(x) ==
    /\ etat[x] = "activated" => exec[home[x]] = x
    /\ etat[x] = "terminated" => exec[home[x]] # Boot

LinkOK(x) == nxt[x] \in Ctx => nxt[nxt[x]] # Junk

CrashOK ==
    crashed => \E c \in Core :
        \/ /\ pc[c] = "yield"
           /\ cur[c] = Null \/ Pending(cur[c])
           /\ IF c = 0 THEN exec[c] = Boot ELSE NoIdle(c)
        \/ pc[c] = "load" /\ etat[exec[c]] = "terminated"

RingParts ==
    /\ ~Overlap
    /\ \A c \in Core : CoreOK(c) /\ StartOK(c)
    /\ \A x \in Ctx : LinkOK(x) /\ OnlyOK(x)
    /\ MainOK
    /\ CrashOK

RingInv == ~raced => RingParts

-----------------------------------------------------------------------------
(* What a step finds.                                                       *)

LEMMA RingInit == Init => RingInv
BY Numbers DEF Init, RingInv, RingParts, Overlap, Adding, CoreOK, CurOK, StartOK, Busy, First,
   Coming, MainOK, LinkOK, OnlyOK, CrashOK, Boot

\* Two writers that do not meet.
LEMMA Apart ==
    ASSUME ~Overlap, NEW c \in Core, Adding(c)
    PROVE  /\ \A e \in Core \ {c} : Adding(e) => home[arg[e]] # home[arg[c]]
           /\ home[arg[c]] # c /\ cur[home[arg[c]]] # Null =>
                 etat[cur[home[arg[c]]]] # "terminated"
BY DEF Overlap

\* Nobody is in the middle of an addition to the list of a core whose current
\* context is over, but that core.
LEMMA SetWhenOver ==
    ASSUME ListInv, RingParts, NEW c \in Core, ~Adding(c),
           cur[c] # Null, etat[cur[c]] = "terminated"
    PROVE  nxt[cur[c]] # Junk
<1> SUFFICES ASSUME nxt[cur[c]] = Junk PROVE FALSE
  OBVIOUS
<1>1. PICK e \in Core : pc[e] = "self" /\ arg[e] = cur[c]
  BY DEF RingParts, CoreOK, CurOK
<1>2. home[arg[e]] = c /\ Adding(e)
  BY <1>1, Facts DEF Adding
<1> QED
  BY <1>1, <1>2, Apart DEF RingParts

-----------------------------------------------------------------------------
(* What a step of one core leaves to the others.                            *)

LEMMA CurKept ==
    ASSUME ListInv, RingParts, UNCHANGED cur,
           \A x \in Ctx : nxt[x] # Junk => nxt'[x] # Junk,
           \A e \in Core : pc[e] = "self" =>
               (pc'[e] = "self" /\ arg'[e] = arg[e]) \/ nxt'[arg[e]] # Junk
    PROVE  \A d \in Core : CurOK(d)'
<1> SUFFICES ASSUME NEW d \in Core, cur[d] # Null, nxt'[cur[d]] = Junk
             PROVE  \E e \in Core : pc'[e] = "self" /\ arg'[e] = cur[d]
  BY DEF CurOK
<1>1. nxt[cur[d]] = Junk
  BY Facts
<1> QED
  BY <1>1 DEF RingParts, CoreOK, CurOK

\* Whatever core c does with what is its own.
Quiet(c) ==
    \A e \in Core \ {c} :
        /\ pc'[e] = pc[e] /\ arg'[e] = arg[e] /\ w'[e] = w[e] /\ suiv'[e] = suiv[e]
        /\ exec'[e] = exec[e]
        /\ Busy(e) => home'[arg[e]] = home[arg[e]]

LEMMA OthersOK ==
    ASSUME ListInv, RingParts, NEW c \in Core, Quiet(c), NEW e \in Core \ {c},
           cur'[e] = cur[e], CurOK(e)',
           \A x \in Ctx : nxt[x] # Junk => nxt'[x] # Junk,
           pc[e] = "publish" => cur'[home[arg[e]]] = Null,
           \A x \in Ctx : etat[x] # "none" /\ home[x] = e => etat'[x] = etat[x]
    PROVE  CoreOK(e)'
<1>1. CoreOK(e)
  BY DEF RingParts
<1>2. /\ exec[e] # Boot => etat'[exec[e]] = etat[exec[e]]
      /\ cur[e] # Null => etat'[cur[e]] = etat[cur[e]]
  BY Facts
<1>3. /\ pc[e] \in {"walk", "load", "test", "del", "find"} => cur[e] # Null
      /\ pc[e] = "insert" => arg[e] \in Ctx
      /\ pc[e] \in {"walk", "find"} /\ w[e] # Junk => w[e] \in Ctx
      /\ pc[e] = "find" /\ suiv[e] # Junk => suiv[e] \in Ctx
  BY <1>1, Facts DEF CoreOK, Busy
<1> QED
  BY <1>1, <1>2, <1>3 DEF Quiet, CoreOK, Busy

LEMMA OthersStarted ==
    ASSUME ListInv, RingParts, NEW c \in Core, Quiet(c), NEW e \in Core \ {c},
           cur[e] # Null => cur'[e] # Null,
           e # 0 /\ First(c, e)' => First(c, e) \/ Coming(e),
           e # 0 /\ NoIdle(e) => NoIdle(e)'
    PROVE  StartOK(e)'
<1> SUFFICES ASSUME e # 0 PROVE StartOK(e)'
  BY DEF StartOK
<1>1. StartOK(e) /\ (Coming(e) => Coming(e)')
  BY DEF RingParts, Coming, Quiet
<1>2. ASSUME NEW f \in Core \ {e}, First(f, e)' PROVE Coming(e)'
  BY <1>1, <1>2 DEF Quiet, StartOK, First, Busy
<1> QED
  BY <1>1, <1>2 DEF Quiet, StartOK, Busy

\* A core that was not adding, and is not.
LEMMA OneStarted ==
    ASSUME ListInv, RingParts, NEW c \in Core, Quiet(c), ~Busy(c), ~Busy(c)',
           c # 0 => \/ cur'[c] # Null
                    \/ pc'[c] = "yield" /\ NoIdle(c),
           etat'[Idle(c)] = etat[Idle(c)]
    PROVE  StartOK(c)'
BY DEF Quiet, RingParts, StartOK, First, Coming, NoIdle, Busy

-----------------------------------------------------------------------------
(* The steps that write no list.                                            *)

LEMMA QuietMoves ==
    ASSUME ListInv, ListInv', RingParts, ~Overlap', NEW c \in Core, Quiet(c),
           UNCHANGED lists, exec'[c] = exec[c], ~Adding(c),
           CurOK(c)' => CoreOK(c)', StartOK(c)', MainOK', CrashOK',
           \A e \in Core \ {c, 0} : First(c, e)' => Coming(e)
    PROVE  RingParts'
<1>1. \A d \in Core : CurOK(d)'
  <2>1. \A e \in Core : pc[e] = "self" => pc'[e] = "self" /\ arg'[e] = arg[e]
    BY DEF Quiet, Adding
  <2> QED
    BY <2>1, CurKept DEF lists
<1>2. \A e \in Core \ {c} : CoreOK(e)'
  <2> SUFFICES ASSUME NEW e \in Core \ {c} PROVE CoreOK(e)'
    OBVIOUS
  <2>1. CoreOK(e)
    BY DEF RingParts
  <2> QED
    BY <1>1, <2>1, OthersOK DEF lists, CoreOK
<1>3. \A e \in Core \ {c} : StartOK(e)'
  BY OthersStarted DEF lists, NoIdle
<1>4. \A x \in Ctx : LinkOK(x)' /\ OnlyOK(x)'
  <2>1. \A x \in Ctx : exec'[home[x]] = exec[home[x]]
    BY DEF Quiet, ListInv, TypeOK
  <2> QED
    BY <2>1 DEF lists, RingParts, LinkOK, OnlyOK
<1> QED
  BY <1>1, <1>2, <1>3, <1>4 DEF RingParts

\* Core c moves, and nothing of the others changes.
LEMMA MovesQuietly ==
    ASSUME ListInv, RingParts, NEW c \in Core,
           \/ AddTest(c) \/ Yield(c) \/ Skip(c) \/ Lost(c) \/ Timer(c)
           \/ Load(c) \/ Test(c) \/ Nowhere(c)
           \/ DelAlone(c) \/ DelRead(c) \/ DelFind(c)
    PROVE  /\ Quiet(c) /\ UNCHANGED lists /\ exec'[c] = exec[c] /\ ~Adding(c)
           /\ ~Yield(c) /\ ~Lost(c) /\ ~Load(c) /\ ~Nowhere(c) => crashed' = crashed
           /\ (pc[0] = "run" => pc'[0] = "run") /\ pc'[c] # "self" => MainOK'
<1>1. TypeOK
  BY DEF ListInv
<1>2. Quiet(c) /\ UNCHANGED lists /\ exec'[c] = exec[c] /\ ~Adding(c)
  BY <1>1 DEF AddTest, Yield, Skip, Lost, Timer, Load, Test, Nowhere, DelAlone, DelRead, DelFind,
     Goto, Quiet, TypeOK, lists, here, Adding
<1>3. ~Yield(c) /\ ~Lost(c) /\ ~Load(c) /\ ~Nowhere(c) => crashed' = crashed
  BY DEF AddTest, Skip, Timer, Test, DelAlone, DelRead, DelFind
<1>4. (pc[0] = "run" => pc'[0] = "run") /\ pc'[c] # "self" => MainOK'
  BY <1>2, Numbers DEF RingParts, MainOK, Quiet, lists
<1> QED
  BY <1>2, <1>3, <1>4

LEMMA AddTestKeeps ==
    ASSUME ListInv, ListInv', RingParts, ~Overlap', ~crashed, NEW c \in Core, AddTest(c)
    PROVE  RingParts'
<1>1. /\ Quiet(c) /\ UNCHANGED lists /\ exec'[c] = exec[c] /\ ~Adding(c) /\ ~crashed'
      /\ pc[c] = "add" /\ arg' = arg
      /\ pc'[c] = IF cur[home[arg[c]]] = Null THEN "publish" ELSE "link"
  BY MovesQuietly DEF AddTest, Goto, ListInv, TypeOK
<1>2. MainOK'
  BY <1>1, Numbers, MovesQuietly DEF Quiet
<1>3. CurOK(c)' => CoreOK(c)'
  BY <1>1 DEF lists, RingParts, CoreOK, Switching
<1>4. Adding(c)' /\ \A e \in Core \ {c} : Adding(e)' => home[arg[e]] # home[arg[c]]
  BY <1>1, Apart DEF lists, Overlap, Adding
<1>5. StartOK(c)'
  <2> SUFFICES ASSUME c # 0 PROVE StartOK(c)'
    BY DEF StartOK
  <2>1. StartOK(c) /\ Busy(c)
    BY <1>1 DEF RingParts, Busy
  <2>2. exec[c] = Boot => home[arg[c]] = c
    BY <2>1 DEF StartOK
  <2>3. pc'[c] \notin {"boot", "add", "publish"} => cur'[c] # Null
    BY <1>1, <2>2, Facts DEF lists
  <2>4. ASSUME NEW e \in Core \ {c}, First(e, c)' PROVE NoIdle(c)'
    <3>1. First(e, c) /\ Adding(e)'
      BY <1>1, <2>4 DEF First, Adding, Quiet, lists
    <3>2. exec[c] # Boot
      BY <1>1, <1>4, <2>2, <3>1 DEF First
    <3> QED
      BY <1>1, <2>1, <3>1, <3>2 DEF StartOK, Coming, NoIdle, lists
  <2> QED
    BY <1>1, <2>2, <2>3, <2>4 DEF StartOK, Coming, lists
<1>6. ASSUME NEW e \in Core \ {c, 0}, First(c, e)' PROVE Coming(e)
  <2>1. home[arg[c]] = e /\ cur[e] = Null
    BY <1>1, <1>6 DEF First, lists
  <2>2. exec[e] = Boot /\ (pc[e] \in {"boot", "add", "publish"} \/ NoIdle(e))
    BY <2>1, Facts DEF RingParts, StartOK
  <2>3. pc[e] = "boot" => NoIdle(e)
    BY DEF ListInv, Fresh, NoIdle
  <2>4. pc[e] # "publish"
    BY <1>1, <1>4, <2>1, <2>2 DEF RingParts, StartOK, Busy, Adding, Quiet
  <2> QED
    BY <2>2, <2>3, <2>4 DEF Coming
<1> QED
  BY <1>1, <1>2, <1>3, <1>5, <1>6, QuietMoves DEF CrashOK

LEMMA YieldKeepsRing ==
    ASSUME ListInv, ListInv', RingParts, ~Overlap', ~crashed, NEW c \in Core, Yield(c)
    PROVE  RingParts'
<1>1. /\ Quiet(c) /\ UNCHANGED lists /\ exec'[c] = exec[c] /\ ~Adding(c)
      /\ pc[c] = "yield" /\ arg' = arg /\ suiv' = suiv
      /\ \/ /\ cur[c] # Null /\ pc'[c] = "walk" /\ w'[c] = cur[c] /\ ~crashed'
         \/ /\ cur[c] = Null \/ (cur[c] # Null /\ nxt[cur[c]] = Junk)
            /\ crashed' /\ pc' = pc /\ w' = w
  BY MovesQuietly DEF Yield, Goto, ListInv, TypeOK, here
<1>2. MainOK'
  BY <1>1, Numbers, MovesQuietly DEF Quiet
<1>3. CurOK(c)' => CoreOK(c)'
  <2>1. cur[c] # Null => cur[c] # Junk
    BY Facts, Numbers
  <2> QED
    BY <1>1, <2>1 DEF lists, RingParts, CoreOK, Switching
<1>4. StartOK(c)'
  BY <1>1, OneStarted DEF Busy, lists, RingParts, StartOK
<1>5. CrashOK'
  <2> SUFFICES ASSUME pc' = pc,
                      cur[c] = Null \/ (cur[c] # Null /\ nxt[cur[c]] = Junk)
               PROVE  /\ cur[c] = Null \/ Pending(cur[c])
                      /\ IF c = 0 THEN exec[c] = Boot ELSE NoIdle(c)
    BY <1>1 DEF CrashOK, Pending, Adding, lists, NoIdle
  <2>1. CASE cur[c] = Null
    BY <1>1, <2>1, Facts DEF RingParts, StartOK
  <2>2. CASE cur[c] # Null /\ nxt[cur[c]] = Junk
    <3>1. PICK e \in Core : pc[e] = "self" /\ arg[e] = cur[c]
      BY <2>2 DEF RingParts, CoreOK, CurOK
    <3>2. First(e, c) /\ e # c /\ home[arg[e]] = c
      BY <1>1, <2>2, <3>1, Facts DEF First
    <3>3. c # 0 => NoIdle(c)
      BY <1>1, <3>2 DEF RingParts, StartOK, Coming
    <3>4. c = 0 => exec[0] = Boot
      BY <1>1, <3>1, <3>2 DEF RingParts, MainOK
    <3> QED
      BY <3>1, <3>3, <3>4 DEF Pending, Adding
  <2> QED
    BY <2>1, <2>2
<1>6. \A e \in Core \ {c, 0} : ~First(c, e)'
  BY <1>1 DEF First
<1> QED
  BY <1>1, <1>2, <1>3, <1>4, <1>5, <1>6, QuietMoves

LEMMA WalkKeeps ==
    ASSUME ListInv, ListInv', RingParts, ~Overlap', ~crashed, NEW c \in Core,
           Skip(c) \/ Lost(c) \/ Timer(c)
    PROVE  RingParts'
<1>1. ~Lost(c)
  BY DEF RingParts, CoreOK, Lost
<1>2. /\ Quiet(c) /\ UNCHANGED lists /\ exec'[c] = exec[c] /\ ~Adding(c) /\ ~crashed'
      /\ arg' = arg /\ suiv' = suiv
      /\ \/ /\ pc[c] = "walk" /\ pc'[c] = "walk" /\ w'[c] = nxt[w[c]]
            /\ w[c] # Junk /\ etat[w[c]] = "terminated"
         \/ /\ pc[c] \in {"boot", "run", "walk", "load", "test", "call"}
            /\ pc'[c] = "yield" /\ w'[c] = w[c] /\ c # 0
  BY <1>1, MovesQuietly DEF Skip, Timer, Goto, ListInv, TypeOK
<1>3. MainOK'
  BY <1>1, <1>2, Numbers, MovesQuietly DEF Quiet
<1>4. CurOK(c)' => CoreOK(c)'
  <2>1. CASE pc'[c] = "walk"
    <3>1. CoreOK(c) /\ w[c] \in Ctx
      BY <1>2, <2>1, Facts DEF RingParts
    <3>2. nxt[w[c]] # Junk
      BY <1>2, <2>1, <3>1, SetWhenOver DEF CoreOK
    <3>3. nxt[nxt[w[c]]] # Junk
      BY <3>1, <3>2, Facts DEF RingParts, LinkOK
    <3> QED
      BY <1>2, <2>1, <3>1, <3>2, <3>3 DEF CoreOK, lists, Switching
  <2>2. CASE pc'[c] = "yield"
    BY <1>2, <2>2 DEF RingParts, CoreOK, lists, Switching
  <2> QED
    BY <1>2, <2>1, <2>2
<1>5. StartOK(c)'
  <2>1. pc[c] # "boot" => cur[c] # Null
    BY <1>2, Facts DEF RingParts, CoreOK
  <2>2. pc[c] = "boot" => pc'[c] = "yield" /\ NoIdle(c)
    BY <1>2 DEF ListInv, Fresh, NoIdle
  <2> QED
    BY <1>2, <2>1, <2>2, OneStarted DEF Busy, lists
<1>6. \A e \in Core \ {c, 0} : ~First(c, e)'
  BY <1>2 DEF First
<1> QED
  BY <1>2, <1>3, <1>4, <1>5, <1>6, QuietMoves DEF CrashOK

\* The last steps before the call: what is current was not called yet, or is what the
\* core runs.
LEMMA LastStepsKeep ==
    ASSUME ListInv, ListInv', RingParts, ~Overlap', ~crashed, NEW c \in Core,
           Load(c) \/ Test(c) \/ Nowhere(c)
    PROVE  RingParts'
<1>1. /\ CoreOK(c) /\ pc[c] \in {"load", "test"} /\ cur[c] # Null /\ cur[c] \in Ctx
      /\ home[cur[c]] = c /\ etat[cur[c]] \in {"ready", "activated"}
  <2>1. /\ CoreOK(c) /\ pc[c] \in {"load", "test"} /\ cur[c] # Null /\ cur[c] \in Ctx
        /\ home[cur[c]] = c /\ etat[cur[c]] # "none" /\ etat[cur[c]] # "terminated"
    BY Facts DEF RingParts, CoreOK, Load, Test, Nowhere
  <2> QED
    BY <2>1 DEF ListInv, TypeOK
<1>2. ~Nowhere(c)
  BY <1>1 DEF RingParts, OnlyOK, Nowhere
<1>3. /\ Quiet(c) /\ UNCHANGED lists /\ exec'[c] = exec[c] /\ ~Adding(c)
      /\ arg' = arg /\ suiv' = suiv /\ w' = w
      /\ \/ pc[c] = "load" /\ pc'[c] = "test" /\ ~crashed'
         \/ pc[c] = "load" /\ pc'[c] = "load"
         \/ pc[c] = "test" /\ pc'[c] = "call" /\ ~crashed'
         \/ pc[c] = "test" /\ pc'[c] = "run" /\ exec[c] = cur[c] /\ ~crashed'
  BY <1>2, MovesQuietly DEF Load, Test, Goto, ListInv, TypeOK
<1>4. MainOK'
  BY <1>3, Numbers, MovesQuietly DEF Quiet
<1>5. CurOK(c)' => CoreOK(c)'
  BY <1>1, <1>3 DEF CoreOK, lists, Switching
<1>6. StartOK(c)'
  BY <1>1, <1>3, OneStarted DEF Busy, lists
<1>7. CrashOK'
  BY <1>1, <1>3 DEF CrashOK, CoreOK, lists
<1>8. \A e \in Core \ {c, 0} : ~First(c, e)'
  BY <1>3 DEF First
<1> QED
  BY <1>3, <1>4, <1>5, <1>6, <1>7, <1>8, QuietMoves

LEMMA DelKeeps ==
    ASSUME ListInv, ListInv', RingParts, ~Overlap', ~crashed, NEW c \in Core,
           DelAlone(c) \/ DelRead(c) \/ DelFind(c)
    PROVE  RingParts'
<1>1. /\ Quiet(c) /\ UNCHANGED lists /\ exec'[c] = exec[c] /\ ~Adding(c) /\ ~crashed'
      /\ arg' = arg
      /\ \/ pc[c] = "del" /\ pc'[c] = "yield"
         \/ /\ pc[c] = "del" /\ pc'[c] = "find"
            /\ w'[c] = arg[c] /\ suiv'[c] = nxt[arg[c]]
         \/ /\ pc[c] = "find" /\ pc'[c] = "find" /\ w[c] # Junk
            /\ w'[c] = nxt[w[c]] /\ suiv' = suiv
  <2>1. CASE DelAlone(c)
    BY <2>1, MovesQuietly, ZenonT(40) DEF DelAlone, Goto, ListInv, TypeOK, Yield, Lost
  <2>2. CASE DelRead(c)
    BY <2>2, MovesQuietly, ZenonT(40) DEF DelRead, Goto, ListInv, TypeOK, Yield, Lost
  <2>3. CASE DelFind(c)
    BY <2>3, MovesQuietly, ZenonT(40) DEF DelFind, Goto, ListInv, TypeOK, Yield, Lost
  <2> QED
    BY <2>1, <2>2, <2>3
<1>2. MainOK'
  BY <1>1, Numbers, MovesQuietly DEF Quiet
<1>3. /\ CoreOK(c) /\ cur[c] \in Ctx /\ arg[c] = cur[c] /\ cur[c] # Junk
      /\ etat[cur[c]] = "terminated" /\ nxt[cur[c]] # Junk /\ nxt[cur[c]] \in Ctx
  BY <1>1, Facts, Numbers, SetWhenOver DEF RingParts, CoreOK
<1>4. CurOK(c)' => CoreOK(c)'
  <2>1. CASE pc[c] = "del"
    <3>1. nxt[nxt[cur[c]]] # Junk
      BY <1>3 DEF RingParts, LinkOK
    <3> QED
      BY <1>1, <1>3, <2>1, <3>1 DEF CoreOK, lists, Switching
  <2>2. CASE pc[c] = "find"
    <3>1. w[c] \in Ctx /\ nxt[w[c]] # Junk /\ nxt[w[c]] \in Ctx
      BY <1>3, <2>2, Facts DEF CoreOK
    <3>2. nxt[nxt[w[c]]] # Junk
      BY <3>1 DEF RingParts, LinkOK
    <3> QED
      BY <1>1, <1>3, <2>2, <3>1, <3>2 DEF CoreOK, lists, Switching
  <2> QED
    BY <1>1, <2>1, <2>2
<1>5. StartOK(c)'
  BY <1>1, <1>3, Numbers, OneStarted DEF Busy, lists
<1>6. \A e \in Core \ {c, 0} : ~First(c, e)'
  BY <1>1 DEF First
<1> QED
  BY <1>1, <1>2, <1>4, <1>5, <1>6, QuietMoves DEF CrashOK

-----------------------------------------------------------------------------
(* The steps that write a link.                                             *)

LEMMA LinkWritten ==
    ASSUME ListInv, ListInv', RingParts, ~Overlap', NEW c \in Core, Quiet(c),
           UNCHANGED <<cur, etat, home, exec>>,
           NEW x \in Ctx, NEW y \in Ctx, nxt' = [nxt EXCEPT ![x] = y], nxt[y] # Junk \/ y = x,
           pc[c] = "self" => x = arg[c],
           pc'[c] \notin {"publish", "self"},
           CurOK(c)' => CoreOK(c)', StartOK(c)', MainOK', CrashOK'
    PROVE  RingParts'
<1>1. /\ \A z \in Ctx : nxt'[z] = IF z = x THEN y ELSE nxt[z]
      /\ x # Junk /\ y # Junk
  BY Numbers DEF ListInv, TypeOK
<1>2. \A z \in Ctx : nxt[z] # Junk => nxt'[z] # Junk
  BY <1>1
<1>3. \A d \in Core : CurOK(d)'
  <2>1. \A e \in Core :
          pc[e] = "self" => (pc'[e] = "self" /\ arg'[e] = arg[e]) \/ nxt'[arg[e]] # Junk
    BY <1>1 DEF Quiet
  <2> QED
    BY <1>2, <2>1, CurKept
<1>4. \A e \in Core \ {c} : CoreOK(e)'
  <2> SUFFICES ASSUME NEW e \in Core \ {c} PROVE CoreOK(e)'
    OBVIOUS
  <2>1. CoreOK(e)
    BY DEF RingParts
  <2> QED
    BY <1>2, <1>3, <2>1, OthersOK DEF CoreOK
<1>5. \A e \in Core \ {c} : StartOK(e)'
  BY OthersStarted DEF First, NoIdle
<1>6. \A z \in Ctx : LinkOK(z)' /\ OnlyOK(z)'
  BY <1>1, <1>2 DEF RingParts, LinkOK, OnlyOK
<1> QED
  BY <1>3, <1>4, <1>5, <1>6 DEF RingParts

LEMMA AddWrites ==
    ASSUME ListInv, ListInv', RingParts, ~Overlap', ~crashed, NEW c \in Core,
           AddSelf(c) \/ AddLink(c) \/ AddInsert(c)
    PROVE  RingParts'
<1> DEFINE x == arg[c]
           d == home[x]
<1>1. /\ Quiet(c) /\ UNCHANGED <<cur, etat, home>> /\ exec' = exec /\ ~crashed' /\ arg' = arg
      /\ pc[c] \in {"self", "link", "insert"}
      /\ pc[c] = "link" => pc'[c] = "insert"
      /\ pc[c] # "link" => pc'[c] \in {"yield", "run"}
  BY DEF AddSelf, AddLink, AddInsert, Added, Goto, Quiet, ListInv, TypeOK
<1>2. /\ Busy(c) /\ Adding(c) /\ x \in Ctx /\ d \in Core /\ CoreOK(c) /\ StartOK(c)
      /\ x # Junk /\ x # Null
  BY <1>1, Facts, Numbers DEF Busy, Adding, RingParts
\* The list it is added to has a successor to give.
<1>3. pc[c] \in {"link", "insert"} =>
         /\ cur[d] \in Ctx /\ nxt[cur[d]] # Junk
         /\ nxt[cur[d]] \in Ctx /\ nxt[nxt[cur[d]]] # Junk
  <2> SUFFICES ASSUME pc[c] \in {"link", "insert"}
               PROVE  /\ cur[d] \in Ctx /\ nxt[cur[d]] # Junk
                      /\ nxt[cur[d]] \in Ctx /\ nxt[nxt[cur[d]]] # Junk
    OBVIOUS
  <2>1. cur[d] # Null /\ cur[d] \in Ctx /\ home[cur[d]] = d
    BY <1>2, Facts
  <2>2. nxt[cur[d]] # Junk
    <3> SUFFICES ASSUME nxt[cur[d]] = Junk PROVE FALSE
      OBVIOUS
    <3>1. PICK e \in Core : pc[e] = "self" /\ arg[e] = cur[d]
      BY <1>2, <2>1 DEF RingParts, CoreOK, CurOK
    <3> QED
      BY <1>2, <2>1, <3>1, Apart DEF RingParts, Adding
  <2> QED
    BY <2>1, <2>2, Facts DEF RingParts, LinkOK
<1>4. MainOK' /\ CrashOK'
  <2>1. \A e \in Core \ {0} : pc[e] = "self" /\ home[arg[e]] = 0 => exec[0] = Boot \/ c # 0
    BY <1>1 DEF RingParts, MainOK
  <2>2. \A e \in Core : pc'[e] = "self" => pc[e] = "self"
    BY <1>1 DEF Quiet
  <2> QED
    BY <1>1, <2>1, <2>2, Numbers DEF RingParts, MainOK, CrashOK, Quiet
<1>5. StartOK(c)'
  BY <1>1, <1>2 DEF StartOK, First, Coming, NoIdle, Busy, Quiet
<1>6. CASE AddSelf(c)
  <2>1. CurOK(c)' => CoreOK(c)'
    BY <1>1, <1>2, <1>6 DEF AddSelf, CoreOK, Switching
  <2> QED
    BY <1>1, <1>2, <1>4, <1>5, <1>6, <2>1, LinkWritten DEF AddSelf
<1>7. CASE AddLink(c)
  <2>1. nxt' = [nxt EXCEPT ![x] = nxt[cur[d]]] /\ pc[c] = "link"
    BY <1>7 DEF AddLink
  <2>2. CurOK(c)' => CoreOK(c)'
    BY <1>1, <1>2, <1>3, <2>1, Numbers DEF CoreOK, Switching, ListInv, TypeOK
  <2> QED
    BY <1>1, <1>2, <1>3, <1>4, <1>5, <2>1, <2>2, LinkWritten
<1>8. CASE AddInsert(c)
  <2>1. nxt' = [nxt EXCEPT ![cur[d]] = x] /\ pc[c] = "insert"
    BY <1>8 DEF AddInsert
  <2>2. CurOK(c)' => CoreOK(c)'
    BY <1>1, <1>2, <2>1 DEF CoreOK, Switching
  <2> QED
    BY <1>1, <1>2, <1>3, <1>4, <1>5, <2>1, <2>2, LinkWritten DEF CoreOK
<1> QED
  BY <1>6, <1>7, <1>8

LEMMA CutKeeps ==
    ASSUME ListInv, ListInv', RingParts, ~Overlap', ~crashed, NEW c \in Core, DelCut(c)
    PROVE  RingParts'
<1>1. /\ Quiet(c) /\ UNCHANGED <<cur, etat, home>> /\ exec' = exec /\ ~crashed' /\ arg' = arg
      /\ pc[c] = "find" /\ pc'[c] = "yield" /\ nxt' = [nxt EXCEPT ![w[c]] = suiv[c]]
  BY DEF DelCut, Goto, Quiet, ListInv, TypeOK
<1>2. /\ CoreOK(c) /\ w[c] \in Ctx /\ suiv[c] \in Ctx /\ nxt[suiv[c]] # Junk
  BY <1>1, Facts DEF RingParts, CoreOK
<1>3. MainOK' /\ CrashOK'
  <2>1. \A e \in Core \ {0} : pc[e] = "self" /\ home[arg[e]] = 0 => exec[0] = Boot \/ c # 0
    BY <1>1 DEF RingParts, MainOK
  <2>2. \A e \in Core : pc'[e] = "self" => pc[e] = "self"
    BY <1>1 DEF Quiet
  <2> QED
    BY <1>1, <2>1, <2>2, Numbers DEF RingParts, MainOK, CrashOK, Quiet
<1>4. StartOK(c)'
  BY <1>1, Facts, OneStarted DEF Busy
<1>5. CurOK(c)' => CoreOK(c)'
  BY <1>1, <1>2 DEF CoreOK, Switching
<1> QED
  BY <1>1, <1>2, <1>3, <1>4, <1>5, LinkWritten

-----------------------------------------------------------------------------
(* The steps that change the current context, a state, or create.           *)

LEMMA PublishKeeps ==
    ASSUME ListInv, ListInv', RingParts, ~Overlap', ~crashed, NEW c \in Core, AddPublish(c)
    PROVE  RingParts'
<1> DEFINE x == arg[c]
           d == home[x]
<1>1. /\ Quiet(c) /\ UNCHANGED <<nxt, etat, home>> /\ exec' = exec /\ ~crashed' /\ arg' = arg
      /\ pc[c] = "publish" /\ pc'[c] = "self"
  BY DEF AddPublish, Goto, Quiet, ListInv, TypeOK
<1>2. /\ Busy(c) /\ Adding(c) /\ x \in Ctx /\ d \in Core /\ x # Null /\ x # Junk
      /\ cur[d] = Null /\ exec[d] = Boot
  BY <1>1, Facts, Numbers DEF Busy, Adding, RingParts, CoreOK
<1>3. /\ \A e \in Core : cur'[e] = IF e = d THEN x ELSE cur[e]
      /\ pc[d] \notin {"run", "walk", "load", "test", "del", "find"}
  BY <1>1, <1>2, Facts DEF AddPublish, ListInv, TypeOK, RingParts, CoreOK
<1>4. \A e \in Core : CurOK(e)'
  <2> SUFFICES ASSUME NEW e \in Core, cur'[e] # Null, nxt[cur'[e]] = Junk
               PROVE  \E f \in Core : pc'[f] = "self" /\ arg[f] = cur'[e]
    BY <1>1 DEF CurOK
  <2>1. CASE e = d
    BY <1>1, <1>3, <2>1
  <2>2. CASE e # d
    <3>1. PICK f \in Core : pc[f] = "self" /\ arg[f] = cur[e]
      BY <1>3, <2>2 DEF RingParts, CoreOK, CurOK
    <3> QED
      BY <1>1, <1>3, <2>2, <3>1 DEF Quiet
  <2> QED
    BY <2>1, <2>2
<1>5. \A e \in Core : CoreOK(e)'
  <2> SUFFICES ASSUME NEW e \in Core PROVE CoreOK(e)'
    OBVIOUS
  <2>1. CoreOK(e) /\ CurOK(e)'
    BY <1>4 DEF RingParts
  <2>2. CASE e = c
    BY <1>1, <1>2, <1>3, <2>1, <2>2 DEF CoreOK, Switching
  <2>3. CASE e # c
    <3>1. pc[e] = "publish" => home[arg[e]] # d /\ home[arg[e]] \in Core
      BY <1>2, <2>3, Apart, Facts DEF RingParts, Adding, Busy
    <3> QED
      BY <1>1, <1>2, <1>3, <2>1, <2>3, <3>1 DEF CoreOK, Quiet
  <2> QED
    BY <2>2, <2>3
<1>6. \A e \in Core : StartOK(e)'
  <2> SUFFICES ASSUME NEW e \in Core PROVE StartOK(e)'
    OBVIOUS
  <2>1. CASE e = c
    <3>1. exec[c] # Boot => cur[c] # Null
      BY Facts
    <3> QED
      BY <1>1, <1>2, <1>3, <2>1, <3>1
      DEF RingParts, StartOK, First, Coming, NoIdle, Busy, Quiet
  <2>2. CASE e # c
    BY <1>1, <1>2, <1>3, <2>2, OthersStarted DEF First, NoIdle
  <2> QED
    BY <2>1, <2>2
<1>7. MainOK'
  <2> SUFFICES ASSUME NEW e \in Core \ {0}, pc'[e] = "self", home[arg[e]] = 0
               PROVE  exec[0] = Boot \/ pc'[0] = "run"
    BY <1>1 DEF RingParts, MainOK
  <2>1. CASE e = c
    BY <1>2, <2>1
  <2>2. CASE e # c
    BY <1>1, <2>2, Numbers DEF RingParts, MainOK, Quiet
  <2> QED
    BY <2>1, <2>2
<1> QED
  BY <1>1, <1>5, <1>6, <1>7 DEF RingParts, LinkOK, OnlyOK, CrashOK

LEMMA SetCurrentKeeps ==
    ASSUME ListInv, ListInv', RingParts, ~Overlap', ~crashed, NEW c \in Core, SetCurrent(c)
    PROVE  RingParts'
<1>1. /\ Quiet(c) /\ UNCHANGED <<nxt, etat, home>> /\ exec' = exec /\ ~crashed' /\ arg' = arg
      /\ pc[c] = "walk" /\ pc'[c] = IF w[c] = cur[c] THEN "test" ELSE "load"
      /\ etat[w[c]] # "terminated"
  BY DEF SetCurrent, Goto, Quiet, ListInv, TypeOK
<1>2. /\ CoreOK(c) /\ w[c] \in Ctx /\ home[w[c]] = c /\ w[c] # Null
      /\ cur[c] \in Ctx /\ home[cur[c]] = c
  BY <1>1, Facts, Numbers DEF RingParts, CoreOK
<1>3. \A e \in Core : cur'[e] = IF e = c THEN w[c] ELSE cur[e]
  BY <1>2 DEF SetCurrent, ListInv, TypeOK
<1>4. \A e \in Core : CurOK(e)'
  <2> SUFFICES ASSUME NEW e \in Core, cur'[e] # Null, nxt[cur'[e]] = Junk
               PROVE  \E f \in Core : pc'[f] = "self" /\ arg[f] = cur'[e]
    BY <1>1 DEF CurOK
  <2>1. cur'[e] = cur[e]
    BY <1>1, <1>2, <1>3 DEF CoreOK
  <2>2. PICK f \in Core : pc[f] = "self" /\ arg[f] = cur[e]
    BY <2>1 DEF RingParts, CoreOK, CurOK
  <2> QED
    BY <1>1, <2>1, <2>2 DEF Quiet
\* Where the current context changes, the one before is over, and it is what was run.
<1>5. w[c] # cur[c] => exec[c] # Boot /\ etat[exec[c]] = "terminated"
  <2>1. w[c] # cur[c] => etat[cur[c]] = "terminated" /\ exec[c] # Boot
    BY <1>1, <1>2 DEF CoreOK, RingParts, OnlyOK
  <2> QED
    BY <1>2, <2>1 DEF CoreOK
<1>6. CoreOK(c)'
  BY <1>1, <1>2, <1>3, <1>4, <1>5 DEF CoreOK, Switching
<1>7. \A e \in Core \ {c} : CoreOK(e)'
  <2> SUFFICES ASSUME NEW e \in Core \ {c} PROVE CoreOK(e)'
    OBVIOUS
  <2>1. CoreOK(e)
    BY DEF RingParts
  <2>2. pc[e] = "publish" => cur'[home[arg[e]]] = Null
    BY <1>1, <1>2, <1>3, <2>1, Facts DEF CoreOK, Busy
  <2> QED
    BY <1>1, <1>3, <1>4, <2>2, OthersOK
<1>8. StartOK(c)'
  BY <1>1, <1>2, <1>3, OneStarted DEF Busy
<1>9. \A e \in Core \ {c} : StartOK(e)'
  BY <1>1, <1>3, OthersStarted DEF First, NoIdle
<1>10. MainOK'
  BY <1>1, <1>2, <1>3, Numbers DEF RingParts, MainOK, Quiet
<1> QED
  BY <1>1, <1>6, <1>7, <1>8, <1>9, <1>10 DEF RingParts, LinkOK, OnlyOK, CrashOK

LEMMA CallKeeps ==
    ASSUME ListInv, ListInv', RingParts, ~Overlap', ~crashed, NEW c \in Core, Call(c)
    PROVE  RingParts'
<1>1. /\ Quiet(c) /\ UNCHANGED <<cur, nxt, home>> /\ ~crashed' /\ arg' = arg
      /\ pc[c] = "call" /\ pc'[c] = "run"
  BY DEF Call, Goto, Quiet, ListInv, TypeOK
<1>2. /\ CoreOK(c) /\ cur[c] \in Ctx /\ home[cur[c]] = c /\ cur[c] # Null
      /\ etat[cur[c]] # "none"
  BY <1>1, Facts DEF RingParts
<1>3. /\ exec'[c] = cur[c] /\ \A e \in Core \ {c} : exec'[e] = exec[e]
      /\ \A y \in Ctx : etat'[y] = IF y = cur[c] THEN "activated" ELSE etat[y]
  BY <1>2 DEF Call, ListInv, TypeOK
<1>4. \A e \in Core : CurOK(e)'
  BY <1>1, CurKept DEF Quiet
<1>5. CoreOK(c)'
  BY <1>1, <1>3, <1>4 DEF CoreOK
<1>6. \A e \in Core \ {c} : CoreOK(e)'
  <2> SUFFICES ASSUME NEW e \in Core \ {c} PROVE CoreOK(e)'
    OBVIOUS
  <2>1. CoreOK(e)
    BY DEF RingParts
  <2>2. pc[e] = "publish" => cur'[home[arg[e]]] = Null
    BY <1>1, <2>1 DEF CoreOK
  <2> QED
    BY <1>1, <1>2, <1>3, <1>4, <2>2, OthersOK
<1>7. c # 0 => (NoIdle(c)' <=> NoIdle(c))
  BY <1>2, <1>3, Numbers DEF NoIdle
<1>8. StartOK(c)'
  BY <1>1, <1>2, <1>7 DEF Quiet, RingParts, StartOK, First, Coming, Busy
<1>9. \A e \in Core \ {c} : StartOK(e)'
  <2>1. \A e \in Core \ {c, 0} : NoIdle(e) => NoIdle(e)'
    BY <1>2, <1>3, Numbers DEF NoIdle
  <2> QED
    BY <1>1, <2>1, OthersStarted DEF First
<1>10. MainOK'
  BY <1>1, <1>2, <1>3, Numbers DEF RingParts, MainOK, Quiet
<1>11. \A y \in Ctx : OnlyOK(y)'
  <2> SUFFICES ASSUME NEW y \in Ctx PROVE OnlyOK(y)'
    OBVIOUS
  <2>1. OnlyOK(y) /\ home[y] \in Core
    BY DEF RingParts, ListInv, TypeOK
  <2>2. CASE home[y] = c
    BY <1>1, <1>2, <1>3, <2>1, <2>2, Numbers DEF OnlyOK, CoreOK, Boot
  <2>3. CASE home[y] # c
    BY <1>1, <1>2, <1>3, <2>1, <2>3 DEF OnlyOK
  <2> QED
    BY <2>2, <2>3
<1> QED
  BY <1>1, <1>5, <1>6, <1>8, <1>9, <1>10, <1>11 DEF RingParts, LinkOK, CrashOK

LEMMA ReturnKeeps ==
    ASSUME ListInv, ListInv', RingParts, ~Overlap', ~crashed, NEW c \in Core, Return(c)
    PROVE  RingParts'
<1>1. /\ Quiet(c) /\ UNCHANGED <<cur, nxt, home, exec>> /\ ~crashed'
      /\ pc[c] = "run" /\ pc'[c] = "del" /\ arg'[c] = cur[c]
  BY DEF Return, Goto, Quiet, ListInv, TypeOK
<1>2. /\ CoreOK(c) /\ exec[c] # Boot /\ cur[c] # Null /\ cur[c] \in Ctx
      /\ home[cur[c]] = c /\ etat[cur[c]] # "none"
  BY <1>1, Facts DEF RingParts
<1>3. \A y \in Ctx : etat'[y] = IF y = cur[c] THEN "terminated" ELSE etat[y]
  BY <1>2 DEF Return, ListInv, TypeOK
<1>4. \A e \in Core : CurOK(e)'
  BY <1>1, CurKept DEF Quiet
<1>5. CoreOK(c)'
  BY <1>1, <1>2, <1>3, <1>4 DEF CoreOK, Switching
<1>6. \A e \in Core \ {c} : CoreOK(e)'
  <2> SUFFICES ASSUME NEW e \in Core \ {c} PROVE CoreOK(e)'
    OBVIOUS
  <2>1. CoreOK(e)
    BY DEF RingParts
  <2>2. pc[e] = "publish" => cur'[home[arg[e]]] = Null
    BY <1>1, <2>1 DEF CoreOK
  <2> QED
    BY <1>1, <1>2, <1>3, <1>4, <2>2, OthersOK
<1>7. StartOK(c)'
  <2>1. c # 0 => (NoIdle(c)' <=> NoIdle(c))
    BY <1>2, <1>3, Numbers DEF NoIdle
  <2> QED
    BY <1>1, <1>2, <2>1 DEF Quiet, RingParts, StartOK, First, Coming, Busy
<1>8. \A e \in Core \ {c} : StartOK(e)'
  <2>1. \A e \in Core \ {c, 0} : NoIdle(e) => NoIdle(e)'
    BY <1>2, <1>3, Numbers DEF NoIdle
  <2> QED
    BY <1>1, <2>1, OthersStarted DEF First
\* Nobody is adding to the list of core 0, whose current context is over.
<1>9. MainOK'
  <2>1. etat'[Shell] # "none" => home'[Shell] = 1
    BY <1>1, <1>2, <1>3, Numbers DEF RingParts, MainOK
  <2>2. ASSUME NEW e \in Core \ {0}, pc'[e] = "self", home'[arg'[e]] = 0
        PROVE  exec'[0] = Boot \/ pc'[0] = "run"
    <3>1. e # c /\ pc[e] = "self" /\ home[arg[e]] = 0 /\ 0 \in Core
      BY <1>1, <2>2, Numbers DEF Quiet
    <3>2. CASE c = 0
      <4>1. Adding(e)' /\ cur'[0] # Null /\ etat'[cur'[0]] = "terminated"
        BY <1>1, <1>2, <1>3, <2>2, <3>2 DEF Adding
      <4> QED
        BY <2>2, <3>1, <4>1 DEF Overlap
    <3>3. CASE c # 0
      BY <1>1, <3>1, <3>3 DEF RingParts, MainOK, Quiet
    <3> QED
      BY <3>2, <3>3
  <2> QED
    BY <2>1, <2>2 DEF MainOK
<1>10. \A y \in Ctx : OnlyOK(y)'
  BY <1>1, <1>2, <1>3 DEF RingParts, OnlyOK
<1> QED
  BY <1>1, <1>5, <1>6, <1>7, <1>8, <1>9, <1>10 DEF RingParts, LinkOK, CrashOK

LEMMA CreateKeepsRing ==
    ASSUME ListInv, ListInv', RingParts, ~Overlap', ~crashed, NEW c \in Core,
           CoreStarts(c) \/ MainStarts(c) \/ Dispatch(c)
    PROVE  RingParts'
<1>1. PICK x \in Ctx, d \in Core :
         /\ Create(c, x, d) /\ etat[x] = "none"
         /\ x = Shell => d = 1
         /\ \A e \in Core \ {0} : x = Idle(e) => e = c /\ pc[c] = "boot"
         /\ \/ pc[c] = "boot" /\ (c # 0 => d = c)
            \/ pc[c] = "run" /\ exec[c] = Shell
  <2>1. CASE CoreStarts(c)
    <3>1. etat[Idle(c)] = "none" /\ Idle(c) \in Ctx /\ Idle(c) # Shell
      BY <2>1, Numbers DEF CoreStarts, ListInv, Fresh
    <3> QED
      BY <2>1, <3>1 DEF CoreStarts, Idle
  <2>2. CASE MainStarts(c)
    <3>1. etat[Shell] = "none"
      BY <2>2 DEF MainStarts, ListInv, Fresh
    <3> QED
      BY <2>2, <3>1, Numbers DEF MainStarts
  <2>3. CASE Dispatch(c)
    <3>1. sent \in 0 .. NTask /\ sent < NTask /\ NTask \in Nat /\ rr \in Core
      BY <2>3, SizeAssumption DEF Dispatch, ListInv, TypeOK
    <3>2. sent + 1 \in sent + 1 .. NTask /\ sent + 1 \in 1 .. NTask
      BY <3>1
    <3>3. /\ etat[Task(sent + 1)] = "none" /\ Task(sent + 1) \in Ctx /\ Task(sent + 1) # Shell
          /\ \A e \in Core \ {0} : Task(sent + 1) # Idle(e)
      BY <3>2, Numbers DEF ListInv, Fresh
    <3> QED
      BY <2>3, <3>1, <3>3 DEF Dispatch
  <2> QED
    BY <2>1, <2>2, <2>3
<1>2. /\ \A e \in Core : Busy(e) => arg[e] # x
      /\ \A e \in Core : cur[e] # Null => cur[e] # x /\ cur[e] \in Ctx
  BY <1>1, Facts
<1>3. /\ Quiet(c) /\ UNCHANGED <<cur, nxt, exec>> /\ ~crashed'
      /\ pc'[c] = "add" /\ arg'[c] = x
      /\ \A y \in Ctx \ {x} : etat'[y] = etat[y] /\ home'[y] = home[y]
      /\ home'[x] = d /\ etat'[x] = "ready"
  <2>1. \A y \in Ctx \ {x} : etat'[y] = etat[y] /\ home'[y] = home[y]
    BY <1>1 DEF Create, ListInv, TypeOK
  <2>2. \A e \in Core : Busy(e) => home'[arg[e]] = home[arg[e]]
    BY <1>2, <2>1, Facts
  <2>3. etat'[x] = "ready"
    BY <1>1 DEF Create, ListInv, TypeOK
  <2> QED
    BY <1>1, <2>1, <2>2, <2>3 DEF Create, Goto, Quiet, ListInv, TypeOK
<1>4. \A e \in Core : CurOK(e)'
  BY <1>1, <1>3, CurKept DEF Quiet
<1>5. CoreOK(c)'
  BY <1>1, <1>3, <1>4 DEF RingParts, CoreOK, Switching
<1>6. \A e \in Core \ {c} : CoreOK(e)'
  <2> SUFFICES ASSUME NEW e \in Core \ {c} PROVE CoreOK(e)'
    OBVIOUS
  <2>1. CoreOK(e)
    BY DEF RingParts
  <2>2. \A y \in Ctx : etat[y] # "none" /\ home[y] = e => etat'[y] = etat[y]
    BY <1>1, <1>3
  <2>3. pc[e] = "publish" => cur'[home'[arg[e]]] = Null
    BY <1>3, <2>1 DEF CoreOK, Quiet, Busy
  <2> QED
    BY <1>3, <1>4, <2>2, <2>3, OthersOK DEF CoreOK, Quiet, Busy
<1>7. StartOK(c)'
  <2>1. exec[c] = Boot => pc[c] = "boot"
    BY <1>1, Facts
  <2>2. \A e \in Core \ {c} : First(e, c)' => First(e, c)
    BY <1>3 DEF First, Quiet, Busy
  <2> QED
    <3>1. ASSUME c # 0, NEW e \in Core \ {c}, First(e, c)' PROVE Coming(c)'
      <4>1. CASE pc[c] = "boot"
        BY <1>3, <4>1 DEF RingParts, CoreOK, Coming
      <4>2. CASE pc[c] = "run"
        <5>1. NoIdle(c)
          BY <2>2, <3>1, <4>2 DEF RingParts, StartOK, Coming
        <5>2. Idle(c) # x /\ Idle(c) \in Ctx
          BY <1>1, <3>1, <4>2, Numbers
        <5> QED
          BY <1>3, <5>1, <5>2 DEF Coming, NoIdle
      <4> QED
        BY <1>1, <4>1, <4>2
    <3> QED
      BY <1>1, <1>3, <2>1, <3>1 DEF StartOK, Busy
<1>8. \A e \in Core \ {c} : StartOK(e)'
  <2>1. \A e \in Core \ {c, 0} : NoIdle(e) => NoIdle(e)'
    BY <1>1, <1>3, Numbers DEF NoIdle
  <2> QED
    BY <1>3, <2>1, OthersStarted DEF First
<1>9. MainOK'
  <2>1. etat'[Shell] # "none" => home'[Shell] = 1
    BY <1>1, <1>3, Numbers DEF RingParts, MainOK
  <2>2. ASSUME NEW e \in Core \ {0}, pc'[e] = "self", home'[arg'[e]] = 0
        PROVE  exec'[0] = Boot \/ pc'[0] = "run"
    <3>1. e # c /\ pc[e] = "self" /\ home[arg[e]] = 0 /\ 0 \in Core
      BY <1>3, <2>2, Numbers DEF Quiet, Busy
    <3>2. CASE c = 0 /\ exec[0] # Boot
      <4>1. pc[0] = "run" /\ exec[0] = Shell
        BY <1>1, <3>1, <3>2 DEF RingParts, MainOK
      <4>2. home[Shell] = 0 /\ etat[Shell] # "none"
        BY <3>1, <3>2, <4>1, Facts
      <4> QED
        BY <4>2 DEF RingParts, MainOK
    <3>3. CASE c # 0 \/ exec[0] = Boot
      BY <1>3, <3>1, <3>3 DEF RingParts, MainOK, Quiet
    <3> QED
      BY <3>2, <3>3
  <2> QED
    BY <2>1, <2>2 DEF MainOK
<1>10. \A y \in Ctx : OnlyOK(y)'
  BY <1>3 DEF RingParts, OnlyOK
<1> QED
  BY <1>3, <1>5, <1>6, <1>7, <1>8, <1>9, <1>10 DEF RingParts, LinkOK, CrashOK

-----------------------------------------------------------------------------
(* The theorems.                                                            *)

LEMMA RingStep ==
    ASSUME ListInv, RingInv, [Next]_vars
    PROVE  RingInv'
<1>1. ListInv'
  BY NextListInv
<1>2. ASSUME NEW c \in Core, Step(c), ~raced' PROVE RingParts'
  <2>1. RingParts /\ ~Overlap' /\ ~crashed
    BY <1>2 DEF Step, Remember, RingInv
  <2> QED
    BY <1>1, <1>2, <2>1, AddTestKeeps, YieldKeepsRing, WalkKeeps, LastStepsKeep, DelKeeps,
       AddWrites, CutKeeps, PublishKeeps, SetCurrentKeeps, CallKeeps, ReturnKeeps, CreateKeepsRing DEF Step, Work
<1>3. CASE UNCHANGED vars
  BY <1>3 DEF vars, lists, here, shell, RingInv, RingParts, Overlap, Adding, CoreOK, CurOK,
     StartOK, Busy, First, Coming, NoIdle, MainOK, LinkOK, OnlyOK, CrashOK, Pending
<1> QED
  BY <1>2, <1>3 DEF Next, RingInv

LEMMA RingAlways == Spec => [](ListInv /\ RingInv)
<1>1. Init => ListInv /\ RingInv
  BY InitListInv, RingInit
<1>2. ListInv /\ RingInv /\ [Next]_vars => (ListInv /\ RingInv)'
  BY NextListInv, RingStep
<1> QED
  BY <1>1, <1>2, PTL DEF Spec

\* For any number of cores and commands: as long as the writers of a list do not
\* meet, the context that switch_to_ctx marks as over is the one whose function
\* returned.
THEOREM EndsItsOwn == Spec => []EndsItself
<1>1. RingInv => EndsItself
  BY DEF RingInv, RingParts, CoreOK, EndsItself, Switching
<1> QED
  BY <1>1, RingAlways, PTL

\* ... and the process is lost only by a yield() on a core without a context of its own,
\* main's or the one of an alarm that came too early, or by the switch to a stack that
\* was never written: no core follows a link that nobody set.
THEOREM CrashesExplained == Spec => []CrashExplained
<1>1. RingInv => CrashExplained
  BY DEF RingInv, RingParts, CrashOK, CrashExplained, NoIdle
<1> QED
  BY <1>1, RingAlways, PTL

-----------------------------------------------------------------------------
(* Rings: f leads from each element of M to an element of M, never from two *)
(* to the same one, and through no smaller set.                             *)

Within(f, S) == \A x \in S : f[x] \in S

Ring(f, M) ==
    /\ M \subseteq Ctx /\ Within(f, M)
    /\ \A x, y \in M : f[x] = f[y] => x = y
    /\ \A S \in SUBSET M : S # {} /\ Within(f, S) => S = M

LEMMA RingOne ==
    ASSUME NEW f, NEW x \in Ctx, f[x] = x
    PROVE  Ring(f, {x})
BY DEF Ring, Within

LEMMA RingSame ==
    ASSUME NEW f, NEW g, NEW M, Ring(f, M), \A x \in M : g[x] = f[x]
    PROVE  Ring(g, M)
BY DEF Ring, Within

\* x comes after p.
LEMMA RingGrows ==
    ASSUME NEW f, NEW g, NEW M, Ring(f, M), NEW p \in M, NEW x \in Ctx \ M,
           \A y \in M \ {p} : g[y] = f[y], g[p] = x, g[x] = f[p]
    PROVE  Ring(g, M \cup {x})
<1>1. M \subseteq Ctx /\ \A y \in M : f[y] \in M
  BY DEF Ring, Within
<1>2. ASSUME NEW S \in SUBSET (M \cup {x}), S # {}, Within(g, S)
      PROVE  S = M \cup {x}
  <2>1. S \ {x} # {}
    BY <1>1, <1>2 DEF Within
  <2>2. Within(f, S \ {x})
    <3> SUFFICES ASSUME NEW y \in S \ {x} PROVE f[y] \in S \ {x}
      BY DEF Within
    <3>1. CASE y = p
      BY <1>1, <1>2, <3>1 DEF Within
    <3>2. CASE y # p
      BY <1>1, <1>2, <3>2 DEF Within
    <3> QED
      BY <3>1, <3>2
  <2>3. S \ {x} = M
    BY <2>1, <2>2 DEF Ring
  <2> QED
    BY <1>2, <2>3 DEF Within
<1>3. \A y, z \in M \cup {x} : g[y] = g[z] => y = z
  BY <1>1 DEF Ring
<1> QED
  BY <1>1, <1>2, <1>3 DEF Ring, Within

\* a, which came after p, is taken out.
LEMMA RingShrinks ==
    ASSUME NEW f, NEW g, NEW M, Ring(f, M), NEW p \in M, NEW a \in M, f[p] = a, f[a] # a,
           \A y \in M \ {p} : g[y] = f[y], g[p] = f[a]
    PROVE  Ring(g, M \ {a})
<1>1. M \subseteq Ctx /\ (\A y \in M : f[y] \in M) /\ \A y, z \in M : f[y] = f[z] => y = z
  BY DEF Ring, Within
<1>2. ASSUME NEW S \in SUBSET (M \ {a}), S # {}, Within(g, S)
      PROVE  S = M \ {a}
  <2>1. CASE p \in S
    <3>1. Within(f, S \cup {a})
      BY <1>1, <1>2, <2>1 DEF Within
    <3>2. S \cup {a} = M
      BY <1>2, <3>1 DEF Ring
    <3> QED
      BY <1>2, <3>2
  <2>2. CASE p \notin S
    <3>1. Within(f, S)
      BY <1>1, <1>2, <2>2 DEF Within
    <3>2. S = M
      BY <1>2, <3>1 DEF Ring
    <3> QED
      BY <1>2, <3>2
  <2> QED
    BY <2>1, <2>2
<1>3. \A y \in M \ {a} : g[y] \in M \ {a}
  BY <1>1
<1>4. \A y, z \in M \ {a} : g[y] = g[z] => y = z
  BY <1>1
<1> QED
  BY <1>1, <1>2, <1>3, <1>4 DEF Ring, Within

\* More steps than there are contexts meet one of them twice.
LEMMA MeetsTwice ==
    ASSUME NEW K \in Nat, Ctx = 1 .. K, NEW s, s \in [0 .. K -> Ctx]
    PROVE  \E i, j \in 0 .. K : i < j /\ s[i] = s[j]
<1>1. IsFiniteSet(0 .. K) /\ Cardinality(0 .. K) = K + 1
  BY FS_Interval
<1>2. IsFiniteSet(Ctx) /\ Cardinality(Ctx) = K
  BY FS_Interval
<1> DEFINE D == 0 .. K
<1>3. IsFiniteSet(D) /\ IsFiniteSet(Ctx) /\ Cardinality(Ctx) < Cardinality(D) /\ s \in [D -> Ctx]
  BY <1>1, <1>2
<1>4. \E i, j \in D : i # j /\ s[i] = s[j]
  <2> HIDE DEF D
  <2> QED
    BY <1>3, FS_PigeonHole
<1>5. PICK i \in 0 .. K, j \in 0 .. K : i # j /\ s[i] = s[j]
  BY <1>4
<1>6. i < j \/ j < i
  BY <1>5
<1> QED
  BY <1>5, <1>6

\* As many steps as there are contexts go round a ring that can be reached from b.
LEMMA RingWalked ==
    ASSUME NEW M, Ring(nxt, M), NEW b \in Ctx, b \in M \/ nxt[b] \in M,
           NEW s, s \in [0 .. NCore + NTask -> Ctx], s[0] = b,
           \A n \in 1 .. NCore + NTask : s[n] = nxt[s[n - 1]]
    PROVE  /\ \A x \in M : \E n \in 0 .. NCore + NTask : s[n] = x
           /\ \A n \in 0 .. NCore + NTask : s[n] \in M \cup {b}
<1> DEFINE K == NCore + NTask
<1>1. K \in Nat /\ K >= 2 /\ Ctx = 1 .. K
  BY SizeAssumption DEF Ctx
<1>2. Within(nxt, M)
  BY DEF Ring
<1> HIDE DEF K
<1>3. PICK i \in 0 .. K, j \in 0 .. K : i < j /\ s[i] = s[j]
  <2>1. s \in [0 .. K -> Ctx]
    BY DEF K
  <2> QED
    BY <1>1, <2>1, MeetsTwice
<1>4. \A n \in 0 .. K - 1 : n + 1 \in 1 .. K /\ s[n + 1] = nxt[s[n]]
  BY <1>1 DEF K
<1> DEFINE V == {s[n] : n \in 0 .. j - 1}
<1>5. Within(nxt, V)
  <2> SUFFICES ASSUME NEW n \in 0 .. j - 1 PROVE nxt[s[n]] \in V
    BY DEF Within
  <2>1. nxt[s[n]] = s[n + 1]
    BY <1>1, <1>4
  <2>2. CASE n = j - 1
    BY <1>1, <1>3, <2>1, <2>2
  <2>3. CASE n # j - 1
    BY <1>1, <2>1, <2>3
  <2> QED
    BY <2>2, <2>3
<1>6. M \subseteq V
  <2>1. b \in V
    BY <1>1, <1>3
  <2>2. V \cap M # {} /\ Within(nxt, V \cap M)
    BY <1>2, <1>5, <2>1 DEF Within
  <2> QED
    BY <2>2 DEF Ring
<1>7. V \subseteq {s[n] : n \in 0 .. K}
  BY <1>1
<1> DEFINE T == {n \in 0 .. K : s[n] \in M \cup {b}}
<1>8. 0 \in T
  BY <1>1
<1>9. \A n \in 0 .. K - 1 : n \in T => n + 1 \in T
  BY <1>1, <1>2, <1>4 DEF Within
<1>10. 0 .. K \subseteq T
  <2> HIDE DEF T
  <2> QED
    BY <1>1, <1>8, <1>9, UpTo
<1> QED
  BY <1>6, <1>7, <1>10 DEF K

\* What the walk of yield() goes through.
LEMMA WalkIs ==
    ASSUME ListInv, NEW c \in Core, cur[c] # Null, NEW M, Ring(nxt, M),
           cur[c] \in M \/ nxt[cur[c]] \in M
    PROVE  M \subseteq Walk(c) /\ Walk(c) \subseteq M \cup {cur[c]}
<1> DEFINE K == NCore + NTask
           G == [n \in 1 .. K |-> [x \in Ctx |-> nxt[x]]]
           V == M \cup {cur[c]}
<1>1. K \in Nat /\ cur[c] \in Ctx /\ V \subseteq Ctx /\ cur[c] \in V
  BY SizeAssumption, Facts DEF Ring
<1>2. \A x \in V : nxt[x] \in V
  BY DEF Ring, Within
<1>3. PICK s : Follows(s, K, cur[c], G)
  <2> HIDE DEF K, G
  <2> QED
    BY <1>1, FunctionExists
<1>4. s \in [0 .. K -> V]
  <2>1. \A n \in 1 .. K, x \in V : G[n][x] \in V
    BY <1>1, <1>2
  <2> HIDE DEF K, G, V
  <2> QED
    BY <1>1, <1>3, <2>1, FunctionType
<1> HIDE DEF V
<1>5. ASSUME NEW n \in 0 .. K, n # 0
      PROVE  s[n] = nxt[s[n - 1]] /\ s[n - 1] \in Ctx
  <2>1. n \in 1 .. K /\ n - 1 \in 0 .. K
    BY <1>1, <1>5
  <2>2. s[n - 1] \in Ctx
    BY <1>1, <1>4, <2>1
  <2>3. s[n] = G[n][s[n - 1]]
    BY <1>3, <1>5 DEF Follows
  <2> QED
    BY <2>1, <2>2, <2>3
<1>6. s[0] = cur[c] /\ DOMAIN s = 0 .. K /\ s \in [0 .. K -> Ctx]
  <2> HIDE DEF K, G
  <2>1. s[0] = cur[c]
    BY <1>1, <1>3 DEF Follows
  <2> QED
    BY <1>1, <1>4, <2>1
<1>7. M \subseteq {s[n] : n \in 0 .. K} /\ {s[n] : n \in 0 .. K} \subseteq M \cup {cur[c]}
  <2>1. \A n \in 1 .. K : s[n] = nxt[s[n - 1]]
    BY <1>1, <1>5
  <2>2. cur[c] \in Ctx /\ s[0] = cur[c] /\ s \in [0 .. K -> Ctx]
    BY <1>1, <1>6
  <2>3. Ring(nxt, M) /\ (cur[c] \in M \/ nxt[cur[c]] \in M)
    OBVIOUS
  <2>4. /\ \A x \in M : \E n \in 0 .. NCore + NTask : s[n] = x
        /\ \A n \in 0 .. NCore + NTask : s[n] \in M \cup {cur[c]}
    BY <2>1, <2>2, <2>3, RingWalked
  <2> QED
    BY <2>4
<1>8. s = [n \in 0 .. K |-> IF n = 0 THEN cur[c]
                           ELSE IF s[n - 1] \in Ctx THEN nxt[s[n - 1]] ELSE Junk]
  BY <1>5, <1>6
<1> DEFINE walk[n \in 0 .. NCore + NTask] ==
              IF n = 0 THEN cur[c]
              ELSE IF walk[n - 1] \in Ctx THEN nxt[walk[n - 1]] ELSE Junk
<1>9. walk = [n \in 0 .. K |-> IF n = 0 THEN cur[c]
                              ELSE IF walk[n - 1] \in Ctx THEN nxt[walk[n - 1]] ELSE Junk]
  BY <1>8
<1>10. Walk(c) = {walk[n] : n \in DOMAIN walk} \cap Ctx
  BY DEF Walk
<1> HIDE DEF walk
<1> DEFINE T == {n \in 0 .. K : walk[n] = s[n]}
<1>11. 0 \in T
  BY <1>1, <1>6, <1>9
<1>12. ASSUME NEW n \in 0 .. K - 1, n \in T
       PROVE  n + 1 \in T
  <2>1. n + 1 \in 0 .. K /\ n + 1 # 0 /\ n + 1 - 1 = n /\ n \in 0 .. K
    BY <1>1
  <2>2. walk[n + 1] = IF walk[n] \in Ctx THEN nxt[walk[n]] ELSE Junk
    BY <1>9, <2>1
  <2>3. s[n + 1] = nxt[s[n]] /\ s[n] \in Ctx
    BY <1>5, <2>1
  <2> QED
    BY <1>12, <2>1, <2>2, <2>3
<1>13. 0 .. K \subseteq T
  <2> HIDE DEF T, K
  <2> QED
    BY <1>1, <1>11, <1>12, UpTo
<1>14. walk = s
  BY <1>6, <1>9, <1>13
<1> QED
  BY <1>1, <1>6, <1>7, <1>10, <1>14

-----------------------------------------------------------------------------
(* The invariant.                                                           *)

\* What the walk of core d has to go through.
Live(d) == {x \in Ctx : home[x] = d /\ etat[x] \in {"ready", "activated"} /\ ~Pending(x)}

\* M is the ring of core d.  The current context belongs to it, or has just been
\* taken out and still leads to it.
Whole(d, M) ==
    /\ Ring(nxt, M) /\ Live(d) \subseteq M /\ M \subseteq Live(d) \cup {cur[d]}
    /\ \/ cur[d] \in M
       \/ nxt[cur[d]] \in M /\ etat[cur[d]] = "terminated" /\ pc[d] \in {"yield", "walk"}
    /\ cur[d] \in M /\ etat[cur[d]] = "terminated" /\ pc[d] \notin {"del", "find"} => M = {cur[d]}
    /\ pc[d] = "walk" => w[d] \in M \cup {cur[d]}
    /\ pc[d] \in {"del", "find"} => cur[d] \in M
    /\ pc[d] = "find" => w[d] \in M /\ suiv[d] = nxt[cur[d]] /\ nxt[cur[d]] # cur[d]

RingPart(d) ==
    /\ cur[d] = Null => Live(d) = {}
    /\ cur[d] # Null /\ nxt[cur[d]] = Junk => Live(d) = {}
    /\ cur[d] # Null /\ nxt[cur[d]] # Junk => \E M : Whole(d, M)

\* What a core is in the middle of.
Own(c) ==
    /\ (exec[c] = Boot \/ pc[c] = "run" \/ Busy(c)) /\ cur[c] # Null => etat[cur[c]] # "terminated"
    /\ pc[c] \in {"add", "publish", "self", "link"} => nxt[arg[c]] = Junk
    /\ pc[c] = "self" => cur[home[arg[c]]] = arg[c]
    /\ pc[c] = "insert" => nxt[arg[c]] = nxt[cur[home[arg[c]]]]

Rings == \A c \in Core : Own(c) /\ RingPart(c)

WholeInv == ~raced => Rings

LEMMA WholeInit == Init => WholeInv
BY Numbers DEF Init, WholeInv, Rings, Own, RingPart, Live, Busy, Early

-----------------------------------------------------------------------------
(* What a step leaves to a core.                                            *)

LEMMA PendingIs == \A x \in Ctx : Pending(x) <=> \E c \in Core : Busy(c) /\ arg[c] = x
BY DEF Pending, Adding, Busy

LEMMA LiveKept ==
    ASSUME UNCHANGED <<etat, home>>,
           \A e \in Core : (Busy(e)' <=> Busy(e)) /\ (Busy(e) => arg'[e] = arg[e])
    PROVE  \A d \in Core : Live(d)' = Live(d)
BY DEF Live, Pending, Adding, Busy

LEMMA RingKept ==
    ASSUME ListInv, NEW d \in Core, RingPart(d), Live(d)' = Live(d), cur'[d] = cur[d],
           \A x \in Ctx : x \in Live(d) \/ x = cur[d] => nxt'[x] = nxt[x],
           cur[d] # Null => etat'[cur[d]] = etat[cur[d]],
           \/ pc'[d] = pc[d] /\ w'[d] = w[d] /\ suiv'[d] = suiv[d]
           \/ pc[d] \notin {"yield", "walk", "del", "find"} /\ pc'[d] \notin {"walk", "del", "find"}
    PROVE  RingPart(d)'
<1>1. cur[d] # Null => cur[d] \in Ctx /\ nxt'[cur[d]] = nxt[cur[d]]
  BY Facts
<1>2. ASSUME cur[d] # Null, NEW M, Whole(d, M) PROVE Whole(d, M)'
  <2>1. Ring(nxt', M)
    <3>1. Ring(nxt, M) /\ \A x \in M : nxt'[x] = nxt[x]
      BY <1>1, <1>2 DEF Whole, Ring
    <3> QED
      BY <3>1, RingSame
  <2> QED
    BY <1>1, <1>2, <2>1 DEF Whole
<1> QED
  BY <1>1, <1>2 DEF RingPart

LEMMA OwnKept ==
    ASSUME NEW e \in Core, Own(e),
           pc'[e] = pc[e], arg'[e] = arg[e], exec'[e] = exec[e], cur'[e] = cur[e],
           cur[e] # Null => etat'[cur[e]] = etat[cur[e]],
           Busy(e) => nxt'[arg[e]] = nxt[arg[e]] /\ home'[arg[e]] = home[arg[e]],
           pc[e] \in {"self", "insert"} => cur'[home[arg[e]]] = cur[home[arg[e]]],
           pc[e] = "insert" => nxt'[cur[home[arg[e]]]] = nxt[cur[home[arg[e]]]]
    PROVE  Own(e)'
BY DEF Own, Busy, Early

\* The steps that write no list: only what core c is in the middle of changes.
LEMMA QuietRings ==
    ASSUME ListInv, Rings, NEW c \in Core, Quiet(c), UNCHANGED lists,
           Busy(c)' <=> Busy(c), Busy(c) => arg'[c] = arg[c],
           Own(c)', Live(c)' = Live(c) => RingPart(c)'
    PROVE  Rings'
<1>1. \A d \in Core : Live(d)' = Live(d)
  BY LiveKept DEF lists, Quiet, Busy
<1>2. \A e \in Core \ {c} : Own(e)'
  BY OwnKept DEF lists, Quiet, Rings
<1>3. \A e \in Core \ {c} : RingPart(e)'
  BY <1>1, RingKept DEF lists, Quiet, Rings
<1> QED
  BY <1>1, <1>2, <1>3 DEF Rings

LEMMA WholeWalk ==
    ASSUME ListInv, LifeInv, RingParts, Rings, NEW c \in Core,
           \/ AddTest(c) \/ Yield(c) \/ Skip(c) \/ Lost(c) \/ Timer(c)
           \/ Load(c) \/ Test(c) \/ Nowhere(c)
           \/ DelAlone(c) \/ DelRead(c) \/ DelFind(c)
    PROVE  Rings'
<1>1. /\ Quiet(c) /\ UNCHANGED lists /\ exec' = exec /\ arg' = arg
      /\ Own(c) /\ RingPart(c) /\ CoreOK(c) /\ ~Lost(c)
  BY MovesQuietly DEF Rings, RingParts, CoreOK, AddTest, Yield, Skip, Lost, Timer, Load, Test,
     Nowhere, DelAlone, DelRead, DelFind, here
<1>2. (Busy(c)' <=> Busy(c))
  BY <1>1 DEF AddTest, Yield, Skip, Timer, Load, Test, Nowhere, DelAlone, DelRead, DelFind, Goto,
     Busy, ListInv, TypeOK, here
<1>3. \/ /\ pc[c] = "add" /\ pc'[c] \in {"publish", "link"}
      \/ pc[c] = "yield" /\ pc'[c] = "yield" /\ w' = w
      \/ pc[c] = "yield" /\ pc'[c] = "walk" /\ w'[c] = cur[c]
      \/ /\ pc[c] = "walk" /\ pc'[c] = "walk" /\ etat[w[c]] = "terminated" /\ w'[c] = nxt[w[c]]
      \/ pc[c] \in {"boot", "run", "walk", "load", "test", "call"} /\ pc'[c] = "yield"
      \/ pc[c] \in {"load", "test"} /\ pc'[c] \in {"load", "test", "call", "run"}
      \/ pc[c] = "del" /\ pc'[c] = "yield" /\ nxt[arg[c]] = arg[c]
      \/ /\ pc[c] = "del" /\ pc'[c] = "find" /\ w'[c] = arg[c] /\ suiv'[c] = nxt[arg[c]]
         /\ nxt[arg[c]] # arg[c]
      \/ pc[c] = "find" /\ pc'[c] = "find" /\ w'[c] = nxt[w[c]] /\ suiv' = suiv
  BY <1>1 DEF AddTest, Yield, Skip, Timer, Load, Test, Nowhere, DelAlone, DelRead, DelFind, Goto,
     ListInv, TypeOK, here
<1>4. Own(c)'
  BY <1>1, <1>3 DEF Own, CoreOK, Busy, Early, lists
<1>5. ASSUME Live(c)' = Live(c), cur[c] # Null, NEW M, Whole(c, M) PROVE Whole(c, M)'
  <2>1. /\ Ring(nxt', M) /\ cur' = cur /\ nxt' = nxt /\ etat' = etat
        /\ \A x \in M : nxt[x] \in M
    BY <1>1, <1>5 DEF lists, Whole, Ring, Within
  <2>2. pc[c] = "del" /\ nxt[arg[c]] = arg[c] => M = {cur[c]}
    BY <1>1, <1>5 DEF Whole, Ring, Within, CoreOK
  <2>3. pc'[c] = "walk" => w'[c] \in M \cup {cur[c]}
    <3>1. pc[c] = "walk" => w[c] \in M \cup {cur[c]}
      BY <1>5 DEF Whole
    <3>2. nxt[cur[c]] \in M
      BY <1>5, <2>1 DEF Whole
    <3> QED
      BY <1>3, <2>1, <3>1, <3>2
  <2>4. pc'[c] = "find" => w'[c] \in M /\ suiv'[c] = nxt[cur[c]] /\ nxt[cur[c]] # cur[c]
    BY <1>1, <1>3, <1>5, <2>1 DEF Whole, CoreOK
  <2>5. /\ cur[c] \in M \/ (nxt[cur[c]] \in M /\ etat[cur[c]] = "terminated" /\ pc'[c] \in {"yield", "walk"})
        /\ pc'[c] \in {"del", "find"} => cur[c] \in M
        /\ cur[c] \in M /\ etat[cur[c]] = "terminated" /\ pc'[c] \notin {"del", "find"} => M = {cur[c]}
    BY <1>1, <1>3, <1>5, <2>2 DEF Whole, CoreOK
  <2> QED
    BY <1>5, <2>1, <2>3, <2>4, <2>5 DEF Whole
<1>6. Live(c)' = Live(c) => RingPart(c)'
  BY <1>1, <1>5 DEF RingPart, lists
<1> QED
  BY <1>1, <1>2, <1>4, <1>6, QuietRings

-----------------------------------------------------------------------------
(* The end of a context.                                                    *)

LEMMA WholeReturn ==
    ASSUME ListInv, LifeInv, RingParts, ~Overlap', Rings, NEW c \in Core, Return(c)
    PROVE  Rings'
<1>1. /\ Quiet(c) /\ UNCHANGED <<cur, nxt, home, exec, w, suiv>>
      /\ pc[c] = "run" /\ pc'[c] = "del" /\ arg'[c] = cur[c]
  BY DEF Return, Goto, Quiet, ListInv, TypeOK
<1>2. /\ CoreOK(c) /\ exec[c] # Boot /\ cur[c] # Null /\ cur[c] \in Ctx /\ home[cur[c]] = c
      /\ etat[cur[c]] # "terminated"
  BY <1>1, Facts DEF RingParts, Rings, Own
<1>3. \A y \in Ctx : etat'[y] = IF y = cur[c] THEN "terminated" ELSE etat[y]
  BY <1>2 DEF Return, ListInv, TypeOK
\* Its first link is written: nobody is adding to the list of a context that ends.
<1>4. nxt[cur[c]] # Junk
  <2> SUFFICES ASSUME nxt[cur[c]] = Junk PROVE FALSE
    OBVIOUS
  <2>1. PICK e \in Core : pc[e] = "self" /\ arg[e] = cur[c]
    BY <1>2 DEF RingParts, CoreOK, CurOK
  <2>2. /\ e # c /\ pc'[e] = "self" /\ arg'[e] = cur[c] /\ home'[cur[c]] = c /\ cur'[c] = cur[c]
        /\ etat'[cur[c]] = "terminated"
    BY <1>1, <1>2, <1>3, <2>1 DEF Quiet
  <2>3. Adding(e)' /\ c # e
    BY <2>2 DEF Adding
  <2> QED
    BY <1>2, <2>2, <2>3 DEF Overlap
<1>5. \A x \in Ctx : Pending(x)' <=> Pending(x)
  BY <1>1 DEF Quiet, Pending, Adding
<1>6. Live(c)' = Live(c) \ {cur[c]} /\ \A e \in Core \ {c} : Live(e)' = Live(e)
  BY <1>1, <1>2, <1>3, <1>5 DEF Live
<1>7. \A e \in Core \ {c} : Own(e)' /\ RingPart(e)'
  <2> SUFFICES ASSUME NEW e \in Core \ {c} PROVE Own(e)' /\ RingPart(e)'
    OBVIOUS
  <2>1. cur[e] # Null => etat'[cur[e]] = etat[cur[e]]
    BY <1>2, <1>3, Facts
  <2>2. RingPart(e)'
    BY <1>1, <1>6, <2>1, RingKept DEF Quiet, Rings
  <2>3. Own(e)'
    <3>1. Own(e)
      BY DEF Rings
    <3> QED
      BY <1>1, <2>1, <3>1 DEF Own, Busy, Early, Quiet
  <2> QED
    BY <2>2, <2>3
<1>8. Own(c)'
  BY <1>1, <1>2 DEF Own, Busy, Early, Boot
<1>9. RingPart(c)'
  <2>1. PICK M : Whole(c, M)
    BY <1>2, <1>4 DEF Rings, RingPart
  <2>2. cur[c] \in M
    BY <1>1, <2>1 DEF Whole
  <2>3. Whole(c, M)'
    BY <1>1, <1>6, <2>1, <2>2 DEF Whole
  <2> QED
    BY <1>1, <1>2, <1>4, <2>3 DEF RingPart
<1> QED
  BY <1>7, <1>8, <1>9 DEF Rings

LEMMA WholeCut ==
    ASSUME ListInv, LifeInv, RingParts, Rings, NEW c \in Core, DelCut(c)
    PROVE  Rings'
<1>1. /\ Quiet(c) /\ UNCHANGED <<cur, etat, home, exec, arg, w, suiv>>
      /\ pc[c] = "find" /\ pc'[c] = "yield" /\ w[c] # Junk /\ nxt[w[c]] = arg[c]
      /\ \A y \in Ctx : nxt'[y] = IF y = w[c] THEN suiv[c] ELSE nxt[y]
  BY DEF DelCut, Goto, Quiet, ListInv, TypeOK
<1>2. /\ CoreOK(c) /\ cur[c] # Null /\ cur[c] \in Ctx /\ home[cur[c]] = c /\ w[c] \in Ctx
      /\ home[w[c]] = c /\ arg[c] = cur[c] /\ etat[cur[c]] = "terminated" /\ nxt[w[c]] = cur[c]
  BY <1>1, Facts DEF RingParts, CoreOK
<1>3. nxt[cur[c]] # Junk
  BY <1>1, <1>2, SetWhenOver DEF Adding
<1>4. PICK M : Whole(c, M)
  BY <1>2, <1>3 DEF Rings, RingPart
<1>5. /\ Ring(nxt, M) /\ cur[c] \in M /\ w[c] \in M /\ suiv[c] = nxt[cur[c]]
      /\ nxt[cur[c]] # cur[c] /\ nxt[cur[c]] \in M /\ w[c] # cur[c]
  BY <1>1, <1>2, <1>4 DEF Whole, Ring, Within
<1>6. \A d \in Core : Live(d)' = Live(d)
  BY <1>1, LiveKept DEF Quiet, Busy
<1>7. Ring(nxt', M \ {cur[c]})
  <2>1. nxt'[w[c]] = nxt[cur[c]] /\ \A y \in M \ {w[c]} : nxt'[y] = nxt[y]
    BY <1>1, <1>2, <1>5 DEF Ring
  <2> QED
    BY <1>2, <1>5, <2>1, RingShrinks
<1>8. Whole(c, M \ {cur[c]})'
  <2>1. cur[c] \notin Live(c) /\ nxt'[cur[c]] = nxt[cur[c]]
    BY <1>1, <1>2, <1>5 DEF Live
  <2> QED
    BY <1>1, <1>2, <1>4, <1>5, <1>6, <1>7, <2>1 DEF Whole
<1>9. RingPart(c)'
  <2>1. nxt'[cur[c]] # Junk
    BY <1>1, <1>2, <1>3, <1>5
  <2> QED
    BY <1>1, <1>2, <1>8, <2>1 DEF RingPart
<1>10. Own(c)'
  <2>1. exec[c] # Boot
    BY <1>1, Facts
  <2> QED
    BY <1>1, <2>1 DEF Own, Busy, Early
<1>11. ASSUME NEW e \in Core \ {c} PROVE Own(e)' /\ RingPart(e)'
  <2>1. \A x \in Ctx : x \in Live(e) \/ (x = cur[e] /\ cur[e] # Null) => nxt'[x] = nxt[x]
    BY <1>1, <1>2, Facts DEF Live
  <2>2. RingPart(e)'
    <3>1. RingPart(e) /\ Null \notin Ctx
      BY Numbers DEF Rings
    <3> QED
      BY <1>1, <1>6, <2>1, <3>1, RingKept DEF Quiet
  <2>3. Own(e)'
    <3>1. pc[e] \in {"add", "publish", "self", "link"} => nxt[arg[e]] = Junk
      BY DEF Rings, Own
    <3>2. Busy(e) => nxt'[arg[e]] = nxt[arg[e]]
      <4>1. CASE pc[e] = "insert"
        <5>1. arg[e] # cur[c] /\ \A x \in Ctx : nxt[x] # arg[e]
          BY <4>1 DEF LifeInv, NotYet, Known, Early
        <5>2. w[c] # arg[e]
          BY <1>1, <4>1 DEF LifeInv, NotYet, Known, Early
        <5> QED
          BY <1>1, <5>2, <4>1, Facts DEF Busy
      <4>2. CASE Busy(e) /\ pc[e] # "insert"
        <5>1. arg[e] # w[c] /\ arg[e] \in Ctx
          BY <1>2, <3>1, <4>2, Facts, Numbers DEF Busy
        <5> QED
          BY <1>1, <5>1
      <4> QED
        BY <4>1, <4>2
    \* Nobody is adding to the list of core c.
    <3>3. pc[e] = "insert" => nxt'[cur[home[arg[e]]]] = nxt[cur[home[arg[e]]]]
      <4> SUFFICES ASSUME pc[e] = "insert"
                   PROVE  nxt'[cur[home[arg[e]]]] = nxt[cur[home[arg[e]]]]
        OBVIOUS
      <4>1. home[arg[e]] # c /\ home[arg[e]] \in Core
        BY <1>2, Apart, Facts DEF RingParts, Adding, Busy
      <4>2. cur[home[arg[e]]] \in Ctx /\ home[cur[home[arg[e]]]] = home[arg[e]]
        BY <4>1, Facts
      <4> QED
        BY <1>1, <1>2, <4>1, <4>2
    <3> QED
      BY <1>1, <3>2, <3>3, OwnKept DEF Rings, Quiet
  <2> QED
    BY <2>2, <2>3
<1> QED
  BY <1>9, <1>10, <1>11 DEF Rings

LEMMA WholeSetCurrent ==
    ASSUME ListInv, LifeInv, RingParts, Rings, NEW c \in Core, SetCurrent(c)
    PROVE  Rings'
<1>1. /\ Quiet(c) /\ UNCHANGED <<nxt, etat, home, exec, arg, w, suiv>>
      /\ pc[c] = "walk" /\ pc'[c] \in {"load", "test"} /\ w[c] # Junk /\ etat[w[c]] # "terminated"
  BY DEF SetCurrent, Goto, Quiet, ListInv, TypeOK
<1>2. /\ CoreOK(c) /\ Own(c) /\ cur[c] # Null /\ cur[c] \in Ctx
      /\ w[c] \in Ctx /\ home[w[c]] = c /\ etat[w[c]] # "none"
  BY <1>1, Facts DEF RingParts, CoreOK, Rings, ListInv, OwnPointers, Mine
<1>3. cur'[c] = w[c] /\ \A e \in Core \ {c} : cur'[e] = cur[e]
  BY <1>2 DEF SetCurrent, ListInv, TypeOK
<1>4. \A d \in Core : Live(d)' = Live(d)
  BY <1>1, LiveKept DEF Quiet, Busy
\* It leaves a context only when that one is over.
<1>5. w[c] # cur[c] => etat[cur[c]] = "terminated"
  BY <1>1, <1>2 DEF CoreOK
<1>6. RingPart(c)'
  <2>1. CASE nxt[cur[c]] = Junk
    <3>1. w[c] = cur[c]
      BY <1>1, <1>2, <1>5, <2>1, SetWhenOver DEF Adding
    <3> QED
      BY <1>1, <1>2, <1>3, <1>4, <2>1, <3>1 DEF Rings, RingPart
  <2>2. CASE nxt[cur[c]] # Junk
    <3>1. PICK M : Whole(c, M)
      BY <1>2, <2>2 DEF Rings, RingPart
    <3>2. /\ Ring(nxt, M) /\ Live(c) \subseteq M /\ M \subseteq Live(c) \cup {cur[c]}
          /\ w[c] \in M \cup {cur[c]} /\ \A x \in M : nxt[x] \in Ctx
          /\ cur[c] \in M /\ etat[cur[c]] = "terminated" => M = {cur[c]}
          /\ cur[c] \in M \/ etat[cur[c]] = "terminated"
      BY <1>1, <3>1 DEF Whole, Ring, Within
    <3>3. w[c] \in M /\ M \subseteq Live(c) \cup {w[c]}
      BY <1>1, <1>5, <3>2
    <3>4. Whole(c, M)' /\ nxt'[cur'[c]] # Junk
      BY <1>1, <1>2, <1>3, <1>4, <3>2, <3>3, Numbers DEF Whole
    <3> QED
      BY <1>2, <1>3, <3>4, Numbers DEF RingPart
  <2> QED
    BY <2>1, <2>2
<1>7. Own(c)'
  BY <1>1, <1>2, <1>3 DEF Own, Busy, Early
<1>8. ASSUME NEW e \in Core \ {c} PROVE Own(e)' /\ RingPart(e)'
  <2>1. Own(e) /\ RingPart(e)
    BY DEF Rings
  <2>2. RingPart(e)'
    BY <1>1, <1>3, <1>4, <2>1, RingKept DEF Quiet
  \* The list of core c has a writer only while its current context stays.
  <2>3. pc[e] \in {"self", "insert"} => cur'[home[arg[e]]] = cur[home[arg[e]]]
    <3>1. pc[e] \in {"self", "insert"} =>
             /\ home[arg[e]] \in Core
             /\ home[arg[e]] = c => etat[cur[c]] # "terminated"
      BY <1>2, Apart, Facts DEF RingParts, Adding, Busy
    <3> QED
      BY <1>3, <1>5, <3>1
  <2>4. Own(e)'
    BY <1>1, <1>3, <2>1, <2>3 DEF Own, Busy, Early, Quiet
  <2> QED
    BY <2>2, <2>4
<1> QED
  BY <1>6, <1>7, <1>8 DEF Rings

\* What is called goes on being alive.
LEMMA WholeCall ==
    ASSUME ListInv, LifeInv, RingParts, Rings, NEW c \in Core, Call(c)
    PROVE  Rings'
<1>1. /\ Quiet(c) /\ UNCHANGED <<cur, nxt, home, arg, w, suiv>>
      /\ pc[c] = "call" /\ pc'[c] = "run"
  BY DEF Call, Goto, Quiet, ListInv, TypeOK
<1>2. /\ cur[c] # Null /\ cur[c] \in Ctx /\ home[cur[c]] = c /\ etat[cur[c]] = "ready"
      /\ RingPart(c)
  BY <1>1, Facts DEF LifeInv, Started, Rings
<1>3. \A y \in Ctx : etat'[y] = IF y = cur[c] THEN "activated" ELSE etat[y]
  BY <1>2 DEF Call, ListInv, TypeOK
<1>4. \A x \in Ctx : Pending(x)' <=> Pending(x)
  BY <1>1 DEF Quiet, Pending, Adding
<1>5. \A d \in Core : Live(d)' = Live(d)
  BY <1>1, <1>2, <1>3, <1>4 DEF Live
<1>6. RingPart(c)'
  <2>1. ASSUME NEW M, Whole(c, M) PROVE Whole(c, M)'
    BY <1>1, <1>2, <1>3, <1>5, <2>1 DEF Whole
  <2> QED
    BY <1>1, <1>2, <1>5, <2>1 DEF RingPart
<1>7. Own(c)'
  BY <1>1, <1>2, <1>3 DEF Own, Busy, Early
<1>8. ASSUME NEW e \in Core \ {c} PROVE Own(e)' /\ RingPart(e)'
  <2>1. Own(e) /\ RingPart(e)
    BY DEF Rings
  <2>2. cur[e] # Null => etat'[cur[e]] = etat[cur[e]]
    BY <1>2, <1>3, Facts
  <2>3. RingPart(e)'
    BY <1>1, <1>5, <2>1, <2>2, RingKept DEF Quiet
  <2>4. Own(e)'
    BY <1>1, <2>1, <2>2 DEF Own, Busy, Early, Quiet
  <2> QED
    BY <2>3, <2>4
<1> QED
  BY <1>6, <1>7, <1>8 DEF Rings

-----------------------------------------------------------------------------
(* The addition of a context.                                               *)

\* The one who adds x to the list of core d.
LEMMA Adder ==
    ASSUME ListInv, LifeInv, RingParts, Rings, NEW c \in Core, Adding(c)
    PROVE  /\ arg[c] \in Ctx /\ home[arg[c]] \in Core /\ Pending(arg[c])
           /\ \A e \in Core \ {c} : Adding(e) => home[arg[e]] # home[arg[c]]
           /\ \A e \in Core \ {c} : Busy(e) => arg[e] # arg[c]
           /\ cur[home[arg[c]]] # Null => etat[cur[home[arg[c]]]] # "terminated"
           /\ cur[c] # Null => etat[cur[c]] # "terminated"
           /\ pc[c] # "self" => etat[arg[c]] = "ready" /\ \A e \in Core : cur[e] # arg[c]
<1>1. Busy(c) /\ arg[c] \in Ctx /\ home[arg[c]] \in Core
  BY Facts DEF Adding, Busy
<1>2. cur[c] # Null => etat[cur[c]] # "terminated"
  BY <1>1 DEF Rings, Own
<1>3. cur[home[arg[c]]] # Null => etat[cur[home[arg[c]]]] # "terminated"
  BY <1>2, Apart DEF RingParts
<1>4. pc[c] # "self" => etat[arg[c]] = "ready" /\ \A e \in Core : cur[e] # arg[c]
  BY DEF Adding, Early, LifeInv, StillReady, NotYet, Known
<1>5. \A e \in Core \ {c} : Busy(e) => arg[e] # arg[c]
  BY <1>1, ArgsApart
<1> QED
  BY <1>1, <1>2, <1>3, <1>4, <1>5, Apart DEF RingParts, Pending

LEMMA WholePublish ==
    ASSUME ListInv, LifeInv, RingParts, Rings, NEW c \in Core, AddPublish(c)
    PROVE  Rings'
<1>0. PICK x \in Ctx, d \in Core : x = arg[c] /\ d = home[arg[c]]
  BY Adder DEF AddPublish, Adding
<1>1. /\ Quiet(c) /\ UNCHANGED <<nxt, etat, home, exec, arg, w, suiv>>
      /\ pc[c] = "publish" /\ pc'[c] = "self"
  BY DEF AddPublish, Goto, Quiet, ListInv, TypeOK
<1>2. /\ etat[x] = "ready" /\ nxt[x] = Junk
      /\ \A e \in Core \ {c} : Adding(e) => home[arg[e]] # d
      /\ cur[d] = Null /\ Own(c) /\ x # Null
  BY <1>0, <1>1, Adder, Numbers DEF Adding, Rings, Own, RingParts, CoreOK
<1>3. cur'[d] = x /\ \A e \in Core \ {d} : cur'[e] = cur[e]
  BY <1>0, <1>2 DEF AddPublish, ListInv, TypeOK
<1>4. \A e \in Core : Live(e)' = Live(e)
  BY <1>0, <1>1, LiveKept DEF Quiet, Busy
<1>5. RingPart(d)'
  BY <1>0, <1>1, <1>2, <1>3, <1>4 DEF RingPart, Rings
<1>6. \A e \in Core \ {d} : RingPart(e)'
  <2> SUFFICES ASSUME NEW e \in Core \ {d} PROVE RingPart(e)'
    OBVIOUS
  <2>1. RingPart(e)
    BY DEF Rings
  <2> QED
    BY <1>0, <1>1, <1>3, <1>4, <2>1, RingKept DEF Quiet
<1>7. Own(c)'
  BY <1>0, <1>1, <1>2, <1>3 DEF Own, Busy, Early
<1>8. ASSUME NEW e \in Core \ {c} PROVE Own(e)'
  <2>1. Own(e) /\ CoreOK(e)
    BY DEF Rings, RingParts
  <2>2. pc[e] \in {"self", "insert"} => cur'[home[arg[e]]] = cur[home[arg[e]]]
    BY <1>0, <1>2, <1>3, Facts DEF Adding, Busy
  <2>3. CASE e # d
    BY <1>0, <1>1, <1>3, <2>1, <2>2, <2>3 DEF Own, Busy, Early, Quiet
  <2>4. CASE e = d
    <3>1. pc'[d] # "walk" /\ etat'[cur'[d]] # "terminated"
      BY <1>1, <1>2, <1>3, <2>1, <2>4 DEF CoreOK, Quiet
    <3> QED
      BY <1>0, <1>1, <1>3, <2>1, <2>2, <2>4, <3>1 DEF Own, Busy, Early, Quiet
  <2> QED
    BY <2>3, <2>4
<1> QED
  BY <1>5, <1>6, <1>7, <1>8 DEF Rings

\* The links of a list are written.
LEMMA LinksOwn ==
    ASSUME ListInv, LifeInv, RingParts, Rings, NEW c \in Core, Quiet(c), Adding(c),
           UNCHANGED <<cur, etat, home, exec, arg, w>>, NEW y \in Ctx,
           y = arg[c] \/ y = cur[home[arg[c]]],
           \A z \in Ctx \ {y} : nxt'[z] = nxt[z]
    PROVE  \A e \in Core \ {c} : Own(e)'
<1> SUFFICES ASSUME NEW e \in Core \ {c} PROVE Own(e)'
  OBVIOUS
<1>1. Own(e) /\ (pc[e] = "self" => cur[home[arg[e]]] = arg[e])
  BY DEF Rings, Own
<1>2. Busy(e) => arg[e] # y /\ arg[e] \in Ctx
  <2>1. pc[e] \in Early => \A f \in Core : cur[f] # arg[e]
    BY DEF LifeInv, NotYet, Known
  <2>2. Busy(e) => arg[e] # arg[c] /\ arg[e] \in Ctx /\ home[arg[c]] \in Core
    BY Adder, Facts
  <2>3. pc[e] = "self" => cur[home[arg[c]]] # arg[e]
    <3>1. pc[e] = "self" => home[arg[e]] # home[arg[c]]
      BY Adder DEF Adding
    <3>2. cur[home[arg[c]]] # Null => home[cur[home[arg[c]]]] = home[arg[c]]
      BY Adder, Facts
    <3> QED
      BY <2>2, <3>1, <3>2, Numbers DEF Busy
  <2> QED
    BY <2>1, <2>2, <2>3 DEF Busy, Early
<1>3. pc[e] = "insert" => cur[home[arg[e]]] \in Ctx /\ cur[home[arg[e]]] # y
  <2> SUFFICES ASSUME pc[e] = "insert" PROVE cur[home[arg[e]]] \in Ctx /\ cur[home[arg[e]]] # y
    OBVIOUS
  <2>1. home[arg[e]] # home[arg[c]] /\ home[arg[e]] \in Core /\ home[arg[c]] \in Core
    BY Adder, Facts DEF Adding, Busy
  <2>2. cur[home[arg[e]]] \in Ctx /\ home[cur[home[arg[e]]]] = home[arg[e]]
    BY <2>1, Facts
  <2>3. cur[home[arg[c]]] # Null => home[cur[home[arg[c]]]] = home[arg[c]]
    BY <2>1, Facts
  <2> QED
    BY <2>1, <2>2, <2>3, Numbers
<1> QED
  BY <1>1, <1>2, <1>3, OwnKept DEF Quiet

LEMMA WholeSelf ==
    ASSUME ListInv, LifeInv, RingParts, Rings, NEW c \in Core, AddSelf(c)
    PROVE  Rings'
<1>0. PICK x \in Ctx, d \in Core : x = arg[c] /\ d = home[arg[c]]
  BY Adder DEF AddSelf, Adding
<1>1. /\ Quiet(c) /\ UNCHANGED <<cur, etat, home, exec, arg, w, suiv>>
      /\ pc[c] = "self" /\ pc'[c] = IF exec[c] = Boot THEN "yield" ELSE "run"
  BY DEF AddSelf, Added, Goto, Quiet, ListInv, TypeOK
<1>2. /\ Adding(c) /\ x # Null
      /\ \A e \in Core \ {c} : Busy(e) => arg[e] # x
      /\ cur[d] = x /\ nxt[x] = Junk /\ Own(c) /\ home[x] = d
      /\ etat[x] # "terminated" /\ etat[x] # "none"
      /\ cur[c] # Null => etat[cur[c]] # "terminated"
  BY <1>0, <1>1, Adder, Facts, Numbers DEF Adding, Rings, Own, Busy
<1>3. nxt'[x] = x /\ \A y \in Ctx \ {x} : nxt'[y] = nxt[y]
  BY <1>0, <1>2 DEF AddSelf, ListInv, TypeOK
<1>4. \A y \in Ctx \ {x} : Pending(y)' <=> Pending(y)
  BY <1>0, <1>1 DEF Quiet, Pending, Adding
<1>5. ~Pending(x)' /\ etat[x] \in {"ready", "activated"}
  BY <1>0, <1>1, <1>2 DEF Quiet, Pending, Adding, Busy, ListInv, TypeOK
<1>6. Live(d)' = Live(d) \cup {x} /\ \A e \in Core \ {d} : Live(e)' = Live(e)
  BY <1>0, <1>1, <1>2, <1>4, <1>5 DEF Live
<1>7. Live(d) = {}
  BY <1>0, <1>2 DEF Rings, RingPart
<1>8. RingPart(d)'
  <2>1. Ring(nxt', {x})
    BY <1>0, <1>2, <1>3, RingOne
  <2>2. pc'[d] \notin {"del", "find"} /\ (pc'[d] = "walk" => w[d] = x)
    BY <1>0, <1>1, <1>2 DEF Quiet, RingParts, CoreOK, Rings, Own
  <2>3. Whole(d, {x})'
    BY <1>0, <1>1, <1>2, <1>6, <1>7, <2>1, <2>2 DEF Whole
  <2> QED
    BY <1>0, <1>1, <1>2, <1>3, <2>3, Numbers DEF RingPart
<1>9. \A e \in Core \ {d} : RingPart(e)'
  <2> SUFFICES ASSUME NEW e \in Core \ {d} PROVE RingPart(e)'
    OBVIOUS
  <2>1. \A y \in Ctx : y \in Live(e) \/ y = cur[e] => nxt'[y] = nxt[y]
    BY <1>0, <1>2, <1>3, Facts, Numbers DEF Live
  <2>2. RingPart(e)
    BY DEF Rings
  <2> QED
    BY <1>0, <1>1, <1>6, <2>1, <2>2, RingKept DEF Quiet
<1>10. Own(c)'
  BY <1>0, <1>1, <1>2 DEF Own, Busy, Early
<1>11. \A e \in Core \ {c} : Own(e)'
  BY <1>0, <1>1, <1>2, <1>3, LinksOwn
<1> QED
  BY <1>8, <1>9, <1>10, <1>11 DEF Rings

LEMMA WholeLink ==
    ASSUME ListInv, LifeInv, RingParts, Rings, NEW c \in Core, AddLink(c)
    PROVE  Rings'
<1> DEFINE x == arg[c]
           d == home[arg[c]]
<1>1. /\ Quiet(c) /\ UNCHANGED <<cur, etat, home, exec, arg, w, suiv>>
      /\ pc[c] = "link" /\ pc'[c] = "insert"
  BY DEF AddLink, Goto, Quiet, ListInv, TypeOK
<1>2. /\ x \in Ctx /\ d \in Core /\ Adding(c) /\ Pending(x) /\ cur[d] # Null /\ cur[d] \in Ctx
      /\ Own(c) /\ etat[x] = "ready" /\ \A e \in Core : cur[e] # x
  BY <1>1, Adder, Facts DEF Adding, Rings
<1>3. nxt'[x] = nxt[cur[d]] /\ \A y \in Ctx \ {x} : nxt'[y] = nxt[y]
  BY <1>2 DEF AddLink, ListInv, TypeOK
<1>4. \A e \in Core : Live(e)' = Live(e)
  BY <1>1, LiveKept DEF Quiet, Busy
<1>5. Own(c)'
  BY <1>1, <1>2, <1>3 DEF Own, Busy, Early
<1>6. \A e \in Core \ {c} : Own(e)'
  BY <1>1, <1>2, <1>3, LinksOwn
<1> HIDE DEF x, d
<1>7. ASSUME NEW e \in Core PROVE RingPart(e)'
  <2>1. \A y \in Ctx : y \in Live(e) \/ y = cur[e] => nxt'[y] = nxt[y]
    BY <1>2, <1>3 DEF Live
  <2>2. RingPart(e)
    BY DEF Rings
  <2> QED
    BY <1>1, <1>4, <2>1, <2>2, RingKept DEF Quiet
<1> QED
  BY <1>5, <1>6, <1>7 DEF Rings

\* The context comes after the current one, which led where it leads.
LEMMA WholeInsert ==
    ASSUME ListInv, LifeInv, RingParts, Rings, NEW c \in Core, AddInsert(c)
    PROVE  Rings'
<1>0. PICK x \in Ctx, d \in Core, p \in Ctx : x = arg[c] /\ d = home[arg[c]] /\ p = cur[d]
  BY Adder, Facts DEF AddInsert, Adding
<1>1. /\ Quiet(c) /\ UNCHANGED <<cur, etat, home, exec, arg, w, suiv>>
      /\ pc[c] = "insert" /\ pc'[c] = IF exec[c] = Boot THEN "yield" ELSE "run"
  BY DEF AddInsert, Added, Goto, Quiet, ListInv, TypeOK
<1>2. /\ Adding(c) /\ Pending(x) /\ home[x] = d
      /\ p # Null /\ home[p] = d
      /\ \A e \in Core \ {c} : Busy(e) => arg[e] # x
      /\ cur[c] # Null => etat[cur[c]] # "terminated"
      /\ etat[p] # "terminated" /\ etat[x] = "ready" /\ p # x
  BY <1>0, <1>1, Adder, Facts DEF Adding
<1>3. nxt[x] = nxt[p] /\ nxt[x] # Junk
  BY <1>0, <1>1 DEF Rings, Own, RingParts, CoreOK
<1>4. nxt'[p] = x /\ \A y \in Ctx \ {p} : nxt'[y] = nxt[y]
  BY <1>0, <1>2 DEF AddInsert, ListInv, TypeOK
<1>5. \A y \in Ctx \ {x} : Pending(y)' <=> Pending(y)
  BY <1>0, <1>1 DEF Quiet, Pending, Adding
<1>6. ~Pending(x)'
  BY <1>0, <1>1, <1>2 DEF Quiet, Pending, Adding, Busy
<1>7. \A e \in Core \ {c} : Own(e)'
  BY <1>0, <1>1, <1>2, <1>4, LinksOwn
<1>8. Live(d)' = Live(d) \cup {x} /\ \A e \in Core \ {d} : Live(e)' = Live(e)
  BY <1>0, <1>1, <1>2, <1>5, <1>6 DEF Live
<1>9. RingPart(d)'
  <2>1. PICK M : Whole(d, M)
    BY <1>0, <1>2, <1>3 DEF Rings, RingPart
  <2>2. p \in M /\ x \notin M /\ Ring(nxt, M) /\ M \subseteq Ctx
    BY <1>0, <1>2, <2>1 DEF Whole, Live, Ring
  <2>3. Ring(nxt', M \cup {x})
    <3>1. /\ \A y \in M \ {p} : nxt'[y] = nxt[y]
          /\ nxt'[x] = nxt[p] /\ x \in Ctx \ M
      BY <1>0, <1>2, <1>3, <1>4, <2>2
    <3> QED
      BY <1>0, <1>4, <2>2, <3>1, RingGrows
  <2>4. pc'[d] \notin {"del", "find"} /\ (pc'[d] = "walk" => w[d] \in M \cup {p})
    BY <1>0, <1>1, <1>2, <2>1 DEF Quiet, RingParts, CoreOK, Whole
  <2>5. Whole(d, M \cup {x})'
    BY <1>0, <1>1, <1>2, <1>8, <2>1, <2>2, <2>3, <2>4 DEF Whole
  <2> QED
    BY <1>0, <1>1, <1>2, <1>4, <2>5, Numbers DEF RingPart
<1>10. ASSUME NEW e \in Core \ {d} PROVE RingPart(e)'
  <2>1. \A y \in Ctx : y \in Live(e) \/ y = cur[e] => nxt'[y] = nxt[y]
    BY <1>0, <1>2, <1>4, Facts, Numbers DEF Live
  <2>2. RingPart(e)
    BY DEF Rings
  <2> QED
    BY <1>0, <1>1, <1>8, <2>1, <2>2, RingKept DEF Quiet
<1>11. Own(c)'
  BY <1>0, <1>1, <1>2 DEF Own, Busy, Early
<1> QED
  BY <1>7, <1>9, <1>10, <1>11 DEF Rings

LEMMA WholeCreate ==
    ASSUME ListInv, LifeInv, RingParts, Rings, NEW c \in Core,
           CoreStarts(c) \/ MainStarts(c) \/ Dispatch(c)
    PROVE  Rings'
<1>1. PICK x \in Ctx, d \in Core :
         Create(c, x, d) /\ etat[x] = "none" /\ pc[c] \in {"boot", "run"}
  <2>1. CASE CoreStarts(c)
    BY <2>1, Numbers DEF CoreStarts, ListInv, Fresh
  <2>2. CASE MainStarts(c)
    BY <2>2, Numbers DEF MainStarts, ListInv, Fresh
  <2>3. CASE Dispatch(c)
    <3>1. sent + 1 \in sent + 1 .. NTask /\ sent + 1 \in 1 .. NTask /\ rr \in Core
      BY <2>3, SizeAssumption DEF Dispatch, ListInv, TypeOK
    <3> QED
      BY <2>3, <3>1, Numbers DEF Dispatch, ListInv, Fresh
  <2> QED
    BY <2>1, <2>2, <2>3
<1>2. /\ UNCHANGED <<cur, nxt, exec, w, suiv>>
      /\ \A e \in Core \ {c} : pc'[e] = pc[e] /\ arg'[e] = arg[e]
      /\ pc'[c] = "add" /\ arg'[c] = x
      /\ \A y \in Ctx : etat'[y] = IF y = x THEN "ready" ELSE etat[y]
      /\ \A y \in Ctx \ {x} : home'[y] = home[y]
  BY <1>1 DEF Create, Goto, ListInv, TypeOK
<1>3. /\ ~Busy(c) /\ \A e \in Core : Busy(e) => arg[e] # x /\ arg[e] \in Ctx
      /\ \A e \in Core : cur[e] # Null => cur[e] # x /\ cur[e] \in Ctx
      /\ nxt[x] = Junk
  BY <1>1, Facts DEF Busy, ListInv, TypeOK, Link, OwnLink
<1>4. \A e \in Core : Live(e)' = Live(e)
  <2>1. \A y \in Ctx \ {x} : Pending(y)' <=> Pending(y)
    BY <1>2, <1>3 DEF Pending, Adding, Busy
  <2>2. Pending(x)'
    BY <1>2 DEF Pending
  <2> QED
    BY <1>1, <1>2, <2>1, <2>2 DEF Live
<1>5. ASSUME NEW e \in Core PROVE RingPart(e)'
  <2>1. RingPart(e) /\ (cur[e] # Null => etat'[cur[e]] = etat[cur[e]])
    BY <1>2, <1>3 DEF Rings
  <2> QED
    BY <1>1, <1>2, <1>4, <2>1, RingKept
<1>6. Own(c)'
  <2>1. cur[c] # Null => etat'[cur[c]] # "terminated"
    <3>1. pc[c] = "boot" => exec[c] = Boot
      BY DEF LifeInv, Adds
    <3> QED
      BY <1>1, <1>2, <1>3, <3>1 DEF Rings, Own
  <2> QED
    BY <1>2, <1>3, <2>1 DEF Own, Busy, Early
<1>7. ASSUME NEW e \in Core \ {c} PROVE Own(e)'
  <2>1. Own(e) /\ (cur[e] # Null => etat'[cur[e]] = etat[cur[e]])
    BY <1>2, <1>3 DEF Rings
  <2>2. Busy(e) => home'[arg[e]] = home[arg[e]]
    BY <1>2, <1>3
  <2> QED
    BY <1>2, <2>1, <2>2, OwnKept
<1> QED
  BY <1>5, <1>6, <1>7 DEF Rings

-----------------------------------------------------------------------------
(* The theorem.                                                             *)

LEMMA WholeStep ==
    ASSUME ListInv, LifeInv, RingInv, WholeInv, [Next]_vars
    PROVE  WholeInv'
<1>1. ASSUME NEW c \in Core, Step(c), ~raced' PROVE Rings'
  <2>1. RingParts /\ Rings /\ ~Overlap' /\ ~crashed
    BY <1>1 DEF Step, Remember, RingInv, WholeInv
  <2> QED
    BY <1>1, <2>1, WholeWalk, WholeReturn, WholeCut, WholeSetCurrent, WholeCall, WholePublish,
       WholeSelf, WholeLink, WholeInsert, WholeCreate DEF Step, Work
<1>2. CASE UNCHANGED vars
  BY <1>2 DEF vars, lists, here, shell, WholeInv, Rings, Own, RingPart, Whole, Live, Pending, Adding,
     Busy
<1> QED
  BY <1>1, <1>2 DEF Next, WholeInv

LEMMA WholeAlways == Spec => [](ListInv /\ RingInv /\ WholeInv)
<1>1. Init => ListInv /\ LifeInv /\ RingInv /\ WholeInv
  BY InitListInv, LifeInit, RingInit, WholeInit
<1>2. ListInv /\ LifeInv /\ RingInv /\ WholeInv /\ [Next]_vars =>
         (ListInv /\ LifeInv /\ RingInv /\ WholeInv)'
  BY NextListInv, LifeStep, RingStep, WholeStep
<1> QED
  BY <1>1, <1>2, PTL DEF Spec

\* For any number of cores and commands, as long as the writers of a list do not meet:
\* the walk of yield() goes through every context of its core that was added and is
\* not over, and through no other that it could run.
THEOREM WalkComplete == Spec => []RingComplete
<1>1. ASSUME ListInv, RingParts, Rings, NEW c \in Core, pc[c] # "find", cur[c] # Null,
             ~Pending(cur[c])
      PROVE  Live(c) = {x \in Walk(c) : etat[x] # "terminated" /\ ~Pending(x)}
  <2>1. cur[c] \in Ctx /\ home[cur[c]] = c /\ etat[cur[c]] # "none"
    BY <1>1, Facts
  <2>2. nxt[cur[c]] # Junk
    BY <1>1 DEF RingParts, CoreOK, CurOK, Pending, Adding
  <2>3. PICK M : Whole(c, M)
    BY <1>1, <2>2 DEF Rings, RingPart
  <2>4. M \subseteq Walk(c) /\ Walk(c) \subseteq M \cup {cur[c]}
    BY <1>1, <2>3, WalkIs DEF Whole
  <2>5. cur[c] \in Live(c) \/ etat[cur[c]] = "terminated"
    BY <1>1, <2>1 DEF Live, ListInv, TypeOK
  <2>6. \A x \in Live(c) : x \in M /\ etat[x] # "terminated" /\ ~Pending(x)
    BY <2>3 DEF Whole, Live
  <2>7. M \subseteq Live(c) \cup {cur[c]}
    BY <2>3 DEF Whole
  <2> QED
    BY <2>4, <2>5, <2>6, <2>7
<1>2. ListInv /\ RingInv /\ WholeInv => RingComplete
  BY <1>1 DEF RingInv, WholeInv, RingComplete, Live
<1> QED
  BY <1>2, WholeAlways, PTL
===============================================================================
