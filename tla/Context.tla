------------------------------- MODULE Context -------------------------------
(***************************************************************************)
(* The contexts and their circular lists, one list per core:                *)
(* src/ordonnancement/context.c, with the start of the cores                *)
(* (src/initialisation.c) and the clients that create contexts: main and    *)
(* the shell (src/shell).                                                   *)
(*                                                                          *)
(* irq_disable() masks the interrupts of the core that calls it and nothing *)
(* else: the cores share ctxs[] and the links without any lock (CORE_LOCK is*)
(* never used).  So every access to them is a step of its own, and the only *)
(* thing the mask rules out is a timer interrupt in the middle of add_ctx   *)
(* or del_ctx: next_ctx() enables the interrupts again, and the switch runs *)
(* with the timer.  No context is BLOCKED: nothing the shell starts takes a *)
(* semaphore.                                                               *)
(***************************************************************************)
EXTENDS Integers

CONSTANTS
    NCore,      \* N_CORE_MAX
    NTask       \* how many "&" commands the user types

ASSUME SizeAssumption == NCore \in Nat /\ NCore >= 2 /\ NTask \in Nat

Core == 0 .. NCore - 1

\* struct ctx_s pointers, in the order of creation on each core.
Null == 0
Junk == -1                  \* ctx_next of a struct fresh from malloc
Idle(c) == c                \* empty_fun, on every core but core 0
Shell   == NCore
Task(k) == NCore + k
Ctx     == 1 .. NCore + NTask
Link    == {Junk} \cup Ctx
Boot    == Null             \* in exec: main, or the function that starts a core

VARIABLES
    cur,        \* ctxs[core]
    nxt,        \* ctx_next of each context
    etat,       \* ctx_etat of each context, "none" before its creation
    home,       \* the core each context was created for
    exec,       \* whose code each core runs
    pc,         \* what it does next
    arg,        \* the ctx parameter of the add_ctx or del_ctx under way
    w,          \* ctx of yield, precedent of del_ctx
    suiv,       \* suivant of del_ctx
    rr,         \* core of cmd.c: where the next command goes
    sent,       \* the commands sent so far
    crashed,    \* a segmentation fault or an assertion: the process is over;
                \* or one of its cores goes on with memory that was never written
    raced       \* add_ctx met another writer of the same list (properties only)

lists == <<cur, nxt, etat, home>>
here  == <<exec, pc, arg, w, suiv>>
shell == <<rr, sent>>
vars  == <<lists, here, shell, crashed, raced>>

Goto(c, l) == pc' = [pc EXCEPT ![c] = l]

-----------------------------------------------------------------------------
(* When two writers of a list meet.  An add_ctx is under way from the test  *)
(* of ctxs[core] to its last write.                                         *)

Adding(c) == pc[c] \in {"publish", "self", "link", "insert"}

Overlap ==
    \E c \in Core : Adding(c) /\
        LET d == home[arg[c]]
        IN  \/ \E e \in Core \ {c} : Adding(e) /\ home[arg[e]] = d
            \* ... or the current context of the list is on its way out.
            \/ d # c /\ cur[d] # Null /\ etat[cur[d]] = "terminated"

Remember == raced' = (raced \/ Overlap')

-----------------------------------------------------------------------------
Init ==
    /\ cur = [c \in Core |-> Null]
    /\ nxt = [x \in Ctx |-> Junk]
    /\ etat = [x \in Ctx |-> "none"]
    /\ home = [x \in Ctx |-> 0]
    /\ exec = [c \in Core |-> Boot]
    /\ pc = [c \in Core |-> "boot"]
    /\ arg = [c \in Core |-> Null]
    /\ w = [c \in Core |-> Null]
    /\ suiv = [c \in Core |-> Null]
    /\ rr = 0 /\ sent = 0
    /\ crashed = FALSE /\ raced = FALSE

-----------------------------------------------------------------------------
(* create_ctx_on_core, up to add_ctx.                                       *)

Create(c, x, d) ==
    /\ etat' = [etat EXCEPT ![x] = "ready"]
    /\ home' = [home EXCEPT ![x] = d]
    /\ arg' = [arg EXCEPT ![c] = x]
    /\ Goto(c, "add")
    /\ UNCHANGED <<cur, nxt, exec, w, suiv, crashed>>

\* The function of IRQVECTOR[0] on the cores that mkhd() has just switched on.
CoreStarts(c) ==
    /\ c # 0 /\ pc[c] = "boot"
    /\ Create(c, Idle(c), c)
    /\ UNCHANGED shell

\* main(), after mkhd(): create_ctx() knows only of core 1.
MainStarts(c) ==
    /\ c = 0 /\ pc[c] = "boot"
    /\ Create(c, Shell, 1)
    /\ UNCHANGED shell

\* Mistake: the turn does not come back.
NextCoreOn(r) == r + 1

\* execute() of a "&" command.
NextCore(r) == LET n == (r + 1) % NCore IN IF n = 0 THEN 1 ELSE n

Dispatch(c) ==
    /\ pc[c] = "run" /\ exec[c] = Shell
    /\ sent < NTask
    /\ Create(c, Task(sent + 1), rr)
    /\ sent' = sent + 1
    /\ rr' = NextCore(rr)

-----------------------------------------------------------------------------
(* add_ctx.  ctxs[core] is read for the test, and again for each link.      *)

\* A start goes on with yield(), the shell with the next command.
Added(c) == Goto(c, IF exec[c] = Boot THEN "yield" ELSE "run")

\* Mistake: every list is taken for an empty one.
AddTestNothing(c) ==
    /\ pc[c] = "add"
    /\ Goto(c, "publish")
    /\ UNCHANGED <<lists, exec, arg, w, suiv, shell, crashed>>

AddTest(c) ==
    /\ pc[c] = "add"
    /\ Goto(c, IF cur[home[arg[c]]] = Null THEN "publish" ELSE "link")
    /\ UNCHANGED <<lists, exec, arg, w, suiv, shell, crashed>>

\* Mistake: the list of the core that creates, not of the one asked for.
AddPublishHere(c) ==
    /\ pc[c] = "publish"
    /\ cur' = [cur EXCEPT ![c] = arg[c]]
    /\ Goto(c, "self")
    /\ UNCHANGED <<nxt, etat, home, exec, arg, w, suiv, shell, crashed>>

\* An empty list: the context is there before it has a successor.
AddPublish(c) ==
    /\ pc[c] = "publish"
    /\ cur' = [cur EXCEPT ![home[arg[c]]] = arg[c]]
    /\ Goto(c, "self")
    /\ UNCHANGED <<nxt, etat, home, exec, arg, w, suiv, shell, crashed>>

\* Mistake: the ring is not closed.
AddSelfNothing(c) ==
    /\ pc[c] = "self"
    /\ Added(c)
    /\ UNCHANGED <<lists, exec, arg, w, suiv, shell, crashed>>

AddSelf(c) ==
    /\ pc[c] = "self"
    /\ nxt' = [nxt EXCEPT ![arg[c]] = arg[c]]
    /\ Added(c)
    /\ UNCHANGED <<cur, etat, home, exec, arg, w, suiv, shell, crashed>>

\* Mistake: the new context does not lead to the rest of the ring.
AddLinkSelf(c) ==
    /\ pc[c] = "link"
    /\ nxt' = [nxt EXCEPT ![arg[c]] = arg[c]]
    /\ Goto(c, "insert")
    /\ UNCHANGED <<cur, etat, home, exec, arg, w, suiv, shell, crashed>>

\* Otherwise it comes after the current context.
AddLink(c) ==
    /\ pc[c] = "link"
    /\ nxt' = [nxt EXCEPT ![arg[c]] = nxt[cur[home[arg[c]]]]]
    /\ Goto(c, "insert")
    /\ UNCHANGED <<cur, etat, home, exec, arg, w, suiv, shell, crashed>>

AddInsert(c) ==
    /\ pc[c] = "insert"
    /\ nxt' = [nxt EXCEPT ![cur[home[arg[c]]]] = arg[c]]
    /\ Added(c)
    /\ UNCHANGED <<cur, etat, home, exec, arg, w, suiv, shell, crashed>>

-----------------------------------------------------------------------------
(* yield, next_ctx and switch_to_ctx.                                       *)

\* yield() follows ctxs[core] and the link for its message; next_ctx() returns
\* the current context itself.  What is behind a junk link may be readable.
Yield(c) ==
    /\ pc[c] = "yield"
    /\ \/ /\ cur[c] # Null
          /\ w' = [w EXCEPT ![c] = cur[c]]
          /\ Goto(c, "walk")
          /\ UNCHANGED crashed
       \/ /\ \/ cur[c] = Null
             \/ cur[c] # Null /\ nxt[cur[c]] = Junk
          /\ crashed' = TRUE
          /\ UNCHANGED <<w, pc>>
    /\ UNCHANGED <<lists, exec, arg, suiv, shell>>

\* "while (ctx != NULL && ctx->ctx_etat == TERMINATED)"
Skip(c) ==
    /\ pc[c] = "walk"
    /\ w[c] # Junk /\ etat[w[c]] = "terminated"
    /\ w' = [w EXCEPT ![c] = nxt[w[c]]]
    /\ UNCHANGED <<lists, exec, pc, arg, suiv, shell, crashed>>

\* The walk, or precedent in del_ctx, goes through a link that was never set.
Lost(c) ==
    /\ pc[c] \in {"walk", "find"}
    /\ w[c] = Junk
    /\ crashed' = TRUE
    /\ UNCHANGED <<lists, here, shell>>

\* switch_to_ctx, its local variables still on the stack of the caller: ctxs[core]
\* changes first, then the stack.
SetCurrent(c) ==
    /\ pc[c] = "walk"
    /\ w[c] # Junk /\ etat[w[c]] # "terminated"
    /\ cur' = [cur EXCEPT ![c] = w[c]]
    /\ Goto(c, IF w[c] = cur[c] THEN "test" ELSE "load")
    /\ UNCHANGED <<nxt, etat, home, exec, arg, w, suiv, shell, crashed>>

\* The stack of the current context, saved a moment ago, is the one in use.  That of
\* another context is as malloc left it, and core is read again from it: it may be
\* the number of this core, and is anything otherwise.
Load(c) ==
    /\ pc[c] = "load"
    /\ \/ Goto(c, "test") /\ UNCHANGED crashed
       \/ crashed' = TRUE /\ UNCHANGED pc
    /\ UNCHANGED <<lists, exec, arg, w, suiv, shell>>

\* READY?  Otherwise yield() returns, to the function of the context that called it,
\* or that the timer interrupted.
Test(c) ==
    /\ pc[c] = "test"
    /\ \/ etat[cur[c]] = "ready" /\ Goto(c, "call")
       \/ etat[cur[c]] # "ready" /\ exec[c] = cur[c] /\ Goto(c, "run")
    /\ UNCHANGED <<lists, exec, arg, w, suiv, shell, crashed>>

\* A context that was suspended without its stack being saved, after another core
\* wrote over ctxs[core]: it returns to nowhere.
Nowhere(c) ==
    /\ pc[c] = "test"
    /\ etat[cur[c]] # "ready" /\ exec[c] # cur[c]
    /\ crashed' = TRUE
    /\ UNCHANGED <<lists, here, shell>>

\* Mistake: the context stays READY while its function runs.
CallReady(c) ==
    /\ pc[c] = "call"
    /\ exec' = [exec EXCEPT ![c] = cur[c]]
    /\ Goto(c, "run")
    /\ UNCHANGED <<lists, arg, w, suiv, shell, crashed>>

\* ACTIVATED, and its function is called.
Call(c) ==
    /\ pc[c] = "call"
    /\ etat' = [etat EXCEPT ![cur[c]] = "activated"]
    /\ exec' = [exec EXCEPT ![c] = cur[c]]
    /\ Goto(c, "run")
    /\ UNCHANGED <<cur, nxt, home, arg, w, suiv, shell, crashed>>

\* The timer, on the cores it is mapped to, wherever the interrupts are enabled: also
\* before function() has made a context, and in the middle of a yield(), from the
\* return of next_ctx to the call.  The yield() of the handler does what is left of
\* the one that it interrupted: either it never returns, or that one has only to.
Timer(c) ==
    /\ c # 0 /\ pc[c] \in {"boot", "run", "walk", "load", "test", "call"}
    /\ Goto(c, "yield")
    /\ UNCHANGED <<lists, exec, arg, w, suiv, shell, crashed>>

\* A command, or the shell after "exit", returns to switch_to_ctx.
Return(c) ==
    /\ pc[c] = "run" /\ exec[c] \notin {Idle(d) : d \in Core \ {0}}
    /\ etat' = [etat EXCEPT ![cur[c]] = "terminated"]
    /\ arg' = [arg EXCEPT ![c] = cur[c]]
    /\ Goto(c, "del")
    /\ UNCHANGED <<cur, nxt, home, exec, w, suiv, shell, crashed>>

-----------------------------------------------------------------------------
(* del_ctx, then yield().                                                   *)

\* The only one of its list stays in it.
DelAlone(c) ==
    /\ pc[c] = "del"
    /\ nxt[arg[c]] = arg[c]
    /\ Goto(c, "yield")
    /\ UNCHANGED <<lists, exec, arg, w, suiv, shell, crashed>>

DelRead(c) ==
    /\ pc[c] = "del"
    /\ nxt[arg[c]] # arg[c]
    /\ suiv' = [suiv EXCEPT ![c] = nxt[arg[c]]]
    /\ w' = [w EXCEPT ![c] = arg[c]]
    /\ Goto(c, "find")
    /\ UNCHANGED <<lists, exec, arg, shell, crashed>>

DelFind(c) ==
    /\ pc[c] = "find"
    /\ w[c] # Junk /\ nxt[w[c]] # arg[c]
    /\ w' = [w EXCEPT ![c] = nxt[w[c]]]
    /\ UNCHANGED <<lists, exec, pc, arg, suiv, shell, crashed>>

DelCut(c) ==
    /\ pc[c] = "find"
    /\ w[c] # Junk /\ nxt[w[c]] = arg[c]
    /\ nxt' = [nxt EXCEPT ![w[c]] = suiv[c]]
    /\ Goto(c, "yield")
    /\ UNCHANGED <<cur, etat, home, exec, arg, w, suiv, shell, crashed>>

-----------------------------------------------------------------------------
\* What a core does without anybody asking.
Work(c) ==
    \/ CoreStarts(c) \/ MainStarts(c)
    \/ AddTest(c) \/ AddPublish(c) \/ AddSelf(c) \/ AddLink(c) \/ AddInsert(c)
    \/ Yield(c) \/ Skip(c) \/ Lost(c)
    \/ SetCurrent(c) \/ Load(c) \/ Test(c) \/ Nowhere(c) \/ Call(c)
    \/ DelAlone(c) \/ DelRead(c) \/ DelFind(c) \/ DelCut(c)

Step(c) ==
    /\ ~crashed
    /\ Work(c) \/ Dispatch(c) \/ Return(c) \/ Timer(c)
    /\ Remember

Next == \E c \in Core : Step(c)

Spec == Init /\ [][Next]_vars

\* Each core runs, the timer comes back, and a command ends although the timer
\* interrupts it.  yield() arms the alarm again before it walks: the timer does
\* not cut every walk, nor every switch.  Nothing is said of the user.
Fairness == \A c \in Core :
    /\ WF_vars(~crashed /\ Work(c) /\ Remember)
    /\ SF_vars(~crashed /\ Skip(c) /\ Remember)
    /\ SF_vars(~crashed /\ SetCurrent(c) /\ Remember)
    /\ SF_vars(~crashed /\ Load(c) /\ Remember)
    /\ SF_vars(~crashed /\ Test(c) /\ Remember)
    /\ SF_vars(~crashed /\ Call(c) /\ Remember)
    /\ SF_vars(~crashed /\ pc[c] = "run" /\ Timer(c) /\ Remember)
    /\ SF_vars(~crashed /\ exec[c] # Shell /\ Return(c) /\ Remember)

FairSpec == Spec /\ Fairness

\* The least of it: a core does not stop between two instructions.
CoreSpec == Spec /\ \A c \in Core : WF_vars(~crashed /\ Work(c) /\ Remember)

-----------------------------------------------------------------------------
(* What is checked.                                                         *)

Label == {"boot", "add", "publish", "self", "link", "insert", "yield", "walk",
          "load", "test", "call", "run", "del", "find"}

\* An operation under way has the pointers it needs.
Operands(c) ==
    /\ pc[c] \in {"add", "publish", "self", "link", "insert", "del", "find"} =>
          arg[c] \in Ctx
    /\ pc[c] \in {"link", "insert"} => cur[home[arg[c]]] # Null
    /\ pc[c] \in {"walk", "find"} => w[c] # Null
    /\ pc[c] = "find" => suiv[c] # Null
    /\ pc[c] \in {"run", "del", "find"} => exec[c] # Boot
    /\ pc[c] \in {"load", "test", "call", "run", "del", "find"} => cur[c] # Null

\* The types, with the operands.
TypeOK ==
    /\ cur \in [Core -> {Null} \cup Ctx]
    /\ nxt \in [Ctx -> Link]
    /\ etat \in [Ctx -> {"none", "ready", "activated", "terminated"}]
    /\ home \in [Ctx -> Core]
    /\ exec \in [Core -> {Boot} \cup Ctx]
    /\ pc \in [Core -> Label]
    /\ arg \in [Core -> {Null} \cup Ctx]
    /\ w \in [Core -> {Null} \cup Link]
    /\ suiv \in [Core -> {Null} \cup Link]
    /\ rr \in Core /\ sent \in 0 .. NTask
    /\ crashed \in BOOLEAN /\ raced \in BOOLEAN
    /\ \A c \in Core : Operands(c)

\* Whatever the cores do to each other's lists, a core only ever runs, and only
\* ever links, contexts that were created for it: no context on two cores.
Pinned ==
    /\ \A c \in Core :
        /\ cur[c] # Null => home[cur[c]] = c
        /\ exec[c] # Boot => home[exec[c]] = c
    /\ \A x \in Ctx : nxt[x] # Junk => home[nxt[x]] = home[x]

\* A context's function is called once, on its own core, and what ends is a
\* context that was started: no call is repeated and none is skipped, wherever the
\* timer cuts the switch, between the READY of the test and ACTIVATED too.
Lifecycle == [][\A x \in Ctx :
    /\ etat'[x] # etat[x] =>
        \/ etat[x] = "none" /\ etat'[x] = "ready"
        \/ etat[x] = "ready" /\ etat'[x] = "activated" /\ exec'[home[x]] = x
        \/ etat[x] = "activated" /\ etat'[x] = "terminated" /\ pc'[home[x]] = "del"
    /\ \A c \in Core : pc[c] = "call" /\ pc'[c] = "run" /\ exec'[c] = x =>
          etat[x] = "ready" /\ etat'[x] = "activated"]_vars

\* As long as the writers of a list never met, switch_to_ctx marks the context
\* whose function returned, not the one that is current by then.
Switching == {"yield", "walk", "load", "test", "call"}
EndsItself ==
    ~raced => \A c \in Core : exec[c] # Boot /\ pc[c] \notin Switching => cur[c] = exec[c]

\* ... the contexts of a core that were added and are not over are exactly
\* those that the walk of yield() goes through.
Pending(x) == \E c \in Core : arg[c] = x /\ (pc[c] = "add" \/ Adding(c))
Walk(c) ==
    LET walk[n \in 0 .. NCore + NTask] ==
            IF n = 0 THEN cur[c]
            ELSE IF walk[n - 1] \in Ctx THEN nxt[walk[n - 1]] ELSE Junk
    IN  {walk[n] : n \in DOMAIN walk} \cap Ctx
RingComplete ==
    ~raced => \A c \in Core :
        pc[c] # "find" /\ cur[c] # Null /\ ~Pending(cur[c]) =>
            {x \in Ctx : home[x] = c /\ etat[x] \in {"ready", "activated"} /\ ~Pending(x)}
                = {x \in Walk(c) : etat[x] # "terminated" /\ ~Pending(x)}

\* ... and there are three ways to lose the process: the yield() at the end of main,
\* or of an alarm that comes before function() has made a context, on a core whose
\* first context is not there or not linked yet; and the switch to a context on whose
\* stack core was never written.
CrashExplained ==
    crashed /\ ~raced => \E c \in Core :
        \/ /\ pc[c] = "yield"
           /\ cur[c] = Null \/ Pending(cur[c])
           /\ IF c = 0 THEN exec[c] = Boot ELSE etat[Idle(c)] = "none"
        \/ pc[c] = "load" /\ etat[exec[c]] = "terminated"

\* The end of a context never keeps its core in del_ctx, where no interrupt
\* can get it out, unless the writers of a list met.
DelEnds == \A c \in Core : pc[c] = "find" ~> (pc[c] # "find" \/ crashed \/ raced)

\* "des commandes qui seront ordonnancees par le code de gestion de contexte"
\* (README.md:10): a command sent to a core gets its turn.
EveryCommandRuns ==
    \A k \in 1 .. NTask :
        sent >= k ~> \/ etat[Task(k)] \in {"activated", "terminated"}
                     \/ crashed \/ raced
=============================================================================
