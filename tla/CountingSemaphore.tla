-------------------------- MODULE CountingSemaphore --------------------------
(***************************************************************************)
(* What the clients of the semaphores of src/ordonnancement/context.c rely  *)
(* on: a down takes a permit or waits, an up hands its permit to one that   *)
(* waits or puts it back.  No list, and no counter below zero.              *)
(***************************************************************************)
EXTENDS Integers

CONSTANTS
    Ctx,        \* the contexts that call
    Sem,        \* the semaphores
    Val         \* the permits of each at the start

VARIABLES
    free,       \* the permits that nobody has
    calls       \* what each context asks of which semaphores: <<op, s>>, at most one

vars == <<free, calls>>

Init ==
    /\ free = Val
    /\ calls = [x \in Ctx |-> {}]

Call(x, op, s) ==
    /\ calls[x] = {}
    /\ calls' = [calls EXCEPT ![x] = {<<op, s>>}]
    /\ UNCHANGED free

Take(x, s) ==
    /\ calls[x] = {<<"down", s>>} /\ free[s] > 0
    /\ calls' = [calls EXCEPT ![x] = {}]
    /\ free' = [free EXCEPT ![s] = @ - 1]

Wait(x, s) ==
    /\ calls[x] = {<<"down", s>>} /\ free[s] = 0
    /\ calls' = [calls EXCEPT ![x] = {<<"wait", s>>}]
    /\ UNCHANGED free

\* A permit is put back when nobody waits for it ...
Give(x, s) ==
    /\ calls[x] = {<<"up", s>>}
    /\ \A y \in Ctx : calls[y] # {<<"wait", s>>}
    /\ calls' = [calls EXCEPT ![x] = {}]
    /\ free' = [free EXCEPT ![s] = @ + 1]

\* ... and goes from hand to hand otherwise.
Hand(x, y, s) ==
    /\ calls[x] = {<<"up", s>>} /\ calls[y] = {<<"wait", s>>}
    /\ calls' = [calls EXCEPT ![x] = {}, ![y] = {}]
    /\ UNCHANGED free

Next == \E x \in Ctx, s \in Sem :
    \/ Call(x, "down", s) \/ Call(x, "up", s)
    \/ Take(x, s) \/ Wait(x, s)
    \/ Give(x, s) \/ \E y \in Ctx : Hand(x, y, s)

Spec == Init /\ [][Next]_vars
=============================================================================
