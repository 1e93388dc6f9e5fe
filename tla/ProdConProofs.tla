---------------------------- MODULE ProdConProofs ----------------------------
(***************************************************************************)
(* Proofs about the semaphores and their clients, for any number of         *)
(* contexts and any stack.                                                  *)
(***************************************************************************)
EXTENDS ProdCon, FiniteSetTheorems, TLAPS

USE SemAssumption

-----------------------------------------------------------------------------
(* The invariant.                                                           *)

\* From the decrement to the push, and from the increment to the unlinking.
Down(x, s) == sem[x] = s /\ pc[x] \in {"downtest", "block", "link", "push"}
Up(x, s)   == sem[x] = s /\ pc[x] \in {"uptest", "pick", "wake", "unlink"}

\* The counter, without the operation that is under way.
Level(s) ==
    IF \E x \in Ctx : Down(x, s) THEN count[s] + 1
    ELSE IF \E x \in Ctx : Up(x, s) THEN count[s] - 1 ELSE count[s]

\* Those on the list: they wait, or were woken and not yet taken off.
Asleep(y, s) == pc[y] = "spin" /\ etat[y] = "blocked" /\ sem[y] = s
Woken(y, s)  == \E x \in Ctx : pc[x] = "unlink" /\ sem[x] = s /\ tmp[x] = y
Linked(y, s) == Asleep(y, s) \/ Woken(y, s)

\* The list of a semaphore is f[n], ..., f[1].
Chain(s, n, f) ==
    /\ \A i \in 1 .. n : Linked(f[i], s)
    /\ \A y \in Ctx : Linked(y, s) => \E i \in 1 .. n : f[i] = y
    /\ \A i, j \in 1 .. n : f[i] = f[j] => i = j
    /\ list[s] = IF n = 0 THEN Null ELSE f[n]
    /\ \A i \in 1 .. n : next[f[i]] = IF i = 1 THEN Null ELSE f[i - 1]

\* Below zero, the counter says how many wait.
Counted(s, n) == IF n = 0 THEN Level(s) >= 0 ELSE Level(s) = -n

ListOK(s) == \E n \in Nat : \E f \in [1 .. n -> Ctx] : Chain(s, n, f) /\ Counted(s, n)

\* What an operation holds of the semaphore is still true of it.
HoldsOK(x) ==
    /\ pc[x] \in {"downwrite", "upwrite"} => reg[x] = count[sem[x]]
    /\ pc[x] \in {"block", "link", "push"} => count[sem[x]] < 0
    /\ pc[x] \in {"pick", "wake", "unlink"} => count[sem[x]] <= 0
    /\ pc[x] \in {"wake", "unlink"} => tmp[x] = list[sem[x]]
    /\ pc[x] = "push" => next[x] = list[sem[x]]

EtatOK(x) ==
    /\ pc[x] \in {"link", "push"} => etat[x] = "blocked"
    /\ etat[x] = "blocked" => pc[x] \in {"link", "push", "spin"}
    /\ pc[x] = "unlink" => etat[tmp[x]] = "activated" /\ tmp[x] # x

Sound ==
    /\ \A x \in Ctx : HoldsOK(x) /\ EtatOK(x)
    /\ \A s \in Sem : ListOK(s)

IInv == TypeOK /\ (~raced => ~Overlap /\ Sound)

-----------------------------------------------------------------------------
LEMMA TypesFirst == Init => TypeOK
<1> USE DEF TypeOK, SemTypeOK, Label
<1> SUFFICES ASSUME Init PROVE TypeOK
  OBVIOUS
<1>1. crashed \in BOOLEAN /\ raced \in BOOLEAN
  BY DEF Init, SemInit
<1>2. Val \in [Sem -> Int]
  BY SemAssumption
<1> QED
  BY <1>1, <1>2, ProdConAssumption DEF Init, SemInit

LEMMA TypesKept ==
    ASSUME TypeOK, [Next]_vars
    PROVE  TypeOK'
<1> USE DEF TypeOK, SemTypeOK, Label, semVars, semaphores, locals, Goto, Call, Then
<1>1. CASE UNCHANGED vars
  BY <1>1 DEF vars
<1>2. ASSUME NEW x \in Ctx, Step(x) PROVE TypeOK'
  <2>1. Remember /\ raced' \in BOOLEAN
    BY <1>2 DEF Step, Remember
  <2>2. CASE Client(x)
    BY <2>1, <2>2, ProdConAssumption
    DEF Client, Want, Lock, ReadCpt, WriteCpt, Unlock, Give, Takes, Gives, Change
  <2>3. CASE Operation(x) /\ UNCHANGED <<at, cpt, val, stock>>
    <3>1. CASE DownRead(x) \/ DownWrite(x) \/ DownTest(x)
      BY <2>1, <2>3, <3>1 DEF DownRead, DownWrite, DownTest
    <3>2. CASE DownBlock(x) \/ DownLink(x) \/ DownPush(x) \/ Spin(x)
      BY <2>1, <2>3, <3>2 DEF DownBlock, DownLink, DownPush, Spin
    <3>3. CASE UpRead(x) \/ UpWrite(x) \/ UpTest(x)
      BY <2>1, <2>3, <3>3 DEF UpRead, UpWrite, UpTest
    <3>4. CASE UpPick(x) \/ UpUnlink(x)
      BY <2>1, <2>3, <3>4 DEF UpPick, UpUnlink
    <3>5. CASE UpWake(x)
      BY <2>1, <2>3, <3>5 DEF UpWake
    <3>6. CASE UpNobody(x)
      <4>1. crashed' \in BOOLEAN
        BY <3>6 DEF UpNobody
      <4> QED
        BY <2>1, <2>3, <3>6, <4>1 DEF UpNobody
    <3> QED
      BY <2>3, <3>1, <3>2, <3>3, <3>4, <3>5, <3>6 DEF Operation
  <2> QED
    BY <1>2, <2>2, <2>3 DEF Step
<1> QED
  BY <1>1, <1>2 DEF Next

\* The types, and the context that an unlinking is about (TypeOK).
THEOREM Types == Spec => []TypeOK
<1>1. TypeOK /\ [Next]_vars => TypeOK'
  BY TypesKept
<1> QED
  BY <1>1, TypesFirst, PTL DEF Spec

-----------------------------------------------------------------------------
(* Steps that leave a semaphore alone.                                      *)

\* Two that are inside of the operations of a semaphore have met.
LEMMA Alone ==
    ASSUME ~Overlap, NEW x \in Ctx, NEW y \in Ctx,
           Inside(x), Inside(y), sem[x] = sem[y]
    PROVE  x = y
BY DEF Overlap, Meet

\* A list is what it was if nothing that it is made of changes ...
LEMMA Counts ==
    ASSUME NEW s \in Sem, ListOK(s), list'[s] = list[s],
           \A n \in Nat : Counted(s, n) => Counted(s, n)',
           \A y \in Ctx : Linked(y, s) <=> Linked(y, s)',
           \A y \in Ctx : Linked(y, s) => next'[y] = next[y]
    PROVE  ListOK(s)'
<1>1. PICK n \in Nat : \E f \in [1 .. n -> Ctx] : Chain(s, n, f) /\ Counted(s, n)
  BY DEF ListOK
<1>2. PICK f \in [1 .. n -> Ctx] : Chain(s, n, f) /\ Counted(s, n)
  BY <1>1
<1>3. Chain(s, n, f)'
  BY <1>2 DEF Chain
<1> QED
  BY <1>2, <1>3 DEF ListOK

\* ... nor the counter.
LEMMA Framed ==
    ASSUME NEW s \in Sem, ListOK(s),
           count'[s] = count[s], list'[s] = list[s],
           \A y \in Ctx : (Down(y, s)' <=> Down(y, s)) /\ (Up(y, s)' <=> Up(y, s)),
           \A y \in Ctx : Linked(y, s) <=> Linked(y, s)',
           \A y \in Ctx : Linked(y, s) => next'[y] = next[y]
    PROVE  ListOK(s)'
<1>1. Level(s)' = Level(s)
  BY DEF Level
<1>2. \A n \in Nat : Counted(s, n) => Counted(s, n)'
  BY <1>1 DEF Counted
<1> QED
  BY <1>2, Counts

-----------------------------------------------------------------------------
(* What the operations hold.                                                *)

\* The context that sem_up wakes is there, and waits for this semaphore.
LEMMA Top ==
    ASSUME TypeOK, Sound, ~Overlap, NEW x \in Ctx, pc[x] = "wake"
    PROVE  tmp[x] \in Ctx /\ Asleep(tmp[x], sem[x])
<1> DEFINE s == sem[x]
<1>1. s \in Sem /\ count[s] \in Int /\ count[s] <= 0 /\ tmp[x] = list[s]
  BY DEF TypeOK, SemTypeOK, Sound, HoldsOK
<1>2. \A y \in Ctx : ~Down(y, s)
  BY Alone DEF Down, Inside
<1>3. Level(s) = count[s] - 1
  BY <1>2 DEF Level, Up
<1>4. PICK n \in Nat : \E f \in [1 .. n -> Ctx] : Chain(s, n, f) /\ Counted(s, n)
  BY <1>1 DEF Sound, ListOK
<1>5. PICK f \in [1 .. n -> Ctx] : Chain(s, n, f) /\ Counted(s, n)
  BY <1>4
<1>6. n # 0
  BY <1>1, <1>3, <1>5 DEF Counted
<1>7. n \in 1 .. n /\ tmp[x] = f[n] /\ Linked(f[n], s)
  BY <1>1, <1>5, <1>6 DEF Chain
<1>8. ~Woken(f[n], s)
  BY Alone DEF Woken, Inside
<1> QED
  BY <1>7, <1>8 DEF Linked

\* A step of one context leaves what the others hold.
LEMMA HoldsKept ==
    ASSUME TypeOK, Sound, ~Overlap, ~Overlap', NEW x \in Ctx, Operation(x)
    PROVE  \A y \in Ctx : HoldsOK(y)' /\ EtatOK(y)'
<1> SUFFICES ASSUME NEW y \in Ctx PROVE HoldsOK(y)' /\ EtatOK(y)'
  OBVIOUS
<1>1. HoldsOK(x) /\ EtatOK(x) /\ HoldsOK(y) /\ EtatOK(y)
  BY DEF Sound
<1>2. x # y /\ Inside(x) /\ Inside(y) => sem[x] # sem[y]
  BY DEF Overlap, Meet
<1>3. x # y /\ Inside(x) /\ pc[y] = "unlink" => tmp[y] # x
  BY DEF Overlap, Meet, Inside
<1> USE DEF TypeOK, SemTypeOK, Label, HoldsOK, EtatOK, Inside, semaphores, Goto
<1>4. CASE DownRead(x)
  BY <1>1, <1>2, <1>3, <1>4 DEF DownRead
<1>5. CASE DownWrite(x)
  BY <1>1, <1>2, <1>3, <1>5 DEF DownWrite
<1>6. CASE DownTest(x)
  BY <1>1, <1>2, <1>3, <1>6 DEF DownTest
<1>7. CASE DownBlock(x)
  BY <1>1, <1>2, <1>3, <1>7 DEF DownBlock
<1>8. CASE DownLink(x)
  BY <1>1, <1>2, <1>3, <1>8 DEF DownLink
<1>9. CASE DownPush(x)
  BY <1>1, <1>2, <1>3, <1>9 DEF DownPush
<1>10. CASE Spin(x)
  BY <1>1, <1>2, <1>3, <1>10 DEF Spin
<1>11. CASE UpRead(x)
  BY <1>1, <1>2, <1>3, <1>11 DEF UpRead
<1>12. CASE UpWrite(x)
  BY <1>1, <1>2, <1>3, <1>12 DEF UpWrite
<1>13. CASE UpTest(x)
  BY <1>1, <1>2, <1>3, <1>13 DEF UpTest
<1>14. CASE UpPick(x)
  BY <1>1, <1>2, <1>3, <1>14 DEF UpPick
<1>15. CASE UpWake(x)
  <2>1. tmp[x] \in Ctx /\ pc[tmp[x]] = "spin"
    BY <1>15, Top DEF UpWake, Asleep
  <2> QED
    BY <1>1, <1>2, <1>3, <1>15, <2>1 DEF UpWake
<1>16. CASE UpUnlink(x)
  BY <1>1, <1>2, <1>3, <1>16 DEF UpUnlink
<1> QED
  BY <1>1, <1>4, <1>5, <1>6, <1>7, <1>8, <1>9, <1>10, <1>11, <1>12, <1>13, <1>14, <1>15, <1>16 DEF Operation, UpNobody, locals

-----------------------------------------------------------------------------
(* The lists.                                                               *)

\* The counter, for the one that is inside.
LEMMA LevelOf ==
    ASSUME TypeOK, ~Overlap, NEW x \in Ctx, Inside(x)
    PROVE  Level(sem[x]) = IF Down(x, sem[x]) THEN count[sem[x]] + 1
                           ELSE IF Up(x, sem[x]) THEN count[sem[x]] - 1
                           ELSE count[sem[x]]
<1>1. \A y \in Ctx : Down(y, sem[x]) => y = x
  BY Alone DEF Down, Inside
<1>2. \A y \in Ctx : Up(y, sem[x]) => y = x
  BY Alone DEF Up, Inside
<1> QED
  BY <1>1, <1>2 DEF Level, Down, Up

\* The steps that change no list and no counter.
LEMMA ListsKept ==
    ASSUME TypeOK, Sound, ~Overlap, NEW x \in Ctx,
           \/ DownRead(x) \/ DownBlock(x) \/ DownLink(x) \/ Spin(x)
           \/ UpRead(x) \/ UpPick(x) \/ UpWake(x) \/ UpNobody(x)
    PROVE  \A s \in Sem : ListOK(s)'
<1> SUFFICES ASSUME NEW s \in Sem PROVE ListOK(s)'
  OBVIOUS
<1>0. ListOK(s)
  BY DEF Sound
<1> DEFINE Same == /\ count'[s] = count[s] /\ list'[s] = list[s]
                   /\ \A y \in Ctx : (Down(y, s)' <=> Down(y, s)) /\ (Up(y, s)' <=> Up(y, s))
                   /\ \A y \in Ctx : Linked(y, s) <=> Linked(y, s)'
                   /\ \A y \in Ctx : Linked(y, s) => next'[y] = next[y]
<1> SUFFICES Same
  BY <1>0, Framed
<1> USE DEF TypeOK, SemTypeOK, Label, semaphores, Goto, Down, Up, Linked, Asleep, Woken
<1>1. CASE DownRead(x) \/ UpRead(x) \/ Spin(x)
  BY <1>1 DEF DownRead, UpRead, Spin
<1>2. CASE DownBlock(x) \/ UpPick(x)
  BY <1>2 DEF DownBlock, UpPick
<1>3. CASE DownLink(x)
  <2>1. ~Linked(x, s)
    BY <1>3 DEF DownLink, Overlap, Meet, Inside, Sound, EtatOK
  <2> QED
    BY <1>3, <2>1 DEF DownLink
<1>4. CASE UpWake(x)
  <2>1. tmp[x] \in Ctx /\ Asleep(tmp[x], sem[x])
    BY <1>4, Top DEF UpWake
  <2>2. count' = count /\ list' = list /\ next' = next
    BY <1>4 DEF UpWake
  <2>3. \A y \in Ctx : (Down(y, s)' <=> Down(y, s)) /\ (Up(y, s)' <=> Up(y, s))
    BY <1>4 DEF UpWake
  <2>4. \A y \in Ctx : Linked(y, s) <=> Linked(y, s)'
    BY <1>4, <2>1 DEF UpWake
  <2> QED
    BY <2>2, <2>3, <2>4
<1>5. CASE UpNobody(x)
  BY <1>5 DEF UpNobody, locals
<1> QED
  BY <1>1, <1>2, <1>3, <1>4, <1>5

\* The steps that move the counter, or end with it as it is.
LEMMA LevelsKept ==
    ASSUME TypeOK, TypeOK', Sound, ~Overlap, ~Overlap', NEW x \in Ctx,
           DownWrite(x) \/ DownTest(x) \/ UpWrite(x) \/ UpTest(x)
    PROVE  \A s \in Sem : ListOK(s)'
<1> SUFFICES ASSUME NEW s \in Sem PROVE ListOK(s)'
  OBVIOUS
<1> DEFINE here == sem[x]
<1>1. ListOK(s) /\ HoldsOK(x) /\ here \in Sem /\ count[here] \in Int
  BY DEF Sound, TypeOK, SemTypeOK
<1> USE DEF TypeOK, SemTypeOK, Label, semaphores, Goto
<1>2. list' = list /\ next' = next /\ etat' = etat /\ sem' = sem /\ tmp' = tmp
  BY DEF DownWrite, DownTest, UpWrite, UpTest
<1>3. \A y \in Ctx : Linked(y, s) <=> Linked(y, s)'
  BY <1>2 DEF DownWrite, DownTest, UpWrite, UpTest, Linked, Asleep, Woken
<1>4. CASE s # here
  <2>1. count'[s] = count[s]
    BY <1>4 DEF DownWrite, DownTest, UpWrite, UpTest
  <2>2. \A y \in Ctx : (Down(y, s)' <=> Down(y, s)) /\ (Up(y, s)' <=> Up(y, s))
    BY <1>4 DEF DownWrite, DownTest, UpWrite, UpTest, Down, Up
  <2> QED
    BY <1>1, <1>2, <1>3, <2>1, <2>2, Framed
<1>5. CASE s = here
  <2>1. Inside(x)
    BY DEF Inside, DownWrite, DownTest, UpWrite, UpTest
  <2>2. Level(s) = IF Down(x, s) THEN count[s] + 1
                   ELSE IF Up(x, s) THEN count[s] - 1 ELSE count[s]
    BY <1>5, <2>1, LevelOf
  <2>3. \A y \in Ctx : y # x => ~Down(y, s)' /\ ~Up(y, s)'
    BY <1>5, <2>1 DEF Overlap, Meet, Inside, Down, Up,
       DownWrite, DownTest, UpWrite, UpTest
  <2>4. Level(s)' = IF Down(x, s)' THEN count'[s] + 1
                    ELSE IF Up(x, s)' THEN count'[s] - 1 ELSE count'[s]
    BY <2>3 DEF Level
  <2>5. \A n \in Nat : Counted(s, n) => Counted(s, n)'
    <3>1. CASE DownWrite(x) \/ UpWrite(x)
      BY <1>1, <1>5, <2>2, <2>4, <3>1 DEF DownWrite, UpWrite, HoldsOK, Counted, Down, Up
    <3>2. CASE DownTest(x) \/ UpTest(x)
      BY <1>1, <1>5, <2>2, <2>4, <3>2 DEF DownTest, UpTest, Counted, Down, Up
    <3> QED
      BY <3>1, <3>2
  <2> QED
    BY <1>1, <1>2, <1>3, <2>5, Counts
<1> QED
  BY <1>4, <1>5

\* A context on the list more: it is the first.
LEMMA Pushed ==
    ASSUME TypeOK, TypeOK', Sound, ~Overlap, NEW x \in Ctx, DownPush(x)
    PROVE  \A s \in Sem : ListOK(s)'
<1> SUFFICES ASSUME NEW s \in Sem PROVE ListOK(s)'
  OBVIOUS
<1> DEFINE here == sem[x]
<1> USE DEF TypeOK, SemTypeOK, Label, Goto
<1>1. ListOK(s) /\ HoldsOK(x) /\ EtatOK(x) /\ pc[x] = "push" /\ here \in Sem
  BY DEF Sound, DownPush
<1>2. \A y \in Ctx : Linked(y, s)' <=> Linked(y, s) \/ (y = x /\ s = here)
  BY <1>1 DEF DownPush, Linked, Asleep, Woken, EtatOK
<1>3. CASE s # here
  <2>1. \A y \in Ctx : (Down(y, s)' <=> Down(y, s)) /\ (Up(y, s)' <=> Up(y, s))
    BY <1>3 DEF DownPush, Down, Up
  <2> QED
    BY <1>1, <1>2, <1>3, <2>1, Framed DEF DownPush
<1>4. CASE s = here
  <2>1. Inside(x) /\ Down(x, s)
    BY <1>1, <1>4 DEF Inside, Down
  <2>2. Level(s) = count[s] + 1 /\ count[s] \in Int /\ count[s] < 0
    BY <1>1, <1>4, <2>1, LevelOf DEF HoldsOK
  <2>3. \A y \in Ctx : ~Down(y, s)' /\ ~Up(y, s)'
    BY <1>1, <1>4, <2>1, Alone DEF DownPush, Down, Up, Inside
  <2>4. Level(s)' = count[s]
    BY <2>3 DEF Level, DownPush
  <2>5. PICK n \in Nat : \E f \in [1 .. n -> Ctx] : Chain(s, n, f) /\ Counted(s, n)
    BY <1>1 DEF ListOK
  <2>6. PICK f \in [1 .. n -> Ctx] : Chain(s, n, f) /\ Counted(s, n)
    BY <2>5
  <2>7. \A i \in 1 .. n : f[i] # x /\ f[i] \in Ctx
    BY <1>1, <1>4, <2>6, <2>1, ZenonT(40) DEF Chain, Linked, Asleep, Woken, Overlap, Meet, Inside
  <2> DEFINE g == [i \in 1 .. n + 1 |-> IF i = n + 1 THEN x ELSE f[i]]
  <2>8. g \in [1 .. n + 1 -> Ctx] /\ g[n + 1] = x /\ \A i \in 1 .. n : g[i] = f[i]
    <3> HIDE DEF TypeOK, SemTypeOK, Label, Goto
    <3> QED
      BY <2>7
  <2>8a. \A i \in 1 .. n + 1 : i \in 1 .. n \/ i = n + 1
    OBVIOUS
  <2> HIDE DEF g
  <2>9. \A i \in 1 .. n + 1 : Linked(g[i], s)'
    BY <1>2, <1>4, <2>6, <2>7, <2>8, <2>8a DEF Chain
  <2>10. \A y \in Ctx : Linked(y, s)' => \E i \in 1 .. n + 1 : g[i] = y
    <3> SUFFICES ASSUME NEW y \in Ctx, Linked(y, s)' PROVE \E i \in 1 .. n + 1 : g[i] = y
      OBVIOUS
    <3>1. CASE y = x
      <4>1. n + 1 \in 1 .. n + 1
        OBVIOUS
      <4> QED
        BY <2>8, <3>1, <4>1
    <3>2. CASE y # x
      <4>1. PICK i \in 1 .. n : f[i] = y
        BY <1>2, <2>6, <3>2 DEF Chain
      <4>2. i \in 1 .. n + 1
        OBVIOUS
      <4> QED
        BY <2>8, <4>1, <4>2
    <3> QED
      BY <3>1, <3>2
  <2>11. \A i, j \in 1 .. n + 1 : g[i] = g[j] => i = j
    <3> SUFFICES ASSUME NEW i \in 1 .. n + 1, NEW j \in 1 .. n + 1, g[i] = g[j] PROVE i = j
      OBVIOUS
    <3>1. CASE i \in 1 .. n /\ j \in 1 .. n
      BY <2>6, <2>8, <3>1 DEF Chain
    <3>2. CASE i = n + 1 \/ j = n + 1
      BY <2>7, <2>8, <2>8a, <3>2
    <3> QED
      BY <2>8a, <3>1, <3>2
  <2>12. list'[s] = g[n + 1] /\ n + 1 # 0
    BY <1>4, <2>8 DEF DownPush
  <2>13. \A i \in 1 .. n + 1 : next'[g[i]] = IF i = 1 THEN Null ELSE g[i - 1]
    <3>1. next' = next /\ next[x] = list[s]
      BY <1>1, <1>4 DEF DownPush, HoldsOK
    <3>2. CASE n = 0
      BY <2>6, <2>8, <2>8a, <3>1, <3>2 DEF Chain
    <3>3. CASE n # 0
      <4> SUFFICES ASSUME NEW i \in 1 .. n + 1
                   PROVE next'[g[i]] = IF i = 1 THEN Null ELSE g[i - 1]
        OBVIOUS
      <4>1. i # 1 => i - 1 \in 1 .. n
        OBVIOUS
      <4>2. CASE i = n + 1
        BY <2>6, <2>8, <3>1, <3>3, <4>1, <4>2 DEF Chain
      <4>3. CASE i \in 1 .. n
        BY <2>6, <2>8, <3>1, <4>1, <4>3 DEF Chain
      <4> QED
        BY <2>8a, <4>2, <4>3
    <3> QED
      BY <3>2, <3>3
  <2>14. Chain(s, n + 1, g)'
    BY <2>9, <2>10, <2>11, <2>12, <2>13 DEF Chain
  <2>15. Counted(s, n + 1)'
    <3> HIDE DEF TypeOK, SemTypeOK, Label, Goto
    <3> QED
      BY <2>2, <2>4, <2>6 DEF Counted
  <2> QED
    BY <2>8, <2>14, <2>15 DEF ListOK
<1> QED
  BY <1>3, <1>4

\* The first one is taken off.
LEMMA Unlinked ==
    ASSUME TypeOK, TypeOK', Sound, ~Overlap, NEW x \in Ctx, UpUnlink(x)
    PROVE  \A s \in Sem : ListOK(s)'
<1> SUFFICES ASSUME NEW s \in Sem PROVE ListOK(s)'
  OBVIOUS
<1> DEFINE here == sem[x]
           top == tmp[x]
<1> USE DEF TypeOK, SemTypeOK, Label, Goto
<1>1. /\ ListOK(s) /\ HoldsOK(x) /\ EtatOK(x) /\ pc[x] = "unlink" /\ here \in Sem
      /\ top \in Ctx /\ etat[top] = "activated" /\ top = list[here]
  BY DEF Sound, UpUnlink, HoldsOK, EtatOK
<1>2. Inside(x) /\ Up(x, here) /\ ~Down(x, here)
  BY <1>1 DEF Inside, Up, Down
<1>3. CASE s # here
  <2>1. \A y \in Ctx : (Down(y, s)' <=> Down(y, s)) /\ (Up(y, s)' <=> Up(y, s))
    BY <1>1, <1>3 DEF UpUnlink, Down, Up
  <2>2. \A y \in Ctx : Linked(y, s) <=> Linked(y, s)'
    BY <1>1, <1>3 DEF UpUnlink, Linked, Asleep, Woken
  <2> QED
    BY <1>1, <1>3, <2>1, <2>2, Framed DEF UpUnlink
<1>4. CASE s = here
  <2>1. Level(s) = count[s] - 1 /\ count[s] \in Int
    BY <1>2, <1>4, LevelOf
  <2>2. \A y \in Ctx : ~Down(y, s)' /\ ~Up(y, s)'
    BY <1>1, <1>2, <1>4, Alone DEF UpUnlink, Down, Up, Inside
  <2>3. Level(s)' = count[s]
    BY <2>2 DEF Level, UpUnlink
  <2>4. \A y \in Ctx : Linked(y, s)' <=> Linked(y, s) /\ y # top
    <3>1. \A z \in Ctx : pc[z] = "unlink" /\ sem[z] = s => z = x
      BY <1>2, <1>4, Alone DEF Inside
    <3>2. \A y \in Ctx : Woken(y, s) <=> y = top
      BY <1>1, <1>4, <3>1 DEF Woken
    <3>3. \A y \in Ctx : ~Woken(y, s)'
      BY <1>1, <3>1 DEF Woken, UpUnlink
    <3>4. \A y \in Ctx : (Asleep(y, s)' <=> Asleep(y, s)) /\ (Asleep(y, s) => y # top)
      BY <1>1 DEF Asleep, UpUnlink
    <3> QED
      BY <3>2, <3>3, <3>4 DEF Linked
  <2>5. PICK n \in Nat : \E f \in [1 .. n -> Ctx] : Chain(s, n, f) /\ Counted(s, n)
    BY <1>1 DEF ListOK
  <2>6. PICK f \in [1 .. n -> Ctx] : Chain(s, n, f) /\ Counted(s, n)
    BY <2>5
  <2>7. n # 0 /\ f[n] = top
    BY <1>1, <1>4, <2>6, SemAssumption DEF Chain
  <2> DEFINE g == [i \in 1 .. n - 1 |-> f[i]]
  <2>8. /\ n - 1 \in Nat /\ g \in [1 .. n - 1 -> Ctx]
        /\ \A i \in 1 .. n - 1 : g[i] = f[i] /\ i \in 1 .. n
    <3>1. n - 1 \in Nat /\ \A i \in 1 .. n - 1 : i \in 1 .. n
      BY <2>7
    <3>2. \A i \in 1 .. n - 1 : f[i] \in Ctx
      BY <3>1
    <3> QED
      BY <3>1, <3>2
  <2>8a. \A i \in 1 .. n : i \in 1 .. n - 1 \/ i = n
    OBVIOUS
  <2> HIDE DEF g
  <2>9. \A i \in 1 .. n - 1 : Linked(g[i], s)'
    <3>1. \A i \in 1 .. n - 1 : f[i] # top
      BY <2>6, <2>7, <2>8 DEF Chain
    <3> QED
      BY <2>4, <2>6, <2>8, <3>1 DEF Chain
  <2>10. \A y \in Ctx : Linked(y, s)' => \E i \in 1 .. n - 1 : g[i] = y
    <3> SUFFICES ASSUME NEW y \in Ctx, Linked(y, s)' PROVE \E i \in 1 .. n - 1 : g[i] = y
      OBVIOUS
    <3>1. PICK i \in 1 .. n : f[i] = y
      BY <2>4, <2>6 DEF Chain
    <3> QED
      BY <2>4, <2>7, <2>8, <2>8a, <3>1
  <2>11. \A i, j \in 1 .. n - 1 : g[i] = g[j] => i = j
    BY <2>6, <2>8 DEF Chain
  <2>12. list'[s] = IF n - 1 = 0 THEN Null ELSE g[n - 1]
    <3>1. list'[s] = next[f[n]] /\ n \in 1 .. n
      BY <1>1, <1>4, <2>7 DEF UpUnlink
    <3>2. next[f[n]] = IF n = 1 THEN Null ELSE f[n - 1]
      BY <2>6, <3>1 DEF Chain
    <3>3. n # 1 => n - 1 \in 1 .. n - 1
      BY <2>7
    <3> QED
      BY <2>7, <2>8, <3>1, <3>2, <3>3
  <2>13. \A i \in 1 .. n - 1 : next'[g[i]] = IF i = 1 THEN Null ELSE g[i - 1]
    <3>1. next' = next
      BY DEF UpUnlink
    <3>2. \A i \in 1 .. n - 1 : i # 1 => i - 1 \in 1 .. n - 1
      BY <2>7
    <3>3. \A i \in 1 .. n : next[f[i]] = IF i = 1 THEN Null ELSE f[i - 1]
      BY <2>6 DEF Chain
    <3> QED
      BY <2>8, <3>1, <3>2, <3>3
  <2>14. Chain(s, n - 1, g)'
    BY <2>9, <2>10, <2>11, <2>12, <2>13 DEF Chain
  <2>15. Counted(s, n - 1)'
    <3> HIDE DEF TypeOK, SemTypeOK, Label, Goto
    <3>1. count[s] - 1 = -n
      BY <2>1, <2>6, <2>7 DEF Counted
    <3>2. Level(s)' = 1 - n
      BY <2>1, <2>3, <3>1
    <3>3. n - 1 = 0 => Level(s)' >= 0
      BY <3>2
    <3>4. Level(s)' = -(n - 1)
      BY <3>2
    <3> QED
      BY <3>3, <3>4 DEF Counted
  <2> QED
    BY <2>8, <2>14, <2>15 DEF ListOK
<1> QED
  BY <1>3, <1>4

-----------------------------------------------------------------------------
(* The invariant holds.                                                     *)

LEMMA First == Init => IInv
<1> SUFFICES ASSUME Init PROVE IInv
  OBVIOUS
<1>1. TypeOK
  BY TypesFirst
<1>2. \A x \in Ctx : pc[x] = "client" /\ etat[x] = "activated"
  BY DEF Init, SemInit
<1>3. ~Overlap
  BY <1>2 DEF Overlap, Meet, Inside
<1>4. \A x \in Ctx : HoldsOK(x) /\ EtatOK(x)
  BY <1>2 DEF HoldsOK, EtatOK
<1>5. ASSUME NEW s \in Sem PROVE ListOK(s)
  <2>1. \A y \in Ctx : ~Linked(y, s) /\ ~Down(y, s) /\ ~Up(y, s)
    BY <1>2 DEF Linked, Asleep, Woken, Down, Up
  <2>2. Level(s) >= 0
    BY <2>1 DEF Level, Init, SemInit
  <2>3. list[s] = Null
    BY DEF Init, SemInit
  <2> DEFINE f == [i \in 1 .. 0 |-> list[s]]
  <2>4. f \in [1 .. 0 -> Ctx]
    OBVIOUS
  <2>5. Chain(s, 0, f)
    BY <2>1, <2>3 DEF Chain
  <2> QED
    BY <2>2, <2>4, <2>5 DEF ListOK, Counted
<1> QED
  BY <1>1, <1>3, <1>4, <1>5 DEF IInv, Sound

\* A client that calls, or uses the stack, changes nothing of the semaphores.
LEMMA ClientsKeep ==
    ASSUME TypeOK, Sound, NEW x \in Ctx, Client(x)
    PROVE  Sound'
<1>1. /\ UNCHANGED <<count, list, next, etat, reg, tmp>>
      /\ pc[x] = "client" /\ pc'[x] \in {"client", "down", "up"}
      /\ \A y \in Ctx : y # x => pc'[y] = pc[y] /\ sem'[y] = sem[y]
  BY DEF Client, Want, Lock, ReadCpt, WriteCpt, Unlock, Give, Call, Goto,
     TypeOK, SemTypeOK, semaphores, locals
<1>2. ASSUME NEW y \in Ctx PROVE HoldsOK(y)' /\ EtatOK(y)'
  BY <1>1, <1>2 DEF Sound, HoldsOK, EtatOK
<1>3. ASSUME NEW s \in Sem PROVE ListOK(s)'
  <2>1. ListOK(s)
    BY DEF Sound
  <2>2. \A y \in Ctx : (Down(y, s)' <=> Down(y, s)) /\ (Up(y, s)' <=> Up(y, s))
    BY <1>1 DEF Down, Up
  <2>3. \A y \in Ctx : Linked(y, s) <=> Linked(y, s)'
    BY <1>1 DEF Linked, Asleep, Woken
  <2> QED
    BY <1>1, <2>1, <2>2, <2>3, Framed
<1> QED
  BY <1>2, <1>3 DEF Sound

LEMMA Kept ==
    ASSUME IInv, [Next]_vars
    PROVE  IInv'
<1>1. TypeOK /\ TypeOK'
  BY TypesKept DEF IInv
<1>2. CASE UNCHANGED vars
  BY <1>1, <1>2, SMTT(30) DEF IInv, vars, semVars, semaphores, locals, Overlap, Meet, Inside, Sound,
     HoldsOK, EtatOK, ListOK, Chain, Counted, Level, Down, Up, Linked, Asleep, Woken
<1>3. ASSUME NEW x \in Ctx, Step(x), ~raced' PROVE ~Overlap' /\ Sound'
  <2>1. ~raced /\ ~Overlap' /\ ~Overlap /\ Sound
    BY <1>3 DEF Step, Remember, IInv
  <2>2. CASE Client(x)
    BY <1>1, <2>1, <2>2, ClientsKeep
  <2>3. CASE Operation(x)
    <3>1. \A y \in Ctx : HoldsOK(y)' /\ EtatOK(y)'
      BY <1>1, <2>1, <2>3, HoldsKept
    <3>2. CASE \/ DownRead(x) \/ DownBlock(x) \/ DownLink(x) \/ Spin(x)
               \/ UpRead(x) \/ UpPick(x) \/ UpWake(x) \/ UpNobody(x)
      BY <1>1, <2>1, <3>1, <3>2, ListsKept DEF Sound
    <3>3. CASE DownWrite(x) \/ DownTest(x) \/ UpWrite(x) \/ UpTest(x)
      BY <1>1, <2>1, <3>1, <3>3, LevelsKept DEF Sound
    <3>4. CASE DownPush(x)
      BY <1>1, <2>1, <3>1, <3>4, Pushed DEF Sound
    <3>5. CASE UpUnlink(x)
      BY <1>1, <2>1, <3>1, <3>5, Unlinked DEF Sound
    <3> QED
      BY <2>1, <2>3, <3>2, <3>3, <3>4, <3>5 DEF Operation
  <2> QED
    BY <1>3, <2>2, <2>3 DEF Step
<1> QED
  BY <1>1, <1>2, <1>3 DEF IInv, Next

\* The counter and the list agree as long as no two operations met: below zero,
\* the counter is the length of the list, without the operation under way.
THEOREM ListsSound == Spec => []IInv
<1>1. IInv /\ [Next]_vars => IInv'
  BY Kept
<1> QED
  BY <1>1, First, PTL DEF Spec

-----------------------------------------------------------------------------
(* The operations are those of a counting semaphore.                        *)

Free(s) == IF count[s] > 0 THEN count[s] ELSE 0

\* The calls, label by label.
AskedAs(x) ==
    /\ Waits(x) => Asks(x) = {<<"wait", sem[x]>>}
    /\ pc[x] \in {"down", "downwrite"} => Asks(x) = {<<"down", sem[x]>>}
    /\ \/ pc[x] \in {"up", "upwrite", "pick", "wake"}
       \/ pc[x] = "uptest" /\ count[sem[x]] <= 0
       => Asks(x) = {<<"up", sem[x]>>}
    /\ \/ pc[x] \in {"client", "unlink"}
       \/ pc[x] = "downtest" /\ ~(count[sem[x]] < 0)
       \/ pc[x] = "spin" /\ etat[x] # "blocked"
       \/ pc[x] = "uptest" /\ ~(count[sem[x]] <= 0)
       => Asks(x) = {}

LEMMA AsksOf == \A x \in Ctx : AskedAs(x) /\ AskedAs(x)'
<1>1. ASSUME NEW x \in Ctx PROVE AskedAs(x)
  BY DEF AskedAs, Asks, Waits
<1>2. ASSUME NEW x \in Ctx PROVE AskedAs(x)'
  BY DEF AskedAs, Asks, Waits
<1> QED
  BY <1>1, <1>2

\* Who asks to wait does.
LEMMA AsksWait ==
    ASSUME TypeOK, NEW y \in Ctx, NEW s, Asks(y) = {<<"wait", s>>}
    PROVE  Waits(y) /\ sem[y] = s
<1>1. AskedAs(y)
  BY AsksOf
<1>2. pc[y] \in Label /\ etat[y] \in {"activated", "blocked"}
  BY DEF TypeOK, SemTypeOK
<1>3. \A op, t : {<<op, t>>} = {<<"wait", s>>} => op = "wait" /\ t = s
  <2> SUFFICES ASSUME NEW op, NEW t, {<<op, t>>} = {<<"wait", s>>} PROVE op = "wait" /\ t = s
    OBVIOUS
  <2>1. <<op, t>> \in {<<"wait", s>>}
    OBVIOUS
  <2>2. <<op, t>> = <<"wait", s>>
    BY <2>1
  <2> QED
    BY <2>2
<1>4. {<<"wait", s>>} # {}
  OBVIOUS
<1>5. Asks(y) # {} /\ Asks(y) # {<<"down", sem[y]>>} /\ Asks(y) # {<<"up", sem[y]>>}
  <2>1. "down" # "wait" /\ "up" # "wait"
    OBVIOUS
  <2>2. {<<"down", sem[y]>>} # {<<"wait", s>>} /\ {<<"up", sem[y]>>} # {<<"wait", s>>}
    BY <1>3, <2>1, Zenon
  <2> QED
    BY <1>4, <2>2
<1>6. Waits(y)
  BY <1>1, <1>2, <1>5 DEF AskedAs, Label, Waits
<1>7. Asks(y) = {<<"wait", sem[y]>>}
  BY <1>1, <1>6 DEF AskedAs
<1> QED
  BY <1>3, <1>6, <1>7

\* A step that changes no call and no permit is a stutter ...
LEMMA Stutter ==
    ASSUME \A s \in Sem : Free(s)' = Free(s), \A y \in Ctx : Asks(y)' = Asks(y)
    PROVE  UNCHANGED Promise!vars
BY DEF Promise!vars, Free

\* ... and a context that leaves the counter leaves the calls of the others, ...
LEMMA OthersAsk ==
    ASSUME NEW x \in Ctx, NEW y \in Ctx, y # x,
           pc'[y] = pc[y], sem'[y] = sem[y], etat'[y] = etat[y],
           count'[sem[y]] = count[sem[y]] \/ pc[y] \notin {"downtest", "uptest"}
    PROVE  Asks(y)' = Asks(y)
BY DEF Asks, Waits

\* ... so that its own call is what a step changes.
LEMMA OneCall ==
    ASSUME NEW x \in Ctx, \A y \in Ctx : y # x => Asks(y)' = Asks(y)
    PROVE  [y \in Ctx |-> Asks(y)'] = [[y \in Ctx |-> Asks(y)] EXCEPT ![x] = Asks(x)']
OBVIOUS

\* The accesses that no client of the semaphore sees.
LEMMA Unseen ==
    ASSUME TypeOK, NEW x \in Ctx,
           \/ DownRead(x) \/ DownTest(x) \/ DownBlock(x) \/ DownLink(x) \/ DownPush(x)
           \/ Spin(x) \/ UpRead(x) \/ UpTest(x) \/ UpPick(x) \/ UpUnlink(x) \/ UpNobody(x),
           Sound
    PROVE  UNCHANGED Promise!vars
<1> USE DEF TypeOK, SemTypeOK, Label, semaphores, locals, Goto
<1>1. /\ UNCHANGED <<count, sem>>
      /\ \A y \in Ctx : y # x => pc'[y] = pc[y] /\ etat'[y] = etat[y]
  BY DEF DownRead, DownTest, DownBlock, DownLink, DownPush, Spin, UpRead, UpTest, UpPick,
     UpUnlink, UpNobody
<1>2. \A y \in Ctx : y # x => Asks(y)' = Asks(y)
  BY <1>1, OthersAsk
<1>3. AskedAs(x) /\ AskedAs(x)' /\ HoldsOK(x) /\ EtatOK(x)
  BY AsksOf DEF Sound
<1>4. Asks(x)' = Asks(x)
  <2>1. CASE DownRead(x) \/ UpRead(x)
    BY <1>3, <2>1 DEF DownRead, UpRead, AskedAs
  <2>2. CASE DownTest(x)
    <3>1. count[sem[x]] \in Int /\ sem'[x] = sem[x] /\ pc[x] = "downtest"
      BY <2>2 DEF DownTest
    <3>2. CASE count[sem[x]] < 0
      <4>1. pc'[x] = "block"
        BY <2>2, <3>1, <3>2 DEF DownTest
      <4>2. Waits(x) /\ Waits(x)'
        BY <3>1, <3>2, <4>1 DEF Waits
      <4> QED
        BY <1>3, <3>1, <4>2 DEF AskedAs
    <3>3. CASE ~(count[sem[x]] < 0)
      <4>1. pc'[x] = "client"
        BY <2>2, <3>1, <3>3 DEF DownTest
      <4> QED
        BY <1>3, <3>1, <3>3, <4>1 DEF AskedAs
    <3> QED
      BY <3>2, <3>3
  <2>2a. CASE UpTest(x)
    BY <1>3, <2>2a DEF UpTest, AskedAs
  <2>3. CASE DownBlock(x) \/ DownLink(x) \/ DownPush(x)
    BY <1>3, <2>3 DEF DownBlock, DownLink, DownPush, AskedAs, Waits, EtatOK
  <2>4. CASE Spin(x)
    BY <1>3, <2>4 DEF Spin, AskedAs
  <2>5. CASE UpPick(x) \/ UpUnlink(x) \/ UpNobody(x)
    BY <1>3, <2>5 DEF UpPick, UpUnlink, UpNobody, AskedAs
  <2> QED
    BY <2>1, <2>2, <2>2a, <2>3, <2>4, <2>5
<1> QED
  BY <1>1, <1>2, <1>4, Stutter DEF Free

\* Nobody waits while the counter, without the operation under way, is not below 0.
LEMMA NobodyWaits ==
    ASSUME TypeOK, Sound, ~Overlap, NEW x \in Ctx, Inside(x), ~Down(x, sem[x]),
           NEW y \in Ctx, Waits(y), sem[y] = sem[x]
    PROVE  Level(sem[x]) < 0
<1> DEFINE s == sem[x]
<1>1. pc[y] = "spin" /\ etat[y] = "blocked"
  BY Alone DEF Waits, Inside, Down
<1>2. Linked(y, s) /\ s \in Sem
  BY <1>1 DEF Linked, Asleep, TypeOK, SemTypeOK
<1>3. PICK n \in Nat : \E f \in [1 .. n -> Ctx] : Chain(s, n, f) /\ Counted(s, n)
  BY <1>2 DEF Sound, ListOK
<1>4. PICK f \in [1 .. n -> Ctx] : Chain(s, n, f) /\ Counted(s, n)
  BY <1>3
<1>5. n # 0
  BY <1>2, <1>4 DEF Chain
<1> QED
  BY <1>4, <1>5 DEF Counted

\* The decrement takes a permit or starts to wait.
LEMMA TakesOrWaits ==
    ASSUME TypeOK, Sound, ~Overlap, ~Overlap', NEW x \in Ctx, DownWrite(x)
    PROVE  \E s \in Sem : Promise!Take(x, s) \/ Promise!Wait(x, s)
<1> USE DEF TypeOK, SemTypeOK, Label
<1> PICK s \in Sem : s = sem[x]
  OBVIOUS
<1>1. /\ pc[x] = "downwrite" /\ pc'[x] = "downtest" /\ UNCHANGED <<sem, etat>>
      /\ s \in Sem /\ count[s] \in Int /\ count'[s] = count[s] - 1
      /\ \A t \in Sem : t # s => count'[t] = count[t]
      /\ \A y \in Ctx : y # x => pc'[y] = pc[y]
  BY DEF DownWrite, Goto, Sound, HoldsOK
<1>2. \A y \in Ctx : y # x => Asks(y)' = Asks(y)
  <2> SUFFICES ASSUME NEW y \in Ctx, y # x PROVE Asks(y)' = Asks(y)
    OBVIOUS
  <2>1. sem[y] = s => pc[y] \notin {"downtest", "uptest"}
    BY <1>1, Alone DEF Inside
  <2> QED
    BY <1>1, <2>1, OthersAsk
<1>3. Asks(x) = {<<"down", s>>}
  BY <1>1, AsksOf DEF AskedAs
<1>4. CASE count[s] > 0
  <2>1. Asks(x)' = {}
    BY <1>1, <1>4, AsksOf DEF AskedAs
  <2>2. \A t \in Sem : Free(t)' = IF t = s THEN Free(s) - 1 ELSE Free(t)
    BY <1>1, <1>4 DEF Free
  <2> QED
    BY <1>1, <1>2, <1>3, <1>4, <2>1, <2>2, OneCall, ZenonT(40) DEF Promise!Take, Free
<1>5. CASE ~(count[s] > 0)
  <2>1. Asks(x)' = {<<"wait", s>>}
    BY <1>1, <1>5, AsksOf DEF AskedAs, Waits
  <2>2. \A t \in Sem : Free(t)' = Free(t)
    BY <1>1, <1>5 DEF Free
  <2>3. (IF count[s] > 0 THEN count[s] ELSE 0) = 0
    BY <1>5
  <2>4. [y \in Ctx |-> Asks(y)'] = [[y \in Ctx |-> Asks(y)] EXCEPT ![x] = {<<"wait", s>>}]
    BY <1>2, <2>1, OneCall
  <2>5. Promise!Wait(x, s)
    BY <1>3, <2>2, <2>3, <2>4 DEF Promise!Wait, Free
  <2> QED
    BY <2>5
<1> QED
  BY <1>4, <1>5

\* The increment puts a permit back, unless somebody waits: then it is UpWake's.
LEMMA GivesOrHolds ==
    ASSUME TypeOK, Sound, ~Overlap, ~Overlap', NEW x \in Ctx, UpWrite(x)
    PROVE  (\E s \in Sem : Promise!Give(x, s)) \/ UNCHANGED Promise!vars
<1> USE DEF TypeOK, SemTypeOK, Label
<1> PICK s \in Sem : s = sem[x]
  OBVIOUS
<1>1. /\ pc[x] = "upwrite" /\ pc'[x] = "uptest" /\ UNCHANGED <<sem, etat>>
      /\ s \in Sem /\ count[s] \in Int /\ count'[s] = count[s] + 1
      /\ \A t \in Sem : t # s => count'[t] = count[t]
      /\ \A y \in Ctx : y # x => pc'[y] = pc[y]
  BY DEF UpWrite, Goto, Sound, HoldsOK
<1>2. \A y \in Ctx : y # x => Asks(y)' = Asks(y)
  <2> SUFFICES ASSUME NEW y \in Ctx, y # x PROVE Asks(y)' = Asks(y)
    OBVIOUS
  <2>1. sem[y] = s => pc[y] \notin {"downtest", "uptest"}
    BY <1>1, Alone DEF Inside
  <2> QED
    BY <1>1, <2>1, OthersAsk
<1>3. Asks(x) = {<<"up", s>>}
  BY <1>1, AsksOf DEF AskedAs
<1>4. CASE count[s] >= 0
  <2>1. Asks(x)' = {}
    BY <1>1, <1>4, AsksOf DEF AskedAs
  <2>2. \A t \in Sem : Free(t)' = IF t = s THEN Free(s) + 1 ELSE Free(t)
    BY <1>1, <1>4 DEF Free
  <2>3. Inside(x) /\ ~Down(x, s) /\ ~Up(x, s)
    BY <1>1 DEF Inside, Down, Up
  <2>4. ~(Level(s) < 0)
    BY <1>1, <1>4, <2>3, LevelOf
  <2>5. \A y \in Ctx : Asks(y) # {<<"wait", s>>}
    <3> SUFFICES ASSUME NEW y \in Ctx, Asks(y) = {<<"wait", s>>} PROVE FALSE
      OBVIOUS
    <3>1. Waits(y) /\ sem[y] = s
      BY AsksWait
    <3> QED
      BY <2>3, <2>4, <3>1, NobodyWaits
  <2> QED
    BY <1>1, <1>2, <1>3, <2>1, <2>2, <2>5, OneCall, ZenonT(40) DEF Promise!Give, Free
<1>5. CASE ~(count[s] >= 0)
  <2>1. Asks(x)' = Asks(x)
    BY <1>1, <1>3, <1>5, AsksOf DEF AskedAs
  <2>2. \A t \in Sem : Free(t)' = Free(t)
    BY <1>1, <1>5 DEF Free
  <2> QED
    BY <1>2, <2>1, <2>2, Stutter
<1> QED
  BY <1>4, <1>5

\* The wake-up hands the permit on.
LEMMA HandsOn ==
    ASSUME TypeOK, Sound, ~Overlap, NEW x \in Ctx, UpWake(x)
    PROVE  \E y \in Ctx, s \in Sem : Promise!Hand(x, y, s)
<1> USE DEF TypeOK, SemTypeOK, Label
<1> PICK y \in Ctx : y = tmp[x]
  BY Top DEF UpWake
<1> PICK s \in Sem : s = sem[x]
  OBVIOUS
<1>1. /\ pc[x] = "wake" /\ pc'[x] = "unlink" /\ UNCHANGED <<sem, count>>
      /\ etat' = [etat EXCEPT ![y] = "activated"]
      /\ \A z \in Ctx : z # x => pc'[z] = pc[z]
  BY DEF UpWake, Goto
<1>2. pc[y] = "spin" /\ etat[y] = "blocked" /\ sem[y] = s /\ y # x
  BY <1>1, Top DEF Asleep
<1>3. Asks(x) = {<<"up", s>>} /\ Asks(x)' = {}
  BY <1>1, AsksOf DEF AskedAs
<1>4. Asks(y) = {<<"wait", s>>}
  BY <1>2, AsksOf DEF AskedAs, Waits
<1>5. Asks(y)' = {}
  <2>1. pc'[y] = "spin" /\ etat'[y] # "blocked"
    BY <1>1, <1>2
  <2> QED
    BY <1>2, <2>1, AsksOf DEF AskedAs
<1>6. \A z \in Ctx : z # x /\ z # y => Asks(z)' = Asks(z)
  BY <1>1, <1>2, OthersAsk
<1>7. [z \in Ctx |-> Asks(z)'] = [[z \in Ctx |-> Asks(z)] EXCEPT ![x] = {}, ![y] = {}]
  BY <1>2, <1>3, <1>5, <1>6
<1> QED
  BY <1>1, <1>2, <1>3, <1>4, <1>7 DEF Promise!Hand

\* A client's call is one.
LEMMA Calls ==
    ASSUME TypeOK, NEW x \in Ctx, NEW op \in {"down", "up"}, NEW s \in Sem, Call(x, op, s)
    PROVE  Promise!Call(x, op, s)
<1> USE DEF TypeOK, SemTypeOK, Label
<1>1. /\ pc[x] = "client" /\ pc'[x] = op /\ sem'[x] = s /\ UNCHANGED <<count, etat>>
      /\ \A y \in Ctx : y # x => pc'[y] = pc[y] /\ sem'[y] = sem[y]
  BY DEF Call, Goto, semaphores
<1>2. \A y \in Ctx : y # x => Asks(y)' = Asks(y)
  BY <1>1, OthersAsk
<1>3. Asks(x) = {} /\ Asks(x)' = {<<op, s>>}
  BY <1>1, AsksOf DEF AskedAs
<1> QED
  BY <1>1, <1>2, <1>3, OneCall DEF Promise!Call

\* Every step is one of the counting semaphore's, or none.
LEMMA StepsKeep ==
    ASSUME IInv, [Next]_vars, ~raced'
    PROVE  Promise!Next \/ UNCHANGED Promise!vars
<1>1. CASE UNCHANGED vars
  BY <1>1, Stutter DEF vars, semVars, semaphores, locals, Free, Asks, Waits
<1>2. ASSUME NEW x \in Ctx, Step(x) PROVE Promise!Next \/ UNCHANGED Promise!vars
  <2>1. ~raced /\ ~Overlap' /\ ~Overlap /\ Sound /\ TypeOK
    BY <1>2 DEF Step, Remember, IInv
  <2>3. CASE Client(x)
    <3>1. CASE ReadCpt(x) \/ WriteCpt(x)
      <4>1. UNCHANGED <<count, etat, pc, sem>>
        BY <3>1 DEF ReadCpt, WriteCpt, semaphores, locals
      <4> QED
        BY <4>1, Stutter DEF Free, Asks, Waits
    <3>2. CASE ~(ReadCpt(x) \/ WriteCpt(x))
      <4>1. PICK op \in {"down", "up"}, s \in Sem : Call(x, op, s)
        BY <2>3, <3>2, ProdConAssumption DEF Client, Want, Lock, Unlock, Give, Takes, Gives
      <4>2. Promise!Call(x, op, s)
        BY <2>1, <4>1, Calls
      <4> QED
        BY <4>2 DEF Promise!Next
    <3> QED
      BY <3>1, <3>2
  <2>4. CASE DownWrite(x)
    BY <2>1, <2>4, TakesOrWaits DEF Promise!Next
  <2>5. CASE UpWrite(x)
    BY <2>1, <2>5, GivesOrHolds DEF Promise!Next
  <2>6. CASE UpWake(x)
    BY <2>1, <2>6, HandsOn DEF Promise!Next
  <2>7. CASE Operation(x) /\ ~DownWrite(x) /\ ~UpWrite(x) /\ ~UpWake(x)
    BY <2>1, <2>7, Unseen DEF Operation
  <2> QED
    BY <1>2, <2>3, <2>4, <2>5, <2>6, <2>7 DEF Step
<1> QED
  BY <1>1, <1>2 DEF Next

LEMMA StartsKept == Init => Promise!Init
<1> SUFFICES ASSUME Init PROVE Promise!Init
  OBVIOUS
<1>1. \A x \in Ctx : Asks(x) = {}
  BY AsksOf DEF AskedAs, Init, SemInit
<1>2. \A s \in Sem : (IF count[s] > 0 THEN count[s] ELSE 0) = Val[s]
  BY DEF Init, SemInit
<1> QED
  BY <1>1, <1>2 DEF Promise!Init

\* sem_down and sem_up implement the counting semaphore until two operations meet
\* (KeepsSemaphore).
THEOREM SemaphoreKept == Spec => KeepsSemaphore
<1>1. IInv /\ [Next]_vars => raced' \/ [Promise!Next]_(Promise!vars)
  BY StepsKeep
<1> QED
  BY <1>1, StartsKept, ListsSound, PTL DEF Spec, KeepsSemaphore

HIDE SemAssumption
USE ProdConAssumption

-----------------------------------------------------------------------------
(* The invariant: a permit is free, or in the hands of one.                 *)

\* What the operation that a context is in, or came from, leaves it to do.
Idle(x) == Asks(x) = {}
InCall(x, op, s) == Asks(x) = {<<op, s>>}

\* From the down that took it, or the object, to the up that gives it.
Owns(x, s) ==
    \/ s = "mutex" /\ (\/ at[x] = "read" /\ Idle(x)
                       \/ at[x] \in {"write", "unlock"}
                       \/ at[x] = "give" /\ ~Idle(x))
    \/ s = Takes(x) /\ ((at[x] = "lock" /\ Idle(x)) \/ at[x] \in {"read", "write"})
    \/ s = Gives(x) /\ (at[x] \in {"unlock", "give"} \/ (at[x] = "want" /\ ~Idle(x)))

Owners(s) == {x \in Ctx : Owns(x, s)}

Total(s) == IF s = "mutex" THEN 1 ELSE IF s = "plein" THEN stock ELSE N - stock

Balanced(s) == Free(s) + Cardinality(Owners(s)) = Total(s)

\* Where a client is, and the call that it makes there.
AtOK(x) ==
    /\ at[x] = "want" => Idle(x) \/ InCall(x, "up", Gives(x))
    /\ at[x] = "lock" => Idle(x) \/ InCall(x, "down", Takes(x)) \/ InCall(x, "wait", Takes(x))
    /\ at[x] = "read" => Idle(x) \/ InCall(x, "down", "mutex") \/ InCall(x, "wait", "mutex")
    /\ at[x] \in {"write", "unlock"} => Idle(x)
    /\ at[x] = "give" => Idle(x) \/ InCall(x, "up", "mutex")
    /\ at[x] = "write" => val[x] = cpt

Books ==
    /\ ~crashed /\ cpt = stock
    /\ \A x \in Ctx : AtOK(x)
    /\ \A s \in Sem : Balanced(s)

-----------------------------------------------------------------------------
(* Calls and owners.                                                        *)

\* A context makes one call at most.
LEMMA OneAnswer ==
    /\ \A a, b, s, t : {<<a, s>>} = {<<b, t>>} => a = b /\ s = t
    /\ \A a, s : {<<a, s>>} # {}
<1>1. ASSUME NEW a, NEW b, NEW s, NEW t, {<<a, s>>} = {<<b, t>>} PROVE a = b /\ s = t
  <2>1. <<a, s>> \in {<<b, t>>}
    BY <1>1
  <2> QED
    BY <2>1
<1> QED
  BY <1>1

LEMMA OneCallAt ==
    ASSUME NEW x \in Ctx
    PROVE  /\ \A a, b, s, t : InCall(x, a, s) /\ InCall(x, b, t) => a = b /\ s = t
           /\ \A a, s : InCall(x, a, s) => ~Idle(x)
<1>1. \A c : \A a, b, s, t : c = {<<a, s>>} /\ c = {<<b, t>>} => a = b /\ s = t
  BY OneAnswer, ZenonT(40)
<1> QED
  BY <1>1, OneAnswer, ZenonT(40) DEF InCall, Idle

\* The three semaphores are three.
LEMMA Names ==
    ASSUME NEW x \in Ctx
    PROVE  /\ Takes(x) \in {"vide", "plein"} /\ Gives(x) \in {"vide", "plein"}
           /\ Takes(x) # Gives(x)
BY DEF Takes, Gives

LEMMA Sizes ==
    ASSUME NEW s \in Sem
    PROVE  /\ IsFiniteSet(Owners(s)) /\ Cardinality(Owners(s)) \in Nat
           /\ IsFiniteSet(Owners(s))' /\ Cardinality(Owners(s))' \in Nat
<1>1. Owners(s) \in SUBSET Ctx /\ Owners(s)' \in SUBSET Ctx
  BY DEF Owners
<1>2. IsFiniteSet(Owners(s)) /\ IsFiniteSet(Owners(s)')
  BY <1>1, FS_Subset
<1> QED
  BY <1>2, FS_CardinalityType

\* A permit that changes hands.
LEMMA Same ==
    ASSUME NEW s \in Sem, \A y \in Ctx : Owns(y, s)' <=> Owns(y, s)
    PROVE  Cardinality(Owners(s))' = Cardinality(Owners(s))
<1>1. Owners(s)' = Owners(s)
  BY DEF Owners
<1> QED
  BY <1>1

LEMMA Gains ==
    ASSUME NEW s \in Sem, NEW x \in Ctx, ~Owns(x, s), Owns(x, s)',
           \A y \in Ctx : y # x => (Owns(y, s)' <=> Owns(y, s))
    PROVE  Cardinality(Owners(s))' = Cardinality(Owners(s)) + 1
<1>1. Owners(s)' = Owners(s) \cup {x} /\ x \notin Owners(s)
  BY DEF Owners
<1> QED
  BY <1>1, Sizes, FS_AddElement

LEMMA Loses ==
    ASSUME NEW s \in Sem, NEW x \in Ctx, Owns(x, s), ~Owns(x, s)',
           \A y \in Ctx : y # x => (Owns(y, s)' <=> Owns(y, s))
    PROVE  Cardinality(Owners(s))' = Cardinality(Owners(s)) - 1
<1>1. Owners(s)' = Owners(s) \ {x} /\ x \in Owners(s)
  BY DEF Owners
<1> QED
  BY <1>1, Sizes, FS_RemoveElement, ZenonT(40)

LEMMA Passes ==
    ASSUME NEW s \in Sem, NEW x \in Ctx, NEW y \in Ctx, x # y,
           Owns(x, s), ~Owns(x, s)', ~Owns(y, s), Owns(y, s)',
           \A z \in Ctx : z # x /\ z # y => (Owns(z, s)' <=> Owns(z, s))
    PROVE  Cardinality(Owners(s))' = Cardinality(Owners(s))
<1>1. /\ Owners(s)' = (Owners(s) \ {x}) \cup {y}
      /\ x \in Owners(s) /\ y \notin Owners(s) \ {x}
  BY DEF Owners
<1>2. IsFiniteSet(Owners(s) \ {x}) /\ Cardinality(Owners(s) \ {x}) = Cardinality(Owners(s)) - 1
  BY <1>1, Sizes, FS_RemoveElement
<1>3. Cardinality((Owners(s) \ {x}) \cup {y}) = Cardinality(Owners(s) \ {x}) + 1
  BY <1>1, <1>2, FS_AddElement
<1>4. Cardinality(Owners(s)) \in Nat
  BY Sizes
<1> QED
  BY <1>1, <1>2, <1>3, <1>4

LEMMA FreeNat ==
    ASSUME TypeOK, NEW s \in Sem
    PROVE  Free(s) \in Nat
BY DEF Free, TypeOK, SemTypeOK

-----------------------------------------------------------------------------
(* The steps, as the clients see them.                                      *)

\* A context whose call and place stay owns what it owned.
LEMMA Untouched ==
    ASSUME NEW y \in Ctx, Asks(y)' = Asks(y), at'[y] = at[y]
    PROVE  /\ \A t : Owns(y, t)' <=> Owns(y, t)
           /\ AtOK(y) /\ val'[y] = val[y] /\ cpt' = cpt => AtOK(y)'
<1>1. \A t : Owns(y, t)' <=> Owns(y, t)
  BY DEF Owns, Idle
<1>2. (Idle(y)' <=> Idle(y)) /\ \A op, t : InCall(y, op, t)' <=> InCall(y, op, t)
  BY DEF Idle, InCall
<1> QED
  BY <1>1, <1>2 DEF AtOK, Takes, Gives

LEMMA TakeSeen ==
    ASSUME NEW x \in Ctx, NEW s \in Sem, Promise!Take(x, s)
    PROVE  /\ InCall(x, "down", s) /\ Idle(x)' /\ Free(s) > 0
           /\ \A y \in Ctx : y # x => Asks(y)' = Asks(y)
           /\ \A t \in Sem : Free(t)' = IF t = s THEN Free(s) - 1 ELSE Free(t)
BY DEF Promise!Take, InCall, Idle, Free

LEMMA WaitSeen ==
    ASSUME NEW x \in Ctx, NEW s \in Sem, Promise!Wait(x, s)
    PROVE  /\ InCall(x, "down", s) /\ InCall(x, "wait", s)'
           /\ \A y \in Ctx : y # x => Asks(y)' = Asks(y)
           /\ \A t \in Sem : Free(t)' = Free(t)
BY DEF Promise!Wait, InCall, Free

LEMMA GiveSeen ==
    ASSUME NEW x \in Ctx, NEW s \in Sem, Promise!Give(x, s)
    PROVE  /\ InCall(x, "up", s) /\ Idle(x)'
           /\ \A y \in Ctx : y # x => Asks(y)' = Asks(y)
           /\ \A t \in Sem : Free(t)' = IF t = s THEN Free(s) + 1 ELSE Free(t)
BY DEF Promise!Give, InCall, Idle, Free

LEMMA HandSeen ==
    ASSUME NEW x \in Ctx, NEW y \in Ctx, NEW s \in Sem, Promise!Hand(x, y, s)
    PROVE  /\ InCall(x, "up", s) /\ Idle(x)' /\ InCall(y, "wait", s) /\ Idle(y)'
           /\ \A z \in Ctx : z # x /\ z # y => Asks(z)' = Asks(z)
           /\ \A t \in Sem : Free(t)' = Free(t)
BY DEF Promise!Hand, InCall, Idle, Free

LEMMA CallSeen ==
    ASSUME NEW x \in Ctx, NEW op, NEW s \in Sem, Promise!Call(x, op, s)
    PROVE  /\ Idle(x) /\ InCall(x, op, s)'
           /\ \A y \in Ctx : y # x => Asks(y)' = Asks(y)
           /\ \A t \in Sem : Free(t)' = Free(t)
BY DEF Promise!Call, InCall, Idle, Free

\* Where the calls are made, and what they take and give.
LEMMA AtDown ==
    ASSUME TypeOK, NEW x \in Ctx, AtOK(x), NEW s \in Sem,
           InCall(x, "down", s) \/ InCall(x, "wait", s)
    PROVE  /\ (at[x] = "lock" /\ s = Takes(x)) \/ (at[x] = "read" /\ s = "mutex")
           /\ ~Idle(x)
<1>1. at[x] \in {"want", "lock", "read", "write", "unlock", "give"}
  BY DEF TypeOK
<1>2. "down" # "up" /\ "wait" # "up"
  OBVIOUS
<1>3. ~Idle(x) /\ (\A t : ~InCall(x, "up", t))
      /\ (\A t : InCall(x, "down", t) \/ InCall(x, "wait", t) => t = s)
  BY <1>2, OneCallAt
<1> QED
  BY <1>1, <1>3 DEF AtOK

LEMMA AtUp ==
    ASSUME TypeOK, NEW x \in Ctx, AtOK(x), NEW s \in Sem, InCall(x, "up", s)
    PROVE  /\ (at[x] = "want" /\ s = Gives(x)) \/ (at[x] = "give" /\ s = "mutex")
           /\ ~Idle(x)
<1>1. at[x] \in {"want", "lock", "read", "write", "unlock", "give"}
  BY DEF TypeOK
<1>2. "up" # "down" /\ "up" # "wait"
  OBVIOUS
<1>3. ~Idle(x) /\ (\A t : ~InCall(x, "down", t) /\ ~InCall(x, "wait", t))
      /\ (\A t : InCall(x, "up", t) => t = s)
  BY <1>2, OneCallAt
<1> QED
  BY <1>1, <1>3 DEF AtOK

-----------------------------------------------------------------------------
(* The books stay balanced.                                                 *)

Place == UNCHANGED <<at, cpt, val, stock, crashed>>

LEMMA TotalsKept == Place => \A s : Total(s)' = Total(s)
BY DEF Place, Total

\* A permit is taken.
LEMMA TakeBooks ==
    ASSUME TypeOK, Books, Place, NEW x \in Ctx, NEW s \in Sem, Promise!Take(x, s)
    PROVE  Books'
<1>1. /\ InCall(x, "down", s) /\ Idle(x)' /\ Free(s) > 0
      /\ \A y \in Ctx : y # x => Asks(y)' = Asks(y)
      /\ \A t \in Sem : Free(t)' = IF t = s THEN Free(s) - 1 ELSE Free(t)
  BY TakeSeen
<1>2. (at[x] = "lock" /\ s = Takes(x)) \/ (at[x] = "read" /\ s = "mutex")
  BY <1>1, AtDown DEF Books
<1>3. ~Idle(x) /\ at' = at
  BY <1>1, OneCallAt DEF Place
<1>4. ASSUME NEW y \in Ctx PROVE AtOK(y)'
  <2>1. AtOK(y)
    BY DEF Books
  <2>2. CASE y = x
    BY <1>1, <1>2, <2>2 DEF AtOK, Place
  <2>3. CASE y # x
    BY <1>1, <2>1, <2>3, Untouched DEF Place
  <2> QED
    BY <2>2, <2>3
<1>5. ASSUME NEW t \in Sem PROVE Balanced(t)'
  <2>1. \A y \in Ctx : y # x => (Owns(y, t)' <=> Owns(y, t))
    BY <1>1, <1>3, Untouched
  <2>2. Total(t)' = Total(t) /\ Balanced(t)
    BY TotalsKept DEF Books
  <2>3. CASE t = s
    <3>1. ~Owns(x, t) /\ Owns(x, t)'
      BY <1>1, <1>2, <1>3, <2>3, Names DEF Owns, Takes, Gives
    <3>2. Cardinality(Owners(t))' = Cardinality(Owners(t)) + 1
      BY <2>1, <3>1, Gains
    <3> QED
      BY <1>1, <2>2, <2>3, <3>2, Sizes, FreeNat DEF Balanced
  <2>4. CASE t # s
    <3>1. Owns(x, t)' <=> Owns(x, t)
      BY <1>1, <1>2, <1>3, <2>4, Names DEF Owns, Takes, Gives
    <3>2. Cardinality(Owners(t))' = Cardinality(Owners(t))
      BY <2>1, <3>1, Same
    <3> QED
      BY <1>1, <2>2, <2>4, <3>2 DEF Balanced
  <2> QED
    BY <2>3, <2>4
<1> QED
  BY <1>4, <1>5 DEF Books, Place

\* A permit is put back.
LEMMA GiveBooks ==
    ASSUME TypeOK, Books, Place, NEW x \in Ctx, NEW s \in Sem, Promise!Give(x, s)
    PROVE  Books'
<1>1. /\ InCall(x, "up", s) /\ Idle(x)'
      /\ \A y \in Ctx : y # x => Asks(y)' = Asks(y)
      /\ \A t \in Sem : Free(t)' = IF t = s THEN Free(s) + 1 ELSE Free(t)
  BY GiveSeen
<1>2. (at[x] = "want" /\ s = Gives(x)) \/ (at[x] = "give" /\ s = "mutex")
  BY <1>1, AtUp DEF Books
<1>3. ~Idle(x) /\ at' = at
  BY <1>1, OneCallAt DEF Place
<1>4. ASSUME NEW y \in Ctx PROVE AtOK(y)'
  <2>1. AtOK(y)
    BY DEF Books
  <2>2. CASE y = x
    BY <1>1, <1>2, <2>2 DEF AtOK, Place
  <2>3. CASE y # x
    BY <1>1, <2>1, <2>3, Untouched DEF Place
  <2> QED
    BY <2>2, <2>3
<1>5. ASSUME NEW t \in Sem PROVE Balanced(t)'
  <2>1. \A y \in Ctx : y # x => (Owns(y, t)' <=> Owns(y, t))
    BY <1>1, <1>3, Untouched
  <2>2. Total(t)' = Total(t) /\ Balanced(t)
    BY TotalsKept DEF Books
  <2>3. CASE t = s
    <3>1. Owns(x, t) /\ ~Owns(x, t)'
      BY <1>1, <1>2, <1>3, <2>3, Names DEF Owns, Takes, Gives
    <3>2. Cardinality(Owners(t))' = Cardinality(Owners(t)) - 1
      BY <2>1, <3>1, Loses
    <3> QED
      BY <1>1, <2>2, <2>3, <3>2, Sizes, FreeNat DEF Balanced
  <2>4. CASE t # s
    <3>1. Owns(x, t)' <=> Owns(x, t)
      BY <1>1, <1>2, <1>3, <2>4, Names DEF Owns, Takes, Gives
    <3>2. Cardinality(Owners(t))' = Cardinality(Owners(t))
      BY <2>1, <3>1, Same
    <3> QED
      BY <1>1, <2>2, <2>4, <3>2 DEF Balanced
  <2> QED
    BY <2>3, <2>4
<1> QED
  BY <1>4, <1>5 DEF Books, Place

\* A permit goes from hand to hand.
LEMMA HandBooks ==
    ASSUME TypeOK, Books, Place, NEW x \in Ctx, NEW y \in Ctx, NEW s \in Sem,
           Promise!Hand(x, y, s)
    PROVE  Books'
<1>1. /\ InCall(x, "up", s) /\ Idle(x)' /\ InCall(y, "wait", s) /\ Idle(y)'
      /\ \A z \in Ctx : z # x /\ z # y => Asks(z)' = Asks(z)
      /\ \A t \in Sem : Free(t)' = Free(t)
  BY HandSeen
<1>2. (at[x] = "want" /\ s = Gives(x)) \/ (at[x] = "give" /\ s = "mutex")
  BY <1>1, AtUp DEF Books
<1>3. (at[y] = "lock" /\ s = Takes(y)) \/ (at[y] = "read" /\ s = "mutex")
  BY <1>1, AtDown DEF Books
<1>4. ~Idle(x) /\ ~Idle(y) /\ at' = at /\ x # y
  BY <1>1, <1>2, <1>3, OneCallAt DEF Place
<1>5. ASSUME NEW z \in Ctx PROVE AtOK(z)'
  <2>1. AtOK(z)
    BY DEF Books
  <2>2. CASE z = x
    BY <1>1, <1>2, <2>2 DEF AtOK, Place
  <2>3. CASE z = y
    BY <1>1, <1>3, <2>3 DEF AtOK, Place
  <2>4. CASE z # x /\ z # y
    BY <1>1, <2>1, <2>4, Untouched DEF Place
  <2> QED
    BY <2>2, <2>3, <2>4
<1>6. ASSUME NEW t \in Sem PROVE Balanced(t)'
  <2>1. \A z \in Ctx : z # x /\ z # y => (Owns(z, t)' <=> Owns(z, t))
    BY <1>1, <1>4, Untouched
  <2>2. Total(t)' = Total(t) /\ Balanced(t)
    BY TotalsKept DEF Books
  <2>3. Cardinality(Owners(t))' = Cardinality(Owners(t))
    <3>1. CASE t = s
      <4>1. Owns(x, t) /\ ~Owns(x, t)'
        BY <1>1, <1>2, <1>4, <3>1, Names DEF Owns, Takes, Gives
      <4>2. ~Owns(y, t) /\ Owns(y, t)'
        BY <1>1, <1>3, <1>4, <3>1, Names DEF Owns, Takes, Gives
      <4> QED
        BY <1>4, <2>1, <4>1, <4>2, Passes
    <3>2. CASE t # s
      <4>1. Owns(x, t)' <=> Owns(x, t)
        BY <1>1, <1>2, <1>4, <3>2, Names DEF Owns, Takes, Gives
      <4>2. Owns(y, t)' <=> Owns(y, t)
        BY <1>1, <1>3, <1>4, <3>2, Names DEF Owns, Takes, Gives
      <4> QED
        BY <2>1, <4>1, <4>2, Same
    <3> QED
      BY <3>1, <3>2
  <2> QED
    BY <1>1, <2>2, <2>3 DEF Balanced
<1> QED
  BY <1>5, <1>6 DEF Books, Place

\* One starts to wait, or nothing is seen at all.
LEMMA WaitBooks ==
    ASSUME TypeOK, Books, Place, NEW x \in Ctx, NEW s \in Sem, Promise!Wait(x, s)
    PROVE  Books'
<1>1. /\ InCall(x, "down", s) /\ InCall(x, "wait", s)'
      /\ \A y \in Ctx : y # x => Asks(y)' = Asks(y)
      /\ \A t \in Sem : Free(t)' = Free(t)
  BY WaitSeen
<1>2. (at[x] = "lock" /\ s = Takes(x)) \/ (at[x] = "read" /\ s = "mutex")
  BY <1>1, AtDown DEF Books
<1>3. ~Idle(x) /\ ~Idle(x)' /\ at' = at
  <2>1. ~Idle(x)'
    BY <1>1, OneAnswer DEF InCall, Idle
  <2> QED
    BY <1>1, <2>1, OneCallAt DEF Place
<1>4. ASSUME NEW y \in Ctx PROVE AtOK(y)'
  <2>1. AtOK(y)
    BY DEF Books
  <2>2. CASE y = x
    BY <1>1, <1>2, <2>2 DEF AtOK, Place, Takes
  <2>3. CASE y # x
    BY <1>1, <2>1, <2>3, Untouched DEF Place
  <2> QED
    BY <2>2, <2>3
<1>5. ASSUME NEW t \in Sem PROVE Balanced(t)'
  <2>1. \A y \in Ctx : Owns(y, t)' <=> Owns(y, t)
    <3>1. \A y \in Ctx : y # x => (Owns(y, t)' <=> Owns(y, t))
      BY <1>1, <1>3, Untouched
    <3>2. Owns(x, t)' <=> Owns(x, t)
      BY <1>3 DEF Owns, Takes, Gives
    <3> QED
      BY <3>1, <3>2
  <2>2. Cardinality(Owners(t))' = Cardinality(Owners(t))
    BY <2>1, Same
  <2> QED
    BY <1>1, <2>2, TotalsKept DEF Balanced, Books
<1> QED
  BY <1>4, <1>5 DEF Books, Place

LEMMA StutterBooks ==
    ASSUME Books, Place, UNCHANGED Promise!vars
    PROVE  Books'
<1>1. (\A y \in Ctx : Asks(y)' = Asks(y)) /\ \A t \in Sem : Free(t)' = Free(t)
  BY DEF Promise!vars, Free
<1>2. \A y \in Ctx : AtOK(y)'
  BY <1>1, Untouched DEF Books, Place
<1>3. ASSUME NEW t \in Sem PROVE Balanced(t)'
  <2>1. \A y \in Ctx : Owns(y, t)' <=> Owns(y, t)
    BY <1>1, Untouched DEF Place
  <2>2. Cardinality(Owners(t))' = Cardinality(Owners(t))
    BY <2>1, Same
  <2> QED
    BY <1>1, <2>2, TotalsKept DEF Balanced, Books
<1> QED
  BY <1>2, <1>3 DEF Books, Place

\* A call of a client: it keeps what it has.
LEMMA CallBooks ==
    ASSUME TypeOK, Books, NEW x \in Ctx, Want(x) \/ Lock(x) \/ Unlock(x) \/ Give(x)
    PROVE  Books'
<1> DEFINE Calling(op, s) == Call(x, op, s) /\ UNCHANGED <<cpt, val, stock, crashed>>
<1>1. \/ at[x] = "want" /\ at' = [at EXCEPT ![x] = "lock"] /\ Calling("down", Takes(x))
      \/ at[x] = "lock" /\ at' = [at EXCEPT ![x] = "read"] /\ Calling("down", "mutex")
      \/ at[x] = "unlock" /\ at' = [at EXCEPT ![x] = "give"] /\ Calling("up", "mutex")
      \/ at[x] = "give" /\ at' = [at EXCEPT ![x] = "want"] /\ Calling("up", Gives(x))
  BY DEF Want, Lock, Unlock, Give, Then, Call
<1>2. PICK op \in {"down", "up"}, s \in Sem :
        /\ Calling(op, s)
        /\ \/ at[x] = "want" /\ at' = [at EXCEPT ![x] = "lock"] /\ op = "down" /\ s = Takes(x)
           \/ at[x] = "lock" /\ at' = [at EXCEPT ![x] = "read"] /\ op = "down" /\ s = "mutex"
           \/ at[x] = "unlock" /\ at' = [at EXCEPT ![x] = "give"] /\ op = "up" /\ s = "mutex"
           \/ at[x] = "give" /\ at' = [at EXCEPT ![x] = "want"] /\ op = "up" /\ s = Gives(x)
  <2>1. Takes(x) \in Sem /\ Gives(x) \in Sem /\ "mutex" \in Sem
    BY Names
  <2> HIDE DEF Calling
  <2> QED
    BY <1>1, <2>1
<1>3. Promise!Call(x, op, s)
  BY <1>2, Calls
<1>4. /\ Idle(x) /\ InCall(x, op, s)'
      /\ \A y \in Ctx : y # x => Asks(y)' = Asks(y)
      /\ \A t \in Sem : Free(t)' = Free(t)
  BY <1>3, CallSeen
<1>5. ~Idle(x)'
  BY <1>4, OneAnswer DEF InCall, Idle
<1>6. UNCHANGED <<cpt, val, stock, crashed>> /\ \A y \in Ctx : y # x => at'[y] = at[y]
  <2>1. UNCHANGED <<cpt, val, stock, crashed>>
    BY <1>2
  <2>2. \A y \in Ctx : y # x => at'[y] = at[y]
    BY <1>2 DEF TypeOK
  <2> QED
    BY <2>1, <2>2
<1>7. \/ at[x] = "want" /\ at'[x] = "lock" /\ op = "down" /\ s = Takes(x)
      \/ at[x] = "lock" /\ at'[x] = "read" /\ op = "down" /\ s = "mutex"
      \/ at[x] = "unlock" /\ at'[x] = "give" /\ op = "up" /\ s = "mutex"
      \/ at[x] = "give" /\ at'[x] = "want" /\ op = "up" /\ s = Gives(x)
  BY <1>2 DEF TypeOK
<1>8. ASSUME NEW y \in Ctx PROVE AtOK(y)'
  <2>1. AtOK(y)
    BY DEF Books
  <2>2. CASE y = x
    BY <1>4, <1>7, <2>2 DEF AtOK, Takes, Gives
  <2>3. CASE y # x
    BY <1>4, <1>6, <2>1, <2>3, Untouched
  <2> QED
    BY <2>2, <2>3
<1>9. ASSUME NEW t \in Sem PROVE Balanced(t)'
  <2>1. \A y \in Ctx : Owns(y, t)' <=> Owns(y, t)
    <3>1. \A y \in Ctx : y # x => (Owns(y, t)' <=> Owns(y, t))
      BY <1>4, <1>6, Untouched
    <3>2. Owns(x, t)' <=> Owns(x, t)
      BY <1>4, <1>5, <1>7 DEF Owns, Takes, Gives
    <3> QED
      BY <3>1, <3>2
  <2>2. Cardinality(Owners(t))' = Cardinality(Owners(t))
    BY <2>1, Same
  <2> QED
    BY <1>4, <1>6, <2>2 DEF Balanced, Books, Total
<1> QED
  BY <1>6, <1>8, <1>9 DEF Books

\* Its call is over when it uses the stack, ...
LEMMA ReadBooks ==
    ASSUME TypeOK, Books, NEW x \in Ctx, ReadCpt(x)
    PROVE  Books'
<1>1. /\ pc[x] = "client" /\ at[x] = "read" /\ at'[x] = "write" /\ val'[x] = cpt
      /\ UNCHANGED <<count, etat, pc, sem, cpt, stock, crashed>>
      /\ \A y \in Ctx : y # x => at'[y] = at[y] /\ val'[y] = val[y]
  BY DEF ReadCpt, Then, semaphores, locals, TypeOK
<1>2. (\A y \in Ctx : Asks(y)' = Asks(y)) /\ \A t \in Sem : Free(t)' = Free(t)
  BY <1>1 DEF Asks, Waits, Free
<1>3. Idle(x) /\ Idle(x)'
  BY <1>1, <1>2, AsksOf DEF AskedAs, Idle
<1>4. ASSUME NEW y \in Ctx PROVE AtOK(y)'
  <2>1. AtOK(y)
    BY DEF Books
  <2>2. CASE y = x
    BY <1>1, <1>3, <2>2 DEF AtOK
  <2>3. CASE y # x
    BY <1>1, <1>2, <2>1, <2>3, Untouched
  <2> QED
    BY <2>2, <2>3
<1>5. ASSUME NEW t \in Sem PROVE Balanced(t)'
  <2>1. \A y \in Ctx : Owns(y, t)' <=> Owns(y, t)
    <3>1. \A y \in Ctx : y # x => (Owns(y, t)' <=> Owns(y, t))
      BY <1>1, <1>2, Untouched
    <3>2. Owns(x, t)' <=> Owns(x, t)
      BY <1>1, <1>3 DEF Owns, Takes, Gives
    <3> QED
      BY <3>1, <3>2
  <2>2. Cardinality(Owners(t))' = Cardinality(Owners(t))
    BY <2>1, Same
  <2> QED
    BY <1>1, <1>2, <2>2 DEF Balanced, Books, Total
<1> QED
  BY <1>1, <1>4, <1>5 DEF Books

\* ... and nobody else is in the middle of cpt++ or cpt--: one permit, one owner.
LEMMA OneWriter ==
    ASSUME TypeOK, Books, NEW x \in Ctx, NEW y \in Ctx, at[x] = "write", at[y] = "write"
    PROVE  x = y
<1> SUFFICES ASSUME x # y PROVE FALSE
  OBVIOUS
<1>1. "mutex" \in Sem /\ Free("mutex") \in Nat
  BY FreeNat
<1>2. {x, y} \in SUBSET Owners("mutex")
  BY DEF Owners, Owns
<1>3. IsFiniteSet(Owners("mutex")) /\ Cardinality(Owners("mutex")) \in Nat
  BY <1>1, Sizes
<1>4. Cardinality({x, y}) <= Cardinality(Owners("mutex"))
  BY <1>2, <1>3, FS_Subset
<1>5. Cardinality({x, y}) = 2
  <2>1. IsFiniteSet({x}) /\ Cardinality({x}) = 1 /\ {x, y} = {x} \cup {y}
    BY FS_Singleton
  <2>2. Cardinality({x} \cup {y}) = Cardinality({x}) + 1
    BY <2>1, FS_AddElement
  <2> QED
    BY <2>1, <2>2
<1>6. Free("mutex") + Cardinality(Owners("mutex")) = 1
  BY <1>1 DEF Books, Balanced, Total
<1> QED
  BY <1>1, <1>3, <1>4, <1>5, <1>6

\* An object put or taken is a permit of the other semaphore.
LEMMA WriteBooks ==
    ASSUME TypeOK, Books, NEW x \in Ctx, WriteCpt(x)
    PROVE  Books'
<1>1. /\ pc[x] = "client" /\ at[x] = "write" /\ at'[x] = "unlock"
      /\ cpt' = val[x] + Change(x) /\ stock' = stock + Change(x)
      /\ UNCHANGED <<count, etat, pc, sem, crashed>>
      /\ \A y \in Ctx : y # x => at'[y] = at[y] /\ at[y] # "write"
  BY OneWriter DEF WriteCpt, Then, semaphores, locals, TypeOK
<1>2. (\A y \in Ctx : Asks(y)' = Asks(y)) /\ \A t \in Sem : Free(t)' = Free(t)
  BY <1>1 DEF Asks, Waits, Free
<1>3. Idle(x) /\ Idle(x)'
  BY <1>1, <1>2, AsksOf DEF AskedAs, Idle
<1>4. cpt' = stock' /\ stock \in Int
  BY <1>1 DEF Books, AtOK, TypeOK
<1>5. ASSUME NEW y \in Ctx PROVE AtOK(y)'
  <2>1. AtOK(y)
    BY DEF Books
  <2>2. CASE y = x
    BY <1>1, <1>3, <2>2 DEF AtOK
  <2>3. CASE y # x
    <3>1. (Idle(y)' <=> Idle(y)) /\ \A op, t : InCall(y, op, t)' <=> InCall(y, op, t)
      BY <1>2 DEF Idle, InCall
    <3> QED
      BY <1>1, <2>1, <2>3, <3>1 DEF AtOK, Takes, Gives
  <2> QED
    BY <2>2, <2>3
<1>6. ASSUME NEW t \in Sem PROVE Balanced(t)'
  <2>1. \A y \in Ctx : y # x => (Owns(y, t)' <=> Owns(y, t))
    BY <1>1, <1>2, Untouched
  <2>2. Balanced(t) /\ Free(t)' = Free(t) /\ Free(t) \in Nat /\ Cardinality(Owners(t)) \in Nat
    BY <1>2, FreeNat, Sizes DEF Books
  <2>3. CASE t = "mutex"
    <3>1. Owns(x, t)' <=> Owns(x, t)
      BY <1>1, <2>3, Names DEF Owns
    <3>2. Cardinality(Owners(t))' = Cardinality(Owners(t))
      BY <2>1, <3>1, Same
    <3> QED
      BY <2>2, <2>3, <3>2 DEF Balanced, Total
  <2>4. CASE t = Takes(x)
    <3>1. Owns(x, t) /\ ~Owns(x, t)'
      BY <1>1, <2>4, Names DEF Owns, Takes, Gives
    <3>2. Cardinality(Owners(t))' = Cardinality(Owners(t)) - 1
      BY <2>1, <3>1, Loses
    <3>3. Total(t)' = Total(t) - 1
      BY <1>1, <1>4, <2>4, Names DEF Total, Takes, Change
    <3> QED
      BY <2>2, <3>2, <3>3 DEF Balanced
  <2>5. CASE t = Gives(x)
    <3>1. ~Owns(x, t) /\ Owns(x, t)'
      BY <1>1, <2>5, Names DEF Owns, Takes, Gives
    <3>2. Cardinality(Owners(t))' = Cardinality(Owners(t)) + 1
      BY <2>1, <3>1, Gains
    <3>3. Total(t)' = Total(t) + 1
      BY <1>1, <1>4, <2>5, Names DEF Total, Gives, Change
    <3> QED
      BY <2>2, <3>2, <3>3 DEF Balanced
  <2> QED
    BY <2>3, <2>4, <2>5, Names
<1> QED
  BY <1>1, <1>4, <1>5, <1>6 DEF Books

-----------------------------------------------------------------------------
(* The theorem.                                                             *)

SInv == ~raced => Books

LEMMA BooksOpen == Init => SInv
<1> SUFFICES ASSUME Init PROVE Books
  BY DEF SInv
<1>1. \A x \in Ctx : Idle(x) /\ at[x] = "want"
  BY AsksOf DEF AskedAs, Init, SemInit, Idle
<1>2. \A x \in Ctx : AtOK(x)
  BY <1>1 DEF AtOK
<1>3. ASSUME NEW s \in Sem PROVE Balanced(s)
  <2>1. Owners(s) = {}
    BY <1>1 DEF Owners, Owns
  <2>2. Free(s) = Val[s]
    BY DEF Free, Init, SemInit
  <2>3. Val[s] = Total(s)
    BY DEF Total, Init
  <2>4. Val[s] \in Nat
    OBVIOUS
  <2> QED
    BY <2>1, <2>2, <2>3, <2>4, FS_EmptySet DEF Balanced
<1> QED
  BY <1>2, <1>3 DEF Books, Init, SemInit

LEMMA BooksKept ==
    ASSUME IInv, SInv, [Next]_vars
    PROVE  SInv'
<1> SUFFICES ASSUME ~raced' PROVE Books'
  BY DEF SInv
<1>1. TypeOK
  BY DEF IInv
<1>2. CASE UNCHANGED vars
  <2>1. Place /\ ~raced
    BY <1>2 DEF Place, vars, semVars
  <2>2. UNCHANGED Promise!vars
    BY <1>2, Stutter DEF vars, semVars, semaphores, locals, Free, Asks, Waits
  <2> QED
    BY <2>1, <2>2, StutterBooks DEF SInv
<1>3. ASSUME NEW x \in Ctx, Step(x) PROVE Books'
  <2>1. ~raced /\ ~Overlap' /\ ~Overlap /\ Sound /\ Books
    BY <1>3 DEF Step, Remember, IInv, SInv
  <2>2. CASE Client(x)
    BY <1>1, <2>1, <2>2, CallBooks, ReadBooks, WriteBooks DEF Client
  <2>3. CASE Operation(x) /\ UNCHANGED <<at, cpt, val, stock>>
    <3>1. Place
      <4>1. ~UpNobody(x)
        BY <1>1, <2>1, Top, SemAssumption DEF UpNobody
      <4>2. crashed' = crashed
        BY <2>3, <4>1 DEF Operation, DownRead, DownWrite, DownTest, DownBlock, DownLink,
           DownPush, Spin, UpRead, UpWrite, UpTest, UpPick, UpWake, UpUnlink
      <4> QED
        BY <2>3, <4>2 DEF Place
    <3>2. CASE DownWrite(x)
      BY <1>1, <2>1, <3>1, <3>2, TakesOrWaits, TakeBooks, WaitBooks
    <3>3. CASE UpWrite(x)
      BY <1>1, <2>1, <3>1, <3>3, GivesOrHolds, GiveBooks, StutterBooks
    <3>4. CASE UpWake(x)
      BY <1>1, <2>1, <3>1, <3>4, HandsOn, HandBooks
    <3>5. CASE ~DownWrite(x) /\ ~UpWrite(x) /\ ~UpWake(x)
      BY <1>1, <2>1, <2>3, <3>1, <3>5, Unseen, StutterBooks DEF Operation
    <3> QED
      BY <3>2, <3>3, <3>4, <3>5
  <2> QED
    BY <1>3, <2>2, <2>3 DEF Step
<1> QED
  BY <1>2, <1>3 DEF Next

\* What the permits say of the stack.
LEMMA BooksTell ==
    ASSUME IInv, SInv
    PROVE  StackRight
<1> SUFFICES ASSUME Books PROVE ~crashed /\ 0 <= stock /\ stock <= N /\ cpt = stock
  BY DEF SInv, StackRight
<1>1. "plein" \in Sem /\ "vide" \in Sem /\ TypeOK
  BY DEF IInv
<1>2. Free("plein") + Cardinality(Owners("plein")) = stock
  BY <1>1 DEF Books, Balanced, Total
<1>3. Free("vide") + Cardinality(Owners("vide")) = N - stock
  BY <1>1 DEF Books, Balanced, Total
<1>4. /\ Free("plein") \in Nat /\ Cardinality(Owners("plein")) \in Nat
      /\ Free("vide") \in Nat /\ Cardinality(Owners("vide")) \in Nat /\ stock \in Int
  BY <1>1, FreeNat, Sizes DEF TypeOK
<1> QED
  BY <1>2, <1>3, <1>4 DEF Books

\* Until two operations met, sem_up finds whom to wake and the stack holds what the
\* counter says, between nothing and N (StackRight): each permit is free or in the
\* hands of one context, and the objects are the permits of plein.
THEOREM StackKept == Spec => []StackRight
<1>1. IInv /\ SInv /\ [Next]_vars => SInv'
  BY BooksKept
<1>2. IInv /\ SInv => StackRight
  BY BooksTell
<1> QED
  BY <1>1, <1>2, BooksOpen, ListsSound, PTL DEF Spec
===============================================================================
