-------------------------------- MODULE Drive --------------------------------
(***************************************************************************)
(* A sector access of src/disque/drive.c on the hardware as mkhd() of       *)
(* src/initialisation.c sets it up: the disk works, raises its interrupt,   *)
(* and the core that asked for it sleeps until then.                        *)
(*                                                                          *)
(* The disk, and the way of an interrupt to a core, are external: what      *)
(* hardware.h and etc/hardware.ini say of _sleep, IRQVECTOR and the         *)
(* registers CORE_IRQMAPPER.  The other modules describe the file system on *)
(* a disk that answers.                                                     *)
(***************************************************************************)
EXTENDS Integers, Sequences

CONSTANTS
    NCore,      \* N_CORE_MAX
    NIrq,       \* NB_HW_IRQ
    TimerIrq, HdaIrq    \* interrupts but 0, not the same

Core == 0 .. NCore - 1
Irq  == 0 .. NIrq - 1

VARIABLES
    mkhd,       \* what mkhd still has to do: its steps, in order
    vector,     \* IRQVECTOR
    mapper,     \* the interrupts that CORE_IRQMAPPER + i sends to core i
    todo,       \* what the access of core 0 still has to do
    asked,      \* the commands that the disk has not finished
    raised,     \* the interrupts that no core has taken
    inside,     \* the handlers each core is in
    awake       \* _sleep of core 0 may return

vars == <<mkhd, vector, mapper, todo, asked, raised, inside, awake>>

Init ==
    /\ mkhd = <<"vector", "mapper", "enable">>
    /\ vector = [i \in Irq |-> "none"]
    /\ mapper = [c \in Core |-> {}]
    /\ todo = <<>> /\ asked = {} /\ raised = {}
    /\ inside = [c \in Core |-> {}]
    /\ awake = FALSE

-----------------------------------------------------------------------------
(* mkhd.                                                                    *)

Step(name) == mkhd # <<>> /\ Head(mkhd) = name /\ mkhd' = Tail(mkhd)

SetVector ==
    /\ Step("vector")
    /\ vector' = [i \in Irq |-> CASE i = 0 -> "function"
                                  [] i = TimerIrq -> "yield"
                                  [] OTHER -> "empty_fun"]
    /\ UNCHANGED <<mapper, todo, asked, raised, inside, awake>>

\* A register has one bit per interrupt: 0xF is that of the first four.
Bits(mask) == {i \in Irq : (mask \div 2^i) % 2 = 1}

SetMapper ==
    /\ Step("mapper")
    /\ mapper' = [c \in Core |-> IF c = 0 THEN Bits(0) ELSE Bits(15)]
    /\ UNCHANGED <<vector, todo, asked, raised, inside, awake>>

\* CORE_STATUS: a core that starts executes IRQVECTOR[0].
Enable ==
    /\ Step("enable")
    /\ inside' = [c \in Core |-> IF c = 0 THEN {} ELSE {vector[0]}]
    /\ UNCHANGED <<vector, mapper, todo, asked, raised, awake>>

-----------------------------------------------------------------------------
(* An access, by main: on core 0.                                           *)

MoveHead == <<"seek", "sleep">>

Access(steps) ==
    /\ mkhd = <<>> /\ todo = <<>>
    /\ todo' = steps
    /\ UNCHANGED <<mkhd, vector, mapper, asked, raised, inside, awake>>

\* The second sleep of write_sector waits for an interrupt of its own.  (What is
\* put in the registers is left out: both exchange the arguments of the number of
\* sectors, _out_16bits(HDA_DATAREGS, 1).)
ReadSector  == Access(MoveHead \o <<"read", "sleep">>)
WriteSector == Access(MoveHead \o <<"sleep", "write", "sleep">>)

Command(name) ==
    /\ todo # <<>> /\ Head(todo) = name
    /\ todo' = Tail(todo)
    /\ asked' = asked \cup {name}
    /\ awake' = FALSE
    /\ UNCHANGED <<mkhd, vector, mapper, raised, inside>>

\* _sleep stops the core until an interrupt of level HDA_IRQ at least; one that
\* came since the command counts as well, which is the kindest it can do.
Sleep ==
    /\ todo # <<>> /\ Head(todo) = "sleep" /\ awake /\ inside[0] = {}
    /\ todo' = Tail(todo)
    /\ awake' = FALSE
    /\ UNCHANGED <<mkhd, vector, mapper, asked, raised, inside>>

-----------------------------------------------------------------------------
(* The hardware.                                                            *)

Finish ==
    /\ \E name \in asked : asked' = asked \ {name}
    /\ raised' = raised \cup {HdaIrq}
    /\ UNCHANGED <<mkhd, vector, mapper, todo, inside, awake>>

Deliver(c) ==
    \E i \in raised \cap mapper[c] :
        /\ raised' = raised \ {i}
        /\ inside' = [inside EXCEPT ![c] = @ \cup {vector[i]}]
        /\ awake' = (awake \/ (c = 0 /\ i >= HdaIrq))
        /\ UNCHANGED <<mkhd, vector, mapper, todo, asked>>

\* empty_fun is "while(1)", and function ends in a context that runs it.
Return(c) ==
    \E h \in inside[c] \ {"empty_fun", "function"} :
        /\ inside' = [inside EXCEPT ![c] = @ \ {h}]
        /\ UNCHANGED <<mkhd, vector, mapper, todo, asked, raised, awake>>

-----------------------------------------------------------------------------
(* The specification.                                                       *)

Mkhd == SetVector \/ SetMapper \/ Enable
Run  == \/ Command("seek") \/ Command("read") \/ Command("write") \/ Sleep
Hardware == Finish \/ \E c \in Core : Deliver(c) \/ Return(c)

Next == Mkhd \/ ReadSector \/ WriteSector \/ Run \/ Hardware

Spec == Init /\ [][Next]_vars

\* Core 0 runs, the disk finishes what it was asked, and a core that an interrupt
\* is sent to takes it.
FairSpec ==
    /\ Spec
    /\ WF_vars(Mkhd) /\ WF_vars(Run) /\ WF_vars(Finish)
    /\ \A c \in Core : WF_vars(Deliver(c)) /\ WF_vars(Return(c))

\* "Lit le secteur a l'adresse cylinder x sector et le stocke dans le buffer"
\* (drive.c:100): an access that was begun is done at some time.
AccessEnds == todo # <<>> ~> todo = <<>>
=============================================================================
