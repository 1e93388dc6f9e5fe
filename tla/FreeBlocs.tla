------------------------------ MODULE FreeBlocs ------------------------------
(***************************************************************************)
(* The superbloc and the free list of the current volume (vol_courant, which*)
(* nothing assigns, so volume 0): src/disque/filesystem.c, one sector       *)
(* write at a time, with the end of the process possible between any two of *)
(* them and another process mounting the volume afterwards.                 *)
(*                                                                          *)
(* The clients are what the rest of the code does with a bloc: create_inode *)
(* writes an inode on it, aux_vbloc_of_fbloc names it in an inode or in a   *)
(* table and fills it with zeros (in either order, both occur), flush_ifile *)
(* writes data on it, delete_ifile and delete_inode give it back.           *)
(***************************************************************************)
EXTENDS Integers, FiniteSets

CONSTANTS
    NSector,    \* sectors of the volume, mbr->volume[0].nsector
    MaxBloc,    \* last bloc address represented; NSector is already outside
    Half,       \* 2^15 in the code: a stored field has two bytes
    None        \* the NULL pointer

ASSUME SizeAssumption ==
    /\ NSector \in Nat /\ NSector >= 2
    /\ MaxBloc \in Nat /\ MaxBloc >= NSector
    /\ Half \in Nat /\ Half > MaxBloc

VARIABLES
    super,      \* super_courant, the superbloc in memory, or None
    disk,       \* the sectors from the first one of the volume on
    pc,         \* the next sector write, "idle" between calls, "abort"
    arg,        \* the bloc the current call is about
    hdr,        \* the free_bloc_s that the current call will write
    parent,     \* the inode or table, read before, that will name the bloc
    \* What has been given out, for the properties only.
    held,       \* blocs taken from the list and not given back
    linked,     \* those of them that some inode, directory or user names
    freed,      \* blocs given back and not handed out again
    cursor,     \* the blocs from here to NSector-1 were never handed out
    fault,      \* the last limit of the allocator the life has gone past
    torn        \* calls cut between two of their writes: 0, 1, 2 for more

disque == <<super, disk>>
ghosts == <<held, linked, freed, cursor, fault, torn>>
vars   == <<super, disk, pc, arg, hdr, parent, held, linked, freed, cursor,
            fault, torn>>

-----------------------------------------------------------------------------
(* Sectors.                                                                 *)

Bloc == 0 .. MaxBloc
Word == 2 * Half

\* "x >> 8" and "x & 0xFF", each kept in one unsigned char.
Stored(x) == x % Word

\* "(buf[i] << 8) + (buf[i+1] & 0xFF)" where buf is a char *, signed here.
Signed(w) == IF w < Half THEN w ELSE w - Word

Sector == [kind : {"super", "free", "inode", "data"},
           nb : 0 .. Word - 1, link : Bloc]

\* In memory: superbloc_s, free_bloc_s, and a bloc with what was read from it.
Superbloc  == [nb : Int, first : Bloc]
FreeHeader == [nb : 0 .. Word - 1, next : Bloc]
BlocCopy   == [bloc : Bloc, copy : Sector]

\* The NULL pointer is none of them.
ASSUME NoneAssumption == None \notin Superbloc \cup FreeHeader \cup BlocCopy

SuperSector(s) == [kind |-> "super", nb |-> Stored(s.nb), link |-> Stored(s.first)]
FreeSector(h)  == [kind |-> "free", nb |-> Stored(h.nb), link |-> Stored(h.next)]
InodeSector    == [kind |-> "inode", nb |-> 0, link |-> 0]
DataSector     == [kind |-> "data", nb |-> 0, link |-> 0]

\* read_super_bloc, once the magic is accepted.
ReadSuper(sector) == [nb |-> Signed(sector.nb), first |-> Signed(sector.link)]

\* read_free_bloc, once the magic is accepted: unsigned char here.
ReadFree(sector) == [nb |-> sector.nb, next |-> sector.link]

Write(b, sector) == disk' = [disk EXCEPT ![b] = sector]

-----------------------------------------------------------------------------
(* init_super, called by mknfs: the superbloc, then the only free run.      *)

EmptySuper == [nb |-> NSector - 1, first |-> 1]

Init ==
    /\ super = None
    /\ disk = [b \in Bloc |-> DataSector]
    /\ pc = "format" /\ arg = 0 /\ hdr = None /\ parent = None
    /\ held = {} /\ linked = {} /\ freed = {} /\ cursor = 1
    /\ fault = "none" /\ torn = 0

InitSuper ==
    /\ pc = "format"
    /\ super' = EmptySuper
    /\ Write(0, SuperSector(EmptySuper))
    /\ hdr' = [nb |-> NSector - 1, next |-> 0]
    /\ pc' = "format_head"
    /\ UNCHANGED <<arg, parent, ghosts>>

InitHead ==
    /\ pc = "format_head"
    /\ Write(1, FreeSector(hdr))
    /\ pc' = "idle" /\ hdr' = None
    /\ UNCHANGED <<super, arg, parent, ghosts>>

-----------------------------------------------------------------------------
(* Mounting: load_super (and mount), and what mknfs does last.              *)

MagicAccepted == disk[0].kind = "super"

Abort == pc' = "abort"

\* load_super: the assertion on the magic ends the process.
LoadSuper ==
    /\ pc = "idle"
    /\ \/ /\ MagicAccepted
          /\ super' = ReadSuper(disk[0])
          /\ UNCHANGED pc
       \/ /\ ~MagicAccepted
          /\ Abort
          /\ UNCHANGED super
    /\ UNCHANGED <<disk, arg, hdr, parent, ghosts>>

\* mknfs reloads the superbloc, names the root inode in it and writes it back.
SaveRoot ==
    /\ pc = "idle"
    /\ MagicAccepted
    /\ super' = ReadSuper(disk[0])
    /\ Write(0, SuperSector(ReadSuper(disk[0])))
    /\ UNCHANGED <<pc, arg, hdr, parent, ghosts>>

-----------------------------------------------------------------------------
(* new_bloc.                                                                *)

\* The clients: create_inode has nothing to name the bloc in; the others have
\* just read the inode or the table that will.
Naming == {None} \cup {[bloc |-> b, copy |-> disk[b]] :
                          b \in {l \in linked : disk[l].kind \in {"inode", "data"}}}

\* Mistake: the last bloc is refused.
NewBlocFullEarly ==
    /\ super.nb \in {0, 1}
    /\ arg' = 0 /\ hdr' = None
    /\ pc' = "use"
    /\ fault' = "full"
    /\ UNCHANGED super

\* "Retourne 0 si aucun bloc n'est libre": no caller looks at the result.
NewBlocFull ==
    /\ super.nb = 0
    /\ arg' = 0 /\ hdr' = None
    /\ pc' = "use"
    /\ fault' = "full"
    /\ UNCHANGED super

\* read_free_bloc: "Stoppe le fonctionnement du programme".
NewBlocLost ==
    /\ super.nb # 0
    /\ disk[super.first].kind # "free"
    /\ Abort
    /\ UNCHANGED <<super, arg, hdr, fault>>

\* The first free bloc is alone in its run: the head moves to the next run and
\* the new head is what is returned.
NewBlocSingle ==
    LET h == ReadFree(disk[super.first])
    IN  /\ super.nb # 0
        /\ disk[super.first].kind = "free"
        /\ h.nb = 1
        /\ super' = [nb |-> super.nb - 1, first |-> h.next]
        /\ arg' = h.next /\ hdr' = None
        /\ pc' = "save"
        /\ fault' = "singleton"

\* Mistakes of new_bloc that the checks see: a head that is not advanced, and one
\* that is advanced past a bloc.
RunTakenStuck(s) == [nb |-> s.nb - 1, first |-> s.first]
RunTakenTwice(s) == [nb |-> s.nb - 1, first |-> s.first + 2]

RunTaken(s) == [nb |-> s.nb - 1, first |-> s.first + 1]

\* The head moves one bloc on and takes the header along, its count unchanged.
NewBlocRun ==
    LET h == ReadFree(disk[super.first])
    IN  /\ super.nb # 0
        /\ disk[super.first].kind = "free"
        /\ h.nb # 1
        /\ super' = RunTaken(super)
        /\ arg' = super.first /\ hdr' = h
        /\ pc' = "save"
        /\ UNCHANGED fault

NewBloc ==
    /\ pc = "idle" /\ super # None
    /\ super.first \in 0 .. MaxBloc - 1     \* the addresses represented
    /\ parent' \in Naming
    /\ NewBlocFull \/ NewBlocLost \/ NewBlocSingle \/ NewBlocRun
    /\ UNCHANGED <<disk, held, linked, freed, cursor, torn>>

\* save_super: from here on the disk says that the bloc is taken.
NewSave ==
    /\ pc = "save"
    /\ Write(0, SuperSector(super))
    /\ pc' = IF hdr = None THEN "use" ELSE "head"
    /\ held' = held \cup {arg}
    /\ freed' = IF hdr = None THEN freed \ {disk[0].link} ELSE freed
    /\ cursor' = IF arg = cursor /\ cursor < NSector THEN cursor + 1 ELSE cursor
    /\ UNCHANGED <<super, arg, hdr, parent, linked, fault, torn>>

NewHead ==
    /\ pc = "head"
    /\ Write(super.first, FreeSector(hdr))
    /\ hdr' = None
    /\ pc' = "use"
    /\ UNCHANGED <<super, arg, parent, ghosts>>

-----------------------------------------------------------------------------
(* What the caller of new_bloc does with the result.                        *)

Done == pc' = "idle" /\ parent' = None /\ arg' = 0

\* create_inode.
UseInode ==
    /\ pc = "use" /\ parent = None
    /\ Write(arg, InodeSector)
    /\ linked' = linked \cup {arg}
    /\ Done
    /\ UNCHANGED <<super, hdr, held, freed, cursor, fault, torn>>

\* The inode or table that names the bloc goes back to its own sector.
WriteParent ==
    /\ Write(parent.bloc, parent.copy)
    /\ linked' = linked \cup {arg}
    /\ UNCHANGED <<super, hdr, held, freed, cursor, fault, torn>>

\* A data bloc of the first ranges: named, then filled with zeros.
Name ==
    /\ pc = "use" /\ parent # None
    /\ WriteParent
    /\ pc' = "clean" /\ UNCHANGED <<arg, parent>>

\* Mistake: the bloc keeps what was on it.
CleanNothing ==
    /\ pc = "clean"
    /\ Done
    /\ UNCHANGED <<super, disk, hdr, ghosts>>

Clean ==
    /\ pc = "clean"
    /\ Write(arg, DataSector)
    /\ Done
    /\ UNCHANGED <<super, hdr, ghosts>>

\* Mistake: the inode read before the call is not kept for the name.
CleanEarlyForgets ==
    /\ pc = "use" /\ parent # None
    /\ Write(arg, DataSector)
    /\ pc' = "name" /\ parent' = None
    /\ UNCHANGED <<super, arg, hdr, ghosts>>

\* A table, or a data bloc of the last range: filled with zeros, then named.
CleanEarly ==
    /\ pc = "use" /\ parent # None
    /\ Write(arg, DataSector)
    /\ pc' = "name"
    /\ UNCHANGED <<super, arg, hdr, parent, ghosts>>

NameLate ==
    /\ pc = "name"
    /\ WriteParent
    /\ Done

\* flush_ifile: data over a bloc of a file.  No data looks like a magic.
WriteData ==
    /\ pc = "idle"
    /\ \E b \in linked : disk[b].kind # "inode" /\ Write(b, DataSector)
    /\ UNCHANGED <<super, pc, arg, hdr, parent, ghosts>>

-----------------------------------------------------------------------------
(* free_bloc.  It reads the superbloc itself when there is none.            *)

\* Mistakes: the run of one bloc is given the count of the volume, or loses the
\* rest of the list; the superbloc does not count the bloc.
FreedHeaderCounts(s) == [nb |-> Stored(s.nb + 1), next |-> s.first]
FreedHeaderEnds(s)   == [nb |-> 1, next |-> 0]
FreedSuperForgets(s, b) == [nb |-> s.nb, first |-> b]

FreedHeader(s)   == [nb |-> 1, next |-> s.first]
FreedSuper(s, b) == [nb |-> s.nb + 1, first |-> b]

FreeBloc ==
    /\ pc = "idle"
    /\ \/ /\ super = None /\ ~MagicAccepted
          /\ Abort
          /\ UNCHANGED <<super, arg, hdr>>
       \/ LET s == IF super = None THEN ReadSuper(disk[0]) ELSE super
          IN  /\ super = None => MagicAccepted
              /\ \E b \in linked :
                    /\ hdr' = FreedHeader(s)
                    /\ super' = FreedSuper(s, b)
                    /\ arg' = b
              /\ pc' = "f_save"
    /\ UNCHANGED <<disk, parent, ghosts>>

\* Mistake: the superbloc only changes in memory.
FreeSaveNothing ==
    /\ pc = "f_save"
    /\ pc' = "f_clean"
    /\ held' = held \ {arg} /\ linked' = linked \ {arg}
    /\ freed' = freed \cup {arg}
    /\ UNCHANGED <<super, disk, arg, hdr, parent, cursor, fault, torn>>

FreeSave ==
    /\ pc = "f_save"
    /\ Write(0, SuperSector(super))
    /\ pc' = "f_clean"
    /\ held' = held \ {arg} /\ linked' = linked \ {arg}
    /\ freed' = freed \cup {arg}
    /\ UNCHANGED <<super, arg, hdr, parent, cursor, fault, torn>>

FreeClean ==
    /\ pc = "f_clean"
    /\ Write(arg, DataSector)
    /\ pc' = "f_head"
    /\ UNCHANGED <<super, arg, hdr, parent, ghosts>>

\* Mistake: the header is not written, the bloc stays filled with zeros.
FreeHeadNothing ==
    /\ pc = "f_head"
    /\ pc' = "idle" /\ arg' = 0 /\ hdr' = None
    /\ UNCHANGED <<super, disk, parent, ghosts>>

FreeHead ==
    /\ pc = "f_head"
    /\ Write(arg, FreeSector(hdr))
    /\ pc' = "idle" /\ arg' = 0 /\ hdr' = None
    /\ UNCHANGED <<super, parent, ghosts>>

-----------------------------------------------------------------------------
(* The end of a process, wanted or not, and the start of the next one.      *)

\* Cut between two writes that only make sense together.
MidCall == {"format_head", "head", "clean", "f_clean", "f_head"}

Restart ==
    /\ pc # "format"
    /\ super' = None
    /\ pc' = "idle" /\ arg' = 0 /\ hdr' = None /\ parent' = None
    /\ torn' = IF pc \in MidCall /\ torn < 2 THEN torn + 1 ELSE torn
    /\ UNCHANGED <<disk, held, linked, freed, cursor, fault>>

-----------------------------------------------------------------------------
Format == InitSuper \/ InitHead
Mount  == LoadSuper \/ SaveRoot
Create == NewBloc \/ NewSave \/ NewHead \/ UseInode \/ Name \/ Clean
            \/ CleanEarly \/ NameLate \/ WriteData
Delete == FreeBloc \/ FreeSave \/ FreeClean \/ FreeHead

CreateNext == Format \/ Mount \/ Create \/ Restart
Next == CreateNext \/ Delete

\* mknfs, if_nfile, if_cfile, mkdir: programs that never delete.
CreateSpec == Init /\ [][CreateNext]_vars
Spec == Init /\ [][Next]_vars

-----------------------------------------------------------------------------
(* What is checked.                                                         *)

\* The types, and that a call under way has what its next write needs.
TypeOK ==
    /\ super \in {None} \cup Superbloc
    /\ disk \in [Bloc -> Sector]
    /\ pc \in {"format", "format_head", "idle", "abort", "save", "head", "use",
               "clean", "name", "f_save", "f_clean", "f_head"}
    /\ arg \in Bloc
    /\ hdr \in {None} \cup FreeHeader
    /\ parent \in {None} \cup BlocCopy
    /\ held \subseteq Bloc /\ linked \subseteq Bloc /\ freed \subseteq Bloc
    /\ cursor \in Bloc
    /\ fault \in {"none", "singleton", "full"}
    /\ torn \in 0 .. 2
    /\ pc \in {"format_head", "save", "head", "f_save"} => super # None
    /\ pc \in {"format_head", "head", "f_save", "f_clean", "f_head"} => hdr # None
    /\ pc \in {"clean", "name"} => parent # None

\* "Retourne un nouveau bloc": what new_bloc is about to commit is a bloc of the
\* volume that nobody holds.
NoDoubleAllocation == pc = "save" => arg \in (1 .. NSector - 1) \ held

\* ... as long as the head of the list was not alone in its run, and although
\* one process, at whatever point, was cut in the middle of a call.
FreshBloc == fault = "none" /\ torn < 2 => NoDoubleAllocation

\* Even after a cut in the middle of a call, the superbloc on the disk counts
\* as free exactly the blocs that nobody holds.
CountMatches ==
    fault = "none" /\ torn < 2 /\ pc # "format" =>
        ReadSuper(disk[0]).nb = NSector - 1 - Cardinality(held)

\* Outside of the two calls that are about to save it, the superbloc in memory
\* is the one of the disk: killing a process loses at most the call under way.
MemoryMatchesDisk ==
    fault = "none" /\ torn < 2 /\ pc \notin {"save", "f_save"} /\ super # None =>
        disk[0] = SuperSector(super)

\* Between two calls the list reached from the superbloc goes through every
\* bloc given back, once each, and ends at the run never handed out.
Chain[n \in 0 .. NSector] ==
    IF n = 0 THEN disk[0].link ELSE disk[Chain[n - 1]].link
FreeListExact ==
    fault = "none" /\ torn = 0 /\ pc = "idle" =>
        LET n == Cardinality(freed)
        IN  /\ {Chain[i] : i \in 0 .. n - 1} = freed
            /\ Chain[n] = cursor
            /\ \A b \in freed : disk[b].kind = "free" /\ disk[b].nb = 1
            /\ cursor < NSector => disk[cursor].kind = "free"

\* A volume whose calls all ran to their end, or were cut where nothing was
\* half done, is never refused by an assertion on a magic.
NoSpuriousAbort == fault = "none" /\ torn = 0 => pc # "abort"

\* A bloc in use keeps no free_bloc_s header once the call that took it is over.
NoStaleHeader ==
    fault = "none" /\ torn = 0 /\ pc # "clean" =>
        \A b \in linked : disk[b].kind # "free"

\* Until the last bloc is handed out no write leaves the volume.
NeighbourUntouched ==
    fault = "none" /\ torn < 2 /\ cursor < NSector =>
        \A b \in NSector .. MaxBloc : disk[b] = DataSector

\* The client has what new_bloc returned from the write of the superbloc that takes
\* the bloc, or from the refusal, to its last write.
Answered == pc \in {"head", "use", "clean", "name"}
Pool == INSTANCE BlocPool WITH answer <- IF Answered THEN arg ELSE None

\* For programs that never delete, every return of new_bloc, through cuts, restarts
\* and exhaustion, is one the promise allows: a bloc that nobody holds, and 0 only
\* once every bloc of the volume is held.
KeepsPromise == Pool!GrowSpec
=============================================================================
