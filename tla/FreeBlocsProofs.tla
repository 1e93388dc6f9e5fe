--------------------------- MODULE FreeBlocsProofs ---------------------------
(***************************************************************************)
(* Theorems about FreeBlocs: the types, what a program that never deletes   *)
(* keeps of the allocator's promise, what survives of it with deletions, and*)
(* the list of free blocs.                                                  *)
(***************************************************************************)
EXTENDS FreeBlocs, Induction, FiniteSetTheorems, TLAPS

-----------------------------------------------------------------------------
(* Types.                                                                   *)

\* A stored field is one of the values that two bytes hold.
LEMMA StoredType ==
    ASSUME NEW x \in Int PROVE Stored(x) \in 0 .. Word - 1
BY SizeAssumption DEF Stored, Word

\* Two bytes are enough for every address of the volume, and for the signed
\* read back too, since Half is beyond the last one.
LEMMA StoredExact ==
    ASSUME NEW x \in 0 .. MaxBloc PROVE Stored(x) = x /\ Signed(x) = x
<1>1. x \in 0 .. Word - 1 /\ Half > 0
  BY SizeAssumption DEF Word
<1>2. Stored(x) = x
  BY <1>1, SizeAssumption DEF Stored, Word
<1> QED
  BY <1>2, SizeAssumption DEF Signed

\* What is written on a sector, and what is read back from one, have their types.
LEMMA SectorTypes ==
    /\ InodeSector \in Sector /\ DataSector \in Sector
    /\ \A s \in Superbloc : SuperSector(s) \in Sector
    /\ \A h \in FreeHeader : FreeSector(h) \in Sector
    /\ \A t \in Sector : /\ ReadSuper(t) \in Superbloc
                         /\ ReadFree(t) \in FreeHeader
<1>1. /\ 0 \in 0 .. Word - 1 /\ 0 \in Bloc
      /\ \A x \in Int : Stored(x) \in 0 .. Word - 1
      /\ \A x \in Bloc : Stored(x) = x /\ Signed(x) = x
      /\ \A x \in 0 .. Word - 1 : Signed(x) \in Int
  BY StoredType, StoredExact, SizeAssumption DEF Bloc, Word, Signed
<1>2. InodeSector \in Sector /\ DataSector \in Sector
  BY <1>1 DEF InodeSector, DataSector, Sector
<1>3. \A s \in Superbloc : SuperSector(s) \in Sector
  BY <1>1 DEF SuperSector, Sector, Superbloc
<1>4. \A h \in FreeHeader : FreeSector(h) \in Sector
  BY <1>1 DEF FreeSector, Sector, Word, FreeHeader
<1>5. ASSUME NEW t \in Sector
      PROVE  /\ ReadSuper(t) \in Superbloc
             /\ ReadFree(t) \in FreeHeader
  BY <1>1 DEF ReadSuper, ReadFree, Sector, Superbloc, FreeHeader
<1> QED
  BY <1>2, <1>3, <1>4, <1>5

\* The state before mknfs has the types.
LEMMA InitType == Init => TypeOK
<1>1. /\ 0 \in Bloc /\ 1 \in Bloc
  BY SizeAssumption DEF Bloc
<1> QED
  BY <1>1, SectorTypes DEF Init, TypeOK

\* Every write, every call and every cut keeps the types.
LEMMA NextType == TypeOK /\ [Next]_vars => TypeOK'
<1> SUFFICES ASSUME TypeOK, [Next]_vars PROVE TypeOK'
  OBVIOUS
<1> USE DEF TypeOK
<1>0. /\ 0 \in Bloc /\ 1 \in Bloc /\ 0 \in 0 .. Word - 1 /\ 1 \in 0 .. Word - 1
      /\ NSector - 1 \in 0 .. Word - 1 /\ NSector - 1 \in Int
      /\ Bloc \subseteq Int /\ Word \in Nat
  BY SizeAssumption DEF Bloc, Word
<1>01. ASSUME NEW b \in Bloc, NEW t \in Sector, Write(b, t)
       PROVE  disk' \in [Bloc -> Sector]
  BY <1>01 DEF Write
<1>02. /\ super # None => super \in Superbloc /\ super.first \in Bloc /\ super.nb \in Int
       /\ hdr # None => hdr \in FreeHeader
       /\ parent # None => parent \in BlocCopy /\ parent.bloc \in Bloc /\ parent.copy \in Sector
       /\ None \notin Superbloc /\ None \notin FreeHeader /\ None \notin BlocCopy
  BY NoneAssumption DEF Superbloc, BlocCopy
<1>03. ASSUME NEW n \in Int, NEW b \in Bloc
       PROVE  [nb |-> n, first |-> b] \in Superbloc
  BY DEF Superbloc
<1>04. ASSUME NEW n \in 0 .. Word - 1, NEW b \in Bloc
       PROVE  [nb |-> n, next |-> b] \in FreeHeader
  BY DEF FreeHeader
<1>1. CASE InitSuper
  BY <1>1, <1>0, <1>01, <1>02, <1>03, <1>04, SectorTypes DEF InitSuper, EmptySuper, ghosts
<1>2. CASE InitHead
  BY <1>2, <1>0, <1>02, <1>01, SectorTypes DEF InitHead, ghosts
<1>3. CASE LoadSuper
  BY <1>3, <1>0, <1>02, SectorTypes DEF LoadSuper, Abort, ghosts
<1>4. CASE SaveRoot
  BY <1>4, <1>0, <1>02, <1>01, SectorTypes DEF SaveRoot, ghosts
<1>5. CASE NewBloc
  <2>1. parent' \in {None} \cup BlocCopy
    <3>1. ASSUME NEW b \in linked
          PROVE  [bloc |-> b, copy |-> disk[b]] \in BlocCopy
      BY DEF BlocCopy
    <3> QED
      BY <1>5, <3>1 DEF NewBloc, Naming
  <2>2. /\ disk' = disk /\ held' = held /\ linked' = linked /\ freed' = freed
        /\ cursor' = cursor /\ torn' = torn
        /\ super \in Superbloc /\ pc = "idle"
    BY <1>5, <1>02 DEF NewBloc
  <2>3. CASE NewBlocFull
    BY <2>1, <2>2, <2>3, <1>0, <1>02 DEF NewBlocFull
  <2>4. CASE NewBlocLost
    BY <2>1, <2>2, <2>4, <1>0, <1>02 DEF NewBlocLost, Abort
  <2>5. /\ super.first \in Bloc /\ super.first + 1 \in Bloc
        /\ super.nb - 1 \in Int
    BY <1>5, <2>2, SizeAssumption DEF NewBloc, Bloc, Superbloc
  <2>6. /\ ReadFree(disk[super.first]) \in FreeHeader
        /\ ReadFree(disk[super.first]).next \in Bloc
    BY <2>5, SectorTypes DEF FreeHeader
  <2>7. CASE NewBlocSingle
    BY <2>1, <2>2, <2>5, <2>6, <2>7, <1>0, <1>02, <1>03 DEF NewBlocSingle
  <2>8. CASE NewBlocRun
    BY <2>1, <2>2, <2>5, <2>6, <2>8, <1>0, <1>02, <1>03 DEF NewBlocRun, RunTaken
  <2> QED
    BY <1>5, <2>3, <2>4, <2>7, <2>8 DEF NewBloc
<1>6. CASE NewSave
  <2>1. cursor < NSector => cursor + 1 \in Bloc
    BY SizeAssumption DEF Bloc
  <2> QED
    BY <1>6, <2>1, <1>0, <1>01, <1>02, SectorTypes DEF NewSave
<1>7. CASE NewHead
  BY <1>7, <1>0, <1>02, <1>01, SectorTypes DEF NewHead, ghosts
<1>8. CASE UseInode
  BY <1>8, <1>0, <1>02, <1>01, SectorTypes DEF UseInode, Done
<1>9. CASE Name
  BY <1>9, <1>0, <1>02, <1>01, SectorTypes DEF Name, WriteParent
<1>10. CASE Clean
  BY <1>10, <1>0, <1>02, <1>01, SectorTypes DEF Clean, Done, ghosts
<1>11. CASE CleanEarly
  BY <1>11, <1>0, <1>02, <1>01, SectorTypes DEF CleanEarly, ghosts
<1>12. CASE NameLate
  BY <1>12, <1>0, <1>02, <1>01, SectorTypes DEF NameLate, WriteParent, Done
<1>13. CASE WriteData
  BY <1>13, <1>0, <1>02, <1>01, SectorTypes DEF WriteData, ghosts
<1>14. CASE FreeBloc
  <2>1. CASE super = None /\ ~MagicAccepted /\ Abort /\ UNCHANGED <<super, arg, hdr>>
    BY <1>14, <2>1 DEF FreeBloc, FreedHeader, FreedSuper, Abort, ghosts
  <2>2. ASSUME NEW s \in Superbloc, NEW b \in linked,
               hdr' = [nb |-> 1, next |-> s.first],
               super' = [nb |-> s.nb + 1, first |-> b],
               arg' = b, pc' = "f_save"
        PROVE  TypeOK'
    <3>1. s.nb + 1 \in Int /\ s.first \in Bloc /\ b \in Bloc
      BY DEF Superbloc
    <3>2. super' \in Superbloc /\ hdr' \in FreeHeader
      BY <2>2, <3>1, <1>0, <1>03, <1>04
    <3> QED
      BY <1>14, <2>2, <3>1, <3>2, <1>02 DEF FreeBloc, FreedHeader, FreedSuper, ghosts
  <2>3. ReadSuper(disk[0]) \in Superbloc
    BY <1>0, SectorTypes
  <2> QED
    BY <1>14, <2>1, <2>2, <2>3, <1>02 DEF FreeBloc, FreedHeader, FreedSuper
<1>15. CASE FreeSave
  BY <1>15, <1>0, <1>02, <1>01, SectorTypes DEF FreeSave
<1>16. CASE FreeClean
  BY <1>16, <1>0, <1>02, <1>01, SectorTypes DEF FreeClean, ghosts
<1>17. CASE FreeHead
  BY <1>17, <1>0, <1>02, <1>01, SectorTypes DEF FreeHead, ghosts
<1>18. CASE Restart
  BY <1>18, <1>0, <1>02 DEF Restart
<1>19. CASE UNCHANGED vars
  BY <1>19 DEF vars
<1> QED
  BY <1>1, <1>2, <1>3, <1>4, <1>5, <1>6, <1>7, <1>8, <1>9, <1>10, <1>11, <1>12,
     <1>13, <1>14, <1>15, <1>16, <1>17, <1>18, <1>19
  DEF Next, CreateNext, Format, Mount, Create, Delete

\* Whatever the programs do and wherever they are cut, with or without
\* deletions, each variable keeps its type.
THEOREM Types == Spec => []TypeOK
BY InitType, NextType, PTL DEF Spec

-----------------------------------------------------------------------------
(* The inductive invariant of a life without deletions.                     *)

\* What a free bloc header can say: it was made by init_super and carried along.
RunHeaders == \A b \in Bloc : disk[b].kind = "free" => disk[b].nb = NSector - 1

\* Who holds what, and where the run that is left begins.
Frontier ==
    /\ cursor \in 1 .. NSector
    /\ held = 1 .. cursor - 1
    /\ freed = {}

\* The superbloc on the disk, as long as it is one, and the one in memory.
DiskAtCursor ==
    pc # "format" /\ MagicAccepted =>
        disk[0].link = cursor /\ disk[0].nb = NSector - cursor
MemoryAtCursor ==
    super # None =>
        IF pc = "save"
        THEN super.first = cursor + 1 /\ super.nb = NSector - cursor - 1
        ELSE super.first = cursor /\ super.nb = NSector - cursor

\* The call under way.
CreateCall ==
    /\ pc \notin {"f_save", "f_clean", "f_head"}
    /\ pc = "format" => super = None /\ cursor = 1
    /\ pc \in {"format_head", "save", "head"} => super # None /\ hdr # None
    /\ hdr # None => hdr.nb = NSector - 1
    /\ pc = "save" => arg = cursor /\ cursor < NSector
    /\ parent # None => parent.copy.kind \in {"inode", "data"}

CreateInv == /\ TypeOK /\ RunHeaders /\ Frontier /\ DiskAtCursor
             /\ MemoryAtCursor /\ CreateCall

\* Before mknfs nothing was handed out.
LEMMA CreateInit == Init => CreateInv
<1> SUFFICES ASSUME Init PROVE CreateInv
  OBVIOUS
<1>1. TypeOK
  BY InitType
<1>2. RunHeaders /\ DiskAtCursor /\ MemoryAtCursor /\ CreateCall
  BY DEF Init, RunHeaders, DiskAtCursor, MemoryAtCursor, CreateCall, DataSector
<1>3. Frontier
  BY SizeAssumption DEF Init, Frontier
<1> QED
  BY <1>1, <1>2, <1>3 DEF CreateInv

\* What is written on a sector that is neither the superbloc nor a header
\* leaves the list alone.
LEMMA PlainWrite ==
    ASSUME TypeOK, RunHeaders, DiskAtCursor,
           NEW b \in Bloc, NEW t \in Sector, t.kind \in {"inode", "data"},
           Write(b, t), cursor' = cursor, pc # "format"
    PROVE  RunHeaders' /\ DiskAtCursor'
<1>1. \A c \in Bloc : disk'[c] = IF c = b THEN t ELSE disk[c]
  BY DEF TypeOK, Write
<1>2. 0 \in Bloc
  BY SizeAssumption DEF Bloc
<1> QED
  BY <1>1, <1>2 DEF RunHeaders, DiskAtCursor, MagicAccepted

\* The frontier between what was handed out and the rest lies in the volume.
LEMMA FrontierRange ==
    ASSUME NEW c \in 1 .. NSector
    PROVE  0 \in Bloc /\ c \in 0 .. MaxBloc /\ NSector - c \in 0 .. MaxBloc
BY SizeAssumption DEF Bloc

\* The superbloc is written with the frontier it says.
LEMMA SuperWrite ==
    ASSUME TypeOK, RunHeaders, Frontier',
           NEW s, s.first = cursor', s.nb = NSector - cursor',
           Write(0, SuperSector(s))
    PROVE  RunHeaders' /\ DiskAtCursor'
<1>1. \A c \in Bloc : disk'[c] = IF c = 0 THEN SuperSector(s) ELSE disk[c]
  BY DEF TypeOK, Write
<1>2. 0 \in Bloc /\ cursor' \in 0 .. MaxBloc /\ NSector - cursor' \in 0 .. MaxBloc
  BY FrontierRange DEF Frontier
<1>3. Stored(s.first) = cursor' /\ Stored(s.nb) = NSector - cursor'
  BY <1>2, StoredExact
<1> QED
  BY <1>1, <1>2, <1>3 DEF RunHeaders, DiskAtCursor, MagicAccepted, SuperSector

\* No step of a program that only creates breaks the invariant.
LEMMA CreateStep ==
    ASSUME NSector >= 3 PROVE CreateInv /\ [CreateNext]_vars => CreateInv'
<1> SUFFICES ASSUME CreateInv, [CreateNext]_vars PROVE CreateInv'
  OBVIOUS
<1> USE DEF CreateInv
<1>0. /\ TypeOK'
      /\ 0 \in Bloc /\ 1 \in Bloc
      /\ NSector \in Nat /\ NSector >= 3 /\ NSector - 1 \in 0 .. MaxBloc
      /\ InodeSector \in Sector /\ InodeSector.kind = "inode"
      /\ DataSector \in Sector /\ DataSector.kind = "data"
  BY NextType, SectorTypes, SizeAssumption DEF Next, Bloc, InodeSector, DataSector
<1>01. /\ cursor \in 1 .. NSector
       /\ cursor \in 0 .. MaxBloc /\ NSector - cursor \in 0 .. MaxBloc
       /\ Signed(cursor) = cursor /\ Signed(NSector - cursor) = NSector - cursor
  <2>1. cursor \in 0 .. MaxBloc /\ NSector - cursor \in 0 .. MaxBloc
    BY SizeAssumption DEF Frontier
  <2> QED
    BY <2>1, StoredExact DEF Frontier
<1>02. /\ super # None => super.first \in Bloc /\ super.nb \in Int
       /\ parent # None => parent.bloc \in Bloc /\ parent.copy \in Sector
       /\ pc \in {"clean", "name"} => parent # None
       /\ arg \in Bloc
       /\ None \notin Superbloc /\ None \notin FreeHeader /\ None \notin BlocCopy
  BY NoneAssumption DEF TypeOK, Superbloc, BlocCopy
<1>03. super' # None => super' \in Superbloc
  BY <1>0 DEF TypeOK
<1>04. hdr' # None => hdr' \in FreeHeader
  BY <1>0 DEF TypeOK
<1>05. ASSUME MagicAccepted, pc # "format"
       PROVE  ReadSuper(disk[0]) = [nb |-> NSector - cursor, first |-> cursor]
  BY <1>01, <1>05 DEF DiskAtCursor, ReadSuper
<1>1. CASE InitSuper
  <2>1. Frontier' /\ MemoryAtCursor' /\ CreateCall'
    BY <1>1, <1>0, <1>03, <1>04 DEF InitSuper, EmptySuper, ghosts, Frontier,
       MemoryAtCursor, CreateCall, TypeOK
  <2>2. RunHeaders' /\ DiskAtCursor'
    BY <1>1, <1>0, <2>1, SuperWrite DEF InitSuper, EmptySuper, ghosts, CreateCall
  <2> QED
    BY <2>1, <2>2, <1>0
<1>2. CASE InitHead
  <2>1. Frontier' /\ MemoryAtCursor' /\ CreateCall'
    BY <1>2, <1>0 DEF InitHead, ghosts, Frontier, MemoryAtCursor, CreateCall
  <2>2. \A c \in Bloc : disk'[c] = IF c = 1 THEN FreeSector(hdr) ELSE disk[c]
    BY <1>2, <1>0 DEF InitHead, Write, TypeOK
  <2>3. FreeSector(hdr).nb = NSector - 1
    BY <1>2, <1>0, StoredExact DEF InitHead, CreateCall, FreeSector
  <2> QED
    BY <1>2, <2>1, <2>2, <2>3, <1>0
    DEF InitHead, ghosts, RunHeaders, DiskAtCursor, MagicAccepted
<1>3. CASE LoadSuper
  BY <1>3, <1>0, <1>02, <1>03, <1>05 DEF LoadSuper, Abort, ghosts, Frontier, RunHeaders,
     DiskAtCursor, MagicAccepted, MemoryAtCursor, CreateCall
<1>4. CASE SaveRoot
  <2>1. super' = [nb |-> NSector - cursor, first |-> cursor]
    BY <1>4, <1>05 DEF SaveRoot
  <2>2. Frontier' /\ MemoryAtCursor' /\ CreateCall'
    BY <1>4, <2>1, <1>0 DEF SaveRoot, ghosts, Frontier, MemoryAtCursor, CreateCall
  <2> QED
    BY <1>4, <2>1, <2>2, <1>0, SuperWrite DEF SaveRoot, ghosts
<1>5. CASE NewBloc
  <2>1. /\ disk' = disk /\ held' = held /\ freed' = freed /\ cursor' = cursor
        /\ super # None /\ pc = "idle" /\ super.first = cursor
        /\ super.nb = NSector - cursor
    BY <1>5 DEF NewBloc, MemoryAtCursor
  <2>2. parent' # None => parent'.copy.kind \in {"inode", "data"}
    BY <1>5, <1>02 DEF NewBloc, Naming
  <2>3. Frontier' /\ RunHeaders'
    BY <2>1 DEF Frontier, RunHeaders
  <2>4. CASE NewBlocFull
    BY <2>1, <2>2, <2>3, <2>4, <1>0
    DEF NewBlocFull, DiskAtCursor, MagicAccepted, MemoryAtCursor, CreateCall
  <2>5. CASE NewBlocLost
    BY <2>1, <2>2, <2>3, <2>5, <1>0
    DEF NewBlocLost, Abort, DiskAtCursor, MagicAccepted, MemoryAtCursor, CreateCall
  <2>6. CASE NewBlocSingle
    BY <2>1, <2>6, <1>0, <1>02 DEF NewBlocSingle, ReadFree, RunHeaders
  <2>7. CASE NewBlocRun
    <3>1. cursor < NSector
      BY <2>1, <2>7, <1>01, <1>0 DEF NewBlocRun, RunTaken
    <3>2. /\ super' = [nb |-> NSector - cursor - 1, first |-> cursor + 1]
          /\ hdr'.nb = NSector - 1
      BY <2>1, <2>7, <1>02 DEF NewBlocRun, RunTaken, ReadFree, RunHeaders
    <3>3. hdr' \in FreeHeader /\ hdr' # None /\ super' # None
      BY <2>1, <2>7, <1>02, <1>0, SectorTypes DEF NewBlocRun, RunTaken, TypeOK
    <3> QED
      BY <2>1, <2>2, <2>3, <2>7, <3>1, <3>2, <3>3, <1>0
      DEF NewBlocRun, RunTaken, DiskAtCursor, MagicAccepted, MemoryAtCursor, CreateCall
  <2> QED
    BY <1>5, <2>4, <2>5, <2>6, <2>7 DEF NewBloc
<1>6. CASE NewSave
  <2>1. /\ arg = cursor /\ cursor < NSector /\ cursor' = cursor + 1 /\ super' = super
        /\ super # None /\ hdr # None /\ pc' = "head" /\ freed' = {}
        /\ super.first = cursor' /\ super.nb = NSector - cursor'
    BY <1>6, <1>01, <1>0 DEF NewSave, CreateCall, MemoryAtCursor, Frontier
  <2>2. Frontier'
    BY <1>6, <2>1, <1>01, <1>0 DEF NewSave, Frontier
  <2>3. MemoryAtCursor' /\ CreateCall'
    BY <1>6, <2>1 DEF NewSave, MemoryAtCursor, CreateCall
  <2> QED
    BY <1>6, <2>1, <2>2, <2>3, <1>0, SuperWrite DEF NewSave
<1>7. CASE NewHead
  <2>1. Frontier' /\ MemoryAtCursor' /\ CreateCall'
    BY <1>7, <1>0 DEF NewHead, ghosts, Frontier, MemoryAtCursor, CreateCall
  <2>2. \A c \in Bloc : disk'[c] = IF c = cursor THEN FreeSector(hdr) ELSE disk[c]
    BY <1>7, <1>0, <1>02 DEF NewHead, Write, TypeOK, MemoryAtCursor, CreateCall
  <2>3. FreeSector(hdr).nb = NSector - 1
    BY <1>7, <1>0, StoredExact DEF NewHead, CreateCall, FreeSector
  <2> QED
    BY <1>7, <2>1, <2>2, <2>3, <1>0, <1>01
    DEF NewHead, ghosts, RunHeaders, DiskAtCursor, MagicAccepted
<1>8. CASE UseInode
  BY <1>8, <1>0, <1>02, PlainWrite DEF UseInode, Done, Frontier, MemoryAtCursor, CreateCall
<1>9. CASE Name
  BY <1>9, <1>0, <1>02, PlainWrite DEF Name, WriteParent, Frontier, MemoryAtCursor, CreateCall
<1>10. CASE Clean
  BY <1>10, <1>0, <1>02, PlainWrite DEF Clean, Done, ghosts, Frontier, MemoryAtCursor, CreateCall
<1>11. CASE CleanEarly
  BY <1>11, <1>0, <1>02, PlainWrite DEF CleanEarly, ghosts, Frontier, MemoryAtCursor, CreateCall
<1>12. CASE NameLate
  BY <1>12, <1>0, <1>02, PlainWrite DEF NameLate, WriteParent, Done, Frontier, MemoryAtCursor, CreateCall
<1>13. CASE WriteData
  <2>1. PICK b \in linked : Write(b, DataSector)
    BY <1>13 DEF WriteData
  <2>2. b \in Bloc
    BY DEF TypeOK
  <2> QED
    BY <1>13, <2>1, <2>2, <1>0, PlainWrite DEF WriteData, ghosts, Frontier, MemoryAtCursor, CreateCall
<1>14. CASE Restart
  BY <1>14, <1>0 DEF Restart, Frontier, RunHeaders, DiskAtCursor, MagicAccepted,
     MemoryAtCursor, CreateCall
<1>15. CASE UNCHANGED vars
  BY <1>15, <1>0 DEF vars, Frontier, RunHeaders, DiskAtCursor, MagicAccepted,
     MemoryAtCursor, CreateCall
<1> QED
  BY <1>1, <1>2, <1>3, <1>4, <1>5, <1>6, <1>7, <1>8, <1>9, <1>10, <1>11, <1>12,
     <1>13, <1>14, <1>15
  DEF CreateNext, Format, Mount, Create

\* A program that never deletes is never given a bloc that is held or outside
\* of the volume: whatever its size (from three sectors on), whatever the cuts
\* and although nobody looks at the 0 of a full volume.
THEOREM CreateFresh ==
    ASSUME NSector >= 3 PROVE CreateSpec => []NoDoubleAllocation
<1>1. CreateInv => NoDoubleAllocation
  BY SizeAssumption DEF CreateInv, CreateCall, Frontier, NoDoubleAllocation
<1> QED
  BY <1>1, CreateInit, CreateStep, PTL DEF CreateSpec

\* ... so that, to such a program, every return of new_bloc is one the promise allows:
\* no bloc is given that is held, and none refused while one is left.
THEOREM CreateKeepsPromise ==
    ASSUME NSector >= 3 PROVE CreateSpec => KeepsPromise
<1> DEFINE answer == IF Answered THEN arg ELSE None
<1>1. Init => Pool!Init
  BY DEF Init, Answered, Pool!Init
<1>2. CreateInv /\ [CreateNext]_vars => [Pool!GrowNext]_<<held, answer>>
  <2> SUFFICES ASSUME CreateInv, [CreateNext]_vars
               PROVE  Pool!Give \/ Pool!Refuse \/ Pool!Over \/ UNCHANGED <<held, answer>>
    BY DEF Pool!GrowNext
  <2>1. CASE NewSave
    <3>1. /\ ~Answered /\ Answered' /\ arg' = arg /\ held' = held \cup {arg}
          /\ arg = cursor /\ cursor < NSector /\ cursor \in 1 .. NSector
          /\ held = 1 .. cursor - 1
      BY <2>1 DEF NewSave, Answered, CreateInv, CreateCall, Frontier
    <3>2. arg \in Pool!Pool \ held
      BY <3>1, SizeAssumption DEF Pool!Pool
    <3> QED
      BY <3>1, <3>2 DEF Pool!Give
  <2>2. CASE NewBloc /\ NewBlocFull
    <3>1. ~Answered /\ Answered' /\ arg' = 0 /\ held' = held
      BY <2>2 DEF NewBloc, NewBlocFull, Answered
    <3>2. super.nb = 0 /\ super.nb = NSector - cursor
      BY <2>2 DEF NewBloc, NewBlocFull, CreateInv, MemoryAtCursor
    <3>3. held = Pool!Pool
      BY <3>2, SizeAssumption DEF CreateInv, Frontier, Pool!Pool
    <3> QED
      BY <3>1, <3>3 DEF Pool!Refuse
  <2>3. CASE NewBloc /\ ~NewBlocFull
    BY <2>3 DEF NewBloc, NewBlocLost, NewBlocSingle, NewBlocRun, Abort, Answered
  <2>4. CASE UseInode \/ Clean \/ NameLate
    BY <2>4 DEF UseInode, Clean, NameLate, WriteParent, Done, ghosts, Answered, Pool!Over
  <2>5. CASE NewHead \/ Name \/ CleanEarly
    BY <2>5 DEF NewHead, Name, WriteParent, CleanEarly, ghosts, Answered
  <2>6. CASE Restart
    BY <2>6 DEF Restart, Answered, Pool!Over
  <2>7. CASE InitSuper \/ InitHead \/ LoadSuper \/ SaveRoot \/ WriteData
    BY <2>7 DEF InitSuper, InitHead, LoadSuper, Abort, SaveRoot, WriteData, ghosts, Answered
  <2>8. CASE UNCHANGED vars
    BY <2>8 DEF vars, Answered
  <2> QED
    BY <2>1, <2>2, <2>3, <2>4, <2>5, <2>6, <2>7, <2>8
    DEF CreateNext, Format, Mount, Create
<1> QED
  BY <1>1, <1>2, CreateInit, CreateStep, PTL DEF CreateSpec, KeepsPromise, Pool!GrowSpec

-----------------------------------------------------------------------------
(* The inductive invariant of a life with deletions, as long as no limit has*)
(* been passed and at most one call was cut.                                *)

Sound == fault = "none" /\ torn < 2

\* Every bloc below the frontier is either held or given back.
Partition ==
    /\ cursor \in 1 .. NSector
    /\ held \cup freed = 1 .. cursor - 1
    /\ held \cap freed = {}
    /\ linked \subseteq held

\* The superbloc on the disk: the head is the frontier, or a bloc given back.
DiskHead ==
    pc # "format" =>
        /\ MagicAccepted
        /\ disk[0].nb = NSector - 1 - Cardinality(held)
        /\ IF freed = {} THEN disk[0].link = cursor ELSE disk[0].link \in freed

\* The superbloc in memory, ahead of the disk in the two calls that change it.
MemoryHead ==
    super # None =>
        CASE pc = "save"   -> super = [nb |-> disk[0].nb - 1, first |-> cursor + 1]
          [] pc = "f_save" -> super = [nb |-> disk[0].nb + 1, first |-> arg]
          [] OTHER         -> super = [nb |-> disk[0].nb, first |-> disk[0].link]

\* A linked bloc can only show the header of the run it came from after a cut
\* between its naming and its cleaning.
LinkedHeaders ==
    \A b \in linked :
        disk[b].kind = "free" => torn >= 1 \/ (pc = "clean" /\ b = arg)

\* A bloc given back shows a header of its own, or it is about to be cleaned.
FreedHeaders ==
    \A b \in freed :
        disk[b].kind = "free" /\ disk[b].nb # 1 =>
            pc = "f_clean" /\ b = arg /\ torn >= 1

\* The call under way.
Call ==
    /\ pc = "format" => super = None /\ held = {} /\ freed = {} /\ torn = 0
    /\ pc \in {"format_head", "save", "head", "f_save"} => super # None
    /\ pc = "format_head" => held = {} /\ freed = {}
    /\ pc \in {"save", "head"} => freed = {}
    /\ pc \in {"format_head", "save", "head", "f_save", "f_clean", "f_head"} => hdr # None
    /\ pc \in {"f_save", "f_clean", "f_head"} => hdr.nb = 1
    /\ pc = "save" => arg = cursor /\ cursor < NSector
    /\ pc \in {"head", "use", "clean", "name"} => arg \in held
    /\ pc = "name" => disk[arg].kind = "data"
    /\ pc = "f_save" => arg \in linked
    /\ pc \in {"f_clean", "f_head"} => arg \in freed
    /\ pc \in {"f_save", "f_clean", "f_head", "format", "format_head", "idle"} => parent = None
    /\ parent # None => parent.bloc \in linked /\ parent.copy.kind \in {"inode", "data"}

SoundInv == Sound => /\ Partition /\ DiskHead /\ MemoryHead
                     /\ LinkedHeaders /\ FreedHeaders /\ Call

\* Before mknfs the list, the count and the ghosts agree.
LEMMA SoundInit == Init => SoundInv
<1> SUFFICES ASSUME Init PROVE Partition /\ DiskHead /\ MemoryHead
                               /\ LinkedHeaders /\ FreedHeaders /\ Call
  BY DEF SoundInv
<1>1. Partition
  BY SizeAssumption DEF Init, Partition
<1> QED
  BY <1>1 DEF Init, DiskHead, MemoryHead, LinkedHeaders, FreedHeaders, Call

\* The number of blocs held, and the counts the superbloc can take.
LEMMA HeldCount ==
    ASSUME Partition
    PROVE  /\ IsFiniteSet(held)
           /\ Cardinality(held) \in 0 .. NSector - 1
           /\ freed = {} => held = 1 .. cursor - 1 /\ Cardinality(held) = cursor - 1
<1>1. cursor \in 1 .. NSector /\ NSector \in Nat
  BY SizeAssumption DEF Partition
<1>2. IsFiniteSet(1 .. cursor - 1) /\ Cardinality(1 .. cursor - 1) = cursor - 1
  BY <1>1, FS_Interval
<1>3. held \subseteq 1 .. cursor - 1
  BY DEF Partition
<1>4. IsFiniteSet(held) /\ Cardinality(held) <= cursor - 1
  BY <1>2, <1>3, FS_Subset
<1>5. Cardinality(held) \in Nat
  BY <1>4, FS_CardinalityType
<1>6. freed = {} => held = 1 .. cursor - 1
  BY DEF Partition
<1> QED
  BY <1>1, <1>2, <1>4, <1>5, <1>6

\* The count of free blocs survives its two bytes, read as signed.
LEMMA CountStored ==
    ASSUME NEW n \in 0 .. NSector - 1
    PROVE  Stored(n) = n /\ Signed(n) = n
BY StoredExact, SizeAssumption

\* The address of a bloc survives its two bytes.
LEMMA AddressStored ==
    ASSUME NEW b \in Bloc
    PROVE  Stored(b) = b /\ Signed(b) = b
BY StoredExact DEF Bloc

\* No step breaks the invariant of the lives with deletions.
LEMMA SoundStep == TypeOK /\ SoundInv /\ [Next]_vars => SoundInv'
<1> SUFFICES ASSUME TypeOK, SoundInv, [Next]_vars, Sound'
             PROVE  (Partition /\ DiskHead /\ MemoryHead /\ LinkedHeaders /\ FreedHeaders /\ Call)'
  BY DEF SoundInv
<1>0. Sound
  BY DEF Sound, TypeOK, Next, CreateNext, Format, Mount, Create, Delete, vars, ghosts, InitSuper, InitHead,
     LoadSuper, SaveRoot, NewBloc, NewBlocFull, NewBlocLost, NewBlocSingle, NewBlocRun, RunTaken, NewSave,
     NewHead, UseInode, Name, WriteParent, Clean, CleanEarly, NameLate, WriteData, FreeBloc, FreedHeader, FreedSuper,
     FreeSave, FreeClean, FreeHead, Restart
<1>01. Partition /\ DiskHead /\ MemoryHead /\ LinkedHeaders /\ FreedHeaders /\ Call
  BY <1>0 DEF SoundInv
<1>02. /\ TypeOK' /\ 0 \in Bloc /\ 1 \in Bloc /\ NSector \in Nat /\ NSector >= 2 
       /\ NSector \in Bloc /\ NSector - 1 \in 0 .. NSector - 1
       /\ InodeSector \in Sector /\ InodeSector.kind = "inode"
       /\ DataSector \in Sector /\ DataSector.kind = "data"
       /\ None \notin Superbloc /\ None \notin FreeHeader /\ None \notin BlocCopy
  BY NextType, SectorTypes, SizeAssumption, NoneAssumption DEF Bloc, InodeSector, DataSector
<1>03. /\ cursor \in 1 .. NSector
       /\ 0 \notin held /\ 0 \notin freed /\ 0 \notin linked
       /\ linked \subseteq held /\ held \cap freed = {} 
       /\ cursor \notin held /\ cursor \notin freed
       /\ held \subseteq Bloc /\ freed \subseteq Bloc
  BY <1>01 DEF Partition, TypeOK
<1>04. /\ Cardinality(held) \in 0 .. NSector - 1
       /\ IsFiniteSet(held)
       /\ freed = {} => held = 1 .. cursor - 1 /\ Cardinality(held) = cursor - 1
  BY <1>01, HeldCount
<1>05. /\ super # None => super \in Superbloc /\ super.first \in Bloc /\ super.nb \in Int
       /\ parent # None => parent.bloc \in Bloc /\ parent.copy \in Sector
       /\ pc \in {"clean", "name"} => parent # None
       /\ hdr # None => hdr \in FreeHeader
  BY DEF TypeOK, Superbloc, BlocCopy
<1>06. /\ super' # None => super' \in Superbloc /\ super'.first \in Bloc /\ super'.nb \in Int
       /\ hdr' # None => hdr' \in FreeHeader
       /\ pc' \in {"format_head", "save", "head", "f_save"} => super' # None
       /\ pc' \in {"format_head", "head", "f_save", "f_clean", "f_head"} => hdr' # None
  BY <1>02 DEF TypeOK, Superbloc
<1>07. pc # "format" => /\ disk[0].kind = "super"
                        /\ ReadSuper(disk[0]) = [nb |-> disk[0].nb, first |-> disk[0].link]
                        /\ disk[0].nb \in 0 .. NSector - 1 /\ disk[0].link \in Bloc
  <2>1. pc # "format" => disk[0].nb \in 0 .. NSector - 1
    BY <1>01, <1>02, <1>04 DEF DiskHead
  <2>2. pc # "format" => disk[0].link \in Bloc
    BY <1>01, <1>03 DEF DiskHead, TypeOK
  <2> QED
    BY <2>2, <2>1, <1>01, CountStored, AddressStored DEF DiskHead, MagicAccepted, ReadSuper
\* A sector written outside of the superbloc, and not with a free bloc header.
<1>08. ASSUME NEW b \in Bloc, b # 0, NEW t \in Sector, Write(b, t), pc # "format", pc' # "format",
              held' = held, freed' = freed, cursor' = cursor
       PROVE  DiskHead' /\ disk'[0] = disk[0]
  <2>1. disk'[0] = disk[0]
    BY <1>08, <1>02 DEF Write, TypeOK
  <2> QED
    BY <1>08, <2>1, <1>01 DEF DiskHead, MagicAccepted
\* The superbloc written as it is in memory.
<1>09. ASSUME NEW s \in Superbloc, s.nb \in 0 .. NSector - 1, Write(0, SuperSector(s))
       PROVE  /\ disk'[0] = [kind |-> "super", nb |-> s.nb, link |-> s.first]
              /\ \A b \in Bloc : b # 0 => disk'[b] = disk[b]
  <2>1. s.first \in Bloc
    BY DEF Superbloc
  <2>2. SuperSector(s) = [kind |-> "super", nb |-> s.nb, link |-> s.first]
    BY <1>09, <2>1, CountStored, AddressStored DEF SuperSector
  <2> QED
    BY <1>09, <2>2, <1>02 DEF Write, TypeOK
<1>1. CASE InitSuper
  <2>1. held = {} /\ freed = {} /\ linked = {} /\ cursor = 1
    BY <1>1, <1>01, <1>03, <1>04, FS_EmptySet DEF InitSuper, Call
  <2>2. Cardinality(held) = 0
    BY <2>1, <1>04
  <2>3. EmptySuper \in Superbloc /\ EmptySuper.nb = NSector - 1 /\ EmptySuper.first = 1
    BY <1>02 DEF EmptySuper, Superbloc
  <2>4. disk'[0] = [kind |-> "super", nb |-> NSector - 1, link |-> 1]
    BY <1>1, <1>02, <1>09, <2>3 DEF InitSuper
  <2>5. Partition' /\ LinkedHeaders' /\ FreedHeaders'
    BY <1>1, <1>01, <2>1 DEF InitSuper, ghosts, Partition, LinkedHeaders, FreedHeaders
  <2>6. DiskHead'
    BY <1>1, <1>02, <2>1, <2>2, <2>4 DEF InitSuper, ghosts, DiskHead, MagicAccepted
  <2>7. MemoryHead' /\ Call'
    BY <1>1, <1>01, <1>06, <2>1, <2>3, <2>4 DEF InitSuper, ghosts, EmptySuper, MemoryHead, Call
  <2> QED
    BY <2>5, <2>6, <2>7
<1>2. CASE InitHead
  <2>1. held = {} /\ freed = {} /\ linked = {}
    BY <1>2, <1>01, <1>03 DEF InitHead, Call
  <2>2. FreeSector(hdr) \in Sector
    BY <1>2, <1>05, SectorTypes DEF InitHead, TypeOK
  <2>3. DiskHead' /\ disk'[0] = disk[0]
    BY <1>2, <1>02, <1>08, <2>2 DEF InitHead, ghosts
  <2> QED
    BY <1>2, <1>01, <2>1, <2>3
    DEF InitHead, ghosts, Partition, MemoryHead, LinkedHeaders, FreedHeaders, Call
<1>3. CASE LoadSuper
  <2>1. super' # None => super' = [nb |-> disk[0].nb, first |-> disk[0].link]
    BY <1>3, <1>01, <1>02, <1>07 DEF LoadSuper, MemoryHead
  <2> QED
    BY <1>3, <1>01, <2>1
    DEF LoadSuper, Abort, ghosts, Partition, DiskHead, MagicAccepted, MemoryHead, LinkedHeaders, FreedHeaders, Call
<1>4. CASE SaveRoot
  <2>1. super' = [nb |-> disk[0].nb, first |-> disk[0].link] /\ super' \in Superbloc
    BY <1>4, <1>07 DEF SaveRoot, Superbloc
  <2>2. disk'[0] = [kind |-> "super", nb |-> disk[0].nb, link |-> disk[0].link]
        /\ \A b \in Bloc : b # 0 => disk'[b] = disk[b]
    BY <1>4, <1>07, <1>09, <2>1 DEF SaveRoot
  <2>3. DiskHead' /\ MemoryHead'
    BY <1>4, <1>01, <2>1, <2>2 DEF SaveRoot, ghosts, DiskHead, MagicAccepted, MemoryHead
  <2>4. LinkedHeaders' /\ FreedHeaders'
    BY <1>4, <1>01, <1>03, <2>2 DEF SaveRoot, ghosts, LinkedHeaders, FreedHeaders
  <2> QED
    BY <1>4, <1>01, <2>3, <2>4 DEF SaveRoot, ghosts, Partition, Call
<1>5. CASE NewBloc
  <2>1. /\ UNCHANGED <<disk, held, linked, freed, cursor, torn>>
        /\ super # None /\ pc = "idle"
        /\ super = [nb |-> disk[0].nb, first |-> disk[0].link]
    BY <1>5, <1>01 DEF NewBloc, MemoryHead
  <2>2. parent' # None => parent'.bloc \in linked /\ parent'.copy.kind \in {"inode", "data"}
    BY <1>5, <1>02 DEF NewBloc, Naming
  <2>3. Partition'
    BY <1>01, <2>1 DEF Partition
  <2>4. ~NewBlocFull /\ ~NewBlocSingle
    BY DEF NewBlocFull, NewBlocSingle, Sound
  <2>5. CASE NewBlocLost
    BY <1>01, <2>1, <2>2, <2>3, <2>5
    DEF NewBlocLost, Abort, DiskHead, MagicAccepted, MemoryHead, LinkedHeaders, FreedHeaders, Call
  <2>6. CASE NewBlocRun
    <3>1. super.first \notin freed
      BY <1>01, <2>1, <2>6 DEF NewBlocRun, RunTaken, ReadFree, FreedHeaders
    <3>2. freed = {} /\ super.first = cursor
      BY <1>01, <2>1, <3>1 DEF DiskHead
    <3>3. cursor < NSector
      BY <1>01, <1>02, <1>03, <1>04, <2>1, <2>6, <3>2 DEF NewBlocRun, RunTaken, DiskHead
    <3>4. /\ super' = [nb |-> disk[0].nb - 1, first |-> cursor + 1]
          /\ arg' = cursor /\ pc' = "save" /\ super' # None
      BY <2>1, <2>6, <3>2, <1>06 DEF NewBlocRun, RunTaken
    <3>5. DiskHead' /\ MemoryHead'
      BY <1>01, <2>1, <3>4 DEF DiskHead, MagicAccepted, MemoryHead
    <3>6. LinkedHeaders' /\ FreedHeaders'
      BY <1>01, <2>1, <3>4 DEF LinkedHeaders, FreedHeaders
    <3>7. hdr' # None
      BY <1>02, <2>1, <2>6, SectorTypes, <1>05 DEF NewBlocRun, RunTaken, TypeOK
    <3> QED
      BY <1>01, <2>1, <2>2, <2>3, <3>2, <3>3, <3>4, <3>5, <3>6, <3>7 DEF Call
  <2> QED
    BY <1>5, <2>4, <2>5, <2>6 DEF NewBloc
<1>6. CASE NewSave
  <2>1. /\ super # None /\ hdr # None /\ freed = {} /\ arg = cursor /\ cursor < NSector
        /\ super = [nb |-> disk[0].nb - 1, first |-> cursor + 1]
        /\ disk[0].nb = NSector - cursor
        /\ held' = held \cup {cursor} /\ freed' = {} /\ cursor' = cursor + 1
        /\ linked' = linked /\ pc' = "head"
    BY <1>6, <1>01, <1>02, <1>03, <1>04 DEF NewSave, Call, MemoryHead, DiskHead
  <2>2. disk'[0] = [kind |-> "super", nb |-> NSector - cursor - 1, link |-> cursor + 1]
        /\ \A b \in Bloc : b # 0 => disk'[b] = disk[b]
    BY <1>6, <1>02, <1>03, <1>05, <1>09, <2>1 DEF NewSave
  <2>3. Cardinality(held') = cursor
    <3>1. Cardinality(held \cup {cursor}) = Cardinality(held) + 1
      BY <1>03, <1>04, FS_AddElement
    <3> QED
      BY <2>1, <3>1, <1>03, <1>04
  <2>4. Partition'
    BY <1>01, <1>02, <1>03, <1>04, <2>1 DEF Partition
  <2>5. DiskHead' /\ MemoryHead'
    BY <1>6, <1>02, <1>03, <2>1, <2>2, <2>3 DEF NewSave, DiskHead, MagicAccepted, MemoryHead
  <2>6. LinkedHeaders' /\ FreedHeaders'
    BY <1>6, <1>01, <1>03, <2>1, <2>2 DEF NewSave, LinkedHeaders, FreedHeaders
  <2>7. Call'
    BY <1>6, <1>01, <2>1 DEF NewSave, Call
  <2> QED
    BY <2>4, <2>5, <2>6, <2>7
<1>7. CASE NewHead
  <2>1. super.first = cursor /\ freed = {} /\ cursor # 0 /\ cursor \in Bloc
    BY <1>7, <1>01, <1>02, <1>03, <1>05 DEF NewHead, MemoryHead, DiskHead, Call, TypeOK
  <2>2. FreeSector(hdr) \in Sector
    BY <1>7, <1>05, <1>01, SectorTypes DEF NewHead, Call
  <2>3. DiskHead' /\ disk'[0] = disk[0]
    BY <1>7, <1>08, <2>1, <2>2 DEF NewHead, ghosts
  <2>4. \A b \in Bloc : b # cursor => disk'[b] = disk[b]
    BY <1>7, <2>1 DEF NewHead, Write, TypeOK
  <2>5. Partition' /\ MemoryHead' /\ Call'
    BY <1>7, <1>01, <2>1, <2>3 DEF NewHead, ghosts, Partition, MemoryHead, Call
  <2>6. LinkedHeaders' /\ FreedHeaders'
    BY <1>7, <1>01, <1>03, <2>1, <2>4 DEF NewHead, ghosts, LinkedHeaders, FreedHeaders
  <2> QED
    BY <2>3, <2>5, <2>6
<1>8. CASE UseInode
  <2>1. arg \in held /\ arg \in Bloc /\ arg # 0
    BY <1>8, <1>01, <1>03 DEF UseInode, Call
  <2>2. DiskHead' /\ disk'[0] = disk[0]
    BY <1>8, <1>02, <1>08, <2>1 DEF UseInode, Done
  <2>3. \A b \in Bloc : disk'[b] = IF b = arg THEN InodeSector ELSE disk[b]
    BY <1>8, <2>1 DEF UseInode, Write, TypeOK
  <2>4. LinkedHeaders' /\ FreedHeaders'
    BY <1>8, <1>01, <1>02, <1>03, <2>1, <2>3 DEF UseInode, Done, LinkedHeaders, FreedHeaders
  <2> QED
    BY <1>8, <1>01, <2>1, <2>2, <2>4 DEF UseInode, Done, Partition, MemoryHead, Call
<1>20. ASSUME parent # None, pc \in {"use", "name"}, WriteParent, pc' # "format",
              pc' \notin {"save", "f_save"}, parent' = parent \/ parent' = None
       PROVE  /\ Partition' /\ DiskHead' /\ MemoryHead' /\ FreedHeaders'
              /\ arg \in held /\ linked' = linked \cup {arg}
              /\ \A b \in linked : b # arg => (disk'[b].kind = "free" => torn >= 1)
              /\ disk'[arg].kind = "free" => disk[arg].kind = "free"
              /\ parent' # None => parent'.bloc \in linked' /\ parent'.copy.kind \in {"inode", "data"}
  <2>1. /\ parent.bloc \in linked /\ parent.bloc # 0 /\ parent.copy.kind \in {"inode", "data"}
        /\ parent.bloc \in Bloc /\ parent.copy \in Sector /\ arg \in held /\ arg \in Bloc
    BY <1>20, <1>01, <1>03, <1>05 DEF Call
  <2>2. DiskHead' /\ disk'[0] = disk[0]
    BY <1>20, <1>08, <2>1 DEF WriteParent
  <2>3. \A b \in Bloc : disk'[b] = IF b = parent.bloc THEN parent.copy ELSE disk[b]
    BY <1>20, <2>1 DEF WriteParent, Write, TypeOK
  <2>4. Partition' /\ MemoryHead'
    BY <1>20, <1>01, <2>1, <2>2 DEF WriteParent, Partition, MemoryHead
  <2>5. FreedHeaders'
    BY <1>20, <1>01, <1>03, <2>1, <2>3 DEF WriteParent, FreedHeaders
  <2>6. \A b \in linked : b # arg => (disk'[b].kind = "free" => torn >= 1)
    BY <1>20, <1>01, <1>03, <2>1, <2>3 DEF LinkedHeaders
  <2> QED
    BY <1>20, <2>1, <2>2, <2>3, <2>4, <2>5, <2>6 DEF WriteParent
<1>9. CASE Name
  <2>1. /\ parent # None /\ pc = "use" /\ WriteParent /\ pc' = "clean" /\ parent' = parent
        /\ arg' = arg /\ torn' = torn /\ hdr' = hdr
    BY <1>9 DEF Name, WriteParent
  <2>2. LinkedHeaders'
    BY <1>20, <2>1 DEF LinkedHeaders
  <2>3. Call'
    BY <1>20, <1>01, <2>1 DEF Call, WriteParent
  <2> QED
    BY <1>20, <2>1, <2>2, <2>3
<1>10. CASE Clean
  <2>1. arg \in held /\ arg \in Bloc /\ arg # 0
    BY <1>10, <1>01, <1>03 DEF Clean, Call
  <2>2. DiskHead' /\ disk'[0] = disk[0]
    BY <1>10, <1>02, <1>08, <2>1 DEF Clean, Done, ghosts
  <2>3. \A b \in Bloc : disk'[b] = IF b = arg THEN DataSector ELSE disk[b]
    BY <1>10, <2>1 DEF Clean, Write, TypeOK
  <2>4. LinkedHeaders' /\ FreedHeaders'
    BY <1>10, <1>01, <1>02, <1>03, <2>1, <2>3 DEF Clean, Done, ghosts, LinkedHeaders, FreedHeaders
  <2> QED
    BY <1>10, <1>01, <2>1, <2>2, <2>4 DEF Clean, Done, ghosts, Partition, MemoryHead, Call
<1>11. CASE CleanEarly
  <2>1. arg \in held /\ arg \in Bloc /\ arg # 0
    BY <1>11, <1>01, <1>03 DEF CleanEarly, Call
  <2>2. DiskHead' /\ disk'[0] = disk[0]
    BY <1>11, <1>02, <1>08, <2>1 DEF CleanEarly, ghosts
  <2>3. \A b \in Bloc : disk'[b] = IF b = arg THEN DataSector ELSE disk[b]
    BY <1>11, <2>1 DEF CleanEarly, Write, TypeOK
  <2>4. LinkedHeaders' /\ FreedHeaders'
    BY <1>11, <1>01, <1>02, <1>03, <2>1, <2>3 DEF CleanEarly, ghosts, LinkedHeaders, FreedHeaders
  <2> QED
    BY <1>11, <1>01, <1>02, <2>1, <2>2, <2>3, <2>4 DEF CleanEarly, ghosts, Partition, MemoryHead, Call
<1>12. CASE NameLate
  <2>1. /\ parent # None /\ pc = "name" /\ WriteParent /\ pc' = "idle" /\ parent' = None
        /\ torn' = torn /\ disk[arg].kind = "data"
    BY <1>12, <1>01, <1>05 DEF NameLate, Done, WriteParent, Call
  <2>2. LinkedHeaders'
    BY <1>20, <2>1 DEF LinkedHeaders
  <2>3. Call'
    BY <1>20, <1>01, <2>1 DEF Call, WriteParent
  <2> QED
    BY <1>20, <2>1, <2>2, <2>3
<1>13. CASE WriteData
  <2>1. PICK b \in linked : Write(b, DataSector)
    BY <1>13 DEF WriteData
  <2>2. b \in held /\ b \in Bloc /\ b # 0
    BY <1>03
  <2>3. DiskHead' /\ disk'[0] = disk[0]
    BY <1>13, <1>02, <1>08, <2>1, <2>2 DEF WriteData, ghosts
  <2>4. \A c \in Bloc : disk'[c] = IF c = b THEN DataSector ELSE disk[c]
    BY <2>1, <2>2 DEF Write, TypeOK
  <2>5. LinkedHeaders' /\ FreedHeaders'
    BY <1>13, <1>01, <1>02, <1>03, <2>2, <2>4 DEF WriteData, ghosts, LinkedHeaders, FreedHeaders
  <2> QED
    BY <1>13, <1>01, <2>3, <2>5 DEF WriteData, ghosts, Partition, MemoryHead, Call
<1>14. CASE FreeBloc
  <2>1. /\ UNCHANGED <<disk, parent, ghosts>> /\ pc = "idle" /\ MagicAccepted
    BY <1>14, <1>01 DEF FreeBloc, FreedHeader, FreedSuper, DiskHead
  <2>2. PICK b \in linked : /\ hdr' = [nb |-> 1, next |-> disk[0].link]
                            /\ super' = [nb |-> disk[0].nb + 1, first |-> b]
                            /\ arg' = b /\ pc' = "f_save"
    BY <1>14, <1>01, <1>07, <2>1 DEF FreeBloc, FreedHeader, FreedSuper, MemoryHead
  <2>3. Partition' /\ DiskHead' /\ MemoryHead'
    BY <1>01, <2>1, <2>2 DEF ghosts, Partition, DiskHead, MagicAccepted, MemoryHead
  <2>4. LinkedHeaders' /\ FreedHeaders'
    BY <1>01, <2>1, <2>2 DEF ghosts, LinkedHeaders, FreedHeaders
  <2> QED
    BY <1>01, <1>06, <2>1, <2>2, <2>3, <2>4 DEF ghosts, Call
<1>15. CASE FreeSave
  <2>1. /\ super \in Superbloc /\ arg \in linked /\ arg \in held /\ arg # 0 /\ arg \in Bloc
        /\ super = [nb |-> disk[0].nb + 1, first |-> arg]
        /\ disk[0].nb = NSector - 1 - Cardinality(held)
    BY <1>15, <1>01, <1>03, <1>05 DEF FreeSave, Call, MemoryHead, DiskHead
  <2>2. Cardinality(held \ {arg}) = Cardinality(held) - 1 /\ Cardinality(held) \in 1 .. NSector - 1
    <3>1. IsFiniteSet(held \ {arg}) /\ Cardinality(held \ {arg}) = Cardinality(held) - 1
      BY <2>1, <1>04, FS_RemoveElement
    <3>2. Cardinality(held \ {arg}) \in Nat
      BY <3>1, FS_CardinalityType
    <3> QED
      BY <3>1, <3>2, <1>02, <1>04
  <2>3. /\ disk'[0] = [kind |-> "super", nb |-> disk[0].nb + 1, link |-> arg]
        /\ \A b \in Bloc : b # 0 => disk'[b] = disk[b]
    <3>1. super.nb \in 0 .. NSector - 1
      BY <2>1, <2>2, <1>02
    <3> QED
      BY <1>15, <1>09, <2>1, <3>1 DEF FreeSave
  <2>4. Partition'
    BY <1>15, <1>01, <1>03, <2>1 DEF FreeSave, Partition
  <2>5. DiskHead' /\ MemoryHead'
    BY <1>15, <1>02, <2>1, <2>2, <2>3 DEF FreeSave, DiskHead, MagicAccepted, MemoryHead
  <2>6. LinkedHeaders' /\ FreedHeaders'
    BY <1>15, <1>01, <1>03, <2>1, <2>3 DEF FreeSave, LinkedHeaders, FreedHeaders
  <2>7. Call'
    BY <1>15, <1>01, <1>06, <2>1 DEF FreeSave, Call
  <2> QED
    BY <2>4, <2>5, <2>6, <2>7
<1>16. CASE FreeClean
  <2>1. arg \in freed /\ arg \in Bloc /\ arg # 0
    BY <1>16, <1>01, <1>03 DEF FreeClean, Call
  <2>2. DiskHead' /\ disk'[0] = disk[0]
    BY <1>16, <1>02, <1>08, <2>1 DEF FreeClean, ghosts
  <2>3. \A b \in Bloc : disk'[b] = IF b = arg THEN DataSector ELSE disk[b]
    BY <1>16, <2>1 DEF FreeClean, Write, TypeOK
  <2>4. LinkedHeaders' /\ FreedHeaders'
    BY <1>16, <1>01, <1>02, <1>03, <2>1, <2>3 DEF FreeClean, ghosts, LinkedHeaders, FreedHeaders
  <2> QED
    BY <1>16, <1>01, <2>1, <2>2, <2>4 DEF FreeClean, ghosts, Partition, MemoryHead, Call
<1>17. CASE FreeHead
  <2>1. arg \in freed /\ arg \in Bloc /\ arg # 0 /\ hdr \in FreeHeader /\ hdr.nb = 1
    BY <1>17, <1>01, <1>03, <1>05 DEF FreeHead, Call
  <2>2. FreeSector(hdr) \in Sector /\ FreeSector(hdr).nb = 1
    BY <2>1, <1>02, SectorTypes, StoredExact, SizeAssumption DEF FreeSector
  <2>3. \A b \in Bloc : disk'[b] = IF b = arg THEN FreeSector(hdr) ELSE disk[b]
    BY <1>17, <2>1 DEF FreeHead, Write, TypeOK
  <2>4. DiskHead' /\ disk'[0] = disk[0]
    BY <1>17, <1>08, <2>1, <2>2 DEF FreeHead, ghosts
  <2>5. LinkedHeaders' /\ FreedHeaders'
    BY <1>17, <1>01, <1>03, <2>1, <2>2, <2>3 DEF FreeHead, ghosts, LinkedHeaders, FreedHeaders
  <2> QED
    BY <1>17, <1>01, <2>1, <2>4, <2>5 DEF FreeHead, ghosts, Partition, MemoryHead, Call
<1>18. CASE Restart
  <2>1. Partition' /\ DiskHead' /\ MemoryHead'
    BY <1>18, <1>01, <1>02 DEF Restart, Partition, DiskHead, MagicAccepted, MemoryHead
  <2>2. LinkedHeaders'
    BY <1>18, <1>01 DEF Restart, LinkedHeaders, MidCall, Sound, TypeOK
  <2>3. FreedHeaders'
    BY <1>18, <1>01 DEF Restart, FreedHeaders, MidCall, Sound, TypeOK
  <2> QED
    BY <1>18, <1>01, <2>1, <2>2, <2>3 DEF Restart, Call
<1>19. CASE UNCHANGED vars
  BY <1>19, <1>01 DEF vars, Partition, DiskHead, MagicAccepted, MemoryHead, LinkedHeaders,
     FreedHeaders, Call
<1> QED
  BY <1>1, <1>2, <1>3, <1>4, <1>5, <1>6, <1>7, <1>8, <1>9, <1>10, <1>11, <1>12,
     <1>13, <1>14, <1>15, <1>16, <1>17, <1>18, <1>19
  DEF Next, CreateNext, Format, Mount, Create, Delete

\* The invariant of the lives with deletions, with the types it rests on.
LEMMA SoundAlways == Spec => [](TypeOK /\ SoundInv)
<1>1. Init => TypeOK /\ SoundInv
  BY InitType, SoundInit
<1>2. TypeOK /\ SoundInv /\ [Next]_vars => (TypeOK /\ SoundInv)'
  BY NextType, SoundStep
<1> QED
  BY <1>1, <1>2, PTL DEF Spec

\* With deletions: as long as the head of the list was never alone in its run and
\* new_bloc never found the volume full, no bloc is handed out twice, even after
\* a process cut in the middle of a call.
THEOREM DeleteFresh == Spec => []FreshBloc
<1>1. TypeOK /\ SoundInv => FreshBloc
  BY SizeAssumption DEF SoundInv, Sound, Call, Partition, FreshBloc, NoDoubleAllocation
<1> QED
  BY <1>1, SoundAlways, PTL

\* In the same lives the count of free blocs on the disk is exact at every write.
THEOREM DeleteCounts == Spec => []CountMatches
<1>1. ASSUME TypeOK, SoundInv, fault = "none", torn < 2, pc # "format"
      PROVE  ReadSuper(disk[0]).nb = NSector - 1 - Cardinality(held)
  <2>1. Partition /\ DiskHead
    BY <1>1 DEF SoundInv, Sound
  <2>2. disk[0].nb = NSector - 1 - Cardinality(held) /\ disk[0].nb \in 0 .. NSector - 1
    BY <1>1, <2>1, HeldCount, SizeAssumption DEF DiskHead
  <2> QED
    BY <2>2, CountStored DEF ReadSuper
<1> QED
  BY <1>1, SoundAlways, PTL DEF CountMatches

\* The superbloc in memory never drifts from the one on the disk outside of the
\* two calls that are about to save it.
THEOREM MemoryAgrees == Spec => []MemoryMatchesDisk
<1>1. ASSUME TypeOK, SoundInv, Sound, pc \notin {"save", "f_save"}, super # None
      PROVE  disk[0] = SuperSector(super)
  <2>1. Partition /\ DiskHead /\ MemoryHead /\ Call
    BY <1>1 DEF SoundInv
  <2>2. /\ pc # "format" /\ disk[0].kind = "super" /\ disk[0] \in Sector
        /\ super = [nb |-> disk[0].nb, first |-> disk[0].link]
    BY <1>1, <2>1, SizeAssumption DEF Call, DiskHead, MemoryHead, MagicAccepted, TypeOK, Bloc
  <2>3. disk[0].nb \in 0 .. NSector - 1 /\ disk[0].link \in Bloc
    BY <2>1, <2>2, HeldCount, SizeAssumption DEF DiskHead, Sector
  <2> QED
    BY <2>2, <2>3, CountStored, AddressStored DEF SuperSector, Sector
<1> QED
  BY <1>1, SoundAlways, PTL DEF MemoryMatchesDisk, Sound

\* Without a cut, a bloc in use shows no free bloc header once its call is over.
THEOREM HeadersGone == Spec => []NoStaleHeader
<1>1. TypeOK /\ SoundInv => NoStaleHeader
  BY DEF SoundInv, Sound, LinkedHeaders, NoStaleHeader
<1> QED
  BY <1>1, SoundAlways, PTL

-----------------------------------------------------------------------------
(* What is never done to a sound volume, on top of SoundInv: it is not       *)
(* stopped on a magic, nothing is written on the volume behind it, and no    *)
(* part of the list of free blocs is lost.                                  *)

\* Without a cut, every head that the list can show has its header, unless the
\* call that moves the head is about to write it.
HeadsKept ==
    torn = 0 =>
        /\ pc # "abort"
        /\ pc \notin {"format", "format_head", "head"} /\ cursor < NSector =>
              disk[cursor].kind = "free"
        /\ \A b \in freed :
              disk[b].kind = "free" \/ (pc \in {"f_clean", "f_head"} /\ b = arg)

Inside == cursor < NSector => \A b \in NSector .. MaxBloc : disk[b] = DataSector

QuietInv == Sound => HeadsKept /\ Inside

-----------------------------------------------------------------------------
LEMMA QuietInit == Init => QuietInv
BY SizeAssumption DEF Init, QuietInv, HeadsKept, Inside, Bloc

\* A limit passed, or a call cut, stays so.
LEMMA SoundBefore ==
    ASSUME TypeOK, [Next]_vars, Sound'
    PROVE  Sound /\ (torn' = 0 => torn = 0)
BY DEF Sound, TypeOK, Next, CreateNext, Format, Mount, Create, Delete, vars, ghosts, InitSuper, InitHead,
   LoadSuper, SaveRoot, NewBloc, NewBlocFull, NewBlocLost, NewBlocSingle, NewBlocRun, NewSave,
   NewHead, UseInode, Name, WriteParent, Clean, CleanEarly, NameLate, WriteData, FreeBloc,
   FreeSave, FreeClean, FreeHead, Restart

\* What a step finds.
LEMMA Found ==
    ASSUME TypeOK, SoundInv, Sound
    PROVE  /\ Partition /\ DiskHead /\ MemoryHead /\ Call
           /\ NSector \in Nat /\ NSector >= 2 /\ MaxBloc \in Nat /\ MaxBloc >= NSector
           /\ cursor \in 1 .. NSector
           /\ held \subseteq 1 .. cursor - 1 /\ freed \subseteq 1 .. cursor - 1
           /\ linked \subseteq held /\ held \cap freed = {}
           /\ Cardinality(held) \in Nat /\ (freed = {} => cursor = Cardinality(held) + 1)
<1>1. Partition /\ DiskHead /\ MemoryHead /\ Call
  BY DEF SoundInv
<1> QED
  BY <1>1, HeldCount, SizeAssumption DEF Partition

\* The superbloc, or a bloc in use, written: no head and no neighbour is.
LEMMA UsedWrite ==
    ASSUME TypeOK, SoundInv, Sound, HeadsKept, Inside,
           NEW b \in {0} \cup held, NEW t \in Sector, Write(b, t),
           UNCHANGED <<freed, cursor, torn>>,
           pc' # "abort", pc \notin {"format", "format_head", "head"},
           pc \notin {"f_clean", "f_head"}
    PROVE  HeadsKept' /\ Inside'
<1>1. \A c \in Bloc : c # b => disk'[c] = disk[c]
  BY DEF Write, TypeOK
<1>2. b < cursor /\ b \notin freed
  BY Found
<1>3. /\ cursor \in Bloc /\ NSector .. MaxBloc \subseteq Bloc /\ freed \subseteq Bloc
      /\ b \notin NSector .. MaxBloc
  BY <1>2, Found DEF TypeOK, Bloc
<1>4. Inside'
  BY <1>1, <1>3 DEF Inside
<1>5. HeadsKept'
  BY <1>1, <1>2, <1>3 DEF HeadsKept
<1> QED
  BY <1>4, <1>5

LEMMA QuietStep ==
    ASSUME TypeOK, SoundInv, QuietInv, [Next]_vars, TypeOK', SoundInv', Sound'
    PROVE  HeadsKept' /\ Inside'
<1>1. Sound /\ HeadsKept /\ Inside /\ (torn' = 0 => torn = 0)
  BY SoundBefore DEF QuietInv
<1>2. /\ Partition /\ DiskHead /\ MemoryHead /\ Call
      /\ NSector \in Nat /\ NSector >= 2 /\ MaxBloc \in Nat /\ MaxBloc >= NSector
      /\ cursor \in 1 .. NSector
      /\ held \subseteq 1 .. cursor - 1 /\ freed \subseteq 1 .. cursor - 1
      /\ linked \subseteq held /\ held \cap freed = {}
      /\ Cardinality(held) \in Nat /\ (freed = {} => cursor = Cardinality(held) + 1)
  BY <1>1, Found
<1>3. /\ NSector .. MaxBloc \subseteq Bloc /\ freed \subseteq Bloc /\ cursor \in Bloc
      /\ 0 \in Bloc /\ 0 \notin NSector .. MaxBloc /\ 0 \notin freed /\ 0 # cursor
  BY <1>2 DEF TypeOK, Bloc
<1>4. /\ InodeSector \in Sector /\ DataSector \in Sector
      /\ \A s \in Superbloc : SuperSector(s) \in Sector
      /\ \A h \in FreeHeader : FreeSector(h) \in Sector /\ FreeSector(h).kind = "free"
  BY SectorTypes DEF FreeSector
\* Nothing is written and no head moves.
<1>5. ASSUME UNCHANGED <<disk, freed, cursor>>, pc' # "abort",
             torn' = 0 => pc \notin {"format", "format_head", "head", "f_clean", "f_head"}
      PROVE  HeadsKept' /\ Inside'
  BY <1>1, <1>5 DEF HeadsKept, Inside
<1>6. CASE InitSuper
  <2>1. \A c \in Bloc : c # 0 => disk'[c] = disk[c]
    BY <1>6 DEF InitSuper, Write, TypeOK
  <2> QED
    BY <1>6, <1>1, <1>2, <1>3, <2>1 DEF InitSuper, ghosts, Call, HeadsKept, Inside
<1>7. CASE InitHead
  <2>1. cursor = 1 /\ freed = {}
    BY <1>7, <1>2 DEF InitHead, Call, Partition
  <2>2. \A c \in Bloc : disk'[c] = IF c = 1 THEN FreeSector(hdr) ELSE disk[c]
    BY <1>7, <1>3, <2>1 DEF InitHead, Write, TypeOK
  <2>3. hdr \in FreeHeader
    BY <1>7 DEF InitHead, TypeOK
  <2> QED
    BY <1>7, <1>1, <1>2, <1>3, <1>4, <2>1, <2>2, <2>3 DEF InitHead, ghosts, HeadsKept, Inside
<1>8. CASE LoadSuper
  BY <1>8, <1>2, <1>5 DEF LoadSuper, DiskHead, ghosts
<1>9. CASE SaveRoot
  <2>1. ReadSuper(disk[0]) \in Superbloc
    BY <1>3, SectorTypes DEF TypeOK
  <2> QED
    BY <1>9, <1>1, <1>4, <2>1, UsedWrite DEF SaveRoot, ghosts
<1>10. CASE NewBloc
  <2>1. torn = 0 => ~NewBlocLost
    <3> SUFFICES ASSUME torn = 0, NewBlocLost PROVE FALSE
      OBVIOUS
    <3>1. /\ super = [nb |-> disk[0].nb, first |-> disk[0].link]
          /\ super.nb # 0 /\ disk[super.first].kind # "free" /\ pc = "idle"
      BY <1>10, <1>2 DEF NewBloc, NewBlocLost, MemoryHead
    <3>2. super.first \notin freed
      BY <1>1, <3>1 DEF HeadsKept
    <3>3. super.first = cursor /\ freed = {}
      BY <1>2, <3>1, <3>2 DEF DiskHead
    <3>4. cursor < NSector
      BY <1>2, <3>1, <3>3 DEF DiskHead
    <3> QED
      BY <1>1, <3>1, <3>3, <3>4 DEF HeadsKept
  <2>2. pc = "idle" /\ UNCHANGED <<disk, freed, cursor, torn>>
    BY <1>10 DEF NewBloc
  <2>3. CASE NewBlocLost
    BY <1>1, <2>1, <2>2, <2>3 DEF HeadsKept, Inside
  <2>4. CASE ~NewBlocLost
    <3>1. pc' # "abort"
      BY <1>10, <2>4 DEF NewBloc, NewBlocFull, NewBlocSingle, NewBlocRun
    <3> QED
      BY <1>5, <2>2, <3>1
  <2> QED
    BY <2>3, <2>4
<1>11. CASE NewSave
  <2>1. \A c \in Bloc : c # 0 => disk'[c] = disk[c]
    BY <1>11 DEF NewSave, Write, TypeOK
  <2>2. hdr # None /\ pc' = "head" /\ freed' = freed /\ cursor' = cursor + 1 /\ torn' = torn
    BY <1>11, <1>2 DEF NewSave, Call
  <2> QED
    BY <1>11, <1>1, <1>2, <1>3, <2>1, <2>2 DEF NewSave, Call, HeadsKept, Inside
<1>12. CASE NewHead
  <2>1. super.first = cursor /\ freed = {} /\ hdr \in FreeHeader
    BY <1>12, <1>2 DEF NewHead, Call, MemoryHead, DiskHead, TypeOK
  <2>2. \A c \in Bloc : disk'[c] = IF c = cursor THEN FreeSector(hdr) ELSE disk[c]
    BY <1>12, <1>3, <2>1 DEF NewHead, Write, TypeOK
  <2> QED
    BY <1>12, <1>1, <1>2, <1>3, <1>4, <2>1, <2>2 DEF NewHead, ghosts, HeadsKept, Inside
<1>13. CASE UseInode
  BY <1>13, <1>1, <1>2, <1>4, UsedWrite DEF UseInode, Done, Call
<1>14. CASE Name \/ NameLate
  <2>1. parent # None /\ pc \in {"use", "name"} /\ pc' \in {"clean", "idle"} /\ WriteParent
    BY <1>14, <1>2 DEF Name, NameLate, Done, TypeOK
  <2>2. parent.bloc \in held /\ parent.copy \in Sector
    BY <1>2, <2>1 DEF Call, TypeOK, BlocCopy
  <2> QED
    BY <1>1, <2>1, <2>2, UsedWrite DEF WriteParent
<1>15. CASE Clean \/ CleanEarly
  BY <1>15, <1>1, <1>2, <1>4, UsedWrite DEF Clean, CleanEarly, Done, Call, ghosts
<1>16. CASE WriteData
  <2>1. PICK b \in linked : Write(b, DataSector)
    BY <1>16 DEF WriteData
  <2> QED
    BY <1>16, <1>1, <1>2, <1>4, <2>1, UsedWrite DEF WriteData, ghosts
<1>17. CASE FreeBloc
  BY <1>17, <1>2, <1>5 DEF FreeBloc, DiskHead, ghosts
<1>18. CASE FreeSave
  <2>1. super \in Superbloc
    BY <1>18 DEF FreeSave, TypeOK
  <2>2. \A c \in Bloc : c # 0 => disk'[c] = disk[c]
    BY <1>18 DEF FreeSave, Write, TypeOK
  <2> QED
    BY <1>18, <1>1, <1>2, <1>3, <2>2 DEF FreeSave, HeadsKept, Inside
<1>19. CASE FreeClean
  <2>1. arg \in freed
    BY <1>19, <1>2 DEF FreeClean, Call
  <2>2. \A c \in Bloc : c # arg => disk'[c] = disk[c]
    BY <1>19 DEF FreeClean, Write, TypeOK
  <2> QED
    BY <1>19, <1>1, <1>2, <1>3, <2>1, <2>2 DEF FreeClean, ghosts, HeadsKept, Inside
<1>20. CASE FreeHead
  <2>1. arg \in freed /\ hdr \in FreeHeader
    BY <1>20, <1>2 DEF FreeHead, Call, TypeOK
  <2>2. \A c \in Bloc : disk'[c] = IF c = arg THEN FreeSector(hdr) ELSE disk[c]
    BY <1>20 DEF FreeHead, Write, TypeOK
  <2> QED
    BY <1>20, <1>1, <1>2, <1>3, <1>4, <2>1, <2>2 DEF FreeHead, ghosts, HeadsKept, Inside
<1>21. CASE Restart
  <2>1. torn' = 0 => pc \notin {"format", "format_head", "head", "f_clean", "f_head"}
    BY <1>21, <1>1 DEF Restart, MidCall
  <2> QED
    BY <1>21, <1>5, <2>1 DEF Restart
<1>22. CASE UNCHANGED vars
  BY <1>22, <1>1 DEF vars, HeadsKept, Inside
<1> QED
  BY <1>6, <1>7, <1>8, <1>9, <1>10, <1>11, <1>12, <1>13, <1>14, <1>15, <1>16, <1>17, <1>18,
     <1>19, <1>20, <1>21, <1>22
  DEF Next, CreateNext, Format, Mount, Create, Delete

LEMMA QuietAlways == Spec => [](TypeOK /\ SoundInv /\ QuietInv)
<1>1. Init => TypeOK /\ SoundInv /\ QuietInv
  BY InitType, SoundInit, QuietInit
<1>2. ASSUME TypeOK, SoundInv, QuietInv, [Next]_vars
      PROVE  (TypeOK /\ SoundInv /\ QuietInv)'
  BY <1>2, NextType, SoundStep, QuietStep DEF QuietInv
<1> QED
  BY <1>1, <1>2, PTL DEF Spec

\* A volume of any size whose calls all ran to their end is never refused by the
\* assertion on a magic, until the head of the list is alone in its run or the
\* volume was found full.
THEOREM NeverRefused == Spec => []NoSpuriousAbort
<1>1. QuietInv => NoSpuriousAbort
  BY DEF QuietInv, Sound, HeadsKept, NoSpuriousAbort
<1> QED
  BY <1>1, QuietAlways, PTL

\* Until the last bloc is handed out, and although one call was cut, no write of
\* the allocator or of its clients leaves the volume.
THEOREM StaysInside == Spec => []NeighbourUntouched
<1>1. QuietInv => NeighbourUntouched
  BY DEF QuietInv, Sound, Inside, NeighbourUntouched
<1> QED
  BY <1>1, QuietAlways, PTL

-----------------------------------------------------------------------------
(* The list.  f goes from the head to the frontier; the bloc that free_bloc  *)
(* has put in front shows its header last.                                  *)

Successor(b) == IF pc \in {"f_clean", "f_head"} /\ b = arg THEN hdr.next ELSE disk[b].link

Listed(f) ==
    /\ f \in [0 .. Cardinality(freed) -> Bloc]
    /\ f[0] = disk[0].link /\ f[Cardinality(freed)] = cursor
    /\ {f[i] : i \in 0 .. Cardinality(freed) - 1} = freed
    /\ \A i \in 0 .. Cardinality(freed) - 1 : f[i + 1] = Successor(f[i])

WholeList ==
    torn = 0 /\ pc # "format" =>
        /\ pc = "f_save" => hdr.next = disk[0].link
        /\ \E f : Listed(f)

ListInv == Sound => WholeList

\* The number of blocs given back.
LEMMA FreedCount ==
    ASSUME TypeOK, SoundInv, Sound
    PROVE  /\ IsFiniteSet(freed) /\ Cardinality(freed) \in 0 .. NSector - 1
           /\ freed = {} <=> Cardinality(freed) = 0
<1>1. freed \subseteq 1 .. cursor - 1 /\ cursor \in 1 .. NSector /\ NSector \in Nat
  BY Found
<1>2. IsFiniteSet(1 .. cursor - 1) /\ Cardinality(1 .. cursor - 1) = cursor - 1
  BY <1>1, FS_Interval
<1>3. IsFiniteSet(freed) /\ Cardinality(freed) <= cursor - 1
  BY <1>1, <1>2, FS_Subset, ZenonT(40)
<1>4. Cardinality(freed) \in Nat /\ (freed = {} <=> Cardinality(freed) = 0)
  BY <1>3, FS_CardinalityType, FS_EmptySet
<1> QED
  BY <1>1, <1>3, <1>4

LEMMA EmptyList ==
    ASSUME TypeOK', SoundInv', Sound', freed' = {}, pc' # "format"
    PROVE  \E f : Listed(f)'
<1>1. disk'[0].link = cursor' /\ cursor' \in Bloc
  BY DEF SoundInv, DiskHead, TypeOK
<1>2. PICK f : f = [i \in 0 .. 0 |-> cursor']
  OBVIOUS
<1>3. Cardinality(freed') = 0
  BY FS_EmptySet
<1>4. Listed(f)'
  BY <1>1, <1>2, <1>3 DEF Listed
<1> QED
  BY <1>4

\* A step that leaves the list alone.
LEMMA ListKept ==
    ASSUME TypeOK, SoundInv, Sound, WholeList, torn = 0, pc # "format",
           UNCHANGED <<freed, cursor>>,
           disk'[0].link = disk[0].link,
           \A b \in freed : Successor(b)' = Successor(b)
    PROVE  \E f : Listed(f)'
<1>1. PICK f : Listed(f)
  BY DEF WholeList
<1>2. Cardinality(freed) \in Nat
  BY FreedCount
<1>3. \A i \in 0 .. Cardinality(freed) - 1 : f[i] \in freed
  BY <1>1 DEF Listed
<1>4. Listed(f)'
  BY <1>1, <1>2, <1>3 DEF Listed
<1> QED
  BY <1>4

\* free_bloc puts the bloc in front of the list.
LEMMA PutInFront ==
    ASSUME TypeOK, SoundInv, Sound, WholeList, torn = 0, FreeSave, TypeOK', SoundInv', Sound'
    PROVE  \E f : Listed(f)'
<1>1. PICK f : Listed(f)
  BY DEF WholeList, FreeSave
<1>01. PICK n : n = Cardinality(freed)
  OBVIOUS
<1>0. PICK g : g = [i \in 0 .. n + 1 |-> IF i = 0 THEN arg ELSE f[i - 1]]
  OBVIOUS
<1>2. /\ n \in Nat /\ IsFiniteSet(freed) /\ arg \in Bloc /\ arg \notin freed /\ 0 \notin freed
      /\ pc = "f_save" /\ super = [nb |-> disk[0].nb + 1, first |-> arg]
      /\ freed' = freed \cup {arg} /\ cursor' = cursor /\ arg' = arg /\ hdr' = hdr
      /\ pc' = "f_clean"
  BY <1>01, FreedCount, Found DEF FreeSave, Call, MemoryHead, TypeOK
<1>3. Cardinality(freed') = n + 1
  BY <1>01, <1>2, FS_AddElement
<1>4. disk'[0].link = arg /\ \A b \in freed : disk'[b] = disk[b]
  <2>1. 0 \in Bloc /\ freed \subseteq Bloc
    BY SizeAssumption DEF Bloc, TypeOK
  <2>2. SuperSector(super).link = arg
    BY <1>2, AddressStored DEF SuperSector
  <2> QED
    BY <1>2, <2>1, <2>2 DEF FreeSave, Write, TypeOK
<1>5. hdr.next = f[0]
  BY <1>1, <1>2 DEF WholeList, Listed
<1>6. \A i \in 0 .. n - 1 : f[i] \in freed /\ f[i + 1] = disk[f[i]].link
  BY <1>01, <1>1, <1>2 DEF Listed, Successor
<1>7. g \in [0 .. n + 1 -> Bloc] /\ g[0] = disk'[0].link /\ g[n + 1] = cursor'
  BY <1>01, <1>0, <1>1, <1>2, <1>4 DEF Listed
<1>8. {g[i] : i \in 0 .. n} = freed'
  <2>1. {f[i] : i \in 0 .. n - 1} = freed
    BY <1>01, <1>1 DEF Listed
  <2>2. ASSUME NEW i \in 0 .. n
        PROVE  g[i] = arg \/ \E j \in 0 .. n - 1 : g[i] = f[j]
    <3>1. i # 0 => i - 1 \in 0 .. n - 1 /\ g[i] = f[i - 1]
      BY <1>0, <1>2
    <3>2. i = 0 => g[i] = arg
      BY <1>0, <1>2
    <3> QED
      BY <3>1, <3>2
  <2>3. \A i \in 0 .. n : g[i] \in freed'
    BY <1>2, <2>1, <2>2
  <2>4. g[0] = arg /\ 0 \in 0 .. n
    BY <1>0, <1>2
  <2>5. \A j \in 0 .. n - 1 : j + 1 \in 0 .. n /\ g[j + 1] = f[j]
    BY <1>0, <1>2
  <2>6. \A b \in freed' : \E i \in 0 .. n : g[i] = b
    BY <1>2, <2>1, <2>4, <2>5
  <2> QED
    BY <2>3, <2>6
<1>9. \A i \in 0 .. n : g[i + 1] = Successor(g[i])'
  <2>1. g[1] = f[0] /\ g[0] = arg
    BY <1>0, <1>2
  <2>2. Successor(g[0])' = hdr.next
    BY <1>2, <2>1 DEF Successor
  <2>3. ASSUME NEW i \in 0 .. n, i # 0
        PROVE  g[i + 1] = Successor(g[i])'
    <3>1. i - 1 \in 0 .. n - 1 /\ g[i] = f[i - 1] /\ g[i + 1] = f[i - 1 + 1]
      BY <1>0, <1>2, <2>3
    <3>2. f[i - 1] \in freed /\ f[i - 1 + 1] = disk[f[i - 1]].link
      BY <1>6, <3>1
    <3>3. Successor(f[i - 1])' = disk'[f[i - 1]].link
      BY <1>2, <3>2 DEF Successor
    <3> QED
      BY <1>4, <3>1, <3>2, <3>3
  <2> QED
    BY <1>5, <2>1, <2>2, <2>3, 0 + 1 = 1
<1>10. Listed(g)'
  <2>1. 0 .. Cardinality(freed') - 1 = 0 .. n
    BY <1>2, <1>3
  <2>2. g \in [0 .. Cardinality(freed') -> Bloc]
    BY <1>3, <1>7
  <2>3. g[0] = disk'[0].link /\ g[Cardinality(freed')] = cursor'
    BY <1>3, <1>7
  <2>4. {g[i] : i \in 0 .. Cardinality(freed') - 1} = freed'
    BY <1>8, <2>1
  <2>5. \A i \in 0 .. Cardinality(freed') - 1 : g[i + 1] = Successor(g[i])'
    BY <1>9, <2>1
  <2> QED
    BY <2>2, <2>3, <2>4, <2>5 DEF Listed
<1> QED
  BY <1>10

LEMMA ListStep ==
    ASSUME TypeOK, SoundInv, QuietInv, ListInv, [Next]_vars, TypeOK', SoundInv', QuietInv', Sound'
    PROVE  WholeList'
<1> SUFFICES ASSUME torn' = 0, pc' # "format"
             PROVE  (pc' = "f_save" => hdr'.next = disk'[0].link) /\ \E f : Listed(f)'
  BY DEF WholeList
<1>1. /\ Sound /\ HeadsKept /\ WholeList /\ torn = 0
      /\ Partition /\ DiskHead /\ MemoryHead /\ Call /\ FreedHeaders
      /\ freed \subseteq Bloc /\ 0 \in Bloc /\ 0 \notin freed /\ linked \cap freed = {}
      /\ held \cap freed = {} /\ 0 \notin held /\ linked \subseteq Bloc /\ 0 \notin linked
  <2>1. Sound /\ HeadsKept /\ WholeList /\ torn = 0
    BY SoundBefore DEF QuietInv, ListInv
  <2>2. cursor \in Nat /\ held \subseteq 1 .. cursor - 1 /\ freed \subseteq 1 .. cursor - 1
        /\ linked \subseteq held
    BY <2>1, Found
  <2>3. 0 \notin 1 .. cursor - 1
    BY <2>2
  <2> QED
    BY <2>1, <2>2, <2>3, Found, SizeAssumption DEF SoundInv, TypeOK, Bloc
<1>2. pc' = "f_save" => hdr'.next = disk'[0].link
  <2>1. CASE FreeBloc
    <3>1. hdr'.next = IF super = None THEN ReadSuper(disk[0]).first ELSE super.first
      BY <2>1, <1>1 DEF FreeBloc, FreedHeader, DiskHead
    <3>2. disk[0].link \in Bloc
      BY <1>1 DEF TypeOK, Sector
    <3> QED
      BY <2>1, <1>1, <3>1, <3>2, AddressStored DEF FreeBloc, MemoryHead, ReadSuper
  <2>2. CASE ~FreeBloc
    <3>1. pc' = "f_save" => UNCHANGED vars
      BY <2>2 DEF Next, CreateNext, Format, Mount, Create, Delete, InitSuper, InitHead, LoadSuper,
         SaveRoot, NewBloc, NewBlocFull, NewBlocLost, NewBlocSingle, NewBlocRun, NewSave, NewHead,
         UseInode, Name, Clean, CleanEarly, NameLate, WriteData, FreeSave, FreeClean, FreeHead,
         Restart, Done, Abort
    <3> QED
      BY <1>1, <3>1 DEF vars, WholeList
  <2> QED
    BY <2>1, <2>2
<1> SUFFICES \E f : Listed(f)'
  BY <1>2
<1>3. CASE freed' = {}
  BY <1>3, EmptyList
<1>4. CASE FreeSave
  BY <1>1, <1>4, PutInFront
\* The other steps leave the list alone.
<1>5. ASSUME UNCHANGED <<freed, cursor>>, disk'[0].link = disk[0].link, pc # "format",
             \A b \in freed : Successor(b)' = Successor(b)
      PROVE  \E f : Listed(f)'
  BY <1>1, <1>5, ListKept
<1>6. ASSUME UNCHANGED <<freed, cursor>>, pc \notin {"format", "f_clean", "f_head"},
             pc' \notin {"f_clean", "f_head"},
             NEW b \in Bloc \ freed, NEW t \in Sector, Write(b, t),
             b = 0 => t.link = disk[0].link
      PROVE  \E f : Listed(f)'
  <2>1. disk'[0].link = disk[0].link /\ \A c \in freed : disk'[c] = disk[c]
    BY <1>1, <1>6 DEF Write, TypeOK
  <2> QED
    BY <1>5, <1>6, <2>1 DEF Successor
<1>7. ASSUME UNCHANGED <<disk, freed, cursor>>, pc \notin {"format", "f_clean", "f_head"},
             pc' \notin {"f_clean", "f_head"}
      PROVE  \E f : Listed(f)'
  BY <1>5, <1>7 DEF Successor
<1>8. /\ InodeSector \in Sector /\ DataSector \in Sector
      /\ \A h \in FreeHeader : FreeSector(h) \in Sector
      /\ \A s \in Superbloc : SuperSector(s) \in Sector
  BY SectorTypes
<1>9. freed' # {} => ~InitSuper /\ ~InitHead /\ ~NewSave /\ ~NewHead
  BY <1>1 DEF InitSuper, InitHead, NewSave, NewHead, Call, ghosts
<1>10. CASE LoadSuper \/ NewBloc \/ FreeBloc
  BY <1>7, <1>10 DEF LoadSuper, NewBloc, NewBlocFull, NewBlocLost, NewBlocSingle, NewBlocRun,
     FreeBloc, ghosts, Abort
<1>11. CASE SaveRoot
  <2>1. disk[0] \in Sector /\ ReadSuper(disk[0]) \in Superbloc /\ disk[0].link \in Bloc
    BY <1>1, SectorTypes DEF TypeOK, Sector
  <2>2. SuperSector(ReadSuper(disk[0])).link = disk[0].link
    BY <2>1, AddressStored DEF SuperSector, ReadSuper
  <2> QED
    BY <1>1, <1>6, <1>8, <1>11, <2>1, <2>2 DEF SaveRoot, ghosts
<1>12. CASE UseInode
  <2>1. pc = "use" /\ pc' = "idle" /\ UNCHANGED <<freed, cursor>> /\ Write(arg, InodeSector)
    BY <1>12 DEF UseInode, Done
  <2>2. arg \in held /\ arg \in Bloc /\ arg # 0
    BY <1>1, <2>1 DEF Call, TypeOK
  <2> QED
    BY <1>1, <1>6, <1>8, <2>1, <2>2
<1>13. CASE Name \/ NameLate
  <2>1. parent # None /\ WriteParent /\ pc \in {"use", "name"} /\ pc' \in {"clean", "idle"}
    BY <1>1, <1>13 DEF Name, NameLate, Done, TypeOK
  <2>2. parent.bloc \in linked /\ parent.copy \in Sector /\ parent.bloc \in Bloc
    BY <1>1, <2>1 DEF Call, TypeOK, BlocCopy
  <2> QED
    BY <1>1, <1>6, <2>1, <2>2 DEF WriteParent
<1>14. CASE Clean \/ CleanEarly
  <2>1. /\ pc \in {"use", "clean"} /\ pc' \in {"idle", "name"} /\ UNCHANGED <<freed, cursor>>
        /\ Write(arg, DataSector)
    BY <1>14 DEF Clean, CleanEarly, Done, ghosts
  <2>2. arg \in held /\ arg \in Bloc /\ arg # 0
    BY <1>1, <2>1 DEF Call, TypeOK
  <2> QED
    BY <1>1, <1>6, <1>8, <2>1, <2>2
<1>15. CASE WriteData
  <2>1. PICK b \in linked : Write(b, DataSector)
    BY <1>15 DEF WriteData
  <2>2. b \in Bloc /\ b # 0
    BY <1>1
  <2> QED
    BY <1>1, <1>6, <1>8, <1>15, <2>1, <2>2 DEF WriteData, ghosts
<1>16. CASE FreeClean
  <2>1. /\ pc = "f_clean" /\ pc' = "f_head" /\ arg' = arg /\ hdr' = hdr /\ arg \in freed
        /\ freed' = freed /\ cursor' = cursor
    BY <1>1, <1>16 DEF FreeClean, Call, ghosts
  <2>2. \A c \in Bloc : c # arg => disk'[c] = disk[c]
    BY <1>16 DEF FreeClean, Write, TypeOK
  <2> QED
    BY <1>1, <1>5, <2>1, <2>2 DEF Successor
<1>17. CASE FreeHead
  <2>1. /\ pc = "f_head" /\ pc' = "idle" /\ hdr \in FreeHeader /\ arg \in freed
        /\ freed' = freed /\ cursor' = cursor
    BY <1>1, <1>17 DEF FreeHead, Call, TypeOK, ghosts
  <2>2. \A c \in Bloc : disk'[c] = IF c = arg THEN FreeSector(hdr) ELSE disk[c]
    BY <1>17 DEF FreeHead, Write, TypeOK
  <2>3. FreeSector(hdr).link = hdr.next
    BY <2>1, AddressStored DEF FreeSector, FreeHeader
  <2> QED
    BY <1>1, <1>5, <2>1, <2>2, <2>3 DEF Successor
<1>18. CASE Restart
  BY <1>1, <1>7, <1>18 DEF Restart, MidCall
<1>19. CASE UNCHANGED vars
  BY <1>1, <1>5, <1>19 DEF vars, Successor
<1> QED
  BY <1>3, <1>4, <1>9, <1>10, <1>11, <1>12, <1>13, <1>14, <1>15, <1>16, <1>17, <1>18, <1>19
  DEF Next, CreateNext, Format, Mount, Create, Delete

LEMMA ListAlways == Spec => [](TypeOK /\ SoundInv /\ QuietInv /\ ListInv)
<1>1. Init => TypeOK /\ SoundInv /\ QuietInv /\ ListInv
  BY InitType, SoundInit, QuietInit DEF Init, ListInv, WholeList
<1>2. ASSUME TypeOK, SoundInv, QuietInv, ListInv, [Next]_vars
      PROVE  (TypeOK /\ SoundInv /\ QuietInv /\ ListInv)'
  BY <1>2, NextType, SoundStep, QuietStep, ListStep DEF QuietInv, ListInv
<1> QED
  BY <1>1, <1>2, PTL DEF Spec

\* What the walk along the links reaches: Chain is f, from the head to the frontier.
LEMMA ChainIs ==
    ASSUME TypeOK, SoundInv, Sound, NEW f, Listed(f), pc = "idle"
    PROVE  \A i \in 0 .. Cardinality(freed) : Chain[i] = f[i]
<1> DEFINE n == Cardinality(freed)
           G == [i \in 1 .. NSector |-> [b \in Bloc |-> disk[b].link]]
<1>1. n \in 0 .. NSector - 1 /\ NSector \in Nat
  BY FreedCount, SizeAssumption
<1>2. disk[0].link \in Bloc /\ \A b \in Bloc : disk[b].link \in Bloc
  <2>1. 0 \in Bloc /\ \A b \in Bloc : disk[b] \in Sector
    BY SizeAssumption DEF TypeOK, Bloc
  <2> QED
    BY <2>1 DEF Sector
<1>3. PICK g : Follows(g, NSector, disk[0].link, G)
  BY <1>1, FunctionExists
<1>4. g \in [0 .. NSector -> Bloc]
  <2>1. \A i \in 1 .. NSector, b \in Bloc : G[i][b] \in Bloc
    BY <1>2
  <2> HIDE DEF G
  <2> QED
    BY <1>1, <1>2, <1>3, <2>1, FunctionType
<1>5. g = [i \in 0 .. NSector |-> IF i = 0 THEN disk[0].link ELSE disk[g[i - 1]].link]
  <2>1. ASSUME NEW i \in 0 .. NSector, i # 0
        PROVE  G[i][g[i - 1]] = disk[g[i - 1]].link
    <3>1. i \in 1 .. NSector /\ i - 1 \in 0 .. NSector
      BY <1>1, <2>1
    <3>2. g[i - 1] \in Bloc
      BY <1>4, <3>1
    <3> QED
      BY <3>1, <3>2
  <2> HIDE DEF G
  <2> QED
    BY <1>3, <2>1 DEF Follows
<1>6. Chain = [i \in 0 .. NSector |-> IF i = 0 THEN disk[0].link ELSE disk[Chain[i - 1]].link]
  BY <1>5 DEF Chain
<1>61. \A i \in 0 .. NSector : i # 0 => Chain[i] = disk[Chain[i - 1]].link
  BY <1>6
<1> DEFINE T == {i \in 0 .. n : Chain[i] = f[i]}
<1>7. 0 \in T
  BY <1>1, <1>6 DEF Listed
<1>8. ASSUME NEW i \in 0 .. n - 1, i \in T
      PROVE  i + 1 \in T
  <2>1. i + 1 \in 0 .. NSector /\ i + 1 # 0 /\ i + 1 - 1 = i /\ i + 1 \in 0 .. n
    BY <1>1
  <2>2. Chain[i + 1] = disk[Chain[i + 1 - 1]].link
    BY <1>61, <2>1
  <2>3. f[i + 1] = disk[f[i]].link
    BY DEF Listed, Successor
  <2> QED
    BY <1>8, <2>1, <2>2, <2>3
<1>9. 0 .. n \subseteq T
  <2>1. n \in Nat
    BY <1>1
  <2> HIDE DEF T, n
  <2> QED
    BY <1>7, <1>8, <2>1, UpTo
<1> QED
  BY <1>9

\* Between two calls of a sound volume of any size, the walk from the superbloc goes
\* through every bloc given back, once each, and ends at the run never handed out.
THEOREM ListExact == Spec => []FreeListExact
<1>1. ASSUME TypeOK, SoundInv, QuietInv, ListInv PROVE FreeListExact
  <2> SUFFICES ASSUME fault = "none", torn = 0, pc = "idle"
               PROVE  /\ {Chain[i] : i \in 0 .. Cardinality(freed) - 1} = freed
                      /\ Chain[Cardinality(freed)] = cursor
                      /\ \A b \in freed : disk[b].kind = "free" /\ disk[b].nb = 1
                      /\ cursor < NSector => disk[cursor].kind = "free"
    BY DEF FreeListExact
  <2>1. Sound /\ HeadsKept /\ WholeList /\ FreedHeaders
    BY <1>1 DEF Sound, QuietInv, ListInv, SoundInv
  <2>2. PICK f : Listed(f)
    BY <2>1 DEF WholeList
  <2>3. \A i \in 0 .. Cardinality(freed) : Chain[i] = f[i]
    BY <1>1, <2>1, <2>2, ChainIs
  <2>4. Cardinality(freed) \in Nat
    BY <1>1, <2>1, FreedCount
  <2> QED
    BY <2>1, <2>2, <2>3, <2>4 DEF Listed, HeadsKept, FreedHeaders
<1> QED
  BY <1>1, ListAlways, PTL
=============================================================================
