------------------------------- MODULE Volume --------------------------------
(***************************************************************************)
(* The volumes of the disk: the table in the MBR (src/disque/volume.c) and  *)
(* the programs that change it or trust it, one run of a program per step:  *)
(* frmt, mkvol, rvol and mknfs.  A program reads the table at its start and *)
(* writes it in a single sector at its end, so a run that is killed changes *)
(* nothing here.  All volumes are of type BASE: no program makes another.   *)
(***************************************************************************)
EXTENDS Integers, Sequences

CONSTANTS
    NCyl,       \* HDA_MAXCYLINDER
    NSec,       \* HDA_MAXSECTOR
    MaxVol,     \* MAX_VOLUME
    Byte,       \* 256: an entry of the table has a byte for each coordinate
    Size        \* the sizes the user asks for

ASSUME DiskAssumption ==
    /\ NCyl \in Nat \ {0} /\ NSec \in Nat \ {0} /\ MaxVol \in Nat \ {0}
    /\ Byte \in Nat /\ Byte >= NCyl /\ Byte >= NSec
    /\ Size \subseteq 1 .. Byte * Byte - 1

VARIABLES
    table,      \* the entries of the MBR, in order; their number is nvol
    lost,       \* something else was written over the MBR
    wild        \* mknfs wrote at coordinates no program ever set

vars == <<table, lost, wild>>

Cyl == 0 .. NCyl - 1
Sec == 0 .. NSec - 1
Coordinates == [cyl : 0 .. Byte - 1, sec : 0 .. Byte - 1]
VolumeEntry == [cyl : 0 .. Byte - 1, sec : 0 .. Byte - 1, nsector : 0 .. Byte * Byte - 1]

\* save_mbr, read again by init_mbr_s.
Saved(v) == [cyl |-> v.cyl % Byte, sec |-> v.sec % Byte,
             nsector |-> v.nsector % (Byte * Byte)]

-----------------------------------------------------------------------------
(* Blocs of a volume and sectors of the disk.                               *)

\* The number of a sector, from the first one of the disk on.
Rank(p) == p.cyl * NSec + p.sec

\* Mistake: every volume starts on the first cylinder.
ConvertBlocFirst(v, bloc) ==
    [cyl |-> (v.sec + bloc) \div NSec, sec |-> (v.sec + bloc) % NSec]

\* convert_bloc: there is no bound on the bloc.
ConvertBloc(v, bloc) ==
    [cyl |-> v.cyl + (v.sec + bloc) \div NSec, sec |-> (v.sec + bloc) % NSec]

\* Mistake: the first sector number is not taken off.
ConvertCylSecFlat(v, cyl, sec) ==
    LET blc == (cyl - v.cyl) * NSec + sec
    IN  IF cyl < v.cyl \/ sec \in 0 .. v.sec - 1 \/ blc > v.nsector THEN -1 ELSE blc

\* convert_cyl_sec: the bloc of v at these coordinates.  -1, in the last call
\* of chck_possible, is an unsigned int there.
ConvertCylSec(v, cyl, sec) ==
    LET blc == (cyl - v.cyl) * NSec + sec - v.sec
    IN  IF cyl < v.cyl \/ sec \in 0 .. v.sec - 1 \/ blc > v.nsector THEN -1 ELSE blc

\* The sectors that v was given.
Sectors(v) == {Rank(v) + b : b \in 0 .. v.nsector - 1}

-----------------------------------------------------------------------------
Init == table = <<>> /\ lost = FALSE /\ wild = FALSE

\* frmt erases every sector and writes an empty table.  A table of zeros, left
\* by a run cut before that, reads as an empty one: nobody checks the magic.
Frmt ==
    /\ table' = <<>> /\ lost' = FALSE
    /\ UNCHANGED wild

\* Mistake: only the last sector is looked up.
PossibleLast(fc, fs, size) ==
    \A i \in 1 .. Len(table) :
        ConvertCylSec(table[i], fc + size \div NSec, fs - 1) = -1

\* mkvol.  chck_possible looks up two sectors, its idea of the last one included.
Possible(fc, fs, size) ==
    \A i \in 1 .. Len(table) :
        /\ ConvertCylSec(table[i], fc, fs) = -1
        /\ ConvertCylSec(table[i], fc + size \div NSec, fs - 1) = -1

CreateVolume(fc, fs, size) ==
    table' = Append(table, Saved([cyl |-> fc, sec |-> fs, nsector |-> size]))

\* Mistake: a full table takes one more.
MkvolAlways(fc, fs, size) ==
    /\ ~lost
    /\ Possible(fc, fs, size)
    /\ CreateVolume(fc, fs, size)
    /\ UNCHANGED <<lost, wild>>

Mkvol(fc, fs, size) ==
    /\ ~lost
    /\ Len(table) # MaxVol
    /\ Possible(fc, fs, size)
    /\ CreateVolume(fc, fs, size)
    /\ UNCHANGED <<lost, wild>>

\* Mistake: the copy starts one entry too late.
ShiftLate(t, k) ==
    [i \in 1 .. Len(t) - 1 |-> IF i \in k + 1 .. MaxVol - 2 THEN t[i + 1] ELSE t[i]]

\* rvol: "for(; nvol < MAX_VOLUME-2; nvol++) volume[nvol] = volume[nvol+1]".
Shift(t, k) ==
    [i \in 1 .. Len(t) - 1 |-> IF i \in k .. MaxVol - 2 THEN t[i + 1] ELSE t[i]]

Rvol(k) ==
    /\ ~lost
    /\ k \in 1 .. Len(table)
    /\ table' = Shift(table, k)
    /\ UNCHANGED <<lost, wild>>

\* mknfs: "crt_vol > mbr->nvol-1" is a comparison of unsigned int.
Accepted(k) == Len(table) = 0 \/ k <= Len(table)

\* convert_bloc behind an assertion: it lets the first entry that is not there.
Convertible(k) == k <= Len(table) + 1 /\ k <= MaxVol

\* An entry that is not there holds whatever malloc left.
Entry(k) == IF k <= Len(table) THEN {table[k]} ELSE VolumeEntry

\* What bloc 1 of the first volume may show to read_free_bloc: the magic or not,
\* a run of one bloc or of more, and the number of the next run.
Header == [free : BOOLEAN, one : BOOLEAN, next : 0 .. Byte * Byte - 1]

Ranks(v, blocs) == {Rank(ConvertBloc(v, b)) : b \in blocs}

\* init_super(v) has just written the superbloc and a run on v, which is the first
\* volume f itself or may lie on it.  Otherwise f has what its programs left.
Shows(v, f, h) ==
    /\ Ranks(f, {1}) = Ranks(v, {1}) => h.free /\ (h.one <=> v.nsector = 2) /\ h.next = 0
    /\ Ranks(f, {1}) = Ranks(v, {0}) => ~h.free

\* create_ifile, on vol_courant, which is the first volume whatever the volume that
\* is made: the superbloc is saved there when a bloc is taken ...
SaveBlocs(v, h) == IF v.nsector # 1 /\ h.free THEN {0} ELSE {}

\* ... then the header of the run moves on, and the inode is written on its bloc: on
\* bloc 0 when the superbloc counts no bloc, on the next run for a run of one bloc.
InodeBlocs(v, h) ==
    IF v.nsector = 1 THEN {0}
    ELSE IF ~h.free THEN {}                     \* the assertion on the magic
    ELSE IF h.one THEN {h.next} ELSE {1, 2}

\* The sectors that mknfs writes: init_super's, create_ifile's, and the superbloc again.
Written(v, f, h) == Ranks(v, {0, 1}) \cup Ranks(f, SaveBlocs(v, h) \cup InodeBlocs(v, h))

Mknfs(k, h) ==
    /\ ~lost
    /\ Accepted(k) /\ Convertible(k)
    /\ \E v \in Entry(k) :
          LET f == IF k = 1 THEN v ELSE table[1]
          IN  /\ Shows(v, f, h)
              /\ lost' = (0 \in Written(v, f, h))
    /\ wild' = (wild \/ k > Len(table))
    /\ UNCHANGED table

Next ==
    \/ Frmt
    \/ \E fc \in Cyl, fs \in Sec, size \in Size : Mkvol(fc, fs, size)
    \/ \E k \in 1 .. MaxVol : Rvol(k)
    \/ \E k \in 1 .. MaxVol, h \in Header : Mknfs(k, h)

Spec == Init /\ [][Next]_vars

-----------------------------------------------------------------------------
(* What is checked.                                                         *)

\* The types, and a table that never has more entries than the MBR.
TypeOK ==
    /\ table \in Seq(VolumeEntry) /\ Len(table) <= MaxVol
    /\ lost \in BOOLEAN /\ wild \in BOOLEAN

Disjoint(v, u) == Sectors(v) \cap Sectors(u) = {}

\* What the two lookups of mkvol are enough for: a volume created after another
\* one, further on the disk and from the same sector number of its cylinder (the
\* scripts always ask for sector 1), never shares a sector with it, whatever was
\* removed or created in between.
Behind(u, v) == v.cyl < u.cyl /\ v.sec = u.sec
AppendedApart ==
    \A i, j \in 1 .. Len(table) :
        i < j /\ Behind(table[j], table[i]) => Disjoint(table[i], table[j])

\* convert_cyl_sec never misleads: when it gives a bloc for a sector of the disk,
\* write_bloc of that bloc goes to that sector.
AnswerRight ==
    \A i \in 1 .. Len(table), cyl \in Cyl, sec \in Sec :
        LET b == ConvertCylSec(table[i], cyl, sec)
        IN  b # -1 => ConvertBloc(table[i], b) = [cyl |-> cyl, sec |-> sec]

\* The table is only lost to a volume placed on it, or where there was none.
LostExplained ==
    lost => wild \/ \E i \in 1 .. Len(table) : Rank(table[i]) = 0

\* Removing a volume changes no other one, nor their order, as long as the table
\* was not full.
RemovesOne ==
    [][\A k \in 1 .. MaxVol : Len(table) < MaxVol /\ Rvol(k) =>
         table' = SubSeq(table, 1, k - 1) \o SubSeq(table, k + 1, Len(table))]_vars
=============================================================================
