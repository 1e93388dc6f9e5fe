------------------------------ MODULE IfileProofs ------------------------------
(***************************************************************************)
(* Files: no bloc has two owners and a file is what was written in it, for  *)
(* every size of the volume, the bytes and the tables, as long as no row of *)
(* a second level got a number that Level2 does not find again (astray).    *)
(*                                                                          *)
(* Good is the invariant of a volume, Lives that of a process on it.  Each  *)
(* function of the code has a lemma that says what it makes of a volume     *)
(* that is Good, from new_bloc up to the calls; the theorems are at the end. *)
(***************************************************************************)
EXTENDS Ifile, Induction, FiniteSetTheorems, TLAPS

USE IfileAssumption

-----------------------------------------------------------------------------
(* Numbers.                                                                 *)

LEMMA Division ==
    ASSUME NEW a \in Nat, NEW b \in Nat \ {0}
    PROVE  /\ a \div b \in Nat /\ a % b \in 0 .. b - 1
           /\ a = b * (a \div b) + (a % b)
  OBVIOUS

LEMMA Below ==
    ASSUME NEW a \in Nat, NEW b \in Nat \ {0}, NEW c \in Nat, a < b * c
    PROVE  a \div b < c
  OBVIOUS

\* A number takes two bytes.
LEMMA TwoBytes ==
    ASSUME NEW b \in Bloc
    PROVE  /\ b \div W \in 0 .. W - 1 /\ b % W \in 0 .. W - 1
           /\ W * (b \div W) + (b % W) = b
<1>1. W \in Nat \ {0} /\ b \in Nat /\ b < W * W
  BY DEF Bloc
<1>2. b \div W < W
  BY <1>1, Below
<1>3. b \div W \in Nat /\ b % W \in 0 .. W - 1 /\ b = W * (b \div W) + (b % W)
  BY <1>1, Division
<1> QED
  BY <1>2, <1>3

LEMMA TwoPlaces ==
    ASSUME NEW k \in 0 .. NB - 1
    PROVE  2 * k \in 0 .. S - 1 /\ 2 * k + 1 \in 0 .. S - 1
  OBVIOUS

LEMMA EntryOf ==
    ASSUME NEW t \in Bytes, NEW k \in 0 .. NB - 1
    PROVE  /\ Entry(t, k) \in Nat
           /\ Entry(t, k) = 0 <=> t[2 * k] = 0 /\ t[2 * k + 1] = 0
           /\ Entry(t, k) < W => t[2 * k] = 0 /\ Entry(t, k) = t[2 * k + 1]
           /\ t[2 * k] \in 0 .. W - 1 /\ t[2 * k + 1] \in 0 .. W - 1
<1> DEFINE a == t[2 * k]
           c == t[2 * k + 1]
<1>1. a \in 0 .. W - 1 /\ c \in 0 .. W - 1
  BY TwoPlaces DEF Bytes
<1>2. Entry(t, k) = W * a + c
  BY DEF Entry
<1>3. W * a \in Nat /\ (a = 0 => W * a = 0) /\ (a # 0 => W * a >= W)
  BY <1>1
<1> HIDE DEF a, c
<1>4. /\ Entry(t, k) \in Nat
      /\ Entry(t, k) = 0 <=> a = 0 /\ c = 0
      /\ Entry(t, k) < W => a = 0 /\ Entry(t, k) = c
  BY <1>1, <1>2, <1>3
<1> QED
  BY <1>1, <1>4 DEF a, c

LEMMA LevelTwo ==
    ASSUME NEW t \in Bytes, NEW k \in 0 .. NB - 1, Entry(t, k) < W
    PROVE  Level2(t, k) = Entry(t, k)
<1>1. t[2 * k] = 0 /\ Entry(t, k) = t[2 * k + 1] /\ t[2 * k + 1] \in 0 .. W - 1
  BY EntryOf
<1>2. 0 \div W = 0
  OBVIOUS
<1> QED
  BY <1>1, <1>2 DEF Level2

LEMMA EntryWritten ==
    ASSUME NEW t \in Bytes, NEW k \in 0 .. NB - 1, NEW b \in Bloc
    PROVE  /\ WithEntry(t, k, b) \in Bytes
           /\ Entry(WithEntry(t, k, b), k) = b
           /\ \A l \in 0 .. NB - 1 : l # k => Entry(WithEntry(t, k, b), l) = Entry(t, l)
<1> DEFINE w == WithEntry(t, k, b)
           hi == b \div W
           lo == b % W
<1>1. hi \in 0 .. W - 1 /\ lo \in 0 .. W - 1 /\ W * hi + lo = b
  BY TwoBytes
<1>2. 2 * k \in 0 .. S - 1 /\ 2 * k + 1 \in 0 .. S - 1 /\ 2 * k # 2 * k + 1
  BY TwoPlaces
<1>3. w = [t EXCEPT ![2 * k] = hi, ![2 * k + 1] = lo]
  BY DEF WithEntry
<1> HIDE DEF w, hi, lo
<1>4. w \in Bytes /\ w[2 * k] = hi /\ w[2 * k + 1] = lo
  BY <1>1, <1>2, <1>3 DEF Bytes
<1>5. Entry(w, k) = b
  BY <1>1, <1>4 DEF Entry
<1>6. ASSUME NEW l \in 0 .. NB - 1, l # k
      PROVE  Entry(w, l) = Entry(t, l)
  <2>1. 2 * l \notin {2 * k, 2 * k + 1} /\ 2 * l + 1 \notin {2 * k, 2 * k + 1}
    BY <1>6
  <2>2. 2 * l \in 0 .. S - 1 /\ 2 * l + 1 \in 0 .. S - 1
    BY TwoPlaces
  <2>3. w[2 * l] = t[2 * l] /\ w[2 * l + 1] = t[2 * l + 1]
    BY <1>3, <2>1, <2>2 DEF Bytes
  <2> QED
    BY <2>3 DEF Entry
<1> QED
  BY <1>4, <1>5, <1>6 DEF w

LEMMA NoEntries ==
    /\ Zeros \in Bytes
    /\ \A k \in 0 .. NB - 1 : Entry(Zeros, k) = 0
<1>1. Zeros \in Bytes
  BY DEF Zeros, Bytes
<1>2. ASSUME NEW k \in 0 .. NB - 1 PROVE Entry(Zeros, k) = 0
  <2>1. Zeros[2 * k] = 0 /\ Zeros[2 * k + 1] = 0
    BY TwoPlaces DEF Zeros
  <2>2. W * 0 + 0 = 0
    OBVIOUS
  <2> QED
    BY <2>1, <2>2 DEF Entry
<1> QED
  BY <1>1, <1>2

LEMMA RowColumn ==
    ASSUME NEW f \in 2 * NB .. F - 1
    PROVE  /\ Row(f) \in 0 .. NB - 1 /\ Column(f) \in 0 .. NB - 1
           /\ f = 2 * NB + Row(f) * NB + Column(f)
<1> DEFINE a == f - NB
           q == a \div NB
<1>1. a \in Nat /\ a >= NB /\ a < NB * (1 + NB)
  BY DEF F
<1>2. q \in Nat /\ a % NB \in 0 .. NB - 1 /\ a = NB * q + (a % NB)
  BY <1>1, Division
<1>3. q < 1 + NB
  BY <1>1, Below
<1>4. q # 0
  <2>1. q = 0 => NB * q = 0
    OBVIOUS
  <2> QED
    BY <1>1, <1>2, <2>1
<1>5. Row(f) = q - 1
  BY DEF Row
<1>6. (q - 1) * NB = NB * q - NB /\ NB * q \in Nat
  BY <1>2
<1>7. Column(f) = a % NB
  BY <1>2, <1>5, <1>6 DEF Column
<1> HIDE DEF q
<1> QED
  BY <1>1, <1>2, <1>3, <1>4, <1>5, <1>6, <1>7

LEMMA Below2 ==
    \A f \in 0 .. 2 * NB - 1 : f \in 0 .. F - 1
<1>1. F >= 2 * NB
  <2>1. NB * NB \in Nat /\ F = 2 * NB + NB * NB
    BY DEF F
  <2> QED
    BY <2>1
<1>2. F \in Nat
  BY DEF F
<1> QED
  BY <1>1, <1>2

LEMMA Sizes ==
    /\ NB \in Nat \ {0} /\ S \in Nat \ {0} /\ W \in Nat \ {0}
    /\ NSector \in Nat /\ NSector >= 3
    /\ F \in Nat /\ F >= 2 * NB
<1>1. F \in Nat /\ NB * NB \in Nat /\ F = 2 * NB + NB * NB
  BY DEF F
<1>2. F >= 2 * NB
  BY <1>1
<1>3. W # 0
  <2>1. W = 0 => W * W = 0
    OBVIOUS
  <2> QED
    BY <2>1
<1>4. S # 0
  OBVIOUS
<1> QED
  BY <1>1, <1>2, <1>3, <1>4

HIDE IfileAssumption
USE Sizes

-----------------------------------------------------------------------------
(* Volumes.                                                                 *)

\* A volume before it goes astray: the models' operators keep these types.
SuperSector == [kind : {"super"}, nb : Nat, first : Bloc]
FreeSector == [kind : {"free"}, nb : Nat, next : Bloc]
DataSector == [kind : {"bytes"}, c : Bytes]
Sector == SuperSector \cup FreeSector \cup DataSector \cup Inode

Volume == [nb : Nat, first : Bloc, end : {"none", "exit", "abort", "given"},
           gave : BOOLEAN, astray : BOOLEAN, disk : [Bloc -> Sector]]

LEMMA SectorKinds ==
    /\ \A t \in Bytes : Data(t) \in Sector /\ Data(t).kind = "bytes" /\ Data(t).c = t
    /\ \A n \in Nat, b \in Bloc : Super(n, b) \in Sector /\ Super(n, b).kind = "super"
                                  /\ Super(n, b).nb = n /\ Super(n, b).first = b
    /\ \A n \in Nat, b \in Bloc : Free(n, b) \in Sector /\ Free(n, b).kind = "free"
    /\ \A s \in Inode : s \in Sector /\ s.kind = "inode"
    /\ EmptyInode \in Inode
    /\ \A s \in Sector : s.kind = "bytes" => s.c \in Bytes /\ s = Data(s.c)
    /\ \A s \in Sector : s.kind = "inode" => s \in Inode
    /\ \A s \in Sector : IsSector(s)
<1>1. \A t \in Bytes : Data(t) \in Sector /\ Data(t).kind = "bytes" /\ Data(t).c = t
  BY DEF Data, Sector, DataSector
<1>2. \A n \in Nat, b \in Bloc : Super(n, b) \in Sector /\ Super(n, b).kind = "super"
                                 /\ Super(n, b).nb = n /\ Super(n, b).first = b
  BY DEF Super, Sector, SuperSector
<1>3. \A n \in Nat, b \in Bloc : Free(n, b) \in Sector /\ Free(n, b).kind = "free"
  BY DEF Free, Sector, FreeSector
<1>4. \A s \in Inode : s \in Sector /\ s.kind = "inode"
  BY DEF Sector, Inode
<1>5. EmptyInode \in Inode
  BY DEF EmptyInode, Inode, Bloc, F
<1>6. \A s \in Sector : s.kind = "bytes" => s.c \in Bytes /\ s = Data(s.c)
  BY DEF Sector, SuperSector, FreeSector, DataSector, Inode, Data
<1>7. \A s \in Sector : s.kind = "inode" => s \in Inode
  BY DEF Sector, SuperSector, FreeSector, DataSector, Inode
<1>8. \A s \in Sector : IsSector(s)
  BY DEF Sector, SuperSector, FreeSector, DataSector, Inode, IsSector
<1> QED
  BY <1>1, <1>2, <1>3, <1>4, <1>5, <1>6, <1>7, <1>8

\* All but the sectors.
Same(v, w) ==
    /\ w.nb = v.nb /\ w.first = v.first /\ w.end = v.end
    /\ w.gave = v.gave /\ w.astray = v.astray

LEMMA VolumeType ==
    ASSUME NEW v \in Volume
    PROVE  /\ v.nb \in Nat /\ v.first \in Bloc /\ v.end \in {"none", "exit", "abort", "given"}
           /\ v.gave \in BOOLEAN /\ v.astray \in BOOLEAN /\ v.disk \in [Bloc -> Sector]
  BY DEF Volume

LEMMA PutIn ==
    ASSUME NEW v \in Volume, NEW b \in Bloc, NEW s \in Sector
    PROVE  /\ Put(v, b, s) \in Volume /\ Same(v, Put(v, b, s))
           /\ \A c \in Bloc : Put(v, b, s).disk[c] = IF c = b THEN s ELSE v.disk[c]
  BY DEF Put, Volume, Same

LEMMA CleanIn ==
    ASSUME NEW v \in Volume, NEW b \in Bloc
    PROVE  /\ Clean(v, b) \in Volume /\ Same(v, Clean(v, b))
           /\ \A c \in Bloc : Clean(v, b).disk[c] = IF c = b THEN Data(Zeros) ELSE v.disk[c]
  BY PutIn, SectorKinds, NoEntries DEF Clean

LEMMA EndsIn ==
    ASSUME NEW v \in Volume, NEW how \in {"none", "exit", "abort", "given"}
    PROVE  /\ Ends(v, how) \in Volume /\ Ends(v, how).end = how
           /\ Ends(v, how).nb = v.nb /\ Ends(v, how).first = v.first
           /\ Ends(v, how).gave = v.gave /\ Ends(v, how).astray = v.astray
           /\ Ends(v, how).disk = v.disk
  BY DEF Ends, Volume

LEMMA TakeIn ==
    ASSUME NEW v \in Volume, v.nb # 0, v.first < NSector
    PROVE  LET w == NewBloc(v).v
           IN  /\ w \in Volume
               /\ v.gave => w = Ends(v, "given") /\ NewBloc(v).b = 0
               /\ ~v.gave =>
                     /\ w.nb = v.nb - 1 /\ w.first = v.first + 1 /\ w.end = v.end
                     /\ w.gave = v.gave /\ w.astray = v.astray
                     /\ NewBloc(v).b = v.first
                     /\ \A c \in Bloc : w.disk[c] =
                           IF c = v.first + 1 THEN v.disk[v.first]
                           ELSE IF c = 0 THEN Super(v.nb - 1, v.first + 1) ELSE v.disk[c]
<1> DEFINE run == [v EXCEPT !.nb = v.nb - 1, !.first = v.first + 1]
<1>1. v.nb - 1 \in Nat /\ v.first + 1 \in Bloc /\ v.disk[v.first] \in Sector /\ 0 \in Bloc
  BY VolumeType DEF Bloc
<1>2. /\ run \in Volume /\ run.nb = v.nb - 1 /\ run.first = v.first + 1 /\ run.end = v.end
      /\ run.gave = v.gave /\ run.astray = v.astray /\ run.disk = v.disk
  BY <1>1 DEF Volume
<1>3. Super(v.nb - 1, v.first + 1) \in Sector
  BY <1>1, SectorKinds
<1> HIDE DEF run
<1> DEFINE x == SaveSuper(run)
           y == Put(x, run.first, v.disk[v.first])
<1>4. /\ x \in Volume /\ Same(run, x)
      /\ \A c \in Bloc : x.disk[c] =
            IF c = 0 THEN Super(v.nb - 1, v.first + 1) ELSE v.disk[c]
  BY <1>1, <1>2, <1>3, PutIn DEF SaveSuper
<1> HIDE DEF x
<1>5. /\ y \in Volume /\ Same(x, y)
      /\ \A c \in Bloc : y.disk[c] = IF c = v.first + 1 THEN v.disk[v.first] ELSE x.disk[c]
  BY <1>1, <1>2, <1>4, PutIn
<1>6. CASE v.gave
  BY <1>6, EndsIn DEF NewBloc
<1>7. CASE ~v.gave
  <2>1. NewBloc(v) = [v |-> y, b |-> v.first]
    BY <1>7 DEF NewBloc, run, x
  <2> HIDE DEF y
  <2> QED
    BY <1>2, <1>4, <1>5, <1>7, <2>1 DEF Same
<1> QED
  BY <1>6, <1>7

-----------------------------------------------------------------------------
(* The places of an inode, on any volume.                                   *)

NameIn(v, b, k) == IF b # 0 /\ IsTable(v, b) THEN Entry(Table(v, b), k) ELSE 0
BlocAt(v, i, p) ==
    LET ino == v.disk[i]
    IN  CASE p[1] = "direct"   -> ino.direct[p[2]]
          [] p[1] = "indirect" -> ino.indirect
          [] p[1] = "double"   -> ino.double
          [] p[1] = "entry"    -> NameIn(v, ino.indirect, p[2])
          [] p[1] = "row"      -> NameIn(v, ino.double, p[2])
          [] p[1] = "leaf"     -> NameIn(v, NameIn(v, ino.double, Row(p[2])), Column(p[2]))

Direct(k) == <<"direct", k>>
AnEntry(k) == <<"entry", k>>
ARow(k) == <<"row", k>>
Leaf(f) == <<"leaf", f>>
Indirect == <<"indirect", 0>>
Double == <<"double", 0>>

LEMMA PlaceOf ==
    ASSUME NEW v, NEW i
    PROVE  /\ \A k : Direct(k)[1] = "direct" /\ Direct(k)[2] = k
                     /\ BlocAt(v, i, Direct(k)) = v.disk[i].direct[k]
           /\ \A k : AnEntry(k)[1] = "entry" /\ AnEntry(k)[2] = k
                     /\ BlocAt(v, i, AnEntry(k)) = NameIn(v, v.disk[i].indirect, k)
           /\ \A k : ARow(k)[1] = "row" /\ ARow(k)[2] = k
                     /\ BlocAt(v, i, ARow(k)) = NameIn(v, v.disk[i].double, k)
           /\ \A f : Leaf(f)[1] = "leaf" /\ Leaf(f)[2] = f
                     /\ BlocAt(v, i, Leaf(f))
                           = NameIn(v, NameIn(v, v.disk[i].double, Row(f)), Column(f))
           /\ Indirect[1] = "indirect" /\ BlocAt(v, i, Indirect) = v.disk[i].indirect
           /\ Double[1] = "double" /\ BlocAt(v, i, Double) = v.disk[i].double
  BY DEF Direct, AnEntry, ARow, Leaf, Indirect, Double, BlocAt

LEMMA PlacesAre ==
    /\ \A k \in 0 .. NB - 1 : Direct(k) \in Place /\ AnEntry(k) \in Place /\ ARow(k) \in Place
    /\ \A f \in 2 * NB .. F - 1 : Leaf(f) \in Place
    /\ Indirect \in Place /\ Double \in Place
  BY Zenon DEF Direct, AnEntry, ARow, Leaf, Indirect, Double, Place

LEMMA PlaceCases ==
    ASSUME NEW p \in Place
    PROVE  \/ \E k \in 0 .. NB - 1 : p = Direct(k)
           \/ \E k \in 0 .. NB - 1 : p = AnEntry(k)
           \/ \E k \in 0 .. NB - 1 : p = ARow(k)
           \/ \E f \in 2 * NB .. F - 1 : p = Leaf(f)
           \/ p = Indirect \/ p = Double
  BY DEF Direct, AnEntry, ARow, Leaf, Indirect, Double, Place

\* The tables of an inode.
Tables(v, i) ==
    {v.disk[i].indirect, v.disk[i].double}
        \cup {NameIn(v, v.disk[i].double, k) : k \in 0 .. NB - 1}

LEMMA NameSame ==
    ASSUME NEW v, NEW w, NEW b, NEW k, b # 0 => w.disk[b] = v.disk[b]
    PROVE  NameIn(w, b, k) = NameIn(v, b, k)
  BY DEF NameIn, IsTable, Table

\* An inode with the same names and the same tables has the same blocs.
LEMMA SamePlaces ==
    ASSUME NEW v, NEW w, NEW j,
           w.disk[j].direct = v.disk[j].direct, w.disk[j].indirect = v.disk[j].indirect,
           w.disk[j].double = v.disk[j].double,
           \A c \in Tables(v, j) : c # 0 => w.disk[c] = v.disk[c]
    PROVE  \A p \in Place : BlocAt(w, j, p) = BlocAt(v, j, p)
<1>1. \A k \in 0 .. NB - 1 :
          /\ NameIn(w, w.disk[j].indirect, k) = NameIn(v, v.disk[j].indirect, k)
          /\ NameIn(w, w.disk[j].double, k) = NameIn(v, v.disk[j].double, k)
  BY NameSame DEF Tables
<1>2. \A k, l \in 0 .. NB - 1 :
          NameIn(w, NameIn(w, w.disk[j].double, k), l)
             = NameIn(v, NameIn(v, v.disk[j].double, k), l)
  BY <1>1, NameSame DEF Tables
<1> SUFFICES ASSUME NEW p \in Place
             PROVE  BlocAt(w, j, p) = BlocAt(v, j, p)
  OBVIOUS
<1>3. ASSUME NEW f \in 2 * NB .. F - 1
      PROVE  BlocAt(w, j, Leaf(f)) = BlocAt(v, j, Leaf(f))
  BY <1>2, RowColumn, PlaceOf
<1> QED
  BY <1>1, <1>3, PlaceOf, PlaceCases

-----------------------------------------------------------------------------
(* What holds of a volume with the files I between two changes.  L is what  *)
(* was taken and is not named yet.                                          *)

\* The superbloc counts what was never taken; it is on the disk unless a write
\* found no bloc.
Counts(v) ==
    /\ IF v.gave THEN v.nb >= 1 ELSE v.nb + v.first = NSector /\ v.first >= 1
    /\ IF v.disk[0].kind = "super" THEN v.disk[0].nb = v.nb /\ v.disk[0].first = v.first
                                   ELSE v.nb = 0

Taken(v, b) == b \in 1 .. NSector - 1 /\ (b < v.first \/ v.gave)

Files(v, I) == \A i \in I : Taken(v, i) /\ v.disk[i] \in Inode

\* What a place may name.
NameOK(v, I, i, p, b) ==
    b # 0 => /\ Taken(v, b) /\ b \notin I /\ v.disk[b].kind = "bytes"
             /\ p[1] = "row" => b < W
             /\ p[1] \in {"direct", "leaf"} => p[2] < v.disk[i].taille

Names(v, I) == \A i \in I, p \in Place : NameOK(v, I, i, p, BlocAt(v, i, p))

Distinct(v, I) ==
    \A i, j \in I, p, q \in Place :
        BlocAt(v, i, p) # 0 /\ BlocAt(v, i, p) = BlocAt(v, j, q) => i = j /\ p = q

NotNamed(v, I, L) ==
    \A b \in L : /\ Taken(v, b) /\ b \notin I
                 /\ \A i \in I, p \in Place : BlocAt(v, i, p) # b

OneLevel(v, I) == \A i \in I : v.disk[i].double = 0
Complete(v, I, L) ==
    ~v.gave /\ OneLevel(v, I) =>
        \A b \in 1 .. v.first - 1 :
            b \in I \/ b \in L \/ \E i \in I, p \in Place : BlocAt(v, i, p) = b

\* The invariant of a volume.
Good(v, I, L) ==
    /\ v \in Volume /\ ~v.astray
    /\ Counts(v) /\ Files(v, I) /\ Names(v, I) /\ Distinct(v, I)
    /\ NotNamed(v, I, L) /\ Complete(v, I, L)

\* Of two volumes, a call later: nothing changes its name, and the first two
\* levels hold what they held.
Spot(f) == IF f < NB THEN Direct(f) ELSE IF f < 2 * NB THEN AnEntry(f - NB) ELSE Leaf(f)
At2(v, i, f) == BlocAt(v, i, Spot(f))
HeldAt(v, i, f) == IF At2(v, i, f) = 0 THEN Zeros ELSE Table(v, At2(v, i, f))

Keeps(v, w, I) ==
    /\ w.gave = v.gave /\ (v.nb = 0 => w.nb = 0)
    /\ \A i \in I : \A f \in 0 .. 2 * NB - 1 :
          At2(v, i, f) # 0 => At2(w, i, f) = At2(v, i, f)
    /\ \A i \in I : \A f \in 2 * NB .. F - 1 :
          At2(v, i, f) # 0 => At2(w, i, f) # 0 \/ w.nb = 0

Holds(v, w, I) == \A i \in I : \A f \in 0 .. 2 * NB - 1 : HeldAt(w, i, f) = HeldAt(v, i, f)

\* ... and with no bloc to give, no place gets a name.
NoMore(v, w, I) == \A i \in I : \A f \in 0 .. 2 * NB - 1 : At2(w, i, f) = At2(v, i, f)
Spares(v, w, I, b) == b = 0 => NoMore(v, w, I)
Starves(v, w, I) == v.nb = 0 => NoMore(v, w, I)

LEMMA KeepsOn ==
    ASSUME NEW u, NEW v, NEW w, NEW I, Keeps(u, v, I), Keeps(v, w, I)
    PROVE  Keeps(u, w, I)
  BY DEF Keeps

LEMMA HoldsOn ==
    ASSUME NEW u, NEW v, NEW w, NEW I, Holds(u, v, I), Holds(v, w, I)
    PROVE  Holds(u, w, I)
  BY DEF Holds

LEMMA SpotPlace ==
    ASSUME NEW f \in 0 .. F - 1
    PROVE  /\ Spot(f) \in Place
           /\ f < NB => Spot(f) = Direct(f) /\ Spot(f)[1] = "direct"
           /\ f \in NB .. 2 * NB - 1 => Spot(f) = AnEntry(f - NB) /\ Spot(f)[1] = "entry"
           /\ f >= 2 * NB => Spot(f) = Leaf(f) /\ Spot(f)[1] = "leaf"
<1>1. f < NB => f \in 0 .. NB - 1
  OBVIOUS
<1>2. f \in NB .. 2 * NB - 1 => f - NB \in 0 .. NB - 1 /\ ~(f < NB) /\ f < 2 * NB
  OBVIOUS
<1>3. f >= 2 * NB => f \in 2 * NB .. F - 1 /\ ~(f < NB) /\ ~(f < 2 * NB)
  OBVIOUS
<1>4. f < NB \/ f \in NB .. 2 * NB - 1 \/ f >= 2 * NB
  OBVIOUS
<1> QED
  BY <1>1, <1>2, <1>3, <1>4, PlacesAre, PlaceOf DEF Spot

LEMMA SpotsApart ==
    ASSUME NEW f \in 0 .. F - 1, NEW g \in 0 .. F - 1, Spot(f) = Spot(g)
    PROVE  f = g
<1>1. \A k \in Nat : Direct(k)[2] = k /\ AnEntry(k)[2] = k /\ Leaf(k)[2] = k
  BY PlaceOf
<1>2. f < NB \/ f \in NB .. 2 * NB - 1 \/ f >= 2 * NB
  OBVIOUS
<1>3. g < NB \/ g \in NB .. 2 * NB - 1 \/ g >= 2 * NB
  OBVIOUS
<1>4. Spot(f)[1] = Spot(g)[1] /\ Spot(f)[2] = Spot(g)[2]
  OBVIOUS
<1>5. Spot(f)[2] = IF f \in NB .. 2 * NB - 1 THEN f - NB ELSE f
  BY <1>1, <1>2, SpotPlace
<1>6. Spot(g)[2] = IF g \in NB .. 2 * NB - 1 THEN g - NB ELSE g
  BY <1>1, <1>3, SpotPlace
<1>7. /\ Spot(f)[1] = IF f < NB THEN "direct" ELSE IF f < 2 * NB THEN "entry" ELSE "leaf"
      /\ Spot(g)[1] = IF g < NB THEN "direct" ELSE IF g < 2 * NB THEN "entry" ELSE "leaf"
  BY <1>2, <1>3, SpotPlace
<1> HIDE DEF Spot
<1> QED
  BY <1>2, <1>3, <1>4, <1>5, <1>6, <1>7


LEMMA InodeType ==
    ASSUME NEW v, NEW I, NEW i \in I, Files(v, I)
    PROVE  /\ i \in 1 .. NSector - 1 /\ i \in Bloc /\ i # 0
           /\ v.disk[i].kind = "inode" /\ v.disk[i].taille \in 0 .. F
           /\ v.disk[i].direct \in [0 .. NB - 1 -> Bloc]
           /\ v.disk[i].indirect \in Bloc /\ v.disk[i].double \in Bloc
<1>1. v.disk[i] \in Inode /\ Taken(v, i)
  BY DEF Files
<1>2. i \in 1 .. NSector - 1 /\ i \in Bloc /\ i # 0
  BY <1>1 DEF Taken, Bloc
<1> QED
  BY <1>1, <1>2 DEF Inode

LEMMA NamedBloc ==
    ASSUME NEW v, NEW I, NEW L, Good(v, I, L), NEW i \in I, NEW p \in Place,
           BlocAt(v, i, p) # 0
    PROVE  LET b == BlocAt(v, i, p)
           IN  /\ b \in 1 .. NSector - 1 /\ b \in Bloc /\ Taken(v, b) /\ b \notin I /\ b \notin L
               /\ IsTable(v, b) /\ Table(v, b) \in Bytes /\ v.disk[b] = Data(Table(v, b))
               /\ p[1] = "row" => b < W
<1> DEFINE b == BlocAt(v, i, p)
<1>1. Taken(v, b) /\ b \notin I /\ v.disk[b].kind = "bytes" /\ (p[1] = "row" => b < W)
  BY DEF Good, Names, NameOK
<1>2. b \in Bloc /\ b \in 1 .. NSector - 1
  BY <1>1 DEF Taken, Bloc
<1>3. b \notin L
  BY DEF Good, NotNamed
<1>4. v.disk[b] \in Sector
  BY <1>2, VolumeType DEF Good
<1> QED
  BY <1>1, <1>2, <1>3, <1>4, SectorKinds DEF IsTable, Table

LEMMA TableNamed ==
    ASSUME NEW v, NEW i, NEW c \in Tables(v, i)
    PROVE  \E p \in Place : p[1] \in {"indirect", "double", "row"} /\ c = BlocAt(v, i, p)
  BY PlaceOf, PlacesAre DEF Tables

\* A table is nothing else, and nobody else's.
LEMMA TableApart ==
    ASSUME NEW v, NEW I, NEW L, Good(v, I, L), NEW i \in I, NEW c \in Tables(v, i), c # 0
    PROVE  /\ c \in 1 .. NSector - 1 /\ c \in Bloc /\ Taken(v, c) /\ c \notin I /\ c \notin L
           /\ IsTable(v, c) /\ Table(v, c) \in Bytes /\ v.disk[c] = Data(Table(v, c))
           /\ \A j \in I, q \in Place :
                 BlocAt(v, j, q) = c => j = i /\ q[1] \in {"indirect", "double", "row"}
           /\ \A j \in I : c \in Tables(v, j) => j = i
<1>1. PICK p \in Place : p[1] \in {"indirect", "double", "row"} /\ c = BlocAt(v, i, p)
  BY TableNamed
<1>2. \A j \in I, q \in Place : BlocAt(v, j, q) = c => j = i /\ q = p
  BY <1>1 DEF Good, Distinct
<1>3. \A j \in I : c \in Tables(v, j) => j = i
  BY <1>2, TableNamed
<1> QED
  BY <1>1, <1>2, <1>3, NamedBloc

-----------------------------------------------------------------------------
(* Changes that name nothing.                                               *)

LEMMA NamesKept ==
    ASSUME NEW v, NEW I, NEW L, Good(v, I, L), NEW w, w.gave = v.gave, w.first \in Bloc,
           w.first >= v.first, \A j \in I : w.disk[j] = v.disk[j],
           \A j \in I, p \in Place : BlocAt(w, j, p) = BlocAt(v, j, p),
           \A j \in I, p \in Place :
               BlocAt(v, j, p) # 0 => w.disk[BlocAt(v, j, p)].kind = "bytes"
    PROVE  /\ Files(w, I) /\ Names(w, I) /\ Distinct(w, I)
           /\ \A b : Taken(v, b) => Taken(w, b)
<1>1. \A b : Taken(v, b) => Taken(w, b)
  BY VolumeType DEF Taken, Good, Bloc
<1>2. Files(w, I)
  BY <1>1 DEF Files, Good
<1>3. Names(w, I)
  BY <1>1 DEF Names, NameOK, Good
<1>4. Distinct(w, I)
  BY DEF Distinct, Good
<1> QED
  BY <1>1, <1>2, <1>3, <1>4

LEMMA SamePlacesOf ==
    ASSUME NEW v, NEW w, NEW j, w.disk[j] = v.disk[j],
           \A c \in Tables(v, j) : c # 0 => w.disk[c] = v.disk[c]
    PROVE  \A p \in Place : BlocAt(w, j, p) = BlocAt(v, j, p)
<1>1. w.disk[j].direct = v.disk[j].direct /\ w.disk[j].indirect = v.disk[j].indirect
      /\ w.disk[j].double = v.disk[j].double
  OBVIOUS
<1> QED
  BY <1>1, SamePlaces

LEMMA SamePlacesAll ==
    ASSUME NEW v, NEW I, NEW w, \A j \in I : w.disk[j] = v.disk[j],
           \A j \in I : \A c \in Tables(v, j) : c # 0 => w.disk[c] = v.disk[c]
    PROVE  \A j \in I, p \in Place : BlocAt(w, j, p) = BlocAt(v, j, p)
<1>1. ASSUME NEW j \in I
      PROVE  \A p \in Place : BlocAt(w, j, p) = BlocAt(v, j, p)
  <2>1. w.disk[j] = v.disk[j] /\ \A c \in Tables(v, j) : c # 0 => w.disk[c] = v.disk[c]
    OBVIOUS
  <2> QED
    BY <2>1, SamePlacesOf
<1> QED
  BY <1>1

\* A bloc of data, or bloc 0 when there is no bloc.
LEMMA WriteData ==
    ASSUME NEW v, NEW I, NEW L, Good(v, I, L), NEW b \in Bloc, NEW t \in Bytes,
           b = 0 => v.nb = 0, b \notin I, b # 0 => \A j \in I : b \notin Tables(v, j)
    PROVE  LET w == Put(v, b, Data(t))
           IN  /\ Good(w, I, L) /\ Same(v, w) /\ Keeps(v, w, I)
               /\ \A c \in Bloc : w.disk[c] = IF c = b THEN Data(t) ELSE v.disk[c]
               /\ \A j \in I, p \in Place : BlocAt(w, j, p) = BlocAt(v, j, p)
               /\ \A j \in I, p \in Place : BlocAt(v, j, p) # 0 /\ BlocAt(v, j, p) # b =>
                     Table(w, BlocAt(v, j, p)) = Table(v, BlocAt(v, j, p))
               /\ \A j \in I, p \in Place : BlocAt(v, j, p) # 0 /\ BlocAt(v, j, p) = b =>
                     Table(w, BlocAt(v, j, p)) = t
<1> DEFINE w == Put(v, b, Data(t))
<1>1. /\ w \in Volume /\ Same(v, w)
      /\ \A c \in Bloc : w.disk[c] = IF c = b THEN Data(t) ELSE v.disk[c]
  <2>1. v \in Volume /\ Data(t) \in Sector
    BY SectorKinds DEF Good
  <2> QED
    BY <2>1, PutIn
<1> HIDE DEF w
<1>2. \A j \in I : w.disk[j] = v.disk[j]
  BY <1>1, InodeType DEF Good
<1>3. \A j \in I : \A c \in Tables(v, j) : c # 0 => w.disk[c] = v.disk[c]
  BY <1>1, TableApart
<1>4. \A j \in I, p \in Place : BlocAt(w, j, p) = BlocAt(v, j, p)
  BY <1>2, <1>3, SamePlacesAll
<1>5. \A j \in I, p \in Place : BlocAt(v, j, p) # 0 => w.disk[BlocAt(v, j, p)].kind = "bytes"
  BY <1>1, NamedBloc, SectorKinds DEF IsTable
<1>6. /\ Files(w, I) /\ Names(w, I) /\ Distinct(w, I)
      /\ \A c : Taken(v, c) => Taken(w, c)
  BY <1>1, <1>2, <1>4, <1>5, NamesKept, VolumeType DEF Same, Good, Bloc
<1>7. NotNamed(w, I, L)
  BY <1>4, <1>6 DEF NotNamed, Good
<1>8. Complete(w, I, L)
  BY <1>1, <1>2, <1>4 DEF Complete, OneLevel, Good, Same
<1>9. Counts(w)
  <2>1. 0 \in Bloc /\ Data(t).kind = "bytes"
    BY SectorKinds DEF Bloc
  <2> QED
    BY <1>1, <2>1 DEF Counts, Good, Same
<1>10. Keeps(v, w, I)
  <2>1. \A j \in I, f \in 0 .. F - 1 : At2(w, j, f) = At2(v, j, f)
    BY <1>4, SpotPlace DEF At2
  <2>2. \A f \in 2 * NB .. F - 1 : f \in 0 .. F - 1
    OBVIOUS
  <2> QED
    BY <1>1, <2>1, <2>2, Below2 DEF Keeps, Same
<1>11. \A j \in I, p \in Place : BlocAt(v, j, p) # 0 =>
           Table(w, BlocAt(v, j, p)) = IF BlocAt(v, j, p) = b THEN t
                                       ELSE Table(v, BlocAt(v, j, p))
  BY <1>1, NamedBloc, SectorKinds DEF Table
<1>12. ~w.astray
  BY <1>1 DEF Same, Good
<1> QED
  BY <1>1, <1>4, <1>6, <1>7, <1>8, <1>9, <1>10, <1>11, <1>12 DEF Good, w

\* new_bloc.
LEMMA Take ==
    ASSUME NEW v, NEW I, Good(v, I, {}), v.nb # 0, ~v.gave
    PROVE  LET n == NewBloc(v)
           IN  /\ Good(n.v, I, {n.b}) /\ Keeps(v, n.v, I) /\ Holds(v, n.v, I)
               /\ n.b # 0 /\ n.b \in Bloc /\ n.v.end = v.end /\ n.v.gave = v.gave
               /\ \A j \in I : n.v.disk[j] = v.disk[j]
               /\ \A j \in I, p \in Place : BlocAt(n.v, j, p) = BlocAt(v, j, p)
               /\ \A j \in I, p \in Place : BlocAt(v, j, p) # 0 =>
                     n.v.disk[BlocAt(v, j, p)] = v.disk[BlocAt(v, j, p)]
<1> DEFINE w == NewBloc(v).v
           b == NewBloc(v).b
<1>1. v.first >= 1 /\ v.first < NSector /\ v.nb + v.first = NSector /\ v.nb \in Nat
      /\ v.first \in 1 .. NSector - 1
  BY VolumeType DEF Good, Counts, Bloc
<1>2. /\ w \in Volume /\ w.nb = v.nb - 1 /\ w.first = v.first + 1 /\ w.end = v.end
      /\ w.gave = v.gave /\ w.astray = v.astray /\ b = v.first
      /\ \A c \in Bloc : w.disk[c] =
            IF c = v.first + 1 THEN v.disk[v.first]
            ELSE IF c = 0 THEN Super(v.nb - 1, v.first + 1) ELSE v.disk[c]
  BY <1>1, TakeIn DEF Good
<1> HIDE DEF w, b
<1>3. \A c \in Bloc : c # 0 /\ Taken(v, c) => w.disk[c] = v.disk[c]
  BY <1>1, <1>2 DEF Taken
<1>4. \A j \in I : w.disk[j] = v.disk[j]
  BY <1>3, InodeType DEF Good, Files
<1>5. \A j \in I : \A c \in Tables(v, j) : c # 0 => w.disk[c] = v.disk[c]
  BY <1>3, TableApart
<1>6. \A j \in I, p \in Place : BlocAt(w, j, p) = BlocAt(v, j, p)
  BY <1>4, <1>5, SamePlacesAll
<1>7. \A j \in I, p \in Place : BlocAt(v, j, p) # 0 =>
          w.disk[BlocAt(v, j, p)] = v.disk[BlocAt(v, j, p)]
  BY <1>3, NamedBloc
<1>8. \A j \in I, p \in Place : BlocAt(v, j, p) # 0 => w.disk[BlocAt(v, j, p)].kind = "bytes"
  BY <1>7, NamedBloc DEF IsTable
<1>9. /\ Files(w, I) /\ Names(w, I) /\ Distinct(w, I)
      /\ \A c : Taken(v, c) => Taken(w, c)
  <2>1. w.first \in Bloc /\ w.first >= v.first
    BY <1>1, <1>2 DEF Bloc
  <2> QED
    BY <1>2, <1>4, <1>6, <1>8, <2>1, NamesKept
<1>10. NotNamed(w, I, {b})
  <2>1. Taken(w, b)
    BY <1>1, <1>2 DEF Taken
  <2>2. b \notin I
    BY <1>1, <1>2 DEF Good, Files, Taken
  <2>3. \A i \in I, p \in Place : BlocAt(w, i, p) # b
    BY <1>1, <1>2, <1>6, NamedBloc DEF Taken
  <2> QED
    BY <2>1, <2>2, <2>3 DEF NotNamed
<1>11. Complete(w, I, {b})
  <2> SUFFICES ASSUME ~w.gave, OneLevel(w, I), NEW c \in 1 .. w.first - 1
               PROVE  c \in I \/ c = b \/ \E i \in I, p \in Place : BlocAt(w, i, p) = c
    BY DEF Complete
  <2>1. OneLevel(v, I) /\ ~v.gave
    BY <1>2, <1>4 DEF OneLevel
  <2>2. c = b \/ c \in 1 .. v.first - 1
    BY <1>1, <1>2
  <2> QED
    BY <1>6, <2>1, <2>2 DEF Complete, Good
<1>12. Counts(w)
  <2>1. 0 \in Bloc /\ 0 # v.first + 1 /\ v.nb - 1 \in Nat /\ v.first + 1 \in Bloc
    BY <1>1 DEF Bloc
  <2>2. w.disk[0] = Super(w.nb, w.first) /\ w.nb \in Nat /\ w.first \in Bloc
    BY <1>1, <1>2, <2>1
  <2>3. w.disk[0].kind = "super" /\ w.disk[0].nb = w.nb /\ w.disk[0].first = w.first
    BY <2>2, SectorKinds
  <2> QED
    BY <1>1, <1>2, <2>3 DEF Counts
<1>13. \A j \in I, f \in 0 .. F - 1 : At2(w, j, f) = At2(v, j, f)
  BY <1>6, SpotPlace DEF At2
<1>14. Keeps(v, w, I)
  <2>1. \A f \in 2 * NB .. F - 1 : f \in 0 .. F - 1
    OBVIOUS
  <2> QED
    BY <1>2, <1>13, <2>1, Below2 DEF Keeps
<1>15. Holds(v, w, I)
  BY <1>7, <1>13, Below2, SpotPlace DEF Holds, HeldAt, Table, At2
<1>16. ~w.astray
  BY <1>2 DEF Good
<1>17. b # 0 /\ b \in Bloc
  BY <1>1, <1>2 DEF Bloc
<1> QED
  BY <1>2, <1>4, <1>6, <1>7, <1>9, <1>10, <1>11, <1>12, <1>14, <1>15, <1>16, <1>17
     DEF Good, w, b

-----------------------------------------------------------------------------
(* A change of one name: place p of inode i names b, which is fresh and       *)
(* clean, or nothing when there was no bloc.                                  *)

Renames(v, w, I, i, p, b) ==
    /\ w \in Volume /\ Same(v, w)
    /\ w.disk[0] = v.disk[0] \/ (v.nb = 0 /\ w.disk[0].kind = "bytes")
    /\ \A j \in I : /\ w.disk[j] \in Inode /\ w.disk[j].taille >= v.disk[j].taille
                    /\ v.disk[j].double # 0 => w.disk[j].double # 0
    /\ \A j \in I, q \in Place :
          BlocAt(w, j, q) = IF j = i /\ q = p THEN b ELSE BlocAt(v, j, q)
    /\ \A j \in I, q \in Place : BlocAt(v, j, q) # 0 =>
          /\ w.disk[BlocAt(v, j, q)].kind = "bytes"
          /\ q[1] \in {"direct", "entry"} => w.disk[BlocAt(v, j, q)] = v.disk[BlocAt(v, j, q)]
    /\ b # 0 => /\ w.disk[b] = Data(Zeros)
                /\ p[1] = "row" => b < W
                /\ p[1] \in {"direct", "leaf"} => p[2] < w.disk[i].taille

LEMMA Renamed ==
    ASSUME NEW v, NEW I, NEW b, Good(v, I, {b} \ {0}), b = 0 => v.nb = 0,
           NEW i \in I, NEW p \in Place, NEW w, Renames(v, w, I, i, p, b),
           BlocAt(v, i, p) # 0 => p[1] = "leaf" /\ v.disk[i].double # 0
    PROVE  Good(w, I, {}) /\ Keeps(v, w, I) /\ Holds(v, w, I) /\ Spares(v, w, I, b)
<1>1. /\ w \in Volume /\ Same(v, w) /\ ~w.astray
      /\ \A c : Taken(w, c) <=> Taken(v, c)
  BY DEF Renames, Same, Taken, Good
<1>2. b # 0 => /\ Taken(v, b) /\ b \notin I
               /\ \A j \in I, q \in Place : BlocAt(v, j, q) # b
  BY DEF Good, NotNamed
<1>3. \A j \in I, q \in Place :
          BlocAt(w, j, q) = IF j = i /\ q = p THEN b ELSE BlocAt(v, j, q)
  BY DEF Renames
<1>4. Counts(w)
  BY <1>1 DEF Renames, Counts, Same, Good
<1>5. Files(w, I)
  BY <1>1 DEF Renames, Files, Good
<1>6. Names(w, I)
  <2> SUFFICES ASSUME NEW j \in I, NEW q \in Place
               PROVE  NameOK(w, I, j, q, BlocAt(w, j, q))
    BY DEF Names
  <2>1. CASE j = i /\ q = p
    <3>1. BlocAt(w, j, q) = b
      BY <1>3, <2>1
    <3>2. b # 0 => w.disk[b].kind = "bytes" /\ (p[1] = "row" => b < W)
                   /\ (p[1] \in {"direct", "leaf"} => p[2] < w.disk[i].taille)
      BY SectorKinds, NoEntries DEF Renames
    <3> QED
      BY <1>1, <1>2, <2>1, <3>1, <3>2 DEF NameOK
  <2>2. CASE ~(j = i /\ q = p)
    <3>1. BlocAt(w, j, q) = BlocAt(v, j, q)
      BY <1>3, <2>2
    <3>2. NameOK(v, I, j, q, BlocAt(v, j, q))
      BY DEF Good, Names
    <3>3. BlocAt(v, j, q) # 0 => w.disk[BlocAt(v, j, q)].kind = "bytes"
      BY DEF Renames
    <3>4. w.disk[j].taille >= v.disk[j].taille /\ w.disk[j].taille \in Int
          /\ v.disk[j].taille \in Int
      BY <1>5, InodeType DEF Renames, Good
    <3>5. q[1] \in {"direct", "leaf"} => q[2] \in Int
      BY PlaceCases, PlaceOf
    <3> QED
      BY <1>1, <3>1, <3>2, <3>3, <3>4, <3>5 DEF NameOK
  <2> QED
    BY <2>1, <2>2
<1>7. Distinct(w, I)
  BY <1>2, <1>3 DEF Distinct, Good
<1>8. NotNamed(w, I, {})
  BY DEF NotNamed
<1>9. Complete(w, I, {})
  <2> SUFFICES ASSUME ~w.gave, OneLevel(w, I), NEW c \in 1 .. w.first - 1
               PROVE  c \in I \/ \E j \in I, q \in Place : BlocAt(w, j, q) = c
    BY DEF Complete
  <2>1. ~v.gave /\ OneLevel(v, I) /\ c \in 1 .. v.first - 1
    BY <1>1 DEF OneLevel, Renames, Same
  <2>2. c \in I \/ c = b \/ \E j \in I, q \in Place : BlocAt(v, j, q) = c
    BY <2>1 DEF Complete, Good
  <2>3. BlocAt(v, i, p) = 0
    BY <2>1 DEF OneLevel
  <2>4. c # 0
    OBVIOUS
  <2> QED
    BY <1>3, <2>2, <2>3, <2>4
<1>10. \A j \in I, f \in 0 .. 2 * NB - 1 :
           /\ At2(w, j, f) = IF j = i /\ Spot(f) = p THEN b ELSE At2(v, j, f)
           /\ At2(v, j, f) # 0 => ~(j = i /\ Spot(f) = p)
           /\ At2(v, j, f) # 0 => w.disk[At2(v, j, f)] = v.disk[At2(v, j, f)]
  <2> SUFFICES ASSUME NEW j \in I, NEW f \in 0 .. 2 * NB - 1
               PROVE  /\ At2(w, j, f) = IF j = i /\ Spot(f) = p THEN b ELSE At2(v, j, f)
                      /\ At2(v, j, f) # 0 => ~(j = i /\ Spot(f) = p)
                      /\ At2(v, j, f) # 0 => w.disk[At2(v, j, f)] = v.disk[At2(v, j, f)]
    OBVIOUS
  <2>1. f \in 0 .. F - 1
    BY Below2
  <2>2. f < NB \/ f \in NB .. 2 * NB - 1
    OBVIOUS
  <2>3. Spot(f) \in Place /\ Spot(f)[1] \in {"direct", "entry"}
    BY <2>1, <2>2, SpotPlace
  <2> QED
    BY <1>3, <2>3 DEF At2, Renames
<1>11. Keeps(v, w, I)
  <2>1. \A j \in I, f \in 2 * NB .. F - 1 : At2(v, j, f) # 0 => At2(w, j, f) # 0 \/ w.nb = 0
    <3>1. \A f \in 2 * NB .. F - 1 : f \in 0 .. F - 1
      OBVIOUS
    <3> QED
      BY <1>1, <1>3, <3>1, SpotPlace DEF At2, Same
  <2>2. w.gave = v.gave /\ (v.nb = 0 => w.nb = 0)
    BY <1>1 DEF Same
  <2> QED
    BY <1>10, <2>1, <2>2 DEF Keeps
<1>12. Holds(v, w, I)
  <2>1. b # 0 => Table(w, b) = Zeros
    BY SectorKinds, NoEntries DEF Renames, Table
  <2> QED
    BY <1>10, <2>1 DEF Holds, HeldAt, Table
<1>13. Spares(v, w, I, b)
  BY <1>10 DEF Spares, NoMore
<1> QED
  BY <1>1, <1>4, <1>5, <1>6, <1>7, <1>8, <1>9, <1>11, <1>12, <1>13 DEF Good

\* What a change to inode i and the blocs X of its tables leaves alone.
OnlyChanges(v, w, i, b, X) ==
    /\ \A c \in X : c # 0 => w.disk[c].kind = "bytes"
    /\ \A c \in Bloc : c \notin {0, b, i} /\ c \notin X => w.disk[c] = v.disk[c]
Leaves(v, w, I, i, X) ==
    /\ \A j \in I : j # i =>
          w.disk[j] = v.disk[j] /\ \A q \in Place : BlocAt(w, j, q) = BlocAt(v, j, q)
    /\ \A c \in Tables(v, i) : c # 0 /\ c \notin X => w.disk[c] = v.disk[c]
    /\ \A j \in I, q \in Place : BlocAt(v, j, q) # 0 =>
          /\ w.disk[BlocAt(v, j, q)].kind = "bytes"
          /\ q[1] \in {"direct", "entry"} =>
                w.disk[BlocAt(v, j, q)] = v.disk[BlocAt(v, j, q)]

LEMMA Elsewhere ==
    ASSUME NEW v, NEW I, NEW b, Good(v, I, {b} \ {0}), NEW i \in I, NEW w,
           NEW X, X \subseteq Tables(v, i), OnlyChanges(v, w, i, b, X)
    PROVE  Leaves(v, w, I, i, X)
<1>1. /\ \A c \in X : c # 0 => w.disk[c].kind = "bytes"
      /\ \A c \in Bloc : c \notin {0, b, i} /\ c \notin X => w.disk[c] = v.disk[c]
  BY DEF OnlyChanges
<1>2. b # 0 => b \notin I /\ \A j \in I, q \in Place : BlocAt(v, j, q) # b
  BY DEF Good, NotNamed
<1>3. \A c \in X : c # 0 => c \notin I /\ \A j \in I : c \in Tables(v, j) => j = i
  BY TableApart
<1>4. \A j \in I : j # 0 /\ j \in Bloc /\ j # b
  BY <1>2, InodeType DEF Good
<1>5. \A j \in I : j # i => w.disk[j] = v.disk[j]
  BY <1>1, <1>3, <1>4
<1>6. \A j \in I : \A c \in Tables(v, j) : c # 0 => c \in Bloc /\ c \notin I /\ c # b
  BY <1>2, TableApart, TableNamed
<1>7. \A j \in I : \A c \in Tables(v, j) : c # 0 /\ c \notin X => w.disk[c] = v.disk[c]
  BY <1>1, <1>6
<1>8. \A j \in I : j # i => \A c \in Tables(v, j) : c # 0 => w.disk[c] = v.disk[c]
  BY <1>3, <1>7
<1>9. ASSUME NEW j \in I, j # i
      PROVE  \A q \in Place : BlocAt(w, j, q) = BlocAt(v, j, q)
  <2>1. w.disk[j] = v.disk[j] /\ \A c \in Tables(v, j) : c # 0 => w.disk[c] = v.disk[c]
    BY <1>5, <1>8, <1>9
  <2> QED
    BY <2>1, SamePlacesOf
<1>10. ASSUME NEW j \in I, NEW q \in Place, BlocAt(v, j, q) # 0
      PROVE  /\ w.disk[BlocAt(v, j, q)].kind = "bytes"
             /\ q[1] \in {"direct", "entry"} =>
                   w.disk[BlocAt(v, j, q)] = v.disk[BlocAt(v, j, q)]
  <2> DEFINE c == BlocAt(v, j, q)
  <2>1. c \in Bloc /\ c \notin I /\ c # b /\ v.disk[c].kind = "bytes" /\ c # 0
    BY <1>2, <1>10, NamedBloc DEF IsTable
  <2>2. c \notin X => w.disk[c] = v.disk[c]
    BY <1>1, <2>1
  <2>3. c \in X => ~(q[1] \in {"direct", "entry"})
    BY <2>1, TableApart
  <2> QED
    BY <1>1, <2>1, <2>2, <2>3
<1> QED
  BY <1>5, <1>7, <1>9, <1>10 DEF Leaves

\* The fields and tables of inode i, before and after a change of place p.
ChangesAt(v, w, i, p, b) ==
    /\ \A k \in 0 .. NB - 1 :
          /\ w.disk[i].direct[k] = IF p = Direct(k) THEN b ELSE v.disk[i].direct[k]
          /\ NameIn(w, w.disk[i].indirect, k)
                = IF p = AnEntry(k) THEN b ELSE NameIn(v, v.disk[i].indirect, k)
          /\ NameIn(w, w.disk[i].double, k)
                = IF p = ARow(k) THEN b ELSE NameIn(v, v.disk[i].double, k)
    /\ w.disk[i].indirect = IF p = Indirect THEN b ELSE v.disk[i].indirect
    /\ w.disk[i].double = IF p = Double THEN b ELSE v.disk[i].double
    /\ \A f \in 2 * NB .. F - 1 :
          NameIn(w, NameIn(w, w.disk[i].double, Row(f)), Column(f))
             = IF p = Leaf(f) THEN b
               ELSE NameIn(v, NameIn(v, v.disk[i].double, Row(f)), Column(f))

LEMMA PlacesFrom ==
    ASSUME NEW v, NEW w, NEW i, NEW p \in Place, NEW b, ChangesAt(v, w, i, p, b)
    PROVE  \A q \in Place : BlocAt(w, i, q) = IF q = p THEN b ELSE BlocAt(v, i, q)
<1> SUFFICES ASSUME NEW q \in Place
             PROVE  BlocAt(w, i, q) = IF q = p THEN b ELSE BlocAt(v, i, q)
  OBVIOUS
<1>1. CASE \E k \in 0 .. NB - 1 : q = Direct(k)
  BY <1>1, PlaceOf DEF ChangesAt
<1>2. CASE \E k \in 0 .. NB - 1 : q = AnEntry(k)
  BY <1>2, PlaceOf DEF ChangesAt
<1>3. CASE \E k \in 0 .. NB - 1 : q = ARow(k)
  BY <1>3, PlaceOf DEF ChangesAt
<1>4. CASE \E f \in 2 * NB .. F - 1 : q = Leaf(f)
  BY <1>4, PlaceOf DEF ChangesAt
<1>5. CASE q = Indirect \/ q = Double
  BY <1>5, PlaceOf DEF ChangesAt
<1> QED
  BY <1>1, <1>2, <1>3, <1>4, <1>5, PlaceCases

\* Places of different kinds are different.
LEMMA KindsApart ==
    /\ \A k, l : /\ Direct(k) # AnEntry(l) /\ Direct(k) # ARow(l) /\ Direct(k) # Leaf(l)
                 /\ AnEntry(k) # ARow(l) /\ AnEntry(k) # Leaf(l) /\ ARow(k) # Leaf(l)
                 /\ Direct(k) # Indirect /\ Direct(k) # Double /\ AnEntry(k) # Indirect
                 /\ AnEntry(k) # Double /\ ARow(k) # Indirect /\ ARow(k) # Double
                 /\ Leaf(k) # Indirect /\ Leaf(k) # Double
    /\ Indirect # Double
    /\ \A k, l : Direct(k) = Direct(l) \/ AnEntry(k) = AnEntry(l) \/ ARow(k) = ARow(l)
                 \/ Leaf(k) = Leaf(l) => k = l
  BY DEF Direct, AnEntry, ARow, Leaf, Indirect, Double

\* The entries of a table that is there.
LEMMA NameEntry ==
    ASSUME NEW v, NEW b, b # 0, NEW t \in Bytes, b \in Bloc, v.disk[b] = Data(t)
    PROVE  \A k : NameIn(v, b, k) = Entry(t, k)
  BY SectorKinds DEF NameIn, IsTable, Table

LEMMA GrownType ==
    ASSUME NEW n \in 0 .. F, NEW f \in 0 .. F - 1
    PROVE  Grown(n, f) \in 0 .. F /\ Grown(n, f) >= n /\ f < Grown(n, f)
  BY DEF Grown, F

-----------------------------------------------------------------------------
(* The six names.  Given(v, I, b): b was just given, or there was none.      *)

Given(v, I, b) == Good(v, I, {b} \ {0}) /\ b \in Bloc /\ (b = 0 => v.nb = 0)

LEMMA GivenBloc ==
    ASSUME NEW v, NEW I, NEW b, Given(v, I, b), NEW i \in I
    PROVE  /\ v \in Volume /\ i # b /\ i # 0 /\ i \in Bloc /\ 0 \in Bloc
           /\ v.disk[i] \in Inode /\ v.disk[i] \in Sector
           /\ \A c \in Tables(v, i) : c # 0 => c # b /\ c # i
           /\ b # 0 => b \in 1 .. NSector - 1
  BY InodeType, TableApart, SectorKinds DEF Given, Good, NotNamed, Files, Bloc, Taken

LEMMA ZeroTable ==
    ASSUME NEW v, NEW b \in Bloc, v.disk[b] = Data(Zeros)
    PROVE  \A k \in 0 .. NB - 1 : NameIn(v, b, k) = 0
  BY NameEntry, NoEntries DEF NameIn

\* What the six have in common.
Names1(v, w, I, i, p, b, X) ==
    /\ w \in Volume /\ Same(v, w)
    /\ X \subseteq Tables(v, i)
    /\ OnlyChanges(v, w, i, b, X) /\ ChangesAt(v, w, i, p, b)
    /\ w.disk[0] = v.disk[0] \/ (v.nb = 0 /\ w.disk[0].kind = "bytes")
    /\ w.disk[i] \in Inode /\ w.disk[i].taille >= v.disk[i].taille
    /\ b # 0 => /\ w.disk[b] = Data(Zeros)
                /\ p[1] = "row" => b < W
                /\ p[1] \in {"direct", "leaf"} => p[2] < w.disk[i].taille

LEMMA Naming ==
    ASSUME NEW v, NEW I, NEW b, Given(v, I, b), NEW i \in I, NEW p \in Place, NEW w, NEW X,
           Names1(v, w, I, i, p, b, X), v.disk[i].double # 0 => w.disk[i].double # 0,
           BlocAt(v, i, p) # 0 => p[1] = "leaf" /\ v.disk[i].double # 0
    PROVE  /\ Good(w, I, {}) /\ Keeps(v, w, I) /\ Holds(v, w, I) /\ Spares(v, w, I, b)
           /\ BlocAt(w, i, p) = b
<1>1. Good(v, I, {b} \ {0}) /\ (b = 0 => v.nb = 0)
  BY DEF Given
<1>2. Leaves(v, w, I, i, X)
  BY <1>1, Elsewhere DEF Names1
<1>3. \A q \in Place : BlocAt(w, i, q) = IF q = p THEN b ELSE BlocAt(v, i, q)
  BY PlacesFrom DEF Names1
<1>4. \A j \in I : /\ w.disk[j] \in Inode /\ w.disk[j].taille >= v.disk[j].taille
                   /\ v.disk[j].double # 0 => w.disk[j].double # 0
  <2>1. Files(v, I)
    BY <1>1 DEF Good
  <2>2. \A j \in I : v.disk[j] \in Inode /\ v.disk[j].taille \in 0 .. F
    BY <2>1, InodeType DEF Files
  <2>3. \A j \in I : j # i => w.disk[j] = v.disk[j]
    BY <1>2 DEF Leaves
  <2> QED
    BY <2>2, <2>3 DEF Names1
<1>5. \A j \in I, q \in Place :
          BlocAt(w, j, q) = IF j = i /\ q = p THEN b ELSE BlocAt(v, j, q)
  BY <1>2, <1>3 DEF Leaves
<1>6. Renames(v, w, I, i, p, b)
  BY <1>2, <1>4, <1>5 DEF Renames, Leaves, Names1
<1> QED
  BY <1>1, <1>3, <1>6, Renamed

DirectIn(ino, f, b) == [ino EXCEPT !.direct[f] = b, !.taille = Grown(@, f)]
IndirectIn(ino, f, b) == [ino EXCEPT !.indirect = b, !.taille = Grown(@, f)]

LEMMA NameDirect ==
    ASSUME NEW v, NEW I, NEW b, Given(v, I, b), NEW i \in I, NEW f \in 0 .. NB - 1,
           v.disk[i].direct[f] = 0
    PROVE  LET w == Clean(Put(v, i, DirectIn(v.disk[i], f, b)), b)
           IN  /\ Good(w, I, {}) /\ Keeps(v, w, I) /\ Holds(v, w, I)
               /\ Spares(v, w, I, b) /\ Same(v, w)
               /\ BlocAt(w, i, Direct(f)) = b
<1> DEFINE ino == v.disk[i]
           named == DirectIn(ino, f, b)
           x == Put(v, i, named)
           w == Clean(x, b)
           p == Direct(f)
<1>1. /\ v \in Volume /\ i # b /\ i # 0 /\ i \in Bloc /\ 0 \in Bloc /\ b \in Bloc
      /\ ino \in Inode /\ (b = 0 => v.nb = 0)
  BY GivenBloc DEF Given
<1>2. f \in 0 .. F - 1
  OBVIOUS
<1>3. Grown(ino.taille, f) \in 0 .. F /\ Grown(ino.taille, f) >= ino.taille
      /\ f < Grown(ino.taille, f)
  BY <1>1, <1>2, GrownType DEF Inode
<1>4. /\ named \in Inode /\ named.taille = Grown(ino.taille, f)
      /\ named.indirect = ino.indirect /\ named.double = ino.double
      /\ \A k \in 0 .. NB - 1 : named.direct[k] = IF k = f THEN b ELSE ino.direct[k]
  BY <1>1, <1>3 DEF Inode, DirectIn
<1>5. named \in Sector
  BY <1>4, SectorKinds
<1> HIDE DEF named
<1>6. x \in Volume /\ Same(v, x) /\ \A c \in Bloc : x.disk[c] = IF c = i THEN named ELSE v.disk[c]
  BY <1>1, <1>5, PutIn
<1> HIDE DEF x
<1>7. /\ w \in Volume /\ Same(v, w)
      /\ \A c \in Bloc : w.disk[c] = IF c = b THEN Data(Zeros) ELSE x.disk[c]
  BY <1>1, <1>6, CleanIn DEF Same
<1> HIDE DEF w
<1>8. w.disk[i] = named
  BY <1>1, <1>6, <1>7
<1>9. OnlyChanges(v, w, i, b, {})
  BY <1>6, <1>7 DEF OnlyChanges
<1>10. \A c \in Tables(v, i), k \in 0 .. NB - 1 : NameIn(w, c, k) = NameIn(v, c, k)
  <2>1. Leaves(v, w, I, i, {})
    BY <1>9, Elsewhere DEF Given
  <2> QED
    BY <2>1, NameSame DEF Leaves
<1>11. ChangesAt(v, w, i, p, b)
  <2>1. \A k \in 0 .. NB - 1 :
           /\ w.disk[i].direct[k] = IF p = Direct(k) THEN b ELSE v.disk[i].direct[k]
           /\ NameIn(w, w.disk[i].indirect, k) = NameIn(v, v.disk[i].indirect, k)
           /\ NameIn(w, w.disk[i].double, k) = NameIn(v, v.disk[i].double, k)
    BY <1>4, <1>8, <1>10, KindsApart DEF Tables
  <2>2. \A g \in 2 * NB .. F - 1 :
           NameIn(w, NameIn(w, w.disk[i].double, Row(g)), Column(g))
              = NameIn(v, NameIn(v, v.disk[i].double, Row(g)), Column(g))
    BY <1>10, <2>1, RowColumn DEF Tables
  <2>3. /\ p # Indirect /\ p # Double
        /\ \A k : p # AnEntry(k) /\ p # ARow(k) /\ p # Leaf(k)
    BY KindsApart
  <2>4. w.disk[i].indirect = v.disk[i].indirect /\ w.disk[i].double = v.disk[i].double
    BY <1>4, <1>8
  <2> HIDE DEF p
  <2> QED
    BY <2>1, <2>2, <2>3, <2>4 DEF ChangesAt
<1>12. Names1(v, w, I, i, p, b, {})
  <2>1. w.disk[0] = v.disk[0] \/ (v.nb = 0 /\ w.disk[0].kind = "bytes")
    BY <1>1, <1>6, <1>7, SectorKinds, NoEntries
  <2>2. b # 0 => /\ w.disk[b] = Data(Zeros)
                 /\ p[1] = "row" => b < W
                 /\ p[1] \in {"direct", "leaf"} => p[2] < w.disk[i].taille
    BY <1>1, <1>3, <1>4, <1>7, <1>8, PlaceOf
  <2>3. w.disk[i] \in Inode /\ w.disk[i].taille >= v.disk[i].taille
    BY <1>3, <1>4, <1>8
  <2> HIDE DEF p
  <2> QED
    BY <1>7, <1>9, <1>11, <2>1, <2>2, <2>3 DEF Names1
<1>13. p \in Place /\ p[1] # "leaf" /\ BlocAt(v, i, p) = 0
  BY PlacesAre, PlaceOf
<1>14. v.disk[i].double # 0 => w.disk[i].double # 0
  BY <1>4, <1>8
<1> HIDE DEF p
<1>15. Good(w, I, {}) /\ Keeps(v, w, I) /\ Holds(v, w, I)
       /\ Spares(v, w, I, b) /\ BlocAt(w, i, p) = b
  BY <1>12, <1>13, <1>14, Naming
<1> QED
  BY <1>7, <1>15 DEF p, w, x, named

LEMMA NameIndirect ==
    ASSUME NEW v, NEW I, NEW b, Given(v, I, b), NEW i \in I, NEW f \in 0 .. F - 1,
           v.disk[i].indirect = 0
    PROVE  LET w == Put(Clean(v, b), i, IndirectIn(v.disk[i], f, b))
           IN  /\ Good(w, I, {}) /\ Keeps(v, w, I) /\ Holds(v, w, I)
               /\ Spares(v, w, I, b) /\ Same(v, w)
               /\ BlocAt(w, i, Indirect) = b /\ w.disk[b] = Data(Zeros)
<1> DEFINE ino == v.disk[i]
           named == IndirectIn(ino, f, b)
           x == Clean(v, b)
           w == Put(x, i, named)
           p == Indirect
<1>1. /\ v \in Volume /\ i # b /\ i # 0 /\ i \in Bloc /\ 0 \in Bloc /\ b \in Bloc
      /\ ino \in Inode /\ (b = 0 => v.nb = 0)
  BY GivenBloc DEF Given
<1>2. Grown(ino.taille, f) \in 0 .. F /\ Grown(ino.taille, f) >= ino.taille
  BY <1>1, GrownType DEF Inode
<1>3. /\ named \in Inode /\ named.taille = Grown(ino.taille, f)
      /\ named.indirect = b /\ named.double = ino.double /\ named.direct = ino.direct
  BY <1>1, <1>2 DEF Inode, IndirectIn
<1>4. named \in Sector
  BY <1>3, SectorKinds
<1> HIDE DEF named
<1>5. /\ x \in Volume /\ Same(v, x)
      /\ \A c \in Bloc : x.disk[c] = IF c = b THEN Data(Zeros) ELSE v.disk[c]
  BY <1>1, CleanIn
<1> HIDE DEF x
<1>6. /\ w \in Volume /\ Same(v, w)
      /\ \A c \in Bloc : w.disk[c] = IF c = i THEN named ELSE x.disk[c]
  BY <1>1, <1>4, <1>5, PutIn DEF Same
<1> HIDE DEF w
<1>7. w.disk[i] = named /\ w.disk[b] = Data(Zeros)
  BY <1>1, <1>5, <1>6
<1>8. OnlyChanges(v, w, i, b, {})
  BY <1>5, <1>6 DEF OnlyChanges
<1>9. \A c \in Tables(v, i), k \in 0 .. NB - 1 : NameIn(w, c, k) = NameIn(v, c, k)
  <2>1. Leaves(v, w, I, i, {})
    BY <1>8, Elsewhere DEF Given
  <2> QED
    BY <2>1, NameSame DEF Leaves
<1>10. ChangesAt(v, w, i, p, b)
  <2>1. \A k \in 0 .. NB - 1 : NameIn(w, b, k) = 0
    BY <1>1, <1>7, ZeroTable
  <2>2. \A k \in 0 .. NB - 1 : NameIn(v, v.disk[i].indirect, k) = 0
    BY DEF NameIn
  <2>3. \A k \in 0 .. NB - 1 : NameIn(w, w.disk[i].double, k) = NameIn(v, v.disk[i].double, k)
    BY <1>3, <1>7, <1>9 DEF Tables
  <2>4. \A g \in 2 * NB .. F - 1 :
           NameIn(w, NameIn(w, w.disk[i].double, Row(g)), Column(g))
              = NameIn(v, NameIn(v, v.disk[i].double, Row(g)), Column(g))
    BY <1>9, <2>3, RowColumn DEF Tables
  <2>5. \A k : p # Direct(k) /\ p # AnEntry(k) /\ p # ARow(k) /\ p # Leaf(k)
    BY KindsApart
  <2>6. p = Indirect /\ p # Double
    BY KindsApart
  <2>7. w.disk[i].direct = v.disk[i].direct /\ w.disk[i].double = v.disk[i].double
        /\ w.disk[i].indirect = b
    BY <1>3, <1>7
  <2> HIDE DEF p
  <2> QED
    BY <2>1, <2>2, <2>3, <2>4, <2>5, <2>6, <2>7 DEF ChangesAt
<1>11. p \in Place /\ p[1] = "indirect" /\ BlocAt(v, i, p) = 0
  BY PlacesAre, PlaceOf
<1>12. Names1(v, w, I, i, p, b, {})
  <2>1. w.disk[0] = v.disk[0] \/ (v.nb = 0 /\ w.disk[0].kind = "bytes")
    BY <1>1, <1>5, <1>6, SectorKinds, NoEntries
  <2>2. w.disk[i] \in Inode /\ w.disk[i].taille >= v.disk[i].taille
    BY <1>2, <1>3, <1>7
  <2> HIDE DEF p
  <2> QED
    BY <1>6, <1>7, <1>8, <1>10, <1>11, <2>1, <2>2 DEF Names1
<1>13. v.disk[i].double # 0 => w.disk[i].double # 0
  BY <1>3, <1>7
<1> HIDE DEF p
<1>14. Good(w, I, {}) /\ Keeps(v, w, I) /\ Holds(v, w, I)
       /\ Spares(v, w, I, b) /\ BlocAt(w, i, p) = b
  BY <1>11, <1>12, <1>13, Naming
<1> QED
  BY <1>6, <1>7, <1>14 DEF p, w, x, named

LEMMA NameDouble ==
    ASSUME NEW v, NEW I, NEW b, Given(v, I, b), NEW i \in I, v.disk[i].double = 0
    PROVE  LET named == [v.disk[i] EXCEPT !.double = b]
               w == Put(Clean(v, b), i, named)
           IN  /\ Good(w, I, {}) /\ Keeps(v, w, I) /\ Holds(v, w, I)
               /\ Spares(v, w, I, b) /\ Same(v, w)
               /\ BlocAt(w, i, Double) = b /\ w.disk[b] = Data(Zeros)
<1> DEFINE ino == v.disk[i]
           named == [ino EXCEPT !.double = b]
           x == Clean(v, b)
           w == Put(x, i, named)
           p == Double
<1>1. /\ v \in Volume /\ i # b /\ i # 0 /\ i \in Bloc /\ 0 \in Bloc /\ b \in Bloc
      /\ ino \in Inode /\ (b = 0 => v.nb = 0)
  BY GivenBloc DEF Given
<1>2. /\ named \in Inode /\ named.taille = ino.taille /\ ino.taille \in 0 .. F
      /\ named.indirect = ino.indirect /\ named.double = b /\ named.direct = ino.direct
  BY <1>1 DEF Inode
<1>3. named \in Sector
  BY <1>2, SectorKinds
<1> HIDE DEF named
<1>4. /\ x \in Volume /\ Same(v, x)
      /\ \A c \in Bloc : x.disk[c] = IF c = b THEN Data(Zeros) ELSE v.disk[c]
  BY <1>1, CleanIn
<1> HIDE DEF x
<1>5. /\ w \in Volume /\ Same(v, w)
      /\ \A c \in Bloc : w.disk[c] = IF c = i THEN named ELSE x.disk[c]
  BY <1>1, <1>3, <1>4, PutIn DEF Same
<1> HIDE DEF w
<1>6. w.disk[i] = named /\ w.disk[b] = Data(Zeros)
  BY <1>1, <1>4, <1>5
<1>7. OnlyChanges(v, w, i, b, {})
  BY <1>4, <1>5 DEF OnlyChanges
<1>8. \A c \in Tables(v, i), k \in 0 .. NB - 1 : NameIn(w, c, k) = NameIn(v, c, k)
  <2>1. Leaves(v, w, I, i, {})
    BY <1>7, Elsewhere DEF Given
  <2> QED
    BY <2>1, NameSame DEF Leaves
<1>9. ChangesAt(v, w, i, p, b)
  <2>1. \A k \in 0 .. NB - 1 : NameIn(w, b, k) = 0
    BY <1>1, <1>6, ZeroTable
  <2>2. \A k : NameIn(v, v.disk[i].double, k) = 0 /\ NameIn(v, 0, k) = 0 /\ NameIn(w, 0, k) = 0
    BY DEF NameIn
  <2>3. \A k \in 0 .. NB - 1 :
           NameIn(w, w.disk[i].indirect, k) = NameIn(v, v.disk[i].indirect, k)
    BY <1>2, <1>6, <1>8 DEF Tables
  <2>4. \A g \in 2 * NB .. F - 1 :
           /\ NameIn(w, NameIn(w, b, Row(g)), Column(g)) = 0
           /\ NameIn(v, NameIn(v, v.disk[i].double, Row(g)), Column(g)) = 0
    BY <2>1, <2>2, RowColumn
  <2>5. \A k : p # Direct(k) /\ p # AnEntry(k) /\ p # ARow(k) /\ p # Leaf(k)
    BY KindsApart
  <2>6. p = Double /\ p # Indirect
    BY KindsApart
  <2>7. w.disk[i].direct = v.disk[i].direct /\ w.disk[i].indirect = v.disk[i].indirect
        /\ w.disk[i].double = b
    BY <1>2, <1>6
  <2> HIDE DEF p
  <2> QED
    BY <2>1, <2>2, <2>3, <2>4, <2>5, <2>6, <2>7 DEF ChangesAt
<1>10. p \in Place /\ p[1] = "double" /\ BlocAt(v, i, p) = 0
  BY PlacesAre, PlaceOf
<1>11. Names1(v, w, I, i, p, b, {})
  <2>1. w.disk[0] = v.disk[0] \/ (v.nb = 0 /\ w.disk[0].kind = "bytes")
    BY <1>1, <1>4, <1>5, SectorKinds, NoEntries
  <2>2. w.disk[i] \in Inode /\ w.disk[i].taille >= v.disk[i].taille
    BY <1>2, <1>6
  <2> HIDE DEF p
  <2> QED
    BY <1>5, <1>6, <1>7, <1>9, <1>10, <2>1, <2>2 DEF Names1
<1> HIDE DEF p
<1>12. Good(w, I, {}) /\ Keeps(v, w, I) /\ Holds(v, w, I)
       /\ Spares(v, w, I, b) /\ BlocAt(w, i, p) = b
  BY <1>10, <1>11, Naming
<1> QED
  BY <1>5, <1>6, <1>12 DEF p, w, x, named

LEMMA TablesDistinct ==
    ASSUME NEW v, NEW I, NEW L, Good(v, I, L), NEW i \in I
    PROVE  LET ind == v.disk[i].indirect
               dbl == v.disk[i].double
           IN  /\ ind # 0 => ind # dbl /\ \A k \in 0 .. NB - 1 : NameIn(v, dbl, k) # ind
               /\ dbl # 0 => \A k \in 0 .. NB - 1 : NameIn(v, dbl, k) # dbl
               /\ \A k, l \in 0 .. NB - 1 : NameIn(v, dbl, k) # 0 /\ k # l =>
                     NameIn(v, dbl, k) # NameIn(v, dbl, l)
<1>1. \A p, q \in Place :
          BlocAt(v, i, p) # 0 /\ BlocAt(v, i, p) = BlocAt(v, i, q) => p = q
  BY DEF Good, Distinct
<1>2. /\ Indirect \in Place /\ BlocAt(v, i, Indirect) = v.disk[i].indirect
      /\ Double \in Place /\ BlocAt(v, i, Double) = v.disk[i].double
      /\ \A k \in 0 .. NB - 1 : ARow(k) \in Place
                                /\ BlocAt(v, i, ARow(k)) = NameIn(v, v.disk[i].double, k)
  BY PlaceOf, PlacesAre
<1>3. Indirect # Double /\ \A k, l : /\ ARow(k) # Indirect /\ ARow(k) # Double
                                     /\ ARow(k) = ARow(l) => k = l
  BY KindsApart
<1> QED
  BY <1>1, <1>2, <1>3

LEMMA NameAnEntry ==
    ASSUME NEW v, NEW I, NEW b, Given(v, I, b), NEW i \in I, NEW k \in 0 .. NB - 1,
           v.disk[i].indirect # 0, Entry(Table(v, v.disk[i].indirect), k) = 0
    PROVE  LET t == v.disk[i].indirect
               w == Clean(Put(v, t, Data(WithEntry(Table(v, t), k, b))), b)
           IN  /\ Good(w, I, {}) /\ Keeps(v, w, I) /\ Holds(v, w, I)
               /\ Spares(v, w, I, b) /\ Same(v, w)
               /\ BlocAt(w, i, AnEntry(k)) = b
<1> DEFINE ino == v.disk[i]
           t == v.disk[i].indirect
           bytes == Table(v, t)
           new == WithEntry(bytes, k, b)
           x == Put(v, t, Data(new))
           w == Clean(x, b)
           p == AnEntry(k)
<1>1. /\ v \in Volume /\ i # b /\ i # 0 /\ i \in Bloc /\ 0 \in Bloc /\ b \in Bloc
      /\ ino \in Inode /\ (b = 0 => v.nb = 0) /\ Good(v, I, {b} \ {0})
  BY GivenBloc DEF Given
<1>2. t # 0 /\ t \in Tables(v, i)
  BY DEF Tables
<1>3. /\ t \in Bloc /\ t # b /\ t # i /\ bytes \in Bytes /\ v.disk[t] = Data(bytes)
  <2>1. t \in Bloc /\ bytes \in Bytes /\ v.disk[t] = Data(bytes)
    BY <1>1, <1>2, TableApart
  <2> QED
    BY <1>1, <1>2, <2>1, GivenBloc
<1>4. /\ new \in Bytes /\ Entry(new, k) = b
      /\ \A l \in 0 .. NB - 1 : l # k => Entry(new, l) = Entry(bytes, l)
  BY <1>1, <1>3, EntryWritten
<1>5. Data(new) \in Sector /\ Data(new).kind = "bytes"
  BY <1>4, SectorKinds
<1> HIDE DEF t, bytes, new
<1>6. /\ x \in Volume /\ Same(v, x)
      /\ \A c \in Bloc : x.disk[c] = IF c = t THEN Data(new) ELSE v.disk[c]
  BY <1>1, <1>3, <1>5, PutIn
<1> HIDE DEF x
<1>7. /\ w \in Volume /\ Same(v, w)
      /\ \A c \in Bloc : w.disk[c] = IF c = b THEN Data(Zeros) ELSE x.disk[c]
  BY <1>1, <1>6, CleanIn DEF Same
<1> HIDE DEF w
<1>8. w.disk[i] = ino /\ w.disk[t] = Data(new) /\ w.disk[b] = Data(Zeros)
  BY <1>1, <1>3, <1>6, <1>7
<1>9. OnlyChanges(v, w, i, b, {t})
  BY <1>3, <1>5, <1>6, <1>7, <1>8 DEF OnlyChanges
<1>10. \A c \in Tables(v, i), l \in 0 .. NB - 1 : c # t => NameIn(w, c, l) = NameIn(v, c, l)
  <2>1. Leaves(v, w, I, i, {t})
    BY <1>1, <1>2, <1>9, Elsewhere
  <2> QED
    BY <2>1, NameSame DEF Leaves
<1>11. ChangesAt(v, w, i, p, b)
  <2>1. \A l \in 0 .. NB - 1 : NameIn(w, t, l) = IF l = k THEN b ELSE NameIn(v, t, l)
    BY <1>2, <1>3, <1>4, <1>8, NameEntry
  <2>2. t # ino.double /\ \A l \in 0 .. NB - 1 : NameIn(v, ino.double, l) # t
    BY <1>1, <1>2, TablesDistinct DEF t
  <2>3. \A l \in 0 .. NB - 1 : NameIn(w, ino.double, l) = NameIn(v, ino.double, l)
    BY <1>10, <2>2 DEF Tables
  <2>4. \A g \in 2 * NB .. F - 1 :
           NameIn(w, NameIn(w, ino.double, Row(g)), Column(g))
              = NameIn(v, NameIn(v, ino.double, Row(g)), Column(g))
    BY <1>10, <2>2, <2>3, RowColumn DEF Tables
  <2>5. /\ p # Indirect /\ p # Double
        /\ \A l : /\ p # Direct(l) /\ p # ARow(l) /\ p # Leaf(l)
                  /\ p = AnEntry(l) <=> l = k
    BY KindsApart
  <2> HIDE DEF p
  <2> QED
    BY <1>8, <2>1, <2>3, <2>4, <2>5 DEF ChangesAt, t
<1>12. p \in Place /\ p[1] = "entry"
  BY PlacesAre, PlaceOf
<1>13. BlocAt(v, i, p) = 0
  <2>1. NameIn(v, t, k) = Entry(bytes, k)
    BY <1>2, <1>3, NameEntry
  <2> QED
    BY <2>1, PlaceOf DEF t, bytes
<1>14. Names1(v, w, I, i, p, b, {t})
  <2>1. w.disk[0] = v.disk[0] \/ (v.nb = 0 /\ w.disk[0].kind = "bytes")
    BY <1>1, <1>2, <1>6, <1>7, SectorKinds, NoEntries
  <2>2. w.disk[i] \in Inode /\ w.disk[i].taille >= v.disk[i].taille
    BY <1>1, <1>8 DEF Inode
  <2> HIDE DEF p
  <2> QED
    BY <1>2, <1>7, <1>8, <1>9, <1>11, <1>12, <2>1, <2>2 DEF Names1
<1> HIDE DEF p
<1>15. Good(w, I, {}) /\ Keeps(v, w, I) /\ Holds(v, w, I)
       /\ Spares(v, w, I, b) /\ BlocAt(w, i, p) = b
  BY <1>8, <1>12, <1>13, <1>14, Naming
<1> QED
  BY <1>7, <1>15 DEF p, w, x, new, bytes, t

LEMMA NameRow ==
    ASSUME NEW v, NEW I, NEW b, Given(v, I, b), NEW i \in I, NEW k \in 0 .. NB - 1, b < W,
           v.disk[i].double # 0, Entry(Table(v, v.disk[i].double), k) = 0
    PROVE  LET t == v.disk[i].double
               w == Put(Clean(v, b), t, Data(WithEntry(Table(v, t), k, b)))
           IN  /\ Good(w, I, {}) /\ Keeps(v, w, I) /\ Holds(v, w, I)
               /\ Spares(v, w, I, b) /\ Same(v, w)
               /\ BlocAt(w, i, ARow(k)) = b /\ w.disk[b] = Data(Zeros)
<1> DEFINE ino == v.disk[i]
           t == v.disk[i].double
           bytes == Table(v, t)
           new == WithEntry(bytes, k, b)
           x == Clean(v, b)
           w == Put(x, t, Data(new))
           p == ARow(k)
<1>1. /\ v \in Volume /\ i # b /\ i # 0 /\ i \in Bloc /\ 0 \in Bloc /\ b \in Bloc
      /\ ino \in Inode /\ (b = 0 => v.nb = 0) /\ Good(v, I, {b} \ {0})
  BY GivenBloc DEF Given
<1>2. t # 0 /\ t \in Tables(v, i)
  BY DEF Tables
<1>3. /\ t \in Bloc /\ t # b /\ t # i /\ bytes \in Bytes /\ v.disk[t] = Data(bytes)
  <2>1. t \in Bloc /\ bytes \in Bytes /\ v.disk[t] = Data(bytes)
    BY <1>1, <1>2, TableApart
  <2> QED
    BY <1>1, <1>2, <2>1, GivenBloc
<1>4. /\ new \in Bytes /\ Entry(new, k) = b
      /\ \A l \in 0 .. NB - 1 : l # k => Entry(new, l) = Entry(bytes, l)
  BY <1>1, <1>3, EntryWritten
<1>5. Data(new) \in Sector /\ Data(new).kind = "bytes"
  BY <1>4, SectorKinds
<1>6. Entry(bytes, k) = 0
  OBVIOUS
<1> HIDE DEF t, bytes, new
<1>7. /\ x \in Volume /\ Same(v, x)
      /\ \A c \in Bloc : x.disk[c] = IF c = b THEN Data(Zeros) ELSE v.disk[c]
  BY <1>1, CleanIn
<1> HIDE DEF x
<1>8. /\ w \in Volume /\ Same(v, w)
      /\ \A c \in Bloc : w.disk[c] = IF c = t THEN Data(new) ELSE x.disk[c]
  BY <1>1, <1>3, <1>5, <1>7, PutIn DEF Same
<1> HIDE DEF w
<1>9. w.disk[i] = ino /\ w.disk[t] = Data(new) /\ w.disk[b] = Data(Zeros)
  BY <1>1, <1>3, <1>7, <1>8
<1>10. OnlyChanges(v, w, i, b, {t})
  BY <1>3, <1>5, <1>7, <1>8, <1>9 DEF OnlyChanges
<1>11. \A c \in Tables(v, i), l \in 0 .. NB - 1 : c # t => NameIn(w, c, l) = NameIn(v, c, l)
  <2>1. Leaves(v, w, I, i, {t})
    BY <1>1, <1>2, <1>10, Elsewhere
  <2> QED
    BY <2>1, NameSame DEF Leaves
<1>12. NameIn(v, t, k) = 0
  BY <1>2, <1>3, <1>6, NameEntry
<1>13. ChangesAt(v, w, i, p, b)
  <2>1. \A l \in 0 .. NB - 1 : NameIn(w, t, l) = IF l = k THEN b ELSE NameIn(v, t, l)
    BY <1>2, <1>3, <1>4, <1>9, NameEntry
  <2>2. /\ ino.indirect # t /\ \A l \in 0 .. NB - 1 : NameIn(v, t, l) # t
    BY <1>1, <1>2, TablesDistinct DEF t
  <2>3. \A l \in 0 .. NB - 1 : NameIn(w, ino.indirect, l) = NameIn(v, ino.indirect, l)
    BY <1>11, <2>2 DEF Tables
  <2>4. \A l \in 0 .. NB - 1 : NameIn(w, b, l) = 0 /\ NameIn(v, 0, l) = 0
    BY <1>1, <1>9, ZeroTable DEF NameIn
  <2>5. \A l, m \in 0 .. NB - 1 : NameIn(w, NameIn(w, t, l), m) = NameIn(v, NameIn(v, t, l), m)
    BY <1>11, <1>12, <2>1, <2>2, <2>4 DEF Tables, t
  <2>6. \A g \in 2 * NB .. F - 1 :
           NameIn(w, NameIn(w, t, Row(g)), Column(g)) = NameIn(v, NameIn(v, t, Row(g)), Column(g))
    BY <2>5, RowColumn
  <2>7. /\ p # Indirect /\ p # Double
        /\ \A l : /\ p # Direct(l) /\ p # AnEntry(l) /\ p # Leaf(l)
                  /\ p = ARow(l) <=> l = k
    BY KindsApart
  <2> HIDE DEF p
  <2> QED
    BY <1>9, <2>1, <2>3, <2>6, <2>7 DEF ChangesAt, t
<1>14. p \in Place /\ p[1] = "row"
  BY PlacesAre, PlaceOf
<1>15. BlocAt(v, i, p) = 0
  BY <1>12, PlaceOf DEF t
<1>16. Names1(v, w, I, i, p, b, {t})
  <2>1. w.disk[0] = v.disk[0] \/ (v.nb = 0 /\ w.disk[0].kind = "bytes")
    BY <1>1, <1>2, <1>7, <1>8, SectorKinds, NoEntries
  <2>2. w.disk[i] \in Inode /\ w.disk[i].taille >= v.disk[i].taille
    BY <1>1, <1>9 DEF Inode
  <2> HIDE DEF p
  <2> QED
    BY <1>2, <1>8, <1>9, <1>10, <1>13, <1>14, <2>1, <2>2 DEF Names1
<1> HIDE DEF p
<1>17. Good(w, I, {}) /\ Keeps(v, w, I) /\ Holds(v, w, I)
       /\ Spares(v, w, I, b) /\ BlocAt(w, i, p) = b
  BY <1>9, <1>14, <1>15, <1>16, Naming
<1> QED
  BY <1>8, <1>9, <1>17 DEF p, w, x, new, bytes, t

GrownTo(ino, f) == [ino EXCEPT !.taille = Grown(@, f)]

LEMMA NameLeaf ==
    ASSUME NEW v, NEW I, NEW b, Given(v, I, b), NEW i \in I, NEW f \in 2 * NB .. F - 1,
           NameIn(v, v.disk[i].double, Row(f)) # 0
    PROVE  LET t == NameIn(v, v.disk[i].double, Row(f))
               named == GrownTo(v.disk[i], f)
               new == WithEntry(Table(v, t), Column(f), b)
               w == Clean(Put(Put(Clean(v, b), i, named), t, Data(new)), b)
           IN  /\ Good(w, I, {}) /\ Keeps(v, w, I) /\ Holds(v, w, I)
               /\ Spares(v, w, I, b) /\ Same(v, w)
               /\ BlocAt(w, i, Leaf(f)) = b
<1> DEFINE ino == v.disk[i]
           dbl == v.disk[i].double
           t == NameIn(v, dbl, Row(f))
           k == Column(f)
           bytes == Table(v, t)
           new == WithEntry(bytes, k, b)
           named == GrownTo(ino, f)
           x == Clean(v, b)
           y == Put(x, i, named)
           z == Put(y, t, Data(new))
           w == Clean(z, b)
           p == Leaf(f)
<1>1. /\ v \in Volume /\ i # b /\ i # 0 /\ i \in Bloc /\ 0 \in Bloc /\ b \in Bloc
      /\ ino \in Inode /\ (b = 0 => v.nb = 0) /\ Good(v, I, {b} \ {0})
  BY GivenBloc DEF Given
<1>2. t # 0 /\ t \in Tables(v, i) /\ dbl # 0 /\ dbl \in Tables(v, i)
      /\ Row(f) \in 0 .. NB - 1 /\ k \in 0 .. NB - 1
  BY RowColumn DEF Tables, NameIn
<1>3. /\ t \in Bloc /\ t # b /\ t # i /\ bytes \in Bytes /\ v.disk[t] = Data(bytes)
  <2>1. t \in Bloc /\ bytes \in Bytes /\ v.disk[t] = Data(bytes)
    BY <1>1, <1>2, TableApart
  <2> QED
    BY <1>1, <1>2, <2>1, GivenBloc
<1>4. /\ new \in Bytes /\ Entry(new, k) = b
      /\ \A l \in 0 .. NB - 1 : l # k => Entry(new, l) = Entry(bytes, l)
  BY <1>1, <1>2, <1>3, EntryWritten
<1>5. Data(new) \in Sector /\ Data(new).kind = "bytes"
  BY <1>4, SectorKinds
<1>6. t # dbl /\ t # ino.indirect
      /\ \A l \in 0 .. NB - 1 : l # Row(f) => NameIn(v, dbl, l) # t
  BY <1>1, <1>2, TablesDistinct
<1>7. Grown(ino.taille, f) \in 0 .. F /\ Grown(ino.taille, f) >= ino.taille
      /\ f < Grown(ino.taille, f)
  BY <1>1, GrownType DEF Inode
<1>8. /\ named \in Inode /\ named.taille = Grown(ino.taille, f)
      /\ named.indirect = ino.indirect /\ named.double = ino.double
      /\ named.direct = ino.direct
  BY <1>1, <1>7 DEF Inode, GrownTo
<1>9. named \in Sector
  BY <1>8, SectorKinds
<1>10. t = NameIn(v, ino.double, Row(f)) /\ dbl = ino.double
  OBVIOUS
<1> HIDE DEF t, dbl, k, bytes, new, named
<1>11. /\ x \in Volume /\ Same(v, x)
       /\ \A c \in Bloc : x.disk[c] = IF c = b THEN Data(Zeros) ELSE v.disk[c]
  BY <1>1, CleanIn
<1> HIDE DEF x
<1>12. /\ y \in Volume /\ Same(v, y)
       /\ \A c \in Bloc : y.disk[c] = IF c = i THEN named ELSE x.disk[c]
  BY <1>1, <1>9, <1>11, PutIn DEF Same
<1> HIDE DEF y
<1>13. /\ z \in Volume /\ Same(v, z)
       /\ \A c \in Bloc : z.disk[c] = IF c = t THEN Data(new) ELSE y.disk[c]
  BY <1>3, <1>5, <1>12, PutIn DEF Same
<1> HIDE DEF z
<1>14. /\ w \in Volume /\ Same(v, w)
       /\ \A c \in Bloc : w.disk[c] = IF c = b THEN Data(Zeros) ELSE z.disk[c]
  BY <1>1, <1>13, CleanIn DEF Same
<1> HIDE DEF w
<1>15. w.disk[i] = named /\ w.disk[t] = Data(new) /\ w.disk[b] = Data(Zeros)
  BY <1>1, <1>3, <1>12, <1>13, <1>14
<1>16. \A c \in Bloc : c \notin {0, b, i, t} => w.disk[c] = v.disk[c]
  BY <1>11, <1>12, <1>13, <1>14
<1>17. OnlyChanges(v, w, i, b, {t})
  BY <1>5, <1>15, <1>16 DEF OnlyChanges
<1>18. \A c \in Tables(v, i), l \in 0 .. NB - 1 : c # t => NameIn(w, c, l) = NameIn(v, c, l)
  <2>1. Leaves(v, w, I, i, {t})
    BY <1>1, <1>2, <1>17, Elsewhere
  <2> QED
    BY <2>1, NameSame DEF Leaves
<1>19. ChangesAt(v, w, i, p, b)
  <2>1. \A l \in 0 .. NB - 1 : NameIn(w, t, l) = IF l = k THEN b ELSE NameIn(v, t, l)
    BY <1>2, <1>3, <1>4, <1>15, NameEntry
  <2>2. \A l \in 0 .. NB - 1 : NameIn(w, ino.indirect, l) = NameIn(v, ino.indirect, l)
    BY <1>6, <1>18 DEF Tables
  <2>3. \A l \in 0 .. NB - 1 : NameIn(w, dbl, l) = NameIn(v, dbl, l)
    BY <1>2, <1>6, <1>18
  <2>4. \A l, m \in 0 .. NB - 1 :
           NameIn(w, NameIn(w, dbl, l), m) = IF l = Row(f) /\ m = k THEN b
                                         ELSE NameIn(v, NameIn(v, dbl, l), m)
    BY <1>2, <1>6, <1>10, <1>18, <2>1, <2>3 DEF Tables
  <2>5. ASSUME NEW g \in 2 * NB .. F - 1
        PROVE  NameIn(w, NameIn(w, dbl, Row(g)), Column(g))
                  = IF p = Leaf(g) THEN b ELSE NameIn(v, NameIn(v, dbl, Row(g)), Column(g))
    <3>1. Row(g) \in 0 .. NB - 1 /\ Column(g) \in 0 .. NB - 1
      BY RowColumn
    <3>2. Row(g) = Row(f) /\ Column(g) = k <=> g = f
      <4>1. g = 2 * NB + Row(g) * NB + Column(g) /\ f = 2 * NB + Row(f) * NB + Column(f)
        BY RowColumn
      <4> QED
        BY <4>1 DEF k
    <3>3. p = Leaf(g) <=> g = f
      BY KindsApart
    <3> HIDE DEF p
    <3> QED
      BY <2>4, <3>1, <3>2, <3>3
  <2>6. /\ p # Indirect /\ p # Double
        /\ \A l : p # Direct(l) /\ p # AnEntry(l) /\ p # ARow(l)
    BY KindsApart
  <2> HIDE DEF p
  <2> QED
    BY <1>8, <1>10, <1>15, <2>2, <2>3, <2>5, <2>6 DEF ChangesAt
<1>20. p \in Place /\ p[1] = "leaf" /\ p[2] = f
  BY PlacesAre, PlaceOf
<1>21. Names1(v, w, I, i, p, b, {t})
  <2>1. w.disk[0] = v.disk[0] \/ (v.nb = 0 /\ w.disk[0].kind = "bytes")
    BY <1>1, <1>2, <1>11, <1>12, <1>13, <1>14, SectorKinds, NoEntries
  <2>2. w.disk[i] \in Inode /\ w.disk[i].taille >= v.disk[i].taille /\ f < w.disk[i].taille
    BY <1>7, <1>8, <1>15
  <2> HIDE DEF p
  <2> QED
    BY <1>2, <1>14, <1>15, <1>17, <1>19, <1>20, <2>1, <2>2 DEF Names1
<1>22. v.disk[i].double # 0 /\ w.disk[i].double # 0
  BY <1>2, <1>8, <1>10, <1>15
<1> HIDE DEF p
<1>23. Good(w, I, {}) /\ Keeps(v, w, I) /\ Holds(v, w, I)
       /\ Spares(v, w, I, b) /\ BlocAt(w, i, p) = b
  BY <1>20, <1>21, <1>22, Naming
<1> QED
  BY <1>14, <1>23 DEF p, w, z, y, x, named, new, bytes, k, t, dbl

-----------------------------------------------------------------------------
(* allocate_vbloc_of_fbloc.                                                 *)

\* What is left of the first two levels when the inode and the blocs that it names
\* are the same.
Untouched(v, w, I) ==
    /\ \A j \in I : w.disk[j] = v.disk[j]
    /\ \A j \in I, p \in Place : BlocAt(w, j, p) = BlocAt(v, j, p)
    /\ \A j \in I, p \in Place : BlocAt(v, j, p) # 0 =>
          w.disk[BlocAt(v, j, p)] = v.disk[BlocAt(v, j, p)]

LEMMA UntouchedNoMore ==
    ASSUME NEW v, NEW w, NEW I, Untouched(v, w, I)
    PROVE  Holds(v, w, I) /\ NoMore(v, w, I)
<1>1. \A j \in I, f \in 0 .. F - 1 : At2(w, j, f) = At2(v, j, f)
  BY SpotPlace DEF At2, Untouched
<1>2. ASSUME NEW j \in I, NEW f \in 0 .. 2 * NB - 1
      PROVE  HeldAt(w, j, f) = HeldAt(v, j, f)
  <2>1. Spot(f) \in Place /\ f \in 0 .. F - 1
    BY Below2, SpotPlace
  <2>2. At2(v, j, f) # 0 => w.disk[At2(v, j, f)] = v.disk[At2(v, j, f)]
    BY <2>1 DEF Untouched, At2
  <2> QED
    BY <1>1, <2>1, <2>2 DEF HeldAt, Table
<1>3. Holds(v, w, I)
  BY <1>2 DEF Holds
<1>4. NoMore(v, w, I)
  BY <1>1, Below2 DEF NoMore
<1> QED
  BY <1>3, <1>4

LEMMA UntouchedHolds ==
    ASSUME NEW v, NEW w, NEW I, Untouched(v, w, I), w.gave = v.gave, v.nb = 0 => w.nb = 0
    PROVE  Keeps(v, w, I) /\ Holds(v, w, I) /\ NoMore(v, w, I)
<1>1. \A j \in I, f \in 0 .. F - 1 : At2(w, j, f) = At2(v, j, f)
  BY SpotPlace DEF At2, Untouched
<1>2. \A f \in 2 * NB .. F - 1 : f \in 0 .. F - 1
  OBVIOUS
<1>3. Keeps(v, w, I)
  BY <1>1, <1>2, Below2 DEF Keeps
<1> QED
  BY <1>3, UntouchedNoMore

LEMMA EndKept ==
    ASSUME NEW v, NEW I, NEW L, Good(v, I, L), NEW how \in {"none", "exit", "abort", "given"}
    PROVE  LET w == Ends(v, how)
           IN  /\ Good(w, I, L) /\ w.end = how /\ w.nb = v.nb /\ w.gave = v.gave
               /\ w.disk = v.disk /\ Keeps(v, w, I) /\ Holds(v, w, I) /\ Untouched(v, w, I)
<1> DEFINE w == Ends(v, how)
<1>1. /\ w \in Volume /\ w.end = how
      /\ w.nb = v.nb /\ w.first = v.first
      /\ w.gave = v.gave /\ w.astray = v.astray
      /\ w.disk = v.disk
  BY EndsIn DEF Good
<1> HIDE DEF w
<1>2. \A i, p : BlocAt(w, i, p) = BlocAt(v, i, p)
  BY <1>1 DEF BlocAt, NameIn, IsTable, Table
<1>3. Untouched(v, w, I)
  BY <1>1, <1>2 DEF Untouched
<1>4. Files(w, I) /\ \A c : Taken(w, c) <=> Taken(v, c)
  BY <1>1 DEF Files, Taken, Good
<1>5. Counts(w)
  BY <1>1 DEF Counts, Good
<1>6. Names(w, I) /\ Distinct(w, I) /\ NotNamed(w, I, L)
  BY <1>1, <1>2, <1>4 DEF Names, NameOK, Distinct, NotNamed, Good
<1>7. Complete(w, I, L)
  BY <1>1, <1>2 DEF Complete, OneLevel, Good
<1>8. Keeps(v, w, I) /\ Holds(v, w, I)
  BY <1>1, <1>3, UntouchedHolds
<1> QED
  BY <1>1, <1>3, <1>4, <1>5, <1>6, <1>7, <1>8 DEF Good, w

LEMMA KeepsSelf ==
    ASSUME NEW v, NEW I
    PROVE  Keeps(v, v, I) /\ Holds(v, v, I) /\ Untouched(v, v, I) /\ NoMore(v, v, I)
  BY DEF Keeps, Holds, Untouched, NoMore

LEMMA NoMoreOn ==
    ASSUME NEW u, NEW v, NEW w, NEW I, NoMore(u, v, I), NoMore(v, w, I)
    PROVE  NoMore(u, w, I)
  BY DEF NoMore

LEMMA EndStarves ==
    ASSUME NEW v, NEW I, NEW L, Good(v, I, L), NEW how \in {"none", "exit", "abort", "given"}
    PROVE  Starves(v, Ends(v, how), I)
<1>1. Ends(v, how).disk = v.disk
  BY EndKept
<1>2. \A i, p : BlocAt(Ends(v, how), i, p) = BlocAt(v, i, p)
  BY <1>1 DEF BlocAt, NameIn, IsTable, Table
<1> QED
  BY <1>2 DEF Starves, NoMore, At2

\* What new_bloc gives: a bloc, or nothing, or the end of the life.
LEMMA NewBlocs ==
    ASSUME NEW v, NEW I, Good(v, I, {}), v.end = "none"
    PROVE  LET n == NewBloc(v)
           IN  /\ Keeps(v, n.v, I) /\ Holds(v, n.v, I) /\ Untouched(v, n.v, I)
               /\ NoMore(v, n.v, I) /\ (v.nb = 0 => n.b = 0)
               /\ \/ n.v.end = "given" /\ n.b = 0 /\ Good(n.v, I, {})
                  \/ n.v.end = "none" /\ Given(n.v, I, n.b)
<1>1. CASE v.nb = 0
  <2>1. NewBloc(v) = [v |-> v, b |-> 0]
    BY <1>1 DEF NewBloc
  <2>2. {0} \ {0} = {} /\ 0 \in Bloc
    BY DEF Bloc
  <2> QED
    BY <1>1, <2>1, <2>2, KeepsSelf DEF Given
<1>2. CASE v.nb # 0 /\ v.gave
  <2>1. NewBloc(v) = [v |-> Ends(v, "given"), b |-> 0]
    BY <1>2 DEF NewBloc
  <2> QED
    BY <1>2, <2>1, EndKept, UntouchedHolds
<1>3. CASE v.nb # 0 /\ ~v.gave
  <2> DEFINE n == NewBloc(v)
  <2>1. /\ Good(n.v, I, {n.b}) /\ Keeps(v, n.v, I) /\ Holds(v, n.v, I)
        /\ n.b # 0 /\ n.b \in Bloc /\ n.v.end = v.end
        /\ Untouched(v, n.v, I)
    BY <1>3, Take DEF Untouched
  <2> HIDE DEF n
  <2>2. {n.b} \ {0} = {n.b}
    BY <2>1
  <2>3. NoMore(v, n.v, I)
    BY <1>3, <2>1, UntouchedHolds DEF Keeps
  <2> QED
    BY <1>3, <2>1, <2>2, <2>3 DEF Given, n
<1> QED
  BY <1>1, <1>2, <1>3

\* Bloc 0 is written over when there was no bloc.
LEMMA WriteZero ==
    ASSUME NEW v, NEW I, Good(v, I, {}), v.nb = 0, NEW t \in Bytes
    PROVE  LET w == Put(v, 0, Data(t))
           IN  /\ Good(w, I, {}) /\ Same(v, w) /\ Untouched(v, w, I) /\ w.disk[0] = Data(t)
<1> DEFINE w == Put(v, 0, Data(t))
<1>1. 0 \in Bloc /\ 0 \notin I
  BY InodeType DEF Good, Bloc
<1>2. /\ Good(w, I, {}) /\ Same(v, w)
      /\ \A c \in Bloc : w.disk[c] = IF c = 0 THEN Data(t) ELSE v.disk[c]
      /\ \A j \in I, p \in Place : BlocAt(w, j, p) = BlocAt(v, j, p)
  BY <1>1, WriteData
<1> HIDE DEF w
<1>3. \A j \in I : w.disk[j] = v.disk[j]
  BY <1>2, InodeType DEF Good
<1>4. \A j \in I, p \in Place : BlocAt(v, j, p) # 0 =>
          w.disk[BlocAt(v, j, p)] = v.disk[BlocAt(v, j, p)]
  BY <1>2, NamedBloc
<1> QED
  BY <1>1, <1>2, <1>3, <1>4 DEF Untouched, w

LEMMA ZerosAgain ==
    ASSUME NEW k \in 0 .. NB - 1
    PROVE  WithEntry(Zeros, k, 0) = Zeros
<1>1. 0 \div W = 0 /\ 0 % W = 0
  OBVIOUS
<1>2. 2 * k \in 0 .. S - 1 /\ 2 * k + 1 \in 0 .. S - 1
  BY TwoPlaces
<1> QED
  BY <1>1, <1>2 DEF WithEntry, Zeros

\* What an allocation gives: what place p names, nothing only if there was no bloc.
Outcome(v, I, i, p, r) ==
    /\ Good(r.v, I, {}) /\ Keeps(v, r.v, I) /\ Holds(v, r.v, I)
    /\ r.v.end \in {"none", "given"}
    /\ r.v.end = "none" => r.b = BlocAt(r.v, i, p)

Refuses(r) == r.v.end = "none" /\ r.b = 0 => r.v.nb = 0
RefusesClean(r) == Refuses(r) /\ (r.v.end = "none" /\ r.b = 0 => r.v.disk[0] = Data(Zeros))

LEMMA OutcomeOn ==
    ASSUME NEW u, NEW v, NEW I, NEW i, NEW p, NEW r, Outcome(v, I, i, p, r),
           Keeps(u, v, I), Holds(u, v, I)
    PROVE  Outcome(u, I, i, p, r)
  BY KeepsOn, HoldsOn DEF Outcome

\* The bloc is there already.
LEMMA OutcomeThere ==
    ASSUME NEW v, NEW I, Good(v, I, {}), v.end = "none", NEW i, NEW p, NEW b,
           b = BlocAt(v, i, p)
    PROVE  Outcome(v, I, i, p, Gives(v, b))
  BY KeepsSelf DEF Outcome, Gives

\* Nothing is named when nothing is given, on the way through u.
LEMMA StarvesOn ==
    ASSUME NEW v, NEW u, NEW w, NEW I, NEW b, Starves(v, u, I), v.nb = 0 => b = 0,
           Spares(u, w, I, b)
    PROVE  Starves(v, w, I)
  BY NoMoreOn DEF Starves, Spares

\* ... and when none was left from the start, whatever happens on the way.
LEMMA StarvesAfter ==
    ASSUME NEW v, NEW u, NEW w, NEW I, Keeps(v, u, I), Starves(v, u, I), Starves(u, w, I)
    PROVE  Starves(v, w, I)
  BY NoMoreOn DEF Starves, Keeps

LEMMA DirectOutcome ==
    ASSUME NEW v, NEW I, Good(v, I, {}), v.end = "none", NEW i \in I, NEW f \in 0 .. NB - 1
    PROVE  LET r == AllocateDirect(v, i, f)
           IN  Outcome(v, I, i, Direct(f), r) /\ Refuses(r) /\ Starves(v, r.v, I)
<1>1. CASE v.disk[i].direct[f] # 0
  <2>1. AllocateDirect(v, i, f) = Gives(v, v.disk[i].direct[f])
    BY <1>1 DEF AllocateDirect
  <2>2. Outcome(v, I, i, Direct(f), Gives(v, v.disk[i].direct[f]))
    BY PlaceOf, OutcomeThere
  <2> QED
    BY <1>1, <2>1, <2>2, KeepsSelf DEF Starves, Refuses, Gives
<1>2. CASE v.disk[i].direct[f] = 0
  <2> DEFINE n == NewBloc(v)
             r == DirectNamed(n, i, v.disk[i], f)
  <2>1. AllocateDirect(v, i, f) = r
    BY <1>2 DEF AllocateDirect
  <2>2. /\ Keeps(v, n.v, I) /\ Holds(v, n.v, I) /\ Untouched(v, n.v, I)
        /\ NoMore(v, n.v, I) /\ (v.nb = 0 => n.b = 0)
        /\ \/ n.v.end = "given" /\ n.b = 0 /\ Good(n.v, I, {})
           \/ n.v.end = "none" /\ Given(n.v, I, n.b)
    BY NewBlocs
  <2> HIDE DEF n
  <2>3. CASE n.v.end = "given"
    <3>1. r = Gives(n.v, n.b) /\ Good(n.v, I, {})
      BY <2>2, <2>3 DEF DirectNamed, Then
    <3> QED
      BY <2>1, <2>2, <2>3, <3>1 DEF Starves, Outcome, Refuses, Gives
  <2>4. CASE n.v.end = "none"
    <3>1. n.v.disk[i] = v.disk[i] /\ Given(n.v, I, n.b)
      BY <2>2, <2>4 DEF Untouched
    <3> DEFINE w == Clean(Put(n.v, i, DirectIn(n.v.disk[i], f, n.b)), n.b)
    <3>2. r = Gives(w, n.b)
      BY <2>4, <3>1 DEF DirectNamed, Then, DirectIn
    <3>3. /\ Good(w, I, {}) /\ Keeps(n.v, w, I) /\ Holds(n.v, w, I)
          /\ Same(n.v, w) /\ Spares(n.v, w, I, n.b)
          /\ BlocAt(w, i, Direct(f)) = n.b
      <4>1. n.v.disk[i].direct[f] = 0
        BY <1>2, <3>1
      <4> QED
        BY <3>1, <4>1, NameDirect
    <3> HIDE DEF w
    <3>4. Outcome(n.v, I, i, Direct(f), r) /\ Refuses(r)
      BY <2>4, <3>1, <3>2, <3>3 DEF Outcome, Refuses, Gives, Same, Given
    <3>5. Starves(v, r.v, I)
      <4>1. Starves(v, n.v, I)
        BY <2>2 DEF Starves
      <4> QED
        BY <2>2, <3>2, <3>3, <4>1, StarvesOn DEF Gives
    <3> QED
      BY <2>1, <2>2, <3>4, <3>5, OutcomeOn
  <2> QED
    BY <2>2, <2>3, <2>4
<1> QED
  BY <1>1, <1>2

LEMMA WithIndirectOutcome ==
    ASSUME NEW v, NEW I, Good(v, I, {}), v.end = "none", NEW i \in I, NEW f \in 0 .. F - 1
    PROVE  LET r == WithIndirect(v, i, f)
           IN  Outcome(v, I, i, Indirect, r) /\ RefusesClean(r) /\ Starves(v, r.v, I)
<1>1. CASE v.disk[i].indirect # 0
  <2>1. WithIndirect(v, i, f) = Gives(v, v.disk[i].indirect)
    BY <1>1 DEF WithIndirect
  <2>2. Outcome(v, I, i, Indirect, Gives(v, v.disk[i].indirect))
    BY PlaceOf, OutcomeThere
  <2> QED
    BY <1>1, <2>1, <2>2, KeepsSelf DEF Starves, Refuses, RefusesClean, Gives
<1>2. CASE v.disk[i].indirect = 0
  <2> DEFINE n == NewBloc(v)
             r == IndirectNamed(n, i, v.disk[i], f)
  <2>1. WithIndirect(v, i, f) = r
    BY <1>2 DEF WithIndirect
  <2>2. /\ Keeps(v, n.v, I) /\ Holds(v, n.v, I) /\ Untouched(v, n.v, I)
        /\ NoMore(v, n.v, I) /\ (v.nb = 0 => n.b = 0)
        /\ \/ n.v.end = "given" /\ n.b = 0 /\ Good(n.v, I, {})
           \/ n.v.end = "none" /\ Given(n.v, I, n.b)
    BY NewBlocs
  <2> HIDE DEF n
  <2>3. CASE n.v.end = "given"
    <3>1. r = Gives(n.v, n.b) /\ Good(n.v, I, {})
      BY <2>2, <2>3 DEF IndirectNamed, Then
    <3> QED
      BY <2>1, <2>2, <2>3, <3>1 DEF Starves, Outcome, Refuses, RefusesClean, Gives
  <2>4. CASE n.v.end = "none"
    <3>1. n.v.disk[i] = v.disk[i] /\ Given(n.v, I, n.b)
      BY <2>2, <2>4 DEF Untouched
    <3> DEFINE w == Put(Clean(n.v, n.b), i, IndirectIn(n.v.disk[i], f, n.b))
    <3>2. r = Gives(w, n.b)
      BY <2>4, <3>1 DEF IndirectNamed, Then, IndirectIn
    <3>3. /\ Good(w, I, {}) /\ Keeps(n.v, w, I) /\ Holds(n.v, w, I)
          /\ Same(n.v, w) /\ Spares(n.v, w, I, n.b)
          /\ BlocAt(w, i, Indirect) = n.b /\ w.disk[n.b] = Data(Zeros)
      <4>1. n.v.disk[i].indirect = 0
        BY <1>2, <3>1
      <4> QED
        BY <3>1, <4>1, NameIndirect
    <3> HIDE DEF w
    <3>4. Outcome(n.v, I, i, Indirect, r) /\ RefusesClean(r)
      BY <2>4, <3>1, <3>2, <3>3 DEF Outcome, Refuses, RefusesClean, Gives, Same, Given
    <3>5. Starves(v, r.v, I)
      <4>1. Starves(v, n.v, I)
        BY <2>2 DEF Starves
      <4> QED
        BY <2>2, <3>2, <3>3, <4>1, StarvesOn DEF Gives
    <3> QED
      BY <2>1, <2>2, <3>4, <3>5, OutcomeOn
  <2> QED
    BY <2>2, <2>3, <2>4
<1> QED
  BY <1>1, <1>2

LEMMA WithDoubleOutcome ==
    ASSUME NEW v, NEW I, Good(v, I, {}), v.end = "none", NEW i \in I
    PROVE  LET r == WithDouble(v, i)
           IN  Outcome(v, I, i, Double, r) /\ RefusesClean(r) /\ Starves(v, r.v, I)
<1>1. CASE v.disk[i].double # 0
  <2>1. WithDouble(v, i) = Gives(v, v.disk[i].double)
    BY <1>1 DEF WithDouble
  <2>2. Outcome(v, I, i, Double, Gives(v, v.disk[i].double))
    BY PlaceOf, OutcomeThere
  <2> QED
    BY <1>1, <2>1, <2>2, KeepsSelf DEF Starves, Refuses, RefusesClean, Gives
<1>2. CASE v.disk[i].double = 0
  <2> DEFINE n == NewBloc(v)
             r == DoubleNamed(n, i, v.disk[i])
  <2>1. WithDouble(v, i) = r
    BY <1>2 DEF WithDouble
  <2>2. /\ Keeps(v, n.v, I) /\ Holds(v, n.v, I) /\ Untouched(v, n.v, I)
        /\ NoMore(v, n.v, I) /\ (v.nb = 0 => n.b = 0)
        /\ \/ n.v.end = "given" /\ n.b = 0 /\ Good(n.v, I, {})
           \/ n.v.end = "none" /\ Given(n.v, I, n.b)
    BY NewBlocs
  <2> HIDE DEF n
  <2>3. CASE n.v.end = "given"
    <3>1. r = Gives(n.v, n.b) /\ Good(n.v, I, {})
      BY <2>2, <2>3 DEF DoubleNamed, Then
    <3> QED
      BY <2>1, <2>2, <2>3, <3>1 DEF Starves, Outcome, Refuses, RefusesClean, Gives
  <2>4. CASE n.v.end = "none"
    <3>1. n.v.disk[i] = v.disk[i] /\ Given(n.v, I, n.b)
      BY <2>2, <2>4 DEF Untouched
    <3> DEFINE named == [n.v.disk[i] EXCEPT !.double = n.b]
               w == Put(Clean(n.v, n.b), i, named)
    <3>2. r = Gives(w, n.b)
      BY <2>4, <3>1 DEF DoubleNamed, Then
    <3>3. /\ Good(w, I, {}) /\ Keeps(n.v, w, I) /\ Holds(n.v, w, I)
          /\ Same(n.v, w) /\ Spares(n.v, w, I, n.b)
          /\ BlocAt(w, i, Double) = n.b /\ w.disk[n.b] = Data(Zeros)
      BY <1>2, <3>1, NameDouble
    <3> HIDE DEF w
    <3>4. Outcome(n.v, I, i, Double, r) /\ RefusesClean(r)
      BY <2>4, <3>1, <3>2, <3>3 DEF Outcome, Refuses, RefusesClean, Gives, Same, Given
    <3>5. Starves(v, r.v, I)
      <4>1. Starves(v, n.v, I)
        BY <2>2 DEF Starves
      <4> QED
        BY <2>2, <3>2, <3>3, <4>1, StarvesOn DEF Gives
    <3> QED
      BY <2>1, <2>2, <3>4, <3>5, OutcomeOn
  <2> QED
    BY <2>2, <2>3, <2>4
<1> QED
  BY <1>1, <1>2

LEMMA InTableOutcome ==
    ASSUME NEW v, NEW I, NEW i \in I, NEW t, Outcome(v, I, i, Indirect, t), RefusesClean(t),
           Starves(v, t.v, I), NEW k \in 0 .. NB - 1
    PROVE  LET r == InTable(t, k)
           IN  Outcome(v, I, i, AnEntry(k), r) /\ Refuses(r) /\ Starves(v, r.v, I)
<1> DEFINE bytes == Table(t.v, t.b)
           p == AnEntry(k)
<1>1. /\ Good(t.v, I, {}) /\ Keeps(v, t.v, I) /\ Holds(v, t.v, I)
      /\ t.v.end \in {"none", "given"}
      /\ t.v.end = "none" => t.b = BlocAt(t.v, i, Indirect)
      /\ t.v.end = "none" /\ t.b = 0 => t.v.nb = 0 /\ t.v.disk[0] = Data(Zeros)
  BY DEF Outcome, RefusesClean, Refuses
<1>2. CASE t.v.end # "none"
  <2>1. InTable(t, k) = t
    BY <1>2 DEF InTable
  <2> QED
    BY <1>1, <1>2, <2>1 DEF Outcome, Refuses
<1>3. CASE t.v.end = "none" /\ t.b # 0
  <2>1. t.b = t.v.disk[i].indirect /\ t.b = BlocAt(t.v, i, Indirect) /\ Indirect \in Place
    BY <1>1, <1>3, PlaceOf, PlacesAre
  <2>2. t.b \in Bloc /\ bytes \in Bytes /\ t.v.disk[t.b] = Data(bytes)
    BY <1>1, <1>3, <2>1, NamedBloc
  <2>3. NameIn(t.v, t.b, k) = Entry(bytes, k)
    BY <1>3, <2>2, NameEntry
  <2>4. BlocAt(t.v, i, p) = Entry(bytes, k)
    BY <2>1, <2>3, PlaceOf
  <2>5. CASE Entry(bytes, k) # 0
    <3>1. InTable(t, k) = Gives(t.v, Entry(bytes, k))
      BY <1>3, <2>5 DEF InTable
    <3>2. Outcome(t.v, I, i, p, Gives(t.v, Entry(bytes, k)))
      BY <1>1, <1>3, <2>4, OutcomeThere
    <3>3. Refuses(InTable(t, k))
      BY <2>5, <3>1 DEF Refuses, Gives
    <3> QED
      BY <1>1, <3>1, <3>2, <3>3, OutcomeOn DEF Gives
  <2>6. CASE Entry(bytes, k) = 0
    <3> DEFINE n == NewBloc(t.v)
               r == EntryNamed(n, t.b, bytes, k)
    <3>1. InTable(t, k) = r
      BY <1>3, <2>6 DEF InTable
    <3>2. /\ Keeps(t.v, n.v, I) /\ Holds(t.v, n.v, I) /\ Untouched(t.v, n.v, I)
          /\ NoMore(t.v, n.v, I) /\ (t.v.nb = 0 => n.b = 0)
          /\ \/ n.v.end = "given" /\ n.b = 0 /\ Good(n.v, I, {})
             \/ n.v.end = "none" /\ Given(n.v, I, n.b)
      BY <1>1, <1>3, NewBlocs
    <3> HIDE DEF n
    <3>3. Keeps(v, n.v, I) /\ Holds(v, n.v, I)
      BY <1>1, <3>2, KeepsOn, HoldsOn
    <3>4. Starves(v, n.v, I) /\ (v.nb = 0 => n.b = 0)
      BY <1>1, <3>2, NoMoreOn DEF Starves, Keeps
    <3>5. CASE n.v.end = "given"
      <4>1. r = Gives(n.v, n.b) /\ Good(n.v, I, {})
        BY <3>2, <3>5 DEF EntryNamed, Then
      <4> QED
        BY <3>1, <3>3, <3>5, <3>4, <4>1 DEF Outcome, Refuses, Gives
    <3>6. CASE n.v.end = "none"
      <4>1. /\ n.v.disk[i] = t.v.disk[i] /\ n.v.disk[t.b] = t.v.disk[t.b]
            /\ Given(n.v, I, n.b)
        BY <1>3, <2>1, <3>2, <3>6 DEF Untouched
      <4>2. n.v.disk[i].indirect = t.b /\ Table(n.v, t.b) = bytes
        BY <2>1, <4>1 DEF Table
      <4> DEFINE w == Clean(Put(n.v, t.b, Data(WithEntry(bytes, k, n.b))), n.b)
      <4>3. r = Gives(w, n.b)
        BY <3>6 DEF EntryNamed, Then
      <4>4. /\ Good(w, I, {}) /\ Keeps(n.v, w, I) /\ Holds(n.v, w, I) /\ Same(n.v, w)
            /\ BlocAt(w, i, p) = n.b /\ Spares(n.v, w, I, n.b)
        <5>1. n.v.disk[i].indirect # 0 /\ Entry(Table(n.v, n.v.disk[i].indirect), k) = 0
          BY <1>3, <2>6, <4>2
        <5> DEFINE u == n.v
                   c == n.b
                   x == t.b
        <5>2. Given(u, I, c) /\ u.disk[i].indirect = x /\ Table(u, x) = bytes
              /\ u.disk[i].indirect # 0 /\ Entry(Table(u, u.disk[i].indirect), k) = 0
          BY <4>1, <4>2, <5>1
        <5> HIDE DEF u, c, x, bytes
        <5>3. LET y == Clean(Put(u, x, Data(WithEntry(bytes, k, c))), c)
              IN  /\ Good(y, I, {}) /\ Keeps(u, y, I) /\ Holds(u, y, I) /\ Same(u, y)
                  /\ BlocAt(y, i, p) = c /\ Spares(u, y, I, c)
          BY <5>2, NameAnEntry
        <5> QED
          BY <5>3 DEF u, c, x
      <4> HIDE DEF w
      <4>5. Outcome(n.v, I, i, p, r) /\ Refuses(r)
        BY <3>6, <4>1, <4>3, <4>4 DEF Outcome, Refuses, Gives, Same, Given
      <4>6. Starves(v, r.v, I)
        BY <3>4, <4>3, <4>4, StarvesOn DEF Gives
      <4> QED
        BY <3>1, <3>3, <4>5, <4>6, OutcomeOn
    <3> QED
      BY <3>2, <3>5, <3>6
  <2> QED
    BY <2>5, <2>6
<1>4. CASE t.v.end = "none" /\ t.b = 0
  <2>1. t.v.nb = 0 /\ t.v.disk[0] = Data(Zeros) /\ bytes = Zeros
    BY <1>1, <1>4, SectorKinds, NoEntries DEF Table
  <2> DEFINE w == Clean(Put(t.v, 0, Data(Zeros)), 0)
  <2>2. InTable(t, k) = Gives(w, 0)
    <3>1. NewBloc(t.v) = [v |-> t.v, b |-> 0]
      BY <2>1 DEF NewBloc
    <3>2. InTable(t, k) = EntryNamed(NewBloc(t.v), 0, Zeros, k)
      BY <1>4, <2>1, NoEntries DEF InTable
    <3> QED
      BY <1>4, <3>1, <3>2, ZerosAgain DEF EntryNamed, Then
  <2>3. /\ Good(w, I, {}) /\ Same(t.v, w) /\ Untouched(t.v, w, I)
    <3> DEFINE x == Put(t.v, 0, Data(Zeros))
    <3>1. Good(x, I, {}) /\ Same(t.v, x) /\ Untouched(t.v, x, I)
      BY <1>1, <2>1, NoEntries, WriteZero
    <3> HIDE DEF x
    <3>2. LET y == Put(x, 0, Data(Zeros))
          IN  Good(y, I, {}) /\ Same(x, y) /\ Untouched(x, y, I)
      <4>1. x.nb = 0
        BY <2>1, <3>1 DEF Same
      <4> QED
        BY <3>1, <4>1, NoEntries, WriteZero
    <3>3. w = Put(x, 0, Data(Zeros))
      BY DEF x, Clean
    <3> HIDE DEF w
    <3> QED
      BY <3>1, <3>2, <3>3 DEF Same, Untouched
  <2> HIDE DEF w
  <2>4. Keeps(t.v, w, I) /\ Holds(t.v, w, I) /\ NoMore(t.v, w, I)
    BY <2>3, UntouchedHolds DEF Same
  <2>5. BlocAt(w, i, p) = 0
    <3>1. BlocAt(t.v, i, p) = 0
      BY <1>1, <1>4, PlaceOf DEF NameIn
    <3> QED
      BY <2>3, <3>1, PlacesAre DEF Untouched
  <2>6. Outcome(t.v, I, i, p, Gives(w, 0)) /\ Refuses(Gives(w, 0))
    BY <1>4, <2>1, <2>3, <2>4, <2>5 DEF Outcome, Refuses, Gives, Same
  <2>7. Starves(v, w, I)
    BY <2>4, NoMoreOn DEF Starves
  <2> QED
    BY <1>1, <2>2, <2>6, <2>7, OutcomeOn DEF Gives
<1> QED
  BY <1>2, <1>3, <1>4

-----------------------------------------------------------------------------
(* Volumes gone astray: they stay so to the end of the call, and are not    *)
(* followed further.  It takes more sectors than a byte has values.         *)

Stray(v) == NSector > W /\ "astray" \in DOMAIN v /\ v.astray = TRUE

LEMMA StrayPut ==
    ASSUME NEW v, Stray(v)
    PROVE  /\ \A b, s : Stray(Put(v, b, s))
           /\ \A b : Stray(Clean(v, b))
           /\ \A how : Stray(Ends(v, how))
           /\ \A w : Stray(w) => Stray(Then(v, w))
  BY DEF Stray, Put, Clean, Ends, Then

LEMMA StrayBlocs ==
    ASSUME NEW v, Stray(v)
    PROVE  Stray(NewBloc(v).v)
<1>1. \A nb, first : Stray([v EXCEPT !.nb = nb, !.first = first])
  BY DEF Stray
<1> QED
  BY <1>1, StrayPut DEF NewBloc, SaveSuper

LEMMA StrayRow ==
    ASSUME NEW n, Stray(n.v), NEW t, NEW bytes, NEW k
    PROVE  Stray(RowNamed(n, t, bytes, k).v)
<1> DEFINE v == [n.v EXCEPT !.astray = @ \/ n.b >= W]
<1>1. Stray(v)
  BY DEF Stray
<1> HIDE DEF v
<1>2. Stray(Put(Clean(v, n.b), t, Data(WithEntry(bytes, k, n.b))))
  BY <1>1, StrayPut
<1>3. Stray(Then(v, Put(Clean(v, n.b), t, Data(WithEntry(bytes, k, n.b)))))
  BY <1>1, <1>2, StrayPut
<1> QED
  BY <1>3 DEF RowNamed, Gives, v

LEMMA StrayNamed ==
    ASSUME NEW n, Stray(n.v), NEW i, NEW ino, NEW f, NEW t, NEW bytes
    PROVE  /\ Stray(DirectNamed(n, i, ino, f).v)
           /\ Stray(IndirectNamed(n, i, ino, f).v)
           /\ Stray(EntryNamed(n, t, bytes, f).v)
           /\ Stray(DoubleNamed(n, i, ino).v)
           /\ Stray(LeafNamed(n, i, t, bytes, f).v)
<1>1. /\ \A b, s : Stray(Put(n.v, b, s)) /\ \A c : Stray(Clean(Put(n.v, b, s), c))
      /\ \A b : Stray(Clean(n.v, b)) /\ \A c, s : Stray(Put(Clean(n.v, b), c, s))
      /\ \A b, c, s, d, r, e : Stray(Clean(Put(Put(Clean(n.v, b), c, s), d, r), e))
  BY StrayPut
<1>2. \A w : Stray(w) => Stray(Then(n.v, w))
  BY StrayPut
<1> QED
  BY <1>1, <1>2 DEF DirectNamed, IndirectNamed, EntryNamed, DoubleNamed, LeafNamed, Gives

LEMMA StrayTables ==
    ASSUME NEW v, Stray(v), NEW i, NEW f
    PROVE  /\ Stray(AllocateDirect(v, i, f).v) /\ Stray(WithIndirect(v, i, f).v)
           /\ Stray(WithDouble(v, i).v)
<1>1. Stray(NewBloc(v).v)
  BY StrayBlocs
<1> QED
  BY <1>1, StrayNamed DEF AllocateDirect, WithIndirect, WithDouble, Gives

LEMMA StrayEntries ==
    ASSUME NEW t, Stray(t.v), NEW i, NEW f
    PROVE  Stray(InTable(t, f).v) /\ Stray(WithRow(t, f).v) /\ Stray(InRow(t, i, f).v)
<1>1. Stray(NewBloc(t.v).v)
  BY StrayBlocs
<1>2. Stray(Ends(t.v, "wild"))
  BY StrayPut
<1> QED
  BY <1>1, <1>2, StrayNamed, StrayRow DEF InTable, WithRow, InRow, Gives

LEMMA StrayAllocate ==
    ASSUME NEW v, Stray(v), NEW i, NEW f
    PROVE  Stray(Allocate(v, i, f).v)
<1>1. Stray(AllocateDirect(v, i, f).v)
  BY StrayTables
<1>2. Stray(AllocateIndirect(v, i, f).v)
  BY StrayTables, StrayEntries DEF AllocateIndirect
<1>3. Stray(AllocateDouble(v, i, f).v)
  BY StrayTables, StrayEntries DEF AllocateDouble
<1>4. \A how : Stray(Ends(v, how))
  BY StrayPut
<1> QED
  BY <1>1, <1>2, <1>3, <1>4 DEF Allocate, Gives

-----------------------------------------------------------------------------
(* The second level.                                                        *)

LEMMA NotAstray ==
    ASSUME NEW v \in Volume, NEW b, ~(b >= W)
    PROVE  [v EXCEPT !.astray = @ \/ b >= W] = v
  BY DEF Volume

\* Bloc 0 as a table, when there was no bloc: it stays what it is.
LEMMA ZeroTwice ==
    ASSUME NEW v, NEW I, Good(v, I, {}), v.nb = 0
    PROVE  LET w == Put(Put(v, 0, Data(Zeros)), 0, Data(Zeros))
           IN  /\ Good(w, I, {}) /\ Same(v, w) /\ Untouched(v, w, I)
               /\ Keeps(v, w, I) /\ Holds(v, w, I) /\ NoMore(v, w, I) /\ w.disk[0] = Data(Zeros)
<1> DEFINE x == Put(v, 0, Data(Zeros))
           w == Put(x, 0, Data(Zeros))
<1>1. Good(x, I, {}) /\ Same(v, x) /\ Untouched(v, x, I)
  BY NoEntries, WriteZero
<1> HIDE DEF x
<1>2. Good(w, I, {}) /\ Same(x, w) /\ Untouched(x, w, I) /\ w.disk[0] = Data(Zeros)
  <2>1. x.nb = 0
    BY <1>1 DEF Same
  <2> QED
    BY <1>1, <2>1, NoEntries, WriteZero
<1> HIDE DEF w
<1>3. Same(v, w) /\ Untouched(v, w, I)
  BY <1>1, <1>2 DEF Same, Untouched
<1>4. Keeps(v, w, I) /\ Holds(v, w, I) /\ NoMore(v, w, I)
  BY <1>3, UntouchedHolds DEF Same
<1> QED
  BY <1>2, <1>3, <1>4 DEF w, x

LEMMA WithRowOutcome ==
    ASSUME NEW v, NEW I, NEW i \in I, NEW t, Outcome(v, I, i, Double, t), RefusesClean(t),
           Starves(v, t.v, I),
           NEW f \in 2 * NB .. F - 1
    PROVE  LET r == WithRow(t, f)
           IN  \/ Stray(r.v)
               \/ /\ Outcome(v, I, i, ARow(Row(f)), r) /\ RefusesClean(r)
                  /\ Starves(v, r.v, I)
<1> DEFINE bytes == Table(t.v, t.b)
           k == Row(f)
           p == ARow(k)
<1>1. /\ Good(t.v, I, {}) /\ Keeps(v, t.v, I) /\ Holds(v, t.v, I)
      /\ t.v.end \in {"none", "given"}
      /\ t.v.end = "none" => t.b = BlocAt(t.v, i, Double)
      /\ t.v.end = "none" /\ t.b = 0 => t.v.nb = 0 /\ t.v.disk[0] = Data(Zeros)
  BY DEF Outcome, RefusesClean, Refuses
<1>2. k \in 0 .. NB - 1 /\ p \in Place /\ p[1] = "row"
  BY RowColumn, PlacesAre, PlaceOf
<1>3. CASE t.v.end # "none"
  <2>1. WithRow(t, f) = t
    BY <1>3 DEF WithRow
  <2> QED
    BY <1>1, <1>3, <2>1 DEF Outcome, Refuses, RefusesClean
<1>4. CASE t.v.end = "none" /\ t.b # 0
  <2>1. t.b = t.v.disk[i].double /\ t.b = BlocAt(t.v, i, Double) /\ Double \in Place
    BY <1>1, <1>4, PlaceOf, PlacesAre
  <2>2. t.b \in Bloc /\ bytes \in Bytes /\ t.v.disk[t.b] = Data(bytes)
    BY <1>1, <1>4, <2>1, NamedBloc
  <2>3. NameIn(t.v, t.b, k) = Entry(bytes, k)
    BY <1>4, <2>2, NameEntry
  <2>4. BlocAt(t.v, i, p) = Entry(bytes, k)
    BY <2>1, <2>3, PlaceOf
  <2>5. Entry(bytes, k) < W
    <3>1. Entry(bytes, k) # 0 => Entry(bytes, k) < W
      BY <1>1, <1>2, <2>4, NamedBloc
    <3> QED
      BY <3>1
  <2>6. Level2(bytes, k) = Entry(bytes, k)
    BY <1>2, <2>2, <2>5, LevelTwo
  <2>7. CASE Entry(bytes, k) # 0
    <3>1. WithRow(t, f) = Gives(t.v, Entry(bytes, k))
      BY <1>4, <2>6, <2>7 DEF WithRow
    <3>2. Outcome(t.v, I, i, p, Gives(t.v, Entry(bytes, k)))
      BY <1>1, <1>4, <2>4, OutcomeThere
    <3>3. RefusesClean(WithRow(t, f))
      BY <2>7, <3>1 DEF Refuses, RefusesClean, Gives
    <3> QED
      BY <1>1, <3>1, <3>2, <3>3, OutcomeOn DEF Gives
  <2>8. CASE Entry(bytes, k) = 0
    <3> DEFINE n == NewBloc(t.v)
               r == RowNamed(n, t.b, bytes, k)
    <3>1. WithRow(t, f) = r
      BY <1>4, <2>6, <2>8 DEF WithRow
    <3>2. /\ Keeps(t.v, n.v, I) /\ Holds(t.v, n.v, I) /\ Untouched(t.v, n.v, I)
          /\ NoMore(t.v, n.v, I) /\ (t.v.nb = 0 => n.b = 0)
          /\ \/ n.v.end = "given" /\ n.b = 0 /\ Good(n.v, I, {})
             \/ n.v.end = "none" /\ Given(n.v, I, n.b)
      BY <1>1, <1>4, NewBlocs
    <3> HIDE DEF n
    <3>3. Keeps(v, n.v, I) /\ Holds(v, n.v, I)
      BY <1>1, <3>2, KeepsOn, HoldsOn
    <3>4. Starves(v, n.v, I) /\ (v.nb = 0 => n.b = 0)
      BY <1>1, <3>2, NoMoreOn DEF Starves, Keeps
    <3>5. n.v \in Volume
      BY <3>2 DEF Given, Good
    <3>6. CASE n.v.end = "given"
      <4>1. ~(n.b >= W) /\ Good(n.v, I, {})
        BY <3>2, <3>6
      <4>2. r = Gives(n.v, n.b)
        BY <3>5, <3>6, <4>1, NotAstray DEF RowNamed, Then
      <4> QED
        BY <3>1, <3>3, <3>6, <3>4, <4>1, <4>2 DEF Outcome, Refuses, RefusesClean, Gives
    <3>7. CASE n.v.end = "none" /\ n.b >= W
      <4> DEFINE u == [n.v EXCEPT !.astray = @ \/ n.b >= W]
      <4>1. Stray(u)
        <5> DEFINE b == n.b
                   m == n.v
        <5>1. Given(m, I, b) /\ b >= W /\ b # 0
          BY <3>2, <3>7
        <5> HIDE DEF b, m
        <5>2. b \in 1 .. NSector - 1
          BY <5>1, GivenBloc
        <5>3. NSector > W
          BY <5>1, <5>2
        <5> QED
          BY <3>5, <3>7, <5>3 DEF Stray, Volume
      <4> HIDE DEF u
      <4>2. Stray(Put(Clean(u, n.b), t.b, Data(WithEntry(bytes, k, n.b))))
        BY <4>1, StrayPut
      <4>3. Stray(Then(u, Put(Clean(u, n.b), t.b, Data(WithEntry(bytes, k, n.b)))))
        BY <4>1, <4>2, StrayPut
      <4>4. r = Gives(Then(u, Put(Clean(u, n.b), t.b, Data(WithEntry(bytes, k, n.b)))), n.b)
        BY DEF RowNamed, u
      <4> QED
        BY <3>1, <4>3, <4>4 DEF Gives
    <3>8. CASE n.v.end = "none" /\ ~(n.b >= W)
      <4>1. /\ n.v.disk[i] = t.v.disk[i] /\ n.v.disk[t.b] = t.v.disk[t.b]
            /\ Given(n.v, I, n.b)
        BY <1>4, <2>1, <3>2, <3>8 DEF Untouched
      <4>2. n.v.disk[i].double = t.b /\ Table(n.v, t.b) = bytes
        BY <2>1, <4>1 DEF Table
      <4>3. n.b < W
        BY <3>8, <4>1 DEF Given, Bloc
      <4> DEFINE w == Put(Clean(n.v, n.b), t.b, Data(WithEntry(bytes, k, n.b)))
      <4>4. r = Gives(w, n.b)
        BY <3>5, <3>8, NotAstray DEF RowNamed, Then
      <4>5. /\ Good(w, I, {}) /\ Keeps(n.v, w, I) /\ Holds(n.v, w, I) /\ Same(n.v, w)
            /\ BlocAt(w, i, p) = n.b /\ w.disk[n.b] = Data(Zeros)
            /\ Spares(n.v, w, I, n.b)
        <5> DEFINE u == n.v
                   c == n.b
                   x == t.b
        <5>1. Given(u, I, c) /\ u.disk[i].double = x /\ Table(u, x) = bytes
              /\ u.disk[i].double # 0 /\ Entry(Table(u, u.disk[i].double), k) = 0 /\ c < W
          BY <1>4, <2>8, <4>1, <4>2, <4>3
        <5> HIDE DEF u, c, x, bytes, k
        <5>2. LET y == Put(Clean(u, c), x, Data(WithEntry(bytes, k, c)))
              IN  /\ Good(y, I, {}) /\ Keeps(u, y, I) /\ Holds(u, y, I) /\ Same(u, y)
                  /\ BlocAt(y, i, p) = c /\ y.disk[c] = Data(Zeros)
                  /\ Spares(u, y, I, c)
          BY <1>2, <5>1, NameRow
        <5> QED
          BY <5>2 DEF u, c, x
      <4> HIDE DEF w
      <4>6. Outcome(n.v, I, i, p, r) /\ RefusesClean(r)
        BY <3>8, <4>1, <4>4, <4>5 DEF Outcome, Refuses, RefusesClean, Gives, Same, Given
      <4>7. Starves(v, r.v, I)
        BY <3>4, <4>4, <4>5, StarvesOn DEF Gives
      <4> QED
        BY <3>1, <3>3, <4>6, <4>7, OutcomeOn
    <3> QED
      BY <3>2, <3>6, <3>7, <3>8
  <2> QED
    BY <2>7, <2>8
<1>5. CASE t.v.end = "none" /\ t.b = 0
  <2>1. t.v.nb = 0 /\ t.v.disk[0] = Data(Zeros) /\ bytes = Zeros /\ t.v \in Volume
    BY <1>1, <1>5, SectorKinds, NoEntries DEF Table, Good
  <2> DEFINE w == Put(Put(t.v, 0, Data(Zeros)), 0, Data(Zeros))
  <2>2. WithRow(t, f) = Gives(w, 0)
    <3>1. NewBloc(t.v) = [v |-> t.v, b |-> 0]
      BY <2>1 DEF NewBloc
    <3>2. Level2(Zeros, k) = 0
      BY <1>2, NoEntries, LevelTwo
    <3>3. WithRow(t, f) = RowNamed(NewBloc(t.v), 0, Zeros, k)
      BY <1>5, <2>1, <3>2 DEF WithRow
    <3>4. [t.v EXCEPT !.astray = @ \/ 0 >= W] = t.v
      <4>1. ~(0 >= W)
        OBVIOUS
      <4> QED
        BY <2>1, <4>1, NotAstray
    <3>5. WithEntry(Zeros, k, 0) = Zeros
      BY <1>2, ZerosAgain
    <3> HIDE DEF k
    <3> QED
      BY <1>5, <3>1, <3>3, <3>4, <3>5 DEF RowNamed, Then, Clean, Gives
  <2>3. /\ Good(w, I, {}) /\ Same(t.v, w) /\ Untouched(t.v, w, I)
        /\ Keeps(t.v, w, I) /\ Holds(t.v, w, I) /\ NoMore(t.v, w, I)
        /\ w.disk[0] = Data(Zeros)
    BY <1>1, <2>1, ZeroTwice
  <2> HIDE DEF w
  <2>4. BlocAt(w, i, p) = 0
    <3>1. BlocAt(t.v, i, p) = 0
      BY <1>1, <1>5, PlaceOf DEF NameIn
    <3> QED
      BY <1>2, <2>3, <3>1 DEF Untouched
  <2>5. Outcome(t.v, I, i, p, Gives(w, 0)) /\ RefusesClean(Gives(w, 0))
    BY <1>5, <2>1, <2>3, <2>4 DEF Outcome, Refuses, RefusesClean, Gives, Same
  <2>6. Starves(v, w, I)
    BY <2>3, NoMoreOn DEF Starves
  <2> QED
    BY <1>1, <2>2, <2>5, <2>6, OutcomeOn DEF Gives
<1> QED
  BY <1>1, <1>3, <1>4, <1>5

\* No bloc, not even for the row: bloc 0 is its table, and names nothing.
LEMMA NameNothing ==
    ASSUME NEW v, NEW I, Given(v, I, 0), NEW i \in I, NEW f \in 2 * NB .. F - 1,
           NameIn(v, v.disk[i].double, Row(f)) = 0
    PROVE  LET w == Clean(Put(Put(Clean(v, 0), i, GrownTo(v.disk[i], f)), 0, Data(Zeros)), 0)
           IN  /\ Good(w, I, {}) /\ Keeps(v, w, I) /\ Holds(v, w, I)
               /\ NoMore(v, w, I) /\ Same(v, w)
               /\ BlocAt(w, i, Leaf(f)) = 0
<1> DEFINE ino == v.disk[i]
           named == GrownTo(ino, f)
           x == Clean(v, 0)
           y == Put(x, i, named)
           z == Put(y, 0, Data(Zeros))
           w == Clean(z, 0)
           p == Leaf(f)
<1>1. /\ v \in Volume /\ i # 0 /\ i \in Bloc /\ 0 \in Bloc
      /\ ino \in Inode /\ v.nb = 0
  BY GivenBloc DEF Given
<1>2. Grown(ino.taille, f) \in 0 .. F /\ Grown(ino.taille, f) >= ino.taille
  <2>1. ino.taille \in 0 .. F /\ f \in 0 .. F - 1
    BY <1>1 DEF Inode
  <2> QED
    BY <2>1, GrownType
<1>3. /\ named \in Inode /\ named.taille = Grown(ino.taille, f)
      /\ named.indirect = ino.indirect /\ named.double = ino.double
      /\ named.direct = ino.direct
  BY <1>1, <1>2 DEF Inode, GrownTo
<1>4. named \in Sector /\ Data(Zeros) \in Sector
  BY <1>3, SectorKinds, NoEntries
<1> HIDE DEF named
<1>5. /\ x \in Volume /\ Same(v, x)
      /\ \A c \in Bloc : x.disk[c] = IF c = 0 THEN Data(Zeros) ELSE v.disk[c]
  BY <1>1, CleanIn
<1> HIDE DEF x
<1>6. /\ y \in Volume /\ Same(v, y)
      /\ \A c \in Bloc : y.disk[c] = IF c = i THEN named ELSE x.disk[c]
  BY <1>1, <1>4, <1>5, PutIn DEF Same
<1> HIDE DEF y
<1>7. /\ z \in Volume /\ Same(v, z)
      /\ \A c \in Bloc : z.disk[c] = IF c = 0 THEN Data(Zeros) ELSE y.disk[c]
  BY <1>1, <1>4, <1>6, PutIn DEF Same
<1> HIDE DEF z
<1>8. /\ w \in Volume /\ Same(v, w)
      /\ \A c \in Bloc : w.disk[c] = IF c = 0 THEN Data(Zeros) ELSE z.disk[c]
  BY <1>1, <1>7, CleanIn DEF Same
<1> HIDE DEF w
<1>9. w.disk[i] = named /\ w.disk[0] = Data(Zeros)
  BY <1>1, <1>6, <1>7, <1>8
<1>10. OnlyChanges(v, w, i, 0, {})
  BY <1>5, <1>6, <1>7, <1>8 DEF OnlyChanges
<1>11. \A c \in Tables(v, i), l \in 0 .. NB - 1 : NameIn(w, c, l) = NameIn(v, c, l)
  <2>1. Leaves(v, w, I, i, {})
    BY <1>10, Elsewhere DEF Given
  <2> QED
    BY <2>1, NameSame DEF Leaves
<1>12. ChangesAt(v, w, i, p, 0)
  <2>1. \A k \in 0 .. NB - 1 :
           /\ w.disk[i].direct[k] = v.disk[i].direct[k]
           /\ NameIn(w, w.disk[i].indirect, k) = NameIn(v, v.disk[i].indirect, k)
           /\ NameIn(w, w.disk[i].double, k) = NameIn(v, v.disk[i].double, k)
    BY <1>3, <1>9, <1>11 DEF Tables
  <2>2. \A g \in 2 * NB .. F - 1 :
           NameIn(w, NameIn(w, w.disk[i].double, Row(g)), Column(g))
              = NameIn(v, NameIn(v, v.disk[i].double, Row(g)), Column(g))
    BY <1>11, <2>1, RowColumn DEF Tables
  <2>3. NameIn(v, NameIn(v, v.disk[i].double, Row(f)), Column(f)) = 0
    BY DEF NameIn
  <2>4. /\ p # Indirect /\ p # Double
        /\ \A k : p # Direct(k) /\ p # AnEntry(k) /\ p # ARow(k)
        /\ \A g : p = Leaf(g) => g = f
    BY KindsApart
  <2>5. w.disk[i].indirect = v.disk[i].indirect /\ w.disk[i].double = v.disk[i].double
    BY <1>3, <1>9
  <2> HIDE DEF p
  <2> QED
    BY <2>1, <2>2, <2>3, <2>4, <2>5 DEF ChangesAt
<1>13. p \in Place /\ p[1] = "leaf" /\ BlocAt(v, i, p) = 0
  BY PlacesAre, PlaceOf DEF NameIn
<1>14. Names1(v, w, I, i, p, 0, {})
  <2>1. w.disk[0] = v.disk[0] \/ (v.nb = 0 /\ w.disk[0].kind = "bytes")
    BY <1>1, <1>9, SectorKinds, NoEntries
  <2>2. w.disk[i] \in Inode /\ w.disk[i].taille >= v.disk[i].taille
    BY <1>2, <1>3, <1>9
  <2> HIDE DEF p
  <2> QED
    BY <1>8, <1>10, <1>12, <2>1, <2>2 DEF Names1
<1>15. v.disk[i].double # 0 => w.disk[i].double # 0
  BY <1>3, <1>9
<1> HIDE DEF p
<1>16. Good(w, I, {}) /\ Keeps(v, w, I) /\ Holds(v, w, I)
       /\ NoMore(v, w, I) /\ BlocAt(w, i, p) = 0
  BY <1>13, <1>14, <1>15, Naming DEF Spares
<1> QED
  BY <1>8, <1>16 DEF p, w, z, y, x, named

LEMMA InRowOutcome ==
    ASSUME NEW v, NEW I, NEW i \in I, NEW f \in 2 * NB .. F - 1,
           NEW t, Outcome(v, I, i, ARow(Row(f)), t), RefusesClean(t),
           Starves(v, t.v, I)
    PROVE  Outcome(v, I, i, Leaf(f), InRow(t, i, f)) /\ Starves(v, InRow(t, i, f).v, I)
<1> DEFINE bytes == Table(t.v, t.b)
           k == Column(f)
           p == Leaf(f)
           q == ARow(Row(f))
<1>1. /\ Good(t.v, I, {}) /\ Keeps(v, t.v, I) /\ Holds(v, t.v, I)
      /\ t.v.end \in {"none", "given"}
      /\ t.v.end = "none" => t.b = BlocAt(t.v, i, q)
      /\ t.v.end = "none" /\ t.b = 0 => t.v.nb = 0 /\ t.v.disk[0] = Data(Zeros)
  BY DEF Outcome, RefusesClean, Refuses
<1>2. k \in 0 .. NB - 1 /\ Row(f) \in 0 .. NB - 1 /\ p \in Place /\ q \in Place
  BY RowColumn, PlacesAre
<1>3. /\ BlocAt(t.v, i, q) = NameIn(t.v, t.v.disk[i].double, Row(f))
      /\ BlocAt(t.v, i, p) = NameIn(t.v, BlocAt(t.v, i, q), k)
  BY PlaceOf
<1>4. CASE t.v.end # "none"
  <2>1. InRow(t, i, f) = t
    BY <1>4 DEF InRow
  <2> QED
    BY <1>1, <1>4, <2>1 DEF Outcome
<1>5. CASE t.v.end = "none" /\ t.b # 0
  <2>1. t.b = BlocAt(t.v, i, q)
    BY <1>1, <1>5
  <2>2. t.b \in Bloc /\ bytes \in Bytes /\ t.v.disk[t.b] = Data(bytes) /\ IsTable(t.v, t.b)
    BY <1>1, <1>2, <1>5, <2>1, NamedBloc
  <2>3. BlocAt(t.v, i, p) = Entry(bytes, k)
    BY <1>3, <1>5, <2>1, <2>2, NameEntry
  <2>4. CASE ~Level2Empty(bytes, k)
    <3>1. InRow(t, i, f) = Gives(t.v, Entry(bytes, k))
      BY <1>5, <2>2, <2>4 DEF InRow
    <3>2. Outcome(t.v, I, i, p, Gives(t.v, Entry(bytes, k)))
      BY <1>1, <1>5, <2>3, OutcomeThere
    <3> QED
      BY <1>1, <3>1, <3>2, OutcomeOn DEF Gives
  <2>5. CASE Level2Empty(bytes, k)
    <3> DEFINE n == NewBloc(t.v)
               r == LeafNamed(n, i, t.b, bytes, f)
    <3>1. InRow(t, i, f) = r
      BY <1>5, <2>2, <2>5 DEF InRow
    <3>2. /\ Keeps(t.v, n.v, I) /\ Holds(t.v, n.v, I) /\ Untouched(t.v, n.v, I)
          /\ NoMore(t.v, n.v, I) /\ (t.v.nb = 0 => n.b = 0)
          /\ \/ n.v.end = "given" /\ n.b = 0 /\ Good(n.v, I, {})
             \/ n.v.end = "none" /\ Given(n.v, I, n.b)
      BY <1>1, <1>5, NewBlocs
    <3> HIDE DEF n
    <3>3. Keeps(v, n.v, I) /\ Holds(v, n.v, I)
      BY <1>1, <3>2, KeepsOn, HoldsOn
    <3>4. Starves(v, n.v, I) /\ (v.nb = 0 => n.b = 0)
      BY <1>1, <3>2, NoMoreOn DEF Starves, Keeps
    <3>5. CASE n.v.end = "given"
      <4>1. r = Gives(n.v, n.b) /\ Good(n.v, I, {})
        BY <3>2, <3>5 DEF LeafNamed, Then
      <4> QED
        BY <3>1, <3>3, <3>5, <3>4, <4>1 DEF Outcome, Gives
    <3>6. CASE n.v.end = "none"
      <4>1. /\ n.v.disk[t.b] = t.v.disk[t.b] /\ BlocAt(n.v, i, q) = t.b
            /\ Given(n.v, I, n.b)
        BY <1>2, <1>5, <2>1, <3>2, <3>6 DEF Untouched
      <4>2. NameIn(n.v, n.v.disk[i].double, Row(f)) = t.b /\ Table(n.v, t.b) = bytes
        BY <4>1, PlaceOf DEF Table
      <4> DEFINE w == Clean(Put(Put(Clean(n.v, n.b), i, GrownTo(n.v.disk[i], f)), t.b,
                                Data(WithEntry(bytes, k, n.b))), n.b)
      <4>3. r = Gives(w, n.b)
        BY <3>6 DEF LeafNamed, Then, GrownTo
      <4>4. /\ Good(w, I, {}) /\ Keeps(n.v, w, I) /\ Holds(n.v, w, I) /\ Same(n.v, w)
            /\ BlocAt(w, i, p) = n.b /\ Spares(n.v, w, I, n.b)
        <5> DEFINE u == n.v
                   c == n.b
                   x == t.b
        <5>1. /\ Given(u, I, c) /\ x = NameIn(u, u.disk[i].double, Row(f)) /\ x # 0
              /\ Table(u, x) = bytes
          BY <1>5, <4>1, <4>2
        <5> HIDE DEF u, c, x, bytes
        <5>2. LET y == Clean(Put(Put(Clean(u, c), i, GrownTo(u.disk[i], f)), x,
                                 Data(WithEntry(bytes, k, c))), c)
              IN  /\ Good(y, I, {}) /\ Keeps(u, y, I) /\ Holds(u, y, I) /\ Same(u, y)
                  /\ BlocAt(y, i, p) = c /\ Spares(u, y, I, c)
          BY <5>1, NameLeaf
        <5> QED
          BY <5>2 DEF u, c, x
      <4> HIDE DEF w
      <4>5. Outcome(n.v, I, i, p, r)
        BY <3>6, <4>1, <4>3, <4>4 DEF Outcome, Gives, Same
      <4>6. Starves(v, r.v, I)
        BY <3>4, <4>3, <4>4, StarvesOn DEF Gives
      <4> QED
        BY <3>1, <3>3, <4>5, <4>6, OutcomeOn
    <3> QED
      BY <3>2, <3>5, <3>6
  <2> QED
    BY <2>4, <2>5
<1>6. CASE t.v.end = "none" /\ t.b = 0
  <2>1. /\ t.v.nb = 0 /\ t.v.disk[0] = Data(Zeros) /\ bytes = Zeros /\ 0 \in Bloc
        /\ IsTable(t.v, 0)
    BY <1>1, <1>6, SectorKinds, NoEntries DEF Table, IsTable, Bloc
  <2> DEFINE w == Clean(Put(Put(Clean(t.v, 0), i, GrownTo(t.v.disk[i], f)), 0,
                            Data(Zeros)), 0)
  <2>2. InRow(t, i, f) = Gives(w, 0)
    <3>1. NewBloc(t.v) = [v |-> t.v, b |-> 0]
      BY <2>1 DEF NewBloc
    <3>2. Level2Empty(Zeros, k)
      <4>1. Zeros[k] = 0
        BY <1>2, TwoPlaces DEF Zeros
      <4>2. W * 0 + 0 = 0
        OBVIOUS
      <4> QED
        BY <4>1, <4>2 DEF Level2Empty
    <3>3. InRow(t, i, f) = LeafNamed(NewBloc(t.v), i, 0, Zeros, f)
      BY <1>6, <2>1, <3>2 DEF InRow
    <3>4. WithEntry(Zeros, k, 0) = Zeros
      BY <1>2, ZerosAgain
    <3> QED
      BY <1>6, <3>1, <3>3, <3>4 DEF LeafNamed, Then, GrownTo
  <2>3. /\ Good(w, I, {}) /\ Keeps(t.v, w, I) /\ Holds(t.v, w, I) /\ Same(t.v, w)
        /\ BlocAt(w, i, p) = 0 /\ NoMore(t.v, w, I)
    <3> DEFINE u == t.v
    <3>1. {0} \ {0} = {} /\ Given(u, I, 0) /\ NameIn(u, u.disk[i].double, Row(f)) = 0
      BY <1>1, <1>3, <1>6, <2>1 DEF Given
    <3> HIDE DEF u
    <3>2. LET y == Clean(Put(Put(Clean(u, 0), i, GrownTo(u.disk[i], f)), 0, Data(Zeros)), 0)
          IN  /\ Good(y, I, {}) /\ Keeps(u, y, I) /\ Holds(u, y, I) /\ Same(u, y)
              /\ BlocAt(y, i, p) = 0 /\ NoMore(u, y, I)
      BY <3>1, NameNothing
    <3> QED
      BY <3>2 DEF u
  <2> HIDE DEF w
  <2>4. Outcome(t.v, I, i, p, Gives(w, 0))
    BY <1>6, <2>3 DEF Outcome, Gives, Same
  <2>5. Starves(v, w, I)
    BY <2>3, NoMoreOn DEF Starves
  <2> QED
    BY <1>1, <2>2, <2>4, <2>5, OutcomeOn DEF Gives
<1> QED
  BY <1>1, <1>4, <1>5, <1>6

-----------------------------------------------------------------------------
(* vbloc_of_fbloc, and allocate_vbloc_of_fbloc for any index.               *)

\* Level2 finds the table of a row.
LEMMA RowFound ==
    ASSUME NEW v, NEW I, NEW L, Good(v, I, L), NEW i \in I, NEW k \in 0 .. NB - 1,
           v.disk[i].double # 0
    PROVE  /\ Level2(Table(v, v.disk[i].double), k) = NameIn(v, v.disk[i].double, k)
           /\ NameIn(v, v.disk[i].double, k) # 0 => IsTable(v, NameIn(v, v.disk[i].double, k))
<1> DEFINE t == v.disk[i].double
           bytes == Table(v, t)
<1>1. t \in Tables(v, i)
  BY DEF Tables
<1>2. t \in Bloc /\ bytes \in Bytes /\ v.disk[t] = Data(bytes)
  BY <1>1, TableApart
<1>3. NameIn(v, t, k) = Entry(bytes, k)
  BY <1>2, NameEntry
<1>4. ARow(k) \in Place /\ ARow(k)[1] = "row" /\ BlocAt(v, i, ARow(k)) = NameIn(v, t, k)
  BY PlaceOf, PlacesAre
<1>5. NameIn(v, t, k) # 0 => NameIn(v, t, k) < W /\ IsTable(v, NameIn(v, t, k))
  BY <1>4, NamedBloc
<1>6. Entry(bytes, k) < W
  BY <1>3, <1>5
<1> QED
  BY <1>2, <1>3, <1>5, <1>6, LevelTwo

LEMMA Legibly ==
    ASSUME NEW v, NEW I, NEW L, Good(v, I, L), NEW i \in I, NEW f
    PROVE  Legible(v, i, f)
<1>1. v.disk[i].indirect # 0 => IsTable(v, v.disk[i].indirect)
  BY TableApart DEF Tables
<1>2. v.disk[i].double # 0 => IsTable(v, v.disk[i].double)
  BY TableApart DEF Tables
<1>3. ASSUME f \in 2 * NB .. F - 1, v.disk[i].double # 0
      PROVE  LET b2 == Level2(Table(v, v.disk[i].double), Row(f))
             IN  b2 = 0 \/ IsTable(v, b2)
  BY <1>3, RowColumn, RowFound
<1> QED
  BY <1>1, <1>2, <1>3 DEF Legible

\* In the first two levels, the bloc that is found is the one that is named.
LEMMA LookupNamed ==
    ASSUME NEW v, NEW I, NEW L, Good(v, I, L), NEW i \in I, NEW f \in 0 .. 2 * NB - 1
    PROVE  Lookup(v, i, f) = At2(v, i, f) /\ Content(v, i, f) = HeldAt(v, i, f)
<1>1. f \in 0 .. F - 1 /\ Spot(f) \in Place
  BY Below2, SpotPlace
<1>2. Lookup(v, i, f) = At2(v, i, f)
  <2>1. CASE f < NB
    <3>1. Spot(f) = Direct(f)
      BY <1>1, <2>1, SpotPlace
    <3> QED
      BY <2>1, <3>1, PlaceOf DEF Lookup, At2
  <2>2. CASE f \in NB .. 2 * NB - 1
    <3>1. Spot(f) = AnEntry(f - NB)
      BY <1>1, <2>2, SpotPlace
    <3> DEFINE t == v.disk[i].indirect
    <3>2. At2(v, i, f) = NameIn(v, t, f - NB)
      BY <3>1, PlaceOf DEF At2
    <3>3. ~(f < NB)
      BY <2>2
    <3>4. Lookup(v, i, f) = IF t = 0 THEN 0 ELSE Entry(Table(v, t), f - NB)
      BY <2>2, <3>3 DEF Lookup
    <3>5. t # 0 => IsTable(v, t)
      BY TableApart DEF Tables
    <3> QED
      BY <3>2, <3>4, <3>5 DEF NameIn
  <2> QED
    BY <2>1, <2>2
<1>3. Legible(v, i, f)
  BY Legibly
<1>4. At2(v, i, f) # 0 => IsTable(v, At2(v, i, f))
  BY <1>1, NamedBloc DEF At2
<1> QED
  BY <1>2, <1>3, <1>4 DEF Content, HeldAt

\* In the second level it is that one or none.
LEMMA LookupLeaf ==
    ASSUME NEW v, NEW I, NEW L, Good(v, I, L), NEW i \in I, NEW f \in 2 * NB .. F - 1
    PROVE  Lookup(v, i, f) = 0 \/ Lookup(v, i, f) = BlocAt(v, i, Leaf(f))
<1> DEFINE t == v.disk[i].double
           b2 == NameIn(v, t, Row(f))
<1>1. ~(f < NB) /\ f \notin NB .. 2 * NB - 1
  OBVIOUS
<1>2. Lookup(v, i, f) = IF t = 0 THEN 0 ELSE LookupDouble(v, v.disk[i], f)
  BY <1>1 DEF Lookup
<1>3. BlocAt(v, i, Leaf(f)) = NameIn(v, b2, Column(f))
  BY PlaceOf
<1>4. CASE t # 0
  <2>1. Level2(Table(v, t), Row(f)) = b2 /\ (b2 # 0 => IsTable(v, b2))
    BY <1>4, RowColumn, RowFound
  <2> HIDE DEF b2
  <2>2. \/ LookupDouble(v, v.disk[i], f) = 0
        \/ b2 # 0 /\ LookupDouble(v, v.disk[i], f) = Entry(Table(v, b2), Column(f))
    BY <2>1 DEF LookupDouble
  <2> QED
    BY <1>2, <1>3, <2>1, <2>2 DEF NameIn
<1> QED
  BY <1>2, <1>4

LEMMA LookupSpot ==
    ASSUME NEW v, NEW I, NEW L, Good(v, I, L), NEW i \in I, NEW f \in 0 .. F - 1
    PROVE  Lookup(v, i, f) = 0 \/ Lookup(v, i, f) = BlocAt(v, i, Spot(f))
<1>1. CASE f \in 0 .. 2 * NB - 1
  BY <1>1, LookupNamed DEF At2
<1>2. CASE f \in 2 * NB .. F - 1
  BY <1>2, LookupLeaf, SpotPlace
<1> QED
  BY <1>1, <1>2

\* A bloc that can be found is of bytes.
LEMMA ContentType ==
    ASSUME NEW v \in Volume, NEW i, NEW f
    PROVE  Content(v, i, f) \in Bytes
<1>1. ASSUME NEW b, IsTable(v, b)
      PROVE  Table(v, b) \in Bytes
  <2>1. b \in Bloc /\ v.disk[b] \in Sector /\ v.disk[b].kind = "bytes"
    BY <1>1, VolumeType DEF IsTable
  <2> QED
    BY <2>1, SectorKinds DEF Table
<1> QED
  BY <1>1, NoEntries DEF Content

LEMMA AllocateOutcome ==
    ASSUME NEW v, NEW I, Good(v, I, {}), v.end = "none", NEW i \in I, NEW f \in 0 .. F - 1
    PROVE  LET r == Allocate(v, i, f)
           IN  \/ Stray(r.v)
               \/ /\ Outcome(v, I, i, Spot(f), r) /\ Starves(v, r.v, I)
                  /\ f < 2 * NB \/ At2(v, i, f) # 0 \/ v.nb = 0 => Refuses(r)
<1>1. Legible(v, i, f)
  BY Legibly
<1>2. v.disk[i].kind = "inode"
  BY InodeType DEF Good
<1>3. CASE f < NB
  <2>1. Allocate(v, i, f) = AllocateDirect(v, i, f)
    BY <1>1, <1>2, <1>3 DEF Allocate
  <2>2. f \in 0 .. NB - 1 /\ Spot(f) = Direct(f)
    BY <1>3, SpotPlace
  <2> DEFINE r == AllocateDirect(v, i, f)
  <2>3. Outcome(v, I, i, Direct(f), r) /\ Refuses(r) /\ Starves(v, r.v, I)
    BY <2>2, DirectOutcome
  <2> QED
    BY <2>1, <2>2, <2>3
<1>4. CASE f \in NB .. 2 * NB - 1
  <2> DEFINE t == WithIndirect(v, i, f)
             r == InTable(t, f - NB)
  <2>1. Allocate(v, i, f) = r
    <3>1. ~(f < NB)
      BY <1>4
    <3> QED
      BY <1>1, <1>2, <1>4, <3>1 DEF Allocate, AllocateIndirect
  <2>2. f - NB \in 0 .. NB - 1 /\ Spot(f) = AnEntry(f - NB)
    BY <1>4, SpotPlace
  <2>3. Outcome(v, I, i, Indirect, t) /\ RefusesClean(t) /\ Starves(v, t.v, I)
    BY WithIndirectOutcome
  <2> HIDE DEF t
  <2>4. Outcome(v, I, i, AnEntry(f - NB), r) /\ Refuses(r) /\ Starves(v, r.v, I)
    BY <2>2, <2>3, InTableOutcome
  <2> QED
    BY <2>1, <2>2, <2>4
<1>5. CASE f \in 2 * NB .. F - 1
  <2> DEFINE t == WithDouble(v, i)
             s == WithRow(t, f)
             r == InRow(s, i, f)
  <2>1. Allocate(v, i, f) = r
    <3>1. ~(f < NB) /\ f \notin NB .. 2 * NB - 1
      BY <1>5
    <3> QED
      BY <1>1, <1>2, <1>5, <3>1 DEF Allocate, AllocateDouble
  <2>2. Outcome(v, I, i, Double, t) /\ RefusesClean(t) /\ Starves(v, t.v, I)
    BY WithDoubleOutcome
  <2> HIDE DEF t
  <2>3. \/ Stray(s.v)
        \/ Outcome(v, I, i, ARow(Row(f)), s) /\ RefusesClean(s) /\ Starves(v, s.v, I)
    BY <1>5, <2>2, WithRowOutcome
  <2> HIDE DEF s
  <2>4. CASE Stray(s.v)
    BY <2>1, <2>4, StrayEntries
  <2>5. CASE Outcome(v, I, i, ARow(Row(f)), s) /\ RefusesClean(s) /\ Starves(v, s.v, I)
    <3>1. Outcome(v, I, i, Leaf(f), r) /\ Starves(v, r.v, I)
      BY <1>5, <2>5, InRowOutcome
    <3>2. Spot(f) = Leaf(f) /\ ~(f < 2 * NB)
      BY <1>5, SpotPlace
    <3> HIDE DEF r
    <3>3. ASSUME At2(v, i, f) # 0 \/ v.nb = 0
          PROVE  Refuses(r)
      <4>1. Keeps(v, r.v, I) /\ (r.v.end = "none" => r.b = At2(r.v, i, f))
        BY <3>1, <3>2 DEF Outcome, At2
      <4> QED
        BY <1>5, <3>3, <4>1 DEF Keeps, Refuses
    <3> QED
      BY <2>1, <3>1, <3>2, <3>3
  <2> QED
    BY <2>3, <2>4, <2>5
<1> QED
  BY <1>3, <1>4, <1>5

-----------------------------------------------------------------------------
(* flush_ifile and seek_ifile.                                              *)

\* A descriptor, open or not.
FdType == [open : BOOLEAN, inoeud : Bloc, cursor : 0 .. MaxPos - 1, size : 0 .. F,
           buffer : Bytes, modified : BOOLEAN]

LEMMA Positions ==
    /\ MaxPos \in Nat /\ MaxPos > 0
    /\ \A pos \in 0 .. MaxPos - 1 : Fbloc(pos) \in 0 .. F - 1
    /\ \A pos \in 0 .. MaxPos : Fbloc(pos) \in 0 .. F - 1 \/ Fbloc(pos) = F
    /\ \A pos \in 0 .. MaxPos : Fbloc(pos) \in 0 .. F - 1 => pos \in 0 .. MaxPos - 1
    /\ Fbloc(0) = 0
<1>1. MaxPos \in Nat /\ MaxPos > 0 /\ MaxPos = S * F
  <2>1. F > 0
    OBVIOUS
  <2> HIDE DEF F
  <2> QED
    BY <2>1 DEF MaxPos
<1>2. ASSUME NEW pos \in 0 .. MaxPos - 1
      PROVE  Fbloc(pos) \in 0 .. F - 1
  <2>1. pos \in Nat /\ pos < S * F /\ S \in Nat \ {0} /\ F \in Nat
    BY <1>1
  <2>2. pos \div S \in Nat /\ pos \div S < F
    BY <2>1, Division, Below
  <2> QED
    BY <2>2 DEF Fbloc
<1>3. Fbloc(MaxPos) = F
  <2>1. F \in Nat /\ S \in Nat \ {0} /\ MaxPos = S * F
    BY <1>1
  <2> HIDE DEF F, MaxPos
  <2>2. MaxPos \div S \in Nat /\ MaxPos = S * (MaxPos \div S) + (MaxPos % S)
        /\ MaxPos % S \in 0 .. S - 1
    BY <1>1, <2>1, Division
  <2> DEFINE q == MaxPos \div S
             r == MaxPos % S
  <2>3. S * F = S * q + r /\ r \in 0 .. S - 1 /\ q \in Nat
    BY <2>1, <2>2
  <2> HIDE DEF q, r
  <2>4. q = F
    <3>1. q < F => S * q + S <= S * F
      <4>1. q < F => q + 1 <= F
        BY <2>1, <2>3
      <4>2. q + 1 <= F => S * (q + 1) <= S * F
        BY <2>1, <2>3
      <4>3. S * (q + 1) = S * q + S
        BY <2>1, <2>3
      <4> QED
        BY <4>1, <4>2, <4>3
    <3>2. q > F => S * q >= S * F + S
      <4>1. q > F => q >= F + 1
        BY <2>1, <2>3
      <4>2. q >= F + 1 => S * q >= S * (F + 1)
        BY <2>1, <2>3
      <4>3. S * (F + 1) = S * F + S
        BY <2>1, <2>3
      <4> QED
        BY <4>1, <4>2, <4>3
    <3>3. S * q \in Int /\ S * F \in Int
      BY <2>1, <2>3
    <3> QED
      BY <2>1, <2>3, <3>1, <3>2, <3>3
  <2> QED
    BY <2>4 DEF Fbloc, q
<1>4. 0 \div S = 0
  OBVIOUS
<1>5. Fbloc(0) = 0
  BY <1>4 DEF Fbloc
<1>6. \A pos \in 0 .. MaxPos : pos \in 0 .. MaxPos - 1 \/ pos = MaxPos
  BY <1>1
<1> HIDE DEF F, MaxPos, Fbloc
<1>7. F \notin 0 .. F - 1
  OBVIOUS
<1> QED
  BY <1>1, <1>2, <1>3, <1>5, <1>6, <1>7

\* Of a descriptor on the volume: the bloc that its buffer comes from is there.
OnFile(v, I, d) ==
    d.open => /\ d.inoeud \in I
              /\ At(d) < 2 * NB \/ At2(v, d.inoeud, At(d)) # 0 \/ v.nb = 0

LEMMA FdTyped ==
    ASSUME NEW d \in FdType
    PROVE  /\ d.open \in BOOLEAN /\ d.modified \in BOOLEAN /\ d.inoeud \in Bloc
           /\ d.cursor \in 0 .. MaxPos - 1 /\ d.size \in 0 .. F /\ d.buffer \in Bytes
           /\ At(d) \in 0 .. F - 1
<1>1. /\ d.open \in BOOLEAN /\ d.modified \in BOOLEAN /\ d.inoeud \in Bloc
      /\ d.cursor \in 0 .. MaxPos - 1 /\ d.size \in 0 .. F /\ d.buffer \in Bytes
  BY DEF FdType
<1> QED
  BY <1>1, Positions DEF At

LEMMA OnFileKept ==
    ASSUME NEW v, NEW w, NEW I, NEW d \in FdType, OnFile(v, I, d), Keeps(v, w, I)
    PROVE  OnFile(w, I, d)
<1> SUFFICES ASSUME d.open PROVE OnFile(w, I, d)
  BY DEF OnFile
<1>1. d.inoeud \in I /\ (At(d) < 2 * NB \/ At2(v, d.inoeud, At(d)) # 0 \/ v.nb = 0)
  BY DEF OnFile
<1>2. At(d) \in 0 .. F - 1
  BY FdTyped
<1>3. CASE At(d) < 2 * NB
  BY <1>1, <1>3 DEF OnFile
<1>4. CASE ~(At(d) < 2 * NB)
  <2>1. At(d) \in 2 * NB .. F - 1
    BY <1>2, <1>4
  <2> QED
    BY <1>1, <2>1 DEF OnFile, Keeps
<1> QED
  BY <1>3, <1>4

\* What a flush leaves: the bloc of the buffer holds the buffer, when there is one.
OnlyAt(v, w, I, d) ==
    \A j \in I, f \in 0 .. 2 * NB - 1 :
        j # d.inoeud \/ f # At(d) => HeldAt(w, j, f) = HeldAt(v, j, f)
Wrote(w, d) ==
    At(d) < 2 * NB =>
        /\ At2(w, d.inoeud, At(d)) # 0 \/ w.nb = 0
        /\ HeldAt(w, d.inoeud, At(d)) = IF Refused(w, d) THEN Zeros ELSE d.buffer

Flushed(v, w, I, d) ==
    /\ Good(w, I, {}) /\ Keeps(v, w, I) /\ OnlyAt(v, w, I, d) /\ Starves(v, w, I)
    /\ w.end \in {"none", "given"}
    /\ w.end = "none" /\ d.modified => Wrote(w, d)
    /\ ~d.modified => w = v

LEMMA RefusedIs ==
    ASSUME NEW v, NEW I, Good(v, I, {}), NEW d, d.inoeud \in I, At(d) \in 0 .. 2 * NB - 1
    PROVE  Refused(v, d) <=> v.nb = 0 /\ At2(v, d.inoeud, At(d)) = 0
  BY Legibly, LookupNamed DEF Refused

LEMMA WrittenFlushes ==
    ASSUME NEW v, NEW I, Good(v, I, {}), NEW d \in FdType, d.open, OnFile(v, I, d), d.modified,
           NEW a, Outcome(v, I, d.inoeud, Spot(At(d)), a), Refuses(a), Starves(v, a.v, I)
    PROVE  Flushed(v, Written(a, d), I, d)
<1> DEFINE i == d.inoeud
           f == At(d)
           b == a.b
           w == Put(a.v, a.b, Data(d.buffer))
<1>1. /\ Good(a.v, I, {}) /\ Keeps(v, a.v, I) /\ Holds(v, a.v, I)
      /\ a.v.end \in {"none", "given"}
      /\ a.v.end = "none" => b = At2(a.v, i, f) /\ (b = 0 => a.v.nb = 0)
  BY DEF Outcome, Refuses, At2
<1>2. i \in I /\ f \in 0 .. F - 1 /\ d.buffer \in Bytes
  BY FdTyped DEF OnFile
<1>3. CASE a.v.end # "none"
  <2>1. Written(a, d) = a.v
    BY <1>3 DEF Written, Then
  <2>2. OnlyAt(v, a.v, I, d)
    BY <1>1 DEF OnlyAt, Holds
  <2> QED
    BY <1>1, <1>3, <2>1, <2>2 DEF Flushed
<1>4. CASE a.v.end = "none"
  <2>1. Written(a, d) = w
    BY <1>4 DEF Written, Then
  <2>2. Spot(f) \in Place /\ Spot(f)[1] \in {"direct", "entry", "leaf"}
    <3>1. f < NB \/ f \in NB .. 2 * NB - 1 \/ f >= 2 * NB
      BY <1>2
    <3> QED
      BY <1>2, <3>1, SpotPlace
  <2>3. b \in Bloc /\ b \notin I /\ (b # 0 => \A j \in I : b \notin Tables(a.v, j))
    <3>1. CASE b = 0
      BY <1>1, <3>1, InodeType DEF Good, Bloc
    <3>2. CASE b # 0
      <4>1. b \in Bloc /\ b \notin I /\ b = BlocAt(a.v, i, Spot(f)) /\ b # 0
        BY <1>1, <1>2, <1>4, <2>2, <3>2, NamedBloc DEF At2
      <4>2. ASSUME NEW j \in I, b \in Tables(a.v, j) PROVE FALSE
        BY <1>1, <1>2, <2>2, <4>1, <4>2, TableApart
      <4> QED
        BY <4>1, <4>2
    <3> QED
      BY <3>1, <3>2
  <2>4. /\ Good(w, I, {}) /\ Same(a.v, w) /\ Keeps(a.v, w, I)
        /\ \A j \in I, p \in Place : BlocAt(w, j, p) = BlocAt(a.v, j, p)
        /\ \A j \in I, p \in Place : BlocAt(a.v, j, p) # 0 /\ BlocAt(a.v, j, p) # b =>
              Table(w, BlocAt(a.v, j, p)) = Table(a.v, BlocAt(a.v, j, p))
        /\ \A j \in I, p \in Place : BlocAt(a.v, j, p) # 0 /\ BlocAt(a.v, j, p) = b =>
              Table(w, BlocAt(a.v, j, p)) = d.buffer
    <3> DEFINE u == a.v
               t == d.buffer
    <3>1. Good(u, I, {}) /\ b \in Bloc /\ t \in Bytes /\ (b = 0 => u.nb = 0) /\ b \notin I
          /\ (b # 0 => \A j \in I : b \notin Tables(u, j))
      BY <1>1, <1>2, <1>4, <2>3
    <3> HIDE DEF u, t, b, w
    <3>2. w = Put(u, b, Data(t))
      BY DEF w, u, t, b
    <3>3. LET y == Put(u, b, Data(t))
          IN  /\ Good(y, I, {}) /\ Same(u, y) /\ Keeps(u, y, I)
              /\ \A c \in Bloc : y.disk[c] = IF c = b THEN Data(t) ELSE u.disk[c]
              /\ \A j \in I, p \in Place : BlocAt(y, j, p) = BlocAt(u, j, p)
              /\ \A j \in I, p \in Place : BlocAt(u, j, p) # 0 /\ BlocAt(u, j, p) # b =>
                    Table(y, BlocAt(u, j, p)) = Table(u, BlocAt(u, j, p))
              /\ \A j \in I, p \in Place : BlocAt(u, j, p) # 0 /\ BlocAt(u, j, p) = b =>
                    Table(y, BlocAt(u, j, p)) = t
      BY <3>1, WriteData
    <3> QED
      BY <3>2, <3>3 DEF u, t
  <2> HIDE DEF w
  <2>5. \A j \in I, g \in 0 .. 2 * NB - 1 :
           /\ At2(w, j, g) = At2(a.v, j, g) /\ Spot(g) \in Place
           /\ At2(a.v, j, g) # 0 =>
                 Table(w, At2(a.v, j, g)) = IF At2(a.v, j, g) = b THEN d.buffer
                                            ELSE Table(a.v, At2(a.v, j, g))
    BY <2>4, Below2, SpotPlace DEF At2
  <2>6. OnlyAt(v, w, I, d)
    <3> SUFFICES ASSUME NEW j \in I, NEW g \in 0 .. 2 * NB - 1, j # i \/ g # f
                 PROVE  HeldAt(w, j, g) = HeldAt(v, j, g)
      BY DEF OnlyAt
    <3>1. At2(a.v, j, g) # 0 => At2(a.v, j, g) # b
      <4>1. g \in 0 .. F - 1 /\ (Spot(g) = Spot(f) => g = f)
        BY <1>2, Below2, SpotsApart
      <4>2. At2(a.v, j, g) # 0 /\ At2(a.v, j, g) = At2(a.v, i, f) => j = i /\ Spot(g) = Spot(f)
        BY <1>1, <1>2, <2>2, <2>5 DEF Good, Distinct, At2
      <4> QED
        BY <1>1, <1>4, <4>1, <4>2
    <3>2. HeldAt(w, j, g) = HeldAt(a.v, j, g)
      BY <2>5, <3>1 DEF HeldAt
    <3> QED
      BY <1>1, <3>2 DEF Holds
  <2>7. Wrote(w, d)
    <3> SUFFICES ASSUME f < 2 * NB
                 PROVE  /\ At2(w, i, f) # 0 \/ w.nb = 0
                        /\ HeldAt(w, i, f) = IF Refused(w, d) THEN Zeros ELSE d.buffer
      BY DEF Wrote
    <3>1. f \in 0 .. 2 * NB - 1
      BY <1>2
    <3>2. Refused(w, d) <=> w.nb = 0 /\ At2(w, i, f) = 0
      BY <1>2, <2>4, <3>1, RefusedIs
    <3>3. At2(w, i, f) = b /\ (b = 0 => w.nb = 0)
      BY <1>1, <1>2, <1>4, <2>4, <2>5, <3>1 DEF Same
    <3> QED
      BY <1>1, <1>2, <1>4, <2>5, <3>1, <3>2, <3>3 DEF HeldAt
  <2>8. Keeps(v, w, I)
    BY <1>1, <2>4, KeepsOn
  <2>9. Starves(v, w, I)
    <3>1. Starves(a.v, w, I)
      BY <2>5 DEF Starves, NoMore
    <3> QED
      BY <1>1, <3>1, StarvesAfter
  <2> QED
    BY <1>4, <2>1, <2>4, <2>6, <2>7, <2>8, <2>9 DEF Flushed, Same
<1> QED
  BY <1>3, <1>4

LEMMA FlushOutcome ==
    ASSUME NEW v, NEW I, Good(v, I, {}), v.end = "none", NEW d \in FdType, d.open,
           OnFile(v, I, d)
    PROVE  Stray(FlushIfile(v, d)) \/ Flushed(v, FlushIfile(v, d), I, d)
<1>1. CASE ~d.modified
  <2>1. FlushIfile(v, d) = v
    BY <1>1 DEF FlushIfile
  <2>2. OnlyAt(v, v, I, d) /\ Starves(v, v, I)
    BY DEF OnlyAt, Starves, NoMore
  <2> QED
    BY <1>1, <2>1, <2>2, KeepsSelf DEF Flushed
<1>2. CASE d.modified
  <2> DEFINE a == Allocate(v, d.inoeud, At(d))
  <2>1. FlushIfile(v, d) = Written(a, d)
    BY <1>2 DEF FlushIfile
  <2>2. d.inoeud \in I /\ At(d) \in 0 .. F - 1
        /\ (At(d) < 2 * NB \/ At2(v, d.inoeud, At(d)) # 0 \/ v.nb = 0)
    BY FdTyped DEF OnFile
  <2>3. \/ Stray(a.v)
        \/ Outcome(v, I, d.inoeud, Spot(At(d)), a) /\ Refuses(a) /\ Starves(v, a.v, I)
    BY <2>2, AllocateOutcome
  <2> HIDE DEF a
  <2>4. CASE Stray(a.v)
    <3>1. Stray(Put(a.v, a.b, Data(d.buffer)))
      BY <2>4, StrayPut
    <3> QED
      BY <2>1, <2>4, <3>1, StrayPut DEF Written
  <2>5. CASE Outcome(v, I, d.inoeud, Spot(At(d)), a) /\ Refuses(a) /\ Starves(v, a.v, I)
    BY <1>2, <2>1, <2>5, WrittenFlushes
  <2> QED
    BY <2>3, <2>4, <2>5
<1>3. d.modified \in BOOLEAN
  BY FdTyped
<1> QED
  BY <1>1, <1>2, <1>3

LEMMA StraySeek ==
    ASSUME NEW d, NEW pos
    PROVE  /\ \A v : Stray(v) => Stray(FlushIfile(v, d)) /\ Stray(SeekIfile(v, d, pos).v)
           /\ \A a : Stray(a.v) => Stray(Moved(a, d, pos).v)
<1>1. ASSUME NEW a, Stray(a.v)
      PROVE  Stray(Moved(a, d, pos).v) /\ Stray(Written(a, d))
  <2>1. Stray(Ends(a.v, "exit")) /\ Stray(Ends(a.v, "wild"))
        /\ Stray(Put(a.v, a.b, Data(d.buffer)))
    BY <1>1, StrayPut
  <2>2. Stray(Then(a.v, Put(a.v, a.b, Data(d.buffer))))
    BY <1>1, <2>1, StrayPut
  <2> QED
    BY <1>1, <2>1, <2>2 DEF Moved, Written
<1>2. ASSUME NEW v, Stray(v)
      PROVE  Stray(FlushIfile(v, d)) /\ Stray(SeekIfile(v, d, pos).v)
  <2>1. Stray(FlushIfile(v, d))
    <3>1. Stray(Allocate(v, d.inoeud, At(d)).v)
      BY <1>2, StrayAllocate
    <3> QED
      BY <1>1, <1>2, <3>1 DEF FlushIfile
  <2>2. Stray(Allocate(FlushIfile(v, d), d.inoeud, Fbloc(pos)).v)
    BY <2>1, StrayAllocate
  <2>3. Stray(Moved(Allocate(FlushIfile(v, d), d.inoeud, Fbloc(pos)), d, pos).v)
    BY <1>1, <2>2
  <2> QED
    BY <1>2, <2>1, <2>3 DEF SeekIfile
<1> QED
  BY <1>1, <1>2

\* What a seek leaves.  When the bloc changes, the old one holds the buffer and the
\* buffer is the new one.
Left(v, w, d) ==
    At(d) < 2 * NB =>
        HeldAt(w, d.inoeud, At(d)) = IF ~d.modified THEN HeldAt(v, d.inoeud, At(d))
                                   ELSE IF Refused(w, d) THEN Zeros ELSE d.buffer
Reads(w, d) == At(d) < 2 * NB => d.buffer = HeldAt(w, d.inoeud, At(d))

Sails(v, s, I, d, pos) ==
    /\ Good(s.v, I, {}) /\ Keeps(v, s.v, I) /\ OnlyAt(v, s.v, I, d) /\ Starves(v, s.v, I)
    /\ s.v.end \in {"none", "exit", "given"}
    /\ s.v.end # "none" => s.d = d
    /\ s.v.end = "none" =>
          /\ s.d \in FdType /\ s.d.open /\ s.d.inoeud = d.inoeud /\ s.d.modified = d.modified
          /\ s.d.cursor = pos /\ s.d.size = d.size
          /\ OnFile(s.v, I, s.d) /\ At(s.d) = Fbloc(pos)
          /\ IF At(s.d) = At(d) THEN s.v = v /\ s.d.buffer = d.buffer
             ELSE /\ Left(v, s.v, d) /\ Reads(s.v, s.d)
                  /\ At2(s.v, d.inoeud, At(s.d)) # 0

LEMMA OnlyAtOn ==
    ASSUME NEW u, NEW v, NEW w, NEW I, NEW d, OnlyAt(u, v, I, d), Holds(v, w, I)
    PROVE  OnlyAt(u, w, I, d)
  BY DEF OnlyAt, Holds

\* An allocation after the flush does not change what the flush left.
LEMMA LeftOn ==
    ASSUME NEW v, NEW w, NEW x, NEW I, NEW d \in FdType, d.inoeud \in I, Flushed(v, w, I, d),
           w.end = "none", Good(x, I, {}), Keeps(w, x, I), Holds(w, x, I), Starves(w, x, I)
    PROVE  Left(v, x, d)
<1> DEFINE i == d.inoeud
           f == At(d)
<1> SUFFICES ASSUME f < 2 * NB
             PROVE  HeldAt(x, i, f) = IF ~d.modified THEN HeldAt(v, i, f)
                                    ELSE IF Refused(x, d) THEN Zeros ELSE d.buffer
  BY DEF Left
<1>1. f \in 0 .. 2 * NB - 1
  BY FdTyped
<1>2. HeldAt(x, i, f) = HeldAt(w, i, f)
  BY <1>1 DEF Holds
<1>3. ~d.modified => w = v
  BY DEF Flushed
<1>4. d.modified => (Refused(x, d) <=> Refused(w, d))
  <2>1. Good(w, I, {})
    BY DEF Flushed
  <2>2. Refused(x, d) <=> x.nb = 0 /\ At2(x, i, f) = 0
    BY <1>1, RefusedIs
  <2>3. Refused(w, d) <=> w.nb = 0 /\ At2(w, i, f) = 0
    BY <1>1, <2>1, RefusedIs
  <2>4. At2(w, i, f) # 0 => At2(x, i, f) # 0
    BY <1>1 DEF Keeps
  <2>5. w.nb = 0 => x.nb = 0 /\ At2(x, i, f) = At2(w, i, f)
    BY <1>1 DEF Keeps, Starves, NoMore
  <2>6. d.modified => At2(w, i, f) # 0 \/ w.nb = 0
    BY DEF Flushed, Wrote
  <2> QED
    BY <2>2, <2>3, <2>4, <2>5, <2>6
<1>5. d.modified => HeldAt(w, i, f) = IF Refused(w, d) THEN Zeros ELSE d.buffer
  BY DEF Flushed, Wrote
<1> QED
  BY <1>2, <1>3, <1>4, <1>5

LEMMA SeekOutcome ==
    ASSUME NEW v, NEW I, Good(v, I, {}), v.end = "none", NEW d \in FdType, d.open,
           OnFile(v, I, d), NEW pos \in 0 .. MaxPos
    PROVE  LET s == SeekIfile(v, d, pos)
           IN  Stray(s.v) \/ Sails(v, s, I, d, pos)
<1> DEFINE s == SeekIfile(v, d, pos)
           g == Fbloc(pos)
<1>1. g \in 0 .. F - 1 \/ g = F
  BY Positions
<1>2. d.inoeud \in I /\ At(d) \in 0 .. F - 1 /\ d.modified \in BOOLEAN
  BY FdTyped DEF OnFile
<1>3. CASE g = At(d)
  <2> DEFINE e == [d EXCEPT !.cursor = pos]
  <2>1. s = [v |-> v, d |-> e]
    BY <1>3 DEF SeekIfile
  <2>2. pos \in 0 .. MaxPos - 1
    BY <1>2, <1>3, Positions
  <2>3. /\ e \in FdType /\ e.open /\ e.inoeud = d.inoeud /\ e.modified = d.modified
        /\ e.cursor = pos /\ e.buffer = d.buffer /\ e.size = d.size
    BY <2>2 DEF FdType
  <2>4. At(e) = At(d)
    BY <1>3, <2>3 DEF At
  <2>5. OnFile(v, I, e)
    BY <2>3, <2>4 DEF OnFile
  <2>6. OnlyAt(v, v, I, d) /\ Starves(v, v, I)
    BY DEF OnlyAt, Starves, NoMore
  <2> HIDE DEF e
  <2> QED
    BY <1>3, <2>1, <2>3, <2>4, <2>5, <2>6, KeepsSelf DEF Sails
<1>4. CASE g # At(d)
  <2> DEFINE w == FlushIfile(v, d)
             a == Allocate(w, d.inoeud, g)
  <2>1. s = Moved(a, d, pos)
    BY <1>4 DEF SeekIfile
  <2>2. Stray(w) \/ Flushed(v, w, I, d)
    BY FlushOutcome
  <2> HIDE DEF w
  <2>3. CASE Stray(w)
    <3>1. Stray(a.v)
      BY <2>3, StrayAllocate
    <3> HIDE DEF a
    <3> QED
      BY <2>1, <3>1, StraySeek
  <2>4. CASE Flushed(v, w, I, d) /\ w.end # "none"
    <3>1. a = Gives(w, 0)
      BY <2>4 DEF Allocate
    <3> HIDE DEF a
    <3>2. s = [v |-> w, d |-> d]
      BY <2>1, <2>4, <3>1 DEF Moved, Gives
    <3> QED
      BY <2>4, <3>2 DEF Sails, Flushed
  <2>5. CASE Flushed(v, w, I, d) /\ w.end = "none" /\ g = F
    <3>1. ~(g < NB) /\ g \notin NB .. 2 * NB - 1 /\ g \notin 2 * NB .. F - 1
      BY <2>5
    <3>2. Good(w, I, {})
      BY <2>5 DEF Flushed
    <3>3. w.disk[d.inoeud].kind = "inode" /\ Legible(w, d.inoeud, g)
      BY <1>2, <3>2, InodeType, Legibly DEF Good
    <3>4. a = Gives(w, 0)
      BY <2>5, <3>1, <3>3 DEF Allocate
    <3> HIDE DEF a
    <3> DEFINE x == Ends(w, "exit")
    <3>5. s = [v |-> x, d |-> d]
      BY <2>1, <2>5, <3>4 DEF Moved, Gives
    <3>6. /\ Good(x, I, {}) /\ Keeps(w, x, I) /\ Holds(w, x, I) /\ x.end = "exit"
          /\ Starves(w, x, I)
      BY <3>2, EndKept, EndStarves
    <3> HIDE DEF x
    <3>7. Keeps(v, x, I) /\ OnlyAt(v, x, I, d) /\ Starves(v, x, I)
      BY <2>5, <3>6, KeepsOn, OnlyAtOn, StarvesAfter DEF Flushed
    <3> QED
      BY <3>5, <3>6, <3>7 DEF Sails
  <2>6. CASE Flushed(v, w, I, d) /\ w.end = "none" /\ g \in 0 .. F - 1
    <3>1. Good(w, I, {})
      BY <2>6 DEF Flushed
    <3>2. \/ Stray(a.v)
          \/ /\ Outcome(w, I, d.inoeud, Spot(g), a) /\ Starves(w, a.v, I)
             /\ g < 2 * NB \/ At2(w, d.inoeud, g) # 0 \/ w.nb = 0 => Refuses(a)
      BY <1>2, <2>6, <3>1, AllocateOutcome
    <3> HIDE DEF a
    <3>3. CASE Stray(a.v)
      BY <2>1, <3>3, StraySeek
    <3>4. CASE Outcome(w, I, d.inoeud, Spot(g), a) /\ Starves(w, a.v, I)
      <4>1. /\ Good(a.v, I, {}) /\ Keeps(w, a.v, I) /\ Holds(w, a.v, I)
            /\ a.v.end \in {"none", "given"}
            /\ a.v.end = "none" => a.b = At2(a.v, d.inoeud, g)
        BY <3>4 DEF Outcome, At2
      <4>2. Keeps(v, a.v, I) /\ OnlyAt(v, a.v, I, d) /\ Starves(v, a.v, I)
        BY <2>6, <3>4, <4>1, KeepsOn, OnlyAtOn, StarvesAfter DEF Flushed
      <4>3. CASE a.v.end # "none"
        <5>1. s = [v |-> a.v, d |-> d]
          BY <2>1, <4>3 DEF Moved
        <5> QED
          BY <4>1, <4>2, <4>3, <5>1 DEF Sails
      <4>4. CASE a.v.end = "none" /\ a.b = 0
        <5> DEFINE x == Ends(a.v, "exit")
        <5>1. s = [v |-> x, d |-> d]
          BY <2>1, <4>4 DEF Moved
        <5>2. /\ Good(x, I, {}) /\ Keeps(a.v, x, I) /\ Holds(a.v, x, I) /\ x.end = "exit"
              /\ Starves(a.v, x, I)
          BY <4>1, EndKept, EndStarves
        <5> HIDE DEF x
        <5>3. Keeps(v, x, I) /\ OnlyAt(v, x, I, d) /\ Starves(v, x, I)
          BY <4>2, <5>2, KeepsOn, OnlyAtOn, StarvesAfter
        <5> QED
          BY <5>1, <5>2, <5>3 DEF Sails
      <4>5. CASE a.v.end = "none" /\ a.b # 0
        <5> DEFINE e == [d EXCEPT !.cursor = pos, !.buffer = Table(a.v, a.b)]
        <5>1. a.b = BlocAt(a.v, d.inoeud, Spot(g)) /\ Spot(g) \in Place
          BY <2>6, <4>1, <4>5, SpotPlace DEF At2
        <5>2. IsTable(a.v, a.b) /\ Table(a.v, a.b) \in Bytes
          BY <1>2, <4>1, <4>5, <5>1, NamedBloc
        <5>3. s = [v |-> a.v, d |-> e]
          BY <2>1, <4>5, <5>2 DEF Moved
        <5>4. pos \in 0 .. MaxPos - 1
          BY <2>6, Positions
        <5>5. /\ e \in FdType /\ e.open /\ e.inoeud = d.inoeud /\ e.modified = d.modified
              /\ e.cursor = pos /\ e.buffer = Table(a.v, a.b) /\ e.size = d.size
          BY <5>2, <5>4 DEF FdType
        <5> HIDE DEF e
        <5>6. At(e) = g
          BY <5>5 DEF At
        <5>7. OnFile(a.v, I, e)
          BY <1>2, <4>1, <4>5, <5>5, <5>6 DEF OnFile
        <5>8. Reads(a.v, e)
          BY <4>1, <4>5, <5>5, <5>6 DEF Reads, HeldAt
        <5>9. Left(v, a.v, d)
          BY <1>2, <2>6, <3>4, <4>1, LeftOn
        <5> QED
          BY <1>4, <4>1, <4>2, <4>5, <5>3, <5>5, <5>6, <5>7, <5>8, <5>9 DEF Sails
      <4> QED
        BY <4>3, <4>4, <4>5
    <3> QED
      BY <3>2, <3>3, <3>4
  <2> QED
    BY <1>1, <2>2, <2>3, <2>4, <2>5, <2>6
<1> QED
  BY <1>3, <1>4

-----------------------------------------------------------------------------
(* A process on a volume, between two calls of the library.  Sh are the      *)
(* files that two descriptors had open together.                             *)

\* d's buffer is on bloc f of file i.
On(d, i, f) == d.open /\ d.inoeud = i /\ At(d) = f

\* Outside of Sh a file is open once.
Alone(fds, I, Sh) ==
    \A i \in I : i \notin Sh =>
        \A d, e \in Fd : fds[d].open /\ fds[e].open
                         /\ fds[d].inoeud = i /\ fds[e].inoeud = i => d = e

\* What was written in bloc f of file i is in the buffer that is on it, or on the disk.
SaidAt(p, i, f) ==
    /\ (\A d \in Fd : ~On(p.fd[d], i, f)) => p.text[i][f] = HeldAt(p.v, i, f)
    /\ p.v.end = "none" =>
          \A d \in Fd : On(p.fd[d], i, f) =>
              /\ p.text[i][f] = p.fd[d].buffer
              /\ ~p.fd[d].modified => p.fd[d].buffer = HeldAt(p.v, i, f)
Said(p, I, Sh) ==
    \A i \in I : i \notin Sh => \A f \in 0 .. 2 * NB - 1 : SaidAt(p, i, f)

\* The invariant of a process.
Lives(p, I, Sh) ==
    /\ Good(p.v, I, {})
    /\ p.fd \in [Fd -> FdType] /\ p.text \in [I -> [Index -> Bytes]]
    /\ \A d \in Fd : OnFile(p.v, I, p.fd[d])
    /\ Alone(p.fd, I, Sh) /\ Said(p, I, Sh)

\* What a call of the library does to the files that stay.
Passes(p, q, I, Sh) == Stray(q.v) \/ (Lives(q, I, Sh) /\ Keeps(p.v, q.v, I))

LEMMA ForgetIs ==
    ASSUME NEW v, NEW I, Good(v, I, {}), NEW said \in [I -> [Index -> Bytes]],
           NEW d \in FdType, d.inoeud \in I
    PROVE  /\ Forget(v, said, d) \in [I -> [Index -> Bytes]]
           /\ \A j \in I, f \in 0 .. 2 * NB - 1 :
                 Forget(v, said, d)[j][f] = IF j = d.inoeud /\ f = At(d) THEN HeldAt(v, j, f)
                                            ELSE said[j][f]
<1> DEFINE i == d.inoeud
           g == At(d)
           c == Content(v, i, g)
           w == Forget(v, said, d)
<1>1. g \in Index /\ c \in Bytes
  BY FdTyped, ContentType DEF Good, Index
<1>2. w = [said EXCEPT ![i] = [said[i] EXCEPT ![g] = c]]
  BY DEF Forget
<1>3. [said[i] EXCEPT ![g] = c] \in [Index -> Bytes]
  BY <1>1
<1>4. w \in [I -> [Index -> Bytes]]
  BY <1>2, <1>3
<1>5. ASSUME NEW j \in I, NEW f \in 0 .. 2 * NB - 1
      PROVE  w[j][f] = IF j = i /\ f = g THEN HeldAt(v, j, f) ELSE said[j][f]
  <2>1. f \in Index
    BY Below2 DEF Index
  <2>2. w[j][f] = IF j = i /\ f = g THEN c ELSE said[j][f]
    BY <1>2, <2>1
  <2>3. j = i /\ f = g => c = HeldAt(v, j, f)
    BY LookupNamed
  <2> QED
    BY <2>2, <2>3
<1> QED
  BY <1>4, <1>5

LEMMA SeekLives ==
    ASSUME NEW p, NEW I, NEW Sh, Lives(p, I, Sh), p.v.end = "none", NEW d \in Fd,
           p.fd[d].open, NEW pos \in 0 .. MaxPos
    PROVE  LET q == Seek(p, d, pos)
           IN  Passes(p, q, I, Sh) /\ (~Stray(q.v) => q.fd[d].open)
<1> DEFINE e == p.fd[d]
           i == e.inoeud
           s == SeekIfile(p.v, e, pos)
           q == Seek(p, d, pos)
           left == Fbloc(pos) # At(e) /\ e.modified
           forgets == s.v.end = "none" /\ left /\ Refused(s.v, e)
<1>1. /\ Good(p.v, I, {}) /\ p.fd \in [Fd -> FdType] /\ p.text \in [I -> [Index -> Bytes]]
      /\ \A x \in Fd : OnFile(p.v, I, p.fd[x])
      /\ Alone(p.fd, I, Sh) /\ Said(p, I, Sh)
  BY DEF Lives
<1>2. e \in FdType /\ e.open /\ OnFile(p.v, I, e) /\ i \in I
  BY <1>1 DEF OnFile
<1>3. /\ q.v = s.v /\ q.fd = [p.fd EXCEPT ![d] = s.d]
      /\ q.text = IF forgets THEN Forget(s.v, p.text, e) ELSE p.text
  BY DEF Seek, Sought
<1>4. Stray(s.v) \/ Sails(p.v, s, I, e, pos)
  BY <1>1, <1>2, SeekOutcome
<1>5. CASE Stray(s.v)
  BY <1>3, <1>5 DEF Passes
<1>6. CASE Sails(p.v, s, I, e, pos)
  <2>1. /\ Good(s.v, I, {}) /\ Keeps(p.v, s.v, I) /\ OnlyAt(p.v, s.v, I, e)
        /\ s.v.end \in {"none", "exit", "given"}
        /\ s.v.end # "none" => s.d = e
        /\ s.v.end = "none" =>
              /\ s.d \in FdType /\ s.d.open /\ s.d.inoeud = i /\ s.d.modified = e.modified
              /\ OnFile(s.v, I, s.d) /\ At(s.d) = Fbloc(pos)
              /\ IF At(s.d) = At(e) THEN s.v = p.v /\ s.d.buffer = e.buffer
                 ELSE Left(p.v, s.v, e) /\ Reads(s.v, s.d)
    BY <1>6 DEF Sails
  <2> HIDE DEF s
  <2>2. s.d \in FdType /\ s.d.open /\ s.d.inoeud = i
    BY <1>2, <2>1
  <2>3. /\ q.fd \in [Fd -> FdType]
        /\ \A x \in Fd : q.fd[x] = IF x = d THEN s.d ELSE p.fd[x]
    BY <1>1, <1>3, <2>2
  <2>4. /\ q.text \in [I -> [Index -> Bytes]]
        /\ \A j \in I, f \in 0 .. 2 * NB - 1 :
              q.text[j][f] = IF forgets /\ j = i /\ f = At(e) THEN HeldAt(s.v, j, f)
                             ELSE p.text[j][f]
    <3>1. /\ Forget(s.v, p.text, e) \in [I -> [Index -> Bytes]]
          /\ \A j \in I, f \in 0 .. 2 * NB - 1 :
                Forget(s.v, p.text, e)[j][f] = IF j = i /\ f = At(e) THEN HeldAt(s.v, j, f)
                                               ELSE p.text[j][f]
      BY <1>1, <1>2, <2>1, ForgetIs
    <3> QED
      BY <1>1, <1>3, <3>1
  <2>5. \A x \in Fd : OnFile(q.v, I, q.fd[x])
    <3> SUFFICES ASSUME NEW x \in Fd PROVE OnFile(q.v, I, q.fd[x])
      OBVIOUS
    <3>1. OnFile(s.v, I, p.fd[x])
      BY <1>1, <2>1, OnFileKept
    <3> QED
      BY <1>3, <2>1, <2>3, <3>1
  <2> HIDE DEF q, forgets
  <2>6. \A x \in Fd : (q.fd[x].open <=> p.fd[x].open) /\ q.fd[x].inoeud = p.fd[x].inoeud
    BY <1>2, <2>2, <2>3
  <2>7. Alone(q.fd, I, Sh)
    BY <1>1, <2>6 DEF Alone
  <2>8. ASSUME NEW j \in I, j \notin Sh, NEW f \in 0 .. 2 * NB - 1
        PROVE  SaidAt(q, j, f)
    <3>1. SaidAt(p, j, f)
      BY <1>1, <2>8 DEF Said
    <3>2. \A x \in Fd : p.fd[x].open /\ p.fd[x].inoeud = j /\ j = i => x = d
      BY <1>1, <1>2, <2>8 DEF Alone
    <3>3. CASE j # i \/ f # At(e)
      <4>1. HeldAt(s.v, j, f) = HeldAt(p.v, j, f) /\ q.text[j][f] = p.text[j][f]
        BY <2>1, <2>4, <3>3 DEF OnlyAt
      <4>2. ~On(e, j, f)
        BY <3>3 DEF On
      <4>3. \A x \in Fd : x # d => q.fd[x] = p.fd[x]
        BY <2>3
      <4>4. ASSUME \A x \in Fd : ~On(q.fd[x], j, f)
            PROVE  q.text[j][f] = HeldAt(q.v, j, f)
        <5>1. \A x \in Fd : ~On(p.fd[x], j, f)
          BY <4>2, <4>3, <4>4
        <5> QED
          BY <1>3, <3>1, <4>1, <5>1 DEF SaidAt
      <4>5. ASSUME q.v.end = "none", NEW x \in Fd, On(q.fd[x], j, f)
            PROVE  /\ q.text[j][f] = q.fd[x].buffer
                   /\ ~q.fd[x].modified => q.fd[x].buffer = HeldAt(q.v, j, f)
        <5>1. CASE x # d
          BY <1>3, <3>1, <4>1, <4>3, <4>5, <5>1 DEF SaidAt
        <5>2. CASE x = d
          <6>1. s.d.inoeud = j /\ At(s.d) = f /\ j = i /\ f # At(e)
            BY <2>2, <2>3, <3>3, <4>5, <5>2 DEF On
          <6>2. s.d.buffer = HeldAt(s.v, j, f)
            BY <1>3, <2>1, <4>5, <6>1 DEF Reads
          <6>3. \A y \in Fd : ~On(p.fd[y], j, f)
            BY <3>2, <6>1 DEF On
          <6> QED
            BY <1>3, <2>3, <3>1, <4>1, <5>2, <6>2, <6>3 DEF SaidAt
        <5> QED
          BY <5>1, <5>2
      <4> QED
        BY <4>4, <4>5 DEF SaidAt
    <3>4. CASE j = i /\ f = At(e)
      <4>1. On(e, j, f)
        BY <1>2, <3>4 DEF On
      <4>2. p.text[j][f] = e.buffer /\ (~e.modified => e.buffer = HeldAt(p.v, j, f))
        BY <3>1, <4>1 DEF SaidAt
      <4>3. \A x \in Fd : On(q.fd[x], j, f) => x = d
        BY <2>6, <3>2, <3>4 DEF On
      <4>4. ASSUME \A x \in Fd : ~On(q.fd[x], j, f)
            PROVE  q.text[j][f] = HeldAt(q.v, j, f)
        <5>1. ~On(s.d, j, f)
          BY <2>3, <4>4
        <5>2. s.v.end = "none" /\ At(s.d) # At(e)
          BY <2>1, <2>2, <3>4, <4>1, <5>1 DEF On
        <5>3. Left(p.v, s.v, e) /\ left = e.modified
          BY <1>2, <2>1, <5>2, FdTyped
        <5>4. HeldAt(s.v, j, f) = IF ~e.modified THEN HeldAt(p.v, j, f)
                                ELSE IF Refused(s.v, e) THEN Zeros ELSE e.buffer
          BY <3>4, <5>3 DEF Left
        <5> QED
          BY <1>3, <2>4, <3>4, <4>2, <5>2, <5>3, <5>4 DEF forgets
      <4>5. ASSUME q.v.end = "none", NEW x \in Fd, On(q.fd[x], j, f)
            PROVE  /\ q.text[j][f] = q.fd[x].buffer
                   /\ ~q.fd[x].modified => q.fd[x].buffer = HeldAt(q.v, j, f)
        <5>1. x = d /\ q.fd[x] = s.d /\ At(s.d) = At(e)
          BY <2>3, <3>4, <4>3, <4>5 DEF On
        <5>2. s.v = p.v /\ s.d.buffer = e.buffer /\ s.d.modified = e.modified
          BY <1>3, <2>1, <4>5, <5>1
        <5>3. ~forgets
          BY <1>3, <2>1, <4>5, <5>1 DEF forgets
        <5>4. q.text[j][f] = p.text[j][f]
          BY <2>4, <5>3
        <5> QED
          BY <1>3, <4>2, <5>1, <5>2, <5>4
      <4> QED
        BY <4>4, <4>5 DEF SaidAt
    <3> QED
      BY <3>3, <3>4
  <2>9. Said(q, I, Sh)
    BY <2>8 DEF Said
  <2> QED
    <3>1. Lives(q, I, Sh) /\ Keeps(p.v, q.v, I)
      BY <1>3, <2>1, <2>3, <2>4, <2>5, <2>7, <2>9 DEF Lives
    <3>2. Passes(p, q, I, Sh) /\ q.fd[d].open
      BY <2>2, <2>3, <3>1 DEF Passes
    <3> QED
      BY <3>2 DEF q
<1> QED
  BY <1>4, <1>5, <1>6

\* ... and the descriptor of the call stays on its file.
Steps(p, q, I, Sh, d) == Stray(q.v) \/ (Lives(q, I, Sh) /\ Keeps(p.v, q.v, I) /\ q.fd[d].open)

LEMMA StepsOn ==
    ASSUME NEW o, NEW p, NEW q, NEW I, NEW Sh, NEW d,
           Lives(p, I, Sh), Keeps(o.v, p.v, I), Steps(p, q, I, Sh, d)
    PROVE  Steps(o, q, I, Sh, d)
  BY KeepsOn DEF Steps

LEMMA SeekSteps ==
    ASSUME NEW p, NEW I, NEW Sh, Lives(p, I, Sh), p.v.end = "none", NEW d \in Fd,
           p.fd[d].open, NEW pos \in 0 .. MaxPos
    PROVE  Steps(p, Seek(p, d, pos), I, Sh, d)
<1> DEFINE q == Seek(p, d, pos)
<1>1. Passes(p, q, I, Sh) /\ (~Stray(q.v) => q.fd[d].open)
  BY SeekLives
<1> HIDE DEF q
<1>2. Steps(p, q, I, Sh, d)
  BY <1>1 DEF Passes, Steps
<1> QED
  BY <1>2 DEF q

LEMMA StrayCalls ==
    ASSUME NEW p, Stray(p.v), NEW d
    PROVE  /\ \A pos : Stray(Seek(p, d, pos).v)
           /\ Stray(Readc(p, d).v) /\ \A c : Stray(Writec(p, d, c).v)
<1>1. ASSUME NEW q, q.v = p.v, NEW pos
      PROVE  Stray(Seek(q, d, pos).v)
  <2>1. Stray(SeekIfile(q.v, q.fd[d], pos).v)
    BY <1>1, StraySeek
  <2> QED
    BY <2>1 DEF Seek, Sought
<1>2. Stray(Readc(p, d).v)
  BY <1>1 DEF Readc
<1>3. ASSUME NEW c PROVE Stray(Writec(p, d, c).v)
  BY <1>1 DEF Writec
<1> QED
  BY <1>1, <1>2, <1>3

LEMMA ReadcSteps ==
    ASSUME NEW p, NEW I, NEW Sh, Lives(p, I, Sh), NEW d \in Fd, p.fd[d].open
    PROVE  Steps(p, Readc(p, d), I, Sh, d)
<1>1. CASE p.v.end # "none" \/ p.fd[d].cursor >= p.fd[d].size * S
  <2>1. Readc(p, d) = p
    BY <1>1 DEF Readc
  <2> QED
    BY <2>1, KeepsSelf DEF Steps
<1>2. CASE ~(p.v.end # "none" \/ p.fd[d].cursor >= p.fd[d].size * S)
  <2>1. Readc(p, d) = Seek(p, d, p.fd[d].cursor + 1)
    BY <1>2 DEF Readc
  <2>2. p.fd[d] \in FdType
    BY DEF Lives
  <2>3. p.fd[d].cursor \in 0 .. MaxPos - 1 /\ MaxPos \in Nat
    BY <2>2, FdTyped, Positions
  <2>4. p.fd[d].cursor + 1 \in 0 .. MaxPos
    <3> HIDE DEF MaxPos
    <3> QED
      BY <2>3
  <2> QED
    BY <1>2, <2>1, <2>4, SeekSteps
<1> QED
  BY <1>1, <1>2

\* A character is written in the buffer.
TypedIn(e, c) == [e EXCEPT !.buffer = [e.buffer EXCEPT ![e.cursor % S] = c],
                           !.modified = TRUE]
SaidIn(told, i, g, k, c) ==
    [told EXCEPT ![i] = [told[i] EXCEPT ![g] = [told[i][g] EXCEPT ![k] = c]]]
TypedBy(p, d, c) ==
    [v |-> p.v, fd |-> [p.fd EXCEPT ![d] = TypedIn(p.fd[d], c)],
     text |-> SaidIn(p.text, p.fd[d].inoeud, At(p.fd[d]), p.fd[d].cursor % S, c)]

LEMMA TypedLives ==
    ASSUME NEW p, NEW I, NEW Sh, Lives(p, I, Sh), p.v.end = "none", NEW d \in Fd,
           p.fd[d].open, NEW c \in 0 .. W - 1
    PROVE  LET q == TypedBy(p, d, c)
           IN  Lives(q, I, Sh) /\ q.v = p.v /\ q.fd[d].open /\ q.fd[d].cursor = p.fd[d].cursor
<1> DEFINE e == p.fd[d]
           i == e.inoeud
           g == At(e)
           k == e.cursor % S
           t == TypedIn(e, c)
           q == TypedBy(p, d, c)
<1>1. /\ Good(p.v, I, {}) /\ p.fd \in [Fd -> FdType] /\ p.text \in [I -> [Index -> Bytes]]
      /\ \A x \in Fd : OnFile(p.v, I, p.fd[x])
      /\ Alone(p.fd, I, Sh) /\ Said(p, I, Sh)
  BY DEF Lives
<1>2. e \in FdType /\ e.open /\ i \in I /\ g \in Index
  BY <1>1, FdTyped DEF OnFile, Index
<1>3. k \in 0 .. S - 1 /\ c \in 0 .. W - 1
  <2>1. e.cursor \in Nat
    <3>1. e.cursor \in 0 .. MaxPos - 1
      BY <1>2, FdTyped
    <3> QED
      BY <3>1
  <2> HIDE DEF e
  <2>2. e.cursor % S \in 0 .. S - 1
    BY <2>1
  <2> QED
    BY <2>2
<1>4. [e.buffer EXCEPT ![k] = c] \in Bytes /\ [p.text[i][g] EXCEPT ![k] = c] \in Bytes
  <2>1. e.buffer \in Bytes /\ p.text[i][g] \in Bytes
    BY <1>1, <1>2, FdTyped
  <2> HIDE DEF e, k, g, i
  <2> QED
    BY <1>3, <2>1 DEF Bytes
<1>5. /\ t \in FdType /\ t.open /\ t.inoeud = i /\ t.cursor = e.cursor /\ At(t) = g
      /\ t.modified /\ t.buffer = [e.buffer EXCEPT ![k] = c]
  BY <1>2, <1>4 DEF TypedIn, FdType, At
<1>6. /\ q.v = p.v /\ q.fd = [p.fd EXCEPT ![d] = t]
      /\ q.text = SaidIn(p.text, i, g, k, c)
  BY DEF TypedBy
<1> HIDE DEF t, q
<1>7. /\ q.fd \in [Fd -> FdType]
      /\ \A x \in Fd : q.fd[x] = IF x = d THEN t ELSE p.fd[x]
  BY <1>1, <1>5, <1>6
<1>8. /\ q.text \in [I -> [Index -> Bytes]]
      /\ \A j \in I, f \in Index :
            q.text[j][f] = IF j = i /\ f = g THEN [p.text[j][f] EXCEPT ![k] = c]
                           ELSE p.text[j][f]
  <2> DEFINE y == [p.text[i][g] EXCEPT ![k] = c]
             row == [p.text[i] EXCEPT ![g] = y]
  <2>1. row \in [Index -> Bytes] /\ \A f \in Index : row[f] = IF f = g THEN y ELSE p.text[i][f]
    <3>1. p.text[i] \in [Index -> Bytes] /\ y \in Bytes
      BY <1>1, <1>2, <1>4
    <3> HIDE DEF y
    <3> QED
      BY <1>2, <3>1
  <2>2. q.text = [p.text EXCEPT ![i] = row]
    BY <1>6 DEF SaidIn
  <2> HIDE DEF row
  <2> QED
    BY <1>1, <1>2, <2>1, <2>2
<1>9. \A x \in Fd : /\ (q.fd[x].open <=> p.fd[x].open) /\ q.fd[x].inoeud = p.fd[x].inoeud
                    /\ At(q.fd[x]) = At(p.fd[x])
  BY <1>2, <1>5, <1>7
<1>10. \A x \in Fd : OnFile(q.v, I, q.fd[x])
  BY <1>1, <1>6, <1>9 DEF OnFile
<1>11. Alone(q.fd, I, Sh)
  BY <1>1, <1>9 DEF Alone
<1>12. ASSUME NEW j \in I, j \notin Sh, NEW f \in 0 .. 2 * NB - 1
       PROVE  SaidAt(q, j, f)
  <2>1. SaidAt(p, j, f) /\ f \in Index
    BY <1>1, <1>12, Below2 DEF Said, Index
  <2>2. \A x \in Fd : On(q.fd[x], j, f) <=> On(p.fd[x], j, f)
    BY <1>9 DEF On
  <2>3. CASE j # i \/ f # g
    <3>1. q.text[j][f] = p.text[j][f]
      BY <1>8, <2>1, <2>3
    <3>2. \A x \in Fd : On(p.fd[x], j, f) => q.fd[x] = p.fd[x]
      BY <1>7, <2>3 DEF On
    <3> QED
      BY <1>6, <2>1, <2>2, <3>1, <3>2 DEF SaidAt
  <2>4. CASE j = i /\ f = g
    <3>1. On(e, j, f)
      BY <1>2, <2>4 DEF On
    <3>2. p.text[j][f] = e.buffer
      BY <2>1, <3>1 DEF SaidAt
    <3>3. \A x \in Fd : On(p.fd[x], j, f) => x = d
      BY <1>1, <1>2, <1>12, <2>4 DEF Alone, On
    <3>4. q.text[j][f] = t.buffer
      BY <1>5, <1>8, <2>1, <2>4, <3>2
    <3> QED
      BY <1>5, <1>7, <2>2, <3>1, <3>3, <3>4 DEF SaidAt
  <2> QED
    BY <2>3, <2>4
<1>13. Said(q, I, Sh)
  BY <1>12 DEF Said
<1>14. Lives(q, I, Sh) /\ q.v = p.v /\ q.fd[d].open /\ q.fd[d].cursor = e.cursor
  BY <1>1, <1>5, <1>6, <1>7, <1>8, <1>10, <1>11, <1>13 DEF Lives
<1> QED
  BY <1>14 DEF q

LEMMA WritecSteps ==
    ASSUME NEW p, NEW I, NEW Sh, Lives(p, I, Sh), NEW d \in Fd, p.fd[d].open,
           NEW c \in 0 .. W - 1
    PROVE  Steps(p, Writec(p, d, c), I, Sh, d)
<1>1. CASE p.v.end # "none"
  <2>1. Writec(p, d, c) = p
    BY <1>1 DEF Writec
  <2> QED
    BY <2>1, KeepsSelf DEF Steps
<1>2. CASE p.v.end = "none"
  <2> DEFINE q == TypedBy(p, d, c)
             pos == p.fd[d].cursor + 1
  <2>1. Writec(p, d, c) = Seek(q, d, pos)
    BY <1>2 DEF Writec, TypedBy, TypedIn, SaidIn
  <2>2. Lives(q, I, Sh) /\ q.v = p.v /\ q.fd[d].open
    BY <1>2, TypedLives
  <2>3. p.fd[d] \in FdType
    BY DEF Lives
  <2>4. p.fd[d].cursor \in 0 .. MaxPos - 1 /\ MaxPos \in Nat
    BY <2>3, FdTyped, Positions
  <2>5. pos \in 0 .. MaxPos
    <3> HIDE DEF MaxPos
    <3> QED
      BY <2>4
  <2> HIDE DEF q, pos
  <2>6. Steps(q, Seek(q, d, pos), I, Sh, d)
    BY <1>2, <2>2, <2>5, SeekSteps
  <2>7. Keeps(p.v, q.v, I)
    BY <2>2, KeepsSelf
  <2> QED
    BY <2>1, <2>2, <2>6, <2>7, StepsOn
<1> QED
  BY <1>1, <1>2

-----------------------------------------------------------------------------
(* read_ifile and write_ifile: the runs of their loops exist.                *)

IsRead(f, K, p, d) == f = [n \in 0 .. K |-> IF n = 0 THEN p ELSE Readc(f[n - 1], d)]
IsWrite(f, K, p, d, c) == f = [n \in 0 .. K |-> IF n = 0 THEN p ELSE Writec(f[n - 1], d, c)]

LEMMA ReadExists ==
    ASSUME NEW p, NEW d, NEW K \in Nat
    PROVE  \E f : IsRead(f, K, p, d)
<1> DEFINE T == {n \in Nat : \E f : IsRead(f, n, p, d)}
<1>1. 0 \in T
  <2> DEFINE f == [n \in 0 .. 0 |-> p]
  <2>1. IsRead(f, 0, p, d)
    BY DEF IsRead
  <2> QED
    BY <2>1
<1>2. ASSUME NEW m \in 0 .. K - 1, m \in T
      PROVE  m + 1 \in T
  <2>1. PICK f : IsRead(f, m, p, d)
    BY <1>2
  <2> DEFINE g == [n \in 0 .. m + 1 |-> IF n = 0 THEN p ELSE Readc(f[n - 1], d)]
  <2>2. ASSUME NEW n \in 0 .. m + 1, n # 0
        PROVE  g[n - 1] = f[n - 1]
    <3>1. n - 1 \in 0 .. m /\ n - 1 \in 0 .. m + 1
      BY <2>2
    <3> QED
      BY <2>1, <3>1 DEF IsRead
  <2>3. IsRead(g, m + 1, p, d)
    BY <2>2 DEF IsRead
  <2> QED
    BY <2>3
<1> HIDE DEF T
<1>3. 0 .. K \subseteq T
  BY <1>1, <1>2, UpTo
<1> QED
  BY <1>3 DEF T

LEMMA WriteExists ==
    ASSUME NEW p, NEW d, NEW c, NEW K \in Nat
    PROVE  \E f : IsWrite(f, K, p, d, c)
<1> DEFINE T == {n \in Nat : \E f : IsWrite(f, n, p, d, c)}
<1>1. 0 \in T
  <2> DEFINE f == [n \in 0 .. 0 |-> p]
  <2>1. IsWrite(f, 0, p, d, c)
    BY DEF IsWrite
  <2> QED
    BY <2>1
<1>2. ASSUME NEW m \in 0 .. K - 1, m \in T
      PROVE  m + 1 \in T
  <2>1. PICK f : IsWrite(f, m, p, d, c)
    BY <1>2
  <2> DEFINE g == [n \in 0 .. m + 1 |-> IF n = 0 THEN p ELSE Writec(f[n - 1], d, c)]
  <2>2. ASSUME NEW n \in 0 .. m + 1, n # 0
        PROVE  g[n - 1] = f[n - 1]
    <3>1. n - 1 \in 0 .. m /\ n - 1 \in 0 .. m + 1
      BY <2>2
    <3> QED
      BY <2>1, <3>1 DEF IsWrite
  <2>3. IsWrite(g, m + 1, p, d, c)
    BY <2>2 DEF IsWrite
  <2> QED
    BY <2>3
<1> HIDE DEF T
<1>3. 0 .. K \subseteq T
  BY <1>1, <1>2, UpTo
<1> QED
  BY <1>3 DEF T

\* What holds after each character holds after all of them.
LEMMA ReadSteps ==
    ASSUME NEW p, NEW I, NEW Sh, Lives(p, I, Sh), NEW d \in Fd, p.fd[d].open,
           NEW K \in Nat, NEW f, IsRead(f, K, p, d)
    PROVE  Steps(p, f[K], I, Sh, d)
<1> DEFINE T == {n \in 0 .. K : Steps(p, f[n], I, Sh, d)}
<1>1. 0 \in T
  <2>1. f[0] = p
    BY DEF IsRead
  <2> QED
    BY <2>1, KeepsSelf DEF Steps
<1>2. ASSUME NEW n \in 0 .. K - 1, n \in T
      PROVE  n + 1 \in T
  <2>1. n + 1 \in 0 .. K /\ n + 1 # 0 /\ n + 1 - 1 = n
    OBVIOUS
  <2>2. f[n + 1] = Readc(f[n], d)
    BY <2>1 DEF IsRead
  <2> DEFINE q == f[n]
  <2>3. Steps(p, q, I, Sh, d)
    BY <1>2
  <2> HIDE DEF q
  <2>4. CASE Stray(q.v)
    <3>1. Stray(Readc(q, d).v)
      BY <2>4, StrayCalls
    <3> QED
      BY <2>1, <2>2, <3>1 DEF Steps, q
  <2>5. CASE Lives(q, I, Sh) /\ Keeps(p.v, q.v, I) /\ q.fd[d].open
    <3> DEFINE r == Readc(q, d)
    <3>1. Steps(q, r, I, Sh, d)
      BY <2>5, ReadcSteps
    <3> HIDE DEF r
    <3>2. Steps(p, r, I, Sh, d)
      BY <2>5, <3>1, StepsOn
    <3> QED
      BY <2>1, <2>2, <3>2 DEF r, q
  <2> QED
    BY <2>3, <2>4, <2>5 DEF Steps
<1> HIDE DEF T
<1>3. 0 .. K \subseteq T
  BY <1>1, <1>2, UpTo
<1> QED
  BY <1>3 DEF T

LEMMA WriteSteps ==
    ASSUME NEW p, NEW I, NEW Sh, Lives(p, I, Sh), NEW d \in Fd, p.fd[d].open, NEW c \in Char,
           NEW K \in Nat, NEW f, IsWrite(f, K, p, d, c)
    PROVE  Steps(p, f[K], I, Sh, d)
<1> DEFINE T == {n \in 0 .. K : Steps(p, f[n], I, Sh, d)}
<1>1. 0 \in T
  <2>1. f[0] = p
    BY DEF IsWrite
  <2> QED
    BY <2>1, KeepsSelf DEF Steps
<1>2. ASSUME NEW n \in 0 .. K - 1, n \in T
      PROVE  n + 1 \in T
  <2>1. n + 1 \in 0 .. K /\ n + 1 # 0 /\ n + 1 - 1 = n
    OBVIOUS
  <2>2. f[n + 1] = Writec(f[n], d, c)
    BY <2>1 DEF IsWrite
  <2> DEFINE q == f[n]
  <2>3. Steps(p, q, I, Sh, d)
    BY <1>2
  <2> HIDE DEF q
  <2>4. CASE Stray(q.v)
    <3>1. Stray(Writec(q, d, c).v)
      BY <2>4, StrayCalls
    <3> QED
      BY <2>1, <2>2, <3>1 DEF Steps, q
  <2>5. CASE Lives(q, I, Sh) /\ Keeps(p.v, q.v, I) /\ q.fd[d].open
    <3> DEFINE r == Writec(q, d, c)
    <3>1. Steps(q, r, I, Sh, d)
      <4>1. c \in 0 .. W - 1
        BY IfileAssumption
      <4> QED
        BY <2>5, <4>1, WritecSteps
    <3> HIDE DEF r
    <3>2. Steps(p, r, I, Sh, d)
      BY <2>5, <3>1, StepsOn
    <3> QED
      BY <2>1, <2>2, <3>2 DEF r, q
  <2> QED
    BY <2>3, <2>4, <2>5 DEF Steps
<1> HIDE DEF T
<1>3. 0 .. K \subseteq T
  BY <1>1, <1>2, UpTo
<1> QED
  BY <1>3 DEF T

-----------------------------------------------------------------------------
(* What the process is after a call, or when it is gone.                     *)

Gone(w, p) == [v |-> w, fd |-> [d \in Fd |-> Closed], text |-> ForgetAll(p.v, p.fd, p.text)]

\* ... between two calls: when the process is gone, so are its descriptors.
AtRest(p, I, Sh) ==
    /\ Lives(p, I, Sh)
    /\ p.v.end # "none" => \A d \in Fd : ~p.fd[d].open

\* The inductive invariant.
Inv == AtRest(Before, DOMAIN text, shared)

LEMMA GoneLives ==
    ASSUME NEW p, NEW I, NEW Sh, Lives(p, I, Sh), NEW w, Good(w, I, {}), Holds(p.v, w, I)
    PROVE  AtRest(Gone(w, p), I, Sh)
<1> DEFINE q == Gone(w, p)
           lost(j, f) == \E d \in Fd : p.fd[d].open /\ p.fd[d].inoeud = j /\ At(p.fd[d]) = f
<1>1. /\ Good(p.v, I, {}) /\ p.fd \in [Fd -> FdType] /\ p.text \in [I -> [Index -> Bytes]]
      /\ Said(p, I, Sh)
  BY DEF Lives
<1>2. Closed \in FdType /\ ~Closed.open
  <2>1. 0 \in 0 .. MaxPos - 1 /\ 0 \in 0 .. F /\ 0 \in Bloc /\ Zeros \in Bytes
    <3> HIDE DEF MaxPos
    <3> QED
      BY Positions, NoEntries DEF Bloc
  <2> QED
    BY <2>1 DEF Closed, FdType
<1>3. q.v = w /\ q.fd \in [Fd -> FdType] /\ \A x \in Fd : ~q.fd[x].open
  BY <1>2 DEF Gone
<1>4. q.text = [j \in I |-> [f \in Index |->
                   IF lost(j, f) THEN Content(p.v, j, f) ELSE p.text[j][f]]]
  BY <1>1 DEF Gone, ForgetAll
<1> HIDE DEF lost, q
<1>5. q.text \in [I -> [Index -> Bytes]]
  <2>1. \A j, f : Content(p.v, j, f) \in Bytes
    BY <1>1, ContentType DEF Good
  <2> QED
    BY <1>1, <1>4, <2>1
<1>6. ASSUME NEW j \in I, j \notin Sh, NEW f \in 0 .. 2 * NB - 1
      PROVE  SaidAt(q, j, f)
  <2>1. f \in Index
    BY Below2 DEF Index
  <2>2. q.text[j][f] = IF lost(j, f) THEN Content(p.v, j, f) ELSE p.text[j][f]
    BY <1>4, <2>1
  <2>3. Content(p.v, j, f) = HeldAt(p.v, j, f)
    BY <1>1, LookupNamed
  <2>4. ~lost(j, f) => p.text[j][f] = HeldAt(p.v, j, f)
    BY <1>1, <1>6 DEF Said, SaidAt, On, lost
  <2>5. HeldAt(w, j, f) = HeldAt(p.v, j, f)
    BY DEF Holds
  <2> QED
    BY <1>3, <2>2, <2>3, <2>4, <2>5 DEF SaidAt, On
<1>7. Said(q, I, Sh)
  BY <1>6 DEF Said
<1>8. (\A d \in Fd : OnFile(q.v, I, q.fd[d])) /\ Alone(q.fd, I, Sh)
  BY <1>3 DEF OnFile, Alone
<1>9. AtRest(q, I, Sh)
  BY <1>3, <1>5, <1>7, <1>8 DEF AtRest, Lives
<1> QED
  BY <1>9 DEF q

LEMMA LivesIs ==
    ASSUME NEW p, NEW I, NEW Sh, NEW v, NEW fds, NEW told, v = p.v, fds = p.fd, told = p.text
    PROVE  Lives([v |-> v, fd |-> fds, text |-> told], I, Sh) <=> Lives(p, I, Sh)
  BY DEF Lives, Said, SaidAt

\* The next state, from what the call came to.
LEMMA Settled ==
    ASSUME NEW p, NEW I, NEW Sh, Stray(p.v) \/ Lives(p, I, Sh), Returns(p), shared' = Sh
    PROVE  (Stray(vol') \/ Inv') /\ (~Stray(vol') => DOMAIN text' = I)
<1>1. CASE Stray(p.v)
  BY <1>1 DEF Returns, Inv
<1>2. CASE Lives(p, I, Sh) /\ p.v.end = "none"
  <2> DEFINE q == [v |-> vol', fd |-> fd', text |-> text']
  <2>1. vol' = p.v /\ fd' = p.fd /\ text' = p.text
    BY <1>2 DEF Returns
  <2>2. Lives(q, I, Sh)
    BY <1>2, <2>1, LivesIs
  <2>3. DOMAIN text' = I
    BY <1>2, <2>1 DEF Lives
  <2>4. q = Before'
    BY DEF Before
  <2>5. q.v.end = "none"
    BY <1>2, <2>1
  <2> HIDE DEF q
  <2>6. AtRest(q, I, Sh)
    BY <2>2, <2>5 DEF AtRest
  <2>7. AtRest(Before, DOMAIN text, shared)'
    BY <2>3, <2>4, <2>6
  <2> QED
    BY <2>3, <2>7 DEF Inv
<1>3. CASE Lives(p, I, Sh) /\ p.v.end # "none"
  <2> DEFINE q == Gone(p.v, p)
  <2>1. AtRest(q, I, Sh)
    BY <1>3, GoneLives, KeepsSelf DEF Lives
  <2>2. q = Before'
    BY <1>3 DEF Returns, Gone, Before
  <2>3. DOMAIN text' = I
    <3>1. q.text \in [I -> [Index -> Bytes]]
      BY <2>1 DEF AtRest, Lives
    <3>2. Before'.text = text'
      BY DEF Before
    <3> QED
      BY <2>2, <3>1, <3>2
  <2> HIDE DEF q
  <2>4. AtRest(Before, DOMAIN text, shared)'
    BY <2>1, <2>2, <2>3
  <2> QED
    BY <2>3, <2>4 DEF Inv
<1> QED
  BY <1>1, <1>2, <1>3

-----------------------------------------------------------------------------
(* The calls that keep the set of files.                                     *)

FlushedBy(p, d) == [v |-> FlushIfile(p.v, p.fd[d]), fd |-> p.fd, text |-> p.text]

LEMMA FlushLives ==
    ASSUME NEW p, NEW I, NEW Sh, Lives(p, I, Sh), p.v.end = "none", NEW d \in Fd, p.fd[d].open
    PROVE  Passes(p, FlushedBy(p, d), I, Sh)
<1> DEFINE e == p.fd[d]
           i == e.inoeud
           w == FlushIfile(p.v, e)
           q == FlushedBy(p, d)
<1>1. /\ Good(p.v, I, {}) /\ p.fd \in [Fd -> FdType] /\ p.text \in [I -> [Index -> Bytes]]
      /\ \A x \in Fd : OnFile(p.v, I, p.fd[x])
      /\ Alone(p.fd, I, Sh) /\ Said(p, I, Sh)
  BY DEF Lives
<1>2. e \in FdType /\ e.open /\ OnFile(p.v, I, e) /\ i \in I
  BY <1>1 DEF OnFile
<1>3. Stray(w) \/ Flushed(p.v, w, I, e)
  BY <1>1, <1>2, FlushOutcome
<1>4. q.v = w /\ q.fd = p.fd /\ q.text = p.text
  BY DEF FlushedBy
<1>5. CASE Stray(w)
  BY <1>4, <1>5 DEF Passes
<1>6. CASE Flushed(p.v, w, I, e)
  <2>1. /\ Good(w, I, {}) /\ Keeps(p.v, w, I) /\ OnlyAt(p.v, w, I, e)
        /\ ~e.modified => w = p.v
    BY <1>6 DEF Flushed
  <2> HIDE DEF w, q
  <2>2. \A x \in Fd : OnFile(w, I, p.fd[x])
    BY <1>1, <2>1, OnFileKept
  <2>3. ASSUME NEW j \in I, j \notin Sh, NEW f \in 0 .. 2 * NB - 1
        PROVE  SaidAt(q, j, f)
    <3>1. SaidAt(p, j, f)
      BY <1>1, <2>3 DEF Said
    <3>2. CASE j # i \/ f # At(e)
      <4>1. HeldAt(w, j, f) = HeldAt(p.v, j, f)
        BY <2>1, <3>2 DEF OnlyAt
      <4> QED
        BY <1>4, <3>1, <4>1 DEF SaidAt
    <3>3. CASE j = i /\ f = At(e)
      <4>1. On(e, j, f)
        BY <1>2, <3>3 DEF On
      <4>2. \A x \in Fd : On(p.fd[x], j, f) => x = d
        BY <1>1, <1>2, <2>3, <3>3 DEF Alone, On
      <4>3. p.text[j][f] = e.buffer /\ (~e.modified => e.buffer = HeldAt(p.v, j, f))
        BY <3>1, <4>1 DEF SaidAt
      <4> QED
        BY <1>4, <2>1, <4>1, <4>2, <4>3 DEF SaidAt
    <3> QED
      BY <3>2, <3>3
  <2>4. Said(q, I, Sh)
    BY <2>3 DEF Said
  <2>5. Lives(q, I, Sh)
    BY <1>1, <1>4, <2>1, <2>2, <2>4 DEF Lives
  <2>6. Passes(p, q, I, Sh)
    BY <1>4, <2>1, <2>5 DEF Passes
  <2> QED
    BY <2>6 DEF q
<1> QED
  BY <1>3, <1>5, <1>6

LEMMA CloseLives ==
    ASSUME NEW p, NEW I, NEW Sh, Lives(p, I, Sh), p.v.end = "none", NEW d \in Fd, p.fd[d].open
    PROVE  Passes(p, ClosedOn(FlushIfile(p.v, p.fd[d]), p, d), I, Sh)
<1> DEFINE e == p.fd[d]
           i == e.inoeud
           w == FlushIfile(p.v, e)
           q == ClosedOn(w, p, d)
           gone == w.end # "none" \/ (e.modified /\ Refused(w, e))
<1>1. /\ Good(p.v, I, {}) /\ p.fd \in [Fd -> FdType] /\ p.text \in [I -> [Index -> Bytes]]
      /\ \A x \in Fd : OnFile(p.v, I, p.fd[x])
      /\ Alone(p.fd, I, Sh) /\ Said(p, I, Sh)
  BY DEF Lives
<1>2. e \in FdType /\ e.open /\ OnFile(p.v, I, e) /\ i \in I
  BY <1>1 DEF OnFile
<1>3. Stray(w) \/ Flushed(p.v, w, I, e)
  BY <1>1, <1>2, FlushOutcome
<1>4. /\ q.v = w /\ q.fd = [p.fd EXCEPT ![d] = Closed]
      /\ q.text = IF gone THEN Forget(w, p.text, e) ELSE p.text
  BY DEF ClosedOn
<1>5. CASE Stray(w)
  BY <1>4, <1>5 DEF Passes
<1>6. CASE Flushed(p.v, w, I, e)
  <2>1. /\ Good(w, I, {}) /\ Keeps(p.v, w, I) /\ OnlyAt(p.v, w, I, e)
        /\ w.end = "none" /\ e.modified => Wrote(w, e)
        /\ ~e.modified => w = p.v
    BY <1>6 DEF Flushed
  <2> HIDE DEF w
  <2>2. Closed \in FdType /\ ~Closed.open
    <3>1. 0 \in 0 .. MaxPos - 1 /\ 0 \in 0 .. F /\ 0 \in Bloc /\ Zeros \in Bytes
      <4> HIDE DEF MaxPos
      <4> QED
        BY Positions, NoEntries DEF Bloc
    <3> QED
      BY <3>1 DEF Closed, FdType
  <2>3. /\ q.fd \in [Fd -> FdType]
        /\ \A x \in Fd : q.fd[x] = IF x = d THEN Closed ELSE p.fd[x]
    BY <1>1, <1>4, <2>2
  <2>4. /\ q.text \in [I -> [Index -> Bytes]]
        /\ \A j \in I, f \in 0 .. 2 * NB - 1 :
              q.text[j][f] = IF gone /\ j = i /\ f = At(e) THEN HeldAt(w, j, f)
                             ELSE p.text[j][f]
    <3>1. /\ Forget(w, p.text, e) \in [I -> [Index -> Bytes]]
          /\ \A j \in I, f \in 0 .. 2 * NB - 1 :
                Forget(w, p.text, e)[j][f] = IF j = i /\ f = At(e) THEN HeldAt(w, j, f)
                                             ELSE p.text[j][f]
      BY <1>1, <1>2, <2>1, ForgetIs
    <3> QED
      BY <1>1, <1>4, <3>1
  <2> HIDE DEF q, gone
  <2>5. \A x \in Fd : OnFile(w, I, q.fd[x])
    <3>1. \A x \in Fd : OnFile(w, I, p.fd[x])
      BY <1>1, <2>1, OnFileKept
    <3> QED
      BY <2>2, <2>3, <3>1 DEF OnFile
  <2>6. Alone(q.fd, I, Sh)
    BY <1>1, <2>2, <2>3 DEF Alone
  <2>7. ASSUME NEW j \in I, j \notin Sh, NEW f \in 0 .. 2 * NB - 1
        PROVE  SaidAt(q, j, f)
    <3>1. SaidAt(p, j, f)
      BY <1>1, <2>7 DEF Said
    <3>2. CASE j # i \/ f # At(e)
      <4>1. HeldAt(w, j, f) = HeldAt(p.v, j, f) /\ q.text[j][f] = p.text[j][f]
        BY <2>1, <2>4, <3>2 DEF OnlyAt
      <4>2. \A x \in Fd : On(q.fd[x], j, f) <=> On(p.fd[x], j, f)
        BY <2>2, <2>3, <3>2 DEF On
      <4>3. \A x \in Fd : On(q.fd[x], j, f) => q.fd[x] = p.fd[x]
        BY <2>2, <2>3 DEF On
      <4>4. w.end = "none" => p.v.end = "none"
        OBVIOUS
      <4> QED
        BY <1>4, <3>1, <4>1, <4>2, <4>3, <4>4 DEF SaidAt
    <3>3. CASE j = i /\ f = At(e)
      <4>1. On(e, j, f)
        BY <1>2, <3>3 DEF On
      <4>2. \A x \in Fd : On(p.fd[x], j, f) => x = d
        BY <1>1, <1>2, <2>7, <3>3 DEF Alone, On
      <4>3. \A x \in Fd : ~On(q.fd[x], j, f)
        BY <2>2, <2>3, <4>2 DEF On
      <4>4. p.text[j][f] = e.buffer /\ (~e.modified => e.buffer = HeldAt(p.v, j, f))
        BY <3>1, <4>1 DEF SaidAt
      <4>5. q.text[j][f] = HeldAt(w, j, f)
        <5>1. CASE gone
          BY <2>4, <3>3, <5>1
        <5>2. CASE ~gone /\ ~e.modified
          BY <2>1, <2>4, <4>4, <5>2
        <5>3. CASE ~gone /\ e.modified
          <6>1. Wrote(w, e) /\ ~Refused(w, e)
            BY <2>1, <5>3 DEF gone
          <6>2. HeldAt(w, j, f) = e.buffer
            BY <3>3, <6>1 DEF Wrote
          <6> QED
            BY <2>4, <4>4, <5>3, <6>2
        <5> QED
          BY <5>1, <5>2, <5>3
      <4> QED
        BY <1>4, <4>3, <4>5 DEF SaidAt
    <3> QED
      BY <3>2, <3>3
  <2>8. Said(q, I, Sh)
    BY <2>7 DEF Said
  <2>9. Lives(q, I, Sh)
    BY <1>4, <2>1, <2>3, <2>4, <2>5, <2>6, <2>8 DEF Lives
  <2>10. Passes(p, q, I, Sh)
    BY <1>4, <2>1, <2>9 DEF Passes
  <2> QED
    BY <2>10 DEF q, w
<1> QED
  BY <1>3, <1>5, <1>6

OpenedBy(p, d, i) == [v |-> p.v, fd |-> [p.fd EXCEPT ![d] = Opened(p.v, i)], text |-> p.text]

LEMMA OpenLives ==
    ASSUME NEW p, NEW I, NEW Sh, Lives(p, I, Sh), NEW d \in Fd, ~p.fd[d].open,
           NEW i \in I, NEW Sh2, Sh \subseteq Sh2,
           (\E e \in Fd : p.fd[e].open /\ p.fd[e].inoeud = i) => i \in Sh2
    PROVE  Lives(OpenedBy(p, d, i), I, Sh2)
<1> DEFINE q == OpenedBy(p, d, i)
           o == Opened(p.v, i)
<1>1. /\ Good(p.v, I, {}) /\ p.fd \in [Fd -> FdType] /\ p.text \in [I -> [Index -> Bytes]]
      /\ \A x \in Fd : OnFile(p.v, I, p.fd[x])
      /\ Alone(p.fd, I, Sh) /\ Said(p, I, Sh)
  BY DEF Lives
<1>2. 0 \in 0 .. 2 * NB - 1
  OBVIOUS
<1>3. o \in FdType /\ o.open /\ o.inoeud = i /\ At(o) = 0 /\ o.buffer = HeldAt(p.v, i, 0)
  <2>1. 0 \in 0 .. MaxPos - 1
    <3> HIDE DEF MaxPos
    <3> QED
      BY Positions
  <2>2. i \in Bloc /\ p.v.disk[i].taille \in 0 .. F
    BY <1>1, InodeType DEF Good
  <2>3. Content(p.v, i, 0) \in Bytes
    BY <1>1, ContentType DEF Good
  <2>4. Content(p.v, i, 0) = HeldAt(p.v, i, 0)
    BY <1>1, <1>2, LookupNamed
  <2>5. Fbloc(0) = 0
    BY Positions
  <2> QED
    BY <2>1, <2>2, <2>3, <2>4, <2>5 DEF Opened, FdType, At
<1>4. q.v = p.v /\ q.fd = [p.fd EXCEPT ![d] = o] /\ q.text = p.text
  BY DEF OpenedBy
<1> HIDE DEF q, o
<1>5. /\ q.fd \in [Fd -> FdType]
      /\ \A x \in Fd : q.fd[x] = IF x = d THEN o ELSE p.fd[x]
  BY <1>1, <1>3, <1>4
<1>6. \A x \in Fd : OnFile(q.v, I, q.fd[x])
  BY <1>1, <1>2, <1>3, <1>4, <1>5 DEF OnFile
<1>7. Alone(q.fd, I, Sh2)
  BY <1>1, <1>3, <1>5 DEF Alone
<1>8. ASSUME NEW j \in I, j \notin Sh2, NEW f \in 0 .. 2 * NB - 1
      PROVE  SaidAt(q, j, f)
  <2>1. SaidAt(p, j, f)
    BY <1>1, <1>8 DEF Said
  <2>2. CASE j # i \/ f # 0
    <3>1. \A x \in Fd : On(q.fd[x], j, f) => On(p.fd[x], j, f) /\ q.fd[x] = p.fd[x]
      BY <1>3, <1>5, <2>2 DEF On
    <3>2. \A x \in Fd : On(p.fd[x], j, f) => On(q.fd[x], j, f)
      BY <1>5 DEF On
    <3> QED
      BY <1>4, <2>1, <3>1, <3>2 DEF SaidAt
  <2>3. CASE j = i /\ f = 0
    <3>1. \A x \in Fd : ~On(p.fd[x], j, f)
      BY <1>8, <2>3 DEF On
    <3>2. \A x \in Fd : On(q.fd[x], j, f) => q.fd[x] = o
      BY <1>5, <3>1
    <3>3. On(q.fd[d], j, f)
      BY <1>3, <1>5, <2>3 DEF On
    <3> QED
      BY <1>3, <1>4, <2>1, <2>3, <3>1, <3>2, <3>3 DEF SaidAt
  <2> QED
    BY <2>2, <2>3
<1>9. Said(q, I, Sh2)
  BY <1>8 DEF Said
<1>10. Lives(q, I, Sh2)
  BY <1>1, <1>4, <1>5, <1>6, <1>7, <1>9 DEF Lives
<1> QED
  BY <1>10 DEF q

-----------------------------------------------------------------------------
(* create_ifile.                                                             *)

LEMMA HoldsLives ==
    ASSUME NEW p, NEW I, NEW Sh, Lives(p, I, Sh), p.v.end = "none", NEW w, Good(w, I, {}),
           Keeps(p.v, w, I), Holds(p.v, w, I)
    PROVE  Lives([v |-> w, fd |-> p.fd, text |-> p.text], I, Sh)
<1> DEFINE q == [v |-> w, fd |-> p.fd, text |-> p.text]
<1>1. /\ Good(p.v, I, {}) /\ p.fd \in [Fd -> FdType] /\ p.text \in [I -> [Index -> Bytes]]
      /\ \A x \in Fd : OnFile(p.v, I, p.fd[x])
      /\ Alone(p.fd, I, Sh) /\ Said(p, I, Sh)
  BY DEF Lives
<1>2. q.v = w /\ q.fd = p.fd /\ q.text = p.text
  OBVIOUS
<1> HIDE DEF q
<1>3. \A x \in Fd : OnFile(w, I, p.fd[x])
  BY <1>1, OnFileKept
<1>4. ASSUME NEW j \in I, j \notin Sh, NEW f \in 0 .. 2 * NB - 1
      PROVE  SaidAt(q, j, f)
  <2>1. SaidAt(p, j, f)
    BY <1>1, <1>4 DEF Said
  <2>2. HeldAt(w, j, f) = HeldAt(p.v, j, f)
    BY DEF Holds
  <2> QED
    BY <1>2, <2>1, <2>2 DEF SaidAt
<1>5. Said(q, I, Sh)
  BY <1>4 DEF Said
<1>6. Lives(q, I, Sh)
  BY <1>1, <1>2, <1>3, <1>5 DEF Lives
<1> QED
  BY <1>6 DEF q

\* A sector that no file has.
LEMMA PutApart ==
    ASSUME NEW v, NEW I, NEW L, Good(v, I, L), NEW b \in Bloc, NEW s \in Sector, b \notin I,
           \A j \in I, p \in Place : BlocAt(v, j, p) = b => b = 0
    PROVE  LET w == Put(v, b, s)
           IN  /\ w \in Volume /\ Same(v, w) /\ Untouched(v, w, I)
               /\ \A c \in Bloc : w.disk[c] = IF c = b THEN s ELSE v.disk[c]
               /\ Files(w, I) /\ Names(w, I) /\ Distinct(w, I)
               /\ \A c : Taken(v, c) <=> Taken(w, c)
<1> DEFINE w == Put(v, b, s)
<1>1. /\ w \in Volume /\ Same(v, w)
      /\ \A c \in Bloc : w.disk[c] = IF c = b THEN s ELSE v.disk[c]
  BY PutIn DEF Good
<1> HIDE DEF w
<1>2. \A j \in I : w.disk[j] = v.disk[j]
  BY <1>1, InodeType DEF Good
<1>3. ASSUME NEW j \in I, NEW c \in Tables(v, j), c # 0
      PROVE  w.disk[c] = v.disk[c]
  <2>1. c \in Bloc
    BY <1>3, TableApart
  <2>2. c # b
    BY <1>3, TableNamed
  <2> QED
    BY <1>1, <2>1, <2>2
<1>4. \A j \in I, p \in Place : BlocAt(w, j, p) = BlocAt(v, j, p)
  BY <1>2, <1>3, SamePlacesAll
<1>5. ASSUME NEW j \in I, NEW p \in Place, BlocAt(v, j, p) # 0
      PROVE  w.disk[BlocAt(v, j, p)] = v.disk[BlocAt(v, j, p)]
             /\ w.disk[BlocAt(v, j, p)].kind = "bytes"
  <2>1. BlocAt(v, j, p) \in Bloc /\ IsTable(v, BlocAt(v, j, p)) /\ BlocAt(v, j, p) # b
    BY <1>5, NamedBloc
  <2> QED
    BY <1>1, <2>1 DEF IsTable
<1>6. /\ Files(w, I) /\ Names(w, I) /\ Distinct(w, I)
  BY <1>1, <1>2, <1>4, <1>5, NamesKept, VolumeType DEF Same, Good, Bloc
<1>7. \A c : Taken(v, c) <=> Taken(w, c)
  BY <1>1 DEF Taken, Same
<1>8. Untouched(v, w, I)
  BY <1>2, <1>4, <1>5 DEF Untouched
<1> QED
  BY <1>1, <1>6, <1>7, <1>8 DEF w

\* No bloc: the inode goes to bloc 0.
LEMMA InodeAtZero ==
    ASSUME NEW v, NEW I, Good(v, I, {}), v.nb = 0
    PROVE  LET w == Put(v, 0, EmptyInode)
           IN  Good(w, I, {}) /\ Same(v, w) /\ Untouched(v, w, I)
<1> DEFINE w == Put(v, 0, EmptyInode)
<1>1. 0 \in Bloc /\ 0 \notin I /\ EmptyInode \in Sector /\ EmptyInode.kind = "inode"
  BY InodeType, SectorKinds DEF Good, Bloc
<1>2. /\ w \in Volume /\ Same(v, w) /\ Untouched(v, w, I)
      /\ \A c \in Bloc : w.disk[c] = IF c = 0 THEN EmptyInode ELSE v.disk[c]
      /\ Files(w, I) /\ Names(w, I) /\ Distinct(w, I)
  BY <1>1, PutApart
<1> HIDE DEF w
<1>3. Counts(w)
  BY <1>1, <1>2 DEF Counts, Good, Same
<1>4. NotNamed(w, I, {})
  BY DEF NotNamed
<1>5. Complete(w, I, {})
  BY <1>2 DEF Complete, OneLevel, Untouched, Good, Same
<1>6. ~w.astray
  BY <1>2 DEF Same, Good
<1> QED
  BY <1>2, <1>3, <1>4, <1>5, <1>6 DEF Good, w

LEMMA EmptyPlaces ==
    ASSUME NEW v, NEW b, v.disk[b] = EmptyInode, NEW p \in Place
    PROVE  BlocAt(v, b, p) = 0
<1>1. /\ v.disk[b].indirect = 0 /\ v.disk[b].double = 0
      /\ \A k \in 0 .. NB - 1 : v.disk[b].direct[k] = 0
  BY DEF EmptyInode
<1>2. \A k : NameIn(v, 0, k) = 0
  BY DEF NameIn
<1>3. \A k \in 0 .. NB - 1 : BlocAt(v, b, Direct(k)) = 0 /\ BlocAt(v, b, AnEntry(k)) = 0
                             /\ BlocAt(v, b, ARow(k)) = 0
  BY <1>1, <1>2, PlaceOf
<1>4. \A f \in 2 * NB .. F - 1 : BlocAt(v, b, Leaf(f)) = 0
  BY <1>1, <1>2, PlaceOf
<1>5. BlocAt(v, b, Indirect) = 0 /\ BlocAt(v, b, Double) = 0
  BY <1>1, PlaceOf
<1> QED
  BY <1>3, <1>4, <1>5, PlaceCases

\* A bloc: it is the inode of one more file.
LEMMA InodeAt ==
    ASSUME NEW v, NEW I, NEW b, Given(v, I, b), b # 0
    PROVE  LET w == Put(v, b, EmptyInode)
           IN  /\ Good(w, I \cup {b}, {}) /\ Same(v, w) /\ Untouched(v, w, I) /\ b \notin I
               /\ \A p \in Place : BlocAt(w, b, p) = 0
<1> DEFINE w == Put(v, b, EmptyInode)
           J == I \cup {b}
<1>1. Good(v, I, {b}) /\ b \in Bloc /\ 0 \in Bloc
  <2>1. {b} \ {0} = {b}
    OBVIOUS
  <2> QED
    BY <2>1 DEF Given, Bloc
<1>2. Taken(v, b) /\ b \notin I /\ \A j \in I, p \in Place : BlocAt(v, j, p) # b
  BY <1>1 DEF Good, NotNamed
<1>3. EmptyInode \in Sector /\ EmptyInode \in Inode
  BY SectorKinds
<1>4. /\ w \in Volume /\ Same(v, w) /\ Untouched(v, w, I)
      /\ \A c \in Bloc : w.disk[c] = IF c = b THEN EmptyInode ELSE v.disk[c]
      /\ Files(w, I) /\ Names(w, I) /\ Distinct(w, I)
      /\ \A c : Taken(v, c) <=> Taken(w, c)
  BY <1>1, <1>2, <1>3, PutApart
<1> HIDE DEF w
<1>5. \A p \in Place : BlocAt(w, b, p) = 0
  BY <1>1, <1>4, EmptyPlaces
<1>6. Counts(w)
  BY <1>1, <1>4 DEF Counts, Good, Same
<1>7. Files(w, J)
  BY <1>1, <1>2, <1>3, <1>4 DEF Files
<1>8. \A j \in I, p \in Place : BlocAt(w, j, p) # b
  BY <1>2, <1>4 DEF Untouched
<1>9. Names(w, J)
  <2>1. ASSUME NEW j \in I, NEW p \in Place
        PROVE  NameOK(w, J, j, p, BlocAt(w, j, p))
    BY <1>4, <1>8 DEF Names, NameOK
  <2>2. \A p \in Place : NameOK(w, J, b, p, BlocAt(w, b, p))
    BY <1>5 DEF NameOK
  <2> QED
    BY <2>1, <2>2 DEF Names
<1>10. Distinct(w, J)
  BY <1>4, <1>5 DEF Distinct
<1>11. NotNamed(w, J, {})
  BY DEF NotNamed
<1>12. Complete(w, J, {})
  <2> SUFFICES ASSUME ~w.gave, OneLevel(w, J), NEW c \in 1 .. w.first - 1
               PROVE  c \in J \/ \E i \in J, p \in Place : BlocAt(w, i, p) = c
    BY DEF Complete
  <2>1. ~v.gave /\ v.first = w.first
    BY <1>4 DEF Same
  <2>2. OneLevel(v, I)
    BY <1>4 DEF OneLevel, Untouched
  <2>3. c \in I \/ c \in {b} \/ \E i \in I, p \in Place : BlocAt(v, i, p) = c
    BY <1>1, <2>1, <2>2 DEF Good, Complete
  <2> QED
    BY <1>4, <2>3 DEF Untouched
<1>13. ~w.astray
  BY <1>1, <1>4 DEF Same, Good
<1>14. Good(w, J, {})
  BY <1>4, <1>6, <1>7, <1>9, <1>10, <1>11, <1>12, <1>13 DEF Good
<1> QED
  BY <1>2, <1>4, <1>5, <1>14 DEF w

\* What a call leaves to the files that stay: their names.
Stays(v, w, I) ==
    \A i \in I : \A f \in 0 .. 2 * NB - 1 : At2(v, i, f) # 0 => At2(w, i, f) = At2(v, i, f)

LEMMA CreateLives ==
    ASSUME NEW p, NEW I, NEW Sh, Lives(p, I, Sh), p.v.end = "none"
    PROVE  LET q == Created(NewBloc(p.v), p)
           IN  \E J : I \subseteq J /\ Lives(q, J, Sh) /\ Stays(p.v, q.v, I)
<1> DEFINE n == NewBloc(p.v)
           q == Created(n, p)
           b == n.b
           w == Put(n.v, b, EmptyInode)
           same == [v |-> Then(n.v, w), fd |-> p.fd, text |-> p.text]
<1>1. /\ Good(p.v, I, {}) /\ p.fd \in [Fd -> FdType] /\ p.text \in [I -> [Index -> Bytes]]
      /\ \A x \in Fd : OnFile(p.v, I, p.fd[x])
      /\ Alone(p.fd, I, Sh) /\ Said(p, I, Sh)
  BY DEF Lives
<1>2. /\ Keeps(p.v, n.v, I) /\ Holds(p.v, n.v, I)
      /\ \/ n.v.end = "given" /\ n.b = 0 /\ Good(n.v, I, {})
         \/ n.v.end = "none" /\ Given(n.v, I, n.b)
  BY <1>1, NewBlocs
<1>3. q = [v |-> Then(n.v, w), fd |-> p.fd,
           text |-> IF n.v.end # "none" \/ n.b = 0 THEN p.text
                    ELSE [i \in I \cup {b} |->
                            IF i = b THEN [f \in Index |-> Zeros] ELSE p.text[i]]]
  BY <1>1 DEF Created
<1> DEFINE m == n.v
<1> HIDE DEF n
<1>4. CASE m.end = "given" /\ b = 0 /\ Good(m, I, {})
  <2>1. q = [v |-> m, fd |-> p.fd, text |-> p.text]
    BY <1>3, <1>4 DEF Then
  <2>2. Lives([v |-> m, fd |-> p.fd, text |-> p.text], I, Sh)
    BY <1>2, <1>4, HoldsLives
  <2>3. Stays(p.v, m, I)
    BY <1>2 DEF Keeps, Stays
  <2> QED
    BY <2>1, <2>2, <2>3 DEF n
<1>5. CASE m.end = "none" /\ Given(m, I, b) /\ b = 0
  <2> DEFINE z == Put(m, 0, EmptyInode)
  <2>1. Good(m, I, {}) /\ m.nb = 0
    <3>1. {0} \ {0} = {}
      OBVIOUS
    <3> QED
      BY <1>5, <3>1 DEF Given
  <2>2. Good(z, I, {}) /\ Same(m, z) /\ Untouched(m, z, I)
    <3> HIDE DEF m
    <3> QED
      BY <2>1, InodeAtZero
  <2>3. w = z
    BY <1>5
  <2>4. q = [v |-> z, fd |-> p.fd, text |-> p.text]
    BY <1>3, <1>5, <2>3 DEF Then
  <2> HIDE DEF z, m
  <2>5. Keeps(m, z, I) /\ Holds(m, z, I)
    BY <2>2, UntouchedHolds DEF Same
  <2>6. Keeps(p.v, z, I) /\ Holds(p.v, z, I)
    BY <1>2, <2>5, KeepsOn, HoldsOn DEF m
  <2>7. Lives([v |-> z, fd |-> p.fd, text |-> p.text], I, Sh)
    BY <2>2, <2>6, HoldsLives
  <2>8. Stays(p.v, z, I)
    BY <2>6 DEF Keeps, Stays
  <2> QED
    BY <2>4, <2>7, <2>8 DEF n
<1>6. CASE m.end = "none" /\ Given(m, I, b) /\ b # 0
  <2> DEFINE J == I \cup {b}
  <2>1. /\ Good(w, J, {}) /\ Same(m, w) /\ Untouched(m, w, I) /\ b \notin I
        /\ \A x \in Place : BlocAt(w, b, x) = 0
    <3> HIDE DEF m, b
    <3>1. /\ Good(Put(m, b, EmptyInode), J, {}) /\ Same(m, Put(m, b, EmptyInode))
          /\ Untouched(m, Put(m, b, EmptyInode), I) /\ b \notin I
          /\ \A x \in Place : BlocAt(Put(m, b, EmptyInode), b, x) = 0
      BY <1>6, InodeAt
    <3> QED
      BY <3>1 DEF m
  <2> HIDE DEF w
  <2>2. Keeps(m, w, I) /\ Holds(m, w, I)
    <3> HIDE DEF m
    <3> QED
      BY <2>1, UntouchedHolds DEF Same
  <2>3. Keeps(p.v, w, I) /\ Holds(p.v, w, I)
    BY <1>2, <2>2, KeepsOn, HoldsOn
  <2>4. /\ q.v = w /\ q.fd = p.fd
        /\ q.text = [i \in J |-> IF i = b THEN [f \in Index |-> Zeros] ELSE p.text[i]]
    BY <1>3, <1>6 DEF Then
  <2> HIDE DEF q, m, b
  <2>5. q.text \in [J -> [Index -> Bytes]]
    <3>1. [f \in Index |-> Zeros] \in [Index -> Bytes]
      BY NoEntries
    <3> QED
      BY <1>1, <2>4, <3>1
  <2>6. \A x \in Fd : OnFile(w, J, q.fd[x]) /\ (q.fd[x].open => q.fd[x].inoeud \in I)
    <3>1. \A x \in Fd : OnFile(w, I, p.fd[x])
      BY <1>1, <2>3, OnFileKept
    <3> QED
      BY <2>4, <3>1 DEF OnFile
  <2>7. Alone(q.fd, J, Sh)
    BY <1>1, <2>1, <2>4, <2>6 DEF Alone
  <2>8. ASSUME NEW j \in J, j \notin Sh, NEW f \in 0 .. 2 * NB - 1
        PROVE  SaidAt(q, j, f)
    <3>1. f \in Index /\ Spot(f) \in Place
      BY Below2, SpotPlace DEF Index
    <3>2. CASE j \in I
      <4>1. SaidAt(p, j, f)
        BY <1>1, <2>8, <3>2 DEF Said
      <4>2. HeldAt(w, j, f) = HeldAt(p.v, j, f)
        BY <2>3, <3>2 DEF Holds
      <4>3. q.text[j][f] = p.text[j][f]
        BY <2>1, <2>4, <3>2
      <4> QED
        BY <2>4, <4>1, <4>2, <4>3 DEF SaidAt
    <3>3. CASE j = b
      <4>1. \A x \in Fd : ~On(q.fd[x], j, f)
        BY <2>1, <2>6, <3>3 DEF On
      <4>2. HeldAt(w, j, f) = Zeros
        BY <2>1, <3>1, <3>3 DEF HeldAt, At2
      <4>3. q.text[j][f] = Zeros
        BY <2>4, <3>1, <3>3
      <4> QED
        BY <2>4, <4>1, <4>2, <4>3 DEF SaidAt
    <3> QED
      BY <3>2, <3>3
  <2>9. Said(q, J, Sh)
    BY <2>8 DEF Said
  <2>10. Lives(q, J, Sh)
    BY <1>1, <2>1, <2>4, <2>5, <2>6, <2>7, <2>9 DEF Lives
  <2>11. Stays(p.v, q.v, I)
    BY <2>3, <2>4 DEF Keeps, Stays
  <2> QED
    BY <2>10, <2>11 DEF q, n
<1> QED
  BY <1>2, <1>4, <1>5, <1>6

-----------------------------------------------------------------------------
(* delete_ifile.                                                             *)

LEMMA FreeIn ==
    ASSUME NEW v \in Volume, NEW b \in Bloc
    PROVE  LET w == FreeBloc(v, b)
           IN  /\ w \in Volume /\ w.nb = v.nb + 1 /\ w.first = b /\ w.gave
               /\ w.end = v.end /\ w.astray = v.astray
               /\ \A c \in Bloc : w.disk[c] = IF c = b THEN Free(1, v.first)
                                              ELSE IF c = 0 THEN Super(v.nb + 1, b)
                                              ELSE v.disk[c]
<1> DEFINE g == [v EXCEPT !.nb = v.nb + 1, !.first = b, !.gave = TRUE]
           z == Super(g.nb, g.first)
           s == Put(g, 0, z)
           c == Clean(s, b)
           w == Put(c, b, Free(1, v.first))
<1>1. v.nb + 1 \in Nat /\ v.first \in Bloc /\ 0 \in Bloc /\ 1 \in Nat
  BY VolumeType DEF Bloc
<1>2. /\ g \in Volume /\ g.nb = v.nb + 1 /\ g.first = b /\ g.gave = TRUE
      /\ g.end = v.end /\ g.astray = v.astray /\ g.disk = v.disk
  BY <1>1 DEF Volume
<1> HIDE DEF g
<1>3. z \in Sector /\ z = Super(v.nb + 1, b) /\ Free(1, v.first) \in Sector
  BY <1>1, <1>2, SectorKinds
<1> HIDE DEF z
<1>4. /\ s \in Volume /\ Same(g, s)
      /\ \A x \in Bloc : s.disk[x] = IF x = 0 THEN z ELSE g.disk[x]
  <2>1. g \in Volume /\ 0 \in Bloc /\ z \in Sector
    BY <1>1, <1>2, <1>3
  <2> QED
    BY <2>1, PutIn
<1> HIDE DEF s
<1>5. /\ c \in Volume /\ Same(s, c)
      /\ \A x \in Bloc : c.disk[x] = IF x = b THEN Data(Zeros) ELSE s.disk[x]
  BY <1>4, CleanIn
<1> HIDE DEF c
<1>6. /\ w \in Volume /\ Same(c, w)
      /\ \A x \in Bloc : w.disk[x] = IF x = b THEN Free(1, v.first) ELSE c.disk[x]
  BY <1>3, <1>5, PutIn
<1> HIDE DEF w
<1>7. FreeBloc(v, b) = w
  BY DEF FreeBloc, SaveSuper, w, c, s, z, g
<1>8. /\ w.nb = v.nb + 1 /\ w.first = b /\ w.gave
      /\ w.end = v.end /\ w.astray = v.astray
  BY <1>2, <1>4, <1>5, <1>6 DEF Same
<1>9. \A x \in Bloc : w.disk[x] = IF x = b THEN Free(1, v.first)
                                  ELSE IF x = 0 THEN Super(v.nb + 1, b)
                                  ELSE v.disk[x]
  BY <1>2, <1>3, <1>4, <1>5, <1>6
<1> QED
  BY <1>6, <1>7, <1>8, <1>9

\* An inode with its tables finds the same blocs.
LEMMA LookupStays ==
    ASSUME NEW v, NEW I, NEW L, Good(v, I, L), NEW i \in I, NEW w, w.disk[i] = v.disk[i],
           \A c \in Tables(v, i) : c # 0 => w.disk[c] = v.disk[c], NEW f
    PROVE  Legible(w, i, f) /\ Lookup(w, i, f) = Lookup(v, i, f)
<1> DEFINE ino == v.disk[i]
           b2 == NameIn(v, ino.double, Row(f))
<1>1. \A c \in Tables(v, i) : c # 0 =>
          IsTable(v, c) /\ IsTable(w, c) /\ Table(w, c) = Table(v, c)
  <2>1. ASSUME NEW c \in Tables(v, i), c # 0
        PROVE  IsTable(v, c) /\ IsTable(w, c) /\ Table(w, c) = Table(v, c)
    <3>1. IsTable(v, c) /\ w.disk[c] = v.disk[c]
      BY <2>1, TableApart
    <3> QED
      BY <3>1 DEF IsTable, Table
  <2> QED
    BY <2>1
<1>2. ino.indirect \in Tables(v, i) /\ ino.double \in Tables(v, i)
  BY DEF Tables
<1>3. ASSUME f \in 2 * NB .. F - 1, ino.double # 0
      PROVE  Level2(Table(v, ino.double), Row(f)) = b2 /\ b2 \in Tables(v, i)
  BY <1>3, RowColumn, RowFound DEF Tables
<1> HIDE DEF b2
<1>4. Legible(w, i, f)
  <2>1. f \in 2 * NB .. F - 1 /\ ino.double # 0 =>
            /\ IsTable(w, ino.double)
            /\ LET c == Level2(Table(w, ino.double), Row(f)) IN c = 0 \/ IsTable(w, c)
    BY <1>1, <1>2, <1>3
  <2> QED
    BY <1>1, <1>2, <2>1 DEF Legible
<1>5. Lookup(w, i, f) = Lookup(v, i, f)
  <2>1. CASE f < NB
    BY <2>1 DEF Lookup
  <2>2. CASE ~(f < NB) /\ f \in NB .. 2 * NB - 1
    <3>1. /\ Lookup(v, i, f) = IF ino.indirect = 0 THEN 0
                               ELSE Entry(Table(v, ino.indirect), f - NB)
          /\ Lookup(w, i, f) = IF ino.indirect = 0 THEN 0
                               ELSE Entry(Table(w, ino.indirect), f - NB)
      BY <2>2 DEF Lookup
    <3> QED
      BY <1>1, <1>2, <3>1
  <2>3. CASE ~(f < NB) /\ f \notin NB .. 2 * NB - 1 /\ f \in 2 * NB .. F - 1
    <3>1. /\ Lookup(v, i, f) = IF ino.double = 0 THEN 0 ELSE LookupDouble(v, ino, f)
          /\ Lookup(w, i, f) = IF ino.double = 0 THEN 0 ELSE LookupDouble(w, ino, f)
      BY <2>3 DEF Lookup
    <3>2. ino.double # 0 => LookupDouble(w, ino, f) = LookupDouble(v, ino, f)
      BY <1>1, <1>2, <1>3, <2>3 DEF LookupDouble
    <3> QED
      BY <3>1, <3>2
  <2>4. CASE ~(f < NB) /\ f \notin NB .. 2 * NB - 1 /\ f \notin 2 * NB .. F - 1
    BY <2>4 DEF Lookup
  <2> QED
    BY <2>1, <2>2, <2>3, <2>4
<1> QED
  BY <1>4, <1>5

IsDeletion(f, K, v, i) ==
    f = [n \in 0 .. K |-> IF n = 0 THEN v ELSE Without(f[n - 1], i, n - 1)]

LEMMA DeletionExists ==
    ASSUME NEW v, NEW i, NEW K \in Nat
    PROVE  \E f : IsDeletion(f, K, v, i)
<1> DEFINE T == {n \in Nat : \E f : IsDeletion(f, n, v, i)}
<1>1. 0 \in T
  <2> DEFINE f == [n \in 0 .. 0 |-> v]
  <2>1. IsDeletion(f, 0, v, i)
    BY DEF IsDeletion
  <2> QED
    BY <2>1
<1>2. ASSUME NEW m \in 0 .. K - 1, m \in T
      PROVE  m + 1 \in T
  <2>1. PICK f : IsDeletion(f, m, v, i)
    BY <1>2
  <2> DEFINE g == [n \in 0 .. m + 1 |-> IF n = 0 THEN v ELSE Without(f[n - 1], i, n - 1)]
  <2>2. ASSUME NEW n \in 0 .. m + 1, n # 0
        PROVE  g[n - 1] = f[n - 1]
    <3>1. n - 1 \in 0 .. m /\ n - 1 \in 0 .. m + 1
      BY <2>2
    <3> QED
      BY <2>1, <3>1 DEF IsDeletion
  <2>3. IsDeletion(g, m + 1, v, i)
    BY <2>2 DEF IsDeletion
  <2> QED
    BY <2>3
<1> HIDE DEF T
<1>3. 0 .. K \subseteq T
  BY <1>1, <1>2, UpTo
<1> QED
  BY <1>3 DEF T

\* The blocs of the indices below n.
Blocs(v, i, n) == {Lookup(v, i, f) : f \in 0 .. n - 1}

\* After n blocs of a file were given back.
Emptied(v, u, i, n) ==
    /\ u \in Volume /\ ~u.astray /\ u.end = "none" /\ u.nb = v.nb + n
    /\ \A c \in Bloc : c # 0 /\ c \notin Blocs(v, i, n) => u.disk[c] = v.disk[c]
    /\ \A c \in Blocs(v, i, n) : c # 0 => u.disk[c].kind = "free"

\* What is given back is in the file, and is no table.
LEMMA GivenNamed ==
    ASSUME NEW v, NEW I, NEW L, Good(v, I, L), NEW i \in I, NEW f \in 0 .. F - 1
    PROVE  LET c == Lookup(v, i, f)
           IN  /\ c \in Bloc
               /\ c # 0 => /\ c \in 1 .. NSector - 1 /\ c \notin I /\ v.disk[c].kind = "bytes"
                           /\ \A j \in I : c \notin Tables(v, j)
                           /\ \A j \in I, p \in Place : BlocAt(v, j, p) = c => j = i
<1> DEFINE c == Lookup(v, i, f)
<1>1. c = 0 \/ c = BlocAt(v, i, Spot(f))
  BY LookupSpot
<1> HIDE DEF c
<1>2. Spot(f) \in Place /\ Spot(f)[1] \in {"direct", "entry", "leaf"}
  <2>1. f < NB \/ f \in NB .. 2 * NB - 1 \/ f >= 2 * NB
    OBVIOUS
  <2> QED
    BY <2>1, SpotPlace
<1>3. 0 \in Bloc
  BY DEF Bloc
<1>4. ASSUME c # 0
      PROVE  /\ c \in Bloc /\ c \in 1 .. NSector - 1 /\ c \notin I /\ v.disk[c].kind = "bytes"
             /\ \A j \in I : c \notin Tables(v, j)
             /\ \A j \in I, p \in Place : BlocAt(v, j, p) = c => j = i
  <2>1. c \in Bloc /\ c \in 1 .. NSector - 1 /\ c \notin I /\ v.disk[c].kind = "bytes"
    BY <1>1, <1>2, <1>4, NamedBloc DEF IsTable
  <2>2. \A j \in I, p \in Place : BlocAt(v, j, p) = c => j = i /\ p = Spot(f)
    BY <1>1, <1>2, <1>4 DEF Good, Distinct
  <2>3. ASSUME NEW j \in I, c \in Tables(v, j) PROVE FALSE
    <3>1. PICK p \in Place : p[1] \in {"indirect", "double", "row"} /\ c = BlocAt(v, j, p)
      BY <2>3, TableNamed
    <3>2. p = Spot(f)
      BY <2>2, <3>1
    <3> QED
      BY <1>2, <3>1, <3>2
  <2> QED
    BY <2>1, <2>2, <2>3
<1> QED
  BY <1>3, <1>4 DEF c

LEMMA WithoutOne ==
    ASSUME NEW v, NEW I, NEW L, Good(v, I, L), NEW i \in I, NEW n \in 0 .. F - 1,
           NEW u, Emptied(v, u, i, n)
    PROVE  Emptied(v, Without(u, i, n), i, n + 1)
<1> DEFINE b == Lookup(v, i, n)
           w == FreeBloc(u, b)
<1>1. /\ u \in Volume /\ ~u.astray /\ u.end = "none" /\ u.nb = v.nb + n
      /\ \A c \in Bloc : c # 0 /\ c \notin Blocs(v, i, n) => u.disk[c] = v.disk[c]
      /\ \A c \in Blocs(v, i, n) : c # 0 => u.disk[c].kind = "free"
  BY DEF Emptied
<1>2. ASSUME NEW c \in Blocs(v, i, n), c # 0
      PROVE  c # i /\ c \notin Tables(v, i) /\ c \in Bloc
  <2>1. PICK f \in 0 .. n - 1 : c = Lookup(v, i, f)
    BY DEF Blocs
  <2>2. f \in 0 .. F - 1
    <3> HIDE DEF F
    <3> QED
      OBVIOUS
  <2> QED
    BY <1>2, <2>1, <2>2, GivenNamed
<1>3. u.disk[i] = v.disk[i]
  BY <1>1, <1>2, InodeType DEF Good
<1>4. \A c \in Tables(v, i) : c # 0 => u.disk[c] = v.disk[c]
  BY <1>1, <1>2, TableApart
<1>5. Legible(u, i, n) /\ Lookup(u, i, n) = b
  BY <1>3, <1>4, LookupStays
<1>6. Without(u, i, n) = w
  BY <1>1, <1>5 DEF Without
<1>7. b \in Bloc
  BY GivenNamed
<1> HIDE DEF b
<1>8. /\ w \in Volume /\ w.nb = u.nb + 1 /\ w.end = u.end /\ w.astray = u.astray
      /\ \A c \in Bloc : w.disk[c] = IF c = b THEN Free(1, u.first)
                                     ELSE IF c = 0 THEN Super(u.nb + 1, b)
                                     ELSE u.disk[c]
  BY <1>1, <1>7, FreeIn
<1> HIDE DEF w
<1>9. Blocs(v, i, n + 1) = Blocs(v, i, n) \cup {b}
  <2>1. 0 .. n = (0 .. n - 1) \cup {n} /\ n + 1 - 1 = n
    OBVIOUS
  <2> QED
    BY <2>1 DEF Blocs, b
<1>10. w.nb = v.nb + (n + 1)
  <2>1. v.nb \in Nat
    BY VolumeType DEF Good
  <2> QED
    BY <1>1, <1>8, <2>1
<1>11. ~w.astray /\ w.end = "none"
  BY <1>1, <1>8
<1>12. \A c \in Bloc : c # 0 /\ c \notin Blocs(v, i, n + 1) => w.disk[c] = v.disk[c]
  BY <1>1, <1>8, <1>9
<1>13. \A c \in Blocs(v, i, n + 1) : c # 0 => w.disk[c].kind = "free"
  <2>1. Free(1, u.first).kind = "free"
    BY DEF Free
  <2> QED
    BY <1>1, <1>2, <1>7, <1>8, <1>9, <2>1
<1>14. Emptied(v, w, i, n + 1)
  BY <1>8, <1>10, <1>11, <1>12, <1>13 DEF Emptied
<1> QED
  BY <1>6, <1>14

LEMMA AllEmptied ==
    ASSUME NEW v, NEW I, NEW L, Good(v, I, L), v.end = "none", NEW i \in I, NEW K \in 0 .. F,
           NEW f, IsDeletion(f, K, v, i)
    PROVE  Emptied(v, f[K], i, K)
<1> DEFINE T == {n \in 0 .. K : Emptied(v, f[n], i, n)}
<1>1. K \in Nat
  <2> HIDE DEF F
  <2> QED
    OBVIOUS
<1>2. 0 \in T
  <2>1. f[0] = v
    BY <1>1 DEF IsDeletion
  <2>2. Blocs(v, i, 0) = {}
    BY DEF Blocs
  <2>3. v \in Volume /\ v.nb \in Nat /\ ~v.astray
    BY VolumeType DEF Good
  <2> QED
    BY <1>1, <2>1, <2>2, <2>3 DEF Emptied
<1>3. ASSUME NEW n \in 0 .. K - 1, n \in T
      PROVE  n + 1 \in T
  <2>1. n + 1 \in 0 .. K /\ n + 1 # 0 /\ n + 1 - 1 = n
    BY <1>1
  <2>2. f[n + 1] = Without(f[n], i, n)
    BY <2>1 DEF IsDeletion
  <2>3. n \in 0 .. F - 1
    <3> HIDE DEF F
    <3> QED
      BY <1>1
  <2>4. Emptied(v, f[n], i, n)
    BY <1>3
  <2>5. Emptied(v, Without(f[n], i, n), i, n + 1)
    BY <2>3, <2>4, WithoutOne
  <2> QED
    BY <2>1, <2>2, <2>5
<1> HIDE DEF T
<1>4. 0 .. K \subseteq T
  BY <1>1, <1>2, <1>3, UpTo
<1> QED
  BY <1>1, <1>4 DEF T

\* A deletion: what the file had, and no table, is free.
Deletes(v, w, i) ==
    LET back == Blocs(v, i, v.disk[i].taille) \cup {i}
    IN  /\ \A c \in Bloc : c # 0 /\ c \notin back => w.disk[c] = v.disk[c]
        /\ \A c \in back : c # 0 => w.disk[c].kind = "free"
        /\ \A c \in back : c # 0 => c \in 1 .. NSector - 1 /\ v.disk[c].kind # "free"

LEMMA DeleteOutcome ==
    ASSUME NEW v, NEW I, Good(v, I, {}), v.end = "none", NEW i \in I
    PROVE  LET w == DeleteIfile(v, i)
           IN  /\ Good(w, I \ {i}, {}) /\ w.end = "none"
               /\ Untouched(v, w, I \ {i}) /\ Deletes(v, w, i)
<1> DEFINE K == v.disk[i].taille
           J == I \ {i}
           without == CHOOSE f : IsDeletion(f, K, v, i)
           u == without[K]
           w == FreeBloc(u, i)
           G == Blocs(v, i, K)
<1>1. K \in 0 .. F /\ i \in 1 .. NSector - 1 /\ i \in Bloc /\ i # 0 /\ 0 \in Bloc
      /\ v.disk[i].kind = "inode"
  BY InodeType DEF Good, Bloc
<1>2. K \in Nat
  <2> HIDE DEF K, F
  <2> QED
    BY <1>1
<1>3. IsDeletion(without, K, v, i)
  <2> HIDE DEF K
  <2> QED
    BY <1>2, DeletionExists
<1>4. DeleteIfile(v, i) = Then(u, w)
  BY DEF DeleteIfile, IsDeletion
<1> HIDE DEF without
<1>5. Emptied(v, u, i, K)
  <2> HIDE DEF K
  <2> QED
    BY <1>1, <1>3, AllEmptied
<1>6. /\ u \in Volume /\ ~u.astray /\ u.end = "none" /\ u.nb = v.nb + K
      /\ \A c \in Bloc : c # 0 /\ c \notin G => u.disk[c] = v.disk[c]
      /\ \A c \in G : c # 0 => u.disk[c].kind = "free"
  BY <1>5 DEF Emptied
<1>7. DeleteIfile(v, i) = w
  BY <1>4, <1>6 DEF Then
<1> HIDE DEF u
<1>8. /\ w \in Volume /\ w.nb = u.nb + 1 /\ w.first = i /\ w.gave
      /\ w.end = u.end /\ w.astray = u.astray
      /\ \A c \in Bloc : w.disk[c] = IF c = i THEN Free(1, u.first)
                                     ELSE IF c = 0 THEN Super(u.nb + 1, i)
                                     ELSE u.disk[c]
  BY <1>1, <1>6, FreeIn
<1> HIDE DEF w
<1>9. ASSUME NEW c \in G, c # 0
      PROVE  /\ c \in Bloc /\ c \in 1 .. NSector - 1 /\ c \notin I /\ v.disk[c].kind = "bytes"
             /\ \A j \in I : c \notin Tables(v, j)
             /\ \A j \in I, p \in Place : BlocAt(v, j, p) = c => j = i
  <2>1. PICK f \in 0 .. K - 1 : c = Lookup(v, i, f)
    BY DEF Blocs
  <2>2. f \in 0 .. F - 1
    <3> HIDE DEF F, K
    <3> QED
      BY <1>1
  <2> HIDE DEF G, K
  <2> QED
    BY <1>9, <2>1, <2>2, GivenNamed
<1> HIDE DEF G
<1>10. \A c \in Bloc : c # 0 /\ c # i /\ c \notin G => w.disk[c] = v.disk[c]
  BY <1>6, <1>8
<1>11. \A j \in J : w.disk[j] = v.disk[j]
  <2>1. ASSUME NEW j \in J PROVE w.disk[j] = v.disk[j]
    <3>1. j \in I /\ j # i /\ j \in Bloc /\ j # 0
      BY InodeType DEF Good
    <3> QED
      BY <1>9, <1>10, <3>1
  <2> QED
    BY <2>1
<1>12. \A j \in J : \A c \in Tables(v, j) : c # 0 => w.disk[c] = v.disk[c]
  <2>1. ASSUME NEW j \in J, NEW c \in Tables(v, j), c # 0 PROVE w.disk[c] = v.disk[c]
    <3>1. j \in I
      OBVIOUS
    <3>2. c \in Bloc /\ c \notin I
      BY <2>1, <3>1, TableApart
    <3> QED
      BY <1>9, <1>10, <2>1, <3>1, <3>2
  <2> QED
    BY <2>1
<1>13. \A j \in J, p \in Place : BlocAt(w, j, p) = BlocAt(v, j, p)
  <2> HIDE DEF J
  <2> QED
    BY <1>11, <1>12, SamePlacesAll
<1>14. ASSUME NEW j \in J, NEW p \in Place, BlocAt(v, j, p) # 0
       PROVE  w.disk[BlocAt(v, j, p)] = v.disk[BlocAt(v, j, p)]
  <2> DEFINE c == BlocAt(v, j, p)
  <2>1. j \in I /\ j # i
    OBVIOUS
  <2>2. c \in Bloc /\ c \notin I /\ c # 0
    BY <1>14, <2>1, NamedBloc
  <2>3. c \notin G
    BY <1>9, <2>1, <2>2
  <2> QED
    BY <1>10, <2>2, <2>3
<1>15. Untouched(v, w, J)
  BY <1>11, <1>13, <1>14 DEF Untouched
<1>16. Deletes(v, w, i)
  <2>1. Free(1, u.first).kind = "free"
    BY DEF Free
  <2>2. \A c \in Bloc : c # 0 /\ c \notin G \cup {i} => w.disk[c] = v.disk[c]
    BY <1>10
  <2>3. \A c \in G \cup {i} : c # 0 => w.disk[c].kind = "free"
    BY <1>1, <1>6, <1>8, <1>9, <2>1
  <2>4. \A c \in G \cup {i} : c # 0 => c \in 1 .. NSector - 1 /\ v.disk[c].kind # "free"
    BY <1>1, <1>9
  <2> QED
    BY <2>2, <2>3, <2>4 DEF Deletes, G
<1>17. Counts(w)
  <2>1. w.disk[0] = Super(u.nb + 1, i)
    BY <1>1, <1>8
  <2>2. w.nb >= 1
    <3>1. u.nb \in Nat
      BY <1>6, VolumeType
    <3> QED
      BY <1>8, <3>1
  <2> QED
    BY <1>8, <2>1, <2>2 DEF Counts, Super
<1>18. \A c : Taken(v, c) => Taken(w, c)
  BY <1>8 DEF Taken
<1>19. Files(w, J)
  BY <1>11, <1>18 DEF Files, Good
<1>20. Names(w, J)
  <2>1. ASSUME NEW j \in J, NEW p \in Place
        PROVE  NameOK(w, J, j, p, BlocAt(w, j, p))
    <3>1. NameOK(v, I, j, p, BlocAt(v, j, p))
      BY DEF Good, Names
    <3> QED
      BY <1>11, <1>13, <1>14, <1>18, <3>1 DEF NameOK
  <2> QED
    BY <2>1 DEF Names
<1>21. Distinct(w, J)
  BY <1>13 DEF Distinct, Good
<1>22. NotNamed(w, J, {}) /\ Complete(w, J, {}) /\ ~w.astray /\ w.end = "none"
  BY <1>6, <1>8 DEF NotNamed, Complete
<1>23. Good(w, J, {})
  BY <1>8, <1>17, <1>19, <1>20, <1>21, <1>22 DEF Good
<1> QED
  BY <1>7, <1>15, <1>16, <1>22, <1>23

DeletedBy(p, i) ==
    [v |-> DeleteIfile(p.v, i), fd |-> p.fd,
     text |-> [j \in DOMAIN p.text \ {i} |-> p.text[j]]]

LEMMA DeleteLives ==
    ASSUME NEW p, NEW I, NEW Sh, Lives(p, I, Sh), p.v.end = "none",
           \A d \in Fd : ~p.fd[d].open, NEW i \in I
    PROVE  LET q == DeletedBy(p, i)
           IN  /\ Lives(q, I \ {i}, Sh) /\ q.v.end = "none"
               /\ Stays(p.v, q.v, I \ {i}) /\ Deletes(p.v, q.v, i)
<1> DEFINE J == I \ {i}
           w == DeleteIfile(p.v, i)
           q == DeletedBy(p, i)
<1>1. /\ Good(p.v, I, {}) /\ p.fd \in [Fd -> FdType] /\ p.text \in [I -> [Index -> Bytes]]
      /\ Said(p, I, Sh)
  BY DEF Lives
<1>2. /\ Good(w, J, {}) /\ w.end = "none"
      /\ Untouched(p.v, w, J) /\ Deletes(p.v, w, i)
  BY <1>1, DeleteOutcome
<1>3. q.v = w /\ q.fd = p.fd /\ q.text = [j \in J |-> p.text[j]]
  BY <1>1 DEF DeletedBy
<1> HIDE DEF q, w
<1>4. Holds(p.v, w, J) /\ NoMore(p.v, w, J)
  BY <1>2, UntouchedNoMore
<1>5. ASSUME NEW j \in J, j \notin Sh, NEW f \in 0 .. 2 * NB - 1
      PROVE  SaidAt(q, j, f)
  <2>1. SaidAt(p, j, f)
    BY <1>1, <1>5 DEF Said
  <2>2. HeldAt(w, j, f) = HeldAt(p.v, j, f)
    BY <1>4 DEF Holds
  <2> QED
    BY <1>3, <2>1, <2>2 DEF SaidAt, On
<1>6. Said(q, J, Sh)
  BY <1>5 DEF Said
<1>7. (\A d \in Fd : OnFile(q.v, J, q.fd[d])) /\ Alone(q.fd, J, Sh)
  BY <1>3 DEF OnFile, Alone
<1>8. q.text \in [J -> [Index -> Bytes]]
  BY <1>1, <1>3
<1>9. Lives(q, J, Sh)
  BY <1>1, <1>2, <1>3, <1>6, <1>7, <1>8 DEF Lives
<1>10. Stays(p.v, w, J)
  BY <1>4 DEF NoMore, Stays
<1>11. Lives(q, J, Sh) /\ q.v.end = "none" /\ Stays(p.v, q.v, J) /\ Deletes(p.v, q.v, i)
  BY <1>2, <1>3, <1>9, <1>10
<1> QED
  BY <1>11 DEF q

-----------------------------------------------------------------------------
(* The steps.                                                                *)

\* What holds after a step, and what the step leaves.
Fine ==
    /\ Stray(vol') \/ Inv'
    /\ ~Stray(vol') =>
          /\ Stays(vol, vol', DOMAIN text \cap DOMAIN text')
          /\ \A i \in DOMAIN text \ DOMAIN text' : Deletes(vol, vol', i)

\* A call that keeps the set of files.
LEMMA PassesFine ==
    ASSUME NEW q, Passes(Before, q, DOMAIN text, shared), Returns(q), shared' = shared
    PROVE  Fine
<1>1. Stray(q.v) \/ (Lives(q, DOMAIN text, shared) /\ Keeps(vol, q.v, DOMAIN text))
  BY DEF Passes, Before
<1>2. vol' = q.v
  BY DEF Returns
<1>3. PICK I : I = DOMAIN text
  OBVIOUS
<1>4. PICK Sh : Sh = shared
  OBVIOUS
<1>5. (Stray(vol') \/ Inv') /\ (~Stray(vol') => DOMAIN text' = I)
  BY <1>1, <1>3, <1>4, Settled
<1>6. ~Stray(vol') => Stays(vol, vol', I)
  BY <1>1, <1>2, <1>3 DEF Keeps, Stays
<1> QED
  BY <1>3, <1>5, <1>6 DEF Fine

LEMMA CreateFine ==
    ASSUME AtRest(Before, DOMAIN text, shared), CreateIfile
    PROVE  Fine
<1> DEFINE q == Created(NewBloc(vol), Before)
<1>1. PICK I : I = DOMAIN text
  OBVIOUS
<1>2. PICK Sh : Sh = shared
  OBVIOUS
<1>3. vol.end = "none" /\ Returns(q) /\ shared' = Sh /\ Before.v = vol
  BY <1>2 DEF CreateIfile, Running, Before
<1>4. \E J : I \subseteq J /\ Lives(q, J, Sh) /\ Stays(vol, q.v, I)
  <2>1. Lives(Before, I, Sh)
    BY <1>1, <1>2 DEF AtRest
  <2>2. PICK p : p = Before
    OBVIOUS
  <2>3. LET r == Created(NewBloc(p.v), p)
        IN  \E J : I \subseteq J /\ Lives(r, J, Sh) /\ Stays(p.v, r.v, I)
    BY <1>3, <2>1, <2>2, CreateLives
  <2> QED
    BY <1>3, <2>2, <2>3
<1>5. PICK J : I \subseteq J /\ Lives(q, J, Sh) /\ Stays(vol, q.v, I)
  BY <1>4
<1> HIDE DEF q
<1>6. (Stray(vol') \/ Inv') /\ (~Stray(vol') => DOMAIN text' = J)
  BY <1>3, <1>5, Settled
<1>7. vol' = q.v
  BY <1>3 DEF Returns
<1> QED
  BY <1>1, <1>5, <1>6, <1>7 DEF Fine, Stays

LEMMA DeleteFine ==
    ASSUME AtRest(Before, DOMAIN text, shared), NEW i \in DOMAIN text, Delete(i)
    PROVE  Fine
<1>1. PICK I : I = DOMAIN text
  OBVIOUS
<1>2. PICK Sh : Sh = shared
  OBVIOUS
<1>3. PICK p : p = Before
  OBVIOUS
<1> DEFINE q == DeletedBy(p, i)
<1>4. /\ p.v = vol /\ p.fd = fd /\ p.text = text /\ vol.end = "none"
      /\ \A d \in Fd : ~fd[d].open
      /\ Returns(q) /\ shared' = Sh
  BY <1>2, <1>3 DEF Delete, Running, Before, DeletedBy
<1>5. Lives(p, I, Sh)
  BY <1>1, <1>2, <1>3 DEF AtRest
<1>6. /\ Lives(q, I \ {i}, Sh) /\ q.v.end = "none"
      /\ Stays(p.v, q.v, I \ {i}) /\ Deletes(p.v, q.v, i)
  BY <1>1, <1>4, <1>5, DeleteLives
<1> HIDE DEF q
<1>7. (Stray(vol') \/ Inv') /\ (~Stray(vol') => DOMAIN text' = I \ {i})
  BY <1>4, <1>6, Settled
<1>8. vol' = q.v
  BY <1>4 DEF Returns
<1> QED
  BY <1>1, <1>4, <1>6, <1>7, <1>8 DEF Fine, Stays

LEMMA OpenFine ==
    ASSUME AtRest(Before, DOMAIN text, shared), NEW d \in Fd, NEW i \in DOMAIN text,
           OpenIfile(d, i)
    PROVE  Fine
<1>1. PICK I : I = DOMAIN text
  OBVIOUS
<1>2. PICK p : p = Before
  OBVIOUS
<1>3. PICK Sh, Sh2 : Sh = shared /\ Sh2 = shared'
  OBVIOUS
<1> DEFINE q == OpenedBy(p, d, i)
<1>4. /\ p.v = vol /\ p.fd = fd /\ p.text = text /\ vol.end = "none" /\ ~fd[d].open
      /\ vol' = vol /\ text' = text /\ fd' = [fd EXCEPT ![d] = Opened(vol, i)]
  BY <1>2 DEF OpenIfile, Running, Before
<1>5. Sh \subseteq Sh2 /\ ((\E e \in Fd : fd[e].open /\ fd[e].inoeud = i) => i \in Sh2)
  BY <1>3 DEF OpenIfile
<1>6. Lives(p, I, Sh)
  BY <1>1, <1>2, <1>3 DEF AtRest
<1>7. Lives(q, I, Sh2)
  BY <1>1, <1>4, <1>5, <1>6, OpenLives
<1>8. q = Before'
  BY <1>4 DEF OpenedBy, Before
<1>9. AtRest(q, I, Sh2)
  BY <1>4, <1>7 DEF AtRest, OpenedBy
<1> HIDE DEF q
<1>10. AtRest(Before, DOMAIN text, shared)'
  BY <1>1, <1>3, <1>4, <1>8, <1>9
<1>11. Inv'
  BY <1>10 DEF Inv
<1> QED
  BY <1>4, <1>11 DEF Fine, Stays

LEMMA RestartFine ==
    ASSUME AtRest(Before, DOMAIN text, shared), Restart
    PROVE  Fine
<1>1. PICK I : I = DOMAIN text
  OBVIOUS
<1>2. PICK p : p = Before
  OBVIOUS
<1>3. PICK Sh : Sh = shared
  OBVIOUS
<1>4. Lives(p, I, Sh) /\ p.v = vol /\ p.fd = fd /\ p.text = text
  BY <1>1, <1>2, <1>3 DEF AtRest, Before
<1>5. Good(vol, I, {}) /\ vol \in Volume
  BY <1>4 DEF Lives, Good
<1> DEFINE w == Ends(vol, "none")
<1>6. vol' = w
  <2>1. vol.disk[0].kind = "super"
    BY DEF Restart
  <2>2. vol.disk[0].nb = vol.nb /\ vol.disk[0].first = vol.first
    BY <1>5, <2>1 DEF Good, Counts
  <2>3. [vol EXCEPT !.nb = vol.nb, !.first = vol.first, !.end = "none"]
            = [vol EXCEPT !.end = "none"]
    BY <1>5 DEF Volume
  <2>4. vol' = [vol EXCEPT !.nb = vol.disk[0].nb, !.first = vol.disk[0].first, !.end = "none"]
    BY DEF Restart
  <2> QED
    BY <2>2, <2>3, <2>4 DEF Ends
<1>7. Good(w, I, {}) /\ Keeps(vol, w, I) /\ Holds(vol, w, I)
  BY <1>5, EndKept
<1> HIDE DEF w
<1>8. AtRest(Gone(w, p), I, Sh)
  BY <1>4, <1>7, GoneLives
<1>9. Gone(w, p) = Before'
  BY <1>4, <1>6 DEF Restart, Gone, Before
<1>10. DOMAIN text' = I
  BY <1>1 DEF Restart, ForgetAll
<1>11. shared' = Sh
  BY <1>3 DEF Restart
<1>12. AtRest(Before, DOMAIN text, shared)'
  BY <1>8, <1>9, <1>10, <1>11
<1>13. Inv'
  BY <1>12 DEF Inv
<1>14. Stays(vol, vol', I)
  BY <1>6, <1>7 DEF Keeps, Stays
<1> QED
  BY <1>1, <1>10, <1>13, <1>14 DEF Fine

\* The calls on an open descriptor.
LEMMA DescriptorFine ==
    ASSUME AtRest(Before, DOMAIN text, shared), NEW d \in Fd,
           \/ Flush(d) \/ CloseIfile(d)
           \/ \E pos \in Target : Seek2Ifile(d, pos)
           \/ \E n \in Length : ReadIfile(d, n) \/ \E c \in Char : WriteIfile(d, c, n)
    PROVE  Fine
<1>1. PICK I : I = DOMAIN text
  OBVIOUS
<1>2. PICK p : p = Before
  OBVIOUS
<1>3. PICK Sh : Sh = shared
  OBVIOUS
<1>4. Lives(p, I, Sh) /\ p.v = vol /\ p.fd = fd /\ p.text = text
  BY <1>1, <1>2, <1>3 DEF AtRest, Before
<1>5. p.v.end = "none" /\ p.fd[d].open /\ shared' = shared
  BY <1>4 DEF Flush, CloseIfile, Seek2Ifile, ReadIfile, WriteIfile, Running
<1>6. ASSUME NEW q, Passes(p, q, I, Sh), Returns(q)
      PROVE  Fine
  <2>1. Passes(Before, q, DOMAIN text, shared)
    BY <1>1, <1>2, <1>3, <1>6
  <2> QED
    BY <1>5, <1>6, <2>1, PassesFine
<1>7. CASE Flush(d)
  <2>1. Returns(FlushedBy(p, d))
    BY <1>2, <1>7 DEF Flush, FlushedBy, Before
  <2>2. Passes(p, FlushedBy(p, d), I, Sh)
    BY <1>4, <1>5, FlushLives
  <2> QED
    BY <1>6, <2>1, <2>2
<1>8. CASE CloseIfile(d)
  <2>1. Returns(ClosedOn(FlushIfile(p.v, p.fd[d]), p, d))
    BY <1>2, <1>4, <1>8 DEF CloseIfile
  <2>2. Passes(p, ClosedOn(FlushIfile(p.v, p.fd[d]), p, d), I, Sh)
    BY <1>4, <1>5, CloseLives
  <2> QED
    BY <1>6, <2>1, <2>2
<1>9. ASSUME NEW pos \in Target, Seek2Ifile(d, pos)
      PROVE  Fine
  <2>1. Returns(Seek(p, d, pos))
    BY <1>2, <1>9 DEF Seek2Ifile
  <2>2. pos \in 0 .. MaxPos
    BY IfileAssumption
  <2>3. Passes(p, Seek(p, d, pos), I, Sh)
    BY <1>4, <1>5, <2>2, SeekLives
  <2> QED
    BY <1>6, <2>1, <2>3
<1>10. ASSUME NEW q, Steps(p, q, I, Sh, d), Returns(q)
       PROVE  Fine
  <2>1. Passes(p, q, I, Sh)
    BY <1>10 DEF Steps, Passes
  <2> QED
    BY <1>6, <1>10, <2>1
<1>11. ASSUME NEW n \in Length, ReadIfile(d, n)
       PROVE  Fine
  <2> DEFINE after == CHOOSE f : IsRead(f, n, p, d)
  <2>1. n \in Nat
    BY IfileAssumption
  <2>2. IsRead(after, n, p, d)
    BY <2>1, ReadExists
  <2>3. Returns(after[n])
    BY <1>2, <1>11 DEF ReadIfile, IsRead
  <2> HIDE DEF after
  <2>4. Steps(p, after[n], I, Sh, d)
    BY <1>4, <1>5, <2>1, <2>2, ReadSteps
  <2> QED
    BY <1>10, <2>3, <2>4
<1>12. ASSUME NEW n \in Length, NEW c \in Char, WriteIfile(d, c, n)
       PROVE  Fine
  <2> DEFINE after == CHOOSE f : IsWrite(f, n, p, d, c)
  <2>1. n \in Nat
    BY IfileAssumption
  <2>2. IsWrite(after, n, p, d, c)
    BY <2>1, WriteExists
  <2>3. Returns(after[n])
    BY <1>2, <1>12 DEF WriteIfile, IsWrite
  <2> HIDE DEF after
  <2>4. Steps(p, after[n], I, Sh, d)
    BY <1>4, <1>5, <2>1, <2>2, WriteSteps
  <2> QED
    BY <1>10, <2>3, <2>4
<1> QED
  BY <1>7, <1>8, <1>9, <1>11, <1>12

LEMMA NextFine ==
    ASSUME AtRest(Before, DOMAIN text, shared), Next
    PROVE  Fine
<1>1. CASE CreateIfile
  BY <1>1, CreateFine
<1>2. CASE Restart
  BY <1>2, RestartFine
<1>3. CASE \E i \in DOMAIN text : Delete(i)
  BY <1>3, DeleteFine
<1>4. CASE \E d \in Fd : \E i \in DOMAIN text : OpenIfile(d, i)
  BY <1>4, OpenFine
<1>5. ASSUME NEW d \in Fd,
             \/ Flush(d) \/ CloseIfile(d)
             \/ \E pos \in Target : Seek2Ifile(d, pos)
             \/ \E n \in Length : ReadIfile(d, n) \/ \E c \in Char : WriteIfile(d, c, n)
      PROVE  Fine
  BY <1>5, DescriptorFine
<1> QED
  BY <1>1, <1>2, <1>3, <1>4, <1>5 DEF Next

-----------------------------------------------------------------------------
(* The theorems.                                                             *)

\* Level2 finds every table of a row again: on a volume of no more sectors than a
\* byte has values always, on a larger one until a table is past them.
RowsFound == NSector <= W \/ ~vol.astray

\* A process on a volume that init_super made.
Born == [v |-> Fresh, fd |-> [d \in Fd |-> Closed], text |-> [i \in {} |-> {}]]

LEMMA BornLives ==
    /\ Lives(Born, {}, {}) /\ \A d \in Fd : ~Born.fd[d].open
    /\ Born.v = Fresh /\ Fresh.end = "none" /\ ~Fresh.gave /\ Fresh.nb = NSector - 1
    /\ Fresh.first = 1
<1>1. /\ 0 \in Bloc /\ 1 \in Bloc /\ NSector - 1 \in Nat /\ Zeros \in Bytes
  BY NoEntries DEF Bloc
<1>2. Super(NSector - 1, 1) \in Sector /\ Free(NSector - 1, 0) \in Sector
      /\ Data(Zeros) \in Sector
      /\ Super(NSector - 1, 1).kind = "super" /\ Super(NSector - 1, 1).nb = NSector - 1
      /\ Super(NSector - 1, 1).first = 1
  BY <1>1, SectorKinds
<1>3. /\ Fresh \in Volume /\ ~Fresh.astray /\ Fresh.end = "none" /\ ~Fresh.gave
      /\ Fresh.nb = NSector - 1 /\ Fresh.first = 1 /\ Fresh.disk[0] = Super(NSector - 1, 1)
  BY <1>1, <1>2 DEF Fresh, Volume
<1>4. Counts(Fresh)
  BY <1>2, <1>3 DEF Counts
<1>5. Files(Fresh, {}) /\ Names(Fresh, {}) /\ Distinct(Fresh, {}) /\ NotNamed(Fresh, {}, {})
  BY DEF Files, Names, Distinct, NotNamed
<1>6. Complete(Fresh, {}, {})
  BY <1>3 DEF Complete
<1>7. Good(Fresh, {}, {})
  BY <1>3, <1>4, <1>5, <1>6 DEF Good
<1>8. Closed \in FdType /\ ~Closed.open
  <2>1. 0 \in 0 .. MaxPos - 1 /\ 0 \in 0 .. F
    <3> HIDE DEF MaxPos
    <3> QED
      BY Positions
  <2> QED
    BY <1>1, <2>1 DEF Closed, FdType
<1>9. /\ Born.v = Fresh /\ Born.fd = [d \in Fd |-> Closed]
      /\ Born.text \in [{} -> [Index -> Bytes]]
  BY DEF Born
<1>10. (\A d \in Fd : OnFile(Born.v, {}, Born.fd[d])) /\ Alone(Born.fd, {}, {})
       /\ Said(Born, {}, {})
  BY <1>8, <1>9 DEF OnFile, Alone, Said
<1>11. Lives(Born, {}, {})
  BY <1>7, <1>8, <1>9, <1>10 DEF Lives
<1> QED
  BY <1>3, <1>8, <1>9, <1>11

LEMMA Starts ==
    ASSUME Init
    PROVE  Inv
<1>1. Before = Born /\ DOMAIN text = {} /\ shared = {}
  BY DEF Init, Before, Born
<1>2. AtRest(Born, {}, {})
  BY BornLives DEF AtRest
<1> QED
  BY <1>1, <1>2 DEF Inv

LEMMA Goes ==
    ASSUME Inv, RowsFound', [Next]_vars
    PROVE  Inv' /\ (Fine \/ UNCHANGED vars)
<1>1. CASE Next
  <2>1. Fine
    BY <1>1, NextFine DEF Inv
  <2>2. ~Stray(vol')
    BY DEF Stray, RowsFound
  <2> QED
    BY <2>1, <2>2 DEF Fine
<1>2. CASE UNCHANGED vars
  BY <1>2 DEF vars, Inv, Before
<1> QED
  BY <1>1, <1>2

LEMMA Always == Spec /\ []RowsFound => []Inv
<1>1. Init => Inv
  BY Starts
<1>2. Inv /\ RowsFound' /\ [Next]_vars => Inv'
  BY Goes
<1> QED
  BY <1>1, <1>2, PTL DEF Spec

\* What Inv says of the volume and of the descriptors.
LEMMA InvIs ==
    ASSUME Inv
    PROVE  /\ Good(vol, DOMAIN text, {}) /\ vol \in Volume
           /\ \A d \in Fd : fd[d] \in FdType /\ OnFile(vol, DOMAIN text, fd[d])
           /\ \A i \in DOMAIN text \ shared, f \in 0 .. 2 * NB - 1 : SaidAt(Before, i, f)
           /\ vol.end # "none" => \A d \in Fd : ~fd[d].open
  BY DEF Inv, AtRest, Lives, Good, Said, Before

LEMMA OwnersAre ==
    /\ \A i, p : Place2Bloc(i, p) = BlocAt(vol, i, p)
    /\ Owners = {o \in (DOMAIN text) \X Place : BlocAt(vol, o[1], o[2]) # 0}
<1>1. \A b, k : Named(b, k) = NameIn(vol, b, k)
  BY DEF Named, NameIn
<1>2. \A i, p : Place2Bloc(i, p) = BlocAt(vol, i, p)
  BY <1>1 DEF Place2Bloc, BlocAt
<1> QED
  BY <1>2 DEF Owners

LEMMA InvTypes ==
    ASSUME Inv
    PROVE  TypeOK
<1>1. Good(vol, DOMAIN text, {}) /\ vol \in Volume
  BY InvIs
<1>2. /\ vol.nb \in Nat /\ vol.first \in Bloc
      /\ vol.end \in {"none", "exit", "abort", "given", "wild"}
      /\ \A b \in Bloc : IsSector(vol.disk[b])
  BY <1>1, VolumeType, SectorKinds
<1>3. ASSUME NEW d \in Fd
      PROVE  /\ fd[d].cursor \in 0 .. MaxPos - 1 /\ fd[d].buffer \in Bytes
             /\ fd[d].size \in 0 .. F
             /\ fd[d].open => fd[d].inoeud \in DOMAIN text
  BY InvIs, FdTyped DEF OnFile
<1>4. \A i \in DOMAIN text : i \in 1 .. NSector - 1 /\ vol.disk[i].kind = "inode"
  BY <1>1, InodeType DEF Good
<1> QED
  BY <1>2, <1>3, <1>4 DEF TypeOK

\* The types of the volume, its sectors and the descriptors, and that the number
\* create_ifile gave to a file is always that of an inode, until delete_ifile.
THEOREM TypesKept == Spec /\ []RowsFound => []TypeOK
  BY InvTypes, Always, PTL

LEMMA FinitePlaces ==
    IsFiniteSet(Place)
<1>1. \A m \in Int, n \in Int : IsFiniteSet(m .. n)
  BY FS_Interval
<1>2. IsFiniteSet({"direct", "entry", "row"}) /\ IsFiniteSet({"leaf"})
  <2>1. IsFiniteSet({"direct"})
    BY FS_Singleton
  <2>2. IsFiniteSet({"direct"} \cup {"entry"})
    BY <2>1, FS_AddElement
  <2>3. IsFiniteSet(({"direct"} \cup {"entry"}) \cup {"row"})
    BY <2>2, FS_AddElement
  <2>4. ({"direct"} \cup {"entry"}) \cup {"row"} = {"direct", "entry", "row"}
    OBVIOUS
  <2> QED
    BY <2>3, <2>4, FS_Singleton
<1>3. IsFiniteSet({<<"indirect", 0>>, <<"double", 0>>})
  <2>1. IsFiniteSet({<<"indirect", 0>>})
    BY FS_Singleton
  <2>2. IsFiniteSet({<<"indirect", 0>>} \cup {<<"double", 0>>})
    BY <2>1, FS_AddElement
  <2>3. {<<"indirect", 0>>} \cup {<<"double", 0>>} = {<<"indirect", 0>>, <<"double", 0>>}
    BY Zenon
  <2> QED
    BY <2>2, <2>3
<1>4. IsFiniteSet(0 .. NB - 1) /\ IsFiniteSet(2 * NB .. F - 1)
  <2>1. 0 \in Int /\ NB - 1 \in Int /\ 2 * NB \in Int /\ F - 1 \in Int
    OBVIOUS
  <2> HIDE DEF F
  <2> QED
    BY <1>1, <2>1
<1> DEFINE A == {"direct", "entry", "row"} \X (0 .. NB - 1)
           B == {"leaf"} \X (2 * NB .. F - 1)
           C == {<<"indirect", 0>>, <<"double", 0>>}
<1>5. IsFiniteSet(A)
  BY <1>2, <1>4, FS_Product
<1>6. IsFiniteSet(B)
  BY <1>2, <1>4, FS_Product
<1>7. Place = (A \cup B) \cup C
  BY DEF Place
<1> HIDE DEF A, B, C
<1>8. IsFiniteSet(A \cup B)
  BY <1>5, <1>6, FS_Union
<1>9. IsFiniteSet(C)
  BY <1>3 DEF C
<1> QED
  BY <1>7, <1>8, <1>9, FS_Union

LEMMA SameNumber ==
    ASSUME NEW O, IsFiniteSet(O), NEW g \in [O -> Int], \A x, y \in O : g[x] = g[y] => x = y
    PROVE  Cardinality({g[x] : x \in O}) = Cardinality(O)
<1> DEFINE T == {g[x] : x \in O}
<1>1. g \in [O -> T] /\ DOMAIN g = O /\ \A t \in T : \E x \in O : g[x] = t
  OBVIOUS
<1> HIDE DEF T
<1>2. IsInjective(g)
  BY <1>1 DEF IsInjective
<1>3. g \in Bijection(O, T)
  BY <1>1, <1>2 DEF Bijection, Injection, Surjection
<1>4. ExistsBijection(O, T)
  BY <1>3 DEF ExistsBijection
<1>5. Cardinality(T) = Cardinality(O)
  BY <1>4, FS_Bijection
<1> QED
  BY <1>5 DEF T

\* No bloc that aux_vbloc_of_fbloc put in an inode or a table has two names, and none
\* that has one is an inode, the superbloc or free.
THEOREM OneName == Spec /\ []RowsFound => []OneOwner
<1>1. ASSUME Inv PROVE OneOwner
  <2> DEFINE O == Owners
             g == [o \in O |-> Place2Bloc(o[1], o[2])]
             T == {Place2Bloc(o[1], o[2]) : o \in O}
  <2>1. Good(vol, DOMAIN text, {})
    BY <1>1, InvIs
  <2>2. O \subseteq (DOMAIN text) \X Place
    BY DEF Owners
  <2>3. IsFiniteSet(O)
    <3>1. IsFiniteSet(1 .. NSector - 1)
      <4>1. 1 \in Int /\ NSector - 1 \in Int
        OBVIOUS
      <4> QED
        BY <4>1, FS_Interval
    <3>2. DOMAIN text \subseteq 1 .. NSector - 1
      BY <2>1, InodeType DEF Good
    <3>3. IsFiniteSet(DOMAIN text)
      BY <3>1, <3>2, FS_Subset
    <3>4. IsFiniteSet((DOMAIN text) \X Place)
      BY <3>3, FinitePlaces, FS_Product
    <3> HIDE DEF O
    <3> QED
      BY <2>2, <3>4, FS_Subset
  <2>4. ASSUME NEW o \in O
        PROVE  /\ o = <<o[1], o[2]>> /\ o[1] \in DOMAIN text /\ o[2] \in Place
               /\ g[o] = BlocAt(vol, o[1], o[2]) /\ g[o] # 0
    <3>1. o \in (DOMAIN text) \X Place
      BY <2>2
    <3>2. o = <<o[1], o[2]>> /\ o[1] \in DOMAIN text /\ o[2] \in Place
      BY <3>1
    <3> QED
      BY <3>2, OwnersAre DEF Owners
  <2>5. ASSUME NEW o \in O
        PROVE  /\ g[o] \in 1 .. NSector - 1 /\ Taken(vol, g[o]) /\ g[o] \notin DOMAIN text
    BY <2>1, <2>4, NamedBloc
  <2>6. \A o, q \in O : g[o] = g[q] => o = q
    BY <2>1, <2>4 DEF Good, Distinct
  <2>7. T = {g[o] : o \in O}
    OBVIOUS
  <2>8. g \in [O -> Int]
    BY <2>5
  <2> HIDE DEF O, g
  <2>9. Cardinality(T) = Cardinality(O)
    BY <2>3, <2>6, <2>7, <2>8, SameNumber
  <2>10. T \cap DOMAIN text = {} /\ \A b \in T : b < vol.first \/ vol.gave
    BY <2>5, <2>7 DEF Taken
  <2> QED
    BY <2>9, <2>10 DEF OneOwner, O
<1> QED
  BY <1>1, Always, PTL

\* Until delete_ifile is called or a file reaches its second level, every bloc that
\* new_bloc gave is an inode or has a name.
THEOREM NoneLost == Spec /\ []RowsFound => []NothingLeaks
<1>1. ASSUME Inv PROVE NothingLeaks
  <2> SUFFICES ASSUME ~vol.gave, \A i \in DOMAIN text : vol.disk[i].double = 0,
                      NEW c \in 1 .. vol.first - 1
               PROVE  c \in Reached
    BY DEF NothingLeaks
  <2>1. Good(vol, DOMAIN text, {}) /\ OneLevel(vol, DOMAIN text)
    BY <1>1, InvIs DEF OneLevel
  <2>2. c \in DOMAIN text \/ \E i \in DOMAIN text, p \in Place : BlocAt(vol, i, p) = c
    BY <2>1 DEF Good, Complete
  <2>3. ASSUME NEW i \in DOMAIN text, NEW p \in Place, BlocAt(vol, i, p) = c
        PROVE  c \in {Place2Bloc(o[1], o[2]) : o \in Owners}
    <3>1. c # 0
      BY VolumeType, <2>1 DEF Good, Bloc
    <3>2. <<i, p>> \in (DOMAIN text) \X Place
      OBVIOUS
    <3>3. <<i, p>> \in Owners
      BY <2>3, <3>1, <3>2, OwnersAre
    <3>4. Place2Bloc(<<i, p>>[1], <<i, p>>[2]) = c
      BY <2>3, OwnersAre
    <3> QED
      BY <3>3, <3>4
  <2> QED
    BY <2>2, <2>3 DEF Reached
<1> QED
  BY <1>1, Always, PTL

\* The size that aux_vbloc_of_fbloc keeps in the inode, and where delete_ifile stops,
\* is beyond every direct bloc and every bloc of a row.
THEOREM SizeIsEnough == Spec /\ []RowsFound => []SizeCovers
<1>1. ASSUME Inv PROVE SizeCovers
  <2>1. Good(vol, DOMAIN text, {})
    BY <1>1, InvIs
  <2>2. ASSUME NEW o \in Owners, o[2][1] \in {"direct", "leaf"}
        PROVE  o[2][2] < vol.disk[o[1]].taille
    <3>1. o[1] \in DOMAIN text /\ o[2] \in Place /\ BlocAt(vol, o[1], o[2]) # 0
      BY OwnersAre
    <3> QED
      BY <2>1, <2>2, <3>1 DEF Good, Names, NameOK
  <2> QED
    BY <2>2 DEF SizeCovers
<1> QED
  BY <1>1, Always, PTL

LEMMA InvReads ==
    ASSUME Inv
    PROVE  ReadsWhatWasWritten
<1> SUFFICES ASSUME NEW i \in DOMAIN text \ shared, NEW f \in 0 .. 2 * NB - 1
             PROVE  LET on == {d \in Fd : fd[d].open /\ fd[d].inoeud = i /\ At(fd[d]) = f}
                    IN  text[i][f] = IF on = {} THEN Content(vol, i, f)
                                     ELSE fd[CHOOSE d \in on : TRUE].buffer
  BY DEF ReadsWhatWasWritten
<1> DEFINE on == {d \in Fd : fd[d].open /\ fd[d].inoeud = i /\ At(fd[d]) = f}
<1>1. Good(vol, DOMAIN text, {}) /\ SaidAt(Before, i, f)
      /\ (vol.end # "none" => \A d \in Fd : ~fd[d].open)
  BY InvIs
<1>2. /\ (\A d \in Fd : ~On(fd[d], i, f)) => text[i][f] = HeldAt(vol, i, f)
      /\ vol.end = "none" => \A d \in Fd : On(fd[d], i, f) => text[i][f] = fd[d].buffer
  BY <1>1 DEF SaidAt, Before
<1>3. CASE on = {}
  <2>1. \A d \in Fd : ~On(fd[d], i, f)
    BY <1>3 DEF On
  <2>2. Content(vol, i, f) = HeldAt(vol, i, f)
    BY <1>1, LookupNamed
  <2> QED
    BY <1>2, <1>3, <2>1, <2>2
<1>4. CASE on # {}
  <2> DEFINE d == CHOOSE x \in on : TRUE
  <2>1. d \in on
    BY <1>4
  <2>2. d \in Fd /\ On(fd[d], i, f)
    BY <2>1 DEF On
  <2>3. vol.end = "none"
    BY <1>1, <2>2 DEF On
  <2> QED
    BY <1>2, <1>4, <2>2, <2>3
<1> QED
  BY <1>3, <1>4

\* In the first two levels a file reads as what write_ifile put in it, through the
\* buffer of the descriptor or, once it is flushed, from the disk.
THEOREM WhatWasWritten == Spec /\ []RowsFound => []ReadsWhatWasWritten
  BY InvReads, Always, PTL

\* In the first two levels no call changes the bloc that vbloc_of_fbloc finds for an
\* index of a file that stays.
THEOREM BlocsKept == Spec /\ []RowsFound => KeepsBloc
<1>1. ASSUME Inv, RowsFound', [Next]_vars
      PROVE  [\A i \in DOMAIN text \cap DOMAIN text', f \in 0 .. 2 * NB - 1 :
                 Lookup(vol, i, f) # 0 => Lookup(vol', i, f) = Lookup(vol, i, f)]_vars
  <2> SUFFICES ASSUME ~UNCHANGED vars, NEW i \in DOMAIN text \cap DOMAIN text',
                      NEW f \in 0 .. 2 * NB - 1, Lookup(vol, i, f) # 0
               PROVE  Lookup(vol', i, f) = Lookup(vol, i, f)
    OBVIOUS
  <2>1. Inv' /\ Fine
    BY <1>1, Goes
  <2>2. ~Stray(vol')
    BY <1>1 DEF Stray, RowsFound
  <2>3. At2(vol, i, f) # 0 => At2(vol', i, f) = At2(vol, i, f)
    BY <2>1, <2>2 DEF Fine, Stays
  <2>4. Lookup(vol, i, f) = At2(vol, i, f)
    BY <1>1, InvIs, LookupNamed
  <2>5. PICK w, I : w = vol' /\ I = DOMAIN text'
    OBVIOUS
  <2>6. Good(w, I, {})
    BY <2>1, <2>5 DEF Inv, AtRest, Lives, Before
  <2>7. Lookup(w, i, f) = At2(w, i, f)
    BY <2>5, <2>6, LookupNamed
  <2> QED
    BY <2>3, <2>4, <2>5, <2>7
<1>2. Inv /\ RowsFound' /\ [Next]_vars =>
          [\A i \in DOMAIN text \cap DOMAIN text', f \in 0 .. 2 * NB - 1 :
              Lookup(vol, i, f) # 0 => Lookup(vol', i, f) = Lookup(vol, i, f)]_vars
  BY <1>1
<1> QED
  BY <1>2, Always, PTL DEF Spec, KeepsBloc

\* The superbloc on the disk is only written over by a call that new_bloc refused a
\* bloc, and wrote on bloc 0.
THEOREM SuperKept == Spec /\ []RowsFound => SuperExplained
<1>1. ASSUME Inv, RowsFound', [Next]_vars
      PROVE  [vol.disk[0].kind = "super" /\ vol'.disk[0].kind # "super" => vol'.nb = 0]_vars
  <2>1. Inv'
    BY <1>1, Goes
  <2>2. Counts(vol')
    BY <2>1 DEF Inv, AtRest, Lives, Before, Good
  <2> QED
    BY <2>2 DEF Counts
<1>2. Inv /\ RowsFound' /\ [Next]_vars =>
          [vol.disk[0].kind = "super" /\ vol'.disk[0].kind # "super" => vol'.nb = 0]_vars
  BY <1>1
<1> QED
  BY <1>2, Always, PTL DEF Spec, SuperExplained

\* delete_ifile gives back the blocs below the size of a file without a hole or a
\* second level, and its inode, and nothing else: its table of one level stays taken.
THEOREM DeletionExact == Spec /\ []RowsFound => DeleteReturns
<1> DEFINE Exact ==
        \A i \in DOMAIN text \ DOMAIN text' :
            LET below == 0 .. vol.disk[i].taille - 1
                blocs == {Lookup(vol, i, f) : f \in below}
            IN  vol.disk[i].double = 0 /\ 0 \notin blocs =>
                {b \in 1 .. NSector - 1 : vol'.disk[b].kind = "free"
                                          /\ vol.disk[b].kind # "free"}
                    = blocs \cup {i}
<1>1. ASSUME Inv, RowsFound', [Next]_vars, ~UNCHANGED vars
      PROVE  Exact
  <2> SUFFICES ASSUME NEW i \in DOMAIN text \ DOMAIN text',
                      0 \notin Blocs(vol, i, vol.disk[i].taille)
               PROVE  {b \in 1 .. NSector - 1 : vol'.disk[b].kind = "free"
                                                /\ vol.disk[b].kind # "free"}
                          = Blocs(vol, i, vol.disk[i].taille) \cup {i}
    BY DEF Blocs
  <2> DEFINE back == Blocs(vol, i, vol.disk[i].taille) \cup {i}
  <2>1. Fine /\ ~Stray(vol')
    BY <1>1, Goes DEF Stray, RowsFound
  <2>2. Deletes(vol, vol', i)
    BY <2>1 DEF Fine
  <2>3. i # 0
    BY <1>1, InvIs, InodeType DEF Good
  <2>4. 0 \notin back
    BY <2>3
  <2>5. /\ \A c \in Bloc : c # 0 /\ c \notin back => vol'.disk[c] = vol.disk[c]
        /\ \A c \in back : vol'.disk[c].kind = "free" /\ c \in 1 .. NSector - 1
                           /\ vol.disk[c].kind # "free"
    BY <2>2, <2>4 DEF Deletes
  <2>6. \A c \in 1 .. NSector - 1 : c \in Bloc /\ c # 0
    BY DEF Bloc
  <2> HIDE DEF back
  <2>7. {b \in 1 .. NSector - 1 : vol'.disk[b].kind = "free" /\ vol.disk[b].kind # "free"}
            = back
    BY <2>5, <2>6
  <2> QED
    BY <2>7 DEF back
<1>2. Inv /\ RowsFound' /\ [Next]_vars => [Exact]_vars
  BY <1>1
<1> QED
  BY <1>2, Always, PTL DEF Spec, DeleteReturns

\* On a volume of no more sectors than a byte has values (256), where the rows of
\* aux_vbloc_of_fbloc always find their tables, all of it without condition.
THEOREM SmallVolume ==
    ASSUME NSector <= W
    PROVE  Spec => /\ [](TypeOK /\ OneOwner /\ NothingLeaks /\ SizeCovers /\ ReadsWhatWasWritten)
                   /\ KeepsBloc /\ SuperExplained /\ DeleteReturns
<1>1. RowsFound
  BY DEF RowsFound
<1> QED
  BY <1>1, TypesKept, OneName, NoneLost, SizeIsEnough, WhatWasWritten, BlocsKept,
     SuperKept, DeletionExact, PTL
=============================================================================
