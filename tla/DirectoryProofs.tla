--------------------------- MODULE DirectoryProofs ---------------------------
(***************************************************************************)
(* Directories: what create_file put in them and delete_file did not take   *)
(* out is what they show and what a search finds, for every size of the     *)
(* volume, the tables and the entries.                                      *)
(*                                                                          *)
(* A directory has no bloc past the table of one level and its volume gives *)
(* nothing back, so that new_bloc ends no call and a descriptor dies only   *)
(* when the volume is full.  Each function of dir.c has a lemma that says    *)
(* what becomes of the bytes of a directory; the theorems are at the end.   *)
(***************************************************************************)
EXTENDS Directory, IfileProofs

-----------------------------------------------------------------------------
(* Volumes.                                                                 *)

LEMMA DirSizes ==
    /\ NB \in Nat /\ NB >= 2 /\ E \in Nat /\ E >= 2 /\ E < S /\ S \in Nat /\ S > 0
    /\ W \in Nat /\ NSector \in Nat /\ W > NSector /\ NSector >= 3
    /\ F \in Nat /\ F >= 2 * NB
  BY Sizes, DirectoryAssumption

\* What is kept of a name is a byte other than 0, and a byte is kept as it is.
LEMMA StoredIs ==
    /\ Stored(0) = 0 /\ 0 \notin Name
    /\ \A name \in Name : Stored(name) \in 1 .. W - 1 /\ Stored(name) # 0
    /\ \A name \in Long : name \notin 0 .. W - 1
  BY DirectoryAssumption, DirSizes DEF Stored

LEMMA NoStray ==
    ASSUME NEW v
    PROVE  ~Stray(v)
  BY DirSizes DEF Stray

\* A directory never grows past the first entry of its table, which it has then.
Sized(v, i) ==
    /\ v.disk[i].taille <= NB + 1
    /\ v.disk[i].indirect # 0 => v.disk[i].taille >= NB + 1

\* A later volume: files stay sized, and are no shorter.
Widens(v, w, I) ==
    \A j \in I : Sized(v, j) => Sized(w, j) /\ w.disk[j].taille >= v.disk[j].taille

LEMMA SizedType ==
    ASSUME NEW v, NEW I, NEW L, Good(v, I, L), NEW i \in I
    PROVE  v.disk[i].taille \in Nat
  BY InodeType, DirSizes DEF Good

LEMMA WidensSelf ==
    ASSUME NEW v, NEW w, NEW I, NEW L, Good(v, I, L), \A j \in I : w.disk[j] = v.disk[j]
    PROVE  Widens(v, w, I)
  BY SizedType DEF Widens, Sized

LEMMA WidensOn ==
    ASSUME NEW u, NEW v, NEW w, NEW I, NEW K, NEW L, NEW M,
           Good(u, I, K), Good(v, I, L), Good(w, I, M), Widens(u, v, I), Widens(v, w, I)
    PROVE  Widens(u, w, I)
<1> SUFFICES ASSUME NEW j \in I, Sized(u, j)
             PROVE  Sized(w, j) /\ w.disk[j].taille >= u.disk[j].taille
  BY DEF Widens
<1>1. /\ Sized(v, j) /\ v.disk[j].taille >= u.disk[j].taille
      /\ Sized(w, j) /\ w.disk[j].taille >= v.disk[j].taille
  BY DEF Widens
<1>2. u.disk[j].taille \in Nat /\ v.disk[j].taille \in Nat /\ w.disk[j].taille \in Nat
  BY SizedType
<1> QED
  BY <1>1, <1>2

\* A volume that gave nothing back: new_bloc ends nothing.
LEMMA NewBlocNear ==
    ASSUME NEW v, NEW I, Good(v, I, {}), v.end = "none", ~v.gave
    PROVE  LET n == NewBloc(v)
           IN  /\ n.v.end = "none" /\ n.v.gave = FALSE /\ Given(n.v, I, n.b)
               /\ n.v \in Volume /\ n.b \in Bloc /\ n.b \notin I
               /\ \A j \in I : n.v.disk[j] = v.disk[j]
               /\ v.nb = 0 <=> n.b = 0
<1> DEFINE n == NewBloc(v)
<1>1. /\ \A j \in I : n.v.disk[j] = v.disk[j]
      /\ v.nb = 0 => n.b = 0
      /\ n.v.end # "given" => Given(n.v, I, n.b)
  BY NewBlocs DEF Untouched
<1>2. n.v.end = "none" /\ n.v.gave = FALSE /\ (v.nb # 0 => n.b # 0)
  <2>1. CASE v.nb = 0
    <3>1. n.v = v
      BY <2>1 DEF NewBloc
    <3> QED
      BY <2>1, <3>1, VolumeType DEF Good
  <2>2. CASE v.nb # 0
    <3>1. n.v.end = v.end /\ n.v.gave = v.gave /\ n.b # 0
      BY <2>2, Take
    <3> QED
      BY <3>1, VolumeType DEF Good
  <2> QED
    BY <2>1, <2>2
<1>3. Given(n.v, I, n.b)
  BY <1>1, <1>2
<1>4. n.v \in Volume /\ n.b \in Bloc
  BY <1>3 DEF Given, Good
<1>5. n.b \notin I
  <2>1. \A i \in I : i # n.b
    BY <1>3, GivenBloc
  <2> QED
    BY <2>1
<1> QED
  BY <1>1, <1>2, <1>3, <1>4, <1>5

\* The inode with one more name.
LEMMA InodeNamed ==
    ASSUME NEW ino \in Inode, NEW b \in Bloc, NEW f \in 0 .. F - 1
    PROVE  /\ f < NB => /\ DirectIn(ino, f, b) \in Inode
                        /\ DirectIn(ino, f, b).taille = Grown(ino.taille, f)
                        /\ DirectIn(ino, f, b).indirect = ino.indirect
           /\ IndirectIn(ino, f, b) \in Inode
           /\ IndirectIn(ino, f, b).taille = Grown(ino.taille, f)
<1>1. Grown(ino.taille, f) \in 0 .. F
  BY GrownType DEF Inode
<1>2. ASSUME f < NB
      PROVE  [ino.direct EXCEPT ![f] = b] \in [0 .. NB - 1 -> Bloc]
  BY DEF Inode
<1>3. DirectIn(ino, f, b) = [ino EXCEPT !.direct = [ino.direct EXCEPT ![f] = b],
                                        !.taille = Grown(ino.taille, f)]
  BY DEF DirectIn, Inode
<1>4. IndirectIn(ino, f, b) = [ino EXCEPT !.indirect = b, !.taille = Grown(ino.taille, f)]
  BY DEF IndirectIn, Inode
<1>5. f < NB => /\ DirectIn(ino, f, b) \in Inode
                /\ DirectIn(ino, f, b).taille = Grown(ino.taille, f)
                /\ DirectIn(ino, f, b).indirect = ino.indirect
  BY <1>1, <1>2, <1>3 DEF Inode
<1>6. /\ IndirectIn(ino, f, b) \in Inode
      /\ IndirectIn(ino, f, b).taille = Grown(ino.taille, f)
  BY <1>1, <1>4 DEF Inode
<1> QED
  BY <1>5, <1>6

\* What an allocation near the beginning of a file leaves of the other files.
Near(v, w, I) == w.end = "none" /\ w.gave = FALSE /\ Widens(v, w, I)

LEMMA DirectNear ==
    ASSUME NEW v, NEW I, Good(v, I, {}), v.end = "none", ~v.gave,
           NEW i \in I, NEW f \in 0 .. NB - 1
    PROVE  Near(v, AllocateDirect(v, i, f).v, I)
<1>1. CASE v.disk[i].direct[f] # 0
  <2>1. AllocateDirect(v, i, f).v = v
    BY <1>1 DEF AllocateDirect, Gives
  <2> QED
    BY <2>1, WidensSelf, VolumeType DEF Near, Good
<1>2. CASE v.disk[i].direct[f] = 0
  <2> DEFINE n == NewBloc(v)
             ino == DirectIn(v.disk[i], f, n.b)
             u == Put(n.v, i, ino)
             w == Clean(u, n.b)
  <2>1. /\ n.v.end = "none" /\ n.v.gave = FALSE /\ n.v \in Volume /\ n.b \in Bloc
        /\ n.b \notin I /\ \A j \in I : n.v.disk[j] = v.disk[j]
    BY NewBlocNear
  <2>2. AllocateDirect(v, i, f).v = w
    BY <1>2, <2>1 DEF AllocateDirect, DirectNamed, Gives, Then, DirectIn
  <2>3. v.disk[i] \in Inode /\ i \in Bloc /\ f \in 0 .. F - 1 /\ f < NB /\ f \in Nat
    BY InodeType, DirSizes DEF Good, Files
  <2>4. /\ ino \in Inode /\ ino \in Sector /\ ino.taille = Grown(v.disk[i].taille, f)
        /\ ino.indirect = v.disk[i].indirect
    BY <2>1, <2>3, InodeNamed, SectorKinds
  <2> HIDE DEF n, ino
  <2>5. /\ u \in Volume /\ Same(n.v, u)
        /\ \A c \in Bloc : u.disk[c] = IF c = i THEN ino ELSE n.v.disk[c]
    BY <2>1, <2>3, <2>4, PutIn
  <2> HIDE DEF u
  <2>6. /\ Same(u, w)
        /\ \A c \in Bloc : w.disk[c] = IF c = n.b THEN Data(Zeros) ELSE u.disk[c]
    BY <2>1, <2>5, CleanIn
  <2> HIDE DEF w
  <2>7. ASSUME NEW j \in I, Sized(v, j)
        PROVE  Sized(w, j) /\ w.disk[j].taille >= v.disk[j].taille
    <3>1. j \in Bloc /\ j # n.b /\ v.disk[j].taille \in Nat
      BY <2>1, InodeType, SizedType DEF Good
    <3>2. CASE j = i
      <4>1. w.disk[j] = ino
        BY <2>5, <2>6, <3>1, <3>2
      <4> QED
        BY <2>3, <2>4, <2>7, <3>1, <3>2, <4>1, DirSizes DEF Sized, Grown
    <3>3. CASE j # i
      <4>1. w.disk[j] = v.disk[j]
        BY <2>1, <2>5, <2>6, <3>1, <3>3
      <4> QED
        BY <2>7, <3>1, <4>1 DEF Sized
    <3> QED
      BY <3>2, <3>3
  <2> QED
    BY <2>1, <2>2, <2>5, <2>6, <2>7 DEF Near, Widens, Same
<1> QED
  BY <1>1, <1>2

\* The table of one level: the inode grows with it, and only once.
LEMMA WithIndirectNear ==
    ASSUME NEW v, NEW I, Good(v, I, {}), v.end = "none", ~v.gave,
           NEW i \in I, NEW f \in NB .. NB + 1, f = NB \/ v.disk[i].indirect # 0
    PROVE  Near(v, WithIndirect(v, i, f).v, I)
<1>1. CASE v.disk[i].indirect # 0
  <2>1. WithIndirect(v, i, f).v = v
    BY <1>1 DEF WithIndirect, Gives
  <2> QED
    BY <2>1, WidensSelf, VolumeType DEF Near, Good
<1>2. CASE v.disk[i].indirect = 0
  <2> DEFINE n == NewBloc(v)
             ino == IndirectIn(v.disk[i], f, n.b)
             u == Clean(n.v, n.b)
             w == Put(u, i, ino)
  <2>1. /\ n.v.end = "none" /\ n.v.gave = FALSE /\ n.v \in Volume /\ n.b \in Bloc
        /\ n.b \notin I /\ \A j \in I : n.v.disk[j] = v.disk[j]
    BY NewBlocNear
  <2>2. WithIndirect(v, i, f).v = w
    BY <1>2, <2>1 DEF WithIndirect, IndirectNamed, Gives, Then, IndirectIn
  <2>3. v.disk[i] \in Inode /\ i \in Bloc /\ f \in 0 .. F - 1 /\ f = NB
    BY <1>2, InodeType, DirSizes DEF Good, Files
  <2>4. ino \in Inode /\ ino \in Sector /\ ino.taille = Grown(v.disk[i].taille, f)
    BY <2>1, <2>3, InodeNamed, SectorKinds
  <2> HIDE DEF n, ino
  <2>5. /\ u \in Volume /\ Same(n.v, u)
        /\ \A c \in Bloc : u.disk[c] = IF c = n.b THEN Data(Zeros) ELSE n.v.disk[c]
    BY <2>1, CleanIn
  <2> HIDE DEF u
  <2>6. /\ Same(u, w)
        /\ \A c \in Bloc : w.disk[c] = IF c = i THEN ino ELSE u.disk[c]
    BY <2>3, <2>4, <2>5, PutIn
  <2> HIDE DEF w
  <2>7. ASSUME NEW j \in I, Sized(v, j)
        PROVE  Sized(w, j) /\ w.disk[j].taille >= v.disk[j].taille
    <3>1. j \in Bloc /\ j # n.b /\ v.disk[j].taille \in Nat
      BY <2>1, InodeType, SizedType DEF Good
    <3>2. CASE j = i
      <4>1. w.disk[j] = ino
        BY <2>6, <3>1, <3>2
      <4> QED
        BY <2>3, <2>4, <2>7, <3>1, <3>2, <4>1, DirSizes DEF Sized, Grown
    <3>3. CASE j # i
      <4>1. w.disk[j] = v.disk[j]
        BY <2>1, <2>5, <2>6, <3>1, <3>3
      <4> QED
        BY <2>7, <3>1, <4>1 DEF Sized
    <3> QED
      BY <3>2, <3>3
  <2> QED
    BY <2>1, <2>2, <2>5, <2>6, <2>7 DEF Near, Widens, Same
<1> QED
  BY <1>1, <1>2

\* An entry of it.
LEMMA InTableNear ==
    ASSUME NEW v, NEW I, NEW i \in I, NEW t, Outcome(v, I, i, Indirect, t), t.v.end = "none",
           t.v.gave = FALSE, NEW k \in 0 .. NB - 1, t.b # 0 \/ RefusesClean(t)
    PROVE  Near(t.v, InTable(t, k).v, I)
<1> DEFINE bytes == Table(t.v, t.b)
<1>1. Good(t.v, I, {}) /\ t.b = BlocAt(t.v, i, Indirect)
  BY DEF Outcome
<1>2. t.b \in Bloc /\ bytes \in Bytes /\ t.b \notin I
  <2>1. CASE t.b # 0
    BY <1>1, <2>1, NamedBloc, PlacesAre
  <2>2. CASE t.b = 0
    <3>1. t.v.disk[0] = Data(Zeros)
      BY <2>2 DEF RefusesClean
    <3>2. bytes = Zeros /\ 0 \in Bloc
      BY <2>2, <3>1, DirSizes DEF Table, Data, Bloc
    <3>3. \A j \in I : j # 0
      BY <1>1, InodeType DEF Good
    <3> QED
      BY <2>2, <3>2, <3>3, NoEntries
  <2> QED
    BY <2>1, <2>2
<1>3. CASE Entry(bytes, k) # 0
  <2>1. InTable(t, k).v = t.v
    BY <1>3 DEF InTable, Gives
  <2> QED
    BY <1>1, <2>1, WidensSelf DEF Near
<1>4. CASE Entry(bytes, k) = 0
  <2> DEFINE n == NewBloc(t.v)
             new == Data(WithEntry(bytes, k, n.b))
             u == Put(n.v, t.b, new)
             w == Clean(u, n.b)
  <2>1. /\ n.v.end = "none" /\ n.v.gave = FALSE /\ n.v \in Volume /\ n.b \in Bloc
        /\ n.b \notin I /\ \A j \in I : n.v.disk[j] = t.v.disk[j]
    BY <1>1, NewBlocNear
  <2>2. InTable(t, k).v = w
    BY <1>4, <2>1 DEF InTable, EntryNamed, Gives, Then
  <2>3. new \in Sector
    BY <1>2, <2>1, EntryWritten, SectorKinds
  <2> HIDE DEF n, new
  <2>4. /\ u \in Volume /\ Same(n.v, u)
        /\ \A c \in Bloc : u.disk[c] = IF c = t.b THEN new ELSE n.v.disk[c]
    BY <1>2, <2>1, <2>3, PutIn
  <2> HIDE DEF u
  <2>5. /\ Same(u, w)
        /\ \A c \in Bloc : w.disk[c] = IF c = n.b THEN Data(Zeros) ELSE u.disk[c]
    BY <2>1, <2>4, CleanIn
  <2> HIDE DEF w
  <2>6. \A j \in I : w.disk[j] = t.v.disk[j]
    <3>1. \A j \in I : j \in Bloc
      BY <1>1, InodeType DEF Good
    <3> QED
      BY <1>2, <2>1, <2>4, <2>5, <3>1
  <2> QED
    BY <1>1, <2>1, <2>2, <2>4, <2>5, <2>6, WidensSelf DEF Near, Same
<1> QED
  BY <1>3, <1>4

\* allocate_vbloc_of_fbloc, for the blocs that the entries of a directory reach.
LEMMA AllocateNear ==
    ASSUME NEW v, NEW I, Good(v, I, {}), v.end = "none", ~v.gave, NEW i \in I,
           NEW f \in 0 .. NB + 1, f # NB + 1 \/ v.disk[i].indirect # 0
    PROVE  LET r == Allocate(v, i, f)
           IN  /\ Near(v, r.v, I)
               /\ Outcome(v, I, i, Spot(f), r) /\ Starves(v, r.v, I) /\ Refuses(r)
               /\ r.b = At2(r.v, i, f)
<1> DEFINE r == Allocate(v, i, f)
<1>1. f \in 0 .. F - 1 /\ f < 2 * NB
  BY DirSizes
<1>2. Outcome(v, I, i, Spot(f), r) /\ Starves(v, r.v, I) /\ Refuses(r)
  BY <1>1, AllocateOutcome, NoStray
<1>3. v.disk[i].kind = "inode" /\ Legible(v, i, f)
  BY InodeType, Legibly DEF Good
<1>4. Near(v, r.v, I)
  <2>1. CASE f < NB
    <3>1. r = AllocateDirect(v, i, f) /\ f \in 0 .. NB - 1
      BY <1>3, <2>1, DirSizes DEF Allocate
    <3> QED
      BY <3>1, DirectNear
  <2>2. CASE ~(f < NB)
    <3> DEFINE t == WithIndirect(v, i, f)
    <3>1. f \in NB .. 2 * NB - 1 /\ f \in NB .. NB + 1 /\ f - NB \in 0 .. NB - 1
      BY <1>1, <2>2, DirSizes
    <3>2. r = InTable(t, f - NB)
      BY <1>3, <2>2, <3>1, DirSizes DEF Allocate, AllocateIndirect
    <3>3. Outcome(v, I, i, Indirect, t) /\ RefusesClean(t)
      BY <1>1, WithIndirectOutcome
    <3>4. f = NB \/ v.disk[i].indirect # 0
      BY <3>1, DirSizes
    <3>5. Near(v, t.v, I)
      BY <3>1, <3>4, WithIndirectNear
    <3> HIDE DEF t, r
    <3>6. Near(t.v, r.v, I)
      BY <3>1, <3>2, <3>3, <3>5, InTableNear DEF Near
    <3>7. Good(t.v, I, {}) /\ Good(r.v, I, {})
      BY <1>2, <3>3 DEF Outcome, r
    <3> QED
      BY <3>5, <3>6, <3>7, WidensOn DEF Near
  <2> QED
    BY <2>1, <2>2
<1>5. r.b = At2(r.v, i, f)
  BY <1>2, <1>4 DEF Outcome, Near, At2
<1> QED
  BY <1>2, <1>4, <1>5

-----------------------------------------------------------------------------
(* flush_ifile and seek_ifile near the beginning of a file.                 *)

\* The buffer of d is on a bloc that the entries of a directory reach, and that is
\* there, but the first one of an empty file.
There(v, d) ==
    /\ At(d) <= NB + 1
    /\ At(d) >= 1 => At2(v, d.inoeud, At(d)) # 0

LEMMA TableThere ==
    ASSUME NEW v, NEW i, NEW f \in NB .. NB + 1, At2(v, i, f) # 0
    PROVE  v.disk[i].indirect # 0
<1>1. f \in NB .. 2 * NB - 1 /\ f \in 0 .. F - 1
  BY DirSizes
<1>2. At2(v, i, f) = NameIn(v, v.disk[i].indirect, f - NB)
  BY <1>1, SpotPlace, PlaceOf DEF At2
<1> QED
  BY <1>2 DEF NameIn

LEMMA FlushNear ==
    ASSUME NEW v, NEW I, Good(v, I, {}), v.end = "none", ~v.gave, NEW d \in FdType, d.open,
           d.inoeud \in I, There(v, d)
    PROVE  LET w == FlushIfile(v, d)
           IN  Near(v, w, I) /\ Flushed(v, w, I, d)
<1> DEFINE w == FlushIfile(v, d)
           a == Allocate(v, d.inoeud, At(d))
<1>1. At(d) \in 0 .. F - 1 /\ At(d) \in 0 .. NB + 1 /\ At(d) < 2 * NB
  BY FdTyped, DirSizes DEF There
<1>2. Flushed(v, w, I, d)
  <2>1. OnFile(v, I, d)
    BY <1>1 DEF OnFile
  <2> QED
    BY <2>1, FlushOutcome, NoStray
<1>3. CASE ~d.modified
  <2>1. w = v
    BY <1>3 DEF FlushIfile
  <2> QED
    BY <1>2, <2>1, WidensSelf, VolumeType DEF Near, Good
<1>4. CASE d.modified
  <2>1. At(d) # NB + 1 \/ v.disk[d.inoeud].indirect # 0
    <3>1. CASE At(d) = NB + 1
      BY <3>1, TableThere, DirSizes DEF There
    <3> QED
      BY <3>1
  <2>2. Near(v, a.v, I) /\ Outcome(v, I, d.inoeud, Spot(At(d)), a) /\ a.b = At2(a.v, d.inoeud, At(d))
    BY <1>1, <2>1, AllocateNear
  <2>3. w = Put(a.v, a.b, Data(d.buffer))
    BY <1>4, <2>2 DEF FlushIfile, Written, Then, Near
  <2>4. Good(a.v, I, {}) /\ a.v \in Volume /\ a.b \in Bloc /\ a.b \notin I
    <3>1. Good(a.v, I, {})
      BY <2>2 DEF Outcome
    <3>2. CASE a.b # 0
      <4>1. Spot(At(d)) \in Place
        BY <1>1, SpotPlace
      <4> QED
        BY <2>2, <3>1, <3>2, <4>1, NamedBloc DEF At2, Good
    <3>3. CASE a.b = 0
      <4>1. \A j \in I : j # 0
        BY <3>1, InodeType DEF Good
      <4> QED
        BY <3>1, <3>3, <4>1, DirSizes DEF Good, Bloc
    <3> QED
      BY <3>2, <3>3
  <2>5. Data(d.buffer) \in Sector
    BY FdTyped, SectorKinds
  <2> HIDE DEF a, w
  <2>6. /\ Same(a.v, w)
        /\ \A c \in Bloc : w.disk[c] = IF c = a.b THEN Data(d.buffer) ELSE a.v.disk[c]
    BY <2>3, <2>4, <2>5, PutIn
  <2>7. \A j \in I : w.disk[j] = a.v.disk[j]
    <3>1. \A j \in I : j \in Bloc
      BY <2>4, InodeType DEF Good
    <3> QED
      BY <2>4, <2>6, <3>1
  <2>8. Widens(a.v, w, I)
    BY <2>4, <2>7, WidensSelf
  <2>9. Good(w, I, {})
    BY <1>2 DEF Flushed
  <2>10. Widens(v, w, I)
    BY <2>2, <2>4, <2>8, <2>9, WidensOn DEF Near
  <2> QED
    BY <1>2, <2>2, <2>6, <2>10 DEF Near, Same, w
<1> QED
  BY <1>3, <1>4

\* A descriptor moves by a bloc at most, or back; it dies when the volume is full and
\* the bloc is not there.
Nears(v, s, I, d, pos) ==
    /\ Sails(v, s, I, d, pos) /\ Widens(v, s.v, I) /\ s.v.gave = FALSE
    /\ s.v.end \in {"none", "exit"}
    /\ s.v.end = "exit" => s.v.nb = 0 /\ At2(s.v, d.inoeud, Fbloc(pos)) = 0
    /\ s.v.end = "none" => There(s.v, s.d) /\ s.d.cursor = pos /\ s.d.size = d.size

LEMMA SeekNear ==
    ASSUME NEW v, NEW I, Good(v, I, {}), v.end = "none", ~v.gave, NEW d \in FdType, d.open,
           d.inoeud \in I, There(v, d), NEW pos \in 0 .. MaxPos, Fbloc(pos) <= NB + 1,
           Fbloc(pos) <= At(d) + 1
    PROVE  Nears(v, SeekIfile(v, d, pos), I, d, pos)
<1> DEFINE i == d.inoeud
           s == SeekIfile(v, d, pos)
<1>1. Sails(v, s, I, d, pos)
  <2>1. At(d) < 2 * NB
    BY FdTyped, DirSizes DEF There
  <2> QED
    BY <2>1, SeekOutcome, NoStray DEF OnFile
<1>2. Fbloc(pos) \in 0 .. F - 1 /\ Fbloc(pos) \in 0 .. NB + 1 /\ At(d) \in 0 .. F - 1
  BY Positions, FdTyped, DirSizes
<1>3. CASE Fbloc(pos) = At(d)
  <2>1. s = [v |-> v, d |-> [d EXCEPT !.cursor = pos]]
    BY <1>3 DEF SeekIfile
  <2>2. s.v = v /\ s.d.cursor = pos /\ s.d.size = d.size /\ s.d.inoeud = d.inoeud
    BY <2>1 DEF FdType
  <2>3. There(v, s.d)
    BY <1>3, <2>2 DEF There, At
  <2> QED
    BY <1>1, <2>2, <2>3, WidensSelf, VolumeType DEF Nears, Good
<1>4. CASE Fbloc(pos) # At(d)
  <2> DEFINE w == FlushIfile(v, d)
             a == Allocate(w, i, Fbloc(pos))
  <2>1. s = Moved(a, d, pos)
    BY <1>4 DEF SeekIfile
  <2>2. Near(v, w, I) /\ Flushed(v, w, I, d)
    BY FlushNear
  <2> HIDE DEF w, s
  <2>3. Good(w, I, {}) /\ Keeps(v, w, I) /\ w.end = "none" /\ w.gave = FALSE
    BY <2>2 DEF Near, Flushed
  <2>4. Fbloc(pos) # NB + 1 \/ w.disk[i].indirect # 0
    <3>1. CASE Fbloc(pos) = NB + 1
      <4>1. At(d) = NB /\ At(d) >= 1 /\ NB \in 0 .. 2 * NB - 1
        BY <1>2, <1>4, <3>1, DirSizes DEF There
      <4>2. At2(w, i, NB) # 0
        BY <2>3, <4>1 DEF Keeps, There
      <4> QED
        BY <4>2, TableThere, DirSizes
    <3> QED
      BY <3>1
  <2>5. /\ Near(w, a.v, I) /\ Outcome(w, I, i, Spot(Fbloc(pos)), a) /\ Refuses(a)
        /\ a.b = At2(a.v, i, Fbloc(pos))
    BY <1>2, <2>3, <2>4, AllocateNear
  <2> HIDE DEF a
  <2>6. Good(a.v, I, {}) /\ a.v.end = "none" /\ a.v.gave = FALSE
    BY <2>5 DEF Outcome, Near
  <2>7. Widens(v, a.v, I)
    BY <2>2, <2>3, <2>5, <2>6, WidensOn DEF Near
  <2>8. CASE a.b = 0
    <3> DEFINE x == Ends(a.v, "exit")
    <3>1. s = [v |-> x, d |-> d]
      BY <2>1, <2>6, <2>8 DEF Moved
    <3>2. /\ Good(x, I, {}) /\ x.end = "exit" /\ x.nb = a.v.nb /\ x.gave = a.v.gave
          /\ x.disk = a.v.disk /\ Untouched(a.v, x, I)
      BY <2>6, EndKept
    <3>3. a.v.nb = 0
      BY <2>5, <2>6, <2>8 DEF Refuses
    <3> HIDE DEF x
    <3>4. At2(x, i, Fbloc(pos)) = 0
      BY <1>2, <2>5, <2>8, <3>2, SpotPlace DEF Untouched, At2
    <3>5. Widens(v, x, I)
      BY <2>7, <3>2 DEF Widens, Sized
    <3>6. s.v = x
      BY <3>1
    <3> QED
      BY <1>1, <2>6, <3>2, <3>3, <3>4, <3>5, <3>6 DEF Nears, s
  <2>9. CASE a.b # 0
    <3>1. IsTable(a.v, a.b)
      BY <1>2, <2>5, <2>6, <2>9, SpotPlace, NamedBloc DEF At2
    <3>2. s = [v |-> a.v, d |-> [d EXCEPT !.cursor = pos, !.buffer = Table(a.v, a.b)]]
      BY <2>1, <2>6, <2>9, <3>1 DEF Moved
    <3>3. s.v = a.v /\ s.d.cursor = pos /\ s.d.size = d.size /\ s.d.inoeud = i
      BY <3>2 DEF FdType
    <3>4. There(s.v, s.d)
      BY <1>2, <2>5, <2>9, <3>3 DEF There, At
    <3> QED
      BY <1>1, <2>6, <2>7, <3>3, <3>4 DEF Nears, s
  <2> QED
    BY <2>8, <2>9
<1> QED
  BY <1>3, <1>4

-----------------------------------------------------------------------------
(* Positions.                                                               *)

LEMMA BlocOf ==
    ASSUME NEW x \in Nat
    PROVE  /\ Fbloc(x) \in Nat /\ x % S \in 0 .. S - 1
           /\ x = S * Fbloc(x) + (x % S)
  BY Division, DirSizes DEF Fbloc

LEMMA BlocBelow ==
    ASSUME NEW x \in Nat, NEW c \in Nat, x < c * S
    PROVE  Fbloc(x) < c
<1>1. x < S * c
  BY DirSizes
<1> QED
  BY <1>1, Below, DirSizes DEF Fbloc

LEMMA BlocUpTo ==
    ASSUME NEW x \in Nat, NEW c \in Nat, x <= c * S
    PROVE  Fbloc(x) <= c
<1>1. x < (c + 1) * S
  BY DirSizes
<1> QED
  BY <1>1, BlocBelow, BlocOf

LEMMA BlocsInOrder ==
    ASSUME NEW x \in Nat, NEW y \in Nat, x <= y
    PROVE  Fbloc(x) <= Fbloc(y)
<1>1. /\ Fbloc(x) \in Nat /\ Fbloc(y) \in Nat /\ y % S \in 0 .. S - 1 /\ x % S \in 0 .. S - 1
      /\ y = S * Fbloc(y) + (y % S) /\ x = S * Fbloc(x) + (x % S)
  BY BlocOf
<1>2. y < (Fbloc(y) + 1) * S
  <2>1. \A q \in Nat, r \in 0 .. S - 1 : S * q + r < (q + 1) * S
    BY DirSizes
  <2> QED
    BY <1>1, <2>1
<1>3. x < (Fbloc(y) + 1) * S /\ Fbloc(y) + 1 \in Nat
  <2> DEFINE c == (Fbloc(y) + 1) * S
  <2>1. c \in Nat
    BY <1>1, DirSizes
  <2> HIDE DEF c
  <2>2. x < c
    BY <1>2, <2>1 DEF c
  <2> QED
    BY <1>1, <2>2 DEF c
<1> QED
  BY <1>1, <1>3, BlocBelow

\* From a position to the next one.
LEMMA BlocNext ==
    ASSUME NEW x \in Nat
    PROVE  /\ Fbloc(x + 1) <= Fbloc(x) + 1
           /\ Fbloc(x + 1) # Fbloc(x) <=> (x + 1) % S = 0
<1>1. /\ Fbloc(x) \in Nat /\ x % S \in 0 .. S - 1 /\ x = S * Fbloc(x) + (x % S)
      /\ Fbloc(x + 1) \in Nat /\ (x + 1) % S \in 0 .. S - 1
      /\ x + 1 = S * Fbloc(x + 1) + ((x + 1) % S)
  BY BlocOf
<1>2. \A q, q2 \in Nat, r, r2 \in 0 .. S - 1 :
          S * q + r + 1 = S * q2 + r2 => q2 = q \/ (q2 = q + 1 /\ r2 = 0)
  <2> SUFFICES ASSUME NEW q \in Nat, NEW q2 \in Nat, NEW r \in 0 .. S - 1, NEW r2 \in 0 .. S - 1,
                      S * q + r + 1 = S * q2 + r2
               PROVE  q2 = q \/ (q2 = q + 1 /\ r2 = 0)
    OBVIOUS
  <2>1. S * (q2 - q) = r + 1 - r2
    BY DirSizes
  <2>2. q2 - q \in Int /\ r + 1 - r2 \in -(S - 2) .. S
    BY DirSizes
  <2>3. \A z \in Int : S * z \in -(S - 2) .. S => z = 0 \/ z = 1
    <3> SUFFICES ASSUME NEW z \in Int, z >= 2 \/ z <= -1
                 PROVE  ~(S * z \in -(S - 2) .. S)
      OBVIOUS
    <3>1. CASE z >= 2
      <4>1. S * z >= S * 2
        BY <3>1, DirSizes
      <4> QED
        BY <4>1, DirSizes
    <3>2. CASE z <= -1
      <4>1. S * z <= S * (-1)
        BY <3>2, DirSizes
      <4> QED
        BY <4>1, DirSizes
    <3> QED
      BY <3>1, <3>2
  <2>4. q2 - q = 0 \/ q2 - q = 1
    BY <2>1, <2>2, <2>3
  <2>5. CASE q2 - q = 1
    BY <2>1, <2>5, DirSizes
  <2> QED
    BY <2>4, <2>5
<1>3. Fbloc(x + 1) = Fbloc(x) \/ (Fbloc(x + 1) = Fbloc(x) + 1 /\ (x + 1) % S = 0)
  <2> DEFINE q == Fbloc(x)
             q2 == Fbloc(x + 1)
             r == x % S
             r2 == (x + 1) % S
  <2>1. q \in Nat /\ q2 \in Nat /\ r \in 0 .. S - 1 /\ r2 \in 0 .. S - 1
    BY <1>1
  <2>2. S * q + r + 1 = S * q2 + r2
    BY <1>1
  <2> HIDE DEF q, q2, r, r2
  <2>3. q2 = q \/ (q2 = q + 1 /\ r2 = 0)
    BY <1>2, <2>1, <2>2
  <2> QED
    BY <2>3 DEF q, q2, r, r2
<1>4. ASSUME Fbloc(x + 1) = Fbloc(x)
      PROVE  (x + 1) % S # 0
  <2> DEFINE c == S * Fbloc(x)
             r == x % S
             r2 == (x + 1) % S
  <2>1. x = c + r /\ x + 1 = c + r2 /\ c \in Nat /\ r \in Nat /\ r2 \in Nat
    BY <1>1, <1>4, DirSizes
  <2> HIDE DEF c, r, r2
  <2>2. r2 # 0
    BY <2>1
  <2> QED
    BY <2>2 DEF r2
<1> QED
  BY <1>1, <1>3, <1>4

\* Different positions are different bytes.
LEMMA BytesApart ==
    ASSUME NEW x \in Nat, NEW y \in Nat, Fbloc(x) = Fbloc(y), x % S = y % S
    PROVE  x = y
  BY BlocOf

LEMMA MaxPosIs ==
    /\ MaxPos \in Nat /\ (NB + 2) * S <= MaxPos
    /\ \A x \in Nat : x < (NB + 2) * S => x \in 0 .. MaxPos - 1 /\ Fbloc(x) <= NB + 1
<1>1. MaxPos \in Nat
  BY Positions
<1>2. F >= NB + 2 /\ F \in Nat /\ S \in Nat /\ NB + 2 \in Nat
  BY DirSizes
<1>3. \A a, b, c \in Nat : a >= b => b * c <= a * c
  BY SMT
<1>4. (NB + 2) * S <= MaxPos
  BY <1>2, <1>3 DEF MaxPos
<1>5. ASSUME NEW x \in Nat, x < (NB + 2) * S
      PROVE  x \in 0 .. MaxPos - 1 /\ Fbloc(x) <= NB + 1
  <2>1. Fbloc(x) < NB + 2
    BY <1>2, <1>5, BlocBelow
  <2>2. x < MaxPos
    <3> HIDE DEF MaxPos
    <3> DEFINE c == (NB + 2) * S
    <3>1. c \in Nat /\ c <= MaxPos /\ x < c
      BY <1>2, <1>4, <1>5
    <3> HIDE DEF c
    <3> QED
      BY <1>1, <3>1
  <2> HIDE DEF MaxPos
  <2>3. x \in 0 .. MaxPos - 1
    BY <1>1, <2>2
  <2>4. \A g \in Nat : g < NB + 2 => g <= NB + 1
    BY DirSizes
  <2> QED
    BY <2>1, <2>3, <2>4, BlocOf
<1> QED
  BY <1>1, <1>4, <1>5

-----------------------------------------------------------------------------
(* A process in a call of dir.c.  D are the directories.                    *)

Calm(p, I, D) ==
    /\ p = [v |-> p.v, fd |-> p.fd, text |-> p.text]
    /\ Lives(p, I, {}) /\ p.v.gave = FALSE
    /\ p.v.end \in {"none", "exit"} /\ (p.v.end = "exit" => p.v.nb = 0)
    /\ D \subseteq I /\ \A j \in D : Sized(p.v, j)

\* d alone is open, on directory i.
Busy(p, I, D, d, i) ==
    /\ Calm(p, I, D) /\ i \in D
    /\ \A e \in Fd : p.fd[e].open <=> e = d
    /\ p.fd[d].inoeud = i /\ p.fd[d].size <= NB + 1
    /\ There(p.v, p.fd[d])

\* Nothing is open.
Quiet(p, I, D) ==
    /\ Calm(p, I, D)
    /\ p.v.end = "none" => \A e \in Fd : ~p.fd[e].open

\* What a call of the library leaves.
After(p, q, I) == Keeps(p.v, q.v, I) /\ Widens(p.v, q.v, I)

LEMMA CalmGood ==
    ASSUME NEW p, NEW I, NEW D, Calm(p, I, D)
    PROVE  /\ Good(p.v, I, {}) /\ p.v \in Volume /\ p.v.nb \in Nat
           /\ p.v.end # "none" => p.v.end = "exit" /\ p.v.nb = 0
  BY VolumeType DEF Calm, Lives, Good

LEMMA AfterSelf ==
    ASSUME NEW p, NEW I, NEW D, Calm(p, I, D)
    PROVE  After(p, p, I)
  BY CalmGood, KeepsSelf, WidensSelf DEF After

LEMMA AfterOn ==
    ASSUME NEW p, NEW q, NEW r, NEW I, NEW D, Calm(p, I, D), Calm(q, I, D), Calm(r, I, D),
           After(p, q, I), After(q, r, I)
    PROVE  After(p, r, I)
  BY CalmGood, KeepsOn, WidensOn DEF After

\* A volume with a bloc left had one before.
LEMMA StillSome ==
    ASSUME NEW p, NEW q, NEW I, NEW D, Calm(q, I, D), After(p, q, I), q.v.nb # 0
    PROVE  p.v.nb # 0 /\ q.v.end = "none"
  BY CalmGood DEF After, Keeps

LEMMA BusyTypes ==
    ASSUME NEW p, NEW I, NEW D, NEW d \in Fd, NEW i, Busy(p, I, D, d, i)
    PROVE  /\ Good(p.v, I, {}) /\ p.fd \in [Fd -> FdType] /\ p.fd[d] \in FdType /\ i \in I
           /\ p.fd[d].open /\ p.fd[d].inoeud = i /\ There(p.v, p.fd[d])
           /\ p.fd[d].cursor \in 0 .. MaxPos - 1 /\ p.fd[d].cursor \in Nat
           /\ p.fd[d].size \in Nat /\ p.fd[d].size <= NB + 1
           /\ At(p.fd[d]) \in 0 .. 2 * NB - 1
           /\ p.text \in [I -> [Index -> Bytes]]
<1>1. /\ Good(p.v, I, {}) /\ p.fd \in [Fd -> FdType] /\ p.fd[d] \in FdType /\ i \in I
      /\ p.fd[d].open /\ p.fd[d].inoeud = i /\ There(p.v, p.fd[d])
      /\ p.fd[d].size <= NB + 1 /\ p.text \in [I -> [Index -> Bytes]]
  BY DEF Busy, Calm, Lives
<1>2. p.fd[d].cursor \in 0 .. MaxPos - 1 /\ p.fd[d].size \in 0 .. F /\ At(p.fd[d]) \in 0 .. F - 1
  BY <1>1, FdTyped
<1>3. p.fd[d].cursor \in Nat /\ p.fd[d].size \in Nat
  BY <1>2, MaxPosIs, DirSizes
<1>4. At(p.fd[d]) \in 0 .. 2 * NB - 1
  BY <1>1, <1>2, DirSizes DEF There
<1> QED
  BY <1>1, <1>2, <1>3, <1>4

\* A byte of a file.
ByteOf(told, i, x) == told[i][Fbloc(x)][x % S]

\* The buffer is what was written in the file.
LEMMA BufferIs ==
    ASSUME NEW p, NEW I, NEW D, NEW d \in Fd, NEW i, Busy(p, I, D, d, i), p.v.end = "none"
    PROVE  Char1(p, d) = ByteOf(p.text, i, p.fd[d].cursor)
<1> DEFINE f == At(p.fd[d])
<1>1. f \in 0 .. 2 * NB - 1 /\ i \in I /\ p.fd[d].open /\ p.fd[d].inoeud = i
  BY BusyTypes
<1>2. SaidAt(p, i, f)
  <2>1. Said(p, I, {})
    BY DEF Busy, Calm, Lives
  <2> QED
    BY <1>1, <2>1 DEF Said
<1>3. On(p.fd[d], i, f)
  BY <1>1 DEF On
<1>4. p.text[i][f] = p.fd[d].buffer
  BY <1>2, <1>3 DEF SaidAt
<1> QED
  BY <1>4 DEF Char1, ByteOf, At

\* What a seek of d from p to q does.
Seeks(p, q, I, D, d, i, pos) ==
    /\ Busy(q, I, D, d, i) /\ After(p, q, I)
    /\ q.v.nb # 0 \/ ~p.fd[d].modified => q.text = p.text
    /\ q.fd[d].modified = p.fd[d].modified /\ q.fd[d].size = p.fd[d].size
    /\ q.v.end = "none" => q.fd[d].cursor = pos
    /\ q.v.end = "exit" => q.fd[d] = p.fd[d] /\ At2(q.v, i, Fbloc(pos)) = 0
    /\ q.v.end = "none" /\ Fbloc(pos) # At(p.fd[d]) =>
          q.fd[d].buffer = HeldAt(q.v, i, Fbloc(pos))

LEMMA SeekBusy ==
    ASSUME NEW p, NEW I, NEW D, NEW d \in Fd, NEW i, Busy(p, I, D, d, i), p.v.end = "none",
           NEW pos \in 0 .. MaxPos, Fbloc(pos) <= NB + 1, Fbloc(pos) <= At(p.fd[d]) + 1
    PROVE  Seeks(p, Seek(p, d, pos), I, D, d, i, pos)
<1> DEFINE e == p.fd[d]
           s == SeekIfile(p.v, e, pos)
           q == Seek(p, d, pos)
<1>1. /\ Good(p.v, I, {}) /\ p.fd \in [Fd -> FdType] /\ e \in FdType /\ i \in I
      /\ e.open /\ e.inoeud = i /\ There(p.v, e) /\ e.size <= NB + 1
      /\ p.v.gave = FALSE /\ Lives(p, I, {})
  <2>1. p.v.gave = FALSE /\ Lives(p, I, {})
    BY DEF Busy, Calm
  <2> QED
    BY <2>1, BusyTypes
<1>2. Nears(p.v, s, I, e, pos)
  BY <1>1, SeekNear
<1>3. Lives(q, I, {}) /\ Keeps(p.v, q.v, I)
  BY <1>1, SeekLives, NoStray DEF Passes
<1>4. /\ q.v = s.v /\ q.fd = [p.fd EXCEPT ![d] = s.d]
      /\ q.text = IF s.v.end = "none" /\ (Fbloc(pos) # At(e) /\ e.modified) /\ Refused(s.v, e)
                  THEN Forget(s.v, p.text, e) ELSE p.text
      /\ q = [v |-> q.v, fd |-> q.fd, text |-> q.text]
  BY DEF Seek, Sought
<1> HIDE DEF q, s, e
<1>5. q.fd[d] = s.d /\ \A x \in Fd : x # d => q.fd[x] = p.fd[x]
  BY <1>1, <1>4
<1>6. /\ Sails(p.v, s, I, e, pos) /\ Widens(p.v, q.v, I) /\ q.v.gave = FALSE
      /\ q.v.end \in {"none", "exit"}
      /\ q.v.end = "exit" => q.v.nb = 0 /\ At2(q.v, i, Fbloc(pos)) = 0
      /\ q.v.end = "none" => There(q.v, s.d) /\ s.d.cursor = pos /\ s.d.size = e.size
  BY <1>1, <1>2, <1>4 DEF Nears
<1>7. q.v.end # "none" => s.d = e
  BY <1>4, <1>6 DEF Sails
<1>8. /\ s.d.open /\ s.d.inoeud = i /\ s.d.modified = e.modified /\ s.d.size = e.size
  BY <1>1, <1>4, <1>6, <1>7 DEF Sails
<1>9. There(q.v, s.d)
  <2>1. CASE q.v.end = "none"
    BY <1>6, <2>1
  <2>2. CASE q.v.end # "none"
    <3>1. s.d = e /\ At(e) <= NB + 1 /\ At(e) \in 0 .. 2 * NB - 1
      BY <1>7, <2>2, BusyTypes DEF There, e
    <3>2. At(e) >= 1 => At2(q.v, i, At(e)) # 0
      BY <1>1, <1>3, <3>1 DEF Keeps, There
    <3> QED
      BY <1>1, <3>1, <3>2 DEF There
  <2> QED
    BY <2>1, <2>2
<1>10. Calm(q, I, D)
  <2>1. D \subseteq I /\ \A j \in D : Sized(p.v, j)
    BY DEF Busy, Calm
  <2>2. \A j \in D : Sized(q.v, j)
    BY <1>6, <2>1 DEF Widens
  <2> QED
    BY <1>3, <1>4, <1>6, <2>1, <2>2 DEF Calm
<1>11. Busy(q, I, D, d, i)
  <2>1. \A x \in Fd : q.fd[x].open <=> x = d
    BY <1>5, <1>8 DEF Busy
  <2>2. i \in D
    BY DEF Busy
  <2> QED
    BY <1>1, <1>5, <1>8, <1>9, <1>10, <2>1, <2>2 DEF Busy
<1>12. ASSUME q.v.nb # 0 \/ ~e.modified
       PROVE  q.text = p.text
  BY <1>4, <1>12 DEF Refused
<1>13. ASSUME q.v.end = "none", Fbloc(pos) # At(e)
       PROVE  s.d.buffer = HeldAt(q.v, i, Fbloc(pos))
  <2>1. At(s.d) = Fbloc(pos) /\ Reads(s.v, s.d)
    BY <1>4, <1>6, <1>13 DEF Sails
  <2>2. At(s.d) < 2 * NB
    <3>1. pos \in Nat
      BY MaxPosIs
    <3>2. Fbloc(pos) \in Nat
      BY <3>1, BlocOf
    <3> QED
      BY <2>1, <3>2, DirSizes
  <2> QED
    BY <1>4, <1>8, <2>1, <2>2 DEF Reads
<1>14. After(p, q, I)
  BY <1>3, <1>6 DEF After
<1> QED
  BY <1>5, <1>6, <1>7, <1>8, <1>11, <1>12, <1>13, <1>14 DEF Seeks, q, e

-----------------------------------------------------------------------------
(* Reading.                                                                 *)

\* Before the end of the file as it was when it was opened.
Reader(p, I, D, d, i) ==
    /\ Busy(p, I, D, d, i) /\ ~p.fd[d].modified
    /\ p.fd[d].cursor <= p.fd[d].size * S

\* Reading writes nothing in a file.
Scans(p, q, I, D, d, i) ==
    /\ Reader(q, I, D, d, i) /\ After(p, q, I)
    /\ q.text = p.text /\ q.fd[d].size = p.fd[d].size
    /\ q.v.end = "none" => p.v.end = "none"

\* Where n characters more lead.
Further(c, n, z) == IF c + n <= z THEN c + n ELSE z

LEMMA SizeInBytes ==
    ASSUME NEW n \in Nat, n <= NB + 1
    PROVE  /\ n * S \in Nat /\ n * S <= (NB + 1) * S /\ (NB + 1) * S \in Nat
           /\ \A x \in Nat : x <= n * S => x \in 0 .. MaxPos /\ Fbloc(x) <= NB + 1
<1>1. n * S \in Nat /\ (NB + 1) * S \in Nat /\ (NB + 2) * S \in Nat
  BY DirSizes
<1>2. n * S <= (NB + 1) * S /\ (NB + 1) * S < (NB + 2) * S
  BY DirSizes
<1>3. ASSUME NEW x \in Nat, x <= n * S
      PROVE  x \in 0 .. MaxPos /\ Fbloc(x) <= NB + 1
  <2>1. x < (NB + 2) * S
    <3> DEFINE a == n * S
               b == (NB + 1) * S
               c == (NB + 2) * S
    <3>1. a \in Nat /\ b \in Nat /\ c \in Nat /\ x <= a /\ a <= b /\ b < c
      BY <1>1, <1>2, <1>3
    <3> HIDE DEF a, b, c
    <3>2. x < c
      BY <3>1
    <3> QED
      BY <3>2 DEF c
  <2>2. x \in 0 .. MaxPos - 1 /\ Fbloc(x) <= NB + 1
    BY <2>1, MaxPosIs
  <2> HIDE DEF MaxPos
  <2> QED
    BY <2>2, MaxPosIs
<1> QED
  BY <1>1, <1>2, <1>3

LEMMA ReadcScans ==
    ASSUME NEW p, NEW I, NEW D, NEW d \in Fd, NEW i, Reader(p, I, D, d, i)
    PROVE  LET q == Readc(p, d)
           IN  /\ Scans(p, q, I, D, d, i)
               /\ q.v.end = "none" =>
                     q.fd[d].cursor = Further(p.fd[d].cursor, 1, p.fd[d].size * S)
<1> DEFINE q == Readc(p, d)
           c == p.fd[d].cursor
           z == p.fd[d].size * S
<1>1. /\ c \in Nat /\ z \in Nat /\ c <= z /\ Busy(p, I, D, d, i) /\ ~p.fd[d].modified
      /\ p.fd[d].size \in Nat /\ p.fd[d].size <= NB + 1 /\ At(p.fd[d]) = Fbloc(c)
      /\ p.fd[d].modified = FALSE
  <2>1. Busy(p, I, D, d, i)
    BY DEF Reader
  <2>2. p.fd[d].cursor \in Nat /\ p.fd[d].size \in Nat /\ p.fd[d].size <= NB + 1 /\ p.fd[d] \in FdType
    BY <2>1, BusyTypes
  <2> QED
    BY <2>1, <2>2, SizeInBytes, FdTyped DEF Reader, At
<1>2. CASE p.v.end # "none" \/ c >= z
  <2>1. q = p
    BY <1>2 DEF Readc
  <2>2. After(p, p, I)
    BY <1>1, AfterSelf DEF Busy
  <2>3. c >= z => Further(c, 1, z) = c
    BY <1>1 DEF Further
  <2> QED
    BY <1>2, <2>1, <2>2, <2>3 DEF Scans
<1>3. CASE ~(p.v.end # "none" \/ c >= z)
  <2>1. q = Seek(p, d, c + 1)
    BY <1>3 DEF Readc
  <2>2. c + 1 \in Nat /\ c + 1 <= z /\ p.v.end = "none" /\ Further(c, 1, z) = c + 1
    BY <1>1, <1>3 DEF Further
  <2>3. c + 1 \in 0 .. MaxPos /\ Fbloc(c + 1) <= NB + 1 /\ Fbloc(c + 1) <= At(p.fd[d]) + 1
    BY <1>1, <2>2, SizeInBytes, BlocNext
  <2> HIDE DEF q, z, c
  <2>4. Seeks(p, q, I, D, d, i, c + 1)
    BY <1>1, <2>1, <2>2, <2>3, SeekBusy
  <2>5. /\ Busy(q, I, D, d, i) /\ After(p, q, I) /\ q.text = p.text /\ ~q.fd[d].modified
        /\ q.fd[d].size = p.fd[d].size
        /\ q.v.end = "none" => q.fd[d].cursor = c + 1
        /\ q.v.end # "none" => q.fd[d].cursor = c
    <3>1. q.v.end # "none" => q.v.end = "exit"
      BY <2>4, CalmGood DEF Seeks, Busy
    <3> QED
      BY <1>1, <2>4, <3>1 DEF Seeks, c
  <2>6. q.fd[d].cursor <= q.fd[d].size * S
    <3>1. q.fd[d].cursor <= z
      BY <1>1, <2>2, <2>5
    <3> QED
      BY <2>5, <3>1 DEF z
  <2> QED
    BY <2>2, <2>5, <2>6 DEF Scans, Reader, q, z, c
<1> QED
  BY <1>2, <1>3

LEMMA ScansOn ==
    ASSUME NEW p, NEW q, NEW r, NEW I, NEW D, NEW d, NEW i, Reader(p, I, D, d, i),
           Scans(p, q, I, D, d, i), Scans(q, r, I, D, d, i)
    PROVE  Scans(p, r, I, D, d, i)
<1>1. Calm(p, I, D) /\ Calm(q, I, D) /\ Calm(r, I, D) /\ After(p, q, I) /\ After(q, r, I)
  BY DEF Scans, Reader, Busy
<1>2. After(p, r, I)
  BY <1>1, AfterOn
<1> QED
  BY <1>2 DEF Scans

LEMMA ScansSelf ==
    ASSUME NEW p, NEW I, NEW D, NEW d, NEW i, Reader(p, I, D, d, i)
    PROVE  Scans(p, p, I, D, d, i)
<1>1. After(p, p, I)
  BY AfterSelf DEF Reader, Busy
<1> QED
  BY <1>1 DEF Scans

LEMMA FurtherOn ==
    ASSUME NEW c \in Nat, NEW n \in Nat, NEW z \in Nat, c <= z
    PROVE  /\ Further(Further(c, n, z), 1, z) = Further(c, n + 1, z)
           /\ Further(c, 0, z) = c /\ Further(c, n, z) \in Nat /\ Further(c, n, z) <= z
  BY DEF Further

\* read_ifile.
LEMMA ReadBytesScans ==
    ASSUME NEW p, NEW I, NEW D, NEW d \in Fd, NEW i, Reader(p, I, D, d, i), NEW K \in Nat
    PROVE  LET q == ReadBytes(p, d, K)
           IN  /\ Scans(p, q, I, D, d, i)
               /\ q.v.end = "none" =>
                     q.fd[d].cursor = Further(p.fd[d].cursor, K, p.fd[d].size * S)
<1> DEFINE f == CHOOSE g : IsRead(g, K, p, d)
           c == p.fd[d].cursor
           z == p.fd[d].size * S
           T == {n \in 0 .. K : /\ Scans(p, f[n], I, D, d, i)
                                /\ f[n].v.end = "none" => f[n].fd[d].cursor = Further(c, n, z)}
<1>1. IsRead(f, K, p, d)
  BY ReadExists
<1>2. ReadBytes(p, d, K) = f[K]
  BY DEF ReadBytes, IsRead
<1>3. c \in Nat /\ z \in Nat /\ c <= z
  <2>1. Busy(p, I, D, d, i)
    BY DEF Reader
  <2>2. p.fd[d].cursor \in Nat /\ p.fd[d].size \in Nat /\ p.fd[d].size <= NB + 1
    BY <2>1, BusyTypes
  <2> QED
    BY <2>2, SizeInBytes DEF Reader
<1> HIDE DEF f
<1>4. 0 \in T
  <2>1. f[0] = p
    BY <1>1 DEF IsRead
  <2>2. Further(c, 0, z) = c
    BY <1>3, FurtherOn
  <2> QED
    BY <2>1, <2>2, ScansSelf
<1>5. ASSUME NEW n \in 0 .. K - 1, n \in T
      PROVE  n + 1 \in T
  <2>1. n + 1 \in 0 .. K /\ n + 1 # 0 /\ n + 1 - 1 = n /\ n \in Nat
    OBVIOUS
  <2>2. f[n + 1] = Readc(f[n], d)
    BY <1>1, <2>1 DEF IsRead
  <2> DEFINE q == f[n]
             r == f[n + 1]
  <2>3. Scans(p, q, I, D, d, i) /\ (q.v.end = "none" => q.fd[d].cursor = Further(c, n, z))
    BY <1>5
  <2> HIDE DEF q, r
  <2>4. Reader(q, I, D, d, i) /\ q.fd[d].size * S = z
    BY <2>3 DEF Scans
  <2>5. r = Readc(q, d)
    BY <2>2 DEF q, r
  <2>6. /\ Scans(q, r, I, D, d, i)
        /\ r.v.end = "none" => r.fd[d].cursor = Further(q.fd[d].cursor, 1, z)
    BY <2>4, <2>5, ReadcScans
  <2>7. Scans(p, r, I, D, d, i)
    BY <2>3, <2>6, ScansOn
  <2>8. r.v.end = "none" => r.fd[d].cursor = Further(c, n + 1, z)
    <3>1. Further(Further(c, n, z), 1, z) = Further(c, n + 1, z)
      BY <1>3, <2>1, FurtherOn
    <3> HIDE DEF z, c
    <3> QED
      BY <2>3, <2>6, <3>1 DEF Scans
  <2> QED
    BY <2>1, <2>7, <2>8 DEF r
<1>6. 0 .. K \subseteq T
  <2> HIDE DEF T
  <2> QED
    BY <1>4, <1>5, UpTo
<1>7. K \in T
  BY <1>6
<1> QED
  BY <1>2, <1>7

-----------------------------------------------------------------------------
(* Looking for an entry.                                                    *)

\* The number and the name that the bytes of a directory have for its k-th entry.
Num(told, i, k) == ByteOf(told, i, k * E)
Nam(told, i, k) == ByteOf(told, i, k * E + 1)
Wants(told, i, k, name) == Wanted(Num(told, i, k), Nam(told, i, k), name)

LEMMA EntryAt ==
    ASSUME NEW k \in Nat
    PROVE  k * E \in Nat /\ (k + 1) * E = k * E + E /\ (k + 1) * E \in Nat
  BY DirSizes

LEMMA FurtherTwice ==
    ASSUME NEW c \in Nat, NEW z \in Nat, c <= z
    PROVE  Further(Further(c, 1, z), E - 1, z) = Further(c, E, z)
  BY DirSizes DEF Further

\* The search q of an entry of that name, from the state p: no entry before was wanted.
Looked(p, q, I, D, d, i, name) ==
    LET z == p.fd[d].size * S
    IN  /\ Scans(p, q.p, I, D, d, i)
        /\ q.ientry \in Nat /\ q.on \in BOOLEAN /\ q.found \in BOOLEAN
        /\ q.ientry * E <= z
        /\ \A k \in 0 .. q.ientry - 1 : ~Wants(p.text, i, k, name)
        /\ q.on => ~q.found
        /\ q.found => Wants(p.text, i, q.ientry, name) /\ (q.ientry + 1) * E <= z
        /\ q.p.v.end = "none" =>
              /\ q.ientry * E <= q.p.fd[d].cursor
              /\ q.on => q.p.fd[d].cursor = q.ientry * E
              /\ ~q.on /\ ~q.found => (q.ientry + 1) * E > z

LEMMA EntryLooked ==
    ASSUME NEW p, NEW I, NEW D, NEW d \in Fd, NEW i, Reader(p, I, D, d, i), NEW name,
           NEW o, NEW n, NEW b1, NEW b2, NEW q,
           q = [p |-> o, ientry |-> n, on |-> b1, found |-> b2],
           Looked(p, q, I, D, d, i, name), b1, o.v.end = "none"
    PROVE  LET r == NextEntry(q, d, name)
           IN  /\ Looked(p, r, I, D, d, i, name)
               /\ r = [p |-> r.p, ientry |-> r.ientry, on |-> r.on, found |-> r.found]
               /\ r.on /\ r.p.v.end = "none" => r.ientry = n + 1
<1> DEFINE c == o.fd[d].cursor
           z == p.fd[d].size * S
           r == Readc(o, d)
           s == ReadBytes(r, d, E - 1)
           t == NextEntry(q, d, name)
<1>1. /\ Scans(p, o, I, D, d, i) /\ n \in Nat /\ b2 = FALSE /\ b1 = TRUE
      /\ \A k \in 0 .. n - 1 : ~Wants(p.text, i, k, name)
      /\ c = n * E
  BY DEF Looked
<1>2. q.p = o /\ q.ientry = n /\ q.on = b1 /\ q.found = b2
  OBVIOUS
<1>3. t = EntryRead(q, r, s, d, name)
  BY <1>1, <1>2 DEF NextEntry, ReadRest
<1>4. /\ Reader(o, I, D, d, i) /\ Busy(o, I, D, d, i) /\ o.text = p.text
      /\ o.fd[d].size * S = z
  BY <1>1 DEF Scans, Reader
<1>5. c \in Nat /\ z \in Nat /\ c <= z
  <2>1. o.fd[d].size \in Nat /\ o.fd[d].size <= NB + 1 /\ o.fd[d].cursor \in Nat
    BY <1>4, BusyTypes
  <2> QED
    BY <1>4, <2>1, SizeInBytes DEF Reader
<1>6. Scans(o, r, I, D, d, i) /\ (r.v.end = "none" => r.fd[d].cursor = Further(c, 1, z))
  BY <1>4, ReadcScans
<1> HIDE DEF t, s, r
<1>7. /\ Scans(r, s, I, D, d, i) /\ (s.v.end = "none" => r.v.end = "none")
      /\ s.v.end = "none" => s.fd[d].cursor = Further(Further(c, 1, z), E - 1, z)
  <2>1. Reader(r, I, D, d, i) /\ r.fd[d].size * S = z /\ E - 1 \in Nat
    BY <1>4, <1>6, DirSizes DEF Scans
  <2>2. /\ Scans(r, s, I, D, d, i)
        /\ s.v.end = "none" => s.fd[d].cursor = Further(r.fd[d].cursor, E - 1, z)
    BY <2>1, ReadBytesScans DEF s
  <2>3. s.v.end = "none" => r.v.end = "none"
    BY <2>2 DEF Scans
  <2> HIDE DEF c, z
  <2> QED
    BY <1>6, <2>2, <2>3
<1>8. s.v.end = "none" => s.fd[d].cursor = Further(c, E, z)
  BY <1>5, <1>7, FurtherTwice
<1>9. Scans(p, s, I, D, d, i)
  <2>1. Scans(p, r, I, D, d, i)
    BY <1>1, <1>6, ScansOn
  <2> QED
    BY <1>7, <2>1, ScansOn
<1>10. (n + 1) * E = c + E /\ c = n * E /\ n + 1 \in Nat /\ n * E <= z
  BY <1>1, <1>5, EntryAt
<1> HIDE DEF z, c
<1>11. ASSUME s.v.end = "none", s.fd[d].cursor = c + E
       PROVE  /\ c + E <= z
              /\ Wanted(Char1(o, d), Char1(r, d), name) <=> Wants(p.text, i, n, name)
  <2>1. c + E <= z
    BY <1>5, <1>8, <1>11, DirSizes DEF Further
  <2>2. Char1(o, d) = Num(p.text, i, n)
    BY <1>4, <1>10, BufferIs DEF Num, c
  <2>3. Char1(r, d) = Nam(p.text, i, n)
    <3>1. Busy(r, I, D, d, i) /\ r.v.end = "none" /\ r.text = p.text
      BY <1>4, <1>6, <1>7, <1>11 DEF Scans, Reader
    <3>2. r.fd[d].cursor = c + 1
      BY <1>5, <1>6, <2>1, <3>1, DirSizes DEF Further
    <3> QED
      BY <1>10, <3>1, <3>2, BufferIs DEF Nam
  <2> QED
    BY <2>1, <2>2, <2>3 DEF Wants
<1> DEFINE Goal ==
              /\ Looked(p, t, I, D, d, i, name)
              /\ t = [p |-> t.p, ientry |-> t.ientry, on |-> t.on, found |-> t.found]
              /\ t.on /\ t.p.v.end = "none" => t.ientry = n + 1
<1> SUFFICES Goal
  BY DEF t
<1>12. ASSUME NEW m \in Nat, NEW x \in BOOLEAN, NEW y \in BOOLEAN,
              t = [p |-> s, ientry |-> m, on |-> x, found |-> y],
              m * E <= z, \A k \in 0 .. m - 1 : ~Wants(p.text, i, k, name), x => ~y,
              y => Wants(p.text, i, m, name) /\ (m + 1) * E <= z,
              s.v.end = "none" =>
                 /\ m * E <= s.fd[d].cursor
                 /\ x => s.fd[d].cursor = m * E /\ m = n + 1
                 /\ ~x /\ ~y => (m + 1) * E > z
       PROVE  Goal
  <2>1. t.p = s /\ t.ientry = m /\ t.on = x /\ t.found = y
    BY <1>12
  <2>2. Looked(p, t, I, D, d, i, name)
    BY <1>9, <1>12, <2>1 DEF Looked, z
  <2> QED
    BY <1>12, <2>1, <2>2
<1>13. CASE s.v.end # "none"
  <2>1. t = [p |-> s, ientry |-> n, on |-> TRUE, found |-> FALSE]
    BY <1>1, <1>2, <1>3, <1>13 DEF EntryRead
  <2> HIDE DEF Goal
  <2> QED
    BY <1>1, <1>10, <1>12, <1>13, <2>1
<1>14. CASE s.v.end = "none" /\ s.fd[d].cursor # c + E
  <2>1. t = [p |-> s, ientry |-> n, on |-> FALSE, found |-> FALSE]
    BY <1>1, <1>2, <1>3, <1>14 DEF EntryRead, c
  <2>2. s.fd[d].cursor = z /\ z < c + E
    BY <1>5, <1>8, <1>14, DirSizes DEF Further
  <2>3. n * E <= s.fd[d].cursor /\ (n + 1) * E > z
    BY <1>5, <1>10, <2>2, DirSizes
  <2> HIDE DEF Goal
  <2> QED
    BY <1>1, <1>10, <1>12, <2>1, <2>3
<1>15. CASE s.v.end = "none" /\ s.fd[d].cursor = c + E /\ Wanted(Char1(o, d), Char1(r, d), name)
  <2>1. t = [p |-> s, ientry |-> n, on |-> FALSE, found |-> TRUE]
    BY <1>2, <1>3, <1>15 DEF EntryRead, c
  <2>2. n * E <= s.fd[d].cursor /\ (n + 1) * E <= z /\ Wants(p.text, i, n, name)
    BY <1>5, <1>10, <1>11, <1>15, DirSizes
  <2> HIDE DEF Goal
  <2> QED
    BY <1>1, <1>10, <1>12, <2>1, <2>2
<1>16. CASE s.v.end = "none" /\ s.fd[d].cursor = c + E /\ ~Wanted(Char1(o, d), Char1(r, d), name)
  <2>1. t = [p |-> s, ientry |-> n + 1, on |-> TRUE, found |-> FALSE]
    BY <1>1, <1>2, <1>3, <1>16 DEF EntryRead, c
  <2>2. (n + 1) * E = s.fd[d].cursor /\ (n + 1) * E <= z /\ ~Wants(p.text, i, n, name)
    BY <1>5, <1>10, <1>11, <1>16, DirSizes
  <2>3. \A k \in 0 .. (n + 1) - 1 : ~Wants(p.text, i, k, name)
    <3>1. \A k \in 0 .. (n + 1) - 1 : k \in 0 .. n - 1 \/ k = n
      BY <1>1
    <3> QED
      BY <1>1, <2>2, <3>1
  <2>4. (n + 1) * E <= s.fd[d].cursor
    BY <1>5, <1>10, <2>2, DirSizes
  <2> HIDE DEF Goal
  <2> QED
    BY <1>10, <1>12, <2>1, <2>2, <2>3, <2>4
<1> HIDE DEF Goal
<1> QED
  BY <1>13, <1>14, <1>15, <1>16

\* The run of the loop exists.
IsLook(f, K, p, d, name) ==
    f = [n \in 0 .. K |->
            IF n = 0 THEN [p |-> p, ientry |-> 0, on |-> TRUE, found |-> FALSE]
            ELSE NextEntry(f[n - 1], d, name)]

LEMMA LookExists ==
    ASSUME NEW p, NEW d, NEW name, NEW K \in Nat
    PROVE  \E f : IsLook(f, K, p, d, name)
<1> DEFINE b == [p |-> p, ientry |-> 0, on |-> TRUE, found |-> FALSE]
           T == {n \in Nat : \E f : IsLook(f, n, p, d, name)}
<1>1. 0 \in T
  <2> DEFINE f == [n \in 0 .. 0 |-> b]
  <2>1. IsLook(f, 0, p, d, name)
    BY DEF IsLook
  <2> QED
    BY <2>1
<1>2. ASSUME NEW m \in 0 .. K - 1, m \in T
      PROVE  m + 1 \in T
  <2>1. PICK f : IsLook(f, m, p, d, name)
    BY <1>2
  <2> DEFINE g == [n \in 0 .. m + 1 |-> IF n = 0 THEN b ELSE NextEntry(f[n - 1], d, name)]
  <2>2. ASSUME NEW n \in 0 .. m + 1, n # 0
        PROVE  g[n - 1] = f[n - 1]
    <3>1. n - 1 \in 0 .. m /\ n - 1 \in 0 .. m + 1
      BY <2>2
    <3> QED
      BY <2>1, <3>1 DEF IsLook
  <2>3. IsLook(g, m + 1, p, d, name)
    BY <2>2 DEF IsLook
  <2> QED
    BY <2>3
<1> HIDE DEF T
<1>3. 0 .. K \subseteq T
  BY <1>1, <1>2, UpTo
<1> QED
  BY <1>3 DEF T

LEMMA EntriesEnd ==
    /\ MaxEntry \in Nat
    /\ \A z \in Nat : z <= MaxPos => ~(MaxEntry * E <= z)
<1>1. MaxPos \in Nat /\ E \in Nat \ {0}
  BY MaxPosIs, DirSizes
<1>2. /\ MaxPos \div E \in Nat /\ MaxPos % E \in 0 .. E - 1
      /\ MaxPos = E * (MaxPos \div E) + (MaxPos % E)
  <2> HIDE DEF MaxPos
  <2> QED
    BY <1>1, Division
<1>3. MaxEntry \in Nat /\ MaxEntry * E > MaxPos
  <2> DEFINE k == MaxPos \div E
             r == MaxPos % E
  <2>1. MaxEntry = k + 1 /\ k \in Nat /\ r \in 0 .. E - 1 /\ MaxPos = E * k + r
    BY <1>2 DEF MaxEntry
  <2> HIDE DEF k, r, MaxPos
  <2>2. (k + 1) * E = k * E + E /\ k * E = E * k /\ E * k \in Nat
    BY <1>1, <2>1
  <2> QED
    BY <1>1, <2>1, <2>2
<1> HIDE DEF MaxPos
<1>4. MaxEntry * E \in Nat
  BY <1>3, EntryAt
<1> DEFINE m == MaxEntry * E
<1>5. m \in Nat /\ m > MaxPos
  BY <1>3, <1>4
<1> HIDE DEF m
<1>6. \A z \in Nat : z <= MaxPos => ~(m <= z)
  BY <1>1, <1>5
<1> QED
  BY <1>3, <1>6 DEF m

\* find_entry and new_entry end with the first entry that is wanted, or past the end.
LEMMA LookEnds ==
    ASSUME NEW p, NEW I, NEW D, NEW d \in Fd, NEW i, Reader(p, I, D, d, i), NEW name,
           p.fd[d].cursor = 0
    PROVE  LET q == Look(p, d, name)
           IN  /\ Looked(p, q, I, D, d, i, name)
               /\ q = [p |-> q.p, ientry |-> q.ientry, on |-> q.on, found |-> q.found]
               /\ q.p.v.end = "none" => ~q.on
<1> DEFINE f == CHOOSE g : IsLook(g, MaxEntry, p, d, name)
           z == p.fd[d].size * S
           Ok(n) == /\ Looked(p, f[n], I, D, d, i, name)
                    /\ f[n] = [p |-> f[n].p, ientry |-> f[n].ientry, on |-> f[n].on,
                               found |-> f[n].found]
                    /\ f[n].on /\ f[n].p.v.end = "none" => f[n].ientry = n
           T == {n \in 0 .. MaxEntry : Ok(n)}
<1>1. MaxEntry \in Nat
  BY EntriesEnd
<1>2. IsLook(f, MaxEntry, p, d, name)
  BY <1>1, LookExists
<1>3. Look(p, d, name) = f[MaxEntry]
  BY DEF Look, IsLook
<1>4. z \in Nat /\ z <= MaxPos
  <2>1. p.fd[d].size \in Nat /\ p.fd[d].size <= NB + 1
    BY BusyTypes DEF Reader
  <2>2. z \in Nat /\ z <= z /\ MaxPos \in Nat
    BY <2>1, SizeInBytes, MaxPosIs
  <2>3. z \in 0 .. MaxPos
    BY <2>1, <2>2, SizeInBytes
  <2> HIDE DEF z, MaxPos
  <2> QED
    BY <2>2, <2>3
<1> HIDE DEF f
<1>5. 0 \in T
  <2> DEFINE q == f[0]
  <2>1. q = [p |-> p, ientry |-> 0, on |-> TRUE, found |-> FALSE]
    BY <1>1, <1>2 DEF IsLook
  <2> HIDE DEF q
  <2>2. q.p = p /\ q.ientry = 0 /\ q.on = TRUE /\ q.found = FALSE
    BY <2>1
  <2>3. Scans(p, q.p, I, D, d, i)
    BY <2>2, ScansSelf
  <2>4. q.ientry * E = 0 /\ 0 .. q.ientry - 1 = {}
    BY <2>2, DirSizes
  <2>5. Looked(p, q, I, D, d, i, name)
    <3>1. \A k \in 0 .. q.ientry - 1 : ~Wants(p.text, i, k, name)
      BY <2>4
    <3>2. q.ientry * E <= z /\ q.ientry * E <= q.p.fd[d].cursor /\ q.p.fd[d].cursor = q.ientry * E
      BY <1>4, <2>2, <2>4
    <3>3. q.ientry \in Nat
      BY <2>2
    <3> QED
      BY <2>2, <2>3, <3>1, <3>2, <3>3, Zenon DEF Looked
  <2> QED
    BY <1>1, <2>1, <2>2, <2>5 DEF q
<1>6. ASSUME NEW n \in 0 .. MaxEntry - 1, n \in T
      PROVE  n + 1 \in T
  <2>1. n + 1 \in 0 .. MaxEntry /\ n + 1 # 0 /\ n + 1 - 1 = n
    BY <1>1
  <2>2. f[n + 1] = NextEntry(f[n], d, name)
    <3>1. \A m \in 0 .. MaxEntry : m # 0 => f[m] = NextEntry(f[m - 1], d, name)
      BY <1>2, Zenon DEF IsLook
    <3> QED
      BY <2>1, <3>1
  <2>3. Ok(n)
    BY <1>6
  <2>4. CASE ~f[n].on \/ f[n].p.v.end # "none"
    <3>1. f[n + 1] = f[n]
      BY <2>2, <2>4 DEF NextEntry
    <3> QED
      BY <2>1, <2>3, <2>4, <3>1
  <2>5. CASE f[n].on /\ f[n].p.v.end = "none"
    <3> DEFINE q == f[n]
               r == NextEntry(q, d, name)
    <3>1. /\ Looked(p, q, I, D, d, i, name) /\ q.on /\ q.p.v.end = "none" /\ q.ientry = n
          /\ q = [p |-> q.p, ientry |-> q.ientry, on |-> q.on, found |-> q.found]
      BY <2>3, <2>5
    <3> HIDE DEF q, r
    <3>2. /\ Looked(p, r, I, D, d, i, name)
          /\ r = [p |-> r.p, ientry |-> r.ientry, on |-> r.on, found |-> r.found]
          /\ r.on /\ r.p.v.end = "none" => r.ientry = q.ientry + 1
      BY <3>1, EntryLooked DEF r
    <3>3. f[n + 1] = r
      BY <2>2 DEF r, q
    <3>4. Ok(n + 1)
      BY <3>1, <3>2, <3>3
    <3> QED
      BY <2>1, <3>4
  <2> QED
    BY <2>4, <2>5
<1>7. Ok(MaxEntry)
  <2> HIDE DEF T
  <2>1. 0 .. MaxEntry \subseteq T
    BY <1>1, <1>5, <1>6, UpTo
  <2>2. MaxEntry \in T
    BY <1>1, <2>1
  <2> QED
    BY <2>2 DEF T
<1>8. ASSUME f[MaxEntry].p.v.end = "none", f[MaxEntry].on
      PROVE  FALSE
  <2>1. MaxEntry * E <= z
    BY <1>7, <1>8 DEF Looked
  <2> HIDE DEF z
  <2> QED
    BY <1>4, <2>1, EntriesEnd
<1> QED
  BY <1>3, <1>7, <1>8

-----------------------------------------------------------------------------
(* Opening and closing a directory.                                         *)

\* iopen_ifile.
LEMMA IopenReads ==
    ASSUME NEW p, NEW I, NEW D, Quiet(p, I, D), p.v.end = "none", NEW d \in Fd, NEW i \in D
    PROVE  LET q == Iopen(p, d, i)
           IN  /\ Reader(q, I, D, d, i) /\ After(p, q, I)
               /\ q.v = p.v /\ q.text = p.text
               /\ q.fd[d].cursor = 0 /\ q.fd[d].size = p.v.disk[i].taille
<1> DEFINE q == Iopen(p, d, i)
           e == Opened(p.v, i)
<1>1. /\ Calm(p, I, D) /\ \A x \in Fd : ~p.fd[x].open
      /\ Lives(p, I, {}) /\ Good(p.v, I, {}) /\ i \in I /\ Sized(p.v, i)
      /\ p = [v |-> p.v, fd |-> p.fd, text |-> p.text] /\ p.fd \in [Fd -> FdType]
  BY DEF Quiet, Calm, Lives
<1>2. Legible(p.v, i, 0)
  BY <1>1, Legibly
<1>3. q = OpenedBy(p, d, i)
  <2>1. q = [p EXCEPT !.fd[d] = e]
    BY <1>2 DEF Iopen
  <2> HIDE DEF e
  <2>2. [p EXCEPT !.fd[d] = e] = [v |-> p.v, fd |-> [p.fd EXCEPT ![d] = e], text |-> p.text]
    BY <1>1
  <2> QED
    BY <2>1, <2>2 DEF OpenedBy, e
<1>4. Lives(q, I, {})
  <2>1. ~p.fd[d].open /\ ~(\E x \in Fd : p.fd[x].open /\ p.fd[x].inoeud = i)
    BY <1>1
  <2>2. Lives(OpenedBy(p, d, i), I, {})
    BY <1>1, <2>1, OpenLives
  <2> QED
    BY <1>3, <2>2
<1>5. q.v = p.v /\ q.text = p.text /\ q.fd = [p.fd EXCEPT ![d] = e]
  BY <1>3 DEF OpenedBy
<1>6. q.fd[d] = e /\ \A x \in Fd : x # d => q.fd[x] = p.fd[x]
  BY <1>1, <1>5
<1>7. /\ e.open = TRUE /\ e.inoeud = i /\ e.cursor = 0 /\ e.size = p.v.disk[i].taille
      /\ e.modified = FALSE
  BY DEF Opened
<1> HIDE DEF q, e
<1>8. Calm(q, I, D)
  BY <1>1, <1>3, <1>4, <1>5 DEF Calm, OpenedBy
<1>9. There(q.v, q.fd[d])
  BY <1>6, <1>7, Positions, DirSizes DEF There, At
<1>10. Busy(q, I, D, d, i)
  BY <1>1, <1>6, <1>7, <1>8, <1>9 DEF Busy, Sized
<1>11. q.fd[d].cursor <= q.fd[d].size * S
  <2>1. p.v.disk[i].taille \in Nat
    BY <1>1, SizedType
  <2> QED
    BY <1>6, <1>7, <2>1, DirSizes
<1>12. After(p, q, I)
  BY <1>1, <1>5, CalmGood, KeepsSelf, WidensSelf DEF After
<1> QED
  BY <1>5, <1>6, <1>7, <1>10, <1>11, <1>12 DEF Reader, q

\* close_ifile.
Closes(p, q, I, D, d) ==
    /\ Quiet(q, I, D) /\ After(p, q, I) /\ q.v.end = p.v.end
    /\ q.v.nb # 0 \/ ~p.fd[d].modified => q.text = p.text

LEMMA CloseQuiet ==
    ASSUME NEW p, NEW I, NEW D, NEW d \in Fd, NEW i, Busy(p, I, D, d, i)
    PROVE  Closes(p, Close(p, d), I, D, d)
<1>1. Calm(p, I, D)
  BY DEF Busy
<1>2. CASE p.v.end # "none"
  <2>1. Close(p, d) = p
    BY <1>2 DEF Close
  <2> QED
    BY <1>1, <1>2, <2>1, AfterSelf DEF Closes, Quiet
<1>3. CASE p.v.end = "none"
  <2> DEFINE e == p.fd[d]
             w == FlushIfile(p.v, e)
             q == ClosedOn(w, p, d)
  <2>1. Close(p, d) = q
    BY <1>3 DEF Close
  <2>2. /\ Good(p.v, I, {}) /\ e \in FdType /\ e.open /\ e.inoeud \in I /\ There(p.v, e)
        /\ p.fd \in [Fd -> FdType]
    BY BusyTypes
  <2>3. p.v.gave = FALSE /\ Lives(p, I, {}) /\ D \subseteq I /\ \A j \in D : Sized(p.v, j)
    BY <1>1 DEF Calm
  <2>4. Near(p.v, w, I)
    BY <1>3, <2>2, <2>3, FlushNear
  <2>5. Lives(q, I, {}) /\ Keeps(p.v, q.v, I)
    BY <1>3, <2>2, <2>3, CloseLives, NoStray DEF Passes
  <2>6. /\ q.v = w /\ q.fd = [p.fd EXCEPT ![d] = Closed]
        /\ q.text = IF w.end # "none" \/ (e.modified /\ Refused(w, e)) THEN Forget(w, p.text, e)
                    ELSE p.text
        /\ q = [v |-> q.v, fd |-> q.fd, text |-> q.text]
    BY DEF ClosedOn
  <2> HIDE DEF q, w
  <2>7. q.v.end = "none" /\ q.v.gave = FALSE /\ Widens(p.v, q.v, I)
    BY <2>4, <2>6 DEF Near
  <2>8. \A x \in Fd : ~q.fd[x].open
    BY <2>2, <2>6 DEF Closed, Busy
  <2>9. \A j \in D : Sized(q.v, j)
    BY <2>3, <2>7 DEF Widens
  <2>10. Calm(q, I, D)
    BY <2>3, <2>5, <2>6, <2>7, <2>9 DEF Calm
  <2>11. q.v.nb # 0 \/ ~e.modified => q.text = p.text
    BY <2>6, <2>7 DEF Refused
  <2> QED
    BY <1>3, <2>1, <2>5, <2>7, <2>8, <2>10, <2>11 DEF Closes, Quiet, After
<1> QED
  BY <1>2, <1>3

\* A descriptor that was only read is dropped as it would be closed.
LEMMA DropQuiet ==
    ASSUME NEW p, NEW I, NEW D, NEW d \in Fd, NEW i, Busy(p, I, D, d, i), p.v.end = "none",
           ~p.fd[d].modified
    PROVE  LET q == [p EXCEPT !.fd[d] = Closed]
           IN  Closes(p, q, I, D, d) /\ q.text = p.text
<1>1. Closes(p, Close(p, d), I, D, d)
  BY CloseQuiet
<1>2. /\ p = [v |-> p.v, fd |-> p.fd, text |-> p.text] /\ p.fd \in [Fd -> FdType]
  BY DEF Busy, Calm, Lives
<1>3. Close(p, d) = [v |-> p.v, fd |-> [p.fd EXCEPT ![d] = Closed], text |-> p.text]
  BY DEF Close, ClosedOn, FlushIfile
<1>4. [p EXCEPT !.fd[d] = Closed] = [v |-> p.v, fd |-> [p.fd EXCEPT ![d] = Closed], text |-> p.text]
  <2> DEFINE c == Closed
  <2> HIDE DEF c
  <2>1. [p EXCEPT !.fd[d] = c] = [v |-> p.v, fd |-> [p.fd EXCEPT ![d] = c], text |-> p.text]
    BY <1>2
  <2> QED
    BY <2>1 DEF c
<1> QED
  BY <1>1, <1>3, <1>4

-----------------------------------------------------------------------------
(* Writing.                                                                 *)

\* One character changes one byte of one file.
LEMMA ByteSaid ==
    ASSUME NEW I, NEW told \in [I -> [Index -> Bytes]], NEW i \in I,
           NEW x \in 0 .. MaxPos - 1, NEW c \in 0 .. W - 1
    PROVE  LET new == SaidIn(told, i, Fbloc(x), x % S, c)
           IN  \A j \in I, y \in 0 .. MaxPos - 1 :
                  ByteOf(new, j, y) = IF j = i /\ y = x THEN c ELSE ByteOf(told, j, y)
<1> DEFINE g == Fbloc(x)
           k == x % S
           t == [told[i][g] EXCEPT ![k] = c]
           row == [told[i] EXCEPT ![g] = t]
           new == SaidIn(told, i, g, k, c)
<1>1. \A y \in 0 .. MaxPos - 1 : y \in Nat /\ Fbloc(y) \in Index /\ y % S \in 0 .. S - 1
  <2>1. \A y \in 0 .. MaxPos - 1 : y \in Nat
    BY MaxPosIs
  <2>2. \A y \in Nat : y % S \in 0 .. S - 1
    BY BlocOf
  <2>3. \A y \in 0 .. MaxPos - 1 : Fbloc(y) \in Index
    BY Positions DEF Index
  <2> QED
    BY <2>1, <2>2, <2>3
<1>2. g \in Index /\ k \in 0 .. S - 1 /\ told[i] \in [Index -> Bytes] /\ told[i][g] \in Bytes
  BY <1>1
<1> HIDE DEF g, k
<1>3. \A z \in 0 .. S - 1 : t[z] = IF z = k THEN c ELSE told[i][g][z]
  BY <1>2 DEF Bytes
<1> HIDE DEF t
<1>4. \A f \in Index : row[f] = IF f = g THEN t ELSE told[i][f]
  BY <1>2
<1>5. new = [told EXCEPT ![i] = row]
  BY DEF SaidIn, t
<1> HIDE DEF row, new
<1>6. \A j \in I : new[j] = IF j = i THEN row ELSE told[j]
  BY <1>5
<1>7. ASSUME NEW j \in I, NEW y \in 0 .. MaxPos - 1
      PROVE  ByteOf(new, j, y) = IF j = i /\ y = x THEN c ELSE ByteOf(told, j, y)
  <2>1. Fbloc(y) \in Index /\ y % S \in 0 .. S - 1 /\ x \in Nat /\ y \in Nat
    BY <1>1
  <2>2. CASE j = i /\ y = x
    <3>1. Fbloc(y) = g /\ y % S = k
      BY <2>2 DEF g, k
    <3> QED
      BY <1>2, <1>3, <1>4, <1>6, <2>2, <3>1 DEF ByteOf
  <2>3. CASE j # i
    BY <1>6, <2>3 DEF ByteOf
  <2>4. CASE j = i /\ y # x
    <3>1. Fbloc(y) # g \/ y % S # k
      BY <2>1, <2>4, BytesApart DEF g, k
    <3>2. CASE Fbloc(y) # g
      BY <1>4, <1>6, <2>1, <2>4, <3>2 DEF ByteOf
    <3>3. CASE Fbloc(y) = g /\ y % S # k
      BY <1>3, <1>4, <1>6, <2>1, <2>4, <3>3 DEF ByteOf
    <3> QED
      BY <3>1, <3>2, <3>3
  <2> QED
    BY <2>2, <2>3, <2>4
<1> QED
  BY <1>7 DEF new, g, k

LEMMA TypedBusy ==
    ASSUME NEW p, NEW I, NEW D, NEW d \in Fd, NEW i, Busy(p, I, D, d, i), p.v.end = "none",
           NEW c \in 0 .. W - 1
    PROVE  LET q == TypedBy(p, d, c)
           IN  /\ Busy(q, I, D, d, i) /\ After(p, q, I) /\ q.v = p.v
               /\ q.fd[d].cursor = p.fd[d].cursor /\ q.fd[d].size = p.fd[d].size
               /\ q.text = SaidIn(p.text, i, Fbloc(p.fd[d].cursor), p.fd[d].cursor % S, c)
<1> DEFINE e == p.fd[d]
           t == TypedIn(e, c)
           q == TypedBy(p, d, c)
<1>1. /\ Good(p.v, I, {}) /\ p.fd \in [Fd -> FdType] /\ e \in FdType /\ i \in I
      /\ e.open /\ e.inoeud = i /\ There(p.v, e) /\ Calm(p, I, D)
  <2>1. Calm(p, I, D)
    BY DEF Busy
  <2> QED
    BY <2>1, BusyTypes
<1>2. Lives(q, I, {})
  BY <1>1, TypedLives DEF Calm
<1>3. /\ t.open /\ t.inoeud = i /\ t.cursor = e.cursor /\ t.size = e.size
  BY <1>1 DEF TypedIn, FdType
<1>4. /\ q.v = p.v /\ q.fd = [p.fd EXCEPT ![d] = t] /\ q = [v |-> q.v, fd |-> q.fd, text |-> q.text]
      /\ q.text = SaidIn(p.text, i, Fbloc(e.cursor), e.cursor % S, c)
  BY <1>1 DEF TypedBy, At
<1> HIDE DEF q, t
<1>5. q.fd[d] = t /\ \A x \in Fd : x # d => q.fd[x] = p.fd[x]
  BY <1>1, <1>4
<1>6. Calm(q, I, D)
  BY <1>1, <1>2, <1>4 DEF Calm
<1>7. There(q.v, q.fd[d])
  BY <1>1, <1>3, <1>4, <1>5 DEF There, At
<1>8. Busy(q, I, D, d, i)
  BY <1>1, <1>3, <1>5, <1>6, <1>7 DEF Busy
<1>9. After(p, q, I)
  BY <1>1, <1>4, AfterSelf DEF After
<1> QED
  BY <1>3, <1>4, <1>5, <1>8, <1>9 DEF q

\* writec_ifile; as long as the volume is not full, it changes nothing else.
Writes(p, q, I, D, d, i, c) ==
    LET x == p.fd[d].cursor
    IN  /\ Busy(q, I, D, d, i) /\ After(p, q, I)
        /\ q.v.end = "none" => p.v.end = "none" /\ q.fd[d].cursor = x + 1
        /\ q.v.nb # 0 =>
              \A j \in I, y \in 0 .. MaxPos - 1 :
                  ByteOf(q.text, j, y) = IF j = i /\ y = x THEN c ELSE ByteOf(p.text, j, y)
        /\ q.v.end = "none" /\ (x + 1) % S = 0 =>
              q.fd[d].buffer = HeldAt(q.v, i, Fbloc(x + 1))

LEMMA WritecBusy ==
    ASSUME NEW p, NEW I, NEW D, NEW d \in Fd, NEW i, Busy(p, I, D, d, i),
           NEW c \in 0 .. W - 1, p.fd[d].cursor + 1 < (NB + 2) * S
    PROVE  Writes(p, Writec(p, d, c), I, D, d, i, c)
<1> DEFINE q == Writec(p, d, c)
           x == p.fd[d].cursor
<1>1. /\ x \in 0 .. MaxPos - 1 /\ x \in Nat /\ At(p.fd[d]) = Fbloc(x) /\ i \in I
      /\ p.text \in [I -> [Index -> Bytes]] /\ Calm(p, I, D)
  BY BusyTypes DEF At, Busy
<1>2. CASE p.v.end # "none"
  <2>1. q = p
    BY <1>2 DEF Writec
  <2>2. p.v.nb = 0
    BY <1>1, <1>2, CalmGood
  <2> QED
    BY <1>1, <1>2, <2>1, <2>2, AfterSelf DEF Writes
<1>3. CASE p.v.end = "none"
  <2> DEFINE t == TypedBy(p, d, c)
  <2>1. q = Seek(t, d, x + 1)
    BY <1>3 DEF Writec, TypedBy, TypedIn, SaidIn
  <2>2. /\ Busy(t, I, D, d, i) /\ After(p, t, I) /\ t.v = p.v /\ t.fd[d].cursor = x
        /\ t.text = SaidIn(p.text, i, Fbloc(x), x % S, c)
    BY <1>3, TypedBusy
  <2> HIDE DEF q, t, x
  <2>3. /\ x + 1 \in 0 .. MaxPos /\ Fbloc(x + 1) <= NB + 1 /\ At(t.fd[d]) = Fbloc(x)
        /\ Fbloc(x + 1) <= At(t.fd[d]) + 1
    <3>1. x + 1 \in Nat /\ x + 1 < (NB + 2) * S
      BY <1>1 DEF x
    <3>2. x + 1 \in 0 .. MaxPos - 1 /\ Fbloc(x + 1) <= NB + 1
      BY <3>1, MaxPosIs
    <3>3. x + 1 \in 0 .. MaxPos
      <4> HIDE DEF MaxPos
      <4> QED
        BY <3>2, MaxPosIs
    <3>4. At(t.fd[d]) = Fbloc(x)
      BY <2>2 DEF At
    <3> QED
      BY <1>1, <3>2, <3>3, <3>4, BlocNext
  <2>4. Seeks(t, q, I, D, d, i, x + 1)
    BY <1>3, <2>1, <2>2, <2>3, SeekBusy
  <2>5. Busy(q, I, D, d, i) /\ After(p, q, I)
    <3>1. Busy(q, I, D, d, i) /\ After(t, q, I) /\ Calm(t, I, D) /\ Calm(q, I, D)
      BY <2>2, <2>4 DEF Seeks, Busy
    <3> QED
      BY <1>1, <2>2, <3>1, AfterOn
  <2>6. q.v.nb # 0 => q.text = t.text
    BY <2>4 DEF Seeks
  <2>7. ASSUME q.v.nb # 0, NEW j \in I, NEW y \in 0 .. MaxPos - 1
        PROVE  ByteOf(q.text, j, y) = IF j = i /\ y = x THEN c ELSE ByteOf(p.text, j, y)
    BY <1>1, <2>2, <2>6, <2>7, ByteSaid
  <2>8. ASSUME q.v.end = "none", (x + 1) % S = 0
        PROVE  q.fd[d].buffer = HeldAt(q.v, i, Fbloc(x + 1))
    <3>1. Fbloc(x + 1) # At(t.fd[d])
      BY <1>1, <2>3, <2>8, BlocNext
    <3> QED
      BY <2>4, <2>8, <3>1 DEF Seeks
  <2>9. q.v.end = "none" => q.fd[d].cursor = x + 1
    BY <2>4 DEF Seeks
  <2> QED
    BY <1>3, <2>5, <2>7, <2>8, <2>9 DEF Writes, x, q
<1> QED
  BY <1>2, <1>3

\* The run of the loop of add_entry exists.
IsEntry(f, K, p, d, m, name) ==
    f = [n \in 0 .. K |-> IF n = 0 THEN p ELSE Writec(f[n - 1], d, Byte(n, m, name))]

LEMMA EntryExists ==
    ASSUME NEW p, NEW d, NEW m, NEW name, NEW K \in Nat
    PROVE  \E f : IsEntry(f, K, p, d, m, name)
<1> DEFINE T == {n \in Nat : \E f : IsEntry(f, n, p, d, m, name)}
<1>1. 0 \in T
  <2> DEFINE f == [n \in 0 .. 0 |-> p]
  <2>1. IsEntry(f, 0, p, d, m, name)
    BY DEF IsEntry
  <2> QED
    BY <2>1
<1>2. ASSUME NEW l \in 0 .. K - 1, l \in T
      PROVE  l + 1 \in T
  <2>1. PICK f : IsEntry(f, l, p, d, m, name)
    BY <1>2
  <2> DEFINE g == [n \in 0 .. l + 1 |->
                      IF n = 0 THEN p ELSE Writec(f[n - 1], d, Byte(n, m, name))]
  <2>2. ASSUME NEW n \in 0 .. l + 1, n # 0
        PROVE  g[n - 1] = f[n - 1]
    <3>1. n - 1 \in 0 .. l /\ n - 1 \in 0 .. l + 1
      BY <2>2
    <3> QED
      BY <2>1, <3>1 DEF IsEntry
  <2>3. IsEntry(g, l + 1, p, d, m, name)
    BY <2>2 DEF IsEntry
  <2> QED
    BY <2>3
<1> HIDE DEF T
<1>3. 0 .. K \subseteq T
  BY <1>1, <1>2, UpTo
<1> QED
  BY <1>3 DEF T

\* The first n bytes of an entry were written: they have a bloc, and as long as the
\* volume is not full nothing else changed.
WroteEntry(p, q, I, D, d, i, m, name, n) ==
    LET x == p.fd[d].cursor
    IN  /\ Busy(q, I, D, d, i) /\ After(p, q, I)
        /\ q.v.end = "none" => p.v.end = "none" /\ q.fd[d].cursor = x + n
        /\ q.v.nb # 0 =>
              \A j \in I, y \in 0 .. MaxPos - 1 :
                  ByteOf(q.text, j, y) = IF j = i /\ y \in x .. x + n - 1
                                         THEN Byte(y - x + 1, m, name)
                                         ELSE ByteOf(p.text, j, y)
        /\ q.v.nb # 0 /\ n >= 1 =>
              Fbloc(x + n - 1) = 0 \/ At2(q.v, i, Fbloc(x + n - 1)) # 0

LEMMA ByteWritten ==
    ASSUME NEW p, NEW q, NEW I, NEW D, NEW d \in Fd, NEW i, NEW m \in 0 .. W - 1,
           NEW name \in 0 .. W - 1, NEW n \in 0 .. E - 1, Busy(p, I, D, d, i),
           p.fd[d].cursor + E < (NB + 2) * S, WroteEntry(p, q, I, D, d, i, m, name, n)
    PROVE  WroteEntry(p, Writec(q, d, Byte(n + 1, m, name)), I, D, d, i, m, name, n + 1)
<1> DEFINE c == Byte(n + 1, m, name)
           r == Writec(q, d, c)
           x == p.fd[d].cursor
<1>1. /\ Busy(q, I, D, d, i) /\ Calm(q, I, D) /\ Calm(p, I, D) /\ After(p, q, I) /\ i \in I
      /\ n \in Nat /\ n + 1 <= E
  BY DirSizes, BusyTypes DEF WroteEntry, Busy, Calm
<1>2. x \in Nat /\ c \in 0 .. W - 1 /\ E \in Nat
  <2>1. x \in Nat
    BY BusyTypes
  <2>2. 0 \in 0 .. W - 1 /\ E \in Nat
    BY DirSizes
  <2>3. c \in 0 .. W - 1
    BY <2>2 DEF Byte
  <2> QED
    BY <2>1, <2>2, <2>3
<1>3. CASE q.v.end # "none"
  <2>1. r = q /\ q.v.nb = 0
    BY <1>1, <1>3, CalmGood DEF Writec
  <2> HIDE DEF r, c
  <2> QED
    BY <1>1, <1>3, <2>1 DEF WroteEntry, r, c
<1>4. CASE q.v.end = "none"
  <2>1. q.fd[d].cursor = x + n /\ x + n \in Nat
    BY <1>1, <1>2, <1>4 DEF WroteEntry
  <2>2. x + n + 1 < (NB + 2) * S
    <3> DEFINE z == (NB + 2) * S
    <3>1. z \in Nat /\ x + E < z
      BY DirSizes
    <3> HIDE DEF z, x
    <3>2. x + n + 1 < z
      BY <1>1, <1>2, <3>1
    <3> QED
      BY <3>2 DEF z
  <2> HIDE DEF x, c, r
  <2>3. Writes(q, r, I, D, d, i, c)
    BY <1>1, <1>2, <2>1, <2>2, WritecBusy DEF r
  <2>4. Busy(r, I, D, d, i) /\ After(p, r, I)
    <3>1. Busy(r, I, D, d, i) /\ After(q, r, I) /\ Calm(r, I, D)
      BY <2>3 DEF Writes, Busy
    <3> QED
      BY <1>1, <3>1, AfterOn
  <2>5. r.v.end = "none" => p.v.end = "none" /\ r.fd[d].cursor = x + (n + 1)
    <3>1. p.v.end = "none"
      BY <1>4 DEF WroteEntry
    <3>2. r.v.end = "none" => r.fd[d].cursor = x + n + 1
      BY <2>1, <2>3 DEF Writes
    <3> QED
      BY <1>1, <1>2, <3>1, <3>2
  <2>6. ASSUME r.v.nb # 0, NEW j \in I, NEW y \in 0 .. MaxPos - 1
        PROVE  ByteOf(r.text, j, y) = IF j = i /\ y \in x .. x + (n + 1) - 1
                                      THEN Byte(y - x + 1, m, name)
                                      ELSE ByteOf(p.text, j, y)
    <3>1. q.v.nb # 0
      <4>1. Calm(r, I, D) /\ After(q, r, I)
        BY <2>3 DEF Writes, Busy
      <4> QED
        BY <2>6, <4>1, StillSome
    <3>2. ByteOf(r.text, j, y) = IF j = i /\ y = x + n THEN c ELSE ByteOf(q.text, j, y)
      BY <2>1, <2>3, <2>6 DEF Writes
    <3>3. ByteOf(q.text, j, y) = IF j = i /\ y \in x .. x + n - 1
                                 THEN Byte(y - x + 1, m, name) ELSE ByteOf(p.text, j, y)
      BY <3>1 DEF WroteEntry, x
    <3>4. y \in Nat
      BY MaxPosIs
    <3>5. y = x + n => y - x + 1 = n + 1
      BY <1>1, <1>2
    <3>6. y = x + n => y \in x .. x + (n + 1) - 1
      BY <1>1, <1>2
    <3>7. y # x + n => (y \in x .. x + (n + 1) - 1 <=> y \in x .. x + n - 1)
      BY <1>1, <1>2, <3>4
    <3> QED
      BY <3>2, <3>3, <3>5, <3>6, <3>7 DEF c
  <2>7. Fbloc(x + (n + 1) - 1) = 0 \/ At2(r.v, i, Fbloc(x + (n + 1) - 1)) # 0
    <3> DEFINE f == Fbloc(x + n)
    <3>1. x + (n + 1) - 1 = x + n
      BY <1>1, <1>2
    <3>2. f \in Nat /\ There(q.v, q.fd[d]) /\ At(q.fd[d]) = f /\ At(q.fd[d]) \in 0 .. 2 * NB - 1
          /\ q.fd[d].inoeud = i
      BY <1>1, <2>1, BlocOf, BusyTypes DEF At
    <3>3. After(q, r, I)
      BY <2>3 DEF Writes
    <3>4. f = 0 \/ At2(q.v, i, f) # 0
      <4> HIDE DEF f
      <4> QED
        BY <3>2 DEF There
    <3>5. At2(q.v, i, f) # 0 => At2(r.v, i, f) # 0
      <4> HIDE DEF f
      <4> QED
        BY <1>1, <3>2, <3>3 DEF After, Keeps
    <3> QED
      BY <3>1, <3>4, <3>5
  <2> QED
    BY <2>4, <2>5, <2>6, <2>7 DEF WroteEntry, r, x, c
<1> QED
  BY <1>3, <1>4

\* write_ifile of an entry.
LEMMA WriteEntryWrites ==
    ASSUME NEW p, NEW I, NEW D, NEW d \in Fd, NEW i, NEW m \in 0 .. W - 1,
           NEW name \in 0 .. W - 1, Busy(p, I, D, d, i),
           p.fd[d].cursor + E < (NB + 2) * S
    PROVE  WroteEntry(p, WriteEntry(p, d, m, name), I, D, d, i, m, name, E)
<1> DEFINE f == CHOOSE g : IsEntry(g, E, p, d, m, name)
           T == {n \in 0 .. E : WroteEntry(p, f[n], I, D, d, i, m, name, n)}
<1>1. E \in Nat
  BY DirSizes
<1>2. IsEntry(f, E, p, d, m, name)
  BY <1>1, EntryExists
<1>3. WriteEntry(p, d, m, name) = f[E]
  BY DEF WriteEntry, IsEntry
<1> HIDE DEF f
<1>4. 0 \in T
  <2>1. f[0] = p
    BY <1>1, <1>2 DEF IsEntry
  <2>2. After(p, p, I) /\ p.fd[d].cursor \in Nat
    <3>1. Calm(p, I, D)
      BY DEF Busy
    <3> QED
      BY <3>1, BusyTypes, AfterSelf
  <2>3. p.fd[d].cursor .. p.fd[d].cursor + 0 - 1 = {} /\ p.fd[d].cursor + 0 = p.fd[d].cursor
    BY <2>2
  <2>4. WroteEntry(p, p, I, D, d, i, m, name, 0)
    BY <2>2, <2>3 DEF WroteEntry
  <2> QED
    BY <1>1, <2>1, <2>4
<1>5. ASSUME NEW n \in 0 .. E - 1, n \in T
      PROVE  n + 1 \in T
  <2>1. n + 1 \in 0 .. E /\ n + 1 # 0 /\ n + 1 - 1 = n
    BY <1>1
  <2>2. f[n + 1] = Writec(f[n], d, Byte(n + 1, m, name))
    <3>1. \A l \in 0 .. E : l # 0 => f[l] = Writec(f[l - 1], d, Byte(l, m, name))
      BY <1>2, Zenon DEF IsEntry
    <3> QED
      BY <2>1, <3>1
  <2> QED
    BY <1>5, <2>1, <2>2, ByteWritten
<1>6. E \in T
  <2> HIDE DEF T
  <2>1. 0 .. E \subseteq T
    BY <1>1, <1>4, <1>5, UpTo
  <2> QED
    BY <1>1, <2>1
<1> QED
  BY <1>3, <1>6

-----------------------------------------------------------------------------
(* Going back to an entry.                                                  *)

\* The size of a directory covers the blocs that it has below its table's second.
LEMMA SizeCoversByte ==
    ASSUME NEW v, NEW I, NEW L, Good(v, I, L), NEW i \in I, Sized(v, i), NEW x \in Nat,
           Fbloc(x) <= NB, At2(v, i, Fbloc(x)) # 0
    PROVE  x < v.disk[i].taille * S
<1> DEFINE f == Fbloc(x)
           t == v.disk[i].taille
<1>1. f \in Nat /\ t \in Nat /\ x % S \in 0 .. S - 1 /\ x = S * f + (x % S)
  BY BlocOf, SizedType
<1>2. f < t
  <2>1. CASE f < NB
    <3>1. f \in 0 .. F - 1
      BY <1>1, <2>1, DirSizes
    <3>2. Spot(f) \in Place /\ Spot(f) = Direct(f) /\ Spot(f)[1] = "direct" /\ Spot(f)[2] = f
      BY <2>1, <3>1, SpotPlace, PlaceOf
    <3> HIDE DEF f
    <3>3. NameOK(v, I, i, Spot(f), BlocAt(v, i, Spot(f)))
      BY <3>2 DEF Good, Names
    <3> QED
      BY <3>2, <3>3 DEF NameOK, At2, f
  <2>2. CASE f = NB
    <3>1. v.disk[i].indirect # 0
      BY <2>2, TableThere, DirSizes
    <3> QED
      BY <1>1, <2>2, <3>1, DirSizes DEF Sized
  <2> QED
    BY <1>1, <2>1, <2>2, DirSizes
<1> HIDE DEF f, t
<1>3. S * f + (x % S) < t * S
  <2>1. \A q \in Nat, r \in 0 .. S - 1 : S * q + r < (q + 1) * S
    BY DirSizes
  <2>2. (f + 1) * S <= t * S
    BY <1>1, <1>2, DirSizes
  <2>3. S * f + (x % S) < (f + 1) * S /\ (f + 1) * S \in Nat /\ t * S \in Nat
        /\ S * f + (x % S) \in Nat
    BY <1>1, <2>1, DirSizes
  <2> QED
    BY <2>2, <2>3
<1> QED
  BY <1>1, <1>3 DEF t

\* A byte that no buffer is on has a bloc, when it is not zero.
LEMMA ByteHasBloc ==
    ASSUME NEW p, NEW I, NEW D, Calm(p, I, D), NEW i \in I, NEW x \in Nat,
           Fbloc(x) \in 0 .. 2 * NB - 1, \A d \in Fd : ~On(p.fd[d], i, Fbloc(x)),
           ByteOf(p.text, i, x) # 0
    PROVE  At2(p.v, i, Fbloc(x)) # 0
<1> DEFINE f == Fbloc(x)
<1>1. SaidAt(p, i, f)
  BY DEF Calm, Lives, Said
<1>2. p.text[i][f] = HeldAt(p.v, i, f)
  BY <1>1 DEF SaidAt
<1>3. x % S \in 0 .. S - 1
  BY BlocOf
<1>4. p.text[i][f] # Zeros
  BY <1>3 DEF ByteOf, Zeros
<1> QED
  BY <1>2, <1>4 DEF HeldAt

\* seek_file to the entry where a search ended.
LEMMA SoughtScans ==
    ASSUME NEW p, NEW I, NEW D, NEW d \in Fd, NEW i, Reader(p, I, D, d, i), NEW q, NEW name,
           Looked(p, q, I, D, d, i, name)
    PROVE  LET s == SeekTo(q.p, d, q.ientry * E)
           IN  /\ Scans(p, s, I, D, d, i) /\ After(q.p, s, I)
               /\ s.v.end = "none" => q.p.v.end = "none" /\ s.fd[d].cursor = q.ientry * E
               /\ q.p.v.end = "none" /\ Num(p.text, i, q.ientry) # 0 => s.v.end = "none"
<1> DEFINE o == q.p
           x == q.ientry * E
           z == p.fd[d].size * S
           s == SeekTo(o, d, x)
<1>1. /\ Scans(p, o, I, D, d, i) /\ Reader(o, I, D, d, i) /\ Busy(o, I, D, d, i)
      /\ o.text = p.text /\ o.fd[d].size = p.fd[d].size /\ ~o.fd[d].modified
      /\ q.ientry \in Nat /\ x <= z /\ i \in D /\ Calm(o, I, D)
      /\ o.v.end = "none" => x <= o.fd[d].cursor
  BY DEF Looked, Scans, Reader, Busy
<1>2. /\ x \in Nat /\ o.fd[d].size \in Nat /\ o.fd[d].size <= NB + 1
      /\ o.fd[d].cursor \in Nat
  BY <1>1, EntryAt, BusyTypes
<1>3. CASE o.v.end # "none"
  <2>1. s = o
    BY <1>3 DEF SeekTo
  <2>2. After(o, o, I)
    BY <1>1, AfterSelf
  <2> HIDE DEF s, o
  <2> QED
    BY <1>1, <1>3, <2>1, <2>2 DEF s, o
<1>4. CASE o.v.end = "none"
  <2> HIDE DEF o, x
  <2>1. s = Seek(o, d, x)
    BY <1>4 DEF SeekTo
  <2>2. x \in 0 .. MaxPos /\ Fbloc(x) <= NB + 1
    BY <1>1, <1>2, SizeInBytes
  <2>3. Fbloc(x) <= At(o.fd[d]) /\ At(o.fd[d]) \in Nat /\ Fbloc(x) \in Nat
    BY <1>1, <1>2, <1>4, BlocsInOrder, BlocOf DEF At
  <2>4. Fbloc(x) <= At(o.fd[d]) + 1
    BY <2>3
  <2>5. Seeks(o, s, I, D, d, i, x)
    BY <1>1, <1>4, <2>1, <2>2, <2>4, SeekBusy
  <2>6. /\ Busy(s, I, D, d, i) /\ After(o, s, I) /\ s.text = o.text /\ ~s.fd[d].modified
        /\ s.fd[d].size = o.fd[d].size /\ Calm(s, I, D)
        /\ s.v.end = "none" => s.fd[d].cursor = x
        /\ s.v.end # "none" => s.v.end = "exit"
    BY <1>1, <2>5 DEF Seeks, Busy, Calm
  <2>7. s.fd[d].cursor <= s.fd[d].size * S
    <3>1. CASE s.v.end = "none"
      BY <1>1, <2>6, <3>1
    <3>2. CASE s.v.end = "exit"
      <4>1. s.fd[d] = o.fd[d]
        BY <2>5, <3>2 DEF Seeks
      <4> QED
        BY <1>1, <4>1 DEF Reader
    <3> QED
      BY <2>6, <3>1, <3>2
  <2>8. Scans(p, s, I, D, d, i)
    <3>1. Scans(o, s, I, D, d, i)
      BY <1>4, <2>6, <2>7 DEF Scans, Reader
    <3> QED
      BY <1>1, <3>1, ScansOn
  <2>9. ASSUME Num(p.text, i, q.ientry) # 0, s.v.end # "none"
        PROVE  FALSE
    <3>1. s.v.end = "exit" /\ s.fd[d] = o.fd[d] /\ At2(s.v, i, Fbloc(x)) = 0
      BY <2>5, <2>6, <2>9 DEF Seeks
    <3>2. Fbloc(x) # At(o.fd[d])
      <4>1. ASSUME Fbloc(x) = At(o.fd[d])
            PROVE  s.v = o.v
        BY <2>1, <4>1 DEF Seek, Sought, SeekIfile
      <4> QED
        BY <1>4, <3>1, <4>1
    <3>3. \A e \in Fd : ~On(s.fd[e], i, Fbloc(x))
      BY <2>6, <3>1, <3>2 DEF Busy, On
    <3>4. i \in I /\ Fbloc(x) \in 0 .. 2 * NB - 1
      <4>1. i \in I
        BY <1>1 DEF Calm
      <4>2. Fbloc(x) \in 0 .. 2 * NB - 1
        BY <2>2, <2>3, DirSizes
      <4> QED
        BY <4>1, <4>2
    <3>5. ByteOf(s.text, i, x) # 0
      BY <1>1, <2>6, <2>9 DEF Num, x
    <3> QED
      BY <1>2, <2>6, <3>1, <3>3, <3>4, <3>5, ByteHasBloc
  <2> QED
    BY <1>4, <2>6, <2>8, <2>9 DEF o, x
<1> QED
  BY <1>3, <1>4

\* The entry where a search ended is replaced by another.
Replaces(p, r, I, D, i, k, m, name) ==
    /\ Quiet(r, I, D) /\ After(p, r, I)
    /\ r.v.nb # 0 =>
          /\ \A j \in I, y \in 0 .. MaxPos - 1 :
                ByteOf(r.text, j, y) = IF j = i /\ y \in k * E .. k * E + E - 1
                                       THEN Byte(y - k * E + 1, m, name)
                                       ELSE ByteOf(p.text, j, y)
          /\ \/ Fbloc(k * E + E - 1) = 0
             \/ At2(r.v, i, Fbloc(k * E + E - 1)) # 0

\* An entry is written where a directory has room for it.
LEMMA EntryFits ==
    ASSUME NEW p, NEW I, NEW D, NEW d \in Fd, NEW i, Reader(p, I, D, d, i)
    PROVE  p.fd[d].cursor + E < (NB + 2) * S
<1> DEFINE a == p.fd[d].size * S
           b == (NB + 1) * S
           c == p.fd[d].cursor
<1>1. Busy(p, I, D, d, i) /\ c <= a
  BY DEF Reader
<1>2. p.fd[d].size \in Nat /\ p.fd[d].size <= NB + 1 /\ c \in Nat
  BY <1>1, BusyTypes
<1>3. a \in Nat /\ a <= b /\ b \in Nat
  BY <1>2, SizeInBytes
<1>4. (NB + 2) * S = b + S
  BY DirSizes
<1> HIDE DEF a, b, c
<1>5. c + E < b + S
  BY <1>1, <1>2, <1>3, DirSizes
<1> QED
  BY <1>4, <1>5 DEF c

LEMMA PutReplaces ==
    ASSUME NEW p, NEW I, NEW D, NEW d \in Fd, NEW i, Reader(p, I, D, d, i), NEW q, NEW other,
           Looked(p, q, I, D, d, i, other), NEW m \in 0 .. W - 1, NEW name \in 0 .. W - 1
    PROVE  LET r == PutEntry(q, d, m, name)
           IN  /\ Replaces(p, r, I, D, i, q.ientry, m, name)
               /\ r.v.nb # 0 => q.p.v.end = "none" /\ r.v.end = "none"
<1> DEFINE x == q.ientry * E
           s == SeekTo(q.p, d, x)
           w == WriteEntry(s, d, m, name)
           r == PutEntry(q, d, m, name)
<1>1. /\ Scans(p, s, I, D, d, i) /\ q.ientry \in Nat
      /\ s.v.end = "none" => q.p.v.end = "none" /\ s.fd[d].cursor = x
  <2>1. q.ientry \in Nat
    BY DEF Looked
  <2> QED
    BY <2>1, SoughtScans
<1>2. Reader(s, I, D, d, i) /\ Busy(s, I, D, d, i) /\ After(p, s, I) /\ s.text = p.text
      /\ Calm(s, I, D) /\ Calm(p, I, D)
  BY <1>1 DEF Scans, Reader, Busy
<1>3. WroteEntry(s, w, I, D, d, i, m, name, E)
  <2>1. s.fd[d].cursor + E < (NB + 2) * S
    BY <1>2, EntryFits
  <2> HIDE DEF s
  <2> QED
    BY <1>2, <2>1, WriteEntryWrites
<1>4. r = Close(w, d)
  BY DEF PutEntry
<1>5. Closes(w, r, I, D, d)
  <2>1. Busy(w, I, D, d, i)
    BY <1>3 DEF WroteEntry
  <2> HIDE DEF w
  <2> QED
    BY <1>4, <2>1, CloseQuiet
<1> HIDE DEF r, w, s
<1>6. /\ Quiet(r, I, D) /\ After(w, r, I) /\ Calm(w, I, D) /\ Calm(r, I, D) /\ After(s, w, I)
      /\ r.v.end = w.v.end
  BY <1>3, <1>5 DEF Closes, WroteEntry, Busy, Quiet
<1>7. After(p, r, I) /\ After(s, r, I)
  <2>1. After(s, r, I)
    BY <1>2, <1>6, AfterOn
  <2> QED
    BY <1>2, <1>6, <2>1, AfterOn
<1>8. ASSUME r.v.nb # 0
      PROVE  /\ r.v.end = "none" /\ w.v.nb # 0 /\ w.v.end = "none" /\ s.v.nb # 0
             /\ s.v.end = "none" /\ q.p.v.end = "none" /\ s.fd[d].cursor = x
             /\ r.text = w.text
  <2>1. r.v.end = "none" /\ w.v.nb # 0
    BY <1>6, <1>8, StillSome
  <2>2. w.v.end = "none" /\ s.v.nb # 0 /\ s.v.end = "none"
    BY <1>2, <1>6, <2>1, StillSome, CalmGood
  <2>3. r.text = w.text
    BY <1>5, <1>8 DEF Closes
  <2> QED
    BY <1>1, <2>1, <2>2, <2>3
<1>9. ASSUME r.v.nb # 0
      PROVE  /\ \A j \in I, y \in 0 .. MaxPos - 1 :
                   ByteOf(r.text, j, y) = IF j = i /\ y \in x .. x + E - 1
                                          THEN Byte(y - x + 1, m, name)
                                          ELSE ByteOf(p.text, j, y)
             /\ Fbloc(x + E - 1) = 0 \/ At2(r.v, i, Fbloc(x + E - 1)) # 0
  <2>1. r.text = w.text /\ s.fd[d].cursor = x /\ w.v.nb # 0
    BY <1>8, <1>9
  <2>2. \A j \in I, y \in 0 .. MaxPos - 1 :
           ByteOf(r.text, j, y) = IF j = i /\ y \in x .. x + E - 1
                                  THEN Byte(y - x + 1, m, name) ELSE ByteOf(p.text, j, y)
    BY <1>2, <1>3, <2>1 DEF WroteEntry
  <2> DEFINE f == Fbloc(x + E - 1)
  <2>3. f = 0 \/ At2(w.v, i, f) # 0
    BY <1>3, <2>1, DirSizes DEF WroteEntry
  <2>4. f \in 0 .. 2 * NB - 1
    <3> DEFINE z == (NB + 2) * S
    <3>0. x \in Nat /\ x + E < z /\ z \in Nat
      BY <1>1, <1>2, <2>1, EntryAt, EntryFits, DirSizes
    <3>1. x + E - 1 \in Nat
      <4> HIDE DEF x
      <4> QED
        BY <3>0, DirSizes
    <3>2. x + E - 1 < (NB + 2) * S
      <4> HIDE DEF x, z
      <4>1. x + E - 1 < z
        BY <3>0, DirSizes
      <4> QED
        BY <4>1 DEF z
    <3>3. f <= NB + 1 /\ f \in Nat
      BY <3>1, <3>2, MaxPosIs, BlocOf
    <3> HIDE DEF f
    <3> QED
      BY <3>3, DirSizes
  <2> HIDE DEF f
  <2>5. At2(w.v, i, f) # 0 => At2(r.v, i, f) # 0
    <3>1. i \in I
      BY <1>2 DEF Busy, Calm
    <3> QED
      BY <1>6, <2>4, <3>1 DEF After, Keeps
  <2> QED
    BY <2>2, <2>3, <2>5 DEF f
<1> QED
  BY <1>6, <1>7, <1>8, <1>9 DEF Replaces, r, x

-----------------------------------------------------------------------------
(* The entries of a directory, from its bytes.                              *)

LEMMA EntryApart ==
    ASSUME NEW k \in Nat, NEW l \in Nat, NEW b \in 0 .. 1
    PROVE  /\ k * E + b \in l * E .. l * E + E - 1 <=> k = l
           /\ k = l => k * E + b - l * E + 1 = b + 1
<1>1. k * E \in Nat /\ l * E \in Nat /\ (k - l) * E = k * E - l * E
  BY DirSizes
<1>2. CASE k = l
  <2> DEFINE a == l * E
  <2>1. a \in Nat /\ k * E = a
    BY <1>1, <1>2
  <2> HIDE DEF a
  <2>2. a + b \in a .. a + E - 1 /\ a + b - a + 1 = b + 1
    BY <2>1, DirSizes
  <2> QED
    BY <1>2, <2>1, <2>2 DEF a
<1>3. CASE k < l
  <2>1. (k + 1) * E <= l * E /\ (k + 1) * E = k * E + E
    BY <1>3, DirSizes
  <2> DEFINE a == k * E
             c == l * E
  <2> HIDE DEF a, c
  <2>2. a \in Nat /\ c \in Nat /\ a + E <= c
    BY <1>1, <2>1 DEF a, c
  <2>3. ~(a + b \in c .. c + E - 1)
    BY <2>2, DirSizes
  <2> QED
    BY <1>3, <2>3 DEF a, c
<1>4. CASE k > l
  <2>1. (l + 1) * E <= k * E /\ (l + 1) * E = l * E + E
    BY <1>4, DirSizes
  <2> DEFINE a == k * E
             c == l * E
  <2> HIDE DEF a, c
  <2>2. a \in Nat /\ c \in Nat /\ c + E <= a
    BY <1>1, <2>1 DEF a, c
  <2>3. ~(a + b \in c .. c + E - 1)
    BY <2>2, DirSizes
  <2> QED
    BY <1>4, <2>3 DEF a, c
<1> QED
  BY <1>2, <1>3, <1>4

\* The entries that the first blocs of a directory hold.
LEMMA CapacityIs ==
    /\ Capacity \in Nat
    /\ \A k \in Nat : (k + 1) * E <= (NB + 1) * S <=> k < Capacity
    /\ \A k \in 0 .. Capacity - 1 :
          /\ k \in Nat /\ k * E \in 0 .. MaxPos - 1 /\ k * E + 1 \in 0 .. MaxPos - 1
          /\ Fbloc(k * E) \in 0 .. NB /\ Fbloc(k * E + E - 1) \in 0 .. NB
<1> DEFINE c == (NB + 1) * S
           n == c \div E
           r == c % E
<1>1. c \in Nat /\ E \in Nat \ {0} /\ c < (NB + 2) * S
  BY DirSizes
<1>2. n \in Nat /\ r \in 0 .. E - 1 /\ c = E * n + r /\ Capacity = n
  <2> HIDE DEF c
  <2>1. c \div E \in Nat /\ c % E \in 0 .. E - 1 /\ c = E * (c \div E) + (c % E)
    BY <1>1, Division
  <2> QED
    BY <2>1 DEF Capacity, c
<1> HIDE DEF n, r, c
<1>3. ASSUME NEW k \in Nat
      PROVE  (k + 1) * E <= c <=> k < n
  <2>1. CASE k < n
    <3>1. (k + 1) * E <= n * E /\ n * E = E * n /\ E * n \in Nat
      BY <1>1, <1>2, <2>1
    <3> QED
      BY <1>1, <1>2, <2>1, <3>1
  <2>2. CASE k >= n
    <3>1. (n + 1) * E <= (k + 1) * E /\ (n + 1) * E = E * n + E /\ E * n \in Nat
          /\ (k + 1) * E \in Nat
      BY <1>1, <1>2, <2>2
    <3>2. c < E * n + E
      BY <1>1, <1>2, <3>1
    <3>3. c < (n + 1) * E /\ (n + 1) * E \in Nat
      BY <1>1, <1>2, <3>1, <3>2
    <3>4. ~((k + 1) * E <= c)
      <4> DEFINE a == (n + 1) * E
                 b == (k + 1) * E
      <4>1. a \in Nat /\ b \in Nat /\ a <= b /\ c < a
        BY <3>1, <3>3
      <4> HIDE DEF a, b
      <4>2. ~(b <= c)
        BY <1>1, <4>1
      <4> QED
        BY <4>2 DEF b
    <3> QED
      BY <1>2, <2>2, <3>4
  <2> QED
    BY <1>2, <2>1, <2>2
<1>4. ASSUME NEW k \in 0 .. n - 1
      PROVE  /\ k \in Nat /\ k * E \in 0 .. MaxPos - 1 /\ k * E + 1 \in 0 .. MaxPos - 1
             /\ Fbloc(k * E) \in 0 .. NB /\ Fbloc(k * E + E - 1) \in 0 .. NB
  <2>1. k \in Nat /\ (k + 1) * E <= c /\ k * E \in Nat /\ (k + 1) * E = k * E + E
    BY <1>2, <1>3, EntryAt
  <2> DEFINE a == k * E
  <2> HIDE DEF a
  <2>2. a \in Nat /\ a + E <= c /\ a + 1 \in Nat /\ a + E - 1 \in Nat
        /\ a < c /\ a + 1 < c /\ a + E - 1 < c
    BY <1>1, <2>1, DirSizes DEF a
  <2>3. \A x \in Nat : x < c => x < (NB + 2) * S
    <3> DEFINE z == (NB + 2) * S
    <3>1. z \in Nat /\ c < z
      BY <1>1, DirSizes
    <3> HIDE DEF z
    <3>2. \A x \in Nat : x < c => x < z
      BY <1>1, <3>1
    <3> QED
      BY <3>2 DEF z
  <2>4. \A x \in Nat : x < c => x \in 0 .. MaxPos - 1
    BY <2>3, MaxPosIs
  <2>5. \A x \in Nat : x < c => Fbloc(x) \in 0 .. NB
    <3> SUFFICES ASSUME NEW x \in Nat, x < c
                 PROVE  Fbloc(x) \in 0 .. NB
      OBVIOUS
    <3>1. Fbloc(x) < NB + 1 /\ Fbloc(x) \in Nat
      <4>1. NB + 1 \in Nat /\ x < (NB + 1) * S
        BY DirSizes DEF c
      <4> QED
        BY <4>1, BlocBelow, BlocOf
    <3> QED
      BY <3>1, DirSizes
  <2>6. a \in 0 .. MaxPos - 1 /\ a + 1 \in 0 .. MaxPos - 1
        /\ Fbloc(a) \in 0 .. NB /\ Fbloc(a + E - 1) \in 0 .. NB
    BY <2>2, <2>4, <2>5
  <2> QED
    BY <2>1, <2>6 DEF a
<1> QED
  BY <1>2, <1>3, <1>4 DEF c

\* The number and the name of each entry once one was replaced.
LEMMA EntryReplaced ==
    ASSUME NEW p, NEW r, NEW I, NEW D, NEW i, NEW k \in Nat, NEW m, NEW name,
           Replaces(p, r, I, D, i, k, m, name), r.v.nb # 0, NEW j \in I,
           NEW l \in 0 .. Capacity - 1
    PROVE  /\ Num(r.text, j, l) = IF j = i /\ l = k THEN m ELSE Num(p.text, j, l)
           /\ Nam(r.text, j, l) = IF j = i /\ l = k THEN name ELSE Nam(p.text, j, l)
<1>1. l \in Nat /\ l * E \in 0 .. MaxPos - 1 /\ l * E + 1 \in 0 .. MaxPos - 1
  BY CapacityIs
<1>2. \A y \in 0 .. MaxPos - 1 :
          ByteOf(r.text, j, y) = IF j = i /\ y \in k * E .. k * E + E - 1
                                 THEN Byte(y - k * E + 1, m, name) ELSE ByteOf(p.text, j, y)
  BY DEF Replaces
<1>3. /\ 0 \in 0 .. 1 /\ 1 \in 0 .. 1 /\ l * E + 0 = l * E
  BY <1>1, EntryAt
<1>4. /\ l * E \in k * E .. k * E + E - 1 <=> l = k
      /\ l = k => l * E - k * E + 1 = 1
  BY <1>1, <1>3, EntryApart
<1>5. /\ l * E + 1 \in k * E .. k * E + E - 1 <=> l = k
      /\ l = k => l * E + 1 - k * E + 1 = 2
  BY <1>1, <1>3, EntryApart
<1>6. Num(r.text, j, l) = IF j = i /\ l = k THEN m ELSE Num(p.text, j, l)
  BY <1>1, <1>2, <1>4 DEF Num, Byte
<1>7. Nam(r.text, j, l) = IF j = i /\ l = k THEN name ELSE Nam(p.text, j, l)
  BY <1>1, <1>2, <1>5 DEF Nam, Byte
<1> QED
  BY <1>6, <1>7

-----------------------------------------------------------------------------
(* Searching.                                                               *)

\* A call that writes nothing in the files.
Searches(p, q, I, D) == Quiet(q, I, D) /\ After(p, q, I) /\ q.text = p.text
                      /\ (q.v.end = "none" => p.v.end = "none")

\* A search opens the directory and reads it.
LEMMA FindLooks ==
    ASSUME NEW p, NEW I, NEW D, Quiet(p, I, D), p.v.end = "none", NEW d \in Fd, NEW i \in D,
           NEW name
    PROVE  LET o == Iopen(p, d, i)
               q == Look(o, d, name)
           IN  /\ Reader(o, I, D, d, i) /\ After(p, o, I) /\ o.text = p.text /\ o.v = p.v
               /\ o.fd[d].size = p.v.disk[i].taille
               /\ Looked(o, q, I, D, d, i, name)
               /\ q = [p |-> q.p, ientry |-> q.ientry, on |-> q.on, found |-> q.found]
               /\ q.p.v.end = "none" => ~q.on
<1> DEFINE o == Iopen(p, d, i)
<1>1. /\ Reader(o, I, D, d, i) /\ After(p, o, I) /\ o.v = p.v /\ o.text = p.text
      /\ o.fd[d].cursor = 0 /\ o.fd[d].size = p.v.disk[i].taille
  BY IopenReads
<1> HIDE DEF o
<1>2. LET q == Look(o, d, name)
      IN  /\ Looked(o, q, I, D, d, i, name)
          /\ q = [p |-> q.p, ientry |-> q.ientry, on |-> q.on, found |-> q.found]
          /\ q.p.v.end = "none" => ~q.on
  BY <1>1, LookEnds
<1> QED
  BY <1>1, <1>2 DEF o

\* What inumber_of_basename answers: the number of an entry of that name, or 0.
Answers(p, a, I, D, i, name) ==
    /\ Searches(p, a.p, I, D)
    /\ a.i # 0 =>
          \E k \in 0 .. Capacity - 1 : a.i = Num(p.text, i, k) /\ Nam(p.text, i, k) = name
    /\ a.i = 0 /\ a.p.v.end = "none" =>
          \A k \in 0 .. Capacity - 1 :
              (k + 1) * E <= p.v.disk[i].taille * S => ~Wants(p.text, i, k, name)

LEMMA BasenameAnswers ==
    ASSUME NEW p, NEW I, Quiet(p, I, dirs), NEW d \in Fd, NEW i \in dirs,
           NEW name, name # 0
    PROVE  Answers(p, InumberOfBasename(p, d, i, name), I, dirs, i, name)
           \/ p.v.end # "none"
<1> SUFFICES ASSUME p.v.end = "none"
             PROVE  Answers(p, InumberOfBasename(p, d, i, name), I, dirs, i, name)
  OBVIOUS
<1> DEFINE D == dirs
           o == Iopen(p, d, i)
           q == Look(o, d, name)
           a == InumberOfBasename(p, d, i, name)
           z == p.v.disk[i].taille * S
           n == q.ientry
<1>1. /\ Reader(o, I, D, d, i) /\ After(p, o, I) /\ o.text = p.text /\ o.v = p.v
      /\ o.fd[d].size = p.v.disk[i].taille
      /\ Looked(o, q, I, D, d, i, name)
      /\ q.p.v.end = "none" => ~q.on
  BY FindLooks
<1>2. a = FoundOr0(q, d)
  BY DEF InumberOfBasename, FindEntry
<1> HIDE DEF a, q, o, D
<1>3. /\ Scans(o, q.p, I, D, d, i) /\ n \in Nat /\ q.found \in BOOLEAN
      /\ \A k \in 0 .. n - 1 : ~Wants(p.text, i, k, name)
      /\ q.found => Wants(p.text, i, n, name) /\ (n + 1) * E <= z
      /\ q.p.v.end = "none" /\ ~q.on /\ ~q.found => (n + 1) * E > z
  BY <1>1 DEF Looked
<1>4. /\ Busy(q.p, I, D, d, i) /\ Calm(q.p, I, D) /\ Calm(o, I, D) /\ Calm(p, I, D)
      /\ After(o, q.p, I) /\ q.p.text = p.text /\ ~q.p.fd[d].modified
  BY <1>1, <1>3 DEF Scans, Reader, Busy, Quiet, D
<1>5. After(p, q.p, I)
  BY <1>1, <1>4, AfterOn
<1>6. CASE q.p.v.end # "none"
  <2>1. a.p = q.p /\ a.i = 0
    BY <1>2, <1>6 DEF FoundOr0
  <2> QED
    BY <1>4, <1>5, <1>6, <2>1 DEF Answers, Searches, Quiet, D, a
<1>7. CASE q.p.v.end = "none" /\ q.found
  <2> DEFINE s == SeekTo(q.p, d, n * E)
             r == ReadBytes(s, d, E)
  <2>1. a.p = Close(r, d) /\ a.i = Char1(s, d)
    BY <1>2, <1>7 DEF FoundOr0, ReadFound, ReadAt
  <2>2. /\ Scans(o, s, I, D, d, i)
        /\ s.v.end = "none" => s.fd[d].cursor = n * E
        /\ Num(p.text, i, n) # 0 => s.v.end = "none"
    BY <1>1, <1>7, SoughtScans
  <2>3. Num(p.text, i, n) # 0 /\ Nam(p.text, i, n) = name
    BY <1>3, <1>7 DEF Wants, Wanted
  <2> HIDE DEF s
  <2>4. /\ Reader(s, I, D, d, i) /\ Busy(s, I, D, d, i) /\ s.text = p.text /\ Calm(s, I, D)
        /\ After(o, s, I)
    BY <1>1, <2>2 DEF Scans, Reader, Busy
  <2>5. a.i = Num(p.text, i, n)
    BY <2>1, <2>2, <2>3, <2>4, BufferIs DEF Num
  <2>6. Scans(s, r, I, D, d, i)
    BY <2>4, ReadBytesScans, DirSizes
  <2> HIDE DEF r
  <2>7. Busy(r, I, D, d, i) /\ Calm(r, I, D) /\ r.text = p.text /\ ~r.fd[d].modified
        /\ After(s, r, I)
    BY <2>4, <2>6 DEF Scans, Reader, Busy
  <2>8. Closes(r, a.p, I, D, d)
    BY <2>1, <2>7, CloseQuiet
  <2>9. Quiet(a.p, I, D) /\ a.p.text = p.text /\ After(r, a.p, I) /\ Calm(a.p, I, D)
    BY <2>7, <2>8 DEF Closes, Quiet
  <2>10. After(p, a.p, I)
    <3>1. After(o, r, I)
      BY <1>4, <2>4, <2>7, AfterOn
    <3>2. After(o, a.p, I)
      BY <1>4, <2>7, <2>9, <3>1, AfterOn
    <3> QED
      BY <1>1, <1>4, <2>9, <3>2, AfterOn
  <2>11. n \in 0 .. Capacity - 1
    <3>1. z <= (NB + 1) * S /\ z \in Nat /\ (n + 1) * E \in Nat /\ (NB + 1) * S \in Nat
      <4>1. p.v.disk[i].taille \in Nat /\ p.v.disk[i].taille <= NB + 1
        <5>1. o.fd[d].size \in Nat /\ o.fd[d].size <= NB + 1
          BY <1>1, BusyTypes DEF Reader
        <5> QED
          BY <1>1, <5>1
      <4> QED
        BY <1>3, <4>1, SizeInBytes, EntryAt
    <3> HIDE DEF z, n
    <3>2. (n + 1) * E <= (NB + 1) * S
      <4> DEFINE b == (NB + 1) * S
                 c == (n + 1) * E
      <4>1. c <= z /\ z <= b /\ c \in Nat /\ b \in Nat /\ z \in Nat
        BY <1>3, <1>7, <3>1
      <4> HIDE DEF b, c
      <4>2. c <= b
        BY <4>1
      <4> QED
        BY <4>2 DEF b, c
    <3>3. n < Capacity /\ Capacity \in Nat
      BY <1>3, <3>2, CapacityIs
    <3> QED
      BY <1>3, <3>3
  <2> QED
    BY <1>4, <2>3, <2>5, <2>9, <2>10, <2>11 DEF Answers, Searches, D, a, Wants
<1>8. CASE q.p.v.end = "none" /\ ~q.found
  <2>1. a.p = [q.p EXCEPT !.fd[d] = Closed] /\ a.i = 0
    BY <1>2, <1>8 DEF FoundOr0
  <2>2. Closes(q.p, a.p, I, D, d) /\ a.p.text = p.text
    BY <1>4, <1>8, <2>1, DropQuiet
  <2>3. Quiet(a.p, I, D) /\ After(q.p, a.p, I) /\ Calm(a.p, I, D)
    BY <2>2 DEF Closes, Quiet
  <2>4. After(p, a.p, I)
    BY <1>4, <1>5, <2>3, AfterOn
  <2>5. ASSUME NEW k \in 0 .. Capacity - 1, (k + 1) * E <= z
        PROVE  ~Wants(p.text, i, k, name)
    <3>1. (n + 1) * E > z
      BY <1>1, <1>3, <1>8
    <3>2. z \in Nat /\ k \in Nat
      <4>1. o.fd[d].size \in Nat /\ o.fd[d].size <= NB + 1
        BY <1>1, BusyTypes DEF Reader
      <4> QED
        BY <1>1, <4>1, SizeInBytes, CapacityIs
    <3> HIDE DEF z, n
    <3>3. k < n
      <4>1. CASE k >= n
        <5>1. (n + 1) * E <= (k + 1) * E /\ (n + 1) * E \in Nat /\ (k + 1) * E \in Nat
          BY <1>3, <3>2, <4>1, DirSizes
        <5> DEFINE b == (n + 1) * E
                   c == (k + 1) * E
        <5> HIDE DEF b, c
        <5>2. b <= c /\ c <= z /\ b > z /\ b \in Nat /\ c \in Nat
          BY <2>5, <3>1, <5>1 DEF b, c
        <5>3. FALSE
          BY <3>2, <5>2
        <5> QED
          BY <5>3
      <4> QED
        BY <1>3, <3>2, <4>1
    <3> QED
      BY <1>3, <3>2, <3>3
  <2> QED
    BY <2>1, <2>2, <2>3, <2>4, <2>5 DEF Answers, Searches, D, a
<1> QED
  BY <1>3, <1>6, <1>7, <1>8

\* inumber_of_basename, of anything.
LEMMA BasenameSearches ==
    ASSUME NEW p, NEW I, Quiet(p, I, dirs), NEW d \in Fd, NEW i, NEW name, name # 0
    PROVE  Searches(p, InumberOfBasename(p, d, i, name).p, I, dirs)
<1>1. CASE p.v.end # "none" \/ i \notin dirs
  <2>1. InumberOfBasename(p, d, i, name).p = p
    BY <1>1 DEF InumberOfBasename
  <2>2. After(p, p, I)
    BY AfterSelf DEF Quiet
  <2> QED
    BY <2>1, <2>2 DEF Searches
<1>2. CASE ~(p.v.end # "none" \/ i \notin dirs)
  BY <1>2, BasenameAnswers DEF Answers
<1> QED
  BY <1>1, <1>2

LEMMA SearchesOn ==
    ASSUME NEW p, NEW q, NEW r, NEW I, NEW D, Quiet(p, I, D), Searches(p, q, I, D),
           Searches(q, r, I, D)
    PROVE  Searches(p, r, I, D)
<1>1. After(p, r, I)
  BY AfterOn DEF Searches, Quiet
<1> QED
  BY <1>1 DEF Searches

\* The run of the loop of inumber_of_path exists.
IsWalk(f, K, p, d, path) ==
    f = [n \in 0 .. K |->
            IF n = 0 THEN [p |-> p, i |-> Root] ELSE Follow(f[n - 1], d, path[n])]

LEMMA WalkExists ==
    ASSUME NEW p, NEW d, NEW path, NEW K \in Nat
    PROVE  \E f : IsWalk(f, K, p, d, path)
<1> DEFINE b == [p |-> p, i |-> Root]
           T == {n \in Nat : \E f : IsWalk(f, n, p, d, path)}
<1>1. 0 \in T
  <2> DEFINE f == [n \in 0 .. 0 |-> b]
  <2>1. IsWalk(f, 0, p, d, path)
    BY DEF IsWalk
  <2> QED
    BY <2>1
<1>2. ASSUME NEW l \in 0 .. K - 1, l \in T
      PROVE  l + 1 \in T
  <2>1. PICK f : IsWalk(f, l, p, d, path)
    BY <1>2
  <2> DEFINE g == [n \in 0 .. l + 1 |-> IF n = 0 THEN b ELSE Follow(f[n - 1], d, path[n])]
  <2>2. ASSUME NEW n \in 0 .. l + 1, n # 0
        PROVE  g[n - 1] = f[n - 1]
    <3>1. n - 1 \in 0 .. l /\ n - 1 \in 0 .. l + 1
      BY <2>2
    <3> QED
      BY <2>1, <3>1 DEF IsWalk
  <2>3. IsWalk(g, l + 1, p, d, path)
    BY <2>2 DEF IsWalk
  <2> QED
    BY <2>3
<1> HIDE DEF T
<1>3. 0 .. K \subseteq T
  BY <1>1, <1>2, UpTo
<1> QED
  BY <1>3 DEF T

\* Each search of inumber_of_path writes nothing in the files.
LEMMA PathSearches ==
    ASSUME NEW p, NEW I, Quiet(p, I, dirs), NEW d \in Fd, NEW path \in Seq(Name)
    PROVE  Searches(p, InumberOfPath(p, d, path).p, I, dirs)
<1> DEFINE K == Len(path)
           f == CHOOSE g : IsWalk(g, K, p, d, path)
           T == {n \in 0 .. K : Searches(p, f[n].p, I, dirs)}
<1>1. K \in Nat /\ \A n \in 1 .. K : path[n] \in Name
  OBVIOUS
<1>2. IsWalk(f, K, p, d, path)
  BY <1>1, WalkExists
<1>3. InumberOfPath(p, d, path) = f[K]
  BY DEF InumberOfPath, IsWalk
<1> HIDE DEF f
<1>4. 0 \in T
  <2>1. f[0].p = p
    BY <1>1, <1>2 DEF IsWalk
  <2>2. After(p, p, I)
    BY AfterSelf DEF Quiet
  <2> QED
    BY <1>1, <2>1, <2>2 DEF Searches
<1>5. ASSUME NEW n \in 0 .. K - 1, n \in T
      PROVE  n + 1 \in T
  <2>1. n + 1 \in 0 .. K /\ n + 1 # 0 /\ n + 1 - 1 = n /\ n + 1 \in 1 .. K
    BY <1>1
  <2> DEFINE q == f[n]
             r == f[n + 1]
  <2>2. r = Follow(q, d, path[n + 1])
    <3>1. \A l \in 0 .. K : l # 0 => f[l] = Follow(f[l - 1], d, path[l])
      BY <1>2, Zenon DEF IsWalk
    <3> QED
      BY <2>1, <3>1
  <2>3. Searches(p, q.p, I, dirs) /\ Quiet(q.p, I, dirs)
    BY <1>5 DEF Searches
  <2>4. path[n + 1] # 0
    <3>1. path[n + 1] \in Name
      BY <1>1, <2>1
    <3> QED
      BY <3>1, StoredIs
  <2> HIDE DEF q, r
  <2>5. Searches(q.p, r.p, I, dirs)
    <3>1. CASE q.i = 0
      <4>1. r = q /\ After(q.p, q.p, I)
        BY <2>2, <2>3, <3>1, AfterSelf DEF Follow, Quiet
      <4> QED
        BY <2>3, <4>1 DEF Searches
    <3>2. CASE q.i # 0
      <4>1. r = InumberOfBasename(q.p, d, q.i, path[n + 1])
        BY <2>2, <3>2 DEF Follow
      <4> QED
        BY <2>3, <2>4, <4>1, BasenameSearches
    <3> QED
      BY <3>1, <3>2
  <2>6. Searches(p, r.p, I, dirs)
    BY <2>3, <2>5, SearchesOn
  <2> QED
    BY <2>1, <2>6 DEF r
<1>6. K \in T
  <2> HIDE DEF T, K
  <2>1. 0 .. K \subseteq T
    BY <1>1, <1>4, <1>5, UpTo
  <2> QED
    BY <1>1, <2>1
<1> QED
  BY <1>3, <1>6

\* ... and dinumber_of_path has found a directory, or 0.
LEMMA DirSearches ==
    ASSUME NEW p, NEW I, Quiet(p, I, dirs), NEW d \in Fd, NEW path \in Seq(Name) \ {<<>>}
    PROVE  LET q == DinumberOfPath(p, d, path)
           IN  /\ Searches(p, q.p, I, dirs)
               /\ q.i # 0 => q.i \in dirs /\ q.p.v.end = "none"
<1> DEFINE up == Dirname(path)
           r == InumberOfPath(p, d, up)
<1>1. up \in Seq(Name)
  BY DEF Dirname
<1> HIDE DEF up
<1>2. Searches(p, r.p, I, dirs)
  BY <1>1, PathSearches
<1>3. DinumberOfPath(p, d, path) = OrNoDir(r)
  BY DEF DinumberOfPath, up
<1>4. r = [p |-> r.p, i |-> r.i]
  <2> DEFINE K == Len(up)
             f == CHOOSE g : IsWalk(g, K, p, d, up)
  <2>1. K \in Nat
    BY <1>1
  <2>2. IsWalk(f, K, p, d, up)
    BY <2>1, WalkExists
  <2>3. r = f[K]
    BY DEF InumberOfPath, IsWalk
  <2> HIDE DEF f
  <2> DEFINE T == {n \in 0 .. K : f[n] = [p |-> f[n].p, i |-> f[n].i]}
  <2>4. 0 \in T
    BY <2>1, <2>2 DEF IsWalk
  <2>5. ASSUME NEW n \in 0 .. K - 1, n \in T
        PROVE  n + 1 \in T
    <3>1. n + 1 \in 0 .. K /\ n + 1 # 0 /\ n + 1 - 1 = n
      BY <2>1
    <3>2. f[n + 1] = Follow(f[n], d, up[n + 1])
      <4>1. \A l \in 0 .. K : l # 0 => f[l] = Follow(f[l - 1], d, up[l])
        BY <2>2, Zenon DEF IsWalk
      <4> QED
        BY <3>1, <4>1
    <3>3. Follow(f[n], d, up[n + 1]) = f[n] \/
          Follow(f[n], d, up[n + 1]) = InumberOfBasename(f[n].p, d, f[n].i, up[n + 1])
      BY DEF Follow
    <3>4. \A o, i, name : LET a == InumberOfBasename(o, d, i, name)
                          IN  a = [p |-> a.p, i |-> a.i]
      BY DEF InumberOfBasename, FoundOr0, ReadFound, ReadAt
    <3> QED
      BY <2>5, <3>1, <3>2, <3>3, <3>4
  <2>6. K \in T
    <3> HIDE DEF T, K
    <3>1. 0 .. K \subseteq T
      BY <2>1, <2>4, <2>5, UpTo
    <3> QED
      BY <2>1, <3>1
  <2> QED
    BY <2>3, <2>6
<1> HIDE DEF r
<1>5. OrNoDir(r).p = r.p /\ (OrNoDir(r).i # 0 => r.i \in dirs /\ OrNoDir(r).i = r.i
                                                /\ r.p.v.end = "none")
  <2>1. [r EXCEPT !.i = 0] = [p |-> r.p, i |-> 0]
    BY <1>4
  <2> QED
    BY <2>1 DEF OrNoDir
<1> QED
  BY <1>2, <1>3, <1>5

-----------------------------------------------------------------------------
(* The invariant of the directories between two calls: N is what was named   *)
(* and not deleted, C are the directories that a search does not cover.      *)

EntriesOf(N, i) == {e \in N : e[1] = i}

\* As long as the volume is not full: the numbers that a directory holds are those of
\* its entries, each once, and its size covers them.
Shows(v, told, N, i) ==
    /\ \A k \in 0 .. Capacity - 1 : Num(told, i, k) # 0 =>
          /\ (k + 1) * E <= v.disk[i].taille * S
          /\ \E e \in EntriesOf(N, i) : e[3] = Num(told, i, k) /\ Stored(e[2]) \in {0, Nam(told, i, k)}
    /\ \A e \in EntriesOf(N, i) : \E k \in 0 .. Capacity - 1 : Num(told, i, k) = e[3]
    /\ \A k, l \in 0 .. Capacity - 1 :
          Num(told, i, k) # 0 /\ Num(told, i, k) = Num(told, i, l) => k = l

Tree(p, I, D, N, C) ==
    /\ Quiet(p, I, D)
    /\ Root \in D /\ C \subseteq D /\ N \subseteq D \X (Name \cup {0}) \X I
    /\ \A e, g \in N : e[3] = g[3] => e = g
    /\ p.v.nb # 0 => \A i \in D \ C : Shows(p.v, p.text, N, i)

\* The inductive invariant.
DInv ==
    /\ Tree(Before, DOMAIN text, dirs, named, crowded)
    /\ Inv /\ shared = {} /\ \A d \in Fd : ~fd[d].open

LEMMA EntryIs ==
    ASSUME NEW p, NEW I, NEW D, NEW N, NEW C, Tree(p, I, D, N, C), NEW e \in N
    PROVE  /\ e = <<e[1], e[2], e[3]>> /\ e[1] \in D /\ e[1] \in I /\ e[2] \in Name \cup {0}
           /\ e[3] \in I /\ e[3] \in 1 .. NSector - 1 /\ e[3] # 0
<1>1. e \in D \X (Name \cup {0}) \X I /\ D \subseteq I /\ Files(p.v, I)
  BY DEF Tree, Quiet, Calm, Lives, Good
<1>2. e[3] \in 1 .. NSector - 1
  BY <1>1, InodeType
<1> QED
  BY <1>1, <1>2

LEMMA FiniteEntries ==
    ASSUME NEW p, NEW I, NEW D, NEW N, NEW C, Tree(p, I, D, N, C)
    PROVE  IsFiniteSet(N)
<1> DEFINE T == 1 .. NSector - 1
           g == [e \in N |-> e[3]]
<1>1. IsFiniteSet(T)
  BY FS_Interval, DirSizes
<1>2. g \in [N -> T]
  BY EntryIs
<1>3. \A x, y \in N : g[x] = g[y] => x = y
  BY DEF Tree
<1> HIDE DEF T, g
<1>4. g \in Injection(N, T)
  BY <1>2, <1>3 DEF Injection, IsInjective
<1> QED
  BY <1>1, <1>4, FS_Injection

\* A longer file shows the same.
LEMMA ShowsOn ==
    ASSUME NEW p, NEW q, NEW I, NEW D, Calm(p, I, D), Calm(q, I, D), After(p, q, I),
           NEW i \in D, NEW k \in Nat, (k + 1) * E <= p.v.disk[i].taille * S
    PROVE  (k + 1) * E <= q.v.disk[i].taille * S
<1> DEFINE a == p.v.disk[i].taille
           b == q.v.disk[i].taille
<1>1. i \in I /\ Sized(p.v, i) /\ Good(p.v, I, {}) /\ Good(q.v, I, {})
  BY CalmGood DEF Calm
<1>2. a \in Nat /\ b \in Nat
  BY <1>1, SizedType
<1>3. a <= b
  BY <1>1, <1>2 DEF After, Widens
<1> HIDE DEF a, b
<1>4. a * S <= b * S /\ a * S \in Nat /\ b * S \in Nat
  BY <1>2, <1>3, DirSizes
<1>5. (k + 1) * E \in Nat
  BY EntryAt
<1> DEFINE x == (k + 1) * E
           y == a * S
           z == b * S
<1>6. x \in Nat /\ y \in Nat /\ z \in Nat /\ x <= y /\ y <= z
  BY <1>4, <1>5 DEF a
<1> HIDE DEF x, y, z
<1>7. x <= z
  BY <1>6
<1> QED
  BY <1>7 DEF x, z, b

\* A call that writes nothing, or that found the volume full.
LEMMA TreeKept ==
    ASSUME NEW p, NEW q, NEW I, NEW D, NEW N, NEW C, Tree(p, I, D, N, C), Quiet(q, I, D),
           After(p, q, I), q.v.nb # 0 => q.text = p.text
    PROVE  Tree(q, I, D, N, C)
<1>1. Calm(p, I, D) /\ Calm(q, I, D)
  BY DEF Tree, Quiet
<1>2. ASSUME q.v.nb # 0, NEW i \in D \ C
      PROVE  Shows(q.v, q.text, N, i)
  <2>1. Shows(p.v, p.text, N, i) /\ q.text = p.text
    BY <1>1, <1>2, StillSome DEF Tree
  <2>2. \A k \in 0 .. Capacity - 1 :
            (k + 1) * E <= p.v.disk[i].taille * S => (k + 1) * E <= q.v.disk[i].taille * S
    BY <1>1, ShowsOn, CapacityIs
  <2> QED
    BY <2>1, <2>2 DEF Shows
<1> QED
  BY <1>2 DEF Tree

\* How the numbers of the directories change with one entry, k of directory i.
Renumbers(p, r, I, i, k, m) ==
    r.v.nb # 0 =>
        \A j \in I, l \in 0 .. Capacity - 1 :
            /\ Num(r.text, j, l) = IF j = i /\ l = k THEN m ELSE Num(p.text, j, l)
            /\ j # i \/ l # k => Nam(r.text, j, l) = Nam(p.text, j, l)

\* The directories that a search does not cover, once i got an entry more.
Crowding(N, C, i) == IF Cardinality(EntriesOf(N, i)) >= Capacity THEN C \cup {i} ELSE C

\* A directory with room for one entry more has a free one among those that it covers.
LEMMA FreeEntry ==
    ASSUME NEW p, NEW I, NEW D, NEW N, NEW C, Tree(p, I, D, N, C), NEW i \in D,
           i \notin Crowding(N, C, i), p.v.nb # 0, NEW k \in Nat,
           \A l \in 0 .. k - 1 : Num(p.text, i, l) # 0
    PROVE  k \in 0 .. Capacity - 1
<1> DEFINE T == EntriesOf(N, i)
           K == 0 .. Capacity - 1
           pick(l) == CHOOSE e \in T : e[3] = Num(p.text, i, l)
           f == [l \in K |-> pick(l)]
<1>1. Capacity \in Nat
  BY CapacityIs
<1>2. i \in D \ C /\ ~(Cardinality(T) >= Capacity)
  BY DEF Crowding
<1>3. Shows(p.v, p.text, N, i)
  BY <1>2 DEF Tree
<1>4. IsFiniteSet(T) /\ Cardinality(T) \in Nat
  <2>1. IsFiniteSet(N) /\ T \in SUBSET N
    BY FiniteEntries DEF EntriesOf
  <2> HIDE DEF T
  <2>2. IsFiniteSet(T)
    BY <2>1, FS_Subset
  <2> QED
    BY <2>2, FS_CardinalityType
<1>5. ASSUME k >= Capacity
      PROVE  FALSE
  <2>1. ASSUME NEW l \in K
        PROVE  Num(p.text, i, l) # 0 /\ pick(l) \in T /\ pick(l)[3] = Num(p.text, i, l)
    <3>1. l \in 0 .. k - 1
      BY <1>1, <1>5
    <3>2. Num(p.text, i, l) # 0
      BY <3>1
    <3>3. \E e \in T : e[3] = Num(p.text, i, l)
      BY <1>3, <3>2 DEF Shows
    <3> HIDE DEF T
    <3> QED
      BY <3>2, <3>3
  <2> HIDE DEF pick, T
  <2>2. f \in [K -> T]
    BY <2>1
  <2>3. \A x, y \in K : f[x] = f[y] => x = y
    <3> SUFFICES ASSUME NEW x \in K, NEW y \in K, f[x] = f[y]
                 PROVE  x = y
      OBVIOUS
    <3>1. Num(p.text, i, x) = Num(p.text, i, y) /\ Num(p.text, i, x) # 0
      BY <2>1
    <3> QED
      BY <1>3, <3>1 DEF Shows
  <2> HIDE DEF f
  <2>4. f \in Injection(K, T)
    BY <2>2, <2>3 DEF Injection, IsInjective
  <2>5. Cardinality(K) <= Cardinality(T)
    <3> HIDE DEF K
    <3> QED
      BY <1>4, <2>4, FS_Injection
  <2>6. Cardinality(K) = Capacity
    <3>1. Cardinality(0 .. Capacity - 1) = IF 0 > Capacity - 1 THEN 0 ELSE Capacity - 1 - 0 + 1
      BY <1>1, FS_Interval
    <3> QED
      BY <1>1, <3>1
  <2> HIDE DEF K
  <2> QED
    BY <1>1, <1>2, <1>4, <2>5, <2>6 DEF T
<1> QED
  BY <1>1, <1>5

\* One entry more: b is named in i, and what it is called is shown there or not known.
LEMMA OneMore ==
    ASSUME NEW p, NEW r, NEW I, NEW D, NEW N, NEW C, Tree(p, I, D, N, C), Quiet(r, I, D),
           After(p, r, I), NEW i \in D, NEW b \in I, \A e \in N : e[3] # b,
           NEW m \in Name \cup {0}, NEW k \in Nat, Renumbers(p, r, I, i, k, b),
           \A l \in 0 .. k - 1 : Num(p.text, i, l) # 0,
           k \in 0 .. Capacity - 1 /\ i \notin C /\ r.v.nb # 0 =>
               /\ Num(p.text, i, k) = 0 /\ Stored(m) \in {0, Nam(r.text, i, k)}
               /\ (k + 1) * E <= r.v.disk[i].taille * S
    PROVE  Tree(r, I, D, N \cup {<<i, m, b>>}, Crowding(N, C, i))
<1> DEFINE M == N \cup {<<i, m, b>>}
           B == Crowding(N, C, i)
<1>1. /\ Calm(p, I, D) /\ Calm(r, I, D) /\ D \subseteq I /\ Root \in D /\ C \subseteq D
      /\ N \subseteq D \X (Name \cup {0}) \X I
  BY DEF Tree, Quiet, Calm
<1>2. B \subseteq D /\ C \subseteq B
  BY <1>1 DEF Crowding
<1>3. M \subseteq D \X (Name \cup {0}) \X I
  BY <1>1
<1>4. \A e, g \in M : e[3] = g[3] => e = g
  <2>1. <<i, m, b>>[3] = b
    OBVIOUS
  <2>2. \A e, g \in N : e[3] = g[3] => e = g
    BY DEF Tree
  <2> QED
    BY <2>1, <2>2
<1>5. \A j : EntriesOf(N, j) \subseteq EntriesOf(M, j)
  BY DEF EntriesOf
<1>6. \A j : j # i => EntriesOf(M, j) = EntriesOf(N, j)
  BY DEF EntriesOf
<1>7. EntriesOf(M, i) = EntriesOf(N, i) \cup {<<i, m, b>>} /\ <<i, m, b>>[3] = b
      /\ <<i, m, b>>[2] = m
  BY DEF EntriesOf
<1> HIDE DEF M
<1>8. ASSUME r.v.nb # 0, NEW j \in D \ B
      PROVE  Shows(r.v, r.text, M, j)
  <2>1. p.v.nb # 0 /\ j \in D \ C /\ j \in I
    BY <1>1, <1>2, <1>8, StillSome
  <2>2. Shows(p.v, p.text, N, j)
    BY <2>1 DEF Tree
  <2>3. \A l \in 0 .. Capacity - 1 :
           /\ Num(r.text, j, l) = IF j = i /\ l = k THEN b ELSE Num(p.text, j, l)
           /\ j # i \/ l # k => Nam(r.text, j, l) = Nam(p.text, j, l)
    BY <1>8, <2>1 DEF Renumbers
  <2>4. \A l \in 0 .. Capacity - 1 :
            (l + 1) * E <= p.v.disk[j].taille * S => (l + 1) * E <= r.v.disk[j].taille * S
    BY <1>1, ShowsOn, CapacityIs
  <2>5. CASE j # i
    BY <1>6, <2>2, <2>3, <2>4, <2>5 DEF Shows
  <2>6. CASE j = i
    <3>1. k \in 0 .. Capacity - 1
      BY <1>8, <2>1, <2>6, FreeEntry
    <3>2. /\ Num(p.text, i, k) = 0 /\ Stored(m) \in {0, Nam(r.text, i, k)}
          /\ (k + 1) * E <= r.v.disk[i].taille * S
      BY <1>8, <2>1, <2>6, <3>1
    <3>3. b # 0
      <4>1. Files(p.v, I)
        BY <1>1 DEF Calm, Lives, Good
      <4> QED
        BY <4>1, InodeType
    <3>4. ASSUME NEW l \in 0 .. Capacity - 1, Num(r.text, i, l) # 0
          PROVE  /\ (l + 1) * E <= r.v.disk[i].taille * S
                 /\ \E e \in EntriesOf(M, i) :
                        e[3] = Num(r.text, i, l) /\ Stored(e[2]) \in {0, Nam(r.text, i, l)}
      <4>1. CASE l = k
        BY <1>7, <2>3, <2>6, <3>2, <4>1
      <4>2. CASE l # k
        <5>1. Num(r.text, i, l) = Num(p.text, i, l) /\ Nam(r.text, i, l) = Nam(p.text, i, l)
          BY <2>3, <2>6, <4>2
        <5>2. /\ (l + 1) * E <= p.v.disk[i].taille * S
              /\ \E e \in EntriesOf(N, i) :
                     e[3] = Num(p.text, i, l) /\ Stored(e[2]) \in {0, Nam(p.text, i, l)}
          BY <2>2, <2>6, <3>4, <5>1 DEF Shows
        <5> QED
          BY <1>5, <2>4, <2>6, <5>1, <5>2
      <4> QED
        BY <4>1, <4>2
    <3>5. ASSUME NEW e \in EntriesOf(M, i)
          PROVE  \E l \in 0 .. Capacity - 1 : Num(r.text, i, l) = e[3]
      <4>1. CASE e = <<i, m, b>>
        BY <1>7, <2>3, <2>6, <3>1, <4>1
      <4>2. CASE e \in EntriesOf(N, i)
        <5>1. PICK l \in 0 .. Capacity - 1 : Num(p.text, i, l) = e[3]
          BY <2>2, <2>6, <4>2 DEF Shows
        <5>2. e[3] # 0
          BY <4>2, EntryIs DEF EntriesOf
        <5>3. l # k
          BY <3>2, <5>1, <5>2
        <5>4. Num(r.text, i, l) = e[3]
          BY <2>3, <2>6, <5>1, <5>3
        <5> QED
          BY <5>4
      <4> QED
        BY <1>7, <4>1, <4>2
    <3>6. ASSUME NEW x \in 0 .. Capacity - 1, NEW y \in 0 .. Capacity - 1,
                 Num(r.text, i, x) # 0, Num(r.text, i, x) = Num(r.text, i, y)
          PROVE  x = y
      <4>1. \A l \in 0 .. Capacity - 1 : Num(p.text, i, l) # b
        <5> SUFFICES ASSUME NEW l \in 0 .. Capacity - 1, Num(p.text, i, l) = b
                     PROVE  FALSE
          OBVIOUS
        <5>1. \E e \in EntriesOf(N, i) : e[3] = b
          BY <2>2, <2>6, <3>3 DEF Shows
        <5> QED
          BY <5>1 DEF EntriesOf
      <4>2. /\ Num(r.text, i, x) = IF x = k THEN b ELSE Num(p.text, i, x)
            /\ Num(r.text, i, y) = IF y = k THEN b ELSE Num(p.text, i, y)
        BY <2>3, <2>6
      <4>3. Num(p.text, i, x) # 0 /\ Num(p.text, i, x) = Num(p.text, i, y) => x = y
        BY <2>2, <2>6 DEF Shows
      <4> QED
        BY <3>6, <4>1, <4>2, <4>3
    <3> QED
      BY <2>6, <3>4, <3>5, <3>6 DEF Shows
  <2> QED
    BY <2>5, <2>6
<1> QED
  BY <1>1, <1>2, <1>3, <1>4, <1>8 DEF Tree, M

\* One entry less: that of the number that was there.
LEMMA OneLess ==
    ASSUME NEW p, NEW r, NEW I, NEW D, NEW N, NEW C, Tree(p, I, D, N, C), Quiet(r, I, D),
           After(p, r, I), NEW i \in D, NEW k \in 0 .. Capacity - 1,
           Renumbers(p, r, I, i, k, 0), NEW M,
           M = N \ {e \in EntriesOf(N, i) : e[3] = Num(p.text, i, k)}
    PROVE  Tree(r, I, D, M, C)
<1>1. /\ Calm(p, I, D) /\ Calm(r, I, D) /\ D \subseteq I /\ Root \in D /\ C \subseteq D
      /\ N \subseteq D \X (Name \cup {0}) \X I /\ M \subseteq N
      /\ \A e, g \in N : e[3] = g[3] => e = g
  BY DEF Tree, Quiet, Calm
<1>2. \A j : j # i => EntriesOf(M, j) = EntriesOf(N, j)
  BY DEF EntriesOf
<1>3. EntriesOf(M, i) = {e \in EntriesOf(N, i) : e[3] # Num(p.text, i, k)}
  BY DEF EntriesOf
<1>4. ASSUME r.v.nb # 0, NEW j \in D \ C
      PROVE  Shows(r.v, r.text, M, j)
  <2>1. p.v.nb # 0 /\ j \in I
    BY <1>1, <1>4, StillSome
  <2>2. Shows(p.v, p.text, N, j)
    BY <2>1 DEF Tree
  <2>3. \A l \in 0 .. Capacity - 1 :
           /\ Num(r.text, j, l) = IF j = i /\ l = k THEN 0 ELSE Num(p.text, j, l)
           /\ j # i \/ l # k => Nam(r.text, j, l) = Nam(p.text, j, l)
    BY <1>4, <2>1 DEF Renumbers
  <2>4. \A l \in 0 .. Capacity - 1 :
            (l + 1) * E <= p.v.disk[j].taille * S => (l + 1) * E <= r.v.disk[j].taille * S
    BY <1>1, ShowsOn, CapacityIs
  <2>5. CASE j # i
    BY <1>2, <2>2, <2>3, <2>4, <2>5 DEF Shows
  <2>6. CASE j = i
    <3>1. ASSUME NEW l \in 0 .. Capacity - 1, Num(r.text, i, l) # 0
          PROVE  /\ (l + 1) * E <= r.v.disk[i].taille * S
                 /\ \E e \in EntriesOf(M, i) :
                        e[3] = Num(r.text, i, l) /\ Stored(e[2]) \in {0, Nam(r.text, i, l)}
      <4>1. l # k /\ Num(r.text, i, l) = Num(p.text, i, l)
            /\ Nam(r.text, i, l) = Nam(p.text, i, l)
        BY <2>3, <2>6, <3>1
      <4>2. PICK e \in EntriesOf(N, i) :
                     e[3] = Num(p.text, i, l) /\ Stored(e[2]) \in {0, Nam(p.text, i, l)}
        BY <2>2, <2>6, <3>1, <4>1 DEF Shows
      <4>3. e[3] # Num(p.text, i, k)
        BY <2>2, <2>6, <3>1, <4>1, <4>2 DEF Shows
      <4>4. (l + 1) * E <= r.v.disk[i].taille * S
        BY <2>2, <2>4, <2>6, <3>1, <4>1 DEF Shows
      <4> QED
        BY <1>3, <4>1, <4>2, <4>3, <4>4
    <3>2. ASSUME NEW e \in EntriesOf(M, i)
          PROVE  \E l \in 0 .. Capacity - 1 : Num(r.text, i, l) = e[3]
      <4>1. e \in EntriesOf(N, i) /\ e[3] # Num(p.text, i, k)
        BY <1>3
      <4>2. PICK l \in 0 .. Capacity - 1 : Num(p.text, i, l) = e[3]
        BY <2>2, <2>6, <4>1 DEF Shows
      <4>3. l # k
        BY <4>1, <4>2
      <4> QED
        BY <2>3, <2>6, <4>2, <4>3
    <3>3. ASSUME NEW x \in 0 .. Capacity - 1, NEW y \in 0 .. Capacity - 1,
                 Num(r.text, i, x) # 0, Num(r.text, i, x) = Num(r.text, i, y)
          PROVE  x = y
      <4>1. Num(p.text, i, x) # 0 /\ Num(p.text, i, x) = Num(p.text, i, y)
        BY <2>3, <2>6, <3>3
      <4> QED
        BY <2>2, <2>6, <4>1 DEF Shows
    <3> QED
      BY <2>6, <3>1, <3>2, <3>3 DEF Shows
  <2> QED
    BY <2>5, <2>6
<1> QED
  BY <1>1, <1>4 DEF Tree

\* What was written, with one file more.
WithBlank(told, J, b) == [j \in J |-> IF j = b THEN [f \in Index |-> Zeros] ELSE told[j]]

\* create_inode: one file more, a directory or not, with no entry.
LEMMA OneFileMore ==
    ASSUME NEW p, NEW r, NEW I, NEW D, NEW N, NEW C, Tree(p, I, D, N, C), NEW b, b \notin I,
           NEW J, J = I \cup {b}, NEW G, G \in {D, D \cup {b}}, Quiet(r, J, G), After(p, r, I),
           r.v.nb # 0 => p.v.nb # 0,
           r.text = WithBlank(p.text, J, b)
    PROVE  Tree(r, J, G, N, C)
<1>1. /\ Calm(p, I, D) /\ Calm(r, J, G) /\ D \subseteq I /\ Root \in D /\ C \subseteq D
      /\ N \subseteq D \X (Name \cup {0}) \X I
      /\ \A e, g \in N : e[3] = g[3] => e = g
  BY DEF Tree, Quiet, Calm
<1>2. N \subseteq G \X (Name \cup {0}) \X J /\ D \subseteq G /\ I \subseteq J
  <2>1. D \subseteq G /\ I \subseteq J
    OBVIOUS
  <2> QED
    BY <1>1, <2>1
<1>3. ASSUME r.v.nb # 0, NEW j \in G \ C
      PROVE  Shows(r.v, r.text, N, j)
  <2>1. CASE j \in D
    <3>1. Shows(p.v, p.text, N, j) /\ j \in I
      BY <1>1, <1>3, <2>1 DEF Tree
    <3>2. r.text[j] = p.text[j]
      BY <3>1 DEF WithBlank
    <3>3. \A l : Num(r.text, j, l) = Num(p.text, j, l) /\ Nam(r.text, j, l) = Nam(p.text, j, l)
      BY <3>2 DEF Num, Nam, ByteOf
    <3>4. Sized(p.v, j) /\ Good(p.v, I, {}) /\ Good(r.v, J, {}) /\ Sized(r.v, j)
      BY <1>1, <1>2, <2>1 DEF Calm, Lives
    <3>5. p.v.disk[j].taille \in Nat /\ r.v.disk[j].taille \in Nat
      BY <1>2, <3>1, <3>4, SizedType
    <3>6. p.v.disk[j].taille <= r.v.disk[j].taille
      BY <3>1, <3>4, <3>5 DEF After, Widens
    <3> DEFINE x == p.v.disk[j].taille
               y == r.v.disk[j].taille
    <3> HIDE DEF x, y
    <3>7. x * S <= y * S /\ x * S \in Nat /\ y * S \in Nat
      BY <3>5, <3>6, DirSizes DEF x, y
    <3>8. ASSUME NEW l \in 0 .. Capacity - 1, (l + 1) * E <= p.v.disk[j].taille * S
          PROVE  (l + 1) * E <= r.v.disk[j].taille * S
      <4> DEFINE a == (l + 1) * E
                 c == x * S
                 g == y * S
      <4> HIDE DEF a, c, g
      <4>1. a \in Nat /\ c \in Nat /\ g \in Nat /\ a <= c /\ c <= g
        BY <3>7, <3>8, EntryAt, CapacityIs DEF a, c, g, x
      <4>2. a <= g
        BY <4>1
      <4> QED
        BY <4>2 DEF a, g, y
    <3> QED
      BY <3>1, <3>3, <3>8 DEF Shows
  <2>2. CASE j = b
    <3>1. r.text[b] = [f \in Index |-> Zeros]
      BY DEF WithBlank
    <3>2. ASSUME NEW l \in 0 .. Capacity - 1
          PROVE  Num(r.text, b, l) = 0
      <4>1. l * E \in 0 .. MaxPos - 1 /\ l * E \in Nat
        BY CapacityIs, EntryAt
      <4>2. Fbloc(l * E) \in Index /\ (l * E) % S \in 0 .. S - 1
        BY <4>1, Positions, BlocOf DEF Index
      <4> DEFINE f == Fbloc(l * E)
                 c == (l * E) % S
      <4> HIDE DEF f, c
      <4>3. r.text[b][f] = Zeros /\ Zeros[c] = 0
        BY <3>1, <4>2 DEF Zeros, f, c
      <4> QED
        BY <4>3 DEF Num, ByteOf, f, c
    <3>3. EntriesOf(N, b) = {}
      BY <1>1 DEF EntriesOf
    <3> QED
      BY <2>2, <3>2, <3>3 DEF Shows
  <2> QED
    BY <2>1, <2>2
<1> QED
  BY <1>1, <1>2, <1>3 DEF Tree

\* create_inode, when there is no bloc left: it goes to bloc 0.
LEMMA CreatedNone ==
    ASSUME NEW p, NEW I, NEW D, Quiet(p, I, D), p.v.end = "none", NEW n, n = NewBloc(p.v),
           n.b = 0
    PROVE  LET r == Created(n, p)
           IN  Quiet(r, I, D) /\ After(p, r, I) /\ r.v.nb = 0
<1> DEFINE r == Created(n, p)
           w == Put(n.v, 0, EmptyInode)
<1>1. /\ Calm(p, I, D) /\ Lives(p, I, {}) /\ Good(p.v, I, {}) /\ ~p.v.gave
      /\ \A e \in Fd : ~p.fd[e].open
      /\ p.text \in [I -> [Index -> Bytes]] /\ D \subseteq I /\ \A j \in D : Sized(p.v, j)
  BY DEF Quiet, Calm, Lives
<1>2. /\ n.v.end = "none" /\ n.v.gave = FALSE /\ Given(n.v, I, 0) /\ n.v \in Volume
      /\ 0 \notin I /\ \A j \in I : n.v.disk[j] = p.v.disk[j]
  BY <1>1, NewBlocNear
<1>3. Good(n.v, I, {}) /\ n.v.nb = 0
  <2>1. {0} \ {0} = {}
    OBVIOUS
  <2> QED
    BY <1>2, <2>1 DEF Given
<1>4. Good(w, I, {}) /\ Same(n.v, w) /\ Untouched(n.v, w, I)
  BY <1>3, InodeAtZero
<1>5. r.v = w /\ r.fd = p.fd /\ r.text = p.text /\ r = [v |-> r.v, fd |-> r.fd, text |-> r.text]
  BY <1>2 DEF Created, Then
<1>6. Keeps(p.v, w, I)
  <2>1. Keeps(p.v, n.v, I)
    BY <1>1, NewBlocs
  <2>2. Keeps(n.v, w, I)
    BY <1>3, <1>4, UntouchedHolds DEF Same
  <2> QED
    BY <2>1, <2>2, KeepsOn
<1>7. \A j \in I : w.disk[j] = p.v.disk[j]
  BY <1>2, <1>4 DEF Untouched
<1> HIDE DEF w
<1>8. Lives(r, I, {})
  <2>1. PICK J : Lives(r, J, {})
    BY <1>1, CreateLives
  <2>2. r.text \in [J -> [Index -> Bytes]]
    BY <2>1 DEF Lives
  <2>3. J = I
    BY <1>1, <1>5, <2>2
  <2> QED
    BY <2>1, <2>3
<1>9. Widens(p.v, w, I)
  BY <1>1, <1>7, WidensSelf
<1>10. \A j \in D : Sized(w, j)
  BY <1>1, <1>9 DEF Widens
<1>11. w.nb = 0 /\ w.end = "none" /\ w.gave = FALSE
  BY <1>2, <1>3, <1>4 DEF Same
<1> HIDE DEF r
<1>12. Calm(r, I, D)
  BY <1>1, <1>5, <1>8, <1>10, <1>11 DEF Calm
<1> QED
  BY <1>1, <1>5, <1>6, <1>9, <1>11, <1>12 DEF Quiet, After, r

\* ... and on the bloc that new_bloc gave.
LEMMA CreatedOne ==
    ASSUME NEW p, NEW I, NEW D, Quiet(p, I, D), p.v.end = "none", NEW n, n = NewBloc(p.v),
           n.b # 0
    PROVE  LET r == Created(n, p)
               J == I \cup {n.b}
           IN  /\ Quiet(r, J, D) /\ Quiet(r, J, D \cup {n.b}) /\ After(p, r, I)
               /\ r.v.end = "none" /\ p.v.nb # 0 /\ n.b \notin I /\ n.b \in 1 .. W - 1
               /\ r.text = WithBlank(p.text, J, n.b)
<1> DEFINE b == n.b
           J == I \cup {b}
           r == Created(n, p)
           w == Put(n.v, b, EmptyInode)
<1>1. /\ Calm(p, I, D) /\ Lives(p, I, {}) /\ Good(p.v, I, {}) /\ ~p.v.gave
      /\ \A e \in Fd : ~p.fd[e].open
      /\ p.text \in [I -> [Index -> Bytes]] /\ D \subseteq I /\ \A j \in D : Sized(p.v, j)
  BY DEF Quiet, Calm, Lives
<1>2. /\ n.v.end = "none" /\ n.v.gave = FALSE /\ Given(n.v, I, b) /\ n.v \in Volume
      /\ b \in Bloc /\ b \notin I /\ \A j \in I : n.v.disk[j] = p.v.disk[j]
      /\ p.v.nb = 0 <=> b = 0
  BY <1>1, NewBlocNear
<1>3. Good(w, J, {}) /\ Same(n.v, w) /\ Untouched(n.v, w, I)
  BY <1>2, InodeAt
<1>4. /\ r.v = w /\ r.fd = p.fd /\ r = [v |-> r.v, fd |-> r.fd, text |-> r.text]
      /\ r.text = WithBlank(p.text, J, b)
  BY <1>1, <1>2 DEF Created, Then, WithBlank
<1>5. Keeps(p.v, w, I)
  <2>1. Keeps(p.v, n.v, I)
    BY <1>1, NewBlocs
  <2>2. Keeps(n.v, w, I)
    BY <1>3, UntouchedHolds DEF Same
  <2> QED
    BY <2>1, <2>2, KeepsOn
<1>6. \A j \in I : w.disk[j] = p.v.disk[j]
  BY <1>2, <1>3 DEF Untouched
<1>7. w.disk[b] = EmptyInode
  <2>1. EmptyInode \in Sector
    BY SectorKinds
  <2> QED
    BY <1>2, <2>1, PutIn
<1> HIDE DEF w
<1>8. Lives(r, J, {})
  <2>1. PICK K : Lives(r, K, {})
    BY <1>1, CreateLives
  <2>2. r.text \in [K -> [Index -> Bytes]]
    BY <2>1 DEF Lives
  <2>3. K = J
    BY <1>4, <2>2 DEF WithBlank
  <2> QED
    BY <2>1, <2>3
<1>9. Widens(p.v, w, I)
  BY <1>1, <1>6, WidensSelf
<1>10. \A j \in D \cup {b} : Sized(w, j)
  <2>1. \A j \in D : Sized(w, j)
    BY <1>1, <1>9 DEF Widens
  <2>2. Sized(w, b)
    BY <1>7, DirSizes DEF Sized, EmptyInode
  <2> QED
    BY <2>1, <2>2
<1>11. w.end = "none" /\ w.gave = FALSE
  BY <1>2, <1>3 DEF Same
<1>12. b \in 1 .. W - 1
  <2>1. b \in 1 .. NSector - 1
    <3>1. Files(w, J) /\ b \in J
      BY <1>3 DEF Good
    <3> QED
      BY <3>1, InodeType
  <2> QED
    BY <2>1, DirSizes
<1> HIDE DEF r
<1>13. Calm(r, J, D) /\ Calm(r, J, D \cup {b})
  BY <1>1, <1>4, <1>8, <1>10, <1>11 DEF Calm
<1> QED
  BY <1>1, <1>2, <1>4, <1>5, <1>9, <1>11, <1>12, <1>13 DEF Quiet, After, r

-----------------------------------------------------------------------------
(* add_entry and del_entry.                                                 *)

\* Where a search ends.
LEMMA LookAt ==
    ASSUME NEW p, NEW I, NEW D, Quiet(p, I, D), p.v.end = "none", NEW d \in Fd, NEW i \in D,
           NEW name
    PROVE  LET q == Look(Iopen(p, d, i), d, name)
               z == p.v.disk[i].taille * S
           IN  /\ q.ientry \in Nat /\ q.found \in BOOLEAN /\ z \in Nat
               /\ \A l \in 0 .. q.ientry - 1 : ~Wants(p.text, i, l, name)
               /\ q.found => Wants(p.text, i, q.ientry, name) /\ (q.ientry + 1) * E <= z
               /\ q.p.v.end = "none" /\ ~q.found => (q.ientry + 1) * E > z
<1> DEFINE o == Iopen(p, d, i)
           q == Look(o, d, name)
<1>1. /\ Looked(o, q, I, D, d, i, name) /\ o.text = p.text
      /\ o.fd[d].size = p.v.disk[i].taille
      /\ q.p.v.end = "none" => ~q.on
  BY FindLooks
<1>2. p.v.disk[i].taille * S \in Nat
  <2>1. Good(p.v, I, {}) /\ i \in I
    BY CalmGood DEF Quiet, Calm
  <2> QED
    BY <2>1, SizedType, DirSizes
<1> HIDE DEF o, q
<1>3. /\ q.ientry \in Nat /\ q.found \in BOOLEAN
      /\ \A l \in 0 .. q.ientry - 1 : ~Wants(p.text, i, l, name)
      /\ q.found => Wants(p.text, i, q.ientry, name)
                    /\ (q.ientry + 1) * E <= p.v.disk[i].taille * S
      /\ q.p.v.end = "none" /\ ~q.on /\ ~q.found =>
            (q.ientry + 1) * E > p.v.disk[i].taille * S
  BY <1>1 DEF Looked
<1> QED
  BY <1>1, <1>2, <1>3 DEF q, o

\* Once a directory was searched, its entry there is replaced.
LEMMA PutAt ==
    ASSUME NEW p, NEW I, NEW D, Quiet(p, I, D), p.v.end = "none", NEW d \in Fd, NEW i \in D,
           NEW other, NEW m \in 0 .. W - 1, NEW name \in 0 .. W - 1
    PROVE  LET q == Look(Iopen(p, d, i), d, other)
               r == PutEntry(q, d, m, name)
           IN  /\ Replaces(p, r, I, D, i, q.ientry, m, name)
               /\ r.v.nb # 0 => q.p.v.end = "none" /\ r.v.end = "none"
<1> DEFINE o == Iopen(p, d, i)
           q == Look(o, d, other)
           r == PutEntry(q, d, m, name)
<1>1. /\ Reader(o, I, D, d, i) /\ After(p, o, I) /\ o.text = p.text
      /\ o.fd[d].size = p.v.disk[i].taille
      /\ Looked(o, q, I, D, d, i, other)
  BY FindLooks
<1> HIDE DEF o, q
<1>2. /\ Replaces(o, r, I, D, i, q.ientry, m, name)
      /\ r.v.nb # 0 => q.p.v.end = "none" /\ r.v.end = "none"
  BY <1>1, PutReplaces
<1> HIDE DEF r
<1>3. Quiet(r, I, D) /\ Calm(r, I, D) /\ After(o, r, I) /\ Calm(p, I, D) /\ Calm(o, I, D)
  BY <1>1, <1>2 DEF Replaces, Quiet, Reader, Busy
<1>4. After(p, r, I)
  BY <1>1, <1>3, AfterOn
<1>5. Replaces(p, r, I, D, i, q.ientry, m, name)
  BY <1>1, <1>2, <1>3, <1>4 DEF Replaces
<1> QED
  BY <1>2, <1>5 DEF r, q, o

\* The size of the directory covers an entry that was written.
LEMMA EntryCovered ==
    ASSUME NEW p, NEW r, NEW I, NEW D, NEW i \in D, NEW k \in 0 .. Capacity - 1, NEW m,
           NEW name, m # 0, Replaces(p, r, I, D, i, k, m, name), r.v.nb # 0
    PROVE  (k + 1) * E <= r.v.disk[i].taille * S
<1> DEFINE x == k * E + E - 1
           c == k * E
<1>1. /\ k \in Nat /\ c \in 0 .. MaxPos - 1 /\ Fbloc(c) \in 0 .. NB /\ Fbloc(x) \in 0 .. NB
      /\ c \in Nat /\ x \in Nat /\ c <= x /\ x + 1 = (k + 1) * E
  <2>1. k \in Nat /\ c \in 0 .. MaxPos - 1 /\ Fbloc(c) \in 0 .. NB /\ Fbloc(x) \in 0 .. NB
    BY CapacityIs
  <2>2. c \in Nat /\ (k + 1) * E = c + E
    BY <2>1, EntryAt
  <2>3. x = c + E - 1
    OBVIOUS
  <2> HIDE DEF c, x
  <2>4. x \in Nat /\ c <= x /\ x + 1 = c + E
    BY <2>2, <2>3, DirSizes
  <2> QED
    BY <2>1, <2>2, <2>4
<1>2. /\ Quiet(r, I, D) /\ Calm(r, I, D) /\ Good(r.v, I, {}) /\ i \in I /\ Sized(r.v, i)
      /\ r.v.end = "none" /\ \A d \in Fd : ~r.fd[d].open
  <2>1. Quiet(r, I, D) /\ Calm(r, I, D)
    BY DEF Replaces, Quiet
  <2>2. Good(r.v, I, {}) /\ r.v.end = "none"
    BY <2>1, CalmGood
  <2> QED
    BY <2>1, <2>2 DEF Quiet, Calm
<1>3. At2(r.v, i, Fbloc(x)) # 0
  <2>1. CASE Fbloc(x) = 0
    <3>1. Fbloc(c) = 0
      <4>1. Fbloc(c) <= Fbloc(x)
        BY <1>1, BlocsInOrder
      <4> QED
        BY <1>1, <2>1, <4>1
    <3>2. ByteOf(r.text, i, c) = m
      <4>1. c \in k * E .. k * E + E - 1 /\ Byte(c - k * E + 1, m, name) = m
        <5>1. k * E = c
          OBVIOUS
        <5> HIDE DEF c
        <5>2. c \in c .. c + E - 1 /\ c - c + 1 = 1
          BY <1>1, DirSizes
        <5> QED
          BY <5>1, <5>2 DEF Byte
      <4> HIDE DEF c
      <4> QED
        BY <1>1, <1>2, <4>1 DEF Replaces
    <3> HIDE DEF c
    <3>3. Fbloc(c) \in 0 .. 2 * NB - 1
      BY <3>1, DirSizes
    <3>4. \A d \in Fd : ~On(r.fd[d], i, Fbloc(c))
      BY <1>2 DEF On
    <3> QED
      BY <1>1, <1>2, <2>1, <3>1, <3>2, <3>3, <3>4, ByteHasBloc
  <2>2. CASE Fbloc(x) # 0
    BY <2>2 DEF Replaces
  <2> QED
    BY <2>1, <2>2
<1> HIDE DEF x, c
<1>4. x < r.v.disk[i].taille * S
  BY <1>1, <1>2, <1>3, SizeCoversByte
<1>5. r.v.disk[i].taille * S \in Nat
  BY <1>2, SizedType, DirSizes
<1> DEFINE z == r.v.disk[i].taille * S
           e == (k + 1) * E
<1>6. e \in Nat /\ x + 1 = e /\ x < z /\ z \in Nat
  BY <1>1, <1>4, <1>5
<1> HIDE DEF z, e
<1>7. e <= z
  BY <1>1, <1>6
<1> QED
  BY <1>7 DEF z, e

\* A process that is over has a full volume, and nothing is said of its directories.
LEMMA TreeOver ==
    ASSUME NEW p, NEW q, NEW I, NEW D, NEW N, NEW C, NEW M, NEW B, Tree(p, I, D, N, C),
           Quiet(q, I, D), q.v.nb = 0, B \subseteq D, M \subseteq D \X (Name \cup {0}) \X I,
           \A e, g \in M : e[3] = g[3] => e = g
    PROVE  Tree(q, I, D, M, B)
BY DEF Tree

LEMMA Renumbered ==
    ASSUME NEW p, NEW r, NEW I, NEW D, NEW i, NEW k \in Nat, NEW m, NEW name,
           Replaces(p, r, I, D, i, k, m, name)
    PROVE  Renumbers(p, r, I, i, k, m)
BY EntryReplaced DEF Renumbers

LEMMA CrowdingIs ==
    ASSUME NEW N, NEW D, NEW C, C \subseteq D, NEW i \in D
    PROVE  C \subseteq Crowding(N, C, i) /\ Crowding(N, C, i) \subseteq D
BY DEF Crowding

\* The search of a free entry stops past the entries that are taken, and when there is
\* none, past the size.
LEMMA FreeAt ==
    ASSUME NEW p, NEW I, NEW D, NEW N, NEW C, Tree(p, I, D, N, C), p.v.end = "none",
           NEW d \in Fd, NEW i \in D
    PROVE  LET q == Look(Iopen(p, d, i), d, 0)
           IN  /\ \A l \in 0 .. q.ientry - 1 : Num(p.text, i, l) # 0
               /\ (/\ q.ientry \in 0 .. Capacity - 1 /\ i \notin C
                   /\ p.v.nb # 0 /\ q.p.v.end = "none") => Num(p.text, i, q.ientry) = 0
<1> DEFINE q == Look(Iopen(p, d, i), d, 0)
           k == q.ientry
           z == p.v.disk[i].taille * S
<1>1. /\ k \in Nat /\ q.found \in BOOLEAN
      /\ \A l \in 0 .. k - 1 : ~Wants(p.text, i, l, 0)
      /\ q.found => Wants(p.text, i, k, 0)
      /\ q.p.v.end = "none" /\ ~q.found => (k + 1) * E > z
  <2>1. Quiet(p, I, D)
    BY DEF Tree
  <2> QED
    BY <2>1, LookAt
<1>2. z \in Nat
  <2>1. Good(p.v, I, {}) /\ i \in I
    BY CalmGood DEF Tree, Quiet, Calm
  <2> QED
    BY <2>1, SizedType, DirSizes
<1> HIDE DEF q, z
<1>3. \A l \in 0 .. k - 1 : Num(p.text, i, l) # 0
  BY <1>1 DEF Wants, Wanted
<1>4. ASSUME k \in 0 .. Capacity - 1, i \notin C, p.v.nb # 0, q.p.v.end = "none",
             Num(p.text, i, k) # 0
      PROVE  FALSE
  <2>1. (k + 1) * E <= z
    BY <1>4 DEF Tree, Shows, z
  <2>2. ~q.found
    BY <1>1, <1>4 DEF Wants, Wanted
  <2>3. (k + 1) * E \in Nat /\ (k + 1) * E > z
    BY <1>1, <1>4, <2>2, EntryAt
  <2> DEFINE e == (k + 1) * E
  <2> HIDE DEF e
  <2>4. e \in Nat /\ e > z /\ e <= z
    BY <2>1, <2>3 DEF e
  <2> QED
    BY <1>2, <2>4
<1> QED
  BY <1>3, <1>4 DEF q

\* add_entry: an entry more, unless the process is over.
LEMMA AddedTree ==
    ASSUME NEW p, NEW I, NEW D, NEW N, NEW C, Tree(p, I, D, N, C), p.v.end = "none",
           NEW d \in Fd, NEW i \in D, NEW b \in I, b \in 1 .. W - 1,
           \A e \in N : e[3] # b, NEW name \in Name
    PROVE  LET r == AddEntry(p, d, i, b, name)
           IN  /\ r.v.end = "none" => Tree(r, I, D, N \cup {<<i, name, b>>}, Crowding(N, C, i))
               /\ r.v.end # "none" => Tree(r, I, D, N, Crowding(N, C, i))
<1> DEFINE q == Look(Iopen(p, d, i), d, 0)
           c == Stored(name)
           r == PutEntry(q, d, b, c)
           k == q.ientry
<1>1. c \in 1 .. W - 1 /\ c \in 0 .. W - 1 /\ b \in 0 .. W - 1 /\ Quiet(p, I, D)
  BY StoredIs, DirSizes DEF Tree
<1>2. r = AddEntry(p, d, i, b, name)
  BY DEF AddEntry, NewEntry
<1>3. /\ k \in Nat /\ Replaces(p, r, I, D, i, k, b, c)
      /\ r.v.nb # 0 => q.p.v.end = "none" /\ r.v.end = "none"
  <2>1. k \in Nat
    BY <1>1, LookAt
  <2> QED
    BY <1>1, <2>1, PutAt
<1>4. /\ \A l \in 0 .. k - 1 : Num(p.text, i, l) # 0
      /\ (k \in 0 .. Capacity - 1 /\ i \notin C /\ p.v.nb # 0 /\ q.p.v.end = "none") =>
            Num(p.text, i, k) = 0
  BY FreeAt
<1> HIDE DEF q, r
<1>5. Quiet(r, I, D) /\ After(p, r, I) /\ Renumbers(p, r, I, i, k, b)
  BY <1>3, Renumbered DEF Replaces
<1>6. ASSUME k \in 0 .. Capacity - 1, r.v.nb # 0
      PROVE  /\ Stored(name) \in {0, Nam(r.text, i, k)} /\ (k + 1) * E <= r.v.disk[i].taille * S
             /\ p.v.nb # 0
  <2>1. (k + 1) * E <= r.v.disk[i].taille * S
    BY <1>3, <1>6, EntryCovered, DirSizes
  <2>2. Nam(r.text, i, k) = c
    <3>1. i \in I
      BY <1>1 DEF Quiet, Calm
    <3> QED
      BY <1>3, <1>6, <3>1, EntryReplaced
  <2>3. p.v.nb # 0
    BY <1>5, <1>6, StillSome DEF Quiet
  <2> QED
    BY <2>1, <2>2, <2>3
<1>7. Tree(r, I, D, N \cup {<<i, name, b>>}, Crowding(N, C, i))
  <2>1. name \in Name \cup {0}
    OBVIOUS
  <2>2. k \in 0 .. Capacity - 1 /\ i \notin C /\ r.v.nb # 0 =>
            /\ Num(p.text, i, k) = 0 /\ Stored(name) \in {0, Nam(r.text, i, k)}
            /\ (k + 1) * E <= r.v.disk[i].taille * S
    BY <1>3, <1>4, <1>6
  <2> DEFINE n == k
  <2>3. n \in Nat /\ \A l \in 0 .. n - 1 : Num(p.text, i, l) # 0
    BY <1>3, <1>4
  <2> HIDE DEF n
  <2>4. Renumbers(p, r, I, i, n, b)
    BY <1>5 DEF n
  <2>5. n \in 0 .. Capacity - 1 /\ i \notin C /\ r.v.nb # 0 =>
            /\ Num(p.text, i, n) = 0 /\ Stored(name) \in {0, Nam(r.text, i, n)}
            /\ (n + 1) * E <= r.v.disk[i].taille * S
    BY <2>2 DEF n
  <2> QED
    BY <1>5, <2>1, <2>3, <2>4, <2>5, OneMore
<1>8. ASSUME r.v.end # "none"
      PROVE  Tree(r, I, D, N, Crowding(N, C, i))
  <2>1. r.v.nb = 0
    BY <1>3, <1>8
  <2>2. Crowding(N, C, i) \subseteq D
    BY CrowdingIs DEF Tree
  <2> QED
    BY <1>5, <2>1, <2>2, TreeOver DEF Tree
<1> QED
  BY <1>2, <1>7, <1>8

-----------------------------------------------------------------------------
(* A process that stops with the first byte of an entry on the disk.        *)

\* What was said is on the disk when the buffer holds what its bloc holds.
LEMMA ForgetSame ==
    ASSUME NEW p, NEW I, NEW D, NEW d \in Fd, NEW i, Busy(p, I, D, d, i), p.v.end = "none",
           p.fd[d].buffer = HeldAt(p.v, i, At(p.fd[d]))
    PROVE  ForgetAll(p.v, p.fd, p.text) = p.text
<1> DEFINE f == At(p.fd[d])
<1>1. /\ Good(p.v, I, {}) /\ i \in I /\ p.fd[d].open /\ p.fd[d].inoeud = i
      /\ f \in 0 .. 2 * NB - 1 /\ p.text \in [I -> [Index -> Bytes]]
      /\ p.fd[d].cursor \in Nat
  BY BusyTypes
<1>2. p.text[i][f] = p.fd[d].buffer
  <2>1. SaidAt(p, i, f)
    BY <1>1 DEF Busy, Calm, Lives, Said
  <2> QED
    BY <1>1, <2>1 DEF SaidAt, On
<1>3. Content(p.v, i, f) = p.text[i][f]
  BY <1>1, <1>2, LookupNamed
<1> HIDE DEF f
<1>4. \A j \in I, g \in Index :
         (IF \E e \in Fd : p.fd[e].open /\ p.fd[e].inoeud = j /\ At(p.fd[e]) = g
          THEN Content(p.v, j, g) ELSE p.text[j][g]) = p.text[j][g]
  <2> TAKE j \in I, g \in Index
  <2>1. CASE \E e \in Fd : p.fd[e].open /\ p.fd[e].inoeud = j /\ At(p.fd[e]) = g
    <3>1. j = i /\ g = f
      BY <1>1, <2>1 DEF Busy, f
    <3> QED
      BY <1>3, <3>1
  <2> QED
    BY <2>1
<1>5. ForgetAll(p.v, p.fd, p.text) = [j \in I |-> [g \in Index |-> p.text[j][g]]]
  BY <1>1, <1>4 DEF ForgetAll
<1> QED
  BY <1>1, <1>5

\* The bloc of the end of an entry whose first byte is the last of a bloc.
LEMMA HalfInBloc ==
    ASSUME NEW k \in Nat, (k * E + 1) % S = 0
    PROVE  /\ Fbloc(k * E + 1) >= 1 /\ Fbloc(k * E + E - 1) = Fbloc(k * E + 1)
<1> DEFINE x == k * E + 1
           y == k * E + E - 1
<1>1. x \in Nat /\ y \in Nat /\ x >= 1 /\ x <= y /\ y < x + S
  <2> DEFINE c == k * E
  <2>1. c \in Nat
    BY EntryAt
  <2>2. x = c + 1 /\ y = c + E - 1
    OBVIOUS
  <2> HIDE DEF c, x, y
  <2> QED
    BY <2>1, <2>2, DirSizes
<1>2. Fbloc(x) \in Nat /\ x = S * Fbloc(x)
  <2>1. Fbloc(x) \in Nat /\ x % S \in 0 .. S - 1 /\ x = S * Fbloc(x) + (x % S)
    BY <1>1, BlocOf
  <2>2. x % S = 0
    OBVIOUS
  <2> DEFINE z == S * Fbloc(x)
  <2>3. z \in Nat
    BY <2>1, DirSizes
  <2> HIDE DEF z, x
  <2>4. x = z
    BY <2>1, <2>2, <2>3 DEF z
  <2> QED
    BY <2>1, <2>4 DEF z
<1> DEFINE c == Fbloc(x)
<1> HIDE DEF x, y
<1>3. c >= 1
  BY <1>1, <1>2, DirSizes
<1>4. Fbloc(y) <= c
  <2> HIDE DEF c
  <2>0. c \in Nat /\ x = S * c
    BY <1>2 DEF c
  <2>1. (c + 1) * S = x + S /\ c + 1 \in Nat
    BY <2>0, DirSizes
  <2>2. y < (c + 1) * S
    BY <1>1, <2>1
  <2>3. Fbloc(y) < c + 1 /\ Fbloc(y) \in Nat
    BY <1>1, <2>1, <2>2, BlocBelow, BlocOf
  <2> QED
    BY <1>2, <2>3 DEF c
<1>5. c <= Fbloc(y) /\ Fbloc(y) \in Nat
  BY <1>1, BlocsInOrder, BlocOf
<1> QED
  BY <1>2, <1>3, <1>4, <1>5 DEF x, y

\* The number of entry k is written, and nothing after it.
Halves(p, h, I, D, d, i, k, m) ==
    /\ Busy(h, I, D, d, i) /\ After(p, h, I) /\ h.v.end = "none"
    /\ h.fd[d].cursor = k * E + 1 /\ (k * E + 1) % S = 0
    /\ h.fd[d].buffer = HeldAt(h.v, i, Fbloc(k * E + 1))
    /\ h.v.nb # 0 =>
          \A j \in I, y \in 0 .. MaxPos - 1 :
              ByteOf(h.text, j, y) = IF j = i /\ y = k * E THEN m ELSE ByteOf(p.text, j, y)

LEMMA HalfHalves ==
    ASSUME NEW p, NEW I, NEW D, Quiet(p, I, D), p.v.end = "none", NEW d \in Fd, NEW i \in D,
           NEW other, NEW m \in 0 .. W - 1,
           HalfStored(Half(Look(Iopen(p, d, i), d, other), d, m), d)
    PROVE  LET q == Look(Iopen(p, d, i), d, other)
           IN  /\ Halves(p, Half(q, d, m), I, D, d, i, q.ientry, m) /\ q.p.v.end = "none"
               /\ q.ientry \in Nat
<1> DEFINE o == Iopen(p, d, i)
           q == Look(o, d, other)
           h == Half(q, d, m)
           x == q.ientry * E
           s == SeekTo(q.p, d, x)
<1>1. /\ Reader(o, I, D, d, i) /\ After(p, o, I) /\ o.text = p.text
      /\ Looked(o, q, I, D, d, i, other)
  BY FindLooks
<1>2. h = Writec(s, d, m) /\ HalfStored(h, d)
  BY DEF Half
<1> HIDE DEF o, q, h
<1>3. /\ Scans(o, s, I, D, d, i) /\ q.ientry \in Nat
      /\ s.v.end = "none" => q.p.v.end = "none" /\ s.fd[d].cursor = x
  <2>1. q.ientry \in Nat
    BY <1>1 DEF Looked
  <2> QED
    BY <1>1, <2>1, SoughtScans
<1> HIDE DEF s
<1>4. Reader(s, I, D, d, i) /\ Busy(s, I, D, d, i) /\ After(o, s, I) /\ s.text = p.text
      /\ Calm(s, I, D) /\ Calm(p, I, D) /\ Calm(o, I, D)
  BY <1>1, <1>3 DEF Scans, Reader, Busy, Quiet
<1>5. Writes(s, h, I, D, d, i, m)
  <2>1. s.fd[d].cursor + E < (NB + 2) * S /\ s.fd[d].cursor \in Nat
    BY <1>4, EntryFits, BusyTypes
  <2> DEFINE z == (NB + 2) * S
             c == s.fd[d].cursor
  <2>2. z \in Nat
    BY DirSizes
  <2> HIDE DEF z, c
  <2>3. c + 1 < z
    BY <2>1, <2>2, DirSizes DEF z, c
  <2> QED
    BY <1>2, <1>4, <2>3, WritecBusy DEF z, c
<1>6. h.v.end = "none" /\ h.fd[d].cursor % S = 0
  BY <1>2 DEF HalfStored
<1>7. s.v.end = "none" /\ s.fd[d].cursor = x /\ h.fd[d].cursor = x + 1
  BY <1>3, <1>5, <1>6 DEF Writes
<1>8. Busy(h, I, D, d, i) /\ After(s, h, I) /\ Calm(h, I, D)
      /\ h.fd[d].buffer = HeldAt(h.v, i, Fbloc(x + 1))
  BY <1>5, <1>6, <1>7 DEF Writes, Busy
<1>9. After(p, h, I)
  <2>1. After(o, h, I)
    BY <1>4, <1>8, AfterOn
  <2> QED
    BY <1>1, <1>4, <1>8, <2>1, AfterOn
<1>10. ASSUME h.v.nb # 0
       PROVE  \A j \in I, y \in 0 .. MaxPos - 1 :
                  ByteOf(h.text, j, y) = IF j = i /\ y = x THEN m ELSE ByteOf(p.text, j, y)
  BY <1>4, <1>5, <1>7, <1>10 DEF Writes
<1>11. q.p.v.end = "none"
  BY <1>3, <1>7
<1>12. (x + 1) % S = 0
  BY <1>6, <1>7
<1>13. Halves(p, h, I, D, d, i, q.ientry, m)
  BY <1>6, <1>7, <1>8, <1>9, <1>10, <1>12 DEF Halves
<1> QED
  BY <1>3, <1>11, <1>13 DEF h, q, o

\* ... and what is on the disk then.
LEMMA HalfGone ==
    ASSUME NEW p, NEW h, NEW I, NEW D, NEW d \in Fd, NEW i, NEW k \in Nat, NEW m \in 0 .. W - 1,
           Calm(p, I, D), Halves(p, h, I, D, d, i, k, m)
    PROVE  LET g == Gone(h.v, h)
           IN  /\ Quiet(g, I, D) /\ After(p, g, I) /\ Renumbers(p, g, I, i, k, m)
               /\ g.v = h.v /\ g.v.end = "none" /\ \A e \in Fd : ~g.fd[e].open
               /\ k \in 0 .. Capacity - 1 => (k + 1) * E <= g.v.disk[i].taille * S
<1> DEFINE g == Gone(h.v, h)
           x == k * E + 1
<1>1. /\ Good(h.v, I, {}) /\ i \in I /\ There(h.v, h.fd[d]) /\ Calm(h, I, D) /\ Sized(h.v, i)
      /\ h.fd[d].cursor \in Nat
  <2>1. Busy(h, I, D, d, i)
    BY DEF Halves
  <2>2. Calm(h, I, D) /\ i \in D
    BY <2>1 DEF Busy
  <2> QED
    BY <2>1, <2>2, BusyTypes DEF Calm
<1>2. h.fd[d].buffer = HeldAt(h.v, i, At(h.fd[d]))
  BY DEF Halves, At
<1>3. g.text = h.text /\ g.v = h.v /\ g.fd = [e \in Fd |-> Closed]
      /\ g = [v |-> g.v, fd |-> g.fd, text |-> g.text]
  <2>1. ForgetAll(h.v, h.fd, h.text) = h.text
    BY <1>2, ForgetSame DEF Halves
  <2> QED
    BY <2>1 DEF Gone
<1>4. AtRest(g, I, {})
  <2>1. Holds(h.v, h.v, I)
    BY DEF Holds
  <2> QED
    BY <1>1, <2>1, GoneLives DEF Calm
<1> HIDE DEF g
<1>5. Quiet(g, I, D) /\ \A e \in Fd : ~g.fd[e].open
  BY <1>1, <1>3, <1>4 DEF Quiet, Calm, AtRest, Closed
<1>6. After(p, g, I)
  BY <1>3 DEF Halves, After
<1>7. ASSUME g.v.nb # 0, NEW j \in I, NEW l \in 0 .. Capacity - 1
      PROVE  /\ Num(g.text, j, l) = IF j = i /\ l = k THEN m ELSE Num(p.text, j, l)
             /\ Nam(g.text, j, l) = Nam(p.text, j, l)
  <2>1. /\ l \in Nat /\ l * E \in 0 .. MaxPos - 1 /\ l * E + 1 \in 0 .. MaxPos - 1
    BY CapacityIs
  <2>2. \A y \in 0 .. MaxPos - 1 :
            ByteOf(g.text, j, y) = IF j = i /\ y = k * E THEN m ELSE ByteOf(p.text, j, y)
    BY <1>3, <1>7 DEF Halves
  <2>3. l * E = k * E <=> l = k
    <3>1. l * E + 0 \in k * E .. k * E + E - 1 <=> l = k
      BY <2>1, EntryApart
    <3>2. l * E \in Nat /\ k * E \in Nat
      BY <2>1, EntryAt
    <3> DEFINE a == l * E
               b == k * E
    <3> HIDE DEF a, b
    <3>3. a = b => l = k
      BY <3>1, <3>2, DirSizes DEF a, b
    <3> QED
      BY <3>3 DEF a, b
  <2>4. l * E + 1 # k * E
    <3>1. l * E + 1 \in k * E .. k * E + E - 1 <=> l = k
      BY <2>1, EntryApart
    <3>2. l * E \in Nat /\ k * E \in Nat
      BY <2>1, EntryAt
    <3> DEFINE a == l * E
               b == k * E
    <3>4. l = k => a = b
      OBVIOUS
    <3> HIDE DEF a, b
    <3>3. a + 1 # b
      BY <3>1, <3>2, <3>4, DirSizes DEF a, b
    <3> QED
      BY <3>3 DEF a, b
  <2> DEFINE u == l * E
             w == l * E + 1
  <2> HIDE DEF u, w
  <2>5. ByteOf(g.text, j, u) = IF j = i /\ l = k THEN m ELSE ByteOf(p.text, j, u)
    BY <2>1, <2>2, <2>3 DEF u
  <2>6. ByteOf(g.text, j, w) = ByteOf(p.text, j, w)
    BY <2>1, <2>2, <2>4 DEF w
  <2> QED
    BY <2>5, <2>6 DEF Num, Nam, u, w
<1>8. ASSUME k \in 0 .. Capacity - 1
      PROVE  (k + 1) * E <= g.v.disk[i].taille * S
  <2> DEFINE y == k * E + E - 1
             z == h.v.disk[i].taille * S
             e == (k + 1) * E
  <2>1. (k * E + 1) % S = 0 /\ h.fd[d].cursor = k * E + 1
    BY DEF Halves
  <2>2. Fbloc(x) >= 1 /\ Fbloc(y) = Fbloc(x)
    BY <2>1, HalfInBloc
  <2>3. At2(h.v, i, Fbloc(y)) # 0
    <3>1. At(h.fd[d]) = Fbloc(x)
      BY <2>1 DEF At
    <3>2. h.fd[d].inoeud = i
      BY DEF Halves, Busy
    <3> HIDE DEF x, y
    <3> QED
      BY <1>1, <2>2, <3>1, <3>2 DEF There
  <2>4. Fbloc(y) \in 0 .. NB
    BY <1>8, CapacityIs
  <2>5. y \in Nat /\ y + 1 = e /\ e \in Nat
    <3>1. k * E \in Nat /\ e = k * E + E /\ e \in Nat
      BY EntryAt
    <3> DEFINE c == k * E
    <3>2. y = c + E - 1
      OBVIOUS
    <3> HIDE DEF c, y, e
    <3>3. c \in Nat /\ e = c + E
      BY <3>1 DEF c
    <3> QED
      BY <3>1, <3>2, <3>3, DirSizes
  <2>6. z \in Nat
    BY <1>1, SizedType, DirSizes
  <2> HIDE DEF y, e
  <2>7. y < z
    <3>1. Fbloc(y) <= NB
      BY <2>4, DirSizes
    <3> QED
      BY <1>1, <2>3, <2>5, <3>1, SizeCoversByte
  <2> HIDE DEF z
  <2>8. e <= z
    BY <2>5, <2>6, <2>7
  <2> QED
    BY <1>3, <2>8 DEF e, z
<1>9. Renumbers(p, g, I, i, k, m)
  BY <1>7 DEF Renumbers
<1> QED
  BY <1>3, <1>5, <1>6, <1>8, <1>9 DEF Halves, g

\* create_file stopped midway: b has half an entry.
LEMMA HalfAdded ==
    ASSUME NEW p, NEW I, NEW D, NEW N, NEW C, Tree(p, I, D, N, C), p.v.end = "none",
           NEW d \in Fd, NEW i \in D, NEW b \in I, b \in 1 .. W - 1,
           \A e \in N : e[3] # b, NEW h, h = Half(NewEntry(Iopen(p, d, i), d), d, b),
           HalfStored(h, d)
    PROVE  Tree(Gone(h.v, h), I, D, N \cup {<<i, 0, b>>}, Crowding(N, C, i))
<1> DEFINE q == Look(Iopen(p, d, i), d, 0)
           k == q.ientry
           g == Gone(h.v, h)
<1>1. Quiet(p, I, D) /\ Calm(p, I, D) /\ b \in 0 .. W - 1 /\ h = Half(q, d, b)
  BY DirSizes DEF Tree, Quiet, NewEntry
<1>2. Halves(p, h, I, D, d, i, k, b) /\ q.p.v.end = "none" /\ k \in Nat
  BY <1>1, HalfHalves
<1>3. /\ \A l \in 0 .. k - 1 : Num(p.text, i, l) # 0
      /\ (k \in 0 .. Capacity - 1 /\ i \notin C /\ p.v.nb # 0 /\ q.p.v.end = "none") =>
            Num(p.text, i, k) = 0
  BY FreeAt
<1> HIDE DEF q
<1>4. /\ Quiet(g, I, D) /\ After(p, g, I) /\ Renumbers(p, g, I, i, k, b)
      /\ k \in 0 .. Capacity - 1 => (k + 1) * E <= g.v.disk[i].taille * S
  BY <1>1, <1>2, HalfGone
<1>5. g.v.nb # 0 => p.v.nb # 0
  <2> HIDE DEF g
  <2> QED
    BY <1>4, StillSome DEF Quiet
<1> DEFINE n == k
           m == 0
<1> HIDE DEF g
<1>6. n \in 0 .. Capacity - 1 /\ i \notin C /\ g.v.nb # 0 =>
          /\ Num(p.text, i, n) = 0 /\ Stored(m) \in {0, Nam(g.text, i, n)}
          /\ (n + 1) * E <= g.v.disk[i].taille * S
  BY <1>2, <1>3, <1>4, <1>5, StoredIs
<1>7. n \in Nat /\ m \in Name \cup {0} /\ \A l \in 0 .. n - 1 : Num(p.text, i, l) # 0
  BY <1>2, <1>3
<1>8. Renumbers(p, g, I, i, n, b)
  BY <1>4
<1> HIDE DEF n, m
<1>9. Tree(g, I, D, N \cup {<<i, m, b>>}, Crowding(N, C, i))
  BY <1>4, <1>6, <1>7, <1>8, OneMore
<1> QED
  BY <1>9 DEF g, m

\* An entry that a search finds is below the size, and is found again.
LEMMA FoundAt ==
    ASSUME NEW p, NEW I, NEW D, Quiet(p, I, D), p.v.end = "none", NEW d \in Fd, NEW i \in D,
           NEW name, name # 0, NEW q, q = Look(Iopen(p, d, i), d, name), q.found
    PROVE  /\ q.ientry \in 0 .. Capacity - 1 /\ Num(p.text, i, q.ientry) # 0
           /\ q.p.v.end = "none" =>
                 Char1(SeekTo(q.p, d, q.ientry * E), d) = Num(p.text, i, q.ientry)
<1> DEFINE o == Iopen(p, d, i)
           n == q.ientry
           z == p.v.disk[i].taille * S
           s == SeekTo(q.p, d, n * E)
<1>1. /\ Reader(o, I, D, d, i) /\ o.text = p.text /\ o.fd[d].size = p.v.disk[i].taille
      /\ Looked(o, q, I, D, d, i, name)
  BY FindLooks
<1>2. n \in Nat /\ z \in Nat /\ Wants(p.text, i, n, name) /\ (n + 1) * E <= z
  BY LookAt
<1> HIDE DEF o
<1>3. n \in 0 .. Capacity - 1
  <2>1. z <= (NB + 1) * S /\ (n + 1) * E \in Nat /\ (NB + 1) * S \in Nat
    <3>1. p.v.disk[i].taille \in Nat /\ p.v.disk[i].taille <= NB + 1
      <4>1. o.fd[d].size \in Nat /\ o.fd[d].size <= NB + 1
        BY <1>1, BusyTypes DEF Reader
      <4> QED
        BY <1>1, <4>1
    <3> QED
      BY <1>2, <3>1, SizeInBytes, EntryAt
  <2> HIDE DEF z, n
  <2>2. (n + 1) * E <= (NB + 1) * S
    <3> DEFINE b == (NB + 1) * S
               c == (n + 1) * E
    <3>1. c <= z /\ z <= b /\ c \in Nat /\ b \in Nat /\ z \in Nat
      BY <1>2, <2>1
    <3> HIDE DEF b, c
    <3>2. c <= b
      BY <3>1
    <3> QED
      BY <3>2 DEF b, c
  <2>3. n < Capacity /\ Capacity \in Nat
    BY <1>2, <2>2, CapacityIs
  <2> QED
    BY <1>2, <2>3
<1>4. Num(p.text, i, n) # 0
  BY <1>2 DEF Wants, Wanted
<1>5. ASSUME q.p.v.end = "none"
      PROVE  Char1(s, d) = Num(p.text, i, n)
  <2>1. Scans(o, s, I, D, d, i)
    BY <1>1, SoughtScans
  <2>2. s.v.end = "none" /\ s.fd[d].cursor = n * E
    BY <1>1, <1>4, <1>5, SoughtScans
  <2> HIDE DEF s, n
  <2>3. Busy(s, I, D, d, i) /\ s.text = p.text
    BY <1>1, <2>1 DEF Scans, Reader
  <2> QED
    BY <2>2, <2>3, BufferIs DEF Num
<1> QED
  BY <1>3, <1>4, <1>5

\* del_entry: the entry that is found is taken away, unless the process is over.
LEMMA DeletedTree ==
    ASSUME NEW p, NEW I, NEW C, Tree(p, I, dirs, named, C), p.v.end = "none",
           NEW d \in Fd, NEW i \in dirs, NEW name \in Name,
           NEW q, q = Look(Iopen(p, d, i), d, name)
    PROVE  LET r == ZeroEntry(q, d)
           IN  /\ r.v.end = "none" => Tree(r, I, dirs, Unnamed(q, d, i), C)
               /\ r.v.end # "none" => Tree(r, I, dirs, named, C)
<1> DEFINE D == dirs
           N == named
           o == Iopen(p, d, i)
           r == ZeroEntry(q, d)
           k == q.ientry
<1>1. /\ Quiet(p, I, D) /\ Calm(p, I, D) /\ name # 0 /\ 0 \in 0 .. W - 1
      /\ C \subseteq D /\ N \subseteq D \X (Name \cup {0}) \X I
      /\ \A e, g \in N : e[3] = g[3] => e = g
  BY StoredIs, DirSizes DEF Tree, Quiet
<1>2. /\ Reader(o, I, D, d, i) /\ After(p, o, I) /\ o.text = p.text
      /\ Looked(o, q, I, D, d, i, name) /\ q.found \in BOOLEAN
  <2>1. Looked(o, q, I, D, d, i, name)
    BY <1>1, FindLooks
  <2>2. q.found \in BOOLEAN
    BY <2>1 DEF Looked
  <2> QED
    BY <1>1, <2>1, <2>2, FindLooks
<1> HIDE DEF o
<1>3. CASE ~q.found
  <2>1. r = Close(q.p, d) /\ Unnamed(q, d, i) = N
    BY <1>3 DEF ZeroEntry, Unnamed
  <2>2. /\ Busy(q.p, I, D, d, i) /\ ~q.p.fd[d].modified /\ q.p.text = p.text
        /\ After(o, q.p, I) /\ Calm(q.p, I, D) /\ Calm(o, I, D)
    BY <1>2 DEF Looked, Scans, Reader, Busy
  <2>3. Closes(q.p, r, I, D, d)
    BY <2>1, <2>2, CloseQuiet
  <2> HIDE DEF r
  <2>4. Quiet(r, I, D) /\ After(q.p, r, I) /\ r.text = p.text /\ Calm(r, I, D)
    BY <2>2, <2>3 DEF Closes, Quiet
  <2>5. After(p, r, I)
    <3>1. After(o, r, I)
      BY <2>2, <2>4, AfterOn
    <3> QED
      BY <1>1, <1>2, <2>2, <2>4, <3>1, AfterOn
  <2>6. Tree(r, I, D, N, C)
    BY <2>4, <2>5, TreeKept
  <2> QED
    BY <2>1, <2>6 DEF r
<1>4. CASE q.found
  <2> DEFINE t == PutEntry(q, d, 0, 0)
  <2>1. r = t /\ Unnamed(q, d, i) = N \ TakenAway(q, d, i)
    BY <1>4 DEF ZeroEntry, Unnamed
  <2>2. /\ Replaces(p, t, I, D, i, k, 0, 0)
        /\ t.v.nb # 0 => q.p.v.end = "none" /\ t.v.end = "none"
    BY <1>1, PutAt
  <2>3. k \in 0 .. Capacity - 1 /\ k \in Nat
    BY <1>1, <1>4, FoundAt, CapacityIs
  <2> HIDE DEF t, r
  <2>4. Quiet(t, I, D) /\ After(p, t, I) /\ Renumbers(p, t, I, i, k, 0)
    BY <2>2, <2>3, Renumbered DEF Replaces
  <2>5. CASE t.v.nb = 0
    <3>1. Tree(t, I, D, N, C)
      BY <1>1, <2>4, <2>5, TreeOver
    <3>2. N \ TakenAway(q, d, i) \subseteq N
      OBVIOUS
    <3> DEFINE M == N \ TakenAway(q, d, i)
    <3> HIDE DEF M
    <3>3. M \subseteq N
      BY DEF M
    <3>4. Tree(t, I, D, M, C)
      BY <1>1, <2>4, <2>5, <3>3, TreeOver
    <3> QED
      BY <2>1, <3>1, <3>4 DEF M, r
  <2>6. CASE t.v.nb # 0
    <3>1. Char1(SeekTo(q.p, d, k * E), d) = Num(p.text, i, k) /\ t.v.end = "none"
      BY <1>1, <1>4, <2>2, <2>6, FoundAt
    <3> DEFINE M == N \ {e \in EntriesOf(N, i) : e[3] = Num(p.text, i, k)}
    <3>2. Unnamed(q, d, i) = M
      BY <2>1, <3>1 DEF TakenAway, Entries, EntriesOf
    <3> HIDE DEF M
    <3>3. Tree(t, I, D, M, C)
      BY <2>3, <2>4, OneLess DEF M
    <3> QED
      BY <2>1, <3>1, <3>2, <3>3 DEF r
  <2>7. t.v.nb \in Nat
    BY <2>4, CalmGood DEF Quiet
  <2> QED
    BY <2>5, <2>6
<1> QED
  BY <1>2, <1>3, <1>4

\* ... and del_entry stopped midway.
LEMMA HalfDeletedTree ==
    ASSUME NEW p, NEW I, NEW C, Tree(p, I, dirs, named, C), p.v.end = "none",
           NEW d \in Fd, NEW i \in dirs, NEW name \in Name,
           NEW q, q = Look(Iopen(p, d, i), d, name), q.found,
           NEW h, h = Half(q, d, 0), HalfStored(h, d)
    PROVE  Tree(Gone(h.v, h), I, dirs, Unnamed(q, d, i), C)
<1> DEFINE k == q.ientry
           g == Gone(h.v, h)
           M == named \ {e \in EntriesOf(named, i) : e[3] = Num(p.text, i, k)}
<1>1. Quiet(p, I, dirs) /\ Calm(p, I, dirs) /\ name # 0 /\ 0 \in 0 .. W - 1
  BY StoredIs, DirSizes DEF Tree, Quiet
<1>2. Halves(p, h, I, dirs, d, i, k, 0) /\ q.p.v.end = "none" /\ k \in Nat
  BY <1>1, HalfHalves
<1>3. k \in 0 .. Capacity - 1 /\ Char1(SeekTo(q.p, d, k * E), d) = Num(p.text, i, k)
  BY <1>1, <1>2, FoundAt
<1>4. Quiet(g, I, dirs) /\ After(p, g, I) /\ Renumbers(p, g, I, i, k, 0)
  BY <1>1, <1>2, HalfGone
<1>5. Unnamed(q, d, i) = M
  BY <1>3 DEF Unnamed, TakenAway, Entries, EntriesOf
<1> HIDE DEF M, g
<1>6. Tree(g, I, dirs, M, C)
  BY <1>3, <1>4, OneLess DEF M
<1> QED
  BY <1>5, <1>6 DEF g

-----------------------------------------------------------------------------
(* The steps.                                                               *)

\* With the process, the descriptors are gone, and what was said stays when none was open.
LEMMA TreeGone ==
    ASSUME NEW q, NEW I, NEW D, NEW N, NEW C, Tree(q, I, D, N, C)
    PROVE  LET g == Gone(q.v, q)
           IN  Tree(g, I, D, N, C) /\ \A d \in Fd : ~g.fd[d].open
<1> DEFINE g == Gone(q.v, q)
<1>1. Quiet(q, I, D) /\ Calm(q, I, D) /\ Lives(q, I, {}) /\ Good(q.v, I, {})
  BY CalmGood DEF Tree, Quiet, Calm
<1>2. AtRest(g, I, {})
  <2>1. Holds(q.v, q.v, I)
    BY DEF Holds
  <2> QED
    BY <1>1, <2>1, GoneLives
<1>3. /\ g.v = q.v /\ g.fd = [d \in Fd |-> Closed]
      /\ g = [v |-> g.v, fd |-> g.fd, text |-> g.text]
      /\ g.text = ForgetAll(q.v, q.fd, q.text)
  BY DEF Gone
<1> HIDE DEF g
<1>4. \A d \in Fd : ~g.fd[d].open
  BY <1>3 DEF Closed
<1>5. Quiet(g, I, D)
  BY <1>1, <1>2, <1>3, <1>4 DEF Quiet, Calm, AtRest
<1>6. q.v.nb # 0 => g.text = q.text
  <2> SUFFICES ASSUME q.v.nb # 0
               PROVE  g.text = q.text
    OBVIOUS
  <2>1. \A d \in Fd : ~q.fd[d].open
    BY <1>1, CalmGood DEF Quiet
  <2>2. q.text \in [I -> [Index -> Bytes]]
    BY <1>1 DEF Lives
  <2>3. g.text = [i \in I |-> [f \in Index |-> q.text[i][f]]]
    BY <1>3, <2>1, <2>2 DEF ForgetAll
  <2> QED
    BY <2>2, <2>3
<1>7. Tree(g, I, D, N, C)
  BY <1>3, <1>5, <1>6 DEF Tree
<1> QED
  BY <1>4, <1>7 DEF g

\* The next state.
LEMMA Rests ==
    ASSUME NEW q, NEW I, NEW D, NEW N, NEW C, Tree(q, I, D, N, C), \A d \in Fd : ~q.fd[d].open,
           q = Before', dirs' = D, named' = N, crowded' = C, shared' = {}
    PROVE  DInv'
<1>1. Lives(q, I, {}) /\ q.text = text' /\ q.fd = fd'
  BY DEF Tree, Quiet, Calm, Before
<1>2. DOMAIN text' = I
  BY <1>1 DEF Lives
<1>3. AtRest(q, I, {})
  BY <1>1 DEF AtRest
<1>4. Tree(Before, DOMAIN text, dirs, named, crowded)'
  BY <1>2
<1>5. AtRest(Before, DOMAIN text, shared)'
  BY <1>2, <1>3
<1>6. (\A d \in Fd : ~fd[d].open)'
  BY <1>1
<1> QED
  BY <1>4, <1>5, <1>6 DEF DInv, Inv

LEMMA Returned ==
    ASSUME NEW q, NEW I, NEW D, NEW N, NEW C, Tree(q, I, D, N, C), Returns(q),
           dirs' = D, named' = N, crowded' = C, shared' = {}
    PROVE  DInv'
<1>1. CASE q.v.end = "none"
  <2>1. q = [v |-> q.v, fd |-> q.fd, text |-> q.text] /\ \A d \in Fd : ~q.fd[d].open
    BY <1>1 DEF Tree, Quiet, Calm
  <2>2. q = Before'
    BY <1>1, <2>1 DEF Returns, Before
  <2> QED
    BY <2>1, <2>2, Rests
<1>2. CASE q.v.end # "none"
  <2> DEFINE g == Gone(q.v, q)
  <2>1. Tree(g, I, D, N, C) /\ \A d \in Fd : ~g.fd[d].open
    BY TreeGone
  <2>2. g = Before'
    BY <1>2 DEF Returns, Before, Gone
  <2> HIDE DEF g
  <2> QED
    BY <2>1, <2>2, Rests
<1> QED
  BY <1>1, <1>2

LEMMA Died ==
    ASSUME NEW q, NEW I, NEW D, NEW N, NEW C, Tree(Gone(q.v, q), I, D, N, C), Dies(q),
           dirs' = D, named' = N, crowded' = C, shared' = {}
    PROVE  DInv'
<1> DEFINE g == Gone(q.v, q)
<1>1. \A d \in Fd : ~g.fd[d].open
  BY DEF Gone, Closed
<1>2. g = Before'
  BY DEF Dies, Before, Gone
<1> HIDE DEF g
<1>3. Tree(g, I, D, N, C)
  BY DEF g
<1> QED
  BY <1>1, <1>2, <1>3, Rests

\* A call that only searches.
LEMMA SearchedTree ==
    ASSUME NEW p, NEW q, NEW I, NEW D, NEW N, NEW C, Tree(p, I, D, N, C), Searches(p, q, I, D)
    PROVE  Tree(q, I, D, N, C)
BY TreeKept DEF Searches

LEMMA PathIs ==
    ASSUME NEW path \in Seq(Name) \ {<<>>}
    PROVE  Basename(path) \in Name
BY DEF Basename

\* Where the calls start.
LEMMA BeginsAt ==
    ASSUME DInv, NEW d \in Fd, NEW path \in Seq(Name) \ {<<>>}
    PROVE  LET dir == DinumberOfPath(Before, d, path)
           IN  /\ Tree(dir.p, DOMAIN text, dirs, named, crowded)
               /\ dir.i # 0 => dir.i \in dirs /\ dir.p.v.end = "none"
<1> DEFINE dir == DinumberOfPath(Before, d, path)
<1>1. Quiet(Before, DOMAIN text, dirs) /\ Tree(Before, DOMAIN text, dirs, named, crowded)
  BY DEF DInv, Tree
<1>2. /\ Searches(Before, dir.p, DOMAIN text, dirs)
      /\ dir.i # 0 => dir.i \in dirs /\ dir.p.v.end = "none"
  BY <1>1, DirSearches
<1> HIDE DEF dir
<1>3. Tree(dir.p, DOMAIN text, dirs, named, crowded)
  BY <1>1, <1>2, SearchedTree
<1> QED
  BY <1>2, <1>3 DEF dir

LEMMA OpenKeeps ==
    ASSUME DInv, NEW d \in Fd, NEW path \in Path, OpenFile(d, path)
    PROVE  DInv'
<1> DEFINE q == InumberOfPath(Before, d, path).p
<1>1. Quiet(Before, DOMAIN text, dirs) /\ Tree(Before, DOMAIN text, dirs, named, crowded)
      /\ path \in Seq(Name)
  BY DirectoryAssumption DEF DInv, Tree
<1>2. Searches(Before, q, DOMAIN text, dirs)
  BY <1>1, PathSearches
<1>3. Returns(q) /\ shared' = {} /\ dirs' = dirs /\ named' = named /\ crowded' = crowded
  BY DEF OpenFile, DInv, dirVars
<1> HIDE DEF q
<1>4. Tree(q, DOMAIN text, dirs, named, crowded)
  BY <1>1, <1>2, SearchedTree
<1> QED
  BY <1>3, <1>4, Returned

LEMMA DeleteKeeps ==
    ASSUME DInv, NEW d \in Fd, NEW path \in Path, DeleteFile(d, path)
    PROVE  DInv'
<1> DEFINE dir == DinumberOfPath(Before, d, path)
           I == DOMAIN text
<1>1. path \in Seq(Name) \ {<<>>} /\ Basename(path) \in Name
  BY DirectoryAssumption, PathIs
<1>2. /\ Tree(dir.p, I, dirs, named, crowded)
      /\ dir.i # 0 => dir.i \in dirs /\ dir.p.v.end = "none"
  BY <1>1, BeginsAt
<1>3. DeleteIn(dir, d, path) /\ shared' = {}
  BY DEF DeleteFile, DInv
<1> HIDE DEF dir
<1>4. CASE dir.i = 0
  <2>1. Returns(dir.p) /\ dirs' = dirs /\ named' = named /\ crowded' = crowded
    BY <1>3, <1>4 DEF DeleteIn, dirVars
  <2> QED
    BY <1>2, <1>3, <2>1, Returned
<1>5. CASE dir.i # 0
  <2> DEFINE q == Look(Iopen(dir.p, d, dir.i), d, Basename(path))
             r == ZeroEntry(q, d)
  <2>1. Deleted(q, d, dir.i)
    BY <1>3, <1>5 DEF DeleteIn, FindEntry
  <2>2. /\ r.v.end = "none" => Tree(r, I, dirs, Unnamed(q, d, dir.i), crowded)
        /\ r.v.end # "none" => Tree(r, I, dirs, named, crowded)
    <3>1. dir.i \in dirs /\ dir.p.v.end = "none"
      BY <1>2, <1>5
    <3> QED
      BY <1>1, <1>2, <3>1, DeletedTree
  <2> HIDE DEF q
  <2>3. /\ Returns(r) /\ dirs' = dirs /\ crowded' = crowded /\ vol' = r.v
        /\ named' = IF r.v.end = "none" THEN Unnamed(q, d, dir.i) ELSE named
    BY <2>1 DEF Deleted, Returns
  <2> HIDE DEF r
  <2>4. CASE r.v.end = "none"
    BY <1>3, <2>2, <2>3, <2>4, Returned
  <2>5. CASE r.v.end # "none"
    BY <1>3, <2>2, <2>3, <2>5, Returned
  <2> QED
    BY <2>4, <2>5
<1> QED
  BY <1>4, <1>5

LEMMA DeleteStopKeeps ==
    ASSUME DInv, NEW d \in Fd, NEW path \in Path, DeleteFileStops(d, path)
    PROVE  DInv'
<1> DEFINE dir == DinumberOfPath(Before, d, path)
           q == Look(Iopen(dir.p, d, dir.i), d, Basename(path))
           h == Half(q, d, 0)
           I == DOMAIN text
<1>1. path \in Seq(Name) \ {<<>>} /\ Basename(path) \in Name
  BY DirectoryAssumption, PathIs
<1>2. /\ Tree(dir.p, I, dirs, named, crowded)
      /\ dir.i # 0 => dir.i \in dirs /\ dir.p.v.end = "none"
  BY <1>1, BeginsAt
<1>3. dir.i # 0 /\ HalfDeleted(q, d, dir.i) /\ shared' = {}
  BY DEF DeleteFileStops, FindEntry, DInv
<1> HIDE DEF dir
<1>4. /\ q.found /\ HalfStored(h, d) /\ Dies(h) /\ named' = Unnamed(q, d, dir.i)
      /\ dirs' = dirs /\ crowded' = crowded
  BY <1>3 DEF HalfDeleted
<1>5. Tree(Gone(h.v, h), I, dirs, Unnamed(q, d, dir.i), crowded)
  <2>1. dir.i \in dirs /\ dir.p.v.end = "none"
    BY <1>2, <1>3
  <2> QED
    BY <1>1, <1>2, <1>4, <2>1, HalfDeletedTree
<1> HIDE DEF h, q
<1> QED
  BY <1>3, <1>4, <1>5, Died

\* create_inode for create_file.
LEMMA NewFile ==
    ASSUME NEW p, NEW I, Tree(p, I, dirs, named, crowded), p.v.end = "none",
           NEW n, n = NewBloc(p.v), n.b # 0, NEW t
    PROVE  LET r == Created(n, p)
               J == I \cup {n.b}
           IN  /\ Tree(r, J, Typed(n.b, t), named, crowded) /\ r.v.end = "none"
               /\ n.b \in J /\ n.b \in 1 .. W - 1 /\ \A e \in named : e[3] # n.b
<1> DEFINE r == Created(n, p)
           J == I \cup {n.b}
           G == Typed(n.b, t)
<1>1. Quiet(p, I, dirs) /\ named \subseteq dirs \X (Name \cup {0}) \X I
  BY DEF Tree
<1>2. /\ Quiet(r, J, dirs) /\ Quiet(r, J, dirs \cup {n.b}) /\ After(p, r, I)
      /\ r.v.end = "none" /\ p.v.nb # 0 /\ n.b \notin I /\ n.b \in 1 .. W - 1
      /\ r.text = WithBlank(p.text, J, n.b)
  BY <1>1, CreatedOne
<1>3. G \in {dirs, dirs \cup {n.b}} /\ Quiet(r, J, G)
  BY <1>2 DEF Typed
<1> HIDE DEF r, G
<1>4. Tree(r, J, G, named, crowded)
  BY <1>2, <1>3, OneFileMore
<1>5. \A e \in named : e[3] # n.b
  BY <1>1, <1>2
<1> QED
  BY <1>2, <1>4, <1>5 DEF r, G

LEMMA CreateKeeps ==
    ASSUME DInv, NEW d \in Fd, NEW path \in Seq(Name) \ {<<>>}, NEW t, CreateFile(d, path, t)
    PROVE  DInv'
<1> DEFINE dir == DinumberOfPath(Before, d, path)
           I == DOMAIN text
<1>1. Basename(path) \in Name
  BY PathIs
<1>2. /\ Tree(dir.p, I, dirs, named, crowded)
      /\ dir.i # 0 => dir.i \in dirs /\ dir.p.v.end = "none"
  BY BeginsAt
<1>3. Create(dir, d, path, t) /\ shared' = {}
  BY DEF CreateFile, DInv
<1> HIDE DEF dir
<1>4. CASE dir.i = 0
  <2>1. Returns(dir.p) /\ dirs' = dirs /\ named' = named /\ crowded' = crowded
    BY <1>3, <1>4 DEF Create, dirVars
  <2> QED
    BY <1>2, <1>3, <2>1, Returned
<1>5. CASE dir.i # 0
  <2> DEFINE n == NewBloc(dir.p.v)
             r == Created(n, dir.p)
             J == I \cup {n.b}
             G == Typed(n.b, t)
             q == AddEntry(r, d, dir.i, n.b, Basename(path))
             C == Crowding(named, crowded, dir.i)
             N == named \cup {<<dir.i, Basename(path), n.b>>}
  <2>1. Linked(n, d, dir, path, t)
    BY <1>3, <1>5 DEF Create
  <2>2. dir.i \in dirs /\ dir.p.v.end = "none"
    BY <1>2, <1>5
  <2>3. CASE n.b = 0
    <3>1. Quiet(dir.p, I, dirs)
      BY <1>2 DEF Tree
    <3>2. Quiet(r, I, dirs) /\ After(dir.p, r, I) /\ r.v.nb = 0
      BY <2>2, <2>3, <3>1, CreatedNone
    <3>3. Returns(r) /\ dirs' = dirs /\ named' = named /\ crowded' = crowded
      BY <2>1, <2>3 DEF Linked, dirVars
    <3> HIDE DEF r, n
    <3>4. Tree(r, I, dirs, named, crowded)
      BY <1>2, <3>2, TreeKept
    <3> QED
      BY <1>3, <3>3, <3>4, Returned
  <2>4. CASE n.b # 0
    <3>1. /\ Tree(r, J, G, named, crowded) /\ r.v.end = "none"
          /\ n.b \in J /\ n.b \in 1 .. W - 1 /\ \A e \in named : e[3] # n.b
      BY <1>2, <2>2, <2>4, NewFile
    <3>2. Entered(q, dir, n.b, path, t)
      BY <2>1, <2>4 DEF Linked
    <3> HIDE DEF r, n
    <3>3. dir.i \in G
      BY <2>2 DEF Typed
    <3>4. /\ q.v.end = "none" => Tree(q, J, G, N, C)
          /\ q.v.end # "none" => Tree(q, J, G, named, C)
      <4> HIDE DEF G, J
      <4> QED
        BY <1>1, <3>1, <3>3, AddedTree
    <3>5. /\ Returns(q) /\ dirs' = G /\ crowded' = C
          /\ named' = IF q.v.end = "none" THEN N ELSE named
      BY <3>2 DEF Entered, Crowds, Crowding, Entries, EntriesOf
    <3> HIDE DEF q, G, N, C, J
    <3>6. CASE q.v.end = "none"
      BY <1>3, <3>4, <3>5, <3>6, Returned
    <3>7. CASE q.v.end # "none"
      BY <1>3, <3>4, <3>5, <3>7, Returned
    <3> QED
      BY <3>6, <3>7
  <2> QED
    BY <2>3, <2>4
<1> QED
  BY <1>4, <1>5

LEMMA CreateStopKeeps ==
    ASSUME DInv, NEW d \in Fd, NEW path \in Seq(Name) \ {<<>>}, NEW t,
           CreateFileStops(d, path, t)
    PROVE  DInv'
<1> DEFINE dir == DinumberOfPath(Before, d, path)
           I == DOMAIN text
           n == NewBloc(dir.p.v)
           r == Created(n, dir.p)
           J == I \cup {n.b}
           G == Typed(n.b, t)
           h == Half(NewEntry(Iopen(r, d, dir.i), d), d, n.b)
           C == Crowding(named, crowded, dir.i)
           N == named \cup {<<dir.i, 0, n.b>>}
<1>1. /\ Tree(dir.p, I, dirs, named, crowded)
      /\ dir.i # 0 => dir.i \in dirs /\ dir.p.v.end = "none"
  BY BeginsAt
<1>2. dir.i # 0 /\ StopsIn(n, d, dir, t) /\ shared' = {}
  BY DEF CreateFileStops, DInv
<1> HIDE DEF dir
<1>3. n.b # 0 /\ (Unlinked(n, dir, t) \/ HalfLinked(h, d, dir, n.b, t))
  BY <1>2 DEF StopsIn, Unlinked
<1>4. /\ Tree(r, J, G, named, crowded) /\ r.v.end = "none"
      /\ n.b \in J /\ n.b \in 1 .. W - 1 /\ \A e \in named : e[3] # n.b
  BY <1>1, <1>2, <1>3, NewFile
<1>5. dir.i \in G
  BY <1>1, <1>2 DEF Typed
<1>6. CASE Unlinked(n, dir, t)
  <2>1. Dies(r) /\ dirs' = G /\ named' = named /\ crowded' = crowded
    BY <1>6 DEF Unlinked
  <2> HIDE DEF r, G, J, n
  <2>2. Tree(Gone(r.v, r), J, G, named, crowded)
    BY <1>4, TreeGone
  <2> QED
    BY <1>2, <2>1, <2>2, Died
<1>7. CASE HalfLinked(h, d, dir, n.b, t)
  <2>1. /\ Dies(h) /\ HalfStored(h, d) /\ dirs' = G /\ named' = N /\ crowded' = C
    BY <1>7 DEF HalfLinked, Crowds, Crowding, Entries, EntriesOf
  <2>2. h = Half(NewEntry(Iopen(r, d, dir.i), d), d, n.b)
    OBVIOUS
  <2> HIDE DEF h, r, G, J, n
  <2>3. Tree(Gone(h.v, h), J, G, N, C)
    BY <1>4, <1>5, <2>1, <2>2, HalfAdded
  <2> HIDE DEF N, C
  <2> QED
    BY <1>2, <2>1, <2>3, Died
<1> QED
  BY <1>3, <1>6, <1>7

LEMMA RestartKeeps ==
    ASSUME DInv, DirRestart
    PROVE  DInv'
<1> DEFINE p == Before
           q == Gone(Ends(vol, "none"), p)
           I == DOMAIN text
<1>1. /\ Tree(p, I, dirs, named, crowded) /\ AtRest(p, I, {}) /\ shared = {}
      /\ \A d \in Fd : ~fd[d].open
  BY DEF DInv, Inv
<1>2. Quiet(p, I, dirs) /\ Calm(p, I, dirs) /\ Lives(p, I, {}) /\ Good(vol, I, {})
      /\ vol \in Volume /\ text \in [I -> [Index -> Bytes]] /\ p.v = vol /\ p.text = text
  BY <1>1, CalmGood DEF Tree, Quiet, Calm, Lives, Before
<1>3. Restart /\ dirs' = dirs /\ named' = named /\ crowded' = crowded
  BY DEF DirRestart, dirVars
<1>4. vol' = Ends(vol, "none")
  <2>1. vol.disk[0].kind = "super"
    BY <1>3 DEF Restart
  <2>2. vol.disk[0].nb = vol.nb /\ vol.disk[0].first = vol.first
    BY <1>2, <2>1 DEF Good, Counts
  <2>3. [vol EXCEPT !.nb = vol.nb, !.first = vol.first, !.end = "none"]
            = [vol EXCEPT !.end = "none"]
    BY <1>2 DEF Volume
  <2>4. vol' = [vol EXCEPT !.nb = vol.disk[0].nb, !.first = vol.disk[0].first, !.end = "none"]
    BY <1>3 DEF Restart
  <2> QED
    BY <2>2, <2>3, <2>4 DEF Ends
<1>5. /\ vol'.end = "none" /\ vol'.nb = vol.nb /\ vol'.disk = vol.disk
      /\ vol'.gave = vol.gave
  BY <1>2, <1>4 DEF Ends, Volume
<1>6. q = Before'
  BY <1>3, <1>4 DEF Restart, Gone, Before
<1>7. Lives(q, I, {})
  <2>1. Good(Ends(vol, "none"), I, {}) /\ Holds(vol, Ends(vol, "none"), I)
    BY <1>2, EndKept
  <2> QED
    BY <1>2, <2>1, GoneLives DEF AtRest
<1>8. q.text = text /\ q.v = vol' /\ q.fd = [d \in Fd |-> Closed]
      /\ q = [v |-> q.v, fd |-> q.fd, text |-> q.text]
  <2>1. q.text = ForgetAll(vol, fd, text) /\ q.v = vol' /\ q.fd = [d \in Fd |-> Closed]
        /\ q = [v |-> q.v, fd |-> q.fd, text |-> q.text]
    BY <1>4 DEF Gone, Before
  <2>2. ForgetAll(vol, fd, text) = [i \in I |-> [f \in Index |-> text[i][f]]]
    BY <1>1 DEF ForgetAll
  <2>3. [i \in I |-> [f \in Index |-> text[i][f]]] = text
    BY <1>2
  <2> QED
    BY <2>1, <2>2, <2>3
<1> HIDE DEF q
<1>9. \A d \in Fd : ~q.fd[d].open
  BY <1>8 DEF Closed
<1>10. Quiet(q, I, dirs)
  BY <1>2, <1>5, <1>7, <1>8, <1>9 DEF Quiet, Calm, Sized
<1>11. ASSUME NEW i
       PROVE  Shows(q.v, q.text, named, i) <=> Shows(p.v, p.text, named, i)
  BY <1>2, <1>5, <1>8 DEF Shows
<1>12. Tree(q, I, dirs, named, crowded)
  BY <1>1, <1>2, <1>5, <1>8, <1>10, <1>11 DEF Tree
<1>13. shared' = {}
  BY <1>1, <1>3 DEF Restart
<1> QED
  BY <1>3, <1>6, <1>9, <1>12, <1>13, Rests

LEMMA DirKeeps ==
    ASSUME DInv, [DirNext]_allVars
    PROVE  DInv'
<1>1. CASE UNCHANGED allVars
  BY <1>1 DEF allVars, vars, dirVars, DInv, Inv, Before
<1>2. CASE DirRestart
  BY <1>2, RestartKeeps
<1>3. ASSUME NEW d \in Fd, NEW path \in Path,
             OpenFile(d, path) \/ DeleteFile(d, path) \/ DeleteFileStops(d, path)
      PROVE  DInv'
  BY <1>3, OpenKeeps, DeleteKeeps, DeleteStopKeeps
<1>4. ASSUME NEW d \in Fd, NEW r \in Request,
             CreateFile(d, r[1], r[2]) \/ CreateFileStops(d, r[1], r[2])
      PROVE  DInv'
  <2>1. r[1] \in Seq(Name) \ {<<>>}
    BY DirectoryAssumption
  <2> QED
    BY <1>4, <2>1, CreateKeeps, CreateStopKeeps
<1> QED
  BY <1>1, <1>2, <1>3, <1>4 DEF DirNext

\* mknfs.
LEMMA DirStarts ==
    ASSUME DirInit
    PROVE  DInv
<1> DEFINE n == NewBloc(Fresh)
           r == Created(n, Born)
           J == {} \cup {n.b}
<1>1. Quiet(Born, {}, {}) /\ Born.v.end = "none" /\ Born.v = Fresh
  <2>1. Born = [v |-> Born.v, fd |-> Born.fd, text |-> Born.text]
    BY DEF Born
  <2> QED
    BY <2>1, BornLives DEF Quiet, Calm
<1>2. n.b = 1
  BY BornLives, DirSizes DEF NewBloc
<1>3. vol = r.v /\ fd = r.fd /\ text = r.text
  BY DEF DirInit, Born
<1>4. shared = {} /\ dirs = {Root} /\ named = {} /\ crowded = {} /\ Root = 1
  BY DEF DirInit, Root
<1>5. /\ Quiet(r, J, {} \cup {n.b}) /\ r.v.end = "none" /\ r.text = WithBlank(Born.text, J, n.b)
  BY <1>1, <1>2, CreatedOne
<1> HIDE DEF n, r
<1>6. r = Before /\ Quiet(r, {1}, {1}) /\ r.text[1] = [f \in Index |-> Zeros]
      /\ \A d \in Fd : ~fd[d].open
  <2>1. J = {1}
    BY <1>2
  <2>2. r = [v |-> r.v, fd |-> r.fd, text |-> r.text] /\ Quiet(r, {1}, {1})
    BY <1>5, <2>1 DEF Quiet, Calm
  <2>3. \A d \in Fd : ~fd[d].open
    BY <1>3, <1>5, <2>2 DEF Quiet
  <2> QED
    BY <1>2, <1>3, <1>5, <2>1, <2>2, <2>3 DEF Before, WithBlank
<1>7. Lives(r, {1}, {}) /\ DOMAIN text = {1}
  <2>1. Lives(r, {1}, {})
    BY <1>6 DEF Quiet, Calm
  <2> QED
    BY <1>3, <2>1 DEF Lives
<1>8. ASSUME NEW l \in 0 .. Capacity - 1
      PROVE  Num(r.text, 1, l) = 0
  <2>1. l * E \in 0 .. MaxPos - 1 /\ l * E \in Nat
    BY CapacityIs, EntryAt
  <2>2. Fbloc(l * E) \in Index /\ (l * E) % S \in 0 .. S - 1
    BY <2>1, Positions, BlocOf DEF Index
  <2> DEFINE f == Fbloc(l * E)
             c == (l * E) % S
  <2> HIDE DEF f, c
  <2>3. r.text[1][f] = Zeros /\ Zeros[c] = 0
    BY <1>6, <2>2 DEF Zeros, f, c
  <2> QED
    BY <2>3 DEF Num, ByteOf, f, c
<1>9. Shows(r.v, r.text, {}, 1)
  BY <1>8 DEF Shows, EntriesOf
<1>10. Tree(r, {1}, {1}, {}, {})
  BY <1>4, <1>6, <1>9 DEF Tree
<1>11. Tree(Before, DOMAIN text, dirs, named, crowded)
  BY <1>4, <1>6, <1>7, <1>10
<1>12. AtRest(Before, DOMAIN text, shared)
  BY <1>4, <1>6, <1>7, <1>3 DEF AtRest
<1> QED
  BY <1>4, <1>6, <1>11, <1>12 DEF DInv, Inv

LEMMA DirAlways == DirSpec => []DInv
<1>1. DirInit => DInv
  BY DirStarts
<1>2. DInv /\ [DirNext]_allVars => DInv'
  BY DirKeeps
<1> QED
  BY <1>1, <1>2, PTL DEF DirSpec

-----------------------------------------------------------------------------
(* The theorems.                                                            *)

LEMMA DirTypes ==
    ASSUME DInv
    PROVE  DirTypeOK
<1>1. TypeOK
  BY InvTypes DEF DInv
<1>2. dirs \subseteq DOMAIN text /\ crowded \subseteq dirs
      /\ named \subseteq dirs \X (Name \cup {0}) \X DOMAIN text
  BY DEF DInv, Tree, Quiet, Calm
<1> QED
  BY <1>1, <1>2 DEF DirTypeOK

\* The types of the files and of what is said of the directories: create_file enters a
\* file that it created in a directory, whatever was interrupted before.
THEOREM DirTypesKept == DirSpec => []DirTypeOK
  BY DirTypes, DirAlways, PTL

\* What the invariant says of a directory that is followed.
LEMMA FollowedIs ==
    ASSUME DInv, NEW i \in dirs, Followed(i)
    PROVE  /\ Shows(vol, text, named, i) /\ i \in DOMAIN text
           /\ Good(vol, DOMAIN text, {}) /\ Sized(vol, i) /\ vol.disk[i].taille \in Nat
           /\ \A e \in named : e[1] \in dirs /\ e[3] \in DOMAIN text /\ e[3] # 0 /\ e[3] \in Int
           /\ \A e \in named : e = <<e[1], e[2], e[3]>> /\ e[2] \in Name \cup {0}
           /\ \A e, g \in named : e[3] = g[3] => e = g
<1>1. Tree(Before, DOMAIN text, dirs, named, crowded) /\ Before.v = vol /\ Before.text = text
  BY DEF DInv, Before
<1>2. Quiet(Before, DOMAIN text, dirs) /\ Calm(Before, DOMAIN text, dirs)
  BY <1>1 DEF Tree, Quiet
<1>3. i \in DOMAIN text /\ Good(vol, DOMAIN text, {}) /\ Sized(vol, i)
  BY <1>1, <1>2, CalmGood DEF Calm
<1>4. Shows(vol, text, named, i)
  BY <1>1 DEF Followed, Tree
<1>5. vol.disk[i].taille \in Nat
  BY <1>3, SizedType
<1>6. ASSUME NEW e \in named
      PROVE  /\ e[1] \in dirs /\ e[3] \in DOMAIN text /\ e[3] # 0 /\ e[3] \in Int
             /\ e = <<e[1], e[2], e[3]>> /\ e[2] \in Name \cup {0}
  BY <1>1, EntryIs, DirSizes
<1>7. \A e, g \in named : e[3] = g[3] => e = g
  BY <1>1 DEF Tree
<1> QED
  BY <1>3, <1>4, <1>5, <1>6, <1>7

LEMMA EntryInReach ==
    ASSUME NEW k \in 0 .. Capacity - 1
    PROVE  k \in 0 .. MaxEntry
<1>1. k \in Nat /\ k * E \in 0 .. MaxPos - 1 /\ MaxPos \in Nat
  BY CapacityIs, MaxPosIs
<1> DEFINE c == k * E
           m == MaxPos
           q == m \div E
<1> HIDE DEF m
<1>2. q \in Nat /\ m < (q + 1) * E
  <2>1. m \in Nat /\ E \in Nat /\ E > 0
    BY <1>1, DirSizes DEF m
  <2>2. q \in Nat /\ m = E * q + (m % E) /\ m % E < E /\ m % E \in Nat
    BY <2>1
  <2> HIDE DEF q
  <2>3. (q + 1) * E = E * q + E /\ E * q \in Nat
    BY <2>1, <2>2
  <2> QED
    BY <2>1, <2>2, <2>3
<1>3. k < q + 1
  <2>1. CASE k >= q + 1
    <3> HIDE DEF q
    <3>1. (q + 1) * E <= k * E /\ (q + 1) * E \in Nat /\ k * E \in Nat
      BY <1>1, <1>2, <2>1, DirSizes
    <3> DEFINE a == (q + 1) * E
               b == k * E
    <3> HIDE DEF a, b
    <3>2. m < a /\ a <= b /\ b <= m - 1 /\ a \in Nat /\ b \in Nat /\ m \in Nat
      BY <1>1, <1>2, <3>1 DEF a, b, m
    <3> QED
      BY <3>2
  <2> HIDE DEF q
  <2> QED
    BY <1>1, <1>2, <2>1
<1> QED
  BY <1>1, <1>2, <1>3 DEF MaxEntry, m

\* Between two calls what was written is on the disk.
LEMMA ByteAtIs ==
    ASSUME DInv, NEW i \in DOMAIN text, NEW x, Fbloc(x) \in 0 .. NB
    PROVE  ByteAt(i, x) = ByteOf(text, i, x)
<1> DEFINE f == Fbloc(x)
<1>1. f \in 0 .. 2 * NB - 1
  BY DirSizes
<1> HIDE DEF f
<1>2. SaidAt(Before, i, f) /\ Good(vol, DOMAIN text, {})
  BY <1>1, InvIs DEF DInv
<1>3. \A d \in Fd : ~On(fd[d], i, f)
  BY DEF DInv, On
<1>4. text[i][f] = HeldAt(vol, i, f)
  BY <1>2, <1>3 DEF SaidAt, Before
<1>5. Content(vol, i, f) = HeldAt(vol, i, f)
  BY <1>1, <1>2, LookupNamed
<1> QED
  BY <1>4, <1>5 DEF ByteAt, ByteOf, f

\* The entries in use.
Used(i) == {k \in 0 .. Capacity - 1 : Num(text, i, k) # 0}
Line(i, k) == <<k, Num(text, i, k), Nam(text, i, k)>>

LEMMA SlotBytes ==
    ASSUME DInv, NEW i \in DOMAIN text, NEW k \in 0 .. Capacity - 1
    PROVE  ByteAt(i, k * E) = Num(text, i, k) /\ ByteAt(i, k * E + 1) = Nam(text, i, k)
<1>1. /\ k \in Nat /\ Fbloc(k * E) \in 0 .. NB /\ Fbloc(k * E + E - 1) \in 0 .. NB
  BY CapacityIs
<1>2. Fbloc(k * E + 1) \in 0 .. NB
  <2> DEFINE x == k * E
             y == x + 1
             z == x + E - 1
  <2>1. x \in Nat /\ z = k * E + E - 1
    BY <1>1, EntryAt
  <2> HIDE DEF x
  <2>2. y \in Nat /\ z \in Nat /\ y <= z
    BY <2>1, DirSizes
  <2> HIDE DEF y, z
  <2>3. Fbloc(y) <= Fbloc(z) /\ Fbloc(y) \in Nat
    BY <2>2, BlocsInOrder, BlocOf
  <2>4. Fbloc(z) \in 0 .. NB
    BY <1>1, <2>1
  <2>5. Fbloc(y) \in 0 .. NB
    BY <2>3, <2>4, DirSizes
  <2> QED
    BY <2>5 DEF y, x
<1> QED
  BY <1>1, <1>2, ByteAtIs DEF Num, Nam

LEMMA ShownIs ==
    ASSUME DInv, NEW i \in dirs, Followed(i)
    PROVE  Shown(i) = {Line(i, k) : k \in Used(i)}
<1>1. /\ Shows(vol, text, named, i) /\ i \in DOMAIN text
      /\ vol.disk[i].taille \in Nat /\ vol.disk[i].taille <= NB + 1
  BY FollowedIs DEF Sized
<1> DEFINE z == vol.disk[i].taille * S
<1>2. z <= (NB + 1) * S /\ z \in Nat /\ (NB + 1) * S \in Nat
  BY <1>1, SizeInBytes
<1>3. ASSUME NEW k \in Slots(i)
      PROVE  k \in 0 .. Capacity - 1
  <2>1. k \in 0 .. MaxEntry /\ (k + 1) * E <= z
    BY DEF Slots
  <2>2. k \in Nat
    <3> HIDE DEF z
    <3> QED
      BY <2>1
  <2>3. (k + 1) * E \in Nat
    BY <2>2, EntryAt
  <2> DEFINE a == (k + 1) * E
             b == (NB + 1) * S
  <2> HIDE DEF z
  <2>4. a \in Nat /\ b \in Nat /\ a <= z /\ z <= b /\ z \in Nat
    BY <1>2, <2>1, <2>3
  <2> HIDE DEF a, b
  <2>5. a <= b
    BY <2>4
  <2>6. k < Capacity /\ Capacity \in Nat
    BY <2>2, <2>5, CapacityIs DEF a, b
  <2> QED
    BY <2>2, <2>6
<1>4. ASSUME NEW k \in Used(i)
      PROVE  k \in Slots(i) /\ k \in 0 .. Capacity - 1 /\ Num(text, i, k) # 0
  <2>1. k \in 0 .. Capacity - 1 /\ Num(text, i, k) # 0
    BY DEF Used
  <2>2. (k + 1) * E <= z
    BY <1>1, <2>1 DEF Shows
  <2> QED
    BY <2>1, <2>2, EntryInReach DEF Slots
<1> HIDE DEF z
<1> DEFINE Row0(k) == <<k, ByteAt(i, k * E), ByteAt(i, k * E + 1)>>
<1>5. \A k \in 0 .. Capacity - 1 : Row0(k) = Line(i, k)
  BY <1>1, SlotBytes DEF Line
<1>6. Shown(i) = {e \in {Row0(k) : k \in Slots(i)} : e[2] # 0}
  BY DEF Shown
<1>7. \A k : Line(i, k)[2] = Num(text, i, k)
  BY DEF Line
<1> HIDE DEF Row0
<1>8. ASSUME NEW e \in Shown(i)
      PROVE  e \in {Line(i, k) : k \in Used(i)}
  <2>1. PICK k \in Slots(i) : e = Row0(k) /\ e[2] # 0
    BY <1>6
  <2>2. k \in 0 .. Capacity - 1 /\ e = Line(i, k)
    BY <1>3, <1>5, <2>1
  <2>3. k \in Used(i)
    BY <1>7, <2>1, <2>2 DEF Used
  <2> QED
    BY <2>2, <2>3
<1>9. ASSUME NEW k \in Used(i)
      PROVE  Line(i, k) \in Shown(i)
  <2>1. k \in Slots(i) /\ Row0(k) = Line(i, k) /\ Line(i, k)[2] # 0
    BY <1>4, <1>5, <1>7
  <2> QED
    BY <1>6, <2>1
<1> QED
  BY <1>8, <1>9

\* The entry that a number in use is of.
LEMMA EntryOfUsed ==
    ASSUME DInv, NEW i \in dirs, Followed(i)
    PROVE  /\ \A k \in Used(i) :
                 \E g \in Entries(i) : g[3] = Num(text, i, k) /\ Stored(g[2]) \in {0, Nam(text, i, k)}
           /\ \A g \in Entries(i) : \E k \in Used(i) :
                 g[3] = Num(text, i, k) /\ Stored(g[2]) \in {0, Nam(text, i, k)}
           /\ \A k, l \in Used(i) : Num(text, i, k) = Num(text, i, l) => k = l
<1>1. Shows(vol, text, named, i) /\ Entries(i) = EntriesOf(named, i) /\ Entries(i) \subseteq named
  BY FollowedIs DEF Entries, EntriesOf
<1>2. (\A e \in named : e[3] # 0) /\ (\A e, g \in named : e[3] = g[3] => e = g)
  BY FollowedIs
<1>3. \A k \in Used(i) :
          \E g \in Entries(i) : g[3] = Num(text, i, k) /\ Stored(g[2]) \in {0, Nam(text, i, k)}
  BY <1>1 DEF Shows, Used
<1>4. ASSUME NEW g \in Entries(i)
      PROVE  \E k \in Used(i) : g[3] = Num(text, i, k) /\ Stored(g[2]) \in {0, Nam(text, i, k)}
  <2>1. PICK k \in 0 .. Capacity - 1 : Num(text, i, k) = g[3]
    BY <1>1 DEF Shows
  <2>2. k \in Used(i)
    BY <1>1, <1>2, <2>1 DEF Used
  <2>3. PICK e \in Entries(i) : e[3] = Num(text, i, k) /\ Stored(e[2]) \in {0, Nam(text, i, k)}
    BY <1>3, <2>2
  <2>4. e = g
    BY <1>1, <1>2, <2>1, <2>3
  <2> QED
    BY <2>2, <2>3, <2>4
<1>5. \A k, l \in Used(i) : Num(text, i, k) = Num(text, i, l) => k = l
  BY <1>1 DEF Shows, Used
<1> QED
  BY <1>3, <1>4, <1>5

LEMMA FiniteUsed ==
    ASSUME NEW i
    PROVE  IsFiniteSet(Used(i)) /\ IsFiniteSet({Line(i, k) : k \in Used(i)})
<1>1. IsFiniteSet(0 .. Capacity - 1)
  BY CapacityIs, FS_Interval
<1>2. IsFiniteSet(Used(i))
  <2>1. Used(i) \subseteq 0 .. Capacity - 1
    BY DEF Used
  <2> QED
    BY <1>1, <2>1, FS_Subset
<1> DEFINE f == [k \in Used(i) |-> Line(i, k)]
           T == {Line(i, k) : k \in Used(i)}
<1>3. f \in Surjection(Used(i), T)
  BY DEF Surjection
<1>4. IsFiniteSet(T)
  BY <1>2, <1>3, FS_Surjection
<1> QED
  BY <1>2, <1>4

LEMMA HeldIs ==
    ASSUME DInv, NEW i \in dirs, Followed(i)
    PROVE  Held(i, {Line(i, k) : k \in Used(i)}) = Kept(i)
<1> DEFINE K(e) == <<i, Stored(e[2]), e[3]>>
           H(e) == <<i, IF <<i, 0, e[2]>> \in named THEN 0 ELSE e[3], e[2]>>
<1>1. /\ \A e \in named : e = <<e[1], e[2], e[3]>>
      /\ \A e, g \in named : e[3] = g[3] => e = g
      /\ \A e \in named : e[2] \in Name \cup {0}
  BY FollowedIs
<1>2. Entries(i) \subseteq named /\ \A g \in Entries(i) : g[1] = i
  BY DEF Entries
<1>3. ASSUME NEW k \in Used(i), NEW g \in Entries(i), g[3] = Num(text, i, k),
             Stored(g[2]) \in {0, Nam(text, i, k)}
      PROVE  H(Line(i, k)) = K(g)
  <2>1. g = <<i, g[2], g[3]>> /\ g \in named
    BY <1>1, <1>2
  <2>2. Line(i, k)[2] = g[3] /\ Line(i, k)[3] = Nam(text, i, k)
    BY <1>3 DEF Line
  <2>3. CASE <<i, 0, g[3]>> \in named
    <3> DEFINE e == <<i, 0, g[3]>>
    <3>1. e[3] = g[3] /\ e \in named /\ e[2] = 0
      BY <2>3
    <3>2. e = g
      BY <1>1, <2>1, <3>1
    <3>3. Stored(g[2]) = 0
      BY <3>1, <3>2, StoredIs
    <3> QED
      BY <2>2, <2>3, <3>3
  <2>4. CASE <<i, 0, g[3]>> \notin named
    <3>1. Stored(g[2]) # 0
      BY <1>1, <2>1, <2>4, StoredIs
    <3> QED
      BY <1>3, <2>2, <2>4, <3>1
  <2> QED
    BY <2>3, <2>4
<1>4. /\ \A k \in Used(i) :
            \E g \in Entries(i) : g[3] = Num(text, i, k) /\ Stored(g[2]) \in {0, Nam(text, i, k)}
      /\ \A g \in Entries(i) : \E k \in Used(i) :
            g[3] = Num(text, i, k) /\ Stored(g[2]) \in {0, Nam(text, i, k)}
  BY EntryOfUsed
<1> DEFINE T == {Line(i, k) : k \in Used(i)}
<1>5. (\A k \in Used(i) : Line(i, k) \in T) /\ (\A e \in T : \E k \in Used(i) : e = Line(i, k))
  OBVIOUS
<1> HIDE DEF T
<1>6. Held(i, T) = {H(e) : e \in T}
  BY DEF Held
<1> HIDE DEF H
<1>7. \A k \in Used(i) : \E g \in Entries(i) : H(Line(i, k)) = K(g)
  BY <1>3, <1>4
<1>8. \A g \in Entries(i) : \E k \in Used(i) : H(Line(i, k)) = K(g)
  BY <1>3, <1>4
<1>9. Kept(i) = {K(g) : g \in Entries(i)}
  BY DEF Kept
<1> HIDE DEF K
<1>10. {H(e) : e \in T} = {K(g) : g \in Entries(i)}
  BY <1>5, <1>7, <1>8
<1> QED
  BY <1>6, <1>9, <1>10 DEF T

LEMMA AsMany ==
    ASSUME DInv, NEW i \in dirs, Followed(i)
    PROVE  Cardinality({Line(i, k) : k \in Used(i)}) = Cardinality(Entries(i))
<1> DEFINE T == {Line(i, k) : k \in Used(i)}
           g == [e \in T |-> e[2]]
           h == [e \in Entries(i) |-> e[3]]
<1>1. /\ \A e, b \in named : e[3] = b[3] => e = b
      /\ \A e \in named : e[3] \in Int
  BY FollowedIs
<1>2. /\ \A k \in Used(i) : \E b \in Entries(i) : b[3] = Num(text, i, k)
      /\ \A b \in Entries(i) : \E k \in Used(i) : b[3] = Num(text, i, k)
      /\ \A k, l \in Used(i) : Num(text, i, k) = Num(text, i, l) => k = l
  BY EntryOfUsed
<1>3. Entries(i) \subseteq named
  BY DEF Entries
<1>4. IsFiniteSet(T) /\ IsFiniteSet(Entries(i))
  <2>1. IsFiniteSet(named)
    BY FiniteEntries DEF DInv
  <2>2. IsFiniteSet(Entries(i))
    BY <1>3, <2>1, FS_Subset
  <2> QED
    BY <2>2, FiniteUsed
<1>5. \A k \in Used(i) : Line(i, k) \in T /\ Line(i, k)[2] = Num(text, i, k)
  BY DEF Line
<1>6. \A e \in T : \E k \in Used(i) : e = Line(i, k)
  OBVIOUS
<1> HIDE DEF T
<1>7. g \in [T -> Int] /\ \A x, y \in T : g[x] = g[y] => x = y
  BY <1>1, <1>2, <1>3, <1>5, <1>6
<1>8. h \in [Entries(i) -> Int] /\ \A x, y \in Entries(i) : h[x] = h[y] => x = y
  BY <1>1, <1>3
<1>9. {g[x] : x \in T} = {h[x] : x \in Entries(i)}
  BY <1>2, <1>5, <1>6
<1> HIDE DEF g, h
<1>10. Cardinality({g[x] : x \in T}) = Cardinality(T)
  BY <1>4, <1>7, SameNumber
<1>11. Cardinality({h[x] : x \in Entries(i)}) = Cardinality(Entries(i))
  BY <1>4, <1>8, SameNumber
<1> QED
  BY <1>9, <1>10, <1>11 DEF T

LEMMA DirHolds ==
    ASSUME DInv
    PROVE  DirectoryHolds
<1>1. ASSUME NEW i \in dirs, Followed(i)
      PROVE  Held(i, Shown(i)) = Kept(i) /\ Cardinality(Shown(i)) = Cardinality(Entries(i))
  BY <1>1, ShownIs, HeldIs, AsMany
<1> QED
  BY <1>1 DEF DirectoryHolds

\* new_entry, add_entry and del_entry keep on the disk, in a directory that was not given
\* more entries than a search reads, those that create_file made and delete_file did not
\* take away, each once and by as much of its name as an entry holds, until the volume is
\* full: whatever the size of an entry and of a bloc, though an entry lies in two of them
\* and a call may stop between the two.
THEOREM DirectoriesHold == DirSpec => []DirectoryHolds
  BY DirHolds, DirAlways, PTL

\* s is what entry k of directory i says.
FromLine(s, i, k) ==
    /\ i \in dirs /\ k \in Used(i) /\ s = <<i, k, Num(text, i, k)>>
    /\ \E b \in Entries(i) : b[3] = Num(text, i, k)

LEMMA DirNames ==
    ASSUME DInv
    PROVE  EntriesNameFiles
<1> SUFFICES ASSUME \A i \in dirs : Followed(i)
             PROVE  LET shown == UNION {{<<i, e[1], e[2]>> : e \in Shown(i)} : i \in dirs}
                        files == {s[3] : s \in shown}
                    IN  /\ \A i \in files : vol.disk[i].kind = "inode"
                        /\ Cardinality(files) = Cardinality(shown)
  BY DEF EntriesNameFiles
<1> DEFINE Of(i) == {<<i, e[1], e[2]>> : e \in Shown(i)}
           shown == UNION {Of(i) : i \in dirs}
           g == [s \in shown |-> s[3]]
<1>1. \A i \in dirs : Shown(i) = {Line(i, k) : k \in Used(i)}
  BY ShownIs
<1>2. ASSUME NEW s \in shown
      PROVE  \E i, k : FromLine(s, i, k)
  <2>1. PICK i \in dirs : s \in Of(i)
    OBVIOUS
  <2>2. PICK k \in Used(i) : s = <<i, Line(i, k)[1], Line(i, k)[2]>>
    BY <1>1, <2>1
  <2>3. s = <<i, k, Num(text, i, k)>>
    BY <2>2 DEF Line
  <2>4. \E b \in Entries(i) : b[3] = Num(text, i, k)
    BY EntryOfUsed
  <2> QED
    BY <2>3, <2>4 DEF FromLine
<1>3. IsFiniteSet(shown)
  <2>1. ASSUME NEW i \in dirs
        PROVE  IsFiniteSet(Of(i))
    <3> DEFINE f == [e \in Shown(i) |-> <<i, e[1], e[2]>>]
    <3>1. IsFiniteSet(Shown(i))
      BY <1>1, FiniteUsed
    <3>2. f \in Surjection(Shown(i), Of(i))
      BY DEF Surjection
    <3> HIDE DEF f, Of
    <3> QED
      BY <3>1, <3>2, FS_Surjection
  <2>2. IsFiniteSet(dirs)
    <3>1. dirs \subseteq 1 .. NSector - 1
      BY DirTypes DEF DirTypeOK, TypeOK
    <3>2. IsFiniteSet(1 .. NSector - 1)
      BY FS_Interval, DirSizes
    <3> QED
      BY <3>1, <3>2, FS_Subset
  <2> DEFINE A == {Of(i) : i \in dirs}
             a == [i \in dirs |-> Of(i)]
  <2>3. a \in Surjection(dirs, A)
    BY DEF Surjection
  <2>4. IsFiniteSet(A)
    <3> HIDE DEF A, a
    <3> QED
      BY <2>2, <2>3, FS_Surjection
  <2>5. \A T \in A : IsFiniteSet(T)
    BY <2>1
  <2> HIDE DEF A
  <2>6. IsFiniteSet(UNION A)
    BY <2>4, <2>5, FS_UNION
  <2> QED
    BY <2>6 DEF A
<1>4. \A x, y \in named : x[3] = y[3] => x = y
  BY DEF DInv, Tree
<1>5. \A e \in named : e[3] \in DOMAIN text /\ e[3] \in Int
  BY EntryIs, DirSizes DEF DInv
<1> HIDE DEF shown
<1>6. ASSUME NEW s \in shown, NEW t \in shown, s[3] = t[3]
      PROVE  s = t
  <2>1. PICK i, k : FromLine(s, i, k)
    BY <1>2
  <2>2. PICK j, l : FromLine(t, j, l)
    BY <1>2
  <2>3. Num(text, i, k) = Num(text, j, l)
    BY <1>6, <2>1, <2>2 DEF FromLine
  <2>4. i = j
    BY <1>4, <2>1, <2>2, <2>3 DEF Entries, FromLine
  <2>5. k = l
    BY <2>1, <2>2, <2>3, <2>4, EntryOfUsed DEF FromLine
  <2> QED
    BY <2>1, <2>2, <2>4, <2>5 DEF FromLine
<1>7. \A s \in shown : s[3] \in DOMAIN text /\ s[3] \in Int
  <2> TAKE s \in shown
  <2>1. PICK i, k : FromLine(s, i, k)
    BY <1>2
  <2>2. PICK b \in Entries(i) : b[3] = Num(text, i, k)
    BY <2>1 DEF FromLine
  <2>3. b \in named /\ s[3] = b[3]
    BY <2>1, <2>2 DEF Entries, FromLine
  <2> QED
    BY <1>5, <2>3
<1>8. \A s \in shown : vol.disk[s[3]].kind = "inode"
  BY <1>7, DirTypes DEF DirTypeOK, TypeOK
<1>9. g \in [shown -> Int] /\ \A s, t \in shown : g[s] = g[t] => s = t
  BY <1>6, <1>7
<1>10. {g[s] : s \in shown} = {s[3] : s \in shown}
  OBVIOUS
<1> HIDE DEF g
<1>11. Cardinality({g[s] : s \in shown}) = Cardinality(shown)
  BY <1>3, <1>9, SameNumber
<1> DEFINE files == {s[3] : s \in shown}
<1>12. Cardinality(files) = Cardinality(shown) /\ \A f \in files : vol.disk[f].kind = "inode"
  BY <1>8, <1>10, <1>11
<1> QED
  BY <1>12 DEF shown

\* Since create_file writes the inode before the entry, and del_entry gives no inode back,
\* whatever is interrupted the directories name distinct files, each with its inode.
THEOREM EntriesName == DirSpec => []EntriesNameFiles
  BY DirNames, DirAlways, PTL

\* What a directory shows for a name is a byte.
LEMMA NamIsByte ==
    ASSUME DInv, NEW i \in dirs, NEW k \in 0 .. Capacity - 1
    PROVE  Nam(text, i, k) \in 0 .. W - 1
<1> DEFINE x == k * E + 1
<1>1. x \in Nat /\ Fbloc(x) \in Index
  BY CapacityIs, MaxPosIs, Positions DEF Index
<1> HIDE DEF x
<1>2. x % S \in 0 .. S - 1
  BY <1>1, BlocOf
<1>3. i \in DOMAIN text /\ text \in [DOMAIN text -> [Index -> Bytes]]
  BY DEF DInv, Tree, Quiet, Calm, Lives, Before
<1> DEFINE f == Fbloc(x)
           c == x % S
<1> HIDE DEF f, c
<1>4. text[i][f] \in Bytes /\ c \in 0 .. S - 1
  BY <1>1, <1>2, <1>3 DEF f, c
<1>5. text[i][f][c] \in 0 .. W - 1
  BY <1>4 DEF Bytes
<1> QED
  BY <1>5 DEF Nam, ByteOf, x, f, c

LEMMA DirSearched ==
    ASSUME DInv
    PROVE  SearchIsRight
<1> SUFFICES ASSUME NEW d \in Fd, NEW i \in DOMAIN text, NEW name \in Name, Followed(i)
             PROVE  RightAnswer(InumberOfBasename(Before, d, i, name), i, name)
  BY DEF SearchIsRight
<1> DEFINE q == InumberOfBasename(Before, d, i, name)
<1>1. name # 0
  BY StoredIs
<1>2. CASE i \notin dirs
  <2>1. q.i = 0
    BY <1>2 DEF InumberOfBasename
  <2>2. Kept(i) = {}
    BY <1>2 DEF Kept, Entries, DInv, Tree
  <2> QED
    BY <2>1, <2>2 DEF RightAnswer
<1>3. CASE i \in dirs
  <2>1. Quiet(Before, DOMAIN text, dirs) /\ Before.v.end = "none" /\ Before.v = vol
        /\ Before.text = text
    BY DEF DInv, Tree, Followed, Before
  <2>2. Answers(Before, q, DOMAIN text, dirs, i, name)
    BY <1>1, <1>3, <2>1, BasenameAnswers
  <2> HIDE DEF q
  <2>3. /\ q.i # 0 => \E k \in 0 .. Capacity - 1 :
                         q.i = Num(text, i, k) /\ Nam(text, i, k) = name
        /\ (q.i = 0 /\ q.p.v.end = "none") =>
              \A k \in 0 .. Capacity - 1 :
                  (k + 1) * E <= vol.disk[i].taille * S => ~Wants(text, i, k, name)
    BY <2>1, <2>2 DEF Answers
  <2>4. ASSUME q.i # 0
        PROVE  /\ name \notin Long
               /\ \E e \in Kept(i) : e[3] = q.i /\ e[2] \in {0, name}
    <3>1. PICK k \in 0 .. Capacity - 1 : q.i = Num(text, i, k) /\ Nam(text, i, k) = name
      BY <2>3, <2>4
    <3>2. k \in Used(i)
      BY <2>4, <3>1 DEF Used
    <3>3. PICK g \in Entries(i) : g[3] = Num(text, i, k) /\ Stored(g[2]) \in {0, Nam(text, i, k)}
      BY <1>3, <3>2, EntryOfUsed
    <3>4. <<i, Stored(g[2]), g[3]>> \in Kept(i)
      BY DEF Kept
    <3>5. Nam(text, i, k) \in 0 .. W - 1
      BY <1>3, <3>2, NamIsByte DEF Used
    <3> QED
      BY <3>1, <3>3, <3>4, <3>5, StoredIs
  <2>5. ASSUME q.i = 0, q.p.v.end = "none", NEW e \in Entries(i)
        PROVE  Stored(e[2]) # name
    <3>1. PICK k \in Used(i) : e[3] = Num(text, i, k) /\ Stored(e[2]) \in {0, Nam(text, i, k)}
      BY <1>3, EntryOfUsed
    <3>2. k \in 0 .. Capacity - 1 /\ Num(text, i, k) # 0
      BY DEF Used
    <3>3. (k + 1) * E <= vol.disk[i].taille * S
      BY <1>3, <3>2, FollowedIs DEF Shows
    <3>4. Nam(text, i, k) # name
      BY <1>1, <2>3, <2>5, <3>2, <3>3 DEF Wants, Wanted
    <3> QED
      BY <1>1, <3>1, <3>4
  <2>6. \A g \in Kept(i) : \E e \in Entries(i) : g[2] = Stored(e[2])
    BY DEF Kept
  <2>7. RightAnswer(q, i, name)
    BY <2>4, <2>5, <2>6 DEF RightAnswer
  <2> QED
    BY <2>7 DEF q
<1> QED
  BY <1>2, <1>3

\* inumber_of_basename finds, in a directory that holds its entries, a file that it shows
\* by that name when there is one, and 0 when there is none, when the name is longer than
\* an entry holds, or when the inode is of a file.
THEOREM SearchesAreRight == DirSpec => []SearchIsRight
  BY DirSearched, DirAlways, PTL

=============================================================================
