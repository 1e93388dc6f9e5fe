-------------------------------- MODULE Ifile --------------------------------
(***************************************************************************)
(* Files by inode number: the inodes with their tables of blocs             *)
(* (src/disque/filesystem.c, from read_inode on) and the descriptors with   *)
(* their one-bloc buffer (src/disque/ifile.c), for the programs if_nfile,   *)
(* if_pfile, if_cfile, if_dfile and the library of directories.             *)
(*                                                                          *)
(* A call is one step here; FreeBlocs cuts the calls into sector writes.    *)
(* A call is built from operators on the volume, one per function of the    *)
(* code, applied in the order of the code.                                  *)
(***************************************************************************)
EXTENDS Integers, FiniteSets

CONSTANTS
    NB,         \* NB_BLOCS: direct blocs of an inode, entries of a table
    S,          \* HDA_SECTORSIZE, in bytes
    W,          \* 256, the values of a byte
    NSector,    \* sectors of the volume
    Fd,         \* the descriptors of the process
    Char,       \* the characters written
    MaxFile,    \* files ever created
    Length,     \* how many of them are read or written in a call
    Target      \* the positions a program seeks to

F == (2 + NB) * NB              \* blocs that a file can have
MaxPos == F * S                 \* the first position that has no bloc

ASSUME IfileAssumption ==
    /\ NB \in Nat \ {0} /\ S \in Nat /\ S >= 2 * NB
    /\ NSector \in Nat /\ NSector >= 3
    /\ W \in Nat /\ W * W > NSector
    /\ Char \subseteq 1 .. W - 1
    /\ MaxFile \in Nat /\ Length \subseteq Nat
    /\ Target \subseteq 0 .. MaxPos

VARIABLES
    vol,        \* the superbloc in memory, the sectors, and how the process is
    fd,         \* the descriptors
    text,       \* what the programs wrote: file -> bloc of it -> bytes
    shared      \* the files that two descriptors ever had open together

vars == <<vol, fd, text, shared>>

-----------------------------------------------------------------------------
(* Sectors.                                                                 *)

Index == 0 .. F - 1
Bloc  == 0 .. NSector           \* NSector is the first one past the volume
Bytes == [0 .. S - 1 -> 0 .. W - 1]
Zeros == [k \in 0 .. S - 1 |-> 0]

Super(nb, first) == [kind |-> "super", nb |-> nb, first |-> first]
Free(nb, next)   == [kind |-> "free", nb |-> nb, next |-> next]
Data(bytes)      == [kind |-> "bytes", c |-> bytes]

\* create_inode's inode.
EmptyInode == [kind |-> "inode", taille |-> 0, direct |-> [k \in 0 .. NB - 1 |-> 0],
               indirect |-> 0, double |-> 0]

Put(v, b, sector) == [v EXCEPT !.disk[b] = sector]
Clean(v, b) == Put(v, b, Data(Zeros))
SaveSuper(v) == Put(v, 0, Super(v.nb, v.first))

\* Nothing of v happens in a call that has already ended the process.
Ends(v, how) == [v EXCEPT !.end = how]
Then(v, w) == IF v.end = "none" THEN w ELSE v

-----------------------------------------------------------------------------
(* new_bloc and free_bloc.                                                  *)

\* Mistake: first_free is returned, not the one it was.
NewBlocAfter(v) ==
    LET run == [v EXCEPT !.nb = v.nb - 1, !.first = v.first + 1]
    IN  IF v.nb = 0 THEN [v |-> v, b |-> 0]
        ELSE [v |-> Put(SaveSuper(run), run.first, v.disk[v.first]), b |-> run.first]

\* Blocs given back are handed out again by FreeBlocs, with what comes of it:
\* here the first new_bloc after a free_bloc ends the life of the volume.
NewBloc(v) ==
    LET run == [v EXCEPT !.nb = v.nb - 1, !.first = v.first + 1]
    IN  IF v.nb = 0 THEN [v |-> v, b |-> 0]
        ELSE IF v.gave THEN [v |-> Ends(v, "given"), b |-> 0]
        ELSE [v |-> Put(SaveSuper(run), run.first, v.disk[v.first]), b |-> v.first]

\* Mistake: the bloc is cleaned last.
FreeBlocCleaned(v, b) ==
    LET given == [v EXCEPT !.nb = v.nb + 1, !.first = b, !.gave = TRUE]
    IN  Clean(Put(SaveSuper(given), b, Free(1, v.first)), b)

FreeBloc(v, b) ==
    LET given == [v EXCEPT !.nb = v.nb + 1, !.first = b, !.gave = TRUE]
    IN  Put(Clean(SaveSuper(given), b), b, Free(1, v.first))

-----------------------------------------------------------------------------
(* The tables: two bytes for each of their entries.                         *)

Entry(t, k) == W * t[2 * k] + t[2 * k + 1]
WithEntry(t, k, b) == [t EXCEPT ![2 * k] = b \div W, ![2 * k + 1] = b % W]

\* "(table1[idx_lvl1*2]>>8) + table1[idx_lvl1*2+1]"
Level2(t, k) == t[2 * k] \div W + t[2 * k + 1]

\* "(table2[idx_lvl2] << 8) + table2[idx_lvl2] == NULL_BLOC": one byte, twice.
Level2Empty(t, k) == W * t[k] + t[k] = 0

Row(f)    == (f - NB) \div NB - 1
Column(f) == (f - 2 * NB) - Row(f) * NB

\* Mistakes: off by one, either way.
GrownMore(taille, f) == IF taille <= f THEN f + 2 ELSE taille
GrownLess(taille, f) == IF taille < f THEN f + 1 ELSE taille

Grown(taille, f) == IF taille <= f THEN f + 1 ELSE taille

IsTable(v, b) == b \in Bloc /\ v.disk[b].kind = "bytes"
Table(v, b) == v.disk[b].c

-----------------------------------------------------------------------------
(* vbloc_of_fbloc.                                                          *)

LookupDouble(v, ino, f) ==
    LET b2 == Level2(Table(v, ino.double), Row(f))
    IN  IF b2 = 0 \/ Level2Empty(Table(v, b2), Column(f)) THEN 0
        ELSE Entry(Table(v, b2), Column(f))

\* The sectors it reads are of the kind it takes them for.
Legible(v, i, f) ==
    LET ino == v.disk[i]
    IN  /\ f \in NB .. 2 * NB - 1 => ino.indirect = 0 \/ IsTable(v, ino.indirect)
        /\ f \in 2 * NB .. F - 1 /\ ino.double # 0 =>
              /\ IsTable(v, ino.double)
              /\ LET b2 == Level2(Table(v, ino.double), Row(f))
                 IN  b2 = 0 \/ IsTable(v, b2)

Lookup(v, i, f) ==
    LET ino == v.disk[i]
    IN  CASE f < NB -> ino.direct[f]
          [] f \in NB .. 2 * NB - 1 ->
                IF ino.indirect = 0 THEN 0
                ELSE Entry(Table(v, ino.indirect), f - NB)
          [] f \in 2 * NB .. F - 1 ->
                IF ino.double = 0 THEN 0 ELSE LookupDouble(v, ino, f)
          [] OTHER -> 0

-----------------------------------------------------------------------------
(* allocate_vbloc_of_fbloc: a bloc, or 0, and the volume after it.  n is     *)
(* what new_bloc gave, ino the inode as it was read before.                 *)

Gives(v, b) == [v |-> v, b |-> b]

\* Named first, cleaned then.
DirectNamed(n, i, ino, f) ==
    LET named == [ino EXCEPT !.direct[f] = n.b, !.taille = Grown(@, f)]
    IN  Gives(Then(n.v, Clean(Put(n.v, i, named), n.b)), n.b)

\* Mistake: a bloc is taken whether there is one or not.
AllocateDirectAnew(v, i, f) == DirectNamed(NewBloc(v), i, v.disk[i], f)

AllocateDirect(v, i, f) ==
    IF v.disk[i].direct[f] # 0 THEN Gives(v, v.disk[i].direct[f])
    ELSE DirectNamed(NewBloc(v), i, v.disk[i], f)

\* Mistake: the inode is not written back.
IndirectUnnamed(n, i, ino, f) == Gives(Then(n.v, Clean(n.v, n.b)), n.b)

\* The table of one level, made when it is missing; only then does the inode grow.
IndirectNamed(n, i, ino, f) ==
    LET named == [ino EXCEPT !.indirect = n.b, !.taille = Grown(@, f)]
    IN  Gives(Then(n.v, Put(Clean(n.v, n.b), i, named)), n.b)

WithIndirect(v, i, f) ==
    IF v.disk[i].indirect # 0 THEN Gives(v, v.disk[i].indirect)
    ELSE IndirectNamed(NewBloc(v), i, v.disk[i], f)

EntryNamed(n, t, bytes, k) ==
    Gives(Then(n.v, Clean(Put(n.v, t, Data(WithEntry(bytes, k, n.b))), n.b)), n.b)

InTable(t, k) ==
    LET bytes == Table(t.v, t.b)
    IN  IF t.v.end # "none" THEN t
        ELSE IF Entry(bytes, k) # 0 THEN Gives(t.v, Entry(bytes, k))
        ELSE EntryNamed(NewBloc(t.v), t.b, bytes, k)

AllocateIndirect(v, i, f) == InTable(WithIndirect(v, i, f), f - NB)

\* The table of tables, then the table of its row, then the bloc.
DoubleNamed(n, i, ino) ==
    Gives(Then(n.v, Put(Clean(n.v, n.b), i, [ino EXCEPT !.double = n.b])), n.b)

WithDouble(v, i) ==
    IF v.disk[i].double # 0 THEN Gives(v, v.disk[i].double)
    ELSE DoubleNamed(NewBloc(v), i, v.disk[i])

\* From W on, Level2 does not find this number again.
RowNamed(n, t, bytes, k) ==
    LET v == [n.v EXCEPT !.astray = @ \/ n.b >= W]
    IN  Gives(Then(v, Put(Clean(v, n.b), t, Data(WithEntry(bytes, k, n.b)))), n.b)

WithRow(t, f) ==
    LET bytes == Table(t.v, t.b)
    IN  IF t.v.end # "none" THEN t
        ELSE IF Level2(bytes, Row(f)) # 0 THEN Gives(t.v, Level2(bytes, Row(f)))
        ELSE RowNamed(NewBloc(t.v), t.b, bytes, Row(f))

\* Cleaned twice.
LeafNamed(n, i, t, bytes, f) ==
    LET named == [n.v.disk[i] EXCEPT !.taille = Grown(@, f)]
        written == Data(WithEntry(bytes, Column(f), n.b))
    IN  Gives(Then(n.v, Clean(Put(Put(Clean(n.v, n.b), i, named), t, written), n.b)),
              n.b)

InRow(t, i, f) ==
    LET bytes == Table(t.v, t.b)
    IN  IF t.v.end # "none" THEN t
        ELSE IF ~IsTable(t.v, t.b) THEN Gives(Ends(t.v, "wild"), 0)
        ELSE IF Level2Empty(bytes, Column(f))
        THEN LeafNamed(NewBloc(t.v), i, t.b, bytes, f)
        ELSE Gives(t.v, Entry(bytes, Column(f)))

AllocateDouble(v, i, f) == InRow(WithRow(WithDouble(v, i), f), i, f)

\* What a sector of another kind means as a table is not modelled.
Allocate(v, i, f) ==
    CASE v.end # "none" -> Gives(v, 0)
      [] v.end = "none" /\ v.disk[i].kind # "inode" -> Gives(Ends(v, "abort"), 0)
      [] v.end = "none" /\ v.disk[i].kind = "inode" /\ ~Legible(v, i, f) ->
            Gives(Ends(v, "wild"), 0)
      [] OTHER ->
            CASE f < NB -> AllocateDirect(v, i, f)
              [] f \in NB .. 2 * NB - 1 -> AllocateIndirect(v, i, f)
              [] f \in 2 * NB .. F - 1 -> AllocateDouble(v, i, f)
              [] OTHER -> Gives(v, 0)

-----------------------------------------------------------------------------
(* Descriptors.                                                             *)

Closed == [open |-> FALSE, inoeud |-> 0, cursor |-> 0, size |-> 0, buffer |-> Zeros,
           modified |-> FALSE]

Fbloc(pos) == pos \div S
At(d) == Fbloc(d.cursor)

\* What is in the buffer goes to the bloc that was found or made for it.
Written(a, d) == Then(a.v, Put(a.v, a.b, Data(d.buffer)))

FlushIfile(v, d) ==
    IF d.modified THEN Written(Allocate(v, d.inoeud, At(d)), d) ELSE v

\* What the buffer becomes when the cursor goes to another bloc; modified stays.
Moved(a, d, pos) ==
    LET there == [d EXCEPT !.cursor = pos, !.buffer = Table(a.v, a.b)]
    IN  IF a.v.end # "none" THEN [v |-> a.v, d |-> d]
        ELSE IF a.b = 0 THEN [v |-> Ends(a.v, "exit"), d |-> d]
        ELSE IF ~IsTable(a.v, a.b) THEN [v |-> Ends(a.v, "wild"), d |-> d]
        ELSE [v |-> a.v, d |-> there]

\* Mistake: what is in the buffer is not flushed before another bloc is read.
SeekIfileUnflushed(v, d, pos) ==
    IF Fbloc(pos) = At(d) THEN [v |-> v, d |-> [d EXCEPT !.cursor = pos]]
    ELSE Moved(Allocate(v, d.inoeud, Fbloc(pos)), d, pos)

SeekIfile(v, d, pos) ==
    IF Fbloc(pos) = At(d) THEN [v |-> v, d |-> [d EXCEPT !.cursor = pos]]
    ELSE Moved(Allocate(FlushIfile(v, d), d.inoeud, Fbloc(pos)), d, pos)

\* delete_ifile: what the blocs of the file are is looked up one after the other,
\* up to the size, and the tables are not given back.
Without(v, i, f) ==
    IF v.end # "none" THEN v
    ELSE IF ~Legible(v, i, f) THEN Ends(v, "wild")
    ELSE FreeBloc(v, Lookup(v, i, f))

\* Mistake: the inode is given back first.
DeleteIfileFirst(v, i) ==
    LET without[n \in 0 .. v.disk[i].taille] ==
            IF n = 0 THEN FreeBloc(v, i)
            ELSE IF ~Legible(v, i, n - 1) THEN Ends(without[n - 1], "wild")
            ELSE FreeBloc(without[n - 1], Lookup(v, i, n - 1))
    IN  without[v.disk[i].taille]

DeleteIfile(v, i) ==
    LET without[n \in 0 .. v.disk[i].taille] ==
            IF n = 0 THEN v ELSE Without(without[n - 1], i, n - 1)
        emptied == without[v.disk[i].taille]
    IN  Then(emptied, FreeBloc(emptied, i))

-----------------------------------------------------------------------------
(* A life of the volume.                                                    *)

Fresh == [nb |-> NSector - 1, first |-> 1, end |-> "none", gave |-> FALSE, astray |-> FALSE,
          disk |-> [b \in Bloc |->
                      CASE b = 0 -> Super(NSector - 1, 1)
                        [] b = 1 -> Free(NSector - 1, 0)
                        [] OTHER -> Data(Zeros)]]

\* A volume that init_super made; the directory that mknfs adds is one of the files.
Init ==
    /\ vol = Fresh
    /\ fd = [d \in Fd |-> Closed]
    /\ text = [i \in {} |-> {}]
    /\ shared = {}

\* What the bloc of an index holds.
Content(v, i, f) ==
    IF Legible(v, i, f) /\ Lookup(v, i, f) # 0 /\ IsTable(v, Lookup(v, i, f))
    THEN Table(v, Lookup(v, i, f)) ELSE Zeros

Running == vol.end = "none"

\* What a call changes, threaded through the functions it calls.
Before == [v |-> vol, fd |-> fd, text |-> text]

\* What was to be in a bloc is lost: it is what the disk says.
Forget(v, said, d) ==
    [said EXCEPT ![d.inoeud][At(d)] = Content(v, d.inoeud, At(d))]

\* ... when the volume has no bloc for it: the buffer went to bloc 0.
Refused(v, d) ==
    v.nb = 0 /\ Legible(v, d.inoeud, At(d)) /\ Lookup(v, d.inoeud, At(d)) = 0

\* ... and when the process is gone with its buffers.
ForgetAll(v, fds, said) ==
    [i \in DOMAIN said |-> [f \in Index |->
        IF \E d \in Fd : fds[d].open /\ fds[d].inoeud = i /\ At(fds[d]) = f
        THEN Content(v, i, f) ELSE said[i][f]]]

Returns(p) ==
    /\ vol' = p.v
    /\ IF p.v.end = "none" THEN fd' = p.fd /\ text' = p.text
       ELSE /\ fd' = [d \in Fd |-> Closed]
            /\ text' = ForgetAll(p.v, p.fd, p.text)

\* create_inode on the bloc that new_bloc gave, 0 included: that is no file.
Created(n, p) ==
    LET blank == [f \in Index |-> Zeros]
    IN  [v |-> Then(n.v, Put(n.v, n.b, EmptyInode)), fd |-> p.fd,
         text |-> IF n.v.end # "none" \/ n.b = 0 THEN p.text
                  ELSE [i \in DOMAIN p.text \cup {n.b} |->
                          IF i = n.b THEN blank ELSE p.text[i]]]

Opened(v, i) ==
    [open |-> TRUE, inoeud |-> i, cursor |-> 0, size |-> v.disk[i].taille,
     modified |-> FALSE, buffer |-> Content(v, i, 0)]

\* d is closed on the volume that its flush left.
ClosedOn(v, p, d) ==
    LET gone == v.end # "none" \/ (p.fd[d].modified /\ Refused(v, p.fd[d]))
    IN  [v |-> v, fd |-> [p.fd EXCEPT ![d] = Closed],
         text |-> IF gone THEN Forget(v, p.text, p.fd[d]) ELSE p.text]

Sought(s, p, d, left) ==
    [v |-> s.v, fd |-> [p.fd EXCEPT ![d] = s.d],
     text |-> IF s.v.end = "none" /\ left /\ Refused(s.v, p.fd[d])
              THEN Forget(s.v, p.text, p.fd[d]) ELSE p.text]

Seek(p, d, pos) ==
    Sought(SeekIfile(p.v, p.fd[d], pos), p, d,
           Fbloc(pos) # At(p.fd[d]) /\ p.fd[d].modified)

\* Before the end of the file as it was when it was opened.
Readc(p, d) ==
    IF p.v.end # "none" \/ p.fd[d].cursor >= p.fd[d].size * S THEN p
    ELSE Seek(p, d, p.fd[d].cursor + 1)

Writec(p, d, c) ==
    LET at == p.fd[d]
        k == at.cursor % S
        typed == [p.fd EXCEPT ![d] = [at EXCEPT !.buffer[k] = c, !.modified = TRUE]]
        said == [p.text EXCEPT ![at.inoeud][At(at)][k] = c]
    IN  IF p.v.end # "none" THEN p
        ELSE Seek([v |-> p.v, fd |-> typed, text |-> said], d, at.cursor + 1)

-----------------------------------------------------------------------------
(* The calls.                                                               *)

CreateIfile ==
    /\ Running /\ Cardinality(DOMAIN text) < MaxFile
    /\ Returns(Created(NewBloc(vol), Before))
    /\ UNCHANGED shared

OpenIfile(d, i) ==
    /\ Running /\ ~fd[d].open /\ Legible(vol, i, 0)
    /\ fd' = [fd EXCEPT ![d] = Opened(vol, i)]
    /\ shared' = IF \E e \in Fd : fd[e].open /\ fd[e].inoeud = i
                 THEN shared \cup {i} ELSE shared
    /\ UNCHANGED <<vol, text>>

Flush(d) ==
    /\ Running /\ fd[d].open
    /\ Returns([Before EXCEPT !.v = FlushIfile(vol, fd[d])])
    /\ UNCHANGED shared

CloseIfile(d) ==
    /\ Running /\ fd[d].open
    /\ Returns(ClosedOn(FlushIfile(vol, fd[d]), Before, d))
    /\ UNCHANGED shared

\* seek_file to a position, seek2_ifile.
Seek2Ifile(d, pos) ==
    /\ Running /\ fd[d].open /\ pos # fd[d].cursor
    /\ Returns(Seek(Before, d, pos))
    /\ UNCHANGED shared

\* read_ifile: the return value is left out.
ReadIfile(d, nbyte) ==
    LET after[n \in 0 .. nbyte] == IF n = 0 THEN Before ELSE Readc(after[n - 1], d)
    IN  /\ Running /\ fd[d].open
        /\ Returns(after[nbyte])
        /\ UNCHANGED shared

\* write_ifile of the same character, writec_ifile when there is one.
WriteIfile(d, c, nbyte) ==
    LET after[n \in 0 .. nbyte] == IF n = 0 THEN Before ELSE Writec(after[n - 1], d, c)
    IN  /\ Running /\ fd[d].open
        /\ Returns(after[nbyte])
        /\ UNCHANGED shared

\* if_dfile: nothing is open.
Delete(i) ==
    /\ Running /\ \A d \in Fd : ~fd[d].open
    /\ Returns([v |-> DeleteIfile(vol, i), fd |-> fd,
                text |-> [j \in DOMAIN text \ {i} |-> text[j]]])
    /\ UNCHANGED shared

\* Another program, mount or load_super: the superbloc must be one.
Restart ==
    /\ vol.end \in {"none", "exit", "abort"}
    /\ vol.disk[0].kind = "super"
    /\ vol' = [vol EXCEPT !.nb = vol.disk[0].nb, !.first = vol.disk[0].first,
                          !.end = "none"]
    /\ fd' = [d \in Fd |-> Closed]
    /\ text' = ForgetAll(vol, fd, text)
    /\ UNCHANGED shared

Next ==
    \/ CreateIfile \/ Restart
    \/ \E i \in DOMAIN text : Delete(i)
    \/ \E d \in Fd :
          \/ \E i \in DOMAIN text : OpenIfile(d, i)
          \/ Flush(d) \/ CloseIfile(d)
          \/ \E pos \in Target : Seek2Ifile(d, pos)
          \/ \E n \in Length : ReadIfile(d, n) \/ \E c \in Char : WriteIfile(d, c, n)

Spec == Init /\ [][Next]_vars

-----------------------------------------------------------------------------
(* What is checked.                                                         *)

Inode == [kind : {"inode"}, taille : 0 .. F, direct : [0 .. NB - 1 -> Bloc],
          indirect : Bloc, double : Bloc]

IsSector(s) ==
    \/ s.kind = "super" /\ s.nb \in Nat /\ s.first \in Bloc
    \/ s.kind = "free" /\ s.nb \in Nat /\ s.next \in Bloc
    \/ s.kind = "bytes" /\ s.c \in Bytes
    \/ s \in Inode

\* Types, for the state and for the sectors; the number of a file is that of an
\* inode, so read_inode's assertion never stops a process.
TypeOK ==
    /\ vol.nb \in Nat /\ vol.first \in Bloc
    /\ vol.end \in {"none", "exit", "abort", "given", "wild"}
    /\ \A b \in Bloc : IsSector(vol.disk[b])
    /\ \A d \in Fd : fd[d].cursor \in 0 .. MaxPos - 1 /\ fd[d].buffer \in Bytes
                     /\ fd[d].size \in 0 .. F
                     /\ fd[d].open => fd[d].inoeud \in DOMAIN text
    /\ DOMAIN text \subseteq 1 .. NSector - 1
    /\ \A i \in DOMAIN text : vol.disk[i].kind = "inode"

\* The blocs that an inode names, each with the place of its name.
Place == ({"direct", "entry", "row"} \X (0 .. NB - 1))
         \cup ({"leaf"} \X (2 * NB .. F - 1)) \cup {<<"indirect", 0>>, <<"double", 0>>}
Named(b, k) == IF b # 0 /\ IsTable(vol, b) THEN Entry(Table(vol, b), k) ELSE 0
Place2Bloc(i, p) ==
    LET ino == vol.disk[i]
    IN  CASE p[1] = "direct"   -> ino.direct[p[2]]
          [] p[1] = "indirect" -> ino.indirect
          [] p[1] = "double"   -> ino.double
          [] p[1] = "entry"    -> Named(ino.indirect, p[2])
          [] p[1] = "row"      -> Named(ino.double, p[2])
          [] p[1] = "leaf"     -> Named(Named(ino.double, Row(p[2])), Column(p[2]))
Owners == {o \in (DOMAIN text) \X Place : Place2Bloc(o[1], o[2]) # 0}
Reached == DOMAIN text \cup {Place2Bloc(o[1], o[2]) : o \in Owners}

\* No bloc has two names: not in two files, not at two places of one, and no
\* bloc of a file is an inode, the superbloc or free.
OneOwner ==
    LET owners == Owners
        owned  == {Place2Bloc(o[1], o[2]) : o \in owners}
    IN  vol.end # "wild" =>
            /\ Cardinality(owned) = Cardinality(owners)
            /\ owned \cap DOMAIN text = {}
            /\ \A b \in owned : b < vol.first \/ vol.gave

\* As long as no file reached its second level, every bloc taken from the volume
\* can be reached from an inode, whatever was written, sought, closed or refused.
NothingLeaks ==
    ~vol.gave /\ (\A i \in DOMAIN text : vol.disk[i].double = 0) =>
        1 .. vol.first - 1 \subseteq Reached

\* In the first two levels, a file is what was written in it, through the buffer
\* that is on it or from the disk, whatever the other files go through.
ReadsWhatWasWritten ==
    vol.end # "wild" /\ ~vol.astray =>
        \A i \in DOMAIN text \ shared, f \in 0 .. 2 * NB - 1 :
            LET on == {d \in Fd : fd[d].open /\ fd[d].inoeud = i /\ At(fd[d]) = f}
            IN  text[i][f] = IF on = {} THEN Content(vol, i, f)
                             ELSE fd[CHOOSE d \in on : TRUE].buffer

\* The comment of aux_vbloc_of_fbloc, for the first two levels: the bloc of an
\* index is the same as long as the file is there.
KeepsBloc ==
    [][\A i \in DOMAIN text \cap DOMAIN text', f \in 0 .. 2 * NB - 1 :
          Lookup(vol, i, f) # 0 => Lookup(vol', i, f) = Lookup(vol, i, f)]_vars

\* Outside the table of one level, whose blocs after the first are not counted,
\* the size covers every bloc of a file.
SizeCovers ==
    vol.end # "wild" =>
        \A o \in Owners :
            (o[2][1] \in {"direct", "leaf"} => o[2][2] < vol.disk[o[1]].taille)

\* A file deleted with a bloc for every index below its size, none of them in the
\* second level, gives back these and its inode, and nothing that another file has.
DeleteReturns ==
    [][\A i \in DOMAIN text \ DOMAIN text' :
          LET below == 0 .. vol.disk[i].taille - 1
              blocs == {Lookup(vol, i, f) : f \in below}
          IN  vol.disk[i].double = 0 /\ 0 \notin blocs =>
              {b \in 1 .. NSector - 1 : vol'.disk[b].kind = "free"
                                        /\ vol.disk[b].kind # "free"}
                  = blocs \cup {i}]_vars

\* Only a write that found no bloc left ends with the superbloc written over: the
\* deletion of a file with holes gives bloc 0 back for each of them, header and all,
\* but saves the superbloc again with the bloc that follows, the inode at the latest.
SuperExplained ==
    [][vol.disk[0].kind = "super" /\ vol'.disk[0].kind # "super" => vol'.nb = 0]_vars

\* "Si le bloc est alloue, sont numero est retourne" (filesystem.c:488): a bloc that
\* the table of a row names is the one that vbloc_of_fbloc returns.
AllocatedIsFound ==
    vol.end = "none" => \A o \in Owners :
        o[2][1] = "leaf" /\ Legible(vol, o[1], o[2][2]) =>
            Lookup(vol, o[1], o[2][2]) = Place2Bloc(o[1], o[2])
=============================================================================
