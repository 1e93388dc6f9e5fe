------------------------------ MODULE Directory ------------------------------
(***************************************************************************)
(* Directories (src/disque/dir.c) and the file interface that names files   *)
(* in them (src/disque/file.c), on top of the open files of Ifile.          *)
(*                                                                          *)
(* A directory is a file of entries.  An entry is an inode number, a name   *)
(* of at most ENTRYMAXLENGTH - 1 characters, here a byte, and the zeros that*)
(* pad it; its size divides no bloc, so an entry may lie in two.  Each call *)
(* opens the directory, reads its entries one by one with read_ifile, and   *)
(* so has all the effects of reading; its descriptor is a local of it.      *)
(***************************************************************************)
EXTENDS Ifile, Sequences

CONSTANTS
    Name,       \* the names, as programs give them: a byte, or one of Long
    Long,       \* those of ENTRYMAXLENGTH characters or more
    Start,      \* their first ENTRYMAXLENGTH - 1 characters
    E,          \* sizeof(struct entry_s): a byte for the number, one for the name
    Path,       \* the paths that programs search and delete: sequences of names
    Request     \* the files that they create: <<path, type>>

\* An inode number is an int of an entry, never cut; an entry (20 bytes) is smaller
\* than a bloc (512).
ASSUME DirectoryAssumption ==
    /\ NB >= 2 /\ W > NSector /\ E \in 2 .. S - 1
    /\ Long \subseteq Name \ (0 .. W - 1) /\ Start \in [Long -> 1 .. W - 1]
    /\ Name \ Long \subseteq 1 .. W - 1
    /\ Path \subseteq Seq(Name) \ {<<>>}
    /\ Request \subseteq (Seq(Name) \ {<<>>}) \X {"NORMAL", "DIRECTORY"}

VARIABLES
    dirs,       \* the files whose inode has the type DIRECTORY
    named,      \* what was named and not deleted: {<<directory, name, inode>>}
    crowded     \* the directories that were given more entries than a search reads

dirVars == <<dirs, named, crowded>>
allVars == <<vars, dirVars>>

Root == 1                               \* super->root, the first bloc that mknfs takes
MaxEntry == MaxPos \div E + 1

\* The entries below the size of a directory, which stays where the table of one
\* level begins: reading never makes it longer.
Capacity == ((NB + 1) * S) \div E

-----------------------------------------------------------------------------
(* Calls of the lower layer, that do nothing once the process is over.      *)

Iopen(p, d, i) ==
    IF p.v.end # "none" THEN p
    ELSE IF ~Legible(p.v, i, 0) THEN [p EXCEPT !.v = Ends(@, "wild")]
    ELSE [p EXCEPT !.fd[d] = Opened(p.v, i)]

SeekTo(p, d, pos) == IF p.v.end # "none" THEN p ELSE Seek(p, d, pos)
Close(p, d) ==
    IF p.v.end # "none" THEN p ELSE ClosedOn(FlushIfile(p.v, p.fd[d]), p, d)

Char1(p, d) == p.fd[d].buffer[p.fd[d].cursor % S]

\* Mistake: the name before the number.
ByteTurned(k, inumber, name) == IF k = 1 THEN name ELSE IF k = 2 THEN inumber ELSE 0

\* The k-th byte of an entry.
Byte(k, inumber, name) == IF k = 1 THEN inumber ELSE IF k = 2 THEN name ELSE 0

WriteEntry(p, d, inumber, name) ==
    LET after[n \in 0 .. E] ==
            IF n = 0 THEN p ELSE Writec(after[n - 1], d, Byte(n, inumber, name))
    IN  after[E]

ReadBytes(p, d, nbyte) ==
    LET after[n \in 0 .. nbyte] == IF n = 0 THEN p ELSE Readc(after[n - 1], d)
    IN  after[nbyte]

-----------------------------------------------------------------------------
(* new_entry and find_entry: entries are read until one is wanted, or the   *)
(* end of the file, which may come in the middle of one.                    *)

\* new_entry wants a free entry, the search of the name 0.  find_entry compares all
\* of a name, or its first ENTRYMAXLENGTH characters when inumber_of_path copied it:
\* no entry holds as many, and a name of Long is no byte.  (That copy ends one behind
\* its array, on lg or on the canary, and neither is looked at when nothing is found.)
Wanted(inumber, found, name) ==
    IF name = 0 THEN inumber = 0 ELSE inumber # 0 /\ found = name

\* r and s are the states after the first and the last byte of the entry.
EntryRead(q, r, s, d, name) ==
    IF s.v.end # "none" THEN [q EXCEPT !.p = s]
    ELSE IF s.fd[d].cursor # q.p.fd[d].cursor + E THEN [q EXCEPT !.p = s, !.on = FALSE]
    ELSE IF Wanted(Char1(q.p, d), Char1(r, d), name)
    THEN [q EXCEPT !.p = s, !.on = FALSE, !.found = TRUE]
    ELSE [q EXCEPT !.p = s, !.ientry = @ + 1]

ReadRest(q, r, d, name) ==
    EntryRead(q, r, ReadBytes(r, d, E - 1), d, name)

NextEntry(q, d, name) ==
    IF ~q.on \/ q.p.v.end # "none" THEN q ELSE ReadRest(q, Readc(q.p, d), d, name)

Look(p, d, name) ==
    LET look[n \in 0 .. MaxEntry] ==
            IF n = 0 THEN [p |-> p, ientry |-> 0, on |-> TRUE, found |-> FALSE]
            ELSE NextEntry(look[n - 1], d, name)
    IN  look[MaxEntry]

NewEntry(p, d) == Look(p, d, 0)
FindEntry(p, d, name) == Look(p, d, name)

-----------------------------------------------------------------------------
(* add_entry, del_entry, inumber_of_basename, for the inode of a directory. *)

\* Mistake: the entry is written where the search stopped.
PutEntryThere(q, d, inumber, name) == Close(WriteEntry(q.p, d, inumber, name), d)

\* What add_entry keeps of a name.
Stored(name) == IF name \in Long THEN Start[name] ELSE name

\* An entry is written at the index that was found, and the directory closed.
PutEntry(q, d, inumber, name) ==
    Close(WriteEntry(SeekTo(q.p, d, q.ientry * E), d, inumber, name), d)

AddEntry(p, d, idir, inumber, name) ==
    PutEntry(NewEntry(Iopen(p, d, idir), d), d, inumber, Stored(name))

ZeroEntry(q, d) == IF q.found THEN PutEntry(q, d, 0, 0) ELSE Close(q.p, d)
DelEntry(p, d, idir, name) == ZeroEntry(FindEntry(Iopen(p, d, idir), d, name), d)

\* Mistake: the entry is read where the search stopped, after the one it found.
ReadFoundNext(q, d) == [p |-> Close(ReadBytes(q.p, d, E), d), i |-> Char1(q.p, d)]

\* The entry that was found is read again.
ReadAt(p, d) == [p |-> Close(ReadBytes(p, d, E), d), i |-> Char1(p, d)]
ReadFound(q, d) == ReadAt(SeekTo(q.p, d, q.ientry * E), d)

\* 0 without closing the descriptor when there is no such entry.
FoundOr0(q, d) ==
    IF q.p.v.end # "none" THEN [p |-> q.p, i |-> 0]
    ELSE IF q.found THEN ReadFound(q, d)
    ELSE [p |-> [q.p EXCEPT !.fd[d] = Closed], i |-> 0]

InumberOfBasename(p, d, idir, name) ==
    IF p.v.end # "none" \/ idir \notin dirs THEN [p |-> p, i |-> 0]
    ELSE FoundOr0(FindEntry(Iopen(p, d, idir), d, name), d)

\* inumber_of_path, from the root, as long as there is something to follow.
Follow(q, d, name) == IF q.i = 0 THEN q ELSE InumberOfBasename(q.p, d, q.i, name)

InumberOfPath(p, d, path) ==
    LET walk[n \in 0 .. Len(path)] ==
            IF n = 0 THEN [p |-> p, i |-> Root] ELSE Follow(walk[n - 1], d, path[n])
    IN  walk[Len(path)]

Dirname(path)  == SubSeq(path, 1, Len(path) - 1)
Basename(path) == path[Len(path)]

\* dinumber_of_path: 0 when it is no directory.
OrNoDir(q) == IF q.p.v.end = "none" /\ q.i \in dirs THEN q ELSE [q EXCEPT !.i = 0]
DinumberOfPath(p, d, path) == OrNoDir(InumberOfPath(p, d, Dirname(path)))

-----------------------------------------------------------------------------
(* The calls.  d is their local descriptor.                                 *)

\* The process is over, with what it had in memory.
Dies(p) ==
    /\ vol' = p.v
    /\ fd' = [d \in Fd |-> Closed]
    /\ text' = ForgetAll(p.v, p.fd, p.text)

Entries(i) == {e \in named : e[1] = i}

\* What becomes of a directory that has an entry more.
Crowds(i) == IF Cardinality(Entries(i)) >= Capacity THEN crowded \cup {i} ELSE crowded
Typed(i, t) == IF t = "DIRECTORY" THEN dirs \cup {i} ELSE dirs

\* The first byte of an entry is on the disk when it is the last of a bloc.
Half(q, d, inumber) == Writec(SeekTo(q.p, d, q.ientry * E), d, inumber)
HalfStored(p, d) == p.v.end = "none" /\ p.fd[d].cursor % S = 0

\* mknfs: a fresh volume whose first bloc is the root directory.
DirInit ==
    LET made == Created(NewBloc(Fresh), [v |-> Fresh, fd |-> [d \in Fd |-> Closed],
                                         text |-> [i \in {} |-> {}]])
    IN  /\ vol = made.v /\ fd = made.fd /\ text = made.text
        /\ shared = {}
        /\ dirs = {Root} /\ named = {} /\ crowded = {}

\* add_entry of the file i returned, or exit ended it.
Entered(p, dir, i, path, t) ==
    /\ Returns(p)
    /\ dirs' = Typed(i, t) /\ crowded' = Crowds(dir.i)
    /\ named' = IF p.v.end = "none" THEN named \cup {<<dir.i, Basename(path), i>>}
                ELSE named

\* Mistake: the file gets an entry whether there is a bloc for it or not.
LinkedAnyway(n, d, dir, path, t) ==
    Entered(AddEntry(Created(n, dir.p), d, dir.i, n.b, Basename(path)), dir, n.b, path, t)

\* n is what new_bloc gave for the inode.
Linked(n, d, dir, path, t) ==
    IF n.b = 0 THEN Returns(Created(n, dir.p)) /\ UNCHANGED dirVars
    ELSE Entered(AddEntry(Created(n, dir.p), d, dir.i, n.b, Basename(path)),
                 dir, n.b, path, t)

Create(dir, d, path, t) ==
    IF dir.i = 0 THEN Returns(dir.p) /\ UNCHANGED dirVars
    ELSE Linked(NewBloc(dir.p.v), d, dir, path, t)

CreateFile(d, path, t) ==
    /\ Running /\ Cardinality(DOMAIN text) < MaxFile
    /\ Create(DinumberOfPath(Before, d, path), d, path, t)
    /\ UNCHANGED shared

\* The process stops with the inode on the disk, and no entry, or half of one.
Unlinked(n, dir, t) ==
    /\ n.b # 0
    /\ Dies(Created(n, dir.p)) /\ dirs' = Typed(n.b, t) /\ UNCHANGED <<named, crowded>>

HalfLinked(p, d, dir, i, t) ==
    /\ HalfStored(p, d)
    /\ Dies(p) /\ dirs' = Typed(i, t) /\ crowded' = Crowds(dir.i)
    /\ named' = named \cup {<<dir.i, 0, i>>}

StopsIn(n, d, dir, t) ==
    \/ Unlinked(n, dir, t)
    \/ /\ n.b # 0
       /\ HalfLinked(Half(NewEntry(Iopen(Created(n, dir.p), d, dir.i), d), d, n.b),
                     d, dir, n.b, t)

CreateFileStops(d, path, t) ==
    LET dir == DinumberOfPath(Before, d, path)
    IN  /\ Running /\ Cardinality(DOMAIN text) < MaxFile /\ dir.i # 0
        /\ StopsIn(NewBloc(dir.p.v), d, dir, t)
        /\ UNCHANGED shared

\* The entry that find_entry found is taken away: its inode and its blocs are kept.
TakenAway(q, d, idir) ==
    {e \in Entries(idir) : e[3] = Char1(SeekTo(q.p, d, q.ientry * E), d)}
Unnamed(q, d, idir) == IF q.found THEN named \ TakenAway(q, d, idir) ELSE named

Deleted(q, d, idir) ==
    /\ Returns(ZeroEntry(q, d))
    /\ named' = IF vol'.end = "none" THEN Unnamed(q, d, idir) ELSE named
    /\ UNCHANGED <<dirs, crowded>>

DeleteIn(dir, d, path) ==
    IF dir.i = 0 THEN Returns(dir.p) /\ UNCHANGED dirVars
    ELSE Deleted(FindEntry(Iopen(dir.p, d, dir.i), d, Basename(path)), d, dir.i)

DeleteFile(d, path) ==
    /\ Running
    /\ DeleteIn(DinumberOfPath(Before, d, path), d, path)
    /\ UNCHANGED shared

\* ... and the process stops with its number zeroed and not its name.
HalfDeleted(q, d, idir) ==
    /\ q.found /\ HalfStored(Half(q, d, 0), d)
    /\ Dies(Half(q, d, 0)) /\ named' = Unnamed(q, d, idir)
    /\ UNCHANGED <<dirs, crowded>>

DeleteFileStops(d, path) ==
    LET dir == DinumberOfPath(Before, d, path)
    IN  /\ Running /\ dir.i # 0
        /\ HalfDeleted(FindEntry(Iopen(dir.p, d, dir.i), d, Basename(path)), d, dir.i)
        /\ UNCHANGED shared

\* open_file: what the search changes, since reading a directory to its end makes
\* it longer; the descriptor that it gives is one of Ifile.
OpenFile(d, path) ==
    /\ Running
    /\ Returns(InumberOfPath(Before, d, path).p)
    /\ UNCHANGED <<shared, dirVars>>

DirRestart == Restart /\ UNCHANGED dirVars

DirNext ==
    \/ DirRestart
    \/ \E d \in Fd, path \in Path :
          \/ OpenFile(d, path) \/ DeleteFile(d, path) \/ DeleteFileStops(d, path)
    \/ \E d \in Fd, r \in Request :
          \/ CreateFile(d, r[1], r[2]) \/ CreateFileStops(d, r[1], r[2])

DirSpec == DirInit /\ [][DirNext]_allVars

-----------------------------------------------------------------------------
(* What is checked.                                                         *)

\* Types; a directory entry leads to a file that was created, from a directory.
DirTypeOK ==
    /\ TypeOK
    /\ dirs \subseteq DOMAIN text /\ crowded \subseteq dirs
    /\ named \subseteq dirs \X (Name \cup {0}) \X DOMAIN text

\* As long as the volume never filled up, and leaving out directories that were
\* given more entries than a search reads.
Followed(i) == vol.end = "none" /\ vol.nb > 0 /\ i \notin crowded

\* The entries of a directory on the disk that a search reads and takes for one:
\* <<index, number, name>>.
ByteAt(i, pos) == Content(vol, i, Fbloc(pos))[pos % S]
Slots(i) == {k \in 0 .. MaxEntry : (k + 1) * E <= vol.disk[i].taille * S}
Shown(i) == {e \in {<<k, ByteAt(i, k * E), ByteAt(i, k * E + 1)>> : k \in Slots(i)} :
                e[2] # 0}

\* What a directory ought to show of the files named in it.
Kept(i) == {<<i, Stored(e[2]), e[3]>> : e \in Entries(i)}

\* What it shows: of a half written entry, the name is not known.
Held(i, shown) ==
    {<<i, IF <<i, 0, e[2]>> \in named THEN 0 ELSE e[3], e[2]>> : e \in shown}

\* new_entry, add_entry and del_entry, through the buffer of a descriptor, keep in
\* a directory what was created in it and not deleted, each once, by the first
\* ENTRYMAXLENGTH - 1 characters of its name, over any sequence of calls, scans that
\* make it longer and processes that stop midway.
DirectoryHolds ==
    \A i \in dirs :
        Followed(i) =>
            LET shown == Shown(i)
            IN  /\ Held(i, shown) = Kept(i)
                /\ Cardinality(shown) = Cardinality(Entries(i))

\* create_file writes the inode before the entry: whatever is interrupted, the
\* directories name distinct files, and each of them has its inode on the disk.
EntriesNameFiles ==
    (\A i \in dirs : Followed(i)) =>
        LET shown == UNION {{<<i, e[1], e[2]>> : e \in Shown(i)} : i \in dirs}
            files == {s[3] : s \in shown}
        IN  /\ \A i \in files : vol.disk[i].kind = "inode"
            /\ Cardinality(files) = Cardinality(shown)

RightAnswer(q, i, name) ==
    IF q.i # 0
    THEN name \notin Long /\ \E e \in Kept(i) : e[3] = q.i /\ e[2] \in {0, name}
    ELSE q.p.v.end = "none" => \A e \in Kept(i) : e[2] # name

\* inumber_of_basename finds a file that the directory shows by that name when there
\* is one, and 0 when there is none; a name of ENTRYMAXLENGTH characters or more is
\* never found, and a directory alone has files in it.
SearchIsRight ==
    \A d \in Fd, i \in DOMAIN text, name \in Name :
        Followed(i) =>
            RightAnswer(InumberOfBasename(Before, d, i, name), i, name)
=============================================================================
