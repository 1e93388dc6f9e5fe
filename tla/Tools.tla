-------------------------------- MODULE Tools --------------------------------
(***************************************************************************)
(* The programs on inodes: if_nfile, if_pfile, if_cfile and if_dfile of     *)
(* src/disque, call by call on the files of Ifile.  One program runs at a   *)
(* time, and it may be killed between two of its calls.                     *)
(***************************************************************************)
EXTENDS Ifile, Sequences, FiniteSetsExt

CONSTANTS
    Src, Dest,  \* the descriptors of if_cfile; if_pfile has the first, if_nfile the other
    MaxText     \* Bound: the characters on the standard input of if_nfile

ASSUME ToolsAssumption == Fd = {Src, Dest} /\ Src # Dest /\ MaxText \in Nat

EOF == W - 1                    \* READ_EOF, once it is a char

VARIABLES
    run,        \* the program, its next call, and the inode numbers it works on
    out,        \* the characters that it has read so far
    origin      \* the file it reads, as it was when it was opened (properties only)

toolVars == <<vars, run, out, origin>>

Nothing == [size |-> 0, c |-> [f \in Index |-> Zeros]]
Program(name, at, i) == [name |-> name, at |-> at, src |-> i, dest |-> 0, made |-> FALSE]

ToolsInit ==
    /\ Init
    /\ run = Program("none", "end", 0)
    /\ out = <<>> /\ origin = Nothing

Goto(at) == run' = [run EXCEPT !.at = at]
Next1(name, at, otherwise) == Goto(IF run.name = name THEN at ELSE otherwise)

\* A program is launched when the one before has ended, or was killed; it mounts
\* the volume.
Launch(name, at, i) ==
    /\ Restart
    /\ run' = Program(name, at, i)
    /\ out' = <<>> /\ origin' = Nothing

\* A number on the command line, or in an ifile that nobody set: that of a file, or
\* one that is none (read_inode refuses them all alike; 0 stands for them).
Number == DOMAIN text \cup {0}

Nfile    == Launch("nfile", "create", 0)
Pfile(i) == Launch("pfile", "src", i)
Cfile(i) == Launch("cfile", "create", i)
Dfile(i) == Launch("dfile", "delete", i)

-----------------------------------------------------------------------------
(* Creating and opening.                                                    *)

\* What the program opens next: if_cfile its source first.
Onward == IF run.name = "cfile" THEN "src" ELSE "dest"

Create ==
    /\ run.at = "create" /\ NewBloc(vol).b # 0
    /\ CreateIfile
    /\ run' = [run EXCEPT !.dest = NewBloc(vol).b, !.made = TRUE,
                          !.at = Onward]
    /\ UNCHANGED <<out, origin>>

\* An inode written over the superbloc, and used as one: the life of the volume
\* is not followed further.
CreateNothing ==
    /\ run.at = "create" /\ Running /\ NewBloc(vol).b = 0
    /\ Cardinality(DOMAIN text) < MaxFile
    /\ Returns(Created([NewBloc(vol) EXCEPT !.v = Ends(Put(@, 0, EmptyInode), "wild")], Before))
    /\ UNCHANGED <<shared, run, out, origin>>

\* if_nfile is given a letter for the type, and if_cfile asks the type of a descriptor
\* that it has not opened: when it is none of the four, nothing is created and ifile is
\* any number.
CreateSkipped(j) ==
    /\ run.at = "create" /\ Running
    /\ run' = [run EXCEPT !.dest = j, !.at = Onward]
    /\ UNCHANGED <<vars, out, origin>>

\* read_inode stops the process on a bloc that is no inode.
NoInode(i) ==
    /\ Running /\ i \notin DOMAIN text
    /\ Returns([Before EXCEPT !.v = Ends(vol, "abort")])
    /\ UNCHANGED <<shared, run, out, origin>>

OpenSrc ==
    /\ run.at = "src"
    /\ \/ NoInode(run.src)
       \/ /\ run.src \in DOMAIN text
          /\ OpenIfile(Src, run.src)
          /\ Next1("cfile", "dest", "read")
          /\ origin' = [size |-> vol.disk[run.src].taille,
                        c |-> [f \in Index |-> Content(vol, run.src, f)]]
          /\ UNCHANGED out

OpenDest ==
    /\ run.at = "dest"
    /\ \/ NoInode(run.dest)
       \/ /\ run.dest \in DOMAIN text
          /\ OpenIfile(Dest, run.dest)
          /\ Next1("cfile", "read", "write")
          /\ UNCHANGED <<out, origin>>

DeleteFile ==
    /\ run.at = "delete"
    /\ \/ NoInode(run.src)
       \/ run.src \in DOMAIN text /\ Delete(run.src) /\ Goto("end") /\ UNCHANGED <<out, origin>>

-----------------------------------------------------------------------------
(* The loops.                                                               *)

Character(d) ==
    IF d.cursor >= d.size * S THEN EOF ELSE d.buffer[d.cursor % S]

\* The character read is compared as a char: 0xFF ends a file as well.
Read ==
    /\ run.at = "read" /\ Running
    /\ Returns(Readc(Before, Src))
    /\ IF Character(fd[Src]) = EOF THEN Goto("closesrc") /\ UNCHANGED out
       ELSE /\ Next1("cfile", "put", "read")
            /\ out' = Append(out, Character(fd[Src]))
    /\ UNCHANGED <<shared, origin>>

Put1 ==
    /\ run.at = "put" /\ Running
    /\ Returns(Writec(Before, Dest, out[Len(out)]))
    /\ Goto("read")
    /\ UNCHANGED <<shared, out, origin>>

\* The standard input, up to its end.
Write(c) ==
    /\ run.at = "write" /\ Running /\ Len(out) < MaxText
    /\ Returns(Writec(Before, Dest, c))
    /\ out' = Append(out, c)
    /\ UNCHANGED <<shared, run, origin>>

EndOfInput ==
    /\ run.at = "write" /\ Running
    /\ Goto("closedest")
    /\ UNCHANGED <<vars, out, origin>>

CloseSrc ==
    /\ run.at = "closesrc"
    /\ CloseIfile(Src)
    /\ Next1("cfile", "closedest", "end")
    /\ UNCHANGED <<out, origin>>

\* Mistake: the copy is not closed.
CloseDestNot ==
    /\ run.at = "closedest" /\ Running
    /\ Goto("end")
    /\ UNCHANGED <<vars, out, origin>>

CloseDest ==
    /\ run.at = "closedest"
    /\ CloseIfile(Dest)
    /\ Goto("end")
    /\ UNCHANGED <<out, origin>>

ToolsNext ==
    \/ Nfile \/ \E i \in Number : Pfile(i) \/ Cfile(i) \/ Dfile(i)
    \/ Create \/ CreateNothing \/ \E j \in Number : CreateSkipped(j)
    \/ OpenSrc \/ OpenDest \/ DeleteFile
    \/ Read \/ Put1 \/ (\E c \in Char : Write(c)) \/ EndOfInput
    \/ CloseSrc \/ CloseDest

ToolsSpec == ToolsInit /\ [][ToolsNext]_toolVars

-----------------------------------------------------------------------------
ByteOf(content, p) == content[Fbloc(p)][p % S]

\* The characters before the first EOF, or before the end of the file as its size
\* said when it was opened.
ReadLength ==
    LET n == origin.size * S
    IN  Min({n} \cup {p \in 0 .. n - 1 : ByteOf(origin.c, p) = EOF})

\* On a full volume a copy may have no bloc: it is then on the superbloc.  No bloc but
\* the first can be missing, since the cursor only goes where there is one.
CopyHasBloc == vol.nb > 0 \/ Lookup(vol, run.dest, 0) # 0

\* When if_pfile or if_cfile ends, it has read the characters of the file up to its
\* first EOF; the file is as it was, also when it was copied over itself; and the copy
\* holds what was read, with zeros behind it if it was created for it.
Faithful ==
    LET copy == [f \in Index |-> Content(vol, run.dest, f)]
    IN  /\ run.at = "end" /\ run.name \in {"pfile", "cfile"}
        /\ Running /\ ~vol.astray /\ origin.size <= 2 * NB
        =>
        /\ Len(out) = ReadLength
        /\ \A p \in 1 .. Len(out) : out[p] = ByteOf(origin.c, p - 1)
        /\ \A f \in 0 .. 2 * NB - 1 : Content(vol, run.src, f) = origin.c[f]
        /\ run.name = "cfile" /\ run.src # run.dest /\ CopyHasBloc =>
              \A p \in 0 .. 2 * NB * S - 1 :
                 IF p < Len(out) THEN ByteOf(copy, p) = out[p + 1]
                 ELSE run.made => ByteOf(copy, p) = 0
=============================================================================
