------------------------------ MODULE ToolsProofs ------------------------------
(***************************************************************************)
(* The programs on inodes read a file whole and copy it right, for every    *)
(* size of the volume, the blocs and the bytes: what the runs of Tools      *)
(* check on one size.                                                       *)
(*                                                                          *)
(* The calls are those of IfileProofs.  Work is what a program has done so  *)
(* far: where its descriptors are, what it has read and what of it is in    *)
(* the copy, in the buffer or on the disk.                                  *)
(***************************************************************************)
EXTENDS Tools, IfileProofs

-----------------------------------------------------------------------------
(* A program between two of its calls: r is run, o is out, g is origin.      *)

RunType == [name : {"none", "nfile", "pfile", "cfile", "dfile"},
            at : {"create", "src", "dest", "read", "put", "write", "closesrc", "closedest",
                  "delete", "end"},
            src : Bloc, dest : Bloc, made : BOOLEAN]

Stage(r) ==
    \/ r.name = "none" /\ r.at = "end"
    \/ r.name = "nfile" /\ r.at \in {"create", "dest", "write", "closedest", "end"}
    \/ r.name = "pfile" /\ r.at \in {"src", "read", "closesrc", "end"}
    \/ r.name = "cfile" /\ r.at \in {"create", "src", "dest", "read", "put", "closesrc",
                                     "closedest", "end"}
    \/ r.name = "dfile" /\ r.at \in {"delete", "end"}

Shape(r, o, g) ==
    /\ r \in RunType /\ Stage(r)
    /\ o \in Seq(0 .. W - 1) /\ g.size \in 0 .. F
    /\ r.at \in {"create", "src", "dest"} => o = <<>>
    /\ r.at = "create" => ~r.made
    /\ r.at = "put" => o # <<>>

SrcOpen(r) == r.at \in {"read", "put", "closesrc"} \/ (r.name = "cfile" /\ r.at = "dest")
DestOpen(r) == r.at \in {"write", "closedest"}
               \/ (r.name = "cfile" /\ r.at \in {"read", "put", "closesrc"})

OnSrc(d, r, g) == d.open /\ d.inoeud = r.src /\ ~d.modified /\ d.size = g.size
OnDest(d, r) == d.open /\ d.inoeud = r.dest

\* The file is as it was, and what was read of it is its beginning.
ReadSoFar(v, I, r, o, g) ==
    /\ r.src \in I
    /\ \A f \in 0 .. 2 * NB - 1 : HeldAt(v, r.src, f) = g.c[f]
    /\ Len(o) <= g.size * S
    /\ \A x \in 0 .. Len(o) - 1 : o[x + 1] = ByteOf(g.c, x) /\ o[x + 1] # EOF

AtSrc(d, o, g) == d.cursor = Len(o) /\ (At(d) < 2 * NB => d.buffer = g.c[At(d)])

AllRead(o, g) ==
    Len(o) = g.size * S \/ (Len(o) < g.size * S /\ ByteOf(g.c, Len(o)) = EOF)

\* No bloc for the first characters, and none to come.
Lost(v, i) == v.nb = 0 /\ At2(v, i, 0) = 0

\* The first two levels of a file on the disk, and through a descriptor.
Disk(v, i) == [f \in 0 .. 2 * NB - 1 |-> HeldAt(v, i, f)]
View(v, d) == [f \in 0 .. 2 * NB - 1 |-> IF f = At(d) THEN d.buffer
                                       ELSE HeldAt(v, d.inoeud, f)]

Copied(c, o, n, made) ==
    \A x \in 0 .. 2 * NB * S - 1 :
        IF x < n THEN ByteOf(c, x) = o[x + 1] ELSE made => ByteOf(c, x) = 0

\* The first n characters are in the copy.
CopySoFar(v, d, r, o, g, n) ==
    /\ d.cursor = n
    /\ At(d) \in 1 .. 2 * NB - 1 => At2(v, r.dest, At(d)) # 0
    /\ ~d.modified => Reads(v, d)
    /\ IF r.src = r.dest THEN At(d) < 2 * NB => d.buffer = g.c[At(d)]
       ELSE Lost(v, r.dest) \/ Copied(View(v, d), o, n, r.made)

CopyDone(v, I, r, o) ==
    r.dest \in I /\ (r.src # r.dest =>
                        Lost(v, r.dest) \/ Copied(Disk(v, r.dest), o, Len(o), r.made))

Reading(r, g) ==
    r.name \in {"pfile", "cfile"} /\ r.at \notin {"create", "src"} /\ g.size <= 2 * NB

Put0(r, o) == IF r.at = "put" THEN Len(o) - 1 ELSE Len(o)

Work(v, fds, I, r, o, g) ==
    /\ SrcOpen(r) => OnSrc(fds[Src], r, g)
    /\ DestOpen(r) => OnDest(fds[Dest], r)
    /\ r.made /\ r.at \in {"src", "dest"} =>
          \A f \in 0 .. 2 * NB - 1 : HeldAt(v, r.dest, f) = Zeros
    /\ Reading(r, g) =>
          /\ ReadSoFar(v, I, r, o, g)
          /\ r.at \in {"dest", "read", "put"} => AtSrc(fds[Src], o, g)
          /\ r.at \in {"closesrc", "closedest", "end"} => AllRead(o, g)
          /\ r.name = "cfile" /\ r.at \in {"read", "put", "closesrc", "closedest"} =>
                CopySoFar(v, fds[Dest], r, o, g, Put0(r, o))
          /\ r.name = "cfile" /\ r.at = "end" => CopyDone(v, I, r, o)

\* The invariant of the programs.
ToolInv ==
    \/ vol.end = "wild"
    \/ /\ Inv /\ Shape(run, out, origin)
       /\ vol.end = "none" => Work(vol, fd, DOMAIN text, run, out, origin)

-----------------------------------------------------------------------------
(* Bytes.                                                                   *)

LEMMA ToolSizes ==
    /\ Src \in Fd /\ Dest \in Fd /\ Src # Dest /\ Fd = {Src, Dest}
    /\ NB \in Nat /\ NB > 0 /\ S \in Nat /\ S > 0 /\ W \in Nat /\ F \in Nat /\ F >= 2 * NB
    /\ Char \subseteq 0 .. W - 1 /\ 2 * NB * S \in Nat /\ S \in Nat \ {0}
<1>1. 2 * NB * S \in Nat
  BY Sizes
<1> QED
  BY <1>1, Sizes, ToolsAssumption, IfileAssumption

LEMMA BytePlace ==
    ASSUME NEW x \in 0 .. 2 * NB * S - 1
    PROVE  Fbloc(x) \in 0 .. 2 * NB - 1 /\ x % S \in 0 .. S - 1
<1>1. 2 * NB * S = S * (2 * NB) /\ 2 * NB \in Nat /\ S \in Nat \ {0}
  BY ToolSizes
<1>2. x \in Nat /\ x < S * (2 * NB)
  BY <1>1
<1>3. x \div S \in Nat /\ x % S \in 0 .. S - 1
  BY <1>1, <1>2, Division
<1>4. x \div S < 2 * NB
  BY <1>1, <1>2, Below
<1> QED
  BY <1>1, <1>3, <1>4 DEF Fbloc

LEMMA ByteApart ==
    ASSUME NEW x \in Nat, NEW y \in Nat, Fbloc(x) = Fbloc(y), x % S = y % S
    PROVE  x = y
<1>1. S \in Nat \ {0}
  BY ToolSizes
<1>2. x = S * (x \div S) + (x % S) /\ y = S * (y \div S) + (y % S)
  BY <1>1, Division
<1> QED
  BY <1>2 DEF Fbloc

\* What a position below a size of no more than the first two levels is.
LEMMA BelowSize ==
    ASSUME NEW n \in 0 .. F, n <= 2 * NB, NEW x \in Nat, x < n * S
    PROVE  x \in 0 .. 2 * NB * S - 1 /\ Fbloc(x) \in 0 .. 2 * NB - 1
<1>1. n \in Nat /\ NB \in Nat /\ S \in Nat
  BY ToolSizes
<1>2. n * S <= 2 * NB * S
  BY <1>1
<1>3. x \in 0 .. 2 * NB * S - 1
  BY <1>1, <1>2
<1> QED
  BY <1>3, BytePlace

LEMMA CopiedOn ==
    ASSUME NEW c, NEW e, NEW o, NEW n, NEW made, Copied(c, o, n, made),
           \A f \in 0 .. 2 * NB - 1 : e[f] = c[f]
    PROVE  Copied(e, o, n, made)
<1> SUFFICES ASSUME NEW x \in 0 .. 2 * NB * S - 1
             PROVE  IF x < n THEN ByteOf(e, x) = o[x + 1] ELSE made => ByteOf(e, x) = 0
  BY DEF Copied
<1>1. ByteOf(e, x) = ByteOf(c, x)
  BY BytePlace DEF ByteOf
<1> QED
  BY <1>1 DEF Copied

-----------------------------------------------------------------------------
(* What readc_ifile, writec_ifile and close_ifile do, on a process that goes *)
(* on after them.                                                           *)

\* Between two volumes, nothing is lost.
Quiet(v, w, I) == Good(w, I, {}) /\ Keeps(v, w, I) /\ Holds(v, w, I) /\ Starves(v, w, I)

\* e is read at its cursor, and becomes h.
ReadOn(w, e, h) ==
    /\ h.open /\ h.inoeud = e.inoeud /\ ~h.modified /\ h.size = e.size
    /\ h.cursor = IF e.cursor < e.size * S THEN e.cursor + 1 ELSE e.cursor
    /\ (At(h) = At(e) /\ h.buffer = e.buffer) \/ Reads(w, h)

LEMMA ReadcDoes ==
    ASSUME NEW p, NEW I, NEW Sh, Lives(p, I, Sh), p.v.end = "none", NEW d \in Fd,
           p.fd[d].open, ~p.fd[d].modified,
           ~Stray(Readc(p, d).v), Readc(p, d).v.end = "none"
    PROVE  LET q == Readc(p, d)
           IN  /\ Quiet(p.v, q.v, I) /\ ReadOn(q.v, p.fd[d], q.fd[d])
               /\ \A x \in Fd : x # d => q.fd[x] = p.fd[x]
<1> DEFINE e == p.fd[d]
           i == e.inoeud
           pos == e.cursor + 1
           q == Readc(p, d)
           s == SeekIfile(p.v, e, pos)
<1>1. Good(p.v, I, {}) /\ p.fd \in [Fd -> FdType] /\ OnFile(p.v, I, e)
  BY DEF Lives
<1>2. e \in FdType /\ e.open /\ i \in I /\ ~e.modified
  BY <1>1 DEF OnFile
<1>3. e.cursor \in 0 .. MaxPos - 1 /\ MaxPos \in Nat /\ e.size \in 0 .. F
  BY <1>2, FdTyped, Positions
<1>4. e.cursor \in Nat /\ e.size * S \in Nat /\ pos \in 0 .. MaxPos
  <2>1. e.size \in Nat
    BY <1>3, ToolSizes
  <2>2. e.size * S \in Nat
    BY <2>1, ToolSizes
  <2> HIDE DEF MaxPos, e
  <2> QED
    BY <1>3, <2>2
<1>5. CASE e.cursor >= e.size * S
  <2>1. q = p
    BY <1>5 DEF Readc
  <2>2. ~(e.cursor < e.size * S)
    BY <1>4, <1>5
  <2>3. Quiet(p.v, p.v, I)
    BY <1>1, KeepsSelf DEF Quiet, Starves
  <2> QED
    BY <1>2, <2>1, <2>2, <2>3 DEF ReadOn
<1>6. CASE ~(e.cursor >= e.size * S)
  <2>1. q = Seek(p, d, pos)
    BY <1>6 DEF Readc
  <2>2. q.v = s.v /\ q.fd = [p.fd EXCEPT ![d] = s.d]
    BY <2>1 DEF Seek, Sought
  <2>3. Stray(s.v) \/ Sails(p.v, s, I, e, pos)
    BY <1>1, <1>2, <1>4, SeekOutcome
  <2>4. ~Stray(s.v) /\ s.v.end = "none"
    BY <2>2
  <2> HIDE DEF s, q
  <2>5. /\ Good(s.v, I, {}) /\ Keeps(p.v, s.v, I) /\ OnlyAt(p.v, s.v, I, e)
        /\ Starves(p.v, s.v, I)
        /\ s.d \in FdType /\ s.d.open /\ s.d.inoeud = i /\ s.d.modified = e.modified
        /\ s.d.cursor = pos /\ s.d.size = e.size
        /\ IF At(s.d) = At(e) THEN s.v = p.v /\ s.d.buffer = e.buffer
           ELSE Left(p.v, s.v, e) /\ Reads(s.v, s.d)
    BY <2>3, <2>4 DEF Sails
  <2>6. Holds(p.v, s.v, I)
    <3>1. CASE At(s.d) = At(e)
      BY <2>5, <3>1, KeepsSelf
    <3>2. CASE At(s.d) # At(e)
      <4>1. At(e) < 2 * NB => HeldAt(s.v, i, At(e)) = HeldAt(p.v, i, At(e))
        BY <1>2, <2>5, <3>2 DEF Left
      <4>2. ASSUME NEW j \in I, NEW f \in 0 .. 2 * NB - 1
            PROVE  HeldAt(s.v, j, f) = HeldAt(p.v, j, f)
        <5>1. CASE j = i /\ f = At(e)
          <6>1. f < 2 * NB
            BY ToolSizes
          <6> QED
            BY <4>1, <5>1, <6>1
        <5>2. CASE j # i \/ f # At(e)
          BY <2>5, <5>2 DEF OnlyAt
        <5> QED
          BY <5>1, <5>2
      <4> QED
        BY <4>2 DEF Holds
    <3> QED
      BY <3>1, <3>2
  <2>7. Quiet(p.v, q.v, I)
    BY <2>2, <2>5, <2>6 DEF Quiet
  <2>8. q.fd[d] = s.d /\ \A x \in Fd : x # d => q.fd[x] = p.fd[x]
    BY <1>1, <2>2
  <2>9. e.cursor < e.size * S
    BY <1>4, <1>6
  <2>10. ReadOn(q.v, e, s.d)
    BY <1>2, <2>2, <2>5, <2>9 DEF ReadOn
  <2> QED
    BY <2>7, <2>8, <2>10 DEF q
<1> QED
  BY <1>5, <1>6

LEMMA WritecDoes ==
    ASSUME NEW p, NEW I, NEW Sh, Lives(p, I, Sh), p.v.end = "none", NEW d \in Fd,
           p.fd[d].open, NEW c \in 0 .. W - 1,
           ~Stray(Writec(p, d, c).v), Writec(p, d, c).v.end = "none"
    PROVE  LET q == Writec(p, d, c)
               t == TypedIn(p.fd[d], c)
           IN  /\ Sails(p.v, [v |-> q.v, d |-> q.fd[d]], I, t, p.fd[d].cursor + 1)
               /\ t \in FdType /\ t.open /\ OnFile(p.v, I, t)
               /\ \A x \in Fd : x # d => q.fd[x] = p.fd[x]
<1> DEFINE e == p.fd[d]
           pos == e.cursor + 1
           b == TypedBy(p, d, c)
           t == TypedIn(e, c)
           q == Writec(p, d, c)
           s == SeekIfile(p.v, t, pos)
<1>1. Lives(b, I, Sh) /\ b.v = p.v /\ b.fd[d].open
  BY TypedLives
<1>2. p.fd \in [Fd -> FdType]
  BY DEF Lives
<1>3. b.fd = [p.fd EXCEPT ![d] = t] /\ b.fd[d] = t
  BY <1>2 DEF TypedBy
<1>4. Good(p.v, I, {}) /\ t \in FdType /\ t.open /\ OnFile(p.v, I, t)
  BY <1>1, <1>3 DEF Lives
<1>5. e.cursor \in 0 .. MaxPos - 1 /\ MaxPos \in Nat
  BY <1>2, FdTyped, Positions
<1>6. pos \in 0 .. MaxPos
  <2> HIDE DEF MaxPos, e
  <2> QED
    BY <1>5
<1>7. q = Seek(b, d, pos)
  BY DEF Writec, TypedBy, TypedIn, SaidIn
<1> HIDE DEF b
<1>8. q.v = s.v /\ q.fd = [b.fd EXCEPT ![d] = s.d]
  BY <1>1, <1>3, <1>7 DEF Seek, Sought
<1>9. Stray(s.v) \/ Sails(p.v, s, I, t, pos)
  BY <1>4, <1>6, SeekOutcome
<1> HIDE DEF s, t, q
<1>10. q.fd[d] = s.d /\ \A x \in Fd : x # d => q.fd[x] = p.fd[x]
  BY <1>2, <1>3, <1>8
<1>11. Sails(p.v, [v |-> q.v, d |-> q.fd[d]], I, t, pos)
  <2>1. Sails(p.v, s, I, t, pos)
    BY <1>8, <1>9 DEF q
  <2> QED
    BY <1>8, <1>10, <2>1 DEF Sails
<1> QED
  BY <1>4, <1>10, <1>11 DEF t, q

-----------------------------------------------------------------------------
(* What the programs have done stays done.                                  *)

LEMMA LostOn ==
    ASSUME NEW v, NEW w, NEW I, NEW i \in I, Keeps(v, w, I), Starves(v, w, I), Lost(v, i)
    PROVE  Lost(w, i)
<1>1. 0 \in 0 .. 2 * NB - 1
  BY ToolSizes
<1> QED
  BY <1>1 DEF Lost, Keeps, Starves, NoMore

LEMMA ReadStays ==
    ASSUME NEW v, NEW w, NEW I, NEW r, NEW s, NEW o, NEW g, ReadSoFar(v, I, r, o, g),
           s.src = r.src, \A f \in 0 .. 2 * NB - 1 : HeldAt(w, r.src, f) = HeldAt(v, r.src, f)
    PROVE  ReadSoFar(w, I, s, o, g)
  BY DEF ReadSoFar

\* Other calls do not disturb the copy, nor what is read later.
LEMMA CopyStays ==
    ASSUME NEW v, NEW w, NEW I, Quiet(v, w, I), NEW d, d.inoeud \in I,
           NEW r, r.dest = d.inoeud, NEW s, s.src = r.src, s.dest = r.dest, s.made = r.made,
           NEW n \in Nat, NEW o, NEW u, \A x \in 0 .. n - 1 : u[x + 1] = o[x + 1],
           NEW g, CopySoFar(v, d, r, o, g, n)
    PROVE  CopySoFar(w, d, s, u, g, n)
<1> DEFINE i == d.inoeud
<1>1. Keeps(v, w, I) /\ Holds(v, w, I) /\ Starves(v, w, I)
  BY DEF Quiet
<1>2. d.cursor = n
  BY DEF CopySoFar
<1>3. At(d) \in 1 .. 2 * NB - 1 => At2(w, i, At(d)) # 0
  <2>1. At(d) \in 1 .. 2 * NB - 1 => At(d) \in 0 .. 2 * NB - 1
    OBVIOUS
  <2>2. At(d) \in 1 .. 2 * NB - 1 => At2(v, i, At(d)) # 0
    BY DEF CopySoFar
  <2> QED
    BY <1>1, <2>1, <2>2 DEF Keeps
<1>4. ASSUME ~d.modified, At(d) < 2 * NB
      PROVE  d.buffer = HeldAt(w, i, At(d))
  <2>1. d.buffer = HeldAt(v, i, At(d))
    BY <1>4 DEF CopySoFar, Reads
  <2>2. At(d) \in 0 .. 2 * NB - 1
    <3>1. n \div S \in Nat
      BY ToolSizes, Division
    <3>2. At(d) = n \div S
      BY <1>2 DEF At, Fbloc
    <3> QED
      BY <1>4, <3>1, <3>2, ToolSizes
  <2> QED
    BY <1>1, <2>1, <2>2 DEF Holds
<1>5. r.src = r.dest => (At(d) < 2 * NB => d.buffer = g.c[At(d)])
  BY DEF CopySoFar
<1>6. ASSUME r.src # r.dest, ~Lost(w, i)
      PROVE  Copied(View(w, d), u, n, r.made)
  <2>1. ~Lost(v, i)
    BY <1>1, <1>6, LostOn
  <2>2. Copied(View(v, d), o, n, r.made)
    BY <1>6, <2>1 DEF CopySoFar
  <2>3. \A f \in 0 .. 2 * NB - 1 : View(w, d)[f] = View(v, d)[f]
    BY <1>1 DEF View, Holds
  <2>4. Copied(View(w, d), o, n, r.made)
    BY <2>2, <2>3, CopiedOn
  <2> SUFFICES ASSUME NEW x \in 0 .. 2 * NB * S - 1, x < n
               PROVE  u[x + 1] = o[x + 1]
    BY <2>4 DEF Copied
  <2>5. x \in 0 .. n - 1
    BY ToolSizes
  <2> QED
    BY <2>5
<1> QED
  BY <1>2, <1>3, <1>4, <1>5, <1>6 DEF CopySoFar, Reads

LEMMA LastIn ==
    ASSUME NEW T, NEW o \in Seq(T), o # <<>>
    PROVE  o[Len(o)] \in T
  OBVIOUS

LEMMA StageIs ==
    ASSUME NEW r \in RunType, NEW a
    PROVE  LET s == [r EXCEPT !.at = a]
           IN  /\ s.name = r.name /\ s.at = a /\ s.src = r.src /\ s.dest = r.dest
               /\ s.made = r.made
               /\ a \in {"create", "src", "dest", "read", "put", "write", "closesrc",
                         "closedest", "delete", "end"} => s \in RunType
  BY DEF RunType

LEMMA Longer ==
    ASSUME NEW o \in Seq(0 .. W - 1), NEW c \in 0 .. W - 1
    PROVE  LET u == Append(o, c)
           IN  /\ u \in Seq(0 .. W - 1) /\ u # <<>> /\ Len(u) = Len(o) + 1
               /\ Len(o) \in Nat /\ u[Len(u)] = c
               /\ \A x \in 0 .. Len(o) - 1 : u[x + 1] = o[x + 1]
  OBVIOUS

-----------------------------------------------------------------------------
(* One call of a program more.                                              *)

\* A program on a volume and descriptors, and the files it can work on.
Busy(v, fds, I, r, o, g) ==
    /\ Good(v, I, {}) /\ fds \in [Fd -> FdType]
    /\ \A d \in Fd : OnFile(v, I, fds[d])
    /\ Shape(r, o, g) /\ Work(v, fds, I, r, o, g)

LEMMA CharacterIs ==
    ASSUME NEW d \in FdType
    PROVE  /\ d.cursor \in Nat /\ d.size * S \in Nat /\ d.cursor % S \in 0 .. S - 1
           /\ At(d) \in Nat
           /\ Character(d) # EOF => /\ Character(d) \in 0 .. W - 1 /\ d.cursor < d.size * S
                                    /\ Character(d) = d.buffer[d.cursor % S]
<1>1. d.cursor \in 0 .. MaxPos - 1 /\ MaxPos \in Nat /\ d.size \in 0 .. F /\ d.buffer \in Bytes
  BY FdTyped, Positions
<1>2. d.cursor \in Nat
  <2> HIDE DEF MaxPos
  <2> QED
    BY <1>1
<1>3. d.size \in Nat
  BY <1>1, ToolSizes
<1>4. d.size * S \in Nat
  BY <1>3, ToolSizes
<1>5. d.cursor \div S \in Nat /\ d.cursor % S \in 0 .. S - 1
  BY <1>2, ToolSizes, Division
<1>6. d.buffer[d.cursor % S] \in 0 .. W - 1
  BY <1>1, <1>5 DEF Bytes
<1> QED
  BY <1>2, <1>4, <1>5, <1>6 DEF Character, At, Fbloc

\* The character that is read is that of the file, and what the cursor comes to.
LEMMA NextCharacter ==
    ASSUME NEW v, NEW w, NEW I, Quiet(v, w, I), NEW e \in FdType, NEW h \in FdType,
           ReadOn(w, e, h), NEW r, NEW o \in Seq(0 .. W - 1), NEW g, g.size \in 0 .. F,
           g.size <= 2 * NB, OnSrc(e, r, g), ReadSoFar(v, I, r, o, g), AtSrc(e, o, g)
    PROVE  LET ch == Character(e)
           IN  /\ ch = EOF => AllRead(o, g)
               /\ ch # EOF => /\ Len(o) + 1 <= g.size * S /\ ch = ByteOf(g.c, Len(o))
                              /\ AtSrc(h, Append(o, ch), g)
<1>1. /\ e.cursor \in Nat /\ g.size * S \in Nat /\ e.cursor % S \in 0 .. S - 1
      /\ e.size = g.size /\ e.inoeud = r.src /\ e.cursor = Len(o) /\ Len(o) \in Nat
      /\ Len(o) <= g.size * S
  BY CharacterIs DEF OnSrc, AtSrc, ReadSoFar
<1>2. ASSUME Len(o) < g.size * S
      PROVE  Character(e) = ByteOf(g.c, Len(o))
  <2>1. Fbloc(Len(o)) \in 0 .. 2 * NB - 1
    BY <1>1, <1>2, BelowSize
  <2>2. At(e) = Fbloc(Len(o)) /\ At(e) < 2 * NB
    BY <1>1, <2>1, ToolSizes DEF At
  <2>3. e.buffer = g.c[At(e)]
    BY <2>2 DEF AtSrc
  <2>4. ~(e.cursor >= e.size * S)
    BY <1>1, <1>2
  <2> QED
    BY <1>1, <2>2, <2>3, <2>4 DEF Character, ByteOf
<1>3. ASSUME Character(e) # EOF
      PROVE  Len(o) < g.size * S
  BY <1>1, <1>3, CharacterIs
<1>4. ASSUME Character(e) = EOF
      PROVE  AllRead(o, g)
  <2>1. CASE Len(o) < g.size * S
    BY <1>2, <1>4, <2>1 DEF AllRead
  <2>2. CASE ~(Len(o) < g.size * S)
    BY <1>1, <2>2 DEF AllRead
  <2> QED
    BY <2>1, <2>2
<1>5. ASSUME Character(e) # EOF
      PROVE  AtSrc(h, Append(o, Character(e)), g)
  <2> DEFINE u == Append(o, Character(e))
  <2>1. Character(e) \in 0 .. W - 1
    BY <1>5, CharacterIs
  <2>2. Len(u) = Len(o) + 1
    BY <2>1, Longer
  <2>3. h.cursor = Len(u) /\ h.inoeud = r.src
    BY <1>1, <1>3, <1>5, <2>2 DEF ReadOn
  <2>4. ASSUME At(h) < 2 * NB PROVE h.buffer = g.c[At(h)]
    <3>1. At(h) \in 0 .. 2 * NB - 1
      BY <2>4, CharacterIs, ToolSizes
    <3>2. CASE At(h) = At(e) /\ h.buffer = e.buffer
      BY <2>4, <3>2 DEF AtSrc
    <3>3. CASE Reads(w, h)
      <4>1. h.buffer = HeldAt(w, r.src, At(h))
        BY <2>3, <2>4, <3>3 DEF Reads
      <4>2. r.src \in I /\ HeldAt(v, r.src, At(h)) = g.c[At(h)]
        BY <3>1 DEF ReadSoFar
      <4> QED
        BY <3>1, <4>1, <4>2 DEF Quiet, Holds
    <3> QED
      BY <3>2, <3>3 DEF ReadOn
  <2> QED
    BY <2>3, <2>4 DEF AtSrc
<1>6. ASSUME Character(e) # EOF
      PROVE  Len(o) + 1 <= g.size * S
  BY <1>1, <1>3, <1>6
<1> QED
  BY <1>2, <1>3, <1>4, <1>5, <1>6

LEMMA ReadOnce ==
    ASSUME NEW v, NEW fds, NEW I, NEW r, NEW o, NEW g, Busy(v, fds, I, r, o, g),
           r.at = "read", NEW w, NEW gds \in [Fd -> FdType], Quiet(v, w, I),
           ReadOn(w, fds[Src], gds[Src]), gds[Dest] = fds[Dest]
    PROVE  LET ch == Character(fds[Src])
               ends == [r EXCEPT !.at = "closesrc"]
               more == [r EXCEPT !.at = IF r.name = "cfile" THEN "put" ELSE "read"]
               u == Append(o, ch)
           IN  /\ ch = EOF => Shape(ends, o, g) /\ Work(w, gds, I, ends, o, g)
               /\ ch # EOF => Shape(more, u, g) /\ Work(w, gds, I, more, u, g)
<1> DEFINE ch == Character(fds[Src])
           ends == [r EXCEPT !.at = "closesrc"]
           more == [r EXCEPT !.at = IF r.name = "cfile" THEN "put" ELSE "read"]
           u == Append(o, ch)
<1>1. /\ Good(v, I, {}) /\ fds \in [Fd -> FdType] /\ OnFile(v, I, fds[Dest])
      /\ fds[Src] \in FdType /\ fds[Dest] \in FdType /\ gds[Src] \in FdType
      /\ Shape(r, o, g) /\ Work(v, fds, I, r, o, g)
  BY ToolSizes DEF Busy
<1>2. /\ r \in RunType /\ r.name \in {"pfile", "cfile"} /\ o \in Seq(0 .. W - 1)
      /\ g.size \in 0 .. F
  BY <1>1 DEF Shape, Stage
<1>3. /\ ends.name = r.name /\ ends.at = "closesrc" /\ ends.src = r.src
      /\ ends.dest = r.dest /\ ends.made = r.made /\ ends \in RunType
  BY <1>2, StageIs
<1>4. /\ more.name = r.name /\ more.src = r.src /\ more.dest = r.dest
      /\ more.made = r.made /\ more \in RunType
      /\ more.at = IF r.name = "cfile" THEN "put" ELSE "read"
  <2> DEFINE a == IF r.name = "cfile" THEN "put" ELSE "read"
  <2>1. a \in {"read", "put"} /\ more = [r EXCEPT !.at = a]
    OBVIOUS
  <2> HIDE DEF a, more
  <2>2. /\ more.name = r.name /\ more.src = r.src /\ more.dest = r.dest
        /\ more.made = r.made /\ more \in RunType /\ more.at = a
    BY <1>2, <2>1, StageIs
  <2> QED
    BY <2>2 DEF a
<1>5. OnSrc(fds[Src], r, g) /\ (r.name = "cfile" => OnDest(fds[Dest], r) /\ r.dest \in I)
  BY <1>1 DEF Work, SrcOpen, DestOpen, OnDest, OnFile
<1>6. OnSrc(gds[Src], r, g) /\ (r.name = "cfile" => OnDest(gds[Dest], r))
  BY <1>5 DEF OnSrc, ReadOn
<1> HIDE DEF ends, more, ch
<1>7. ch # EOF => /\ u \in Seq(0 .. W - 1) /\ u # <<>> /\ Len(u) = Len(o) + 1
                  /\ u[Len(u)] = ch /\ ch \in 0 .. W - 1
                  /\ \A x \in 0 .. Len(o) - 1 : u[x + 1] = o[x + 1]
  BY <1>1, <1>2, CharacterIs, Longer DEF ch
<1> HIDE DEF u
<1>8. Len(o) \in Nat
  BY <1>2
<1>9. ASSUME g.size <= 2 * NB
      PROVE  /\ ReadSoFar(v, I, r, o, g) /\ AtSrc(fds[Src], o, g)
             /\ r.name = "cfile" => CopySoFar(v, fds[Dest], r, o, g, Len(o))
  BY <1>1, <1>2, <1>9 DEF Work, Reading, Put0
<1>10. ASSUME g.size <= 2 * NB
       PROVE  /\ ch = EOF => AllRead(o, g)
              /\ ch # EOF => /\ Len(o) + 1 <= g.size * S /\ ch = ByteOf(g.c, Len(o))
                             /\ AtSrc(gds[Src], u, g)
  BY <1>1, <1>2, <1>5, <1>9, <1>10, NextCharacter DEF ch, u
<1>11. ASSUME NEW s, s.src = r.src, g.size <= 2 * NB
       PROVE  ReadSoFar(w, I, s, o, g)
  <2>1. \A f \in 0 .. 2 * NB - 1 : HeldAt(w, r.src, f) = HeldAt(v, r.src, f)
    BY <1>9, <1>11 DEF Quiet, Holds, ReadSoFar
  <2> QED
    BY <1>9, <1>11, <2>1, ReadStays
<1>12. ASSUME NEW s, s.src = r.src, s.dest = r.dest, s.made = r.made, r.name = "cfile",
              NEW x, \A k \in 0 .. Len(o) - 1 : x[k + 1] = o[k + 1], g.size <= 2 * NB
       PROVE  CopySoFar(w, gds[Dest], s, x, g, Len(o))
  <2>1. CopySoFar(v, fds[Dest], r, o, g, Len(o))
    BY <1>9, <1>12
  <2>2. fds[Dest].inoeud \in I /\ r.dest = fds[Dest].inoeud
    BY <1>5, <1>12 DEF OnDest
  <2> QED
    BY <1>8, <1>12, <2>1, <2>2, CopyStays
<1>13. ASSUME ch = EOF
       PROVE  Shape(ends, o, g) /\ Work(w, gds, I, ends, o, g)
  <2>1. Shape(ends, o, g)
    BY <1>2, <1>3 DEF Shape, Stage
  <2>2. ASSUME Reading(ends, g)
        PROVE  /\ ReadSoFar(w, I, ends, o, g) /\ AllRead(o, g)
               /\ r.name = "cfile" => CopySoFar(w, gds[Dest], ends, o, g, Len(o))
    <3>1. g.size <= 2 * NB
      BY <2>2 DEF Reading
    <3> QED
      BY <1>3, <1>10, <1>11, <1>12, <1>13, <3>1
  <2>3. OnSrc(gds[Src], ends, g) /\ (r.name = "cfile" => OnDest(gds[Dest], ends))
    BY <1>3, <1>6 DEF OnSrc, OnDest
  <2> QED
    BY <1>2, <1>3, <2>1, <2>2, <2>3 DEF Work, SrcOpen, DestOpen, Put0
<1>14. ASSUME ch # EOF
       PROVE  Shape(more, u, g) /\ Work(w, gds, I, more, u, g)
  <2>1. Shape(more, u, g)
    BY <1>2, <1>4, <1>7, <1>14 DEF Shape, Stage
  <2>2. ASSUME Reading(more, g)
        PROVE  /\ ReadSoFar(w, I, more, u, g) /\ AtSrc(gds[Src], u, g)
               /\ r.name = "cfile" => CopySoFar(w, gds[Dest], more, u, g, Len(o))
    <3>1. g.size <= 2 * NB
      BY <2>2 DEF Reading
    <3>2. ReadSoFar(w, I, more, o, g)
      BY <1>4, <1>11, <3>1
    <3>3. Len(u) <= g.size * S /\ ch = ByteOf(g.c, Len(o)) /\ AtSrc(gds[Src], u, g)
      BY <1>7, <1>10, <1>14, <3>1
    <3>4. ASSUME NEW x \in 0 .. Len(u) - 1
          PROVE  u[x + 1] = ByteOf(g.c, x) /\ u[x + 1] # EOF
      <4>1. CASE x = Len(o)
        BY <1>7, <1>14, <3>3, <4>1
      <4>2. CASE x # Len(o)
        <5>1. x \in 0 .. Len(o) - 1
          BY <1>7, <1>8, <1>14, <4>2
        <5> QED
          BY <1>7, <1>14, <3>2, <5>1 DEF ReadSoFar
      <4> QED
        BY <4>1, <4>2
    <3>5. ReadSoFar(w, I, more, u, g)
      BY <3>2, <3>3, <3>4 DEF ReadSoFar
    <3>6. r.name = "cfile" => CopySoFar(w, gds[Dest], more, u, g, Len(o))
      BY <1>4, <1>7, <1>12, <1>14, <3>1
    <3> QED
      BY <3>3, <3>5, <3>6
  <2>3. OnSrc(gds[Src], more, g) /\ (r.name = "cfile" => OnDest(gds[Dest], more))
    BY <1>4, <1>6 DEF OnSrc, OnDest
  <2>4. r.name = "cfile" => Put0(more, u) = Len(o)
    BY <1>4, <1>7, <1>8, <1>14 DEF Put0
  <2> QED
    BY <1>2, <1>4, <2>1, <2>2, <2>3, <2>4 DEF Work, SrcOpen, DestOpen
<1> QED
  BY <1>13, <1>14 DEF ends, more, ch, u

\* The bloc of the copy is not refused, unless the copy is lost.
LEMMA NotRefused ==
    ASSUME NEW v, NEW w, NEW I, Good(w, I, {}), Keeps(v, w, I), NEW d, d.inoeud \in I,
           At(d) \in 0 .. 2 * NB - 1, At(d) \in 1 .. 2 * NB - 1 => At2(v, d.inoeud, At(d)) # 0,
           ~Lost(w, d.inoeud)
    PROVE  ~Refused(w, d)
<1>1. Refused(w, d) <=> w.nb = 0 /\ At2(w, d.inoeud, At(d)) = 0
  BY RefusedIs
<1>2. CASE At(d) = 0
  BY <1>1, <1>2 DEF Lost
<1>3. CASE At(d) # 0
  <2>1. At(d) \in 1 .. 2 * NB - 1
    BY <1>3
  <2> QED
    BY <1>1, <2>1 DEF Keeps
<1> QED
  BY <1>2, <1>3

\* What is written over itself, or refused, is as it was.
LEMMA SameAgain ==
    ASSUME NEW v, NEW w, NEW I, Good(w, I, {}), Keeps(v, w, I), NEW d, d.inoeud \in I,
           At(d) \in 0 .. 2 * NB - 1, d.buffer = HeldAt(v, d.inoeud, At(d)),
           HeldAt(w, d.inoeud, At(d)) = IF Refused(w, d) THEN Zeros ELSE d.buffer
    PROVE  HeldAt(w, d.inoeud, At(d)) = HeldAt(v, d.inoeud, At(d))
<1>1. Refused(w, d) <=> w.nb = 0 /\ At2(w, d.inoeud, At(d)) = 0
  BY RefusedIs
<1>2. Refused(w, d) => At2(v, d.inoeud, At(d)) = 0
  BY <1>1 DEF Keeps
<1>3. Refused(w, d) => HeldAt(v, d.inoeud, At(d)) = Zeros
  BY <1>2 DEF HeldAt
<1> QED
  BY <1>3

\* One character more in the buffer.
LEMMA TypedView ==
    ASSUME NEW v, NEW d \in FdType, NEW n \in 0 .. 2 * NB * S - 1, d.cursor = n,
           NEW o, NEW made, Copied(View(v, d), o, n, made), NEW c, c = o[n + 1],
           NEW t, t.buffer = [d.buffer EXCEPT ![n % S] = c], At(t) = At(d),
           t.inoeud = d.inoeud
    PROVE  Copied(View(v, t), o, n + 1, made)
<1> SUFFICES ASSUME NEW x \in 0 .. 2 * NB * S - 1
             PROVE  IF x < n + 1 THEN ByteOf(View(v, t), x) = o[x + 1]
                    ELSE made => ByteOf(View(v, t), x) = 0
  BY DEF Copied
<1>1. /\ Fbloc(x) \in 0 .. 2 * NB - 1 /\ x % S \in 0 .. S - 1
      /\ Fbloc(n) \in 0 .. 2 * NB - 1 /\ n % S \in 0 .. S - 1 /\ x \in Nat /\ n \in Nat
  BY BytePlace, ToolSizes
<1>2. At(d) = Fbloc(n) /\ d.buffer \in [0 .. S - 1 -> 0 .. W - 1]
  BY FdTyped DEF At, Bytes
<1>3. IF x < n THEN ByteOf(View(v, d), x) = o[x + 1]
      ELSE made => ByteOf(View(v, d), x) = 0
  BY DEF Copied
<1>4. CASE x = n
  <2>1. View(v, t)[Fbloc(x)] = t.buffer
    BY <1>1, <1>2, <1>4 DEF View
  <2>2. t.buffer[n % S] = c
    BY <1>1, <1>2
  <2> QED
    BY <1>1, <1>4, <2>1, <2>2 DEF ByteOf
<1>5. CASE x # n
  <2>1. CASE Fbloc(x) = At(d)
    <3>1. x % S # n % S
      BY <1>1, <1>2, <1>5, <2>1, ByteApart
    <3>2. View(v, t)[Fbloc(x)] = t.buffer /\ View(v, d)[Fbloc(x)] = d.buffer
      BY <1>1, <2>1 DEF View
    <3>3. t.buffer[x % S] = d.buffer[x % S]
      BY <1>1, <1>2, <3>1
    <3> QED
      BY <1>1, <1>3, <1>5, <3>2, <3>3 DEF ByteOf
  <2>2. CASE Fbloc(x) # At(d)
    <3>1. View(v, t)[Fbloc(x)] = View(v, d)[Fbloc(x)]
      BY <1>1, <2>2 DEF View
    <3> QED
      BY <1>1, <1>3, <1>5, <3>1 DEF ByteOf
  <2> QED
    BY <2>1, <2>2
<1> QED
  BY <1>4, <1>5

\* t is the descriptor of the copy with the character in its buffer, h what the seek
\* makes of it.
LEMMA CopyGoesOn ==
    ASSUME NEW v, NEW w, NEW I, NEW d \in FdType, NEW t \in FdType, NEW h \in FdType,
           NEW r, NEW o \in Seq(0 .. W - 1), NEW g, g.size \in 0 .. F, g.size <= 2 * NB,
           ReadSoFar(v, I, r, o, g), r.dest \in I, d.inoeud = r.dest, o # <<>>,
           CopySoFar(v, d, r, o, g, Len(o) - 1), t = TypedIn(d, o[Len(o)]),
           w.end = "none", Sails(v, [v |-> w, d |-> h], I, t, d.cursor + 1)
    PROVE  ReadSoFar(w, I, r, o, g) /\ CopySoFar(w, h, r, o, g, Len(o))
<1> DEFINE n == Len(o) - 1
           c == o[Len(o)]
           i == r.dest
<1>1. Len(o) \in Nat /\ n \in Nat /\ n + 1 = Len(o) /\ n \in 0 .. Len(o) - 1
  <2>1. Len(o) \in Nat /\ Len(o) # 0
    OBVIOUS
  <2> QED
    BY <2>1
<1>2. Len(o) <= g.size * S /\ c = ByteOf(g.c, n)
  BY <1>1 DEF ReadSoFar
<1>3. g.size * S \in Nat /\ n < g.size * S
  <2>1. g.size \in Nat
    BY ToolSizes
  <2>2. g.size * S \in Nat
    BY <2>1, ToolSizes
  <2> QED
    BY <1>1, <1>2, <2>2
<1>4. n \in 0 .. 2 * NB * S - 1 /\ Fbloc(n) \in 0 .. 2 * NB - 1 /\ n % S \in 0 .. S - 1
  BY <1>1, <1>3, BelowSize, BytePlace
<1>5. d.cursor = n /\ At(d) = Fbloc(n) /\ d.buffer \in [0 .. S - 1 -> 0 .. W - 1]
  BY FdTyped DEF CopySoFar, At, Bytes
<1> HIDE DEF n, c
<1>6. /\ t.inoeud = i /\ t.inoeud = d.inoeud /\ t.cursor = n /\ At(t) = At(d) /\ t.modified
      /\ t.buffer = [d.buffer EXCEPT ![n % S] = c]
  BY <1>5 DEF TypedIn, FdType, At, c
<1>7. /\ Good(w, I, {}) /\ Keeps(v, w, I) /\ OnlyAt(v, w, I, t) /\ Starves(v, w, I)
      /\ h.open /\ h.inoeud = i /\ h.modified /\ h.cursor = n + 1
      /\ IF At(h) = At(t) THEN w = v /\ h.buffer = t.buffer
         ELSE Left(v, w, t) /\ Reads(w, h) /\ At2(w, i, At(h)) # 0
  BY <1>5, <1>6 DEF Sails
<1>8. \A f \in 0 .. 2 * NB - 1 : HeldAt(v, r.src, f) = g.c[f]
  BY DEF ReadSoFar
<1>9. ASSUME r.src = i
      PROVE  t.buffer = g.c[At(t)]
  <2>1. d.buffer = g.c[At(d)]
    BY <1>4, <1>5, <1>9, ToolSizes DEF CopySoFar
  <2>2. c = d.buffer[n % S]
    BY <1>2, <1>5, <2>1 DEF ByteOf, c, n
  <2>3. [d.buffer EXCEPT ![n % S] = c] = d.buffer
    BY <1>4, <1>5, <2>2
  <2> QED
    BY <1>6, <2>1, <2>3
<1>10. ASSUME NEW f \in 0 .. 2 * NB - 1
       PROVE  HeldAt(w, r.src, f) = HeldAt(v, r.src, f)
  <2>1. r.src \in I
    BY DEF ReadSoFar
  <2>2. CASE r.src # i \/ f # At(t)
    BY <1>6, <1>7, <2>1, <2>2 DEF OnlyAt
  <2>3. CASE r.src = i /\ f = At(t) /\ At(h) = At(t)
    BY <1>7, <2>3
  <2>4. CASE r.src = i /\ f = At(t) /\ At(h) # At(t)
    <3>1. t.buffer = HeldAt(v, t.inoeud, At(t))
      BY <1>6, <1>8, <1>9, <2>4
    <3>2. At(t) \in 0 .. 2 * NB - 1 /\ At(t) < 2 * NB
      BY <2>4, ToolSizes
    <3>3. HeldAt(w, t.inoeud, At(t)) = IF Refused(w, t) THEN Zeros ELSE t.buffer
      BY <1>6, <1>7, <2>4, <3>2 DEF Left
    <3> QED
      BY <1>6, <1>7, <2>1, <2>4, <3>1, <3>2, <3>3, SameAgain
  <2> QED
    BY <2>2, <2>3, <2>4
<1>11. ReadSoFar(w, I, r, o, g)
  BY <1>10, ReadStays
<1>12. At(h) \in 1 .. 2 * NB - 1 => At2(w, i, At(h)) # 0
  BY <1>6, <1>7 DEF CopySoFar
<1>13. ASSUME r.src = i, At(h) < 2 * NB
       PROVE  h.buffer = g.c[At(h)]
  <2>1. CASE At(h) = At(t)
    BY <1>7, <1>9, <1>13, <2>1
  <2>2. CASE At(h) # At(t)
    <3>1. At(h) \in 0 .. 2 * NB - 1
      BY <1>13, CharacterIs, ToolSizes
    <3>2. h.buffer = HeldAt(w, i, At(h))
      BY <1>7, <1>13, <2>2 DEF Reads
    <3> QED
      BY <1>8, <1>10, <1>13, <3>1, <3>2
  <2> QED
    BY <2>1, <2>2
<1>14. ASSUME r.src # i, ~Lost(w, i)
       PROVE  Copied(View(w, h), o, n + 1, r.made)
  <2>1. ~Lost(v, i)
    BY <1>7, <1>14, LostOn
  <2>2. Copied(View(v, d), o, n, r.made)
    BY <1>14, <2>1 DEF CopySoFar, n
  <2>3. c = o[n + 1]
    BY <1>1 DEF c, n
  <2>4. Copied(View(v, t), o, n + 1, r.made)
    BY <1>4, <1>5, <1>6, <2>2, <2>3, TypedView
  <2>5. ASSUME NEW f \in 0 .. 2 * NB - 1
        PROVE  View(w, h)[f] = View(v, t)[f]
    <3>1. CASE At(h) = At(t)
      BY <1>6, <1>7, <3>1 DEF View
    <3>2. CASE At(h) # At(t) /\ f = At(t)
      <4>1. At(t) \in 1 .. 2 * NB - 1 => At2(v, t.inoeud, At(t)) # 0
        BY <1>6 DEF CopySoFar
      <4>2. ~Refused(w, t)
        BY <1>6, <1>7, <1>14, <3>2, <4>1, NotRefused
      <4>3. HeldAt(w, i, f) = t.buffer
        BY <1>6, <1>7, <3>2, <4>2, ToolSizes DEF Left
      <4> QED
        BY <1>7, <3>2, <4>3 DEF View
    <3>3. CASE At(h) # At(t) /\ f # At(t)
      <4>1. HeldAt(w, i, f) = HeldAt(v, i, f)
        BY <1>7, <3>3 DEF OnlyAt
      <4>2. f = At(h) => h.buffer = HeldAt(w, i, f)
        BY <1>7, <3>3, ToolSizes DEF Reads
      <4> QED
        BY <1>6, <1>7, <3>3, <4>1, <4>2 DEF View
    <3> QED
      BY <3>1, <3>2, <3>3
  <2> QED
    BY <2>4, <2>5, CopiedOn
<1>15. CopySoFar(w, h, r, o, g, n + 1)
  BY <1>7, <1>12, <1>13, <1>14 DEF CopySoFar
<1> QED
  BY <1>1, <1>11, <1>15 DEF n

LEMMA PutOnce ==
    ASSUME NEW v, NEW fds, NEW I, NEW r, NEW o, NEW g, Busy(v, fds, I, r, o, g),
           r.at = "put", NEW w, w.end = "none", NEW gds \in [Fd -> FdType],
           NEW t \in FdType, t = TypedIn(fds[Dest], o[Len(o)]),
           Sails(v, [v |-> w, d |-> gds[Dest]], I, t, fds[Dest].cursor + 1),
           gds[Src] = fds[Src]
    PROVE  LET s == [r EXCEPT !.at = "read"]
           IN  Shape(s, o, g) /\ Work(w, gds, I, s, o, g)
<1> DEFINE s == [r EXCEPT !.at = "read"]
<1>1. /\ fds[Src] \in FdType /\ fds[Dest] \in FdType /\ gds[Dest] \in FdType
      /\ OnFile(v, I, fds[Dest])
      /\ Shape(r, o, g) /\ Work(v, fds, I, r, o, g)
  BY ToolSizes DEF Busy
<1>2. /\ r \in RunType /\ r.name = "cfile" /\ o \in Seq(0 .. W - 1) /\ o # <<>>
      /\ g.size \in 0 .. F
  BY <1>1 DEF Shape, Stage
<1>3. /\ s.name = r.name /\ s.at = "read" /\ s.src = r.src /\ s.dest = r.dest
      /\ s.made = r.made /\ s \in RunType
  BY <1>2, StageIs
<1> HIDE DEF s
<1>4. OnSrc(fds[Src], r, g) /\ OnDest(fds[Dest], r) /\ r.dest \in I
  BY <1>1, <1>2 DEF Work, SrcOpen, DestOpen, OnDest, OnFile
<1>5. OnSrc(gds[Src], s, g) /\ OnDest(gds[Dest], s)
  <2>1. gds[Dest].open /\ gds[Dest].inoeud = t.inoeud
    BY DEF Sails
  <2>2. t.inoeud = fds[Dest].inoeud
    BY <1>1 DEF TypedIn, FdType
  <2> QED
    BY <1>3, <1>4, <2>1, <2>2 DEF OnSrc, OnDest
<1>6. Shape(s, o, g)
  BY <1>2, <1>3 DEF Shape, Stage
<1>7. ASSUME Reading(s, g)
      PROVE  /\ ReadSoFar(w, I, s, o, g) /\ AtSrc(gds[Src], o, g)
             /\ CopySoFar(w, gds[Dest], s, o, g, Len(o))
  <2>1. g.size <= 2 * NB
    BY <1>7 DEF Reading
  <2>2. /\ ReadSoFar(v, I, r, o, g) /\ AtSrc(fds[Src], o, g)
        /\ CopySoFar(v, fds[Dest], r, o, g, Len(o) - 1)
    BY <1>1, <1>2, <2>1 DEF Work, Reading, Put0
  <2>3. ReadSoFar(w, I, r, o, g) /\ CopySoFar(w, gds[Dest], r, o, g, Len(o))
    BY <1>1, <1>2, <1>4, <2>1, <2>2, CopyGoesOn DEF OnDest
  <2> QED
    BY <1>3, <2>2, <2>3 DEF ReadSoFar, CopySoFar
<1>8. Work(w, gds, I, s, o, g)
  BY <1>3, <1>5, <1>7 DEF Work, Put0
<1> QED
  BY <1>6, <1>8 DEF s

LEMMA CopyCloses ==
    ASSUME NEW v, NEW w, NEW I, NEW d \in FdType, NEW r, NEW o, NEW g,
           ReadSoFar(v, I, r, o, g), r.dest \in I, d.inoeud = r.dest,
           CopySoFar(v, d, r, o, g, Len(o)), w.end = "none", Flushed(v, w, I, d)
    PROVE  ReadSoFar(w, I, r, o, g) /\ CopyDone(w, I, r, o)
<1> DEFINE i == r.dest
<1>1. /\ Good(w, I, {}) /\ Keeps(v, w, I) /\ OnlyAt(v, w, I, d) /\ Starves(v, w, I)
      /\ d.modified => Wrote(w, d)
      /\ ~d.modified => w = v
  BY DEF Flushed
<1>2. At(d) \in Nat /\ (At(d) < 2 * NB => At(d) \in 0 .. 2 * NB - 1)
  BY CharacterIs, ToolSizes
<1>3. \A f \in 0 .. 2 * NB - 1 : HeldAt(v, r.src, f) = g.c[f]
  BY DEF ReadSoFar
<1>4. ASSUME NEW f \in 0 .. 2 * NB - 1
      PROVE  HeldAt(w, r.src, f) = HeldAt(v, r.src, f)
  <2>1. r.src \in I
    BY DEF ReadSoFar
  <2>2. CASE r.src # i \/ f # At(d)
    BY <1>1, <2>1, <2>2 DEF OnlyAt
  <2>3. CASE r.src = i /\ f = At(d) /\ ~d.modified
    BY <1>1, <2>3
  <2>4. CASE r.src = i /\ f = At(d) /\ d.modified
    <3>1. d.buffer = HeldAt(v, d.inoeud, At(d))
      BY <1>3, <2>4, ToolSizes DEF CopySoFar
    <3>2. At(d) < 2 * NB
      BY <2>4, ToolSizes
    <3>3. HeldAt(w, d.inoeud, At(d)) = IF Refused(w, d) THEN Zeros ELSE d.buffer
      BY <1>1, <2>4, <3>2 DEF Wrote
    <3> QED
      BY <1>1, <2>1, <2>4, <3>1, <3>3, SameAgain
  <2>5. d.modified \in BOOLEAN
    BY FdTyped
  <2> QED
    BY <2>2, <2>3, <2>4, <2>5
<1>5. ReadSoFar(w, I, r, o, g)
  BY <1>4, ReadStays
<1>6. ASSUME r.src # i, ~Lost(w, i)
      PROVE  Copied(Disk(w, i), o, Len(o), r.made)
  <2>1. ~Lost(v, i)
    BY <1>1, <1>6, LostOn
  <2>2. Copied(View(v, d), o, Len(o), r.made)
    BY <1>6, <2>1 DEF CopySoFar
  <2>3. ASSUME NEW f \in 0 .. 2 * NB - 1
        PROVE  Disk(w, i)[f] = View(v, d)[f]
    <3>1. CASE f # At(d)
      BY <1>1, <3>1 DEF OnlyAt, Disk, View
    <3>2. CASE f = At(d) /\ ~d.modified
      <4>1. d.buffer = HeldAt(v, i, f)
        BY <3>2, ToolSizes DEF CopySoFar, Reads
      <4> QED
        BY <1>1, <3>2, <4>1 DEF Disk, View
    <3>3. CASE f = At(d) /\ d.modified
      <4>1. At(d) \in 1 .. 2 * NB - 1 => At2(v, d.inoeud, At(d)) # 0
        BY DEF CopySoFar
      <4>2. ~Refused(w, d)
        BY <1>1, <1>6, <3>3, <4>1, NotRefused
      <4>3. HeldAt(w, i, f) = d.buffer
        BY <1>1, <3>3, <4>2, ToolSizes DEF Wrote
      <4> QED
        BY <3>3, <4>3 DEF Disk, View
    <3>4. d.modified \in BOOLEAN
      BY FdTyped
    <3> QED
      BY <3>1, <3>2, <3>3, <3>4
  <2> QED
    BY <2>2, <2>3, CopiedOn
<1> QED
  BY <1>5, <1>6 DEF CopyDone

\* if_nfile and if_cfile end: the other descriptor is closed, or was never opened.
LEMMA CloseDestOnce ==
    ASSUME NEW v, NEW fds, NEW I, NEW r, NEW o, NEW g, Busy(v, fds, I, r, o, g),
           r.at = "closedest", NEW w, w.end = "none", Flushed(v, w, I, fds[Dest]), NEW gds
    PROVE  LET s == [r EXCEPT !.at = "end"]
           IN  Shape(s, o, g) /\ Work(w, gds, I, s, o, g)
<1> DEFINE s == [r EXCEPT !.at = "end"]
<1>1. /\ fds[Dest] \in FdType /\ OnFile(v, I, fds[Dest])
      /\ Shape(r, o, g) /\ Work(v, fds, I, r, o, g)
  BY ToolSizes DEF Busy
<1>2. /\ r \in RunType /\ r.name \in {"nfile", "cfile"} /\ o \in Seq(0 .. W - 1)
      /\ g.size \in 0 .. F
  BY <1>1 DEF Shape, Stage
<1>3. /\ s.name = r.name /\ s.at = "end" /\ s.src = r.src /\ s.dest = r.dest
      /\ s.made = r.made /\ s \in RunType
  BY <1>2, StageIs
<1> HIDE DEF s
<1>4. OnDest(fds[Dest], r) /\ r.dest \in I
  BY <1>1 DEF Work, DestOpen, OnDest, OnFile
<1>5. Shape(s, o, g)
  BY <1>1, <1>2, <1>3 DEF Shape, Stage
<1>6. ASSUME Reading(s, g)
      PROVE  ReadSoFar(w, I, s, o, g) /\ AllRead(o, g) /\ CopyDone(w, I, s, o)
  <2>1. r.name = "cfile" /\ g.size <= 2 * NB
    BY <1>2, <1>3, <1>6 DEF Reading
  <2>2. /\ ReadSoFar(v, I, r, o, g) /\ AllRead(o, g)
        /\ CopySoFar(v, fds[Dest], r, o, g, Len(o))
    BY <1>1, <2>1 DEF Work, Reading, Put0
  <2>3. ReadSoFar(w, I, r, o, g) /\ CopyDone(w, I, r, o)
    BY <1>1, <1>4, <2>2, CopyCloses DEF OnDest
  <2> QED
    BY <1>3, <2>2, <2>3 DEF ReadSoFar, CopyDone
<1>7. Work(w, gds, I, s, o, g)
  BY <1>3, <1>6 DEF Work, SrcOpen, DestOpen
<1> QED
  BY <1>5, <1>7 DEF s

LEMMA CloseSrcOnce ==
    ASSUME NEW v, NEW fds, NEW I, NEW r, NEW o, NEW g, Busy(v, fds, I, r, o, g),
           r.at = "closesrc", NEW gds, gds[Dest] = fds[Dest]
    PROVE  LET s == [r EXCEPT !.at = IF r.name = "cfile" THEN "closedest" ELSE "end"]
           IN  Shape(s, o, g) /\ Work(v, gds, I, s, o, g)
<1> DEFINE a == IF r.name = "cfile" THEN "closedest" ELSE "end"
           s == [r EXCEPT !.at = a]
<1>1. Shape(r, o, g) /\ Work(v, fds, I, r, o, g)
  BY DEF Busy
<1>2. /\ r \in RunType /\ r.name \in {"pfile", "cfile"} /\ o \in Seq(0 .. W - 1)
      /\ g.size \in 0 .. F
  BY <1>1 DEF Shape, Stage
<1>3. a \in {"closedest", "end"}
  OBVIOUS
<1> HIDE DEF a
<1>4. /\ s.name = r.name /\ s.at = a /\ s.src = r.src /\ s.dest = r.dest
      /\ s.made = r.made /\ s \in RunType
  BY <1>2, <1>3, StageIs
<1> HIDE DEF s
<1>5. Shape(s, o, g)
  BY <1>1, <1>2, <1>4 DEF Shape, Stage, a
<1>6. r.name = "cfile" => OnDest(gds[Dest], s)
  BY <1>1, <1>4 DEF Work, DestOpen, OnDest
<1>7. ASSUME Reading(s, g)
      PROVE  /\ ReadSoFar(v, I, s, o, g) /\ AllRead(o, g)
             /\ r.name = "cfile" => CopySoFar(v, gds[Dest], s, o, g, Len(o))
  <2>1. g.size <= 2 * NB
    BY <1>7 DEF Reading
  <2>2. /\ ReadSoFar(v, I, r, o, g) /\ AllRead(o, g)
        /\ r.name = "cfile" => CopySoFar(v, fds[Dest], r, o, g, Len(o))
    BY <1>1, <1>2, <2>1 DEF Work, Reading, Put0
  <2> QED
    BY <1>4, <2>2 DEF ReadSoFar, CopySoFar
<1>8. CASE r.name = "cfile"
  <2>1. s.name = "cfile" /\ s.at = "closedest"
    BY <1>4, <1>8 DEF a
  <2> QED
    BY <1>5, <1>6, <1>7, <1>8, <2>1 DEF Work, SrcOpen, DestOpen, Put0, s, a
<1>9. CASE r.name = "pfile"
  <2>1. s.name = "pfile" /\ s.at = "end"
    BY <1>4, <1>9 DEF a
  <2> QED
    BY <1>5, <1>7, <1>9, <2>1 DEF Work, SrcOpen, DestOpen, s, a
<1> QED
  BY <1>2, <1>8, <1>9

-----------------------------------------------------------------------------
(* Creating and opening.                                                    *)

LEMMA OpenSrcOnce ==
    ASSUME NEW v, NEW fds, NEW I, NEW r, NEW o, NEW g, Busy(v, fds, I, r, o, g),
           r.at = "src", r.src \in I, NEW gds, gds[Src] = Opened(v, r.src),
           NEW h, h = [size |-> v.disk[r.src].taille,
                       c |-> [f \in Index |-> Content(v, r.src, f)]]
    PROVE  LET s == [r EXCEPT !.at = IF r.name = "cfile" THEN "dest" ELSE "read"]
           IN  Shape(s, o, h) /\ Work(v, gds, I, s, o, h)
<1> DEFINE a == IF r.name = "cfile" THEN "dest" ELSE "read"
           s == [r EXCEPT !.at = a]
           d == gds[Src]
<1>1. Good(v, I, {}) /\ Shape(r, o, g) /\ Work(v, fds, I, r, o, g)
  BY DEF Busy
<1>2. r \in RunType /\ r.name \in {"pfile", "cfile"} /\ o = <<>>
  BY <1>1 DEF Shape, Stage
<1>3. a \in {"dest", "read"} /\ (a = "dest" <=> r.name = "cfile")
  OBVIOUS
<1> HIDE DEF a
<1>4. /\ s.name = r.name /\ s.at = a /\ s.src = r.src /\ s.dest = r.dest
      /\ s.made = r.made /\ s \in RunType
  BY <1>2, <1>3, StageIs
<1> HIDE DEF s
<1>5. h.size \in 0 .. F /\ h.size = v.disk[r.src].taille
  BY <1>1, InodeType DEF Good
<1>6. \A f \in 0 .. 2 * NB - 1 : h.c[f] = HeldAt(v, r.src, f) /\ h.c[f] = Content(v, r.src, f)
  <2>1. \A f \in 0 .. 2 * NB - 1 : f \in Index
    BY Below2 DEF Index
  <2> QED
    BY <1>1, <2>1, LookupNamed
<1>7. Len(o) = 0 /\ 0 <= h.size * S /\ 0 .. Len(o) - 1 = {}
  <2>1. h.size \in Nat /\ S \in Nat
    BY <1>5, ToolSizes
  <2> QED
    BY <1>2, <2>1
<1>8. ReadSoFar(v, I, s, o, h)
  BY <1>4, <1>6, <1>7 DEF ReadSoFar
<1>9. d.open /\ d.inoeud = r.src /\ d.cursor = 0 /\ d.size = h.size /\ ~d.modified
      /\ d.buffer = Content(v, r.src, 0)
  BY <1>5 DEF Opened
<1> HIDE DEF d
<1>10. At(d) = 0 /\ 0 \in 0 .. 2 * NB - 1
  BY <1>9, ToolSizes DEF At, Fbloc
<1>11. AtSrc(d, o, h)
  BY <1>6, <1>7, <1>9, <1>10 DEF AtSrc
<1>12. OnSrc(d, s, h)
  BY <1>4, <1>9 DEF OnSrc
<1>13. Shape(s, o, h)
  BY <1>2, <1>3, <1>4, <1>5 DEF Shape, Stage
<1>14. Work(v, gds, I, s, o, h)
  BY <1>1, <1>2, <1>3, <1>4, <1>8, <1>11, <1>12 DEF Work, SrcOpen, DestOpen, d
<1> QED
  BY <1>13, <1>14 DEF s, a

LEMMA OpenDestOnce ==
    ASSUME NEW v, NEW fds, NEW I, NEW r, NEW o, NEW g, Busy(v, fds, I, r, o, g),
           r.at = "dest", r.dest \in I,
           NEW gds, gds[Src] = fds[Src], gds[Dest] = Opened(v, r.dest)
    PROVE  LET s == [r EXCEPT !.at = IF r.name = "cfile" THEN "read" ELSE "write"]
           IN  Shape(s, o, g) /\ Work(v, gds, I, s, o, g)
<1> DEFINE a == IF r.name = "cfile" THEN "read" ELSE "write"
           s == [r EXCEPT !.at = a]
           d == gds[Dest]
<1>1. Good(v, I, {}) /\ Shape(r, o, g) /\ Work(v, fds, I, r, o, g)
  BY DEF Busy
<1>2. r \in RunType /\ r.name \in {"nfile", "cfile"} /\ o = <<>>
  BY <1>1 DEF Shape, Stage
<1>3. a \in {"read", "write"} /\ (a = "read" <=> r.name = "cfile")
  OBVIOUS
<1> HIDE DEF a
<1>4. /\ s.name = r.name /\ s.at = a /\ s.src = r.src /\ s.dest = r.dest
      /\ s.made = r.made /\ s \in RunType
  BY <1>2, <1>3, StageIs
<1> HIDE DEF s
<1>5. 0 \in 0 .. 2 * NB - 1 /\ 0 < 2 * NB
  BY ToolSizes
<1>6. d.open /\ d.inoeud = r.dest /\ d.cursor = 0 /\ ~d.modified /\ At(d) = 0
      /\ d.buffer = HeldAt(v, r.dest, 0)
  BY <1>1, <1>5, LookupNamed, ToolSizes DEF Opened, At, Fbloc
<1> HIDE DEF d
<1>7. Shape(s, o, g)
  BY <1>1, <1>2, <1>3, <1>4 DEF Shape, Stage
<1>8. OnDest(d, s)
  BY <1>4, <1>6 DEF OnDest
<1>9. r.name = "cfile" => OnSrc(gds[Src], s, g)
  BY <1>1, <1>4 DEF Work, SrcOpen, OnSrc
<1>10. ASSUME r.made
       PROVE  Copied(View(v, d), o, 0, r.made)
  <2> SUFFICES ASSUME NEW x \in 0 .. 2 * NB * S - 1
               PROVE  ~(x < 0) /\ ByteOf(View(v, d), x) = 0
    BY DEF Copied
  <2>1. Fbloc(x) \in 0 .. 2 * NB - 1 /\ x % S \in 0 .. S - 1
    BY BytePlace
  <2>2. HeldAt(v, r.dest, Fbloc(x)) = Zeros /\ HeldAt(v, r.dest, 0) = Zeros
    BY <1>1, <1>5, <1>10, <2>1 DEF Work
  <2>3. View(v, d)[Fbloc(x)] = Zeros
    BY <1>6, <2>1, <2>2 DEF View
  <2>4. ~(x < 0)
    BY ToolSizes
  <2> QED
    BY <2>1, <2>3, <2>4 DEF ByteOf, Zeros
<1>11. ASSUME ~r.made
       PROVE  Copied(View(v, d), o, 0, r.made)
  BY <1>11, ToolSizes DEF Copied
<1>12. r.made \in BOOLEAN
  BY <1>2 DEF RunType
<1>13. ASSUME Reading(s, g)
       PROVE  /\ ReadSoFar(v, I, s, o, g) /\ AtSrc(gds[Src], o, g)
              /\ CopySoFar(v, d, s, o, g, 0)
  <2>1. r.name = "cfile" /\ g.size <= 2 * NB
    BY <1>2, <1>4, <1>13 DEF Reading
  <2>2. ReadSoFar(v, I, r, o, g) /\ AtSrc(fds[Src], o, g)
    BY <1>1, <2>1 DEF Work, Reading
  <2>3. r.src = r.dest => d.buffer = g.c[0]
    BY <1>5, <1>6, <2>2 DEF ReadSoFar
  <2>4. CopySoFar(v, d, s, o, g, 0)
    BY <1>4, <1>6, <1>10, <1>11, <1>12, <2>3 DEF CopySoFar, Reads
  <2> QED
    BY <1>4, <2>2, <2>4 DEF ReadSoFar
<1>14. Len(o) = 0
  BY <1>2
<1>15. Work(v, gds, I, s, o, g)
  BY <1>2, <1>3, <1>4, <1>8, <1>9, <1>13, <1>14 DEF Work, SrcOpen, DestOpen, Put0, Reading, d
<1> QED
  BY <1>7, <1>15 DEF s, a

\* What create_inode made reads as zeros.
LEMMA NewIsEmpty ==
    ASSUME NEW v, NEW I, Good(v, I, {}), v.end = "none", NEW p, p.v = v, NewBloc(v).b # 0,
           NEW q, q = Created(NewBloc(v), p)
    PROVE  /\ q.v.end = "none" /\ NewBloc(v).b \in Bloc
           /\ \A f \in 0 .. 2 * NB - 1 : HeldAt(q.v, NewBloc(v).b, f) = Zeros
<1> DEFINE n == NewBloc(v)
           w == Put(n.v, n.b, EmptyInode)
<1>1. n.v.end = "none" /\ Given(n.v, I, n.b) /\ n.b # 0
  BY NewBlocs
<1>2. q.v = w
  BY <1>1 DEF Created, Then
<1> HIDE DEF n
<1>3. Same(n.v, w) /\ \A x \in Place : BlocAt(w, n.b, x) = 0
  <2>1. PICK m, c : m = n.v /\ c = n.b
    OBVIOUS
  <2>2. Given(m, I, c) /\ c # 0
    BY <1>1, <2>1
  <2>3. LET u == Put(m, c, EmptyInode)
        IN  Same(m, u) /\ \A x \in Place : BlocAt(u, c, x) = 0
    BY <2>2, InodeAt
  <2> QED
    BY <2>1, <2>3
<1> HIDE DEF w
<1>4. \A f \in 0 .. 2 * NB - 1 : HeldAt(w, n.b, f) = Zeros
  BY <1>3, Below2, SpotPlace DEF HeldAt, At2
<1>5. w.end = "none" /\ n.b \in Bloc
  BY <1>1, <1>3 DEF Same, Given
<1> QED
  BY <1>2, <1>4, <1>5 DEF n

LEMMA CreateOnce ==
    ASSUME NEW v, NEW fds, NEW I, NEW r, NEW o, NEW g, Busy(v, fds, I, r, o, g),
           r.at = "create", NEW b \in Bloc, NEW w, NEW J, NEW gds,
           \A f \in 0 .. 2 * NB - 1 : HeldAt(w, b, f) = Zeros
    PROVE  LET s == [r EXCEPT !.dest = b, !.made = TRUE,
                              !.at = IF r.name = "cfile" THEN "src" ELSE "dest"]
           IN  Shape(s, o, g) /\ Work(w, gds, J, s, o, g)
<1> DEFINE a == IF r.name = "cfile" THEN "src" ELSE "dest"
           s == [r EXCEPT !.dest = b, !.made = TRUE, !.at = a]
<1>1. Shape(r, o, g)
  BY DEF Busy
<1>2. r \in RunType /\ r.name \in {"nfile", "cfile"} /\ o = <<>>
  BY <1>1 DEF Shape, Stage
<1>3. a \in {"src", "dest"} /\ (a = "src" <=> r.name = "cfile")
  OBVIOUS
<1> HIDE DEF a
<1>4. s.name = r.name /\ s.at = a /\ s.src = r.src /\ s.dest = b /\ s.made /\ s \in RunType
  BY <1>2, <1>3 DEF RunType
<1> HIDE DEF s
<1>5. Shape(s, o, g)
  BY <1>1, <1>2, <1>3, <1>4 DEF Shape, Stage
<1>6. Work(w, gds, J, s, o, g)
  BY <1>2, <1>3, <1>4 DEF Work, SrcOpen, DestOpen, Reading
<1> QED
  BY <1>5, <1>6 DEF s, a

-----------------------------------------------------------------------------
(* The steps.                                                                *)

\* A program that goes on or starts.
OnItsWay == Inv /\ Shape(run, out, origin) /\ vol.end = "none"
         /\ Work(vol, fd, DOMAIN text, run, out, origin)

LEMMA IsBusy ==
    ASSUME OnItsWay, NEW I, I = DOMAIN text
    PROVE  /\ Busy(vol, fd, I, run, out, origin)
           /\ \E p, Sh : /\ p = Before /\ Sh = shared /\ Lives(p, I, Sh)
                         /\ p.v = vol /\ p.fd = fd /\ p.text = text
<1>1. PICK p : p = Before
  OBVIOUS
<1>2. PICK Sh : Sh = shared
  OBVIOUS
<1>3. p.v = vol /\ p.fd = fd /\ p.text = text
  BY <1>1 DEF Before
<1>4. Lives(p, I, Sh)
  BY <1>1, <1>2 DEF OnItsWay, Inv, AtRest
<1>5. Good(vol, I, {}) /\ fd \in [Fd -> FdType] /\ \A d \in Fd : OnFile(vol, I, fd[d])
  BY <1>3, <1>4 DEF Lives
<1>6. Busy(vol, fd, I, run, out, origin)
  BY <1>5 DEF Busy, OnItsWay
<1> QED
  BY <1>1, <1>2, <1>3, <1>4, <1>6

\* What a call came to is the next state.
LEMMA ComesTo ==
    ASSUME NEW q, NEW J, NEW Sh, Stray(q.v) \/ Lives(q, J, Sh), Returns(q), shared' = Sh,
           ~Stray(vol'), NEW r, NEW o, NEW g, run' = r, out' = o, origin' = g,
           Shape(r, o, g), q.v.end = "none" => Work(q.v, q.fd, J, r, o, g)
    PROVE  ToolInv'
<1>1. Inv' /\ DOMAIN text' = J /\ vol' = q.v
  BY Settled DEF Returns
<1>2. q.v.end = "none" => fd' = q.fd
  BY DEF Returns
<1>3. PICK w, fds, I : w = vol' /\ fds = fd' /\ I = DOMAIN text'
  OBVIOUS
<1>4. w.end = "none" => Work(w, fds, I, r, o, g)
  BY <1>1, <1>2, <1>3
<1>5. Shape(run, out, origin)'
  OBVIOUS
<1>6. (vol.end = "none" => Work(vol, fd, DOMAIN text, run, out, origin))'
  BY <1>3, <1>4
<1> QED
  BY <1>1, <1>5, <1>6 DEF ToolInv

LEMMA LaunchStep ==
    ASSUME Inv, ~Stray(vol'), NEW i \in Bloc, NEW name, NEW at,
           <<name, at>> \in {<<"nfile", "create">>, <<"pfile", "src">>, <<"cfile", "create">>,
                             <<"dfile", "delete">>},
           Launch(name, at, i)
    PROVE  ToolInv'
<1>1. Inv'
  <2>1. Fine
    BY RestartFine DEF Launch, Inv
  <2> QED
    BY <2>1 DEF Fine
<1>2. PICK r, o, g : r = Program(name, at, i) /\ o = <<>> /\ g = Nothing
  OBVIOUS
<1>3. /\ r.name = name /\ r.at = at /\ r.src = i /\ r.dest = 0 /\ ~r.made /\ r \in RunType
  <2>1. 0 \in Bloc
    BY ToolSizes, Sizes DEF Bloc
  <2> QED
    BY <1>2, <2>1 DEF Program, RunType
<1>4. Shape(r, o, g)
  BY <1>2, <1>3, ToolSizes DEF Shape, Stage, Nothing
<1>5. ASSUME NEW v, NEW fds, NEW I
      PROVE  Work(v, fds, I, r, o, g)
  BY <1>3 DEF Work, SrcOpen, DestOpen, Reading
<1>6. run' = r /\ out' = o /\ origin' = g
  BY <1>2 DEF Launch
<1>7. Shape(run, out, origin)'
  BY <1>4, <1>6
<1>8. Work(vol, fd, DOMAIN text, run, out, origin)'
  BY <1>5, <1>6
<1> QED
  BY <1>1, <1>7, <1>8 DEF ToolInv

LEMMA CreateStep ==
    ASSUME OnItsWay, ~Stray(vol'), Create
    PROVE  ToolInv'
<1>1. PICK I : I = DOMAIN text
  OBVIOUS
<1>2. PICK r, o, g : r = run /\ o = out /\ g = origin
  OBVIOUS
<1>3. Busy(vol, fd, I, r, o, g)
  BY <1>1, <1>2, IsBusy
<1>4. PICK p, Sh : /\ p = Before /\ Sh = shared /\ Lives(p, I, Sh)
                   /\ p.v = vol /\ p.fd = fd /\ p.text = text
  BY <1>1, IsBusy
<1> DEFINE q == Created(NewBloc(p.v), p)
           b == NewBloc(p.v).b
           s == [r EXCEPT !.dest = b, !.made = TRUE,
                          !.at = IF r.name = "cfile" THEN "src" ELSE "dest"]
<1>5. /\ r.at = "create" /\ b # 0 /\ Returns(q) /\ shared' = Sh
      /\ run' = s /\ out' = o /\ origin' = g
  BY <1>2, <1>4 DEF Create, CreateIfile, Onward
<1>6. p.v.end = "none" /\ Good(p.v, I, {})
  BY <1>4 DEF OnItsWay, Lives
<1>7. PICK J : Lives(q, J, Sh)
  BY <1>4, <1>6, CreateLives
<1>8. b \in Bloc /\ \A f \in 0 .. 2 * NB - 1 : HeldAt(q.v, b, f) = Zeros
  BY <1>5, <1>6, NewIsEmpty
<1> HIDE DEF q, b
<1>9. Shape(s, o, g) /\ Work(q.v, q.fd, J, s, o, g)
  BY <1>3, <1>5, <1>8, CreateOnce
<1> HIDE DEF s
<1> QED
  BY <1>5, <1>7, <1>9, ComesTo

LEMMA CreateNothingStep ==
    ASSUME OnItsWay, CreateNothing
    PROVE  ToolInv'
<1>1. PICK I : I = DOMAIN text
  OBVIOUS
<1>2. PICK p, Sh : /\ p = Before /\ Sh = shared /\ Lives(p, I, Sh)
                   /\ p.v = vol /\ p.fd = fd /\ p.text = text
  BY <1>1, IsBusy
<1> DEFINE n == NewBloc(p.v)
           x == Put(n.v, 0, EmptyInode)
           m == [n EXCEPT !.v = Ends(Put(@, 0, EmptyInode), "wild")]
           q == Created(m, p)
<1>3. Returns(q)
  BY <1>2 DEF CreateNothing
<1>4. n.v \in Volume
  <2>1. p.v.end = "none" /\ Good(p.v, I, {})
    BY <1>2 DEF OnItsWay, Lives
  <2>2. Good(n.v, I, {}) \/ Given(n.v, I, n.b)
    BY <2>1, NewBlocs
  <2> QED
    BY <2>2 DEF Given, Good
<1>5. n = [v |-> n.v, b |-> n.b]
  BY DEF NewBloc
<1>6. x \in Volume
  <2>1. 0 \in Bloc /\ EmptyInode \in Sector
    BY SectorKinds, Sizes DEF Bloc
  <2> HIDE DEF n
  <2> QED
    BY <1>4, <2>1, PutIn
<1>7. m.v = Ends(x, "wild")
  <2> HIDE DEF n
  <2> QED
    BY <1>5
<1> HIDE DEF n, x, m
<1>8. m.v.end = "wild"
  BY <1>6, <1>7 DEF Ends, Volume
<1>9. q.v.end = "wild"
  BY <1>8 DEF Created, Then
<1> HIDE DEF q
<1>10. vol'.end = "wild"
  BY <1>3, <1>9 DEF Returns
<1> QED
  BY <1>10 DEF ToolInv

LEMMA CreateSkippedStep ==
    ASSUME OnItsWay, NEW j \in Bloc, CreateSkipped(j)
    PROVE  ToolInv'
<1>1. PICK r, o, g : r = run /\ o = out /\ g = origin
  OBVIOUS
<1> DEFINE at == IF r.name = "cfile" THEN "src" ELSE "dest"
           s == [r EXCEPT !.dest = j, !.at = at]
<1>2. Shape(r, o, g) /\ r.at = "create" /\ r.name \in {"nfile", "cfile"}
  BY <1>1 DEF OnItsWay, CreateSkipped, Shape, Stage
<1>3. r \in RunType /\ o = <<>> /\ ~r.made
  BY <1>2 DEF Shape
<1>4. s.name = r.name /\ s.at = at /\ s.dest = j /\ ~s.made /\ s \in RunType
  BY <1>2, <1>3 DEF RunType
<1>5. run' = s /\ out' = o /\ origin' = g
  BY <1>1 DEF CreateSkipped, Onward
<1> HIDE DEF s
<1>6. Shape(s, o, g)
  BY <1>2, <1>3, <1>4 DEF Shape, Stage
<1>7. \A v, fds, I : Work(v, fds, I, s, o, g)
  <2>1. (s.at = "src") \/ (s.at = "dest" /\ (s.name = "cfile" => s.at = "src"))
    BY <1>2, <1>4
  <2>2. ~SrcOpen(s) /\ ~DestOpen(s) /\ ~Reading(s, g)
    BY <1>2, <1>4, <2>1 DEF SrcOpen, DestOpen, Reading
  <2> QED
    BY <1>4, <2>2 DEF Work
<1>8. Inv'
  <2>1. UNCHANGED vars
    BY DEF CreateSkipped
  <2> QED
    BY <2>1 DEF OnItsWay, vars, Inv, Before
<1>9. Shape(run, out, origin)'
  BY <1>5, <1>6
<1>10. Work(vol, fd, DOMAIN text, run, out, origin)'
  BY <1>5, <1>7
<1> QED
  BY <1>8, <1>9, <1>10 DEF ToolInv

\* read_inode stops the process: its files are as they were.
LEMMA NoInodeStep ==
    ASSUME OnItsWay, ~Stray(vol'), NEW i, NoInode(i)
    PROVE  ToolInv'
<1>1. PICK I : I = DOMAIN text
  OBVIOUS
<1>2. PICK r, o, g : r = run /\ o = out /\ g = origin
  OBVIOUS
<1>3. PICK p, Sh : /\ p = Before /\ Sh = shared /\ Lives(p, I, Sh)
                   /\ p.v = vol /\ p.fd = fd /\ p.text = text
  BY <1>1, IsBusy
<1> DEFINE w == Ends(p.v, "abort")
           q == [v |-> w, fd |-> p.fd, text |-> p.text]
<1>4. Returns(q) /\ shared' = Sh /\ run' = r /\ out' = o /\ origin' = g
  BY <1>2, <1>3 DEF NoInode, Before
<1>5. p.v.end = "none" /\ Good(p.v, I, {}) /\ Shape(r, o, g)
  BY <1>2, <1>3 DEF OnItsWay, Lives
<1>6. Good(w, I, {}) /\ w.end = "abort" /\ Keeps(p.v, w, I) /\ Holds(p.v, w, I)
  BY <1>5, EndKept
<1> HIDE DEF w
<1>7. Lives(q, I, Sh) /\ q.v = w
  BY <1>3, <1>5, <1>6, HoldsLives
<1> HIDE DEF q
<1> QED
  BY <1>4, <1>5, <1>6, <1>7, ComesTo

LEMMA OpenSrcStep ==
    ASSUME OnItsWay, ~Stray(vol'), OpenSrc
    PROVE  ToolInv'
<1>1. CASE NoInode(run.src)
  BY <1>1, NoInodeStep
<1>2. CASE run.src \in DOMAIN text /\ OpenIfile(Src, run.src)
           /\ Next1("cfile", "dest", "read")
           /\ origin' = [size |-> vol.disk[run.src].taille,
                         c |-> [f \in Index |-> Content(vol, run.src, f)]]
           /\ UNCHANGED out
  <2>1. PICK I : I = DOMAIN text
    OBVIOUS
  <2>2. PICK r, o, g, v, fds : r = run /\ o = out /\ g = origin /\ v = vol /\ fds = fd
    OBVIOUS
  <2>3. Busy(v, fds, I, r, o, g)
    BY <2>1, <2>2, IsBusy
  <2> DEFINE h == [size |-> v.disk[r.src].taille,
                   c |-> [f \in Index |-> Content(v, r.src, f)]]
             s == [r EXCEPT !.at = IF r.name = "cfile" THEN "dest" ELSE "read"]
             gds == [fds EXCEPT ![Src] = Opened(v, r.src)]
  <2>4. /\ r.at = "src" /\ r.src \in I /\ vol' = v /\ DOMAIN text' = I /\ fd' = gds
        /\ run' = s /\ out' = o /\ origin' = h
    BY <1>2, <2>1, <2>2 DEF OpenSrc, OpenIfile, Next1, Goto
  <2>5. gds[Src] = Opened(v, r.src)
    BY <2>3, ToolSizes DEF Busy
  <2> HIDE DEF gds, h
  <2>6. Shape(s, o, h) /\ Work(v, gds, I, s, o, h)
    BY <2>3, <2>4, <2>5, OpenSrcOnce DEF h
  <2> HIDE DEF s
  <2>7. Inv'
    <3>1. Fine
      BY <1>2, OpenFine, ToolSizes DEF OnItsWay, Inv
    <3> QED
      BY <3>1 DEF Fine
  <2>8. Shape(run, out, origin)'
    BY <2>4, <2>6
  <2>9. Work(vol, fd, DOMAIN text, run, out, origin)'
    BY <2>4, <2>6
  <2> QED
    BY <2>7, <2>8, <2>9 DEF ToolInv
<1> QED
  BY <1>1, <1>2 DEF OpenSrc

LEMMA OpenDestStep ==
    ASSUME OnItsWay, ~Stray(vol'), OpenDest
    PROVE  ToolInv'
<1>1. CASE NoInode(run.dest)
  BY <1>1, NoInodeStep
<1>2. CASE run.dest \in DOMAIN text /\ OpenIfile(Dest, run.dest)
           /\ Next1("cfile", "read", "write") /\ UNCHANGED <<out, origin>>
  <2>1. PICK I : I = DOMAIN text
    OBVIOUS
  <2>2. PICK r, o, g, v, fds : r = run /\ o = out /\ g = origin /\ v = vol /\ fds = fd
    OBVIOUS
  <2>3. Busy(v, fds, I, r, o, g)
    BY <2>1, <2>2, IsBusy
  <2> DEFINE s == [r EXCEPT !.at = IF r.name = "cfile" THEN "read" ELSE "write"]
             gds == [fds EXCEPT ![Dest] = Opened(v, r.dest)]
  <2>4. /\ r.at = "dest" /\ r.dest \in I /\ vol' = v /\ DOMAIN text' = I /\ fd' = gds
        /\ run' = s /\ out' = o /\ origin' = g
    BY <1>2, <2>1, <2>2 DEF OpenDest, OpenIfile, Next1, Goto
  <2>5. gds[Src] = fds[Src] /\ gds[Dest] = Opened(v, r.dest)
    BY <2>3, ToolSizes DEF Busy
  <2> HIDE DEF gds
  <2>6. Shape(s, o, g) /\ Work(v, gds, I, s, o, g)
    BY <2>3, <2>4, <2>5, OpenDestOnce
  <2> HIDE DEF s
  <2>7. Inv'
    <3>1. Fine
      BY <1>2, OpenFine, ToolSizes DEF OnItsWay, Inv
    <3> QED
      BY <3>1 DEF Fine
  <2>8. Shape(run, out, origin)'
    BY <2>4, <2>6
  <2>9. Work(vol, fd, DOMAIN text, run, out, origin)'
    BY <2>4, <2>6
  <2> QED
    BY <2>7, <2>8, <2>9 DEF ToolInv
<1> QED
  BY <1>1, <1>2 DEF OpenDest

LEMMA DeleteStep ==
    ASSUME OnItsWay, ~Stray(vol'), DeleteFile
    PROVE  ToolInv'
<1>1. CASE NoInode(run.src)
  BY <1>1, NoInodeStep
<1>2. CASE run.src \in DOMAIN text /\ Delete(run.src) /\ Goto("end")
           /\ UNCHANGED <<out, origin>>
  <2>1. PICK r, o, g : r = run /\ o = out /\ g = origin
    OBVIOUS
  <2> DEFINE s == [r EXCEPT !.at = "end"]
  <2>2. Shape(r, o, g) /\ r.at = "delete" /\ run' = s /\ out' = o /\ origin' = g
    BY <1>2, <2>1 DEF OnItsWay, DeleteFile, Goto
  <2>3. r \in RunType /\ r.name = "dfile"
    BY <2>2 DEF Shape, Stage
  <2>4. s.name = "dfile" /\ s.at = "end" /\ s \in RunType
    BY <2>3, StageIs
  <2> HIDE DEF s
  <2>5. Shape(s, o, g)
    BY <2>2, <2>4 DEF Shape, Stage
  <2>6. \A v, fds, I : Work(v, fds, I, s, o, g)
    BY <2>4 DEF Work, SrcOpen, DestOpen, Reading
  <2>7. Inv'
    <3>1. Fine
      BY <1>2, DeleteFine DEF OnItsWay, Inv
    <3> QED
      BY <3>1 DEF Fine
  <2>8. Shape(run, out, origin)'
    BY <2>2, <2>5
  <2>9. Work(vol, fd, DOMAIN text, run, out, origin)'
    BY <2>2, <2>6
  <2> QED
    BY <2>7, <2>8, <2>9 DEF ToolInv
<1> QED
  BY <1>1, <1>2 DEF DeleteFile

\* What a program has read is characters, whatever the call comes to.
LEMMA ReadShape ==
    ASSUME NEW r, NEW o, NEW g, Shape(r, o, g), r.at = "read", NEW d \in FdType
    PROVE  /\ Shape([r EXCEPT !.at = "closesrc"], o, g)
           /\ Character(d) # EOF =>
                 Shape([r EXCEPT !.at = IF r.name = "cfile" THEN "put" ELSE "read"],
                       Append(o, Character(d)), g)
<1> DEFINE a == IF r.name = "cfile" THEN "put" ELSE "read"
           s == [r EXCEPT !.at = "closesrc"]
           m == [r EXCEPT !.at = a]
           u == Append(o, Character(d))
<1>1. r \in RunType /\ r.name \in {"pfile", "cfile"} /\ o \in Seq(0 .. W - 1)
      /\ g.size \in 0 .. F
  BY DEF Shape, Stage
<1>2. a \in {"put", "read"} /\ (a = "put" <=> r.name = "cfile")
  OBVIOUS
<1> HIDE DEF a
<1>3. s.name = r.name /\ s.at = "closesrc" /\ s \in RunType
  BY <1>1, StageIs
<1>4. m.name = r.name /\ m.at = a /\ m \in RunType
  BY <1>1, <1>2, StageIs
<1> HIDE DEF s, m
<1>5. Shape(s, o, g)
  BY <1>1, <1>3 DEF Shape, Stage
<1>6. ASSUME Character(d) # EOF
      PROVE  Shape(m, u, g)
  <2>1. Character(d) \in 0 .. W - 1
    BY <1>6, CharacterIs
  <2>2. u \in Seq(0 .. W - 1) /\ u # <<>>
    BY <1>1, <2>1, Longer
  <2> HIDE DEF u
  <2> QED
    BY <1>1, <1>2, <1>4, <2>2 DEF Shape, Stage
<1> QED
  BY <1>5, <1>6 DEF s, m, a

LEMMA ReadStep ==
    ASSUME OnItsWay, ~Stray(vol'), Read
    PROVE  ToolInv'
<1>1. PICK I : I = DOMAIN text
  OBVIOUS
<1>2. PICK r, o, g : r = run /\ o = out /\ g = origin
  OBVIOUS
<1>3. PICK p, Sh : /\ p = Before /\ Sh = shared /\ Lives(p, I, Sh)
                   /\ p.v = vol /\ p.fd = fd /\ p.text = text
  BY <1>1, IsBusy
<1>4. Busy(p.v, p.fd, I, r, o, g)
  BY <1>1, <1>2, <1>3, IsBusy
<1> DEFINE q == Readc(p, Src)
           e == p.fd[Src]
           ch == Character(e)
           ends == [r EXCEPT !.at = "closesrc"]
           more == [r EXCEPT !.at = IF r.name = "cfile" THEN "put" ELSE "read"]
           u == Append(o, ch)
<1>5. /\ r.at = "read" /\ Returns(q) /\ shared' = Sh /\ origin' = g
      /\ IF ch = EOF THEN run' = ends /\ out' = o ELSE run' = more /\ out' = u
  BY <1>2, <1>3 DEF Read, Next1, Goto
<1>6. Src \in Fd /\ Dest \in Fd /\ Src # Dest /\ p.fd \in [Fd -> FdType] /\ e \in FdType
  BY <1>3, ToolSizes DEF Lives
<1>7. e.open /\ ~e.modified
  BY <1>4, <1>5 DEF Busy, Work, SrcOpen, OnSrc
<1>8. Stray(q.v) \/ Lives(q, I, Sh)
  BY <1>3, <1>6, <1>7, ReadcSteps DEF Steps
<1>9. Shape(r, o, g)
  BY <1>4 DEF Busy
<1>10. Shape(ends, o, g) /\ (ch # EOF => Shape(more, u, g))
  BY <1>5, <1>6, <1>9, ReadShape
<1>11. ~Stray(q.v)
  BY <1>5 DEF Returns
<1>12. p.v.end = "none"
  BY <1>3 DEF OnItsWay
<1>13. ASSUME q.v.end = "none"
       PROVE  /\ ch = EOF => Work(q.v, q.fd, I, ends, o, g)
              /\ ch # EOF => Work(q.v, q.fd, I, more, u, g)
  <2>1. /\ Quiet(p.v, q.v, I) /\ ReadOn(q.v, p.fd[Src], q.fd[Src])
        /\ \A x \in Fd : x # Src => q.fd[x] = p.fd[x]
    BY <1>3, <1>6, <1>7, <1>11, <1>12, <1>13, ReadcDoes
  <2>2. q.fd \in [Fd -> FdType] /\ q.fd[Dest] = p.fd[Dest]
    BY <1>6, <1>8, <1>11, <2>1 DEF Lives
  <2> HIDE DEF q
  <2> QED
    BY <1>4, <1>5, <2>1, <2>2, ReadOnce
<1> HIDE DEF q, ends, more, u, ch
<1>14. CASE ch = EOF
  BY <1>5, <1>8, <1>10, <1>13, <1>14, ComesTo
<1>15. CASE ch # EOF
  BY <1>5, <1>8, <1>10, <1>13, <1>15, ComesTo
<1> QED
  BY <1>14, <1>15

LEMMA PutStep ==
    ASSUME OnItsWay, ~Stray(vol'), Put1
    PROVE  ToolInv'
<1>1. PICK I : I = DOMAIN text
  OBVIOUS
<1>2. PICK r, o, g : r = run /\ o = out /\ g = origin
  OBVIOUS
<1>3. PICK p, Sh : /\ p = Before /\ Sh = shared /\ Lives(p, I, Sh)
                   /\ p.v = vol /\ p.fd = fd /\ p.text = text
  BY <1>1, IsBusy
<1>4. Busy(p.v, p.fd, I, r, o, g)
  BY <1>1, <1>2, <1>3, IsBusy
<1> DEFINE c == o[Len(o)]
           e == p.fd[Dest]
           q == Writec(p, Dest, c)
           t == TypedIn(e, c)
           s == [r EXCEPT !.at = "read"]
<1>5. /\ r.at = "put" /\ Returns(q) /\ shared' = Sh
      /\ run' = s /\ out' = o /\ origin' = g
  BY <1>2, <1>3 DEF Put1, Goto
<1>6. Src \in Fd /\ Dest \in Fd /\ Src # Dest /\ p.fd \in [Fd -> FdType]
  BY <1>3, ToolSizes DEF Lives
<1>7. Shape(r, o, g) /\ r \in RunType /\ r.name = "cfile" /\ c \in 0 .. W - 1
  <2>1. Shape(r, o, g)
    BY <1>4 DEF Busy
  <2>2. r \in RunType /\ r.name = "cfile" /\ o \in Seq(0 .. W - 1) /\ o # <<>>
    BY <1>5, <2>1 DEF Shape, Stage
  <2>3. c \in 0 .. W - 1
    BY <2>2, LastIn
  <2> QED
    BY <2>1, <2>2, <2>3
<1> HIDE DEF c
<1>8. e.open
  BY <1>4, <1>5, <1>7 DEF Busy, Work, DestOpen, OnDest
<1>9. Stray(q.v) \/ Lives(q, I, Sh)
  BY <1>3, <1>6, <1>7, <1>8, WritecSteps DEF Steps
<1>10. ~Stray(q.v) /\ p.v.end = "none"
  BY <1>3, <1>5 DEF Returns, OnItsWay
<1>11. s.name = "cfile" /\ s.at = "read" /\ s \in RunType
  BY <1>7, StageIs
<1>12. ASSUME q.v.end = "none"
       PROVE  Work(q.v, q.fd, I, s, o, g)
  <2>1. /\ Sails(p.v, [v |-> q.v, d |-> q.fd[Dest]], I, t, e.cursor + 1)
        /\ t \in FdType /\ \A x \in Fd : x # Dest => q.fd[x] = p.fd[x]
    BY <1>3, <1>6, <1>7, <1>8, <1>10, <1>12, WritecDoes
  <2>2. q.fd \in [Fd -> FdType] /\ q.fd[Src] = p.fd[Src]
    BY <1>6, <1>9, <1>10, <2>1 DEF Lives
  <2> HIDE DEF q, t
  <2>3. t = TypedIn(p.fd[Dest], o[Len(o)])
    BY DEF t, c
  <2> QED
    BY <1>4, <1>5, <1>12, <2>1, <2>2, <2>3, PutOnce
<1> HIDE DEF q, s
<1>13. Shape(s, o, g)
  BY <1>5, <1>7, <1>11 DEF Shape, Stage
<1> QED
  BY <1>5, <1>9, <1>12, <1>13, ComesTo

LEMMA WriteStep ==
    ASSUME OnItsWay, ~Stray(vol'), NEW c \in Char, Write(c)
    PROVE  ToolInv'
<1>1. PICK I : I = DOMAIN text
  OBVIOUS
<1>2. PICK r, o, g : r = run /\ o = out /\ g = origin
  OBVIOUS
<1>3. PICK p, Sh : /\ p = Before /\ Sh = shared /\ Lives(p, I, Sh)
                   /\ p.v = vol /\ p.fd = fd /\ p.text = text
  BY <1>1, IsBusy
<1>4. Busy(p.v, p.fd, I, r, o, g)
  BY <1>1, <1>2, <1>3, IsBusy
<1> DEFINE e == p.fd[Dest]
           q == Writec(p, Dest, c)
           t == TypedIn(e, c)
           u == Append(o, c)
<1>5. /\ r.at = "write" /\ Returns(q) /\ shared' = Sh
      /\ run' = r /\ out' = u /\ origin' = g
  BY <1>2, <1>3 DEF Write
<1>6. /\ Src \in Fd /\ Dest \in Fd /\ Src # Dest /\ p.fd \in [Fd -> FdType]
      /\ c \in 0 .. W - 1
  BY <1>3, ToolSizes DEF Lives
<1>7. /\ Shape(r, o, g) /\ r \in RunType /\ r.name = "nfile" /\ o \in Seq(0 .. W - 1)
      /\ OnDest(e, r)
  BY <1>4, <1>5 DEF Busy, Shape, Stage, Work, DestOpen
<1>8. Stray(q.v) \/ Lives(q, I, Sh)
  BY <1>3, <1>6, <1>7, WritecSteps DEF Steps, OnDest
<1>9. ~Stray(q.v) /\ p.v.end = "none" /\ e.open
  BY <1>3, <1>5, <1>7 DEF Returns, OnItsWay, OnDest
<1>10. u \in Seq(0 .. W - 1)
  BY <1>6, <1>7, Longer
<1> HIDE DEF u
<1>11. Shape(r, u, g)
  BY <1>5, <1>7, <1>10 DEF Shape
<1>12. ASSUME q.v.end = "none"
       PROVE  Work(q.v, q.fd, I, r, u, g)
  <2>1. Sails(p.v, [v |-> q.v, d |-> q.fd[Dest]], I, t, e.cursor + 1)
    BY <1>3, <1>6, <1>9, <1>12, WritecDoes
  <2>2. t.inoeud = e.inoeud
    BY <1>6 DEF TypedIn, FdType
  <2> HIDE DEF q, t
  <2>3. OnDest(q.fd[Dest], r)
    BY <1>7, <2>1, <2>2, <1>12 DEF Sails, OnDest
  <2> QED
    BY <1>5, <1>7, <2>3 DEF Work, SrcOpen, DestOpen, Reading
<1> HIDE DEF q
<1> QED
  BY <1>5, <1>8, <1>11, <1>12, ComesTo

LEMMA EndOfInputStep ==
    ASSUME OnItsWay, EndOfInput
    PROVE  ToolInv'
<1>1. PICK r, o, g, v, fds, I : /\ r = run /\ o = out /\ g = origin /\ v = vol /\ fds = fd
                                /\ I = DOMAIN text
  OBVIOUS
<1> DEFINE s == [r EXCEPT !.at = "closedest"]
<1>2. Shape(r, o, g) /\ Work(v, fds, I, r, o, g) /\ r.at = "write"
  BY <1>1 DEF OnItsWay, EndOfInput
<1>3. r \in RunType /\ r.name = "nfile"
  BY <1>2 DEF Shape, Stage
<1>4. s.name = "nfile" /\ s.at = "closedest" /\ s.dest = r.dest /\ s \in RunType
  BY <1>3, StageIs
<1>5. run' = s /\ out' = o /\ origin' = g /\ vol' = v /\ fd' = fds /\ DOMAIN text' = I
  BY <1>1 DEF EndOfInput, Goto, vars
<1> HIDE DEF s
<1>6. Shape(s, o, g)
  BY <1>2, <1>4 DEF Shape, Stage
<1>7. Work(v, fds, I, s, o, g)
  BY <1>2, <1>4 DEF Work, SrcOpen, DestOpen, Reading, OnDest
<1>8. Inv'
  <2>1. UNCHANGED vars
    BY DEF EndOfInput
  <2> QED
    BY <2>1 DEF OnItsWay, vars, Inv, Before
<1>9. Shape(run, out, origin)'
  BY <1>5, <1>6
<1>10. Work(vol, fd, DOMAIN text, run, out, origin)'
  BY <1>5, <1>7
<1> QED
  BY <1>8, <1>9, <1>10 DEF ToolInv

LEMMA CloseSrcStep ==
    ASSUME OnItsWay, ~Stray(vol'), CloseSrc
    PROVE  ToolInv'
<1>1. PICK I : I = DOMAIN text
  OBVIOUS
<1>2. PICK r, o, g : r = run /\ o = out /\ g = origin
  OBVIOUS
<1>3. PICK p, Sh : /\ p = Before /\ Sh = shared /\ Lives(p, I, Sh)
                   /\ p.v = vol /\ p.fd = fd /\ p.text = text
  BY <1>1, IsBusy
<1>4. Busy(p.v, p.fd, I, r, o, g)
  BY <1>1, <1>2, <1>3, IsBusy
<1> DEFINE e == p.fd[Src]
           q == ClosedOn(FlushIfile(p.v, e), p, Src)
           s == [r EXCEPT !.at = IF r.name = "cfile" THEN "closedest" ELSE "end"]
<1>5. /\ r.at = "closesrc" /\ Returns(q) /\ shared' = Sh
      /\ run' = s /\ out' = o /\ origin' = g
  BY <1>2, <1>3 DEF CloseSrc, CloseIfile, Next1, Goto
<1>6. /\ Src \in Fd /\ Dest \in Fd /\ Src # Dest /\ p.fd \in [Fd -> FdType]
      /\ p.v.end = "none"
  BY <1>3, ToolSizes DEF Lives, OnItsWay
<1>7. e.open /\ ~e.modified
  BY <1>4, <1>5 DEF Busy, Work, SrcOpen, OnSrc
<1>8. Stray(q.v) \/ Lives(q, I, Sh)
  BY <1>3, <1>6, <1>7, CloseLives DEF Passes
<1>9. q.v = p.v /\ q.fd[Dest] = p.fd[Dest]
  BY <1>6, <1>7 DEF ClosedOn, FlushIfile
<1> HIDE DEF q
<1>10. Shape(s, o, g) /\ Work(q.v, q.fd, I, s, o, g)
  BY <1>4, <1>5, <1>9, CloseSrcOnce
<1> HIDE DEF s
<1> QED
  BY <1>5, <1>8, <1>10, ComesTo

LEMMA CloseDestStep ==
    ASSUME OnItsWay, ~Stray(vol'), CloseDest
    PROVE  ToolInv'
<1>1. PICK I : I = DOMAIN text
  OBVIOUS
<1>2. PICK r, o, g : r = run /\ o = out /\ g = origin
  OBVIOUS
<1>3. PICK p, Sh : /\ p = Before /\ Sh = shared /\ Lives(p, I, Sh)
                   /\ p.v = vol /\ p.fd = fd /\ p.text = text
  BY <1>1, IsBusy
<1>4. Busy(p.v, p.fd, I, r, o, g)
  BY <1>1, <1>2, <1>3, IsBusy
<1> DEFINE e == p.fd[Dest]
           w == FlushIfile(p.v, e)
           q == ClosedOn(w, p, Dest)
           s == [r EXCEPT !.at = "end"]
<1>5. /\ r.at = "closedest" /\ Returns(q) /\ shared' = Sh
      /\ run' = s /\ out' = o /\ origin' = g
  BY <1>2, <1>3 DEF CloseDest, CloseIfile, Goto
<1>6. /\ Dest \in Fd /\ e \in FdType /\ OnFile(p.v, I, e) /\ Good(p.v, I, {})
      /\ p.v.end = "none"
  BY <1>3, ToolSizes DEF Lives, OnItsWay
<1>7. e.open
  BY <1>4, <1>5 DEF Busy, Work, DestOpen, OnDest
<1>8. Stray(q.v) \/ Lives(q, I, Sh)
  BY <1>3, <1>6, <1>7, CloseLives DEF Passes
<1>9. q.v = w /\ ~Stray(w)
  <2>1. q.v = w
    BY DEF ClosedOn
  <2> QED
    BY <1>5, <2>1 DEF Returns
<1>10. Flushed(p.v, w, I, e)
  BY <1>6, <1>7, <1>9, FlushOutcome
<1>11. Shape(s, o, g)
  <2>1. Shape(r, o, g)
    BY <1>4 DEF Busy
  <2>2. r \in RunType /\ r.name \in {"nfile", "cfile"}
    BY <1>5, <2>1 DEF Shape, Stage
  <2>3. s.name = r.name /\ s.at = "end" /\ s \in RunType
    BY <2>2, StageIs
  <2> HIDE DEF s
  <2> QED
    BY <2>1, <2>2, <2>3 DEF Shape, Stage
<1> HIDE DEF q, w
<1>12. ASSUME q.v.end = "none"
       PROVE  Work(q.v, q.fd, I, s, o, g)
  BY <1>4, <1>5, <1>9, <1>10, <1>12, CloseDestOnce
<1> HIDE DEF s
<1> QED
  BY <1>5, <1>8, <1>11, <1>12, ComesTo

LEMMA NotStray ==
    ASSUME RowsFound'
    PROVE  ~Stray(vol')
<1>1. (NSector <= W \/ ~vol.astray)'
  BY DEF RowsFound
<1>2. NSector \in Nat /\ W \in Nat
  BY Sizes
<1> QED
  BY <1>1, <1>2 DEF Stray

LEMMA StepKeeps ==
    ASSUME ToolInv, RowsFound', ToolsNext
    PROVE  ToolInv'
<1>1. ~Stray(vol')
  BY NotStray
<1>2. ASSUME NEW name, NEW at, NEW i, Launch(name, at, i)
      PROVE  vol.end # "wild"
  BY <1>2 DEF Launch, Restart
<1>3. CASE \E name, at : \E i \in Number : Launch(name, at, i)
                         /\ <<name, at>> \in {<<"nfile", "create">>, <<"pfile", "src">>,
                                              <<"cfile", "create">>, <<"dfile", "delete">>}
  <2>1. PICK name, at : \E i \in Number : Launch(name, at, i)
                         /\ <<name, at>> \in {<<"nfile", "create">>, <<"pfile", "src">>,
                                              <<"cfile", "create">>, <<"dfile", "delete">>}
    BY <1>3
  <2>2. PICK i \in Number : Launch(name, at, i)
                         /\ <<name, at>> \in {<<"nfile", "create">>, <<"pfile", "src">>,
                                              <<"cfile", "create">>, <<"dfile", "delete">>}
    BY <2>1
  <2>3. Inv
    BY <1>2, <2>2 DEF ToolInv
  <2>4. i \in Bloc
    <3>1. Good(vol, DOMAIN text, {})
      BY <2>3, InvIs
    <3>2. 0 \in Bloc /\ \A j \in DOMAIN text : j \in Bloc
      BY <3>1, InodeType, Sizes DEF Good, Bloc
    <3> QED
      BY <3>2 DEF Number
  <2> QED
    BY <1>1, <2>2, <2>3, <2>4, LaunchStep
<1>4. CASE \/ Create \/ CreateNothing \/ \E j \in Number : CreateSkipped(j)
           \/ OpenSrc \/ OpenDest \/ DeleteFile
           \/ Read \/ Put1 \/ (\E c \in Char : Write(c)) \/ EndOfInput
           \/ CloseSrc \/ CloseDest
  <2>1. vol.end = "none"
    BY <1>4 DEF Create, CreateIfile, CreateNothing, CreateSkipped, OpenSrc, OpenDest,
                DeleteFile, NoInode, OpenIfile, Delete, Read, Put1, Write, EndOfInput,
                CloseSrc, CloseDest, CloseIfile, Running
  <2>2. OnItsWay
    BY <2>1 DEF ToolInv, OnItsWay
  <2>3. \A j \in Number : j \in Bloc
    <3>1. Good(vol, DOMAIN text, {})
      BY <2>2, InvIs DEF OnItsWay
    <3>2. 0 \in Bloc /\ \A j \in DOMAIN text : j \in Bloc
      BY <3>1, InodeType, Sizes DEF Good, Bloc
    <3> QED
      BY <3>2 DEF Number
  <2>4. CASE Create
    BY <1>1, <2>2, <2>4, CreateStep
  <2>5. CASE CreateNothing
    BY <2>2, <2>5, CreateNothingStep
  <2>6. CASE \E j \in Number : CreateSkipped(j)
    BY <2>2, <2>3, <2>6, CreateSkippedStep
  <2>7. CASE OpenSrc
    BY <1>1, <2>2, <2>7, OpenSrcStep
  <2>8. CASE OpenDest
    BY <1>1, <2>2, <2>8, OpenDestStep
  <2>9. CASE DeleteFile
    BY <1>1, <2>2, <2>9, DeleteStep
  <2>10. CASE Read
    BY <1>1, <2>2, <2>10, ReadStep
  <2>11. CASE Put1
    BY <1>1, <2>2, <2>11, PutStep
  <2>12. CASE \E c \in Char : Write(c)
    BY <1>1, <2>2, <2>12, WriteStep
  <2>13. CASE EndOfInput
    BY <2>2, <2>13, EndOfInputStep
  <2>14. CASE CloseSrc
    BY <1>1, <2>2, <2>14, CloseSrcStep
  <2>15. CASE CloseDest
    BY <1>1, <2>2, <2>15, CloseDestStep
  <2> QED
    BY <1>4, <2>4, <2>5, <2>6, <2>7, <2>8, <2>9, <2>10, <2>11, <2>12, <2>13, <2>14, <2>15
<1>5. CASE Nfile \/ \E i \in Number : Pfile(i) \/ Cfile(i) \/ Dfile(i)
  <2>1. 0 \in Number
    BY DEF Number
  <2> QED
    BY <1>3, <1>5, <2>1 DEF Nfile, Pfile, Cfile, Dfile
<1> QED
  BY <1>4, <1>5 DEF ToolsNext

LEMMA ToolStarts ==
    ASSUME ToolsInit
    PROVE  ToolInv
<1>1. Inv
  BY Starts DEF ToolsInit
<1>2. 0 \in Bloc
  BY Sizes DEF Bloc
<1>3. PICK r, o, g : r = run /\ o = out /\ g = origin
  OBVIOUS
<1>4. r = Program("none", "end", 0) /\ o = <<>> /\ g = Nothing
  BY <1>3 DEF ToolsInit
<1>5. /\ r.name = "none" /\ r.at = "end" /\ ~r.made /\ r \in RunType
  BY <1>2, <1>4 DEF Program, RunType
<1>6. Shape(r, o, g)
  BY <1>4, <1>5, ToolSizes DEF Shape, Stage, Nothing
<1>7. \A v, fds, I : Work(v, fds, I, r, o, g)
  BY <1>5 DEF Work, SrcOpen, DestOpen, Reading
<1> QED
  BY <1>1, <1>3, <1>6, <1>7 DEF ToolInv

LEMMA ToolGoes ==
    ASSUME ToolInv, RowsFound', [ToolsNext]_toolVars
    PROVE  ToolInv'
<1>1. CASE ToolsNext
  BY <1>1, StepKeeps
<1>2. CASE UNCHANGED toolVars
  BY <1>2 DEF toolVars, vars, ToolInv, Inv, Before
<1> QED
  BY <1>1, <1>2

LEMMA ToolAlways == ToolsSpec /\ []RowsFound => []ToolInv
<1>1. ToolsInit => ToolInv
  BY ToolStarts
<1>2. ToolInv /\ RowsFound' /\ [ToolsNext]_toolVars => ToolInv'
  BY ToolGoes
<1> QED
  BY <1>1, <1>2, PTL DEF ToolsSpec

-----------------------------------------------------------------------------
(* The theorems.                                                             *)

\* The first end of what is read: the size, or an EOF before it.
LEMMA EndIs ==
    ASSUME NEW n \in Nat, NEW E, E \subseteq 0 .. n - 1, NEW m \in {n} \cup E,
           \A x \in E : m <= x, m <= n
    PROVE  Min({n} \cup E) = m
<1> DEFINE M == {n} \cup E
           least == CHOOSE x \in M : \A y \in M : x <= y
<1>1. M \subseteq Nat
  OBVIOUS
<1>2. \A y \in M : m <= y
  OBVIOUS
<1>3. least \in M /\ \A y \in M : least <= y
  BY <1>2
<1>4. least = m
  <2>1. least <= m /\ m <= least
    BY <1>2, <1>3
  <2>2. least \in Nat /\ m \in Nat
    BY <1>1, <1>3
  <2> HIDE DEF least
  <2> QED
    BY <2>1, <2>2
<1> QED
  BY <1>4 DEF Min

LEMMA ReadIsWhole ==
    ASSUME NEW v, NEW I, NEW r, ReadSoFar(v, I, r, out, origin), AllRead(out, origin),
           out \in Seq(0 .. W - 1), origin.size \in 0 .. F
    PROVE  Len(out) = ReadLength
<1> DEFINE n == origin.size * S
           E == {p \in 0 .. n - 1 : ByteOf(origin.c, p) = EOF}
           m == Len(out)
<1>1. n \in Nat
  <2>1. origin.size \in Nat /\ S \in Nat
    BY ToolSizes
  <2> QED
    BY <2>1
<1>2. m \in Nat /\ m <= n
  BY DEF ReadSoFar
<1>3. E \subseteq 0 .. n - 1
  OBVIOUS
<1>4. m \in {n} \cup E
  BY <1>1, <1>2 DEF AllRead
<1>5. ASSUME NEW x \in E PROVE m <= x
  <2>1. x \in Nat /\ ByteOf(origin.c, x) = EOF
    BY <1>1
  <2>2. CASE x < m
    <3>1. x \in 0 .. m - 1
      BY <1>2, <2>1, <2>2
    <3> QED
      BY <2>1, <3>1 DEF ReadSoFar
  <2>3. CASE ~(x < m)
    BY <1>2, <2>1, <2>3
  <2> QED
    BY <2>2, <2>3
<1>6. ReadLength = Min({n} \cup E)
  BY DEF ReadLength
<1> HIDE DEF n, E, m
<1>7. Min({n} \cup E) = m
  BY <1>1, <1>2, <1>3, <1>4, <1>5, EndIs
<1> QED
  BY <1>6, <1>7 DEF m

LEMMA InvFaithful ==
    ASSUME ToolInv
    PROVE  Faithful
<1> SUFFICES ASSUME run.at = "end", run.name \in {"pfile", "cfile"}, Running,
                    origin.size <= 2 * NB
             PROVE  /\ Len(out) = ReadLength
                    /\ \A p \in 1 .. Len(out) : out[p] = ByteOf(origin.c, p - 1)
                    /\ \A f \in 0 .. 2 * NB - 1 : Content(vol, run.src, f) = origin.c[f]
                    /\ run.name = "cfile" /\ run.src # run.dest /\ CopyHasBloc =>
                          \A p \in 0 .. 2 * NB * S - 1 :
                             IF p < Len(out)
                             THEN ByteOf([f \in Index |-> Content(vol, run.dest, f)], p)
                                     = out[p + 1]
                             ELSE run.made =>
                                     ByteOf([f \in Index |-> Content(vol, run.dest, f)], p) = 0
  BY DEF Faithful
<1>1. PICK I : I = DOMAIN text
  OBVIOUS
<1>2. vol.end = "none"
  BY DEF Running
<1>3. Inv /\ Shape(run, out, origin) /\ Work(vol, fd, I, run, out, origin)
  BY <1>1, <1>2 DEF ToolInv
<1>4. Good(vol, I, {})
  BY <1>1, <1>3, InvIs
<1>5. /\ ReadSoFar(vol, I, run, out, origin) /\ AllRead(out, origin)
      /\ run.name = "cfile" => CopyDone(vol, I, run, out)
  BY <1>3 DEF Work, Reading
<1>6. out \in Seq(0 .. W - 1) /\ origin.size \in 0 .. F /\ Len(out) \in Nat
  BY <1>3 DEF Shape
<1>7. Len(out) = ReadLength
  BY <1>5, <1>6, ReadIsWhole
<1>8. ASSUME NEW p \in 1 .. Len(out)
      PROVE  out[p] = ByteOf(origin.c, p - 1)
  <2>1. p - 1 \in 0 .. Len(out) - 1 /\ (p - 1) + 1 = p
    BY <1>6
  <2> QED
    BY <1>5, <2>1 DEF ReadSoFar
<1>9. ASSUME NEW f \in 0 .. 2 * NB - 1
      PROVE  Content(vol, run.src, f) = origin.c[f]
  BY <1>4, <1>5, LookupNamed DEF ReadSoFar
<1>10. ASSUME run.name = "cfile", run.src # run.dest, CopyHasBloc
       PROVE  Copied([f \in Index |-> Content(vol, run.dest, f)], out, Len(out), run.made)
  <2> DEFINE copy == [f \in Index |-> Content(vol, run.dest, f)]
  <2>1. run.dest \in I
    BY <1>5, <1>10 DEF CopyDone
  <2>2. ~Lost(vol, run.dest)
    <3>1. 0 \in 0 .. 2 * NB - 1
      BY ToolSizes
    <3>2. Lookup(vol, run.dest, 0) = At2(vol, run.dest, 0)
      BY <1>4, <2>1, <3>1, LookupNamed
    <3> QED
      BY <1>10, <3>2 DEF CopyHasBloc, Lost
  <2>3. Copied(Disk(vol, run.dest), out, Len(out), run.made)
    BY <1>5, <1>10, <2>2 DEF CopyDone
  <2>4. ASSUME NEW f \in 0 .. 2 * NB - 1
        PROVE  copy[f] = Disk(vol, run.dest)[f]
    <3>1. f \in Index
      BY Below2 DEF Index
    <3>2. Content(vol, run.dest, f) = HeldAt(vol, run.dest, f)
      BY <1>4, <2>1, LookupNamed
    <3> QED
      BY <3>1, <3>2 DEF Disk
  <2> HIDE DEF copy
  <2>5. Copied(copy, out, Len(out), run.made)
    BY <2>3, <2>4, CopiedOn
  <2> QED
    BY <2>5 DEF copy
<1> QED
  BY <1>7, <1>8, <1>9, <1>10 DEF Copied

LEMMA ToolReads ==
    ASSUME ToolInv
    PROVE  ReadsWhatWasWritten
<1>1. CASE vol.end = "wild"
  BY <1>1 DEF ReadsWhatWasWritten
<1>2. CASE Inv
  BY <1>2, InvReads
<1> QED
  BY <1>1, <1>2 DEF ToolInv

\* What if_pfile prints and if_cfile copies is the file, up to its first EOF; the file
\* is as it was, also when it was copied over itself; and the copy holds what was read.
THEOREM FaithfulTools == ToolsSpec /\ []RowsFound => []Faithful
  BY InvFaithful, ToolAlways, PTL

\* Whatever programs are run on the volume, killed between two of their calls or not,
\* a file reads as what was written in it.
THEOREM FilesOfTools == ToolsSpec /\ []RowsFound => []ReadsWhatWasWritten
  BY ToolReads, ToolAlways, PTL

\* On a volume of no more sectors than a byte has values (256), without condition.
THEOREM SmallTools ==
    ASSUME NSector <= W
    PROVE  ToolsSpec => [](Faithful /\ ReadsWhatWasWritten)
<1>1. RowsFound
  BY DEF RowsFound
<1> QED
  BY <1>1, FaithfulTools, FilesOfTools, PTL
=============================================================================
