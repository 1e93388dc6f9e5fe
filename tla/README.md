# A verification of multi_core

`multi_core` is a small system on a simulated multi-core machine: a scheduler of
contexts with one circular list per core, a shell that sends commands to the
cores, and a file system (driver, volumes, free list, inodes, files, directories)
with the command-line programs that use it.  This directory holds TLA+ models of
its core logic, the TLC configurations that check them on small instances, and
proofs, checked by TLAPS, of what holds for every size.

Paths below are relative to the repository.  Definitions keep the names of the
source where TLA+ allows it; `PROJECT.json` gives the lines of each one.

## 1. The system

| Component | State | Operations | Hard parts | What makes it correct |
|---|---|---|---|---|
| Bloc allocator (`src/disque/filesystem.c` 1-280) | `super_courant` in memory; superbloc (bloc 0) and `free_bloc_s` headers on disk | `init_super`, `load_super`, `save_super`, `new_bloc`, `free_bloc`, `clean_bloc` | several sector writes per call and a process may end between any two; a full volume; 16-bit fields | a bloc has one owner; the count, the list and the memory agree; a cut never makes things worse than a leak |
| Contexts (`src/ordonnancement/context.c`) | `ctxs[core]`, links, state of each context | `create_ctx_on_core`, `add_ctx`, `del_ctx`, `next_ctx`, `yield`, `switch_to_ctx` | cores write each other's lists without a lock; timer interrupts | a context runs on one core, once; none is lost; nobody loops or crashes |
| Core start-up (`src/initialisation.c`, `src/ordonnancement/hw.c`) | interrupt vector, masks | `mkhd`, `function`, `irq_disable`, `irq_enable` | cores start while `main` goes on | each core has its idle context |
| Shell (`src/shell/`) | the core of the next command | `main`, `execute` | creates contexts on other cores | a command sent is run |
| Semaphores (`context.c` 227-272) | count, list of waiters, `ctx_etat` | `sem_init`, `sem_down`, `sem_up` | two cores in one semaphore; a BLOCKED context that yields | a permit is neither lost nor made up; a waiter is woken |
| Producer and consumer (`ordonnancement/prod_con.c`) | the stack `cpt` | `producteur`, `consommateur` | `cpt++` and `cpt--` from two cores | between 0 and N objects; one at a time changes `cpt` |
| Volume table (`src/disque/volume.c`, `mkvol.c`, `rvol.c`, `frmt.c`) | the MBR | `get_mbr`, `save_mbr`, `convert_bloc`, `convert_cyl_sec`, the three programs | off-by-ones, unsigned arithmetic, a full table | volumes are apart; conversions are inverse; removal removes one |
| File system creation (`mknfs.c`) | - | `init_super`, root inode, `load_super`, second save | the volume number | formats a volume of the table |
| Inodes (`filesystem.c` 282-645) | inode, tables of one and two levels | `create_inode`, `delete_inode`, `aux_vbloc_of_fbloc` | allocation in the middle of an update of the inode | an index names one bloc, the same later |
| Open files (`ifile.c`) | descriptor: cursor, buffer, size, modified | open, seek, read, write, flush, close, `delete_ifile` | buffer against disk, size against inode | what was written is read back; reading changes nothing |
| Directories (`dir.c`), file interface (`file.c`) | entries in an open file | `add_entry`, `del_entry`, look-ups; `create_file`, `delete_file` | two changes of the disk per call | a name leads to one inode |
| Driver (`drive.c`) | registers, `MASTERBUFFER` | `move_head`, `read_sector`, `write_sector`, `format_sector` | sleeps until an interrupt; shared by all cores, no lock | an access ends; a core gets the sector it asked for |
| Tools on inodes (`if_nfile.c`, `if_pfile.c`, `if_cfile.c`, `if_dfile.c`) | two descriptors | loops over characters | killed between two calls; a character that reads as the end; an inode number nobody set | what is printed and copied is the file |
| Inspection tools, exercises, tests | - | - | - | - |
| Simulated hardware (`lib/`, a binary) | disk, timer, cores | registers | external | - |

How they interact: the shell and `main` call the scheduler; a core's timer
interrupt calls `yield`; the file interface calls directories, which call open
files, which call inodes, which call the allocator, which calls the volumes,
which call the driver.  Every layer below the file interface goes to volume
`vol_courant`, a global that nothing assigns (so 0).  Each command-line program
is a process of its own: what they share is the disk, which is why the model of
the allocator lets a process end anywhere and another one mount the volume.

`PROJECT.json` lists every component with its status, and under `hazards` each
place where something can go wrong that a test would hardly reach.

## 2. The modules

| Module | What it is |
|---|---|
| `BlocPool` | abstract specification: what the allocator promises its clients |
| `FreeBlocs` | the allocator, one sector write per step, with its clients, cuts and restarts |
| `MCFreeBlocs`, `FreeBlocs_*.cfg` | its instances |
| `FreeBlocsProofs` | its theorems |
| `Context` | start-up, scheduler and dispatch of commands, one access to the shared lists per step |
| `MCContext`, `Context_*.cfg`, `ContextProofs` | instances, theorems |
| `Volume` | the volume table and the programs that change or trust it |
| `MCVolume`, `Volume_*.cfg`, `VolumeProofs` | instances, theorems |
| `CountingSemaphore` | abstract specification: what the callers of a semaphore rely on |
| `Semaphore` | `sem_down`, `sem_up` and `yield` on a BLOCKED context, one access per step; no clients |
| `ProdCon` | the producers and consumers, on the cores where they are created, as the clients of `Semaphore`; extends it |
| `MCProdCon`, `ProdCon.cfg`, `ProdConProofs` | instance, theorems |
| `Ifile` | inodes with their tables, and the descriptors of open files |
| `MCIfile`, `Ifile_*.cfg`, `IfileProofs` | its instances, theorems |
| `Tools` | the command-line programs on inodes, as programs over the operators of `Ifile` |
| `Tools.cfg`, `ToolsProofs` | its instance, theorems |
| `Directory` | directories and `create_file`, `delete_file`, `open_file` by path; extends `Ifile` and runs its operators |
| `MCDirectory`, `Directory_dirs.cfg`, `DirectoryProofs` | its instance, theorems |
| `Drive` | a sector access of `main`, with the interrupts as `mkhd` sets them up |
| `Induction` | facts for the proofs: least elements, induction over sets, the values of a recursive function |

The modules of the code also hold, next to the definition it alters, a few
definitions headed "Mistake": plausible errors of that piece of code.  Put in the
place of the right definition they make a property of a run fail, one for every
property: the properties see these errors.

### FreeBlocs

A call is a chain of steps, one per sector written, and `pc` is the next write:

    new_bloc    NewBloc (choice and memory) -> NewSave -> NewHead -> use
    use         UseInode | Name -> Clean | CleanEarly -> NameLate
    free_bloc   FreeBloc (memory) -> FreeSave -> FreeClean -> FreeHead
    mknfs       InitSuper -> InitHead ... SaveRoot

`use` is what the callers do with the bloc: `create_inode` writes an inode on it;
`aux_vbloc_of_fbloc` names it in an inode or table that it read *before* the call
and cleans it, in that order for the first two ranges and in the other for tables
and for the last range.  `WriteData` is `flush_ifile`.  `Restart` is the end of a
process at any point and the start of the next one (`super_courant` is NULL
again); it is also what happens to a program that dereferences that NULL, or
calls `umount`, whose test on `super_loaded` is inverted.  A sector is its kind
(which magic it shows) and the two 16-bit fields the allocator reads; a field is
written modulo 2^16 and the superbloc is read back as signed (`Signed`), as the
`char *` of `read_super_bloc` does.  `abort` is a failed assertion on a magic.

The variables `held`, `linked`, `freed`, `cursor`, `fault`, `torn` are history:
no guard of the code's steps reads them except `linked`, which says what a client
can name (a client frees a bloc that something names, and once; that is the
contract `delete_ifile` is held to, holes excepted: those are in `Ifile`).  User data
never shows a magic: a user who writes 0xDCBA at the start of a bloc is left out.

`Pool == INSTANCE BlocPool` maps what `new_bloc` returned, from its return to
the end of the call that asked for it, to the `answer` of the pool: each return is
a step there, so that a bloc that somebody holds, or a 0 while a bloc is left, is
one that the pool does not have.

### Context

The cores run concurrently.  A step is one access to the shared state, so that the
accesses of two cores interleave in every order; only what `irq_disable` really
rules out is ruled out: the timer of the *same* core during `add_ctx` and `del_ctx`.
`next_ctx` enables the interrupts again (`context.c:217`) and the calls that would
mask the rest of `yield` are commented out, so that the switch runs with the timer:

    Yield -> Skip -> SetCurrent -> (Load ->) Test -> Call or back to the function

`Timer` starts another `yield` between any two of these, also before `function` has
made the context of a core that was just switched on.  The yield of the handler does
what was left of the one that it interrupted.  (The library may hold back the signal
of a second interrupt while the handler of the first has not returned; the model lets
it in, and so has more behaviours, not fewer.)  `Load` is the end of the change of
stack: the code behind it reads its variable `core` from the new stack, which for a
context that was never started is what `malloc` left there.  Nothing else is said of
stacks.

`Junk` is the `ctx_next` of a context fresh from `malloc`: following it crashes, or
reads something, both are allowed.  `raced` remembers that an `add_ctx` overlapped
another writer of the same list; the properties that need the writers apart say so
with `~raced`, those that do not need it hold in every interleaving.

### Semaphore and ProdCon

`irq_disable` masks the interrupts of one core, so that two cores may be in the
operations of one semaphore; `CORE_LOCK` of the hardware, which would keep them
apart, is used nowhere.  A step is one access to a shared field (the Makefile
compiles with `-g`, without optimisation):

    sem_down   DownRead -> DownWrite -> DownTest -> return
                                                 or DownBlock -> DownLink -> DownPush -> Spin
    sem_up     UpRead -> UpWrite -> UpTest -> return
                                           or UpPick -> UpWake (or UpNobody) -> UpUnlink

`next_ctx` answers with the context that is current, so that a core goes on with
its first context until that one ends, and these do not: one that is BLOCKED keeps
its core in `yield` (`Spin`) until another core's `sem_up` activates it.  The timer of
such a core only starts another `yield` of the same kind.  `UpNobody` is `sem_up` that
finds an empty list behind a counter that was not positive, and dereferences NULL.

`raced` remembers that two operations met (`Overlap`): both were between their
first read and their last write on one semaphore, or a context that was woken
began its next operation before `sem_up` had taken it off the list.  After that
anything may be lost, and is: the decrement, a waiter, the process.  Every
property is stated up to there, which makes it a statement of what the code does
when its callers are kept apart, and of nothing more.  An operation is over when
its writes are seen by the other cores: the store buffers of the processors are
left out, which only matters where two operations meet.

`Promise == INSTANCE CountingSemaphore` maps the counter to its positive part and
the labels of a context to what it asks for (`Asks`): a down takes effect when
the decrement is written, unless it went below zero, and then when somebody
wakes it; an up takes effect when its increment is written if nobody waits, and
otherwise when it activates the one that does.

`ProdCon` is `producteur` and `consommateur`.  `CoreOf` is the core that each of them is
created on, `FirstOn` the one that is created first there, and `Current` says that the
others never run.  `main` as it stands has all of them on core 1 (`prod_con.c:64-65`,
`context.c:28-30`): the model is then the producer alone, which once the stack is full
waits in `yield` for a consumer that never comes.  No property says that who waits is
served, because nobody is; why is what the run `starve` shows.  The run `sem` gives the
contexts cores of their own (`create_ctx_on_core`), which is where the operations on
semaphores meet, except for one that comes second on its core; the theorems are for
every placement.  As it stands `prod_con.c` also gives `create_ctx` four of its five
arguments and calls neither `mkhd` nor anything else that starts a core, which is left
out.  `mettre_objet` and `retirer_objet` are `cpt++` and `cpt--`, a read and a write each.

### Volume

A step is a run of a program, since each reads the table at its start and writes
one sector at its end.  `lost` says that a superbloc was written over the MBR
(possible: a volume may start at cylinder 0, sector 0), `wild` that `mknfs`
followed an entry that nobody set; a table that is lost is followed no further
until `frmt`.  Arithmetic follows the C types where it matters: the unsigned
`nvol-1` of `mknfs`, the `-1` that becomes the largest unsigned sector in
`chck_possible`, entries of one byte per coordinate.

`mknfs` of a volume `v` writes more than `v`: `create_ifile` goes to `vol_courant`,
which is the first volume whatever volume is made.  There it saves the superbloc of
`v`, opens the free run and writes the root inode (`Written`).  What bloc 1 of the
first volume holds by then is what its own programs left, any header `h`; it is known
when `init_super` has just written it, since the two volumes are one or overlap
(`Shows`).  The program stops at an assertion that fails, behind the writes that came
before.  What these writes do to the file system of the first volume is not followed,
only whether they reach the MBR: it loses its superbloc and its root.

### Ifile

A step is a call of the library (`create_ifile`, `open_ifile`, `flush_ifile`,
`close_ifile`, `seek2_ifile`, `read_ifile`, `write_ifile`, `delete_ifile`) by a
program that has some descriptors; `FreeBlocs` is the module that cuts a call
into its writes.  A call is an expression: the volume is a record, and each
function of the code (`new_bloc`, `free_bloc`, the three ranges of
`aux_vbloc_of_fbloc`, `flush_ifile`, `seek_ifile`) is an operator from a volume
to a volume, composed in the order of the calls.  What matters of the data is
kept: a bloc number takes two bytes of a table, and the code's own arithmetic on
them (`Level2`, `Level2Empty`) is modelled as it is; a file is as many bytes as
its blocs hold; a bloc that was not found is bloc 0 and is written like any other.

    Allocate   AllocateDirect | WithIndirect, AllocateIndirect
               | WithDouble, WithRow, AllocateDouble
    Seek2Ifile, Readc, Writec -> SeekIfile -> FlushIfile -> Allocate -> NewBloc

A call ends the process (`vol.end`) on a failed assertion (`abort`) or
`exit(1)` of `seek_ifile` (`exit`); `Restart` is the next program, also after a
program that simply stops without closing anything.  Two ends are limits of the
model, where the life is followed no further: `wild`, a sector that is no table is
used as one; `given`, `new_bloc` after a `free_bloc`, whose consequences are those
of `FreeBlocs` (run `twice`).

`text` is history: what the programs wrote, minus what a refused allocation or
the end of a process with a full buffer loses.  `shared` is history too: the
files that two descriptors ever had open at the same time.  `vol.astray` says
that a row of the second level got a number whose high byte is not 0, after which
`Level2` finds another bloc in its place.

### Tools

A program is its calls in order (`run.at`), with the operators of `Ifile` for
each; `Launch` starts the next one at any time, which ends the one before
wherever it was, with its buffers unwritten.  An argument is the number of a file
or one that is none.  The code's own slips are in it: `getc_ifile` returns a
`char`, so that a character 0xFF ends a file as the end does (`EOF`);
`if_cfile` reads the type of a descriptor that is not open, `if_nfile` takes the
letter it is given, and both create nothing if that is none of the four types, after
which they open and write whatever number `ifile` holds (`CreateSkipped`);
`create_ifile` that finds no bloc writes an inode over the superbloc, and `if_nfile`
goes on (`CreateNothing`, where the life is followed no further).

### Directory

A step is a call of the file interface by a program, with the whole chain below
it: `inumber_of_path` walks from the root, each level opens a directory
(`Iopen`), reads its entries one after the other (`Look`), closes it, and
`add_entry` or `del_entry` seeks to an entry and writes it.  All of this uses the
`Readc`, `Writec`, `Seek` and `ClosedOn` of `Ifile`, so that a search has every
effect of the code: it allocates the bloc behind the last byte it reads, makes
the directory longer, and on a full volume ends the process (`exit` in
`seek_ifile`) although nothing was to be written.  Entries lie across blocs.

    CreateFile   DinumberOfPath -> NewBloc -> Created -> NewEntry -> PutEntry
    DeleteFile   DinumberOfPath -> FindEntry -> PutEntry of zeros
    OpenFile     InumberOfPath

`CreateFileStops` and `DeleteFileStops` are the same calls in a process that ends
after the inode, or after the bloc that has the number of an entry and not yet its
name.  The second test of the type of the directory, in `add_entry` and
`del_entry`, repeats the one of `dinumber_of_path` on the same inode and is left
out.  `delete_file` takes a name away and nothing else: neither the inode nor its
blocs are given back, so that no bloc is ever freed in this module.

Names.  An entry holds the first `ENTRYMAXLENGTH - 1` characters of a name (15), which
is one byte here: `Name` are the names that programs give, `Long` those that are cut,
`Start` what is kept of them (`Stored`).  A search compares the name that it is given,
all of it (`del_entry`) or its first 16 characters (`inumber_of_path`), with what the
entry holds, so that it finds no entry by a name of `Long`, not even the one that was
created by it (`SearchIsRight`), while two names that begin alike are one in the directory.
`inumber_of_path` ends that copy one character behind its array, on a variable or a
canary that is not looked at when nothing is found; this write is left out.

`named`, which has the names as programs gave them, and `crowded` are history: what was named and not deleted, and which
directories were given more entries than their size lets a search read.  `dirs`
is the type field of the inodes, which `Ifile` leaves out.

### Drive

`mkhd` is its steps in order.  A register `CORE_IRQMAPPER + i` has one bit per
interrupt (`etc/hardware.ini:135`); the code writes 0xF, the first four, in those
of the cores 1 to 3 and 0 in that of core 0.  An access is its commands and its
sleeps: `move_head` seeks and sleeps, `read_sector` commands and sleeps,
`write_sector` sleeps once more between the two, for an interrupt that only the
seek of `move_head` could have raised.  The disk and the way of an interrupt to a
core are external, and as kind as the documents allow: an interrupt that came
since the last command wakes a later `_sleep`.  This module says what happens to
a program that uses the disk as `mkhd` sets it up; all the others describe the
file system on a disk that answers, where a sector access is one step.  (They
would not meet on the real one either: `etc/hardware.ini:68` has sectors of 32
bytes, `include/hw_info.h` of 512.)

## 3. The runs

Sizes: `FreeBlocs` 5 sectors, 2 addresses outside of the volume, Half = 8;
`Context` 2 cores and 5 commands (`starve` 2 commands); `ProdCon` 2 producers, 2
consumers of which one never runs, a stack of 2; `Volume` 3 cylinders of 2 sectors, a
table of 3 entries, volumes of 1 to 5 sectors; `Ifile` 10 sectors of 4 bytes with 2 entries per table and 2 files, 1 in `found`;
`Tools` 8 sectors of 2 bytes with 1 entry, bytes of 7 values, the characters 1 and 6 of
which 6 reads as the end, and 2 files; `Directory` 11 sectors of 5 bytes, entries of 4,
a root and 4 files created, 3 names of which one is cut to another; `Drive` the
machine's own 4 cores and 16 interrupts.

| Run | Checks | Shows |
|---|---|---|
| `create` (17,889 states) | `NoDoubleAllocation`, `KeepsPromise` | programs that never delete implement `BlocPool` without frees, every return of `new_bloc` being one that the pool allows, through cuts, restarts and exhaustion |
| `delete` (128,142) | `TypeOK`, `FreshBloc`, `CountMatches`, `MemoryMatchesDisk`, `FreeListExact`, `NoSpuriousAbort`, `NoStaleHeader`, `NeighbourUntouched` | what survives of it with deletions, up to the first time the head of the list is alone in its run |
| `twice` (violated) | `NoDoubleAllocation` | after that, `new_bloc` hands out a bloc twice |
| `cores` (41,894) | `TypeOK`, `Pinned`, `EndsItself`, `RingComplete`, `CrashExplained`, `Lifecycle`, `DelEnds` | the lists and the switch, under every interleaving of two cores and the timer; `del_ctx` terminates |
| `starve` (violated) | `EveryCommandRuns` | a command queued behind a context that does not end never runs |
| `sem` (222,576) | `TypeOK`, `StackRight`, `KeepsSemaphore` | the semaphores implement `CountingSemaphore`, and the stack is right, until two operations meet |
| `table` (4,301) | `TypeOK`, `AppendedApart`, `AnswerRight`, `LostExplained`, `RemovesOne` | what the table and the conversions do guarantee |
| `files` (206,297) | `TypeOK`, `OneOwner`, `NothingLeaks`, `ReadsWhatWasWritten`, `SizeCovers`, `KeepsBloc`, `DeleteReturns`, `SuperExplained` | a program on two files, through all three ranges of addresses and on a volume that fills up |
| `tools` (165,239) | `Faithful`, `ReadsWhatWasWritten` | what the programs print and copy is what the file held before its first EOF, although any of them may be killed; two descriptors; a volume that fills up; a bloc number that needs its high byte |
| `dirs` (144,357) | `DirTypeOK`, `DirectoryHolds`, `EntriesNameFiles`, `SearchIsRight` | what a directory holds, names and answers, through growth, stops, deletions and names that are cut |
| `found` (violated) | `AllocatedIsFound` | a bloc of the second level is allocated and then not found |
| `asleep` (violated) | `AccessEnds` | no core is sent the interrupt of the disk: the first access never ends |

The violated runs each refute one sentence of the repository, quoted in
`findings`.

**Why these bounds are enough.**  Five sectors give a first, a middle and a last
free bloc, two blocs given back at once with the run never handed out behind
them, and a full volume; the two addresses behind make a header written outside
visible.  Half only has to exceed the addresses; wrapping is excluded by the
assumption `SizeAssumption` (a volume of 2^15 blocs or more is outside of what is
claimed).  Two cores give core 0 (no timer, no idle context) and core 1 (a timer, its
idle context, the shell, and commands of its own); main adds to the list of core 1 and
the shell to that of core 0.  Five commands are three for core 0, so that one ends or
waits there while the shell adds another, and two for core 1, in a list of four.  A
third core would be a core 1 without the shell.
Three entries make a first, a middle and a last volume, full and not full.  For files,
two entries per table give a first and a last column and row, which is what the
index arithmetic has boundaries at; two files share a volume that is too small
for both; the target positions lie in the first bloc, in the table of one level
and at the very end; a bloc's bytes are 2 * NB at least, as a table needs them.
For the semaphores, two contexts on one side and one on the other make a queue of
two that wait for one semaphore and a stack that is both empty and full; a second
consumer shares the core of the first.  The proofs are for any number and placement.  For the tools, a text of three characters ends in the
middle of a bloc and on a second one, a copy needs a second file, and a file that
is read to its end comes into its second level and takes up the eight sectors, so
that a copy gets some of its blocs or none.
For directories, four-byte entries in five-byte blocs give every position of an
entry in its bloc, one of them with its number alone in the first of two; a
directory shows three entries (`Capacity`), so that four files reach the fourth,
which is lost, and with a subdirectory the volume fills up.  The name that is cut
becomes one that is also given.  An inode number is
one byte of an entry, never cut in two.
Reading and writing is by whole blocs in `files` and by single characters in
`tools`.  The proofs lift most of these properties to every size.

A producer or consumer begins no call after `raced` (`Step`): the operations that
met still go on to their end, in every order, which is where a crash shows.

The only constraint is `Followed` of the run `delete`: its properties only speak
of lives where no limit was passed and at most one call was cut; both conditions
are monotone, so that states beyond are left unexplored (they are still checked).
`CHECK_DEADLOCK FALSE` is set everywhere: the process may have crashed or aborted,
the user may have no more commands, the disk of a volume may be full.

**Bounds of the model itself.**  `MaxBloc`: addresses represented, `NewBloc` needs
`first < MaxBloc`.  `NTask`: commands typed.  `torn` counts to 2.  `Byte`: 256 in
the code.  `Size` holds the sizes asked for, none zero or negative.
`MaxFile`: files ever created; `Length`, `Target`, `Char`: what programs ask for;
`MaxText`: characters typed to `if_nfile`.
`W` is 256, `NB` 10, `S` 512 (`HDA_SECTORSIZE`) in the code.  `SYMMETRY` is used
nowhere.

## 4. Fairness

Safety properties use none.  `DelEnds` is checked under `CoreSpec`: a core that has a
next instruction executes one, and nothing else: nothing is said of the timer,
of the user or of the end of a command.  `EveryCommandRuns` is refuted under
`FairSpec`, stronger than the hardware gives: cores run, the timer comes back, a
walk, or a switch, that is interrupted again and again is completed at last (`yield`
rearms the alarm before it walks, so that not every one is cut: strong fairness of
`Skip`, `SetCurrent`, `Load`, `Test` and `Call`), and a command ends although the timer
interrupts it.  It never says that the user types anything.  That the
property fails under so much fairness shows that the scheduler, and not a stopped
core, is what starves the command.

`AccessEnds` is refuted under
`FairSpec` of `Drive`: core 0 runs, the disk finishes what it was asked, and a
core takes an interrupt that is sent to it.

## 5. What is proved

All proofs are for every value of the constants that satisfies the named
assumption of the module (`SizeAssumption`, `NoneAssumption`; `SizeAssumption` of
`Context`; `SemAssumption`, `CoreAssumption`, `ProdConAssumption`; `DiskAssumption`; `IfileAssumption`,
and for the directories `DirectoryAssumption`).

`FreeBlocsProofs`
* `Types`: the types, inductive as they stand once the operands of the call under
  way are part of them.
* `CreateFresh`, `CreateKeepsPromise` (three sectors or more): without deletions
  the volume is one frontier, and what `new_bloc` answers is what lies there, or 0
  when nothing does.  The invariant `CreateInv` says that the blocs held
  are exactly those below `cursor`, that the superbloc on disk and in memory point
  at it (one ahead in the middle of a call), and that every header, fresh or stale,
  carries the count of the whole volume (`RunHeaders`).  The last is what is needed
  to exclude the branch of `new_bloc` that is wrong: a header with count 1 never
  exists.  Two sectors are excluded because there it does.
* `DeleteFresh`, `DeleteCounts`, `MemoryAgrees`, `HeadersGone`: with deletions, as
  long as `Sound` (no limit passed, at most one cut in the middle of a call).
  `SoundInv` says: held and given back partition what lies below the frontier;
  the head of the list is the frontier, or a bloc given back; the count is exact;
  a linked bloc shows a header only after a cut between its naming and its
  cleaning; a bloc given back shows a count other than 1 only while it is being
  cleaned after such a cut.  Each clause is needed by the next: exactness of the
  head rests on the headers, these on the order name / clean, that on the call.
* `NeverRefused`, `StaysInside`: `QuietInv`, on top of `SoundInv`.  Without a cut,
  every bloc given back shows its header, except while `free_bloc` is between the
  cleaning and the header, and so does the frontier, except while `new_bloc` moves
  it (`HeadsKept`): the bloc that `new_bloc` opens is one of them, hence the magic is
  there.  Nothing at or behind the end of the volume is written while the frontier
  is inside (`Inside`): only the move of the frontier writes past the blocs in use.
* `ListExact`: the list on the disk is what the superbloc says, link by link.
  `ListInv`: there is a function `f` on `0 .. n`, `n` the number of blocs given
  back, from the head to the frontier, whose other values are the blocs given back
  and each of which leads to the next (`Listed`).  In the middle of `free_bloc` the
  bloc in front does not show its link yet, and the header in memory stands for it
  (`Successor`); `free_bloc` puts one value in front of `f`, `new_bloc` takes the
  first one away or moves the frontier.  That the recursive `Chain` of the property
  is `f` is an induction over the naturals (`Induction`).

`ContextProofs`
* `Types`, `CoresApart`: whatever the cores do to each other's lists, no core
  runs, links or follows a context of another.  The invariant `ListInv` adds to
  the types that every pointer a core may still follow leads to a context created
  for it (`OwnPointers`), that every link stays within a core (`OwnLink`), and
  that what is not yet created is not pointed to (`Fresh`).
* `CalledOnce`: a context is created, linked, started and ended once, in that
  order, wherever the timer cuts the switch.  The invariant `LifeInv`: a context that is being added is in no list yet
  (`NotYet`), and each core adds one context at a time, its idle context, the shell
  or the command it was sent (`Adds`, `Homes`, `ShellFirst`); the list a command is
  sent to is not empty (`TaskListed`), or the shell found it so, and then nothing
  runs there but the idle context (`FirstTask`); whatever else a core runs was
  started, and what it is about to call was not (`Started`), so that a core which is
  cut between the test of READY and ACTIVATED finds the context READY again, and one
  that is cut behind them does not; nobody starts what is still being added
  (`StillReady`).  The walk of `yield` may interleave with all of it.
* `EndsItsOwn`, `CrashesExplained`: as long as the writers of a list do not meet.  An
  invariant of one link at a time takes the place of the walk through the list:
  `RingInv` says that the link of a linked context leads to one whose link is set
  (`LinkOK`); that a first context without a successor is being added by somebody
  who is about to set it (`CurOK`); that what a core is about to follow is set, and
  that the context it takes off is the one it runs (`CoreOK`); that a core which has
  no list either is about to make its idle context or was interrupted before that
  (`NoIdle`, `Coming`, `StartOK`); that core 0, which has none, yields from `main` on
  what the shell has sent there (`MainOK`); and that what was called runs, or is over
  (`OnlyOK`), which leaves `Load` a context that was never started only behind one
  that ended.  The last three are what separates the three ways to lose the process
  that `CrashExplained` names from all others.
* `WalkComplete`: as long as the writers do not meet, the walk from the current
  context of a core comes round over every context linked there.  The invariant
  `WholeInv` gives each core a finite set `M` of its contexts that is a `Ring`:
  links lead from `M` to `M`, never two of them to one context, and no smaller set
  is closed under them.  Linking replaces one link by two, ending replaces two by
  one (`Whole` says which context is half in); a context that is over leaves and
  no other, so that what `insert` read is still true when it writes (`Own`).  That a
  walk of as many steps as there are contexts covers `M` is a pigeonhole argument:
  it meets itself, what it went through is then closed, hence all of `M`.

`ProdConProofs`
* `Types`.
* `ListsSound`: the invariant `IInv`.  As long as nothing met, at most one operation
  is inside each semaphore, and what it holds in its register or in `tmp` is still
  true (`HoldsOK`).  The list of a semaphore is a sequence `f` of contexts without
  repetition, linked from `f[n]` down to `f[1]` (`Chain`), and its elements are
  exactly those that wait there, or were woken and are about to be taken off; the
  counter, corrected by the operation that is under way (`Level`), is `-n` when
  somebody waits and not negative otherwise.  The correction is what makes it
  inductive: between the decrement and the push the counter is one ahead of the
  list.  The existence of `f` takes the place of a recursive walk.
* `SemaphoreKept`: the refinement, from `IInv`: each access is a step of
  `CountingSemaphore` or is not seen (`Unseen`, `TakesOrWaits`, `GivesOrHolds`,
  `HandsOn`, `Calls`), whatever the clients do.
* `StackKept`, which uses the semaphores only through `CountingSemaphore`.  The
  invariant `Books`: the free permits of a semaphore and the contexts that own one
  (`Owns`: from the down that took it to the up that gives it on) are together 1
  for `mutex`, `stock` for `plein` and `N - stock` for `vide`.  A permit that changes
  hands changes the owner and nothing else (`HandBooks`); an object that is put turns
  a permit of `vide` into one of `plein` (`WriteBooks`).  That the numbers are
  natural gives the bounds of the stack, and the one permit of `mutex` that `cpt`
  is changed by one context at a time (`OneWriter`).

`VolumeProofs`
* `ConvertExact`: bloc `b` of a volume is the `b`-th sector from its start, for
  every geometry.
* `TableTyped`, `AppendedVolumesApart` (inductive together, `VolInv`): a volume
  created after another one, further on the disk and from the same sector number,
  never overlaps it.  The removal keeps the order of the entries, which is what
  the step of `rvol` needs.
* `AnswersRight`: a bloc that `convert_cyl_sec` gives for a sector is the one that
  `convert_bloc` puts there, for every geometry, which is a fact about quotients
  (`Quotient`, `BlocOfLookup`).  What it does not give is in section 8.
* `TableLostExplained`: the table is only lost to a volume that begins on its own
  sector, or to an entry nobody set.  It speaks of all that `mknfs` writes, on the
  volume it makes and on the first one, whatever the header there says: the blocs of
  a volume are counted from its start, so that no other one reaches the first sector
  of the disk.
* `RemovesOnlyOne`: the shift of the entries of `rvol` is the removal of one.

`IfileProofs`
* `TypesKept`, `OneName` (`OneOwner`), `NoneLost` (`NothingLeaks`), `SizeIsEnough`
  (`SizeCovers`), `WhatWasWritten` (`ReadsWhatWasWritten`), `BlocsKept` (`KeepsBloc`),
  `SuperKept` (`SuperExplained`), `DeletionExact` (`DeleteReturns`): every property of
  the run `files`, for any number of sectors, of bytes in a bloc, of entries in a
  table, of files and of descriptors, through all three ranges of addresses.
* Their condition is `[]RowsFound`: no row of a second level got a table whose number
  needs its high byte (`astray`, by the shift of `filesystem.c:593`).  From there on
  `Level2` takes another bloc for the table of the row, so that the tables of two
  files may be mixed, and even an inode be written over as data: what
  `read_inode` then returns, and hence what any later call does, is open, in the
  code as in the model.  The theorems therefore say nothing of a life that comes
  there.  `SmallVolume` says that none does on a volume of at most `W` sectors (256),
  where all of it holds with no condition.
* The invariant of a volume `v` with the files `I` is `Good(v, I, L)`: the superbloc
  counts what is left and the head of the list is the frontier (`Counts`); a file has
  an inode on a bloc that was taken (`Files`); each place of an inode (direct, the
  table of one level, its entries, the second table, its rows, their entries) names
  nothing, or a bloc that was taken, of the kind the place asks for, and that the
  size covers (`Names`); two places name two blocs (`Distinct`); and
  what was taken is an inode, is named, or is one of `L` (`Complete`, for
  `NothingLeaks`), the blocs that `new_bloc` gave and nobody names yet (`Unnamed`).  `L`
  is what makes the invariant hold between two functions of one call.
* `Lives` adds the descriptors: the bloc that a buffer was read from is still there
  (`OnFile`), a file that is not in `shared` is open once (`Alone`), and what the
  programs wrote is in the buffer that is on the bloc or else on the disk (`Said`).  A
  buffer that is not modified is what the disk says: without it the invariant would
  not survive the end of a process.  `AtRest` is `Lives` between two calls.
* There is one lemma for each function of the code, from `new_bloc` (`NewBlocs`) over
  the naming of a bloc in each of the six kinds of places (`NameDirect` ...
  `NameLeaf`), the three ranges of `aux_vbloc_of_fbloc` (`DirectOutcome`,
  `InTableOutcome`, `InRowOutcome`), `flush_ifile` and `seek_ifile` (`FlushOutcome`,
  `SeekOutcome`), to the calls (`FlushLives` ... `DeleteLives`).  Each says that the
  volume stays `Good` and what it `Keeps`: names once given, and the bytes of every
  bloc but the one it is about.  The loops of `read_ifile`, `write_ifile` and
  `delete_ifile` are inductions over the number of steps.  `OneOwner` counts with
  `Cardinality`: places and blocs are as many because naming is a bijection
  (`SameNumber`).

`DirectoryProofs`, on top of the lemmas of `IfileProofs`
* `DirTypesKept` (`DirTypeOK`), `DirectoriesHold` (`DirectoryHolds`), `EntriesName`
  (`EntriesNameFiles`), `SearchesAreRight` (`SearchIsRight`): every property of the
  run `dirs`, for any sizes, names, paths and number of files and descriptors.
  `DirectoryAssumption` is what they need of the sizes: a number of a file is one
  byte (`W > NSector`, which also makes `astray` impossible, so that there is no
  condition `RowsFound` here), two blocs at least in an inode, and an entry smaller
  than a bloc (20 bytes and 512 in the code).
* Why a search changes so little.  Reading a directory to its end makes it longer,
  up to `NB + 1` blocs and no further: from there on a bloc has its name in the
  table of one level, which the size does not count (`Sized`).  Hence no directory
  has a second level, and `Near` holds of every call: nothing is given back, so that
  `new_bloc` answers with a fresh bloc or with 0, and a process dies in
  `seek_ifile` only on a full volume (`Calm`: the end is `none`, or `exit` with no
  bloc left).  `Widens` says that no call makes a file shorter.
* The descriptor.  `Busy`: it alone is open, its bloc is one of the first `NB + 2`,
  and has a number unless it is the first (`There`).  The last clause is what
  separates a search from a write: a buffer that came from a bloc can be flushed
  without a new one.  `Scans` and `Writes` say what `Readc` and `Writec` leave of the
  bytes; the loops of `read_ifile`, `find_entry` and `inumber_of_path` are inductions
  over the number of steps, with what the recursive functions are worth from
  `FunctionExists` (`LookExists`, `WalkExists`, `EntryExists`).
* The entries.  `LookEnds`: a search stops at the first entry that is wanted, or
  behind the last whole one.  `PutReplaces`: `add_entry` and `del_entry` change the
  `E` bytes of one entry and no other byte of any file, also when the entry lies in
  two blocs; `HalfHalves` is the same call cut between the two blocs.
* The invariant between two calls is `DInv`, of which `Shows` is the heart: as long
  as the volume is not full, the numbers that a directory holds within `Capacity`
  are those of its entries in `named`, each once, with what `Stored` keeps of their
  names unless one was half written, and its size covers them.  An entry has a name
  of one byte (`StoredIs`), and a name of `Long` is none.  That the new entry goes to an index below
  `Capacity` is a counting argument: a directory with fewer entries than `Capacity`
  has a free index there, since two indices that are used name two entries
  (`FreeEntry`).  A directory that was given more is `crowded` and is left out from
  then on (`OneMore`, `Crowding`).
* What a half written entry needs.  A stop between the bytes of `add_entry` leaves
  the number with the name that was there before; the entry counts as named 0 in
  `named`, and `Shows` does not say what its name is.  A stop in `del_entry` leaves the
  name with the number 0, and such an entry is free like any other.  The process
  that stops leaves what it had in its buffer behind: `HalfGone` says that the byte
  was on the disk, and that nothing else was lost.

`ToolsProofs`, on top of the lemmas of `IfileProofs`
* `FaithfulTools` (`Faithful`), `FilesOfTools` (`ReadsWhatWasWritten`): both properties
  of the run `tools`, for any sizes, characters and number of files and programs,
  under the condition `[]RowsFound` of `IfileProofs`; `SmallTools` has both with no
  condition on a volume of at most `W` sectors.
* A call is one of `Ifile`, so that the lemmas of `IfileProofs` say what it does to the
  volume; what is new is what a program knows between two of them.  `ToolInv` has
  three parts: `Inv` of `IfileProofs`; `Shape`, which calls a program can be between;
  and `Work`, what it has done so far.  A life that `CreateNothing` ended (`wild`)
  is excused, as the properties excuse it.
* `Work` says that the descriptor of the source is where the last character was read
  and shows the bloc of the file (`AtSrc`), that what was read is the beginning of
  the file, without an EOF, and that the file is as it was (`ReadSoFar`).  When the
  reading has ended it was at the size or at the first EOF (`AllRead`), which makes
  its length `ReadLength`.
* `CopySoFar` is the same of the copy, of which one bloc is in a buffer: its `View`, the
  disk with the buffer in its place, begins with what was read and is zero behind it
  when the file is new.  A character that crosses to the next bloc flushes the buffer
  first, and closing flushes the last one: the view is then on the disk
  (`CopyDone`).  A source copied over itself gets back what it holds, character by
  character, which is why `Faithful` has no exception for it.
* A full volume.  A cursor only goes to a bloc that exists (`seek_ifile` ends the
  process otherwise), except that nobody seeks to the first one: `open_ifile` reads
  bloc 0 for it, and the flush that finds no bloc either writes the superbloc over.
  The copy is then `Lost`, and stays so (`Starves`: what has no bloc on a full volume
  gets none).  This is the case that `CopyHasBloc` leaves out of `Faithful`, and the
  only one: no other bloc of a copy is missing.

`Induction` is what these need of induction.  The induction theorems of the
library take an operator as a parameter, but the well-foundedness of the naturals
does not: a set of naturals has a least element (`LeastElement`), so that induction
can be stated over a set in the place of a predicate (`UpTo`), and a recursive
function exists with the values it should have (`FunctionExists`).

## 6. What is only model-checked

* `KeepsPromise`, `NoDoubleAllocation` on two-sector volumes are not claimed.
* `DelEnds` and everything else under fairness: the prover has no liveness.
* All of `Drive`, and the violations.
* Of `Directory`, all that the run checks is proved.  What its properties leave out
  is worth knowing: a volume that was ever full and a directory that was ever given
  more than `Capacity` entries (281 in the code).  Both are reached, and both break
  them: a search on a full volume ends the process, and an entry written where the
  size does not reach is read by nobody and overwritten by the next.
* Of `Ifile`, the lives after `astray` on a volume of more than `W` sectors.  What
  the run `files` checks is proved; what its properties leave out is worth
  knowing.  `KeepsBloc` and `ReadsWhatWasWritten` speak of the first two
  ranges only: in the third the code does not keep them (run `found`, and the
  shift of `filesystem.c:593`).  `SizeCovers` leaves out the entries of the table
  of one level, which the code does not count (`filesystem.c:534`: the size grows
  when the table is made, not with the blocs after it).  `DeleteReturns` speaks of
  files without holes below the second level; for the others `delete_ifile` frees
  bloc 0 for every hole.  `SuperExplained` says that the superbloc survives even
  this, because `free_bloc` saves it again for the bloc that follows and the inode
  comes last (`ifile.c:31`); only a volume without a bloc left loses it.  That holds
  call by call: a cut in the middle of `delete_ifile` is not in this module (it
  leaves an inode that names free blocs, which a second deletion frees again).
* Of `Tools`, all that the run checks is proved, without the lives after `astray`.
  `Faithful` speaks of files of the first two ranges, like `ReadsWhatWasWritten`.  It
  does not speak of a copy that got no bloc for its first characters
  (`CopyHasBloc`), nor of what a longer file that is copied over holds behind the copy:
  `if_cfile` does not shorten it.

## 7. What is not modelled, and why

* What the driver puts in the registers, `MASTERBUFFER`, `format_sector` and
  `disk_info`: as `mkhd` stands no access comes to the transfer (run `asleep`), and
  the commands that use the disk are commented out of the shell, so that no two
  cores can be at it.  The other modules have one process at a time on the disk.
* `delete_inode` (called by nobody; reads into NULL); the type of a file;
  return values of reads; what a program does after `create_ifile` gave it 0
  (its inode is over the superbloc, and `if_nfile` goes on writing to it);
  `if_status`, which prints an inode and changes nothing.
* The stacks of the contexts, but for the variable that `switch_to_ctx` reads again
  from the new one (`Load`): the values that a context finds on its stack are its own.
* What is behind the 15 characters of a name that an entry keeps: which file a program
  meant by it is in `named`, and no search tells.
* The text side of the shell, the printing tools, the exercises and tests.
* The memory of the processes: nothing frees it, `malloc` always succeeds.
* `mkvol -s 0` and negative arguments; the end of the disk (`mkvol` has no bound
  either: `create_volume.sh` asks for 10000 sectors).
* The type of a volume: no program makes another than BASE.

## 8. What the plan has left

What would come next:

1. `File`, an abstract specification of a file as a sequence of blocs, which
   `Ifile` implements below its second level: today `ReadsWhatWasWritten` states
   it on the state, with `text` in the part of the abstract file.  Likewise
   `NameSpace` for `Directory`, whose abstract state is `named`.
2. Two cores on `MASTERBUFFER`, once the mapper lets an access end and a command of
   the shell uses the disk.

Disagreements met while modelling that have no run of their own:

* `mkvol` accepts a volume that contains another one, or that begins on a sector
  `convert_cyl_sec` misses: `chck_possible` (`mkvol.c:20`) only looks up the first
  sector and one near the end (against its message at 124);
* `convert_cyl_sec` answers -1 for the sectors of a volume that come before its
  first sector number in a later cylinder (`volume.c:197`), and a bloc for the sector
  behind its end (`volume.c:203`), against its comment (`volume.c:180`);
* `mknfs` of a volume that is not the first announces that one (`mknfs.c:55`), and saves
  its superbloc, opens a free run and writes its root inode on the first volume, over
  the file system that is there (`vol_courant` stays 0: `filesystem.c:209`, 256, 361);
* a file that was created by a name of 16 characters or more is not found by that name,
  nor deleted: `add_entry` keeps 15 characters (`dir.c:94-96`), the searches compare
  more (`dir.c:60`, 218), against "0 if no such entry" (`dir.c:158`);
* the producer and the consumer of `prod_con.c` share core 1, and `sem_down` does not
  change the context ("On change de contexte", `context.c:255`): the consumer never
  runs (`Current`);
* `rvol` on a full table stops one entry early and drops the last volume
  (`rvol.c:18`);
* `mknfs` on an empty table compares with `nvol-1` in unsigned arithmetic and
  accepts any volume number (`mknfs.c:50`);
* `create_file` does not refuse a "pre-existing file" (`file.h:25`): two entries have
  the name, the first one is found; `delete_file` does not refuse a "non empty
  directory" (`file.h:29`), whose files are then reached by no path;
* the shell program (`README.md:21`) ends in `main`'s own `yield` if it comes there
  before core 0 has a context: `yield` reads the name of `ctxs[0]` (`context.c:109`).
  `CrashExplained` has two more ways: the alarm of a core before its idle context is
  linked, and the switch from a context that ended to one that was never started,
  whose stack holds no `core` (`context.c:142`);
* a write on a full volume goes on with bloc 0, the `BLOC_NULL` that
  `filesystem.h:109` promises, as with any other, and over the superbloc
  (`filesystem.c:506`; `SuperExplained`);
* a waiter that another core's `sem_up` never picks: the list is last in, first out;
* `write_sector` sleeps after `move_head`, which has slept already, and the two
  arguments of its `_out_16bits(HDA_DATAREGS, 1)` are exchanged.

All of them are in the models, and the properties name the cases they exclude.
