# A verification development for Operating-Systems-UCLA-CS111

The repository holds the projects of an operating systems course: small C
programs (and one in Python) around terminals and pipes, sockets, threads and
locks, the ext2 file system and an embedded thermostat. This directory
holds TLA+ models of them, the TLC configurations that check the models on small
instances, and TLAPS proofs. Paths are relative to the repository.

## 1. Inventory

| Part | Keeps | Does | Meets | Hard about it |
|---|---|---|---|---|
| `project0/lab0.c` | two redirected descriptors | opens, dups, copies bytes, exits with a code per option | the kernel only | nothing that takes more than one step |
| `project1a/lab1a.c` | terminal mode, two pipes, the shell's pid | echoes keys or passes them to bash and its output back; restores the terminal in an exit handler | terminal, shell (pipes, signals) | ^D and ^C against pending output; the exit handler waits for the shell |
| `project1b/lab1b-client.c`, `lab1b-server.c` | socket, two pipes, shell, zlib streams, log | the same through a TCP connection, optionally compressed | each other, terminal, shell | end of file on any of four channels in any order, SIGPIPE, reaping the shell, output still in flight |
| `project2a/lab2_add.c` | `my_counter`, `my_spin`, `my_mutex` | threads add 1 and then subtract 1, under no lock, spin lock, mutex or compare-and-swap; main prints the counter | threads through shared memory | lost updates, lock discipline, progress |
| `project2b/lab2_list.c`, `SortedList.c` | `num_lists` sorted circular lists, a lock per list, waiting times | threads insert their elements, check all lengths under all locks, look up and delete their keys; main checks that all is empty | threads through the links and locks | torn links, two-way checks, deadlock when taking all locks, equal keys |
| `project2a/lab2_list.c`, `project2b/lab2a_list.c` | one list | the same with one list and one lock | as above | as above |
| `project3a/lab3a.c`, `lab3a_std.c` | an ext2 image | prints superblock, groups, bitmaps, inodes, directories, indirect blocks as CSV | the image | numbering from bitmaps, sparse indirect blocks, buffers sized for an image without gaps |
| `project3b/lab3b.py` | the CSV of one image | audits blocks, inodes and directories, exits 2 if inconsistent | the CSV | boundaries, a free list changed while it is used |
| `project4a` | pictures | - | - | - |
| `project4b/lab4b.c` | `running`, `period`, `scale`, log | a sensor thread reports temperatures, a reader thread obeys commands, the button shuts down | threads, button callback, stdin | reports after STOP or OFF, two shutdowns at once, lines split over reads |
| `project4c/lab4c_tcp.c`, `lab4c_tls.c` | as 4b, and a socket | the same with a server at the other end | as 4b, the server | a server that goes away |

What makes each part correct:

- **lab2_add**: no update is lost under `--sync`; one thread at a time in the
  critical section; the report comes after all threads; the program ends; and
  without `--sync` the error is bounded.
- **lab2_list, lab2a_list**: locks are held by who took them and by no one else; unlocked
  lists are sorted, circular and two-way linked; no thread misses its key;
  the program ends. Without locks: no wild pointer, no cycle, an error exit
  instead of a hang.
- **lab1b / lab1a**: every byte the shell writes before it ends reaches the user;
  every byte typed before ^D reaches the shell once, in order; the server ends
  when the shell or the client does, and reports the shell's status; the terminal
  is restored on every way out.
- **lab4b / lab4c**: at most one report after STOP; OFF and the button end the
  program; what is logged is what was obeyed, in order.
- **lab3a / lab3b**: every inconsistency of the four kinds of the assignment is reported, and
  a consistent file system is not complained of.

`PROJECT.json` lists the hazards one by one, each at its line.

## 2. Modules

| Module | Models |
|---|---|
| `AtomicCounter` | abstract: what a synchronised `lab2_add` promises |
| `Lab2Add` | `project2a/lab2_add.c`, main and threads |
| `Lab2Add_proofs` | theorems about `Lab2Add` |
| `SharedBag` | abstract: what a synchronised `lab2_list` promises |
| `Lab2List` | `project2b/lab2_list.c` and `SortedList.c` |
| `Lab2List_proofs` | theorems about `Lab2List`: those that hold in every mode, then those under a lock: sound lists, no failure, the bag |
| `OneList` | `project2a/lab2_list.c` and `project2b/lab2a_list.c`, with the list operations of `Lab2List` |
| `Texts` | what the properties say of texts: a text without some bytes, before the first ^D, lines joined |
| `Texts_proofs` | lemmas about them, about flattening and about sequences that grow at the end or are used up at the head |
| `Thermostat` | `project4b/lab4b.c`, `project4c/lab4c_tcp.c` and `lab4c_tls.c` |
| `Thermostat_proofs` | theorems about `Thermostat` |
| `TelnetSocket` | the connection of lab1b and what travels on it |
| `TelnetServer`, `TelnetClient` | `lab1b-server.c` with its shell, `lab1b-client.c` |
| `Telnet` | one session: the two composed over the connection, and the properties |
| `Telnet_proofs` | theorems about `Telnet` |
| `TerminalShell` | `project1a/lab1a.c` with its shell |
| `TerminalShell_proofs` | theorems about `TerminalShell` |
| `Lab3Csv` | the lines of the CSV summary that lab3a prints and lab3b reads |
| `Lab3b` | `project3b/lab3b.py`, and what a consistent summary is |
| `Lab3b_proofs` | theorems about `Lab3b` |
| `Ext2Image` | an ext2 image seen through `ext2_fs.h`, and the state of a scan |
| `Lab3a`, `Lab3aStd` | `project3a/lab3a.c`, `project3a/lab3a_std.c` |
| `Ext2` | the two projects composed: scan an image, audit what was printed |
| `Ext2_proofs` | theorems about `Ext2`: what a scan prints, and the audit of it |
| `MC...` | the constants of the TLC runs |

Operators named `X_Y` with a comment that begins with *Mutant* are the definition
`X` with a mistake in it. They belong to no specification; they show that a
property notices the mistake.

### Lab2Add

Memory is sequentially consistent, and a step is one load or one store of shared
memory, as `-O0` code does them: `Load` and `Store` are the two halves of `add`,
`LoadOld` and `CompareAndSwap` those of the branch for `c`. Places that only touch a
thread's own variables are merged with the step before. `pc[t]` is the thread's
place, `main_pc` main's. `my_mutex` holds its owner; `my_spin` is the 0 or 1 that
`__sync_lock_test_and_set` works on, and has none. `CreateFails` is a failing
`pthread_create` (exit 1 with threads running), `DivideByZero` the average that
main computes of 0 operations. Ints wrap around at `IntModulus` in the
product `my_ops` only: the counter itself cannot get that far.

### Lab2List

The four list operations take a step for each load or store of a `next` or
`prev` link, since that is where two threads meet; the comparisons of keys, which
never change after the elements are made, belong to the load before them.
`th[a]` holds the registers of an actor: a thread, or main, which calls
`SortedList_length` itself at the end. The node `Wild` stands for what `malloc`
left in a link that nobody has set. `Acquire`, `Timed` and
`Release` hide the two kinds of locks: `s` and `m` are taken and released at the
same places, so that the spin lock goes through the steps of the mutex.
`WaitTimes` are the times a thread may measure around taking a lock. When a
`pthread_create` fails main frees the lists: `UseFreed` is any outcome of
touching them after that. The keys are chosen once, in every way `Keys` allows;
the hash of a key is the key modulo the number of lists, which spreads the few keys there are.

### OneList

The two older programs call the same `SortedList.c`, so that `OneList` extends `Lab2List` and
takes the steps of the list operations from it, with one list. Its own are what
the programs do otherwise: `lab2_list.c` does not compute a `my_tid` and so does not divide by
`num_iterations` (`OneStart`); there is one lock to take, whose wait only `lab2a_list.c` measures, and
only for the mutex (`TakeLock`, `Measured`); a final length that is not 0 is status 2 and
not 1 (`ExitOnError`).

### Thermostat

Four actors: main creates the threads and joins them; the reader reads and obeys
commands; the sensor reports; the button's callback runs `turn_off` on a thread of
the mraa library. `running`, `on`, `scale` and `period` are shared without locks,
so each access is a step. Text is cut into pieces (`SCALE=`, `C`, `newline`, ...);
a read returns any number of them. Scanning for the newline of a line that was
cut runs past the end of what was read: `ScanFinds` and `ScanCrashes` are the two
things that may come of it. `program` says which of the three it is.

The two of project 4c connect first (`Connect`), identify themselves, and may find that
the server has closed (`channel`): a write then may raise SIGPIPE. `lab4c_tls` opens a session on top
(`OpenSession`), which its threads use without a lock: `InCall` says who is in
a call on it, `CallsMeet` that two are, and then `DamageSession` and `CrashInSession` are what OpenSSL may
make of it. The order of converting, logging and writing a report also differs among the three.
Times, temperatures, the sampling period's length and `t_buffer` are left out.

`LogFollows` compares the log with the lines obeyed. They agree but for the last line obeyed. That may be an OFF, which is logged by `turn_off`. Or it is any other
line between being obeyed (`lab4b.c:92`) and being logged (line 104): when the button's thread gets to its `exit(0)` (line 49) just then, the line
was obeyed and never is in the log.

### Telnet

A step is a system call that may wait or that the other side can see, hence a byte
at a time where the code writes byte by byte. `serverRevents` and `clientRevents` are what the
last poll found, acted on after it may have become stale. `TelnetSocket` models
what the sockets API does with close, half-open connections and resets:
`inbox[e]` is what end `e` has yet to read, a write to a closed end is lost and
breaks the connection sooner or later, and closing with unread data may cost the
other end the tail of its own. The shell (`ShellReads`, `ShellWrites`, `ShellEnds`) is external
and does what it likes with its two pipes. `comp`, whether both are run with `--compress`, is
chosen at the start. With it the connection
carries packets, one per call of deflate. The compressed bytes go through the
scan for ^D, ^C and CR that is meant for text, so that any packet may be damaged:
`ok` says whether it was, `damaged` remembers it, and `Inflations` is what inflate may
make of it. `InflateHangs` is the loop that calls inflate until its input is used
up. Packets arrive whole. The client's log, a terminal that
hangs up, and the arguments are left out.

### TerminalShell

`at` is the program's place; a step is a system call, and in the loop over the keys
one key. `EchoKey` and `GiveKey` are the two writes a key gets, the second of which may
wait for the pipe. `revents` is what the last poll found. `Exit` is `exit` up to the
`waitpid` of `restore_terminal_mode`, `WaitForChild` the rest of that handler, which
decides the exit status anew. The shell reads, writes and ends as it likes; `given` and `wrote`
remember all that went through the two pipes. Without `--shell` only the echo remains.

### Lab3Csv, Lab3b

A line is a record of the fields the audit looks at. `audit` is the loop the script is in and
`turn` the turns it has made: an action is one turn of one loop. The list of free inodes is
one list under two names, from which the loop over the inodes deletes while
the directory audit reads it afterwards. `Parse` reads the summary into the variables `my_sp`, ..., `my_indir`. A KeyError is `exit1`. What is printed is the sequence
`printed` of records, since it is what is complained of that matters, not the words.

`Consistent` is written from what a file system is, not from the script. Where the
script sees less, `SilentIffConsistent` says so: the block with the number
`num_blocks` passes for one of the file system; the last inode and the reserved
ones are not looked for on the free list; of a directory with two parents the last one counts.
`AuditSpec` starts from any summary that `Summarised` allows: any lines of the right shape, where, if the script can read them
at all, no inode is described or listed free twice and those described are within the superblock's number of inodes. Both programs of
lab3a go through inodes and bitmap bits in order, once.

### Ext2Image, Lab3a, Lab3aStd, Ext2

An image has one group and blocks of 1024 bytes, the size for which both programs read at the same
places. Bitmaps are the sets of their bits; a block is known by its pointers (`Pointers`) or its
directory entries at their offsets (`EntryAt`). `scan` is the part a program is at. A step is one part of
a program: the bitmaps, an inode, a directory entry, all the indirect blocks of an inode. The trees of
indirect blocks have three levels and an operator for each. `stack` holds the calls with which `lab3a_std` scans
a directory, whose indirect blocks it follows too.

`lab3a` skips null pointers, but takes block 0 for an indirect block where there is none, and reads
the boot block as pointers: `BootBlockEmpty` says that this does nothing. In both programs the offset
moves on at a null pointer, but not at all pointers that are none: `IndirectRight` promises
the right offset only to pointers with no other pointer before them (`first`). `lab3a_std` stops before the
last inode, and reads on in a directory's block as long as the directory is larger than the entries read, also behind
the end of its buffer, where `Beyond` is what may be there (`ReadBeyond` is the crash): `WithinStd` are the
images on which neither matters. Its `inode_bitmap` is too small for what is stored in it, so that
any later use of the heap may crash.
A directory entry of length 0 makes either go round for ever (`"endless"`). From the root `lab3a_std` goes on at `s_first_ino`. An
`s_first_ino` of 2, or of 1 by way of inode 1, leads back to the root, and the same is printed again and again (`GoOn`): that is
`"endless"` too. An `s_first_ino` of 0 leads to inode 0, for which there is no bit, and to exit code 2 (`CorruptedBitmap`). `ScanEnds` names these
and all other ends of a scan, with what may lead to each.

`Ext2` runs the audit on the lines of a scan that ended with 0. `AuditFaithful` is the promise of both projects together, in two
halves.

- `IntactIsSilent`: nothing is complained of in an `Intact` image. That is written from what an ext2 file system is:
  each block in use is referred to from one place and no free one is (`BlocksIntact`), each inode in use has its bit (`InodesIntact`), the
  entries of a directory's blocks follow each other without overlap (`Chained`), a directory has direct blocks only, one name, and entries that lead to
  inodes in use (`DirectoryIntact`, `DirectoriesIntact`). The last inode of an image that `lab3a_std` scans must not be in use, its directories must
  fit in a block, and the text of a short symbolic link must not be readable as a tree (`WithinStd`).
- `SilentIsIntact`: where nothing is complained of after `lab3a`, the blocks are as `BlocksIntact` wants them. The premise `LinksIntact`, that
  short links and only those have no blocks, is needed: `lab3a` tells a link's text from addresses by its size, and goes into the trees by its number of blocks.

## 3. Runs

| Run | Bounds | Shows |
|---|---|---|
| `lab2add_sync` | 0 to 2 threads with 0 to 2 iterations, 3 with 1; `s`, `m`, `c`; ints of 4 bits | no lost update, exclusion, report, refinement of `AtomicCounter`, termination |
| `lab2add_race` | 0 to 3 threads, 0 to 2 iterations; `n` | how wrong the counter can get |
| `lab2list_sync` | 2 threads with 2 elements on 1 list or 1 element on 2 lists, no threads, no iterations; 2 keys; `m` | lock discipline, sound lists, no thread fails, refinement of `SharedBag`, no deadlock |
| `lab2list_race` | 2 threads with 1 element on 1 or 2 lists, 1 thread with 3; `n` and `m` | no wild pointer, no cycle, termination |
| `lab2list_wait` | 2 threads, 1 element, waits of 0 or 1 | finding 2 below |
| `onelist_ends` | 2 threads with 1 element, 1 with 2, no threads, no iterations; both programs, `n` and `m`; 2 keys | both programs end, and under the lock with success |
| `thermostat_threads` | 5 inputs of 4 or 5 pieces in any cut, a buffer of 5 pieces, all three programs, with and without a log | late reports, lines obeyed and logged, shutdown, crashes, OFF |
| `thermostat_scale` | SCALE=C then SCALE=F | finding 1 below |
| `telnet_session` | up to 4 keys and 3 bytes of output, or 1 key and 3 bytes in packets; sockets, pipes and buffers of 2 | delivery both ways, endings, terminal, end of session, with and without `--compress` |
| `terminal_shell` | 3 or 5 keys with ^D, ^C and both line ends; up to 4 bytes of output, one of them ^D; buffers and pipes of 2 | keys and output delivered, endings, end of the program |
| `lab3b_audit` | 1034 summaries of a file system of 10 blocks and 8 inodes: a consistent one, and all that differ from it in one or two places | what the audit sees and what it misses, its exit code, unallocated inodes |
| `ext2_scan` | 377 images of 20 blocks and 8 inodes, both programs: an intact one with an indirect tree of 3 levels, and those with one or two differences, an `s_first_ino` of 0, 1 or 2 among them | the indirect blocks found, silence on intact images, how the scan ends |

Why these bounds do: two threads are enough for each pair of racing accesses, and
two operations each for a value that is stale by a whole operation; three threads with one
operation add the chain of two overwrites. Two iterations make 4 bits overflow with
two threads. Two keys give equal and different neighbours; two lists give a lock order. An
input of 5 pieces in a buffer of 5 can be read whole, cut anywhere, and fill the buffer.
Sockets and pipes of one or two items are full within the keys and bytes there
are, which makes writes wait for each other and shows the state in which both
programs do. Three bytes of output let two packets of one read be
more than a buffer. A second list makes no difference to `OneList`, and two elements in all make its races.
Each inconsistency that the audit looks for is one wrong entry in one place; the second
difference puts it next to another, or repairs it. The trees have every level, gaps at the start of
a block and in the middle, blocks that occur twice, and pointers out of the image.

Deadlock is checked in all runs but those of `Telnet`, `TerminalShell`, `Lab3b` and `Ext2`. The last two are
programs that just end. Client and server
may really be stuck (`Clogged`) or hang in inflate, and `lab1a` waits for a user who
types no more, or for a shell that neither reads nor ends.

Fairness is weak fairness of each thread or process of the program: the scheduler runs
everybody now and then. Locks are not assumed to be fair; a thread that
waits for one gets it in the end because the others have finitely many operations.
In `Ext2` it is that the programs run.
Nothing is assumed of the user, the button, the server at the other end of
lab4c, or the shell.

## 4. What disagrees with the code

1. `thermostat_scale`, `ScaleIsKnown` (`project4b/lab4b.c:58`). `change_temperature`
   takes a scale that is neither F nor C for impossible and exits. It reads the shared `scale`
   twice, and a change from C to F between the two makes it find neither.
2. `lab2list_wait`, `WaitIsTotal` (`project2b/lab2_list.c:397`). The average wait
   for a lock divides the last thread's waiting time by the acquisitions of all. `lab2a_list.c:356` does the same.

## 5. Proofs

All theorems hold for every value of the constants that the modules' assumptions
allow: any numbers of threads, iterations and lists.

**`Lab2Add_proofs`.** The invariant `IInv` adds to `TypeOK` where each
thread can be for its index and sign (`PlaceInv`), what main knows of the
threads it created and joined (`MainInv`), who is between acquire and release
(`LockInv`: a thread there has the mutex, or the spin lock is taken) and that what a thread under a lock
is about to store is not out of date (`FreshInv`). Without
the last `CounterExact` is not inductive. From it follow
`TypeCorrect`, `MutuallyExclusive`, `NoUpdateLost`, `ReportsTrue` (from `PrintsZero` and
`PrintsOperations`), and, when `n` is not in `Syncs`, `RefinesAtomic`: every
step is a step of `AtomicCounter` or a stutter.

`RacesBounded` is about the mode without a lock. The bounds alone are not inductive: a stale sum may be stored long after
it was made. `CounterRange` bounds the counter by the numbers of additions and of subtractions done so far, which only grow;
`SumRange` does the same for a sum that a thread has made and not stored yet, which counts as one operation more. A thread subtracts only
when its additions are done, which keeps the lower bound at `1 - n`.

**`Lab2List_proofs`, first half.** Nothing here assumes a lock: the theorems hold in the mode `n`
as well.

- `PointerInv` is inductive. It calls a node *placed* when it is linked and not fresh,
  that is, not between `InsertInit`, where its own links are set, and
  `InsertPred`, where the first link to it is stored. It says that links of linked
  nodes lead to placed nodes of the same list, that the registers hold placed nodes at
  the places where they are used, and that elements yet to be inserted have unset links. The lemma
  behind it, `MemoryStep`: placed nodes only get more, and a store only puts a placed
  node into a placed node. `TypeCorrect` and `PointersAlwaysValid` follow.
- `LocksOwned` adds `LockOwnership` to it: it is inductive beside `PointerInv`.
- `WalksEnd`: `RankInv` says there is a rank of the elements such that `next` leads to a
  lower and `prev` to a higher one, also through what the registers are about to store. Only
  `InsertPred` needs a new rank: the element gets one just above the node it goes in
  front of, and all from there on move up by one (`Shifted`). Deletion keeps the rank: it only
  makes links skip nodes. A cycle without a head would have an
  element of least rank, and its `next` is lower still.

**`Lab2List_proofs`, second half.** With the spin lock or the mutex. The three theorems come from one invariant, `SyncInv`: beside pointers,
ranks and lock ownership there is a set of nodes `C[l]` for each list that changes as a sequential list would
(`SyncWith`). Its parts:

- `SoundAt`: `C[l]` is closed under both links, in key order, and `prev` is the inverse of `next`, except at the
  one element that the holder of the lock has linked or unlinked one way only (`Half`). The four stores of
  the two operations are lemmas about two functions and a set, without threads.
- `HandOf`: what the holder knows at each place: the walk has not passed the place of its element, its two new links are those of the
  neighbours, and, while it looks a key up, an element with the key is still ahead (`Ahead`: every set of
  nodes closed under `next` that has the current one has such an element).
- `CountOf`: the same for a length, with all locks taken.
- `Matched`: of each key the lists have as many elements as threads have inserted and not removed. This carries
  `ThreadsNeverFail`: threads delete each other's elements, so no single element need be there for its owner, but one of its
  key is. That the lookup comes by it rests on the ranks: who walks from the head comes by all of the list (`AllAround`).
- `MainSync` and `StatusInv`: main counts only when all threads are done, and whence the process may end otherwise.

`UnlockedListsSound` needs that the set `Circle(l)` of the property, a recursive function, is `C[l]`. Its finite parts are glued
(`Iterated`, any two agree by `GeneratedOnce`), and a part that grows at each step up to the number of elements is everything (`AlongIs`, `CircleIs`).
`ImplementsBag` follows from `SyncInv` alone: `C` says what the mapped bag has, and each step that is no insertion or removal leaves it.
Its hypothesis `Locked` is that the program was started with a lock; `sync` never changes.

**`Texts_proofs`.** The properties of the loops compare texts: what was handed on, then what
is still under way, is what was read, without some bytes and with others replaced. `Texts` writes this with the
folds of the community modules, and the lemmas say what they do to a text that grows at its end or is used up at its head
(`FlattenConcat`, `WithoutConcat`, `BeforeConcat`, `JoinedAppend`, ...). Where a lemma needs induction it goes through the least number
of a set (`Least`), as the library's induction theorems cannot be used here.

**`TerminalShell_proofs`.** `PlaceInv` says where the program can be for its option and for
the state of the shell, that a hang-up found by poll means that the shell is gone, and that
it only leaves with 0 when there is no shell. `Endings` needs it: that the handler does not
wait for a running shell with its input open follows from what led to each `exit`.
`OutputDelivered` is inductive beside the types; the two lemmas it rests on are that a sequence cut
in two and joined again is the same (`Moved`) and that a byte appended to the pipe is
appended to all (`Appended`). `KeysKept` adds that what was handed on and what is owed (the keys in the buffer, while the input is open)
make up all that was typed, and that no ^D is among the keys before those in the buffer (`TextInv`), and that what was
shown is at most the one key ahead that is waiting for the pipe (`EchoInv`).

**`Thermostat_proofs`.** `IInv` is the types, which thread exists at which place of main (`BirthInv`), and for each theorem what the code's
order of steps keeps true: `late` is 0 as long as the sensor has a report under way (`LateInv`, for
`AtMostOneLate`); the line the reader is about to log is the last one obeyed, and OFF is left to `turn_off` (`LogInv`, for
`LogIsTrue`); how many `OFF` and `SHUTDOWN` are in the log is how many actors have passed the two writes of `turn_off`
(`TurnOffInv`, for `EndAnnounced`, and for the second half of `LogFollows`: only the button's thread ends the program with 0 while the reader is
between obeying a line and logging it); a buffer that no read cut ends with a newline and is used up before the
next read (`CutInv`, `LineInv`, for `AllLinesObeyed`); and a sensor between its two looks at `scale` that now would see F was overtaken by a
`SCALE=F` (`CrashInv`, for `EndsExplained`). The last is finding 1 seen from the other side: there is no other way to that exit.

**`Telnet_proofs`.** `Places` is the types and what the places of server and client say of the
connection (`ServerInv`, `ClientInv`): as long as the client runs, the connection only breaks when the server has closed it,
whence `TerminalIsRestored`; and the server comes to an end only from a place at which `ServerEndings` allows it.
The two theorems about texts hold beside `Places` by three invariants.

- `ItemInv`: in an undamaged session what is on the connection are bytes that the sender may have sent
  (without compression) or packets that are intact.
- `OutInv`: the screen, what is on the way and what the server has not converted yet are
  the shell's output, as long as the connection is there. When it breaks, only the end of it may be lost. That is stated of screen *and* what still may reach it
  (`Shown`), since a client goes on showing what it has received.
- `KeysInv`: as long as the shell's input is open, the keys typed are those acted on (`pre`, without a ^D), those the server has (`Got`), and a rest, which
  is what the client still holds or, when it is gone, whatever got lost. `KeysDelivered` alone
  says nothing of keys that were received but will not be handed on, and is not inductive.

**`Lab3b_proofs`.** The one invariant `AuditInv` says of each loop what the audit knows after the turns it has made (`BlockTurns`, ..., `LinkTurns`
count them: 0 before the loop, all of them after it).

- `FreeInv`: the free list is what it was at first, without the inodes in use and with the unused ones *of the lines seen so far*, and
  with the inodes reported missing. `OnceInv` adds that what is reported of an inode is reported when its line, or the lack of one, is seen; so the changing list makes
  no inode be reported twice. `EntryInv` says the same of the entries: from then on the list does not change. Hence `OnceToldOfInodes`.
- `ErrorInv` ties `my_error` to what was printed, `ParentInv` says which inodes have a parent, and `CrashInv` what it means that one has none. Hence `EndTells`.
- `SilentInv`: as long as nothing is printed, what was gone through is as `Consistent` wants it, for blocks, inodes and entries each.
  `SaneInv`: of a consistent file system nothing has been printed. It is only inductive beside `SilentInv`: that the audit stays silent
  at the next turn rests on `block_dic`, the free list, the parents and the link counts being right so far. Both halves give `SilenceTells`.

Each action has a lemma that it keeps the invariant (`InodeBlocksKeeps`, ..., `EntryKeeps`), the parts it does not touch are lemmas of their own
(`BlocksStill`, `InodesStill`, `EntriesStill`).

The lemmas about sequences made of pieces, which `Ext2_proofs` uses, are at its end.

**`Ext2_proofs`.** Everything is for any image of one group (`ImagesAssumption`), sound or damaged, of any size.

- `ScanInv` says what has been printed so far: the superblock, the group and both bitmaps, then the lines of the inodes up to the current one
  (`InodePieces`) and those of the trees before it (`TreePieces`); the lines of directories may come in between (`ScanPrints`). The trees are
  operators of three levels (`Tree1`, `Tree2`, `Tree3`), one on top of the other, so that they need no recursion. An inode is printed
  at most once and a free one listed at most once, hence `ScanSummarised`.
- `IndirectLinesRight` goes through the levels: the lines of a block are right (`Right`) when they match the pointers
  of the block one to one, and what is below each line is right too. Where no other pointer comes before, each step to the left of it has counted.
- `FileInv` puts scan and audit together: before the scan is done the audit is in its initial state, and then `AuditInv` holds of what was printed. So the three theorems
  of `Lab3b_proofs` hold of any image (`ImagesAudited`). `ReadInv` adds that what the audit has read are those lines.
- `SilenceIsIntact`: what `Consistent` says of lines is carried over to the image. Where two pointers lead to one block there are two
  lines that do, also when both are in the same tree (`Twice`), and so the audit has found the block twice.
- `AuditIsFaithful`, the other half, needs the converse. In a sound image a block is referred to from one place (`Lone`), so that no block of a tree is
  in it twice, and no two lines lead to the same block (`Child`, `Reach2`, `Reach3`): each reference the audit files stands for one
  mention in the image. For the directories `DirInv` is the invariant: the `DIRENT` lines and the entries gone through so far describe each other one to one
  (`Listed`), with the place at which either program is in a block, or in its stack of calls (`DirPlace`). That is
  `EntriesPrinted`. At the end the lines stand for all entries, and counting through the bijection gives the link counts and the parents
  that the audit compares.

The attempts to prove these have changed the model. `SilentIsIntact` was false without `LinksIntact`; `Intact` had to say that entries do not overlap, that
directories have no indirect blocks and no gaps, that the reserved inodes' bits are set and that a removed inode has no tree left; and `WithinStd` that the text of a short
link is no tree, which `lab3a_std` would print. They also showed what becomes of an
`s_first_ino` of 2 or less when the root is in use and there are more than two inodes (not `Proceeds`): with 1 or 2 `lab3a_std` prints the root for ever, with 0 it
exits with 2. An image that `mke2fs` makes has one above 2. What `ScanPrints` says of the lines leaves out the scan of such an image by `lab3a_std` from the first inode on,
except that it is never done.

The assumptions are those stated in the modules (`ArgumentsAssumption`, `TerminalAssumption`, `ImagesAssumption`, ...). What TLAPS
cannot do here and TLC does is liveness: termination, `EndsAsPromised`, `OffEnds`, `SessionEnds`, `ProgramEnds` and `ScanEnds`. With `EndsAsPromised`
all of `OneList` is only model-checked. Every invariant and every action property or refinement that a run checks is a theorem.
`ASSUME`s of `OneList` and `Ext2Image` are evaluated by their runs.

## 6. Not modelled

- `lab0.c`: a chain of calls with an exit code each. Nothing in it takes more than one step to go wrong,
  and its Makefile tests every option.
- Option parsing, the text of messages, profiles, plots, check scripts.
- Of lab3: block sizes other than 1024, several groups, times, failing reads; names with commas; the prints for block 1886221359
  (the text of a symbolic link taken for a number); the order of the DUPLICATE lines.
- Numbers from 2^31 on in an image. `lab3a` reads pointers into a buffer of `int` and prints block and inode numbers with `%d` (`lab3a.c:23`, `29`,
  `202`, `229`), so they come out negative. It computes the address of a block in an `int` (line 25), and `lab3a_std` in 32 bits,
  which overflow from block 2^21, or 2^22, on. The model prints the number itself, and finds nothing in a block outside the image. `NumbersAssumption`
  says that the images have no such numbers, where they are numbers of blocks and not the text of a link; no theorem uses it, but what the theorems say of the model is true
  of the programs only for such images.
- Of lab4: times and temperatures, hence the buffer for the time that two threads share.
- Of lab1b: the client's log; a terminal that hangs up.

The models assume memory that is sequentially consistent, that `malloc` and `pthread_join` succeed, and
at least one list.

## 7. Plan

Done: all modules above, and the proofs of section 5. What could follow:

- That `OneList` under a lock never ends with 1 or 2, for any number of threads and elements: the safety half of `EndsAsPromised`. Its programs are not
  refinements of `Lab2List`, since taking the lock for the length, and the ways to the exit, differ, but the lemmas of `Lab2List_proofs`
  about the list operations apply to it.
- Several block groups, and block sizes other than 1024, in `Ext2Image`.
