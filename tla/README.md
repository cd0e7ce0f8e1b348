# A verification development for NBOS1

NBOS1 is a small 32-bit x86 operating system in C and assembly: it boots from a
floppy-style disk image, sets up paging, interrupts, a file system of its own
and a process table, drops to user mode as process 0, forks and executes a
shell.  This directory holds TLA+ models of its components, the TLC
configurations that check them and TLAPS proofs about them.

Everything is translated from the C and assembly sources in `../src`; comments
of the sources are quoted only where the code contradicts them.

## 1. Inventory

All gates of the IDT are interrupt gates (`kernel.h`: 0x8e00, system calls
0xee00), so interrupts are off from the entry of a handler or a system call to
its `iret`.  The kernel is therefore a sequence of atomic handlers; concurrency
is the order in which user instructions, system calls, timer ticks and key
presses follow each other.

| component | sources | state | operations | hard behaviour |
|---|---|---|---|---|
| process table and scheduler | `process.c`, `interrupt.c:232-281`, `syscall.c:326-550`, `switchktou.s`, `main.c` | `pcblist`, `nextpid`, `mycpu.current_process`, saved contexts | fork, wait, exit, execve, timer tick, exceptions | which process is ever resumed, with which registers; pid reuse; a full table |
| open files and descriptors | `file.c:382-399, 774-840`, `syscall.c:24-249, 335-338, 516-527` | `fileList`, `fdlist` of every pcb | open, close, fork (copies), exit (closes), read, write | table entries shared by processes without a reference count |
| keyboard | `keyboard.c` | `keyBuffer`, `offset`, `status_shift` | key interrupt (echoes to the console), `readStdin` | a full or empty buffer, editing, what is echoed and what is kept |
| console | `print.c` | video memory, cursor register | put_char, linefeed, backspace, scroll, clear_screen | the cell after the last one |
| physical pages | `memory.c` | linked free list (`free_list` and the first word of each free page) | alloc_page, free_page | exhaustion, a freed page that is still written to |
| address spaces | `memory.c`, `syscall.c:262-320, 357-447`, `process.c:284-316`, `main.c:18-86` | page directories and tables | copy on fork, release on execve, page_map, exit | pages that are free and mapped at the same time, leaks |
| file system | `file.c` | super block, bitmap, inode chain, directory blocks | init_file, creat of files and directories, open by path, read, write | full disk, partial failure, copies of inodes that are not written back, what a path leads to |
| locks and disk driver | `lock.c`, `x86.c`, `diskload.c` | lock words, the drive's registers | acquire, release, sector transfer | the drive runs beside the driver, which never asks whether it is ready; the lock is never initialised (`init_lock` has no caller) |
| boot | `bootsect.s`, `loader.c`, `read_sector.s`, `entry.c`, `memory.c:init_memory`, `task.c` | initial page tables, GDT, TSS | once, before the first interrupt | - |
| string helpers | `str.c` | none | strmatch, strcut, separators | names without a terminating NUL, overlapping candidates, the last byte |
| user programs | `shell.c`, `mypro.c`, `unistd.c` | - | call the kernel | - |

Interaction: user programs enter the kernel by `int 0x80`
(`interrupt_handler.s` -> `interrupt_assign` -> `sys_call_table`); the timer
handler calls the scheduler and prints; the keyboard handler echoes to the
console and fills the buffer that `readStdin` would drain; `sys_fork`, `sys_execve` and `sys_exit` touch the process table, the
open files and the address space in one handler; the file system reads and
writes whole sectors through `diskload.c`, and takes paths apart with `str.c`.

What makes each component correct, and the names of the properties below that
say it:

- process table: one process runs, and with the registers it was interrupted
  with; calls that look a pcb up hit the right one; who runs is decided as the
  batch monitor `Batch` says.
- open files: no entry leaks, no descriptor without an entry, entries are clean
  when taken, the standard entries stay.
- file system: bitmap and inodes agree, no block has two owners, what a file
  holds was written through it, names lead to what they named.
- memory: every page has one use, what one process does no other sees in its own
  memory, a fork copies what its caller could read.
- disk driver: a call reads or writes the sector it names, whole, and returns.
- string helpers: a path leads to the item that its last component names.
- console and keyboard: text on the screen is only scrolled or erased, the
  buffer is not overrun.

## 2. Modules

| module | models | refines / composes |
|---|---|---|
| `Process` | process table, scheduler, fork, wait, exit, execve, timer, exceptions | implements `Batch` |
| `Batch` | what the scheduler amounts to: jobs run to completion in order of creation | - |
| `OpenFiles` | `fileList` and `fdlist` under all calls, processes in any order | - |
| `ProcFiles` | `OpenFiles` in the orders the scheduler allows | `OpenFiles` x `Batch` |
| `FileSystem` | disk structures under open, creat, read, write, close | - |
| `AddressSpaces` | free list, directories and tables under fork, exit, stores, first execve | implements `PageOwners` |
| `PageOwners` | transfer of pages between owners | - |
| `Paths` | the functions of `str.c` and the walk along a path, by character | extends `FileSystem`, justifies what it takes a path for |
| `Terminal` | console and the keyboard that echoes to it | - |
| `Disk` | lock and disk driver, port by port, with the drive | implements `Sectors` |
| `Sectors` | sectors that are read and written at once | - |
| `ProcessProofs`, `OpenFilesProofs`, `ProcFilesProofs`, `FileSystemProofs`, `PathsProofs`, `AddressSpacesProofs`, `TerminalProofs`, `DiskProofs` | theorems | - |
| `MC...` | the small instances | - |

Because every gate is an interrupt gate, an action is a whole handler in all of
them but `Disk`, and interleaving is the order of the actions.  What does run
beside a handler is the hardware: in `Disk` an action is one port access of the
driver or one step of the drive.

Operators whose comment begins with *mutant* are wrong on purpose.  They are no
part of any specification: each is a plausible slip of the code next to the
definition it would replace, and shows that the property named with it in
`PROJECT.json` notices.

### Process

A context is two registers: `eip`, one of two places, and `eax`, the result of
the last call.  That is enough to tell a context that was saved, restored or
given to a child wrongly.  `at` remembers what each program expects, and
`ResumesWhereItStopped` compares.  `mode` is `"user"`, `"spin"` (in the loop of
`sys_wait`, which runs with interrupts off) or `"halt"` (after an exception).
The loader clears no BSS, and `init_pcb` writes of the table only the states, the
first pid and some of slot 0's context.  What the rest held is a parameter:
`RamPids` for the pids of slots 1 and up and the father pids of all slots, which
`getPid`, `getPCB` and `haveChildren` compare with whether a slot is in use or
not, and `RamSegs` for the segment registers of slot 0's context, which nothing
ever writes.  `segs` follows these through the contexts: whether the first resume
of slot 0 survives depends on them, and `OnlyFirstResumeFaults` says that nothing
else does.
`scribbled` records the slots in whose first page
`allocProcess` writes a pid through NULL when the table is full; what this does to
the program there is not followed.  (In an actual boot `main.c:111-112` has the
first child call `execve` right after the first fork, so that the programs which
fork are the shell and its children.)

| actions | code |
|---|---|
| `UserStep` | user instructions; the first process only forks and loops (`main.c:110-119`) |
| `ForkChild`, `ForkTableFull`, `ForkNoPid` | `sys_fork` with `allocProcess`, `getPid`, `copyContext` |
| `WaitRefused`, `WaitScan` | `sys_wait` with `haveChildren`, which starts its count at -1 |
| `Exit` | `sys_exit` |
| `Execve` | the part of `sys_execve` that is about contexts |
| `Tick` | `do_timer_handler`, `switchCtx` |
| `UserException` | `general_intr_handler`, which stops the machine |

### OpenFiles, ProcFiles

The actions of `OpenFiles` take the calling process as a parameter.  Of an
offset it keeps whether it has moved.  `ProcFiles` conjoins them with the
actions of `Batch`: `sys_fork` copies descriptors in the step that creates the
job, `sys_exit` closes them in the step that finishes it.  Using `Batch` in the
place of `Process` is justified by the theorem `ProcessImplementsBatch`.

### FileSystem

Block numbers count from the super block, a block holds `BLOCK_SIZE` units, and
a unit of content is the number of the inode that wrote it, or `Item` for a part
of a directory item.  Sizes, offsets and amounts are in units, and sizes wrap
round at `SIZE_MOD` as an `unsigned int` does.  `busy` is the bitmap, `file` the
open entries.  `last` records for the last call whether it reported success,
whether it did what that says, and which inode it took for a directory.

`dir` has the items in the first block of the root directory by the place where
they begin, which need not be a multiple of their size: a descriptor for a
missing name leads to the root, and a write through it gives the root any size.
An item is `"whole"`; `"torn"` once another one was entered across it; `"over"`
when it was itself entered across or in the place of others, whose bytes stay
behind its name.  `Matches`, `Inside` and `InNumber` say where `strmatch` finds a
name: at the beginning of another one, further on in it, or in the bytes of an
inode number (that of `mypro` has a `t` in it on every disk).  A name found at
the beginning of an item leads to its inode; one found elsewhere leads to
whatever the bytes there give, and the model ends (`LeadsAstray`), as it does
when the size of the root makes the search go on behind its first block, or an
item that is `"torn"` or `"over"` comes before what is found for certain.  These
steps are taken as possible whenever the bytes might allow them.

Of a path the model has the last two components (`Paths` shows that no other
matters): the file is looked up by the last, the directory for a new one by the
one before, `""` for none, and both in the root directory.  `Creat` therefore

- enters the new name in the root, if the component before is not found;
- enters it in a block of the directory or file found otherwise, at the place
  that its size tells, whatever its mode: below a regular file this overwrites
  the file's data (`Item`);
- opens what the last component finds in the root, which is the new file only
  in the first case.

`sys_write` takes any amount, as `size < 0` never holds of an `unsigned int`.
What `writeFile` does with it has four cases: it stores the data (`Write`, where
an empty entry of `block_no` sends them to the super block), it takes the end of
the buffer for one before its start and stores nothing, but moves the offset
back (`WriteBack`, an amount that takes the offset round `SIZE_MOD`; no buffer is
assumed to lie in the first `FileUnits` bytes of memory), it refuses, or it is
not called for a directory (`WriteNothing`).  The size grows by the amount in
all of them.

An unwritten inode has whatever size the stack held (`JunkSizes`).  The model
ends (`intact`) when the super block is overwritten or something else than an
inode is taken for one, because later calls interpret other data.  Left out are
further: names that are empty; inode numbers with a byte that is a `/`, which a
component with its separator could match (block 47, which only the 185th file
reaches); and programs of more than one block.  That a transfer succeeds and is done in
one step is what `Sectors` promises as long as nothing is spoiled; what an error
between the inode's and the bitmap's write leaves behind is not modelled.

### Paths

A string is the sequence of its characters up to the NUL.  The operators have
the names of the C functions; a buffer that is not initialised, the one
`strcut` copies into, is a parameter (`held`).  The items of the root directory
are laid out in a block as `struct dir_item` is, the letters in inode numbers
included (`Number`).  `Spelling` gives the names of `FileSystem` characters, and
`PathsMeanTheirEnds` and `MatchIsFirst` say of every root directory that
`FileSystem` reaches in which the items are whole and in place (`Tidy`) that the
walks and matches in it end where `FileSystem` says, for all bounded paths and
names, also where a name is found in the middle of an item.  (TLC works out the
sets of such directories, `WalkedToEnds` and `MatchedFirst`, once.)  In other
directories `FileSystem` lets a name be found or not.  It leaves out, and so does
the first of these properties, components that begin or stand in a name without
being one of `Names`; names as long as their field, and paths and components
longer than the arrays they are copied to, are left out altogether.

### Disk, Sectors

`pc` goes through the port accesses of `k_operatesector`: five registers, the
command, the status until `DRQ`, the words.  The drive is external: it is
ready, executes a command, wants or has data (`drq`), or stores the sector of a
write whose last word it has got.  It ignores registers and commands unless it
is ready.  It may refuse a command, which leaves `DRQ` clear, and fail to store.
That `DRQ` is clear until the drive has or wants data is an assumption about the
drive: ATA leaves the bit open while `BSY` is set, which the driver never tests.
`trouble` remembers what the driver does not: a write to a port that was ignored
(`lost`), a sector that was not stored, a refusal, a lock that was taken at
boot.

`Sectors` is the disk as the file system sees it: sectors that are read and
written at once.  The refinement maps a sector that is being stored to one that
is.  It holds until a write is lost or a sector is not stored, which
`Sectors` calls spoiled.

### AddressSpaces, PageOwners

`ram` is the memory word by word: a word is a link of the free list, an entry
of a directory or table, or data.  A directory, a table and a page have `WORDS`
words each.  What the memory held before, and what files hold, is `AnyWords`;
also the first word of the last page, which `init_memory` never writes and
`alloc_page` would take for the rest of the list.  The model ends when that page
is returned.

`Fork` is `copy_process_mem`: directory, then per region its table and its
pages, each from the free list, and each copied after the ones before it
(`CopyParts`).  The order matters for process 0, whose first table shows the low
end of physical memory, free pages included (`Windows`): its fork fills such a
page as the child's directory or table and copies it afterwards as data.
`Exit` frees the directory and nothing else, as `sys_exit` does; `Execve` is
`free_process_user_mem`, `loadProcess`, and the new stack, in that order, for
programs of any segments (`Programs`) that lie in one region of user space each.
The translation buffer is a choice between old and new page where the image is
read.  Of the pages of a segment only the first is mapped (`process.c:305` steps
too far), and the data of the others go where the entries of the freed table
lead.  All pages of a file are alike.  The model ends after the first execve,
after which lists and tables mean nothing any more.

`SeesNoOther` names the caller: what `p` does, no other live process, 0 among
them, sees in its own memory.  Exempt is an execve of a program of two segments
or of one that is loaded over the stack (`Confined` are the others).  There the
page of one segment may be a table through which the next is loaded, with the
file's bytes taken for entries, which may lead anywhere.  Of process 0 its stack
counts as its own.

`PageOwners` is the same without directories, tables and list: a page is owned
by one process or free, a process is made of free pages, an exit makes one page
free and loses the others.

### Terminal

`video` is the cells of the video memory with the cursor, also the cells below
the screen: `LAST_CURSOR` is one too large and the cursor goes there.  It also
has, as history, the number of rows that the last handler scrolled.  `Key` is the
keyboard handler, with the echo before the buffer as in `handleCode`; scancodes
from 0x3b on are behind the 59 bytes of the keymaps and may give any character.
`PrintMessage` is what a handler prints, in one step because interrupts are off:
the line of the timer, and the messages of `do_page_fault`, which have line feeds
and after which user code goes on.  `ClearScreen` is `sys_clear`.  `offset` and
`status_shift` lie in the BSS and start with what RAM held, except that a
negative `offset` is left out: the first key would be written in front of the
buffer.  The model ends when the cursor leaves the video memory.

## 3. Runs

| run | question | bounds |
|---|---|---|
| `process_table` | safety of the process table, refinement of `Batch`, and that the process in front gets the CPU again and again | 5 slots, pids to 6, four contents of RAM for pids, two for segment registers; `FairSpec` |
| `process_starvation` | *violated*: a child runs although its father lives | 3 slots, pids to 4; `FairSpec` |
| `process_wait_hangs` | *violated*: a caller that waits gets on | as above |
| `open_files` | the file tables in any order of two processes besides the first | 2 descriptors and 2 entries above the standard ones |
| `files_scheduled` | the same under the scheduler | 3 user processes in turn |
| `files_dangling` | *violated*: every open descriptor has an open entry | as above |
| `file_system` | blocks, bitmap, contents, names; what paths mean | 5 blocks (super block, directory, 2 programs; number 5, past the disk, is taken too), 5 inodes (3 taken), 2 blocks of 6 units per file, items of 2 units at 5 places, sizes modulo 13 of which writes reach 0, 3, 5 for the root and 0, 6 for files, 3 names, one open entry; paths of up to 4 characters out of 3 letters and `/`; 119,403 states |
| `write_result` | *violated*: write returns what it wrote | as above, 2 names, two entries |
| `address_spaces` | uses of pages, isolation, copies, refinement of `PageOwners` | 22 pages of 2 words, 18 of them free at first, 6 per process, 3 slots, three programs of one segment or two, two windows; 152,098 states |
| `execve_aliases` | *violated*: allocated pages are unused | as above |
| `terminal` | screen and buffer under keys, messages, clearing | 3 rows of 2 cells, 2 cells below, buffer of 1, messages of up to 3 line feeds, `offset` 0 or past the end at first |
| `disk` | the driver implements `Sectors`; only a sector being stored makes the drive ignore a write; calls return | registers of 1 bit, sectors 1, 2 and 6, 2 words, 3 calls; `FairSpec` |

Why the bounds are enough:

- 5 slots: the first process and four others, so that there is one in front,
  one behind it and more behind that; the table is full after four forks, while
  `PID_MAX` is larger so that failed forks use up the numbers and `getPid`
  wraps around.  States that differ in the contexts of ZOMBIE slots are one
  (`VIEW`): nothing resumes those, and a fork writes a context anew.
  The pids in unwritten slots are zeros, numbers used later on, or no pids at
  all.  The theorems hold for all sizes and contents.
- `open_files`: two processes can hold all entries, so that the table is full
  with entries of both and descriptors inherited from the other; the theorems
  hold for all sizes.
- `file_system`: the two free inodes and two free blocks are used up by two
  `creat`; the root directory goes through every case of `writeDirectory` (fits,
  exactly full, beyond), and with a size of 0, 3 or 5 units also through items
  that are entered in the place of others and across one or two of them; a
  directory or file below it takes an item at the start of its block or, with the
  size of a whole one, in a block that it lacks; a write crosses a
  block border, runs off the end of a file's blocks, makes a size 0 or takes an
  offset round.  The sizes a write may lead to are bounded (`RootSizes`,
  `FileSizes`), the amounts are not.  Names are found at the beginning of
  another one and in a number.
  States that differ in the history `last` are one, and so are the states after
  the model's end, of which nothing is claimed (`VIEW`).  One entry
  suffices to reach every disk: a call is about one entry, and what a second
  one could leave behind is what the first left before it was closed.  The
  theorems hold for any number of entries.  Paths of 4 characters have up to 4
  separators and 2 components with a separator behind.
- `disk`: the requested sectors differ in one byte of the address or in two, so
  that a byte that is lost or sent to the wrong register selects another
  sector.  Three calls are a write, one that may come while its sector is being
  stored, and one that sees the result.  Two words tell a transfer that is one
  word short or long.
- `address_spaces`: two processes are forked, one exits, and a third fork uses
  the directory it gave back; the fork after that does not find enough pages.
  Two words per page give the regions *first* and *stack*, and a
  table word that is not the link word.  One window shows the pages that become
  directory and table of process 0's child, the other a page that becomes the
  copy of another.  Uncleared words and files hold an entry that leads to a
  page of a process.
- `terminal`: the cursor reaches every cell on and below the screen, rows
  scroll, more than once in a message, the buffer is full and empty.  What was
  typed, and how far the last handler scrolled, is left out of the states
  (`VIEW`), as nothing reads it.

`CHECK_DEADLOCK FALSE` is in the runs whose system may stop: a halted or
hanging machine, and the ends of the models named above.

### Fairness

`Process` assumes `WF_vars(Tick)`: the timer chip keeps raising its interrupt,
and while user code runs interrupts are on, so an enabled tick is taken in the
end.  Nothing is assumed of user programs: they may loop for ever.  In the loop
of `sys_wait` interrupts are off and `Tick` is not enabled.

`Disk` assumes `WF_vars(Driver)`, because with interrupts off the CPU executes
nothing else than the driver, and `WF_vars(Drive)`: the drive finishes what it
has begun, with data or with an error.  Callers owe nothing.

All other runs check safety and need no fairness.

### What the violations show

- `process_starvation`: the timer handler takes the first RUNNABLE slot, which
  is the father and process 0 in turn.  The child of a process that does not
  exit never runs.
- `process_wait_hangs`: `sys_wait` loops with interrupts off until a child is a
  zombie, and no child can become one meanwhile.
- `files_dangling`: fork shares table entries without a count; when the father
  exits, the entries are closed and the child's descriptors point to closed
  entries, which the next open takes.
- `write_result`: past the first block of a file `writeFile` allocates a block
  but writes to the number it had read before, 0, which is the super block, and
  `sys_write` returns the amount.  (It also does when nothing is stored at all.)
- `execve_aliases`: the freed page tables stay reachable through the directory;
  the new entry goes into a table on the free list, and the same page is then
  allocated as the stack.

Other places where the models follow the code against its comments, without a
run of their own because they are statements about one assignment or guard:
`creat` puts every name into the same directory item, as the directory's size
is never written back (`syscall.c:230`, `file.c:617`); `getFreeBlock` finds
blocks beyond the disk (`file.c:183-184`); a read at the end of a file counts
one too far (`file.c:705-706`); opening a missing name opens the directory
(`file.c:513`), a file created below anything but the root is never found there
again (`file.c:451`: `strcut` leaves the separator at the end of the component) and names match by prefix (`syscall.c:204, 246`);
`haveChildren` counts from -1 (`process.c:323`); releasing shift has no effect
(`keyboard.c:56`); a character at `LAST_CURSOR` is below the screen, and a line
feed there takes the cursor away from the screen until it is cleared
(`print.c:45-46, 76-83`); `sys_exit` frees one page, not those its comment lists
(`syscall.c:511-513`); the mask of `diskload.c:67` loses the bits of the sector
number that it is about, which no sector of this disk has.

## 4. Proofs

The theorems hold for all values of the constants that the named `ASSUME`s of
the modules admit.  These are what `kernel.h` and the sources settle:

- `Process`: at least two slots, no fewer pids than slots;
- `OpenFiles`: more descriptors than the three standard ones, no fewer entries
  than descriptors; `ProcFiles`: processes are numbers, as fork numbers them;
- `FileSystem`: room for the root directory, the two programs and a block more,
  two blocks per file; two directory items fit in a block; the units of a file
  are fewer than `SIZE_MOD`; the names of the programs are found at the beginning
  of themselves, and `mypro` is found neither in `shell` nor in the number of the
  shell's inode;
- `Paths`: the separator and the NUL are not characters of names, names are not
  empty and shorter than their field; the numbers of inodes may have letters in
  them, each followed by a byte that is none (inode numbers are two 32-bit words
  of which the upper bytes are 0); paths have at most 99 characters; and
  `Matches`, `Inside` and `InNumber` are what they stand for.  (The arrays of
  `file.c` hold paths of 99 characters and components of 19; what a longer one
  overwrites is not modelled.);
- `AddressSpaces`: more pages than those that `init_memory` and process 0 use,
  two words per page or more, and no fewer pages than words (8192 pages of 32
  MB, 1024 words); process 0's first table shows any pages that exist, and
  segments lie within their region;
- `Terminal`: two rows or more and memory below the screen; messages are any
  strings of characters and line feeds, and `offset` starts with any natural
  number;
- `Disk`: a register holds at least one bit, requested sectors fit in three
  registers.

Each invariant is proved the same way: a strengthening that holds at first and
that every action preserves, one lemma per action, and the properties from it.

**ProcessProofs.**  The safety properties are not inductive.  `IInv` adds why
they hold: slot 0 is always alive (`FirstProcess`), slots are taken from the
bottom and never given back (`OccupiedIsPrefix`), so that a child is in a higher
slot than its father (`FathersAreLower`); processes end in slot order
(`ZombiesComeFirst`, `RunsInSlotOrder`), so that a process that waits or exits
has no zombie child, and the reaping branch of `sys_wait` is never taken; pids
identify occupied slots (`PidsIdentifySlots`), so `getPCB` finds the caller;
contexts of RUNNABLE slots are what their programs expect (`ContextsAreSaved`).
Theorems `ProcessTypes`, `ProcessOneRunning`, `ProcessExitHitsCaller`,
`ProcessExitHasSuccessor`, `ProcessResumes`, `ProcessRunsInSlotOrder`,
`ProcessScribbles`, `ProcessSlotsNeverFreed` and `ProcessFirstResumeFaults`
(action properties; the second rests on `SegsAreValid`) and
`ProcessImplementsBatch` (each step of `Process` is a step of `Batch` or a
stutter).

**OpenFilesProofs.**  `IInv` is the conjunction of the properties themselves,
which support each other: that no descriptor points to a standard entry keeps
those open, and that closing a process's descriptors closes exactly the entries
they point to keeps entries from leaking.  Theorems `OpenFilesTypes`,
`OpenFilesNoLeaks`, `OpenFilesPointers`, `OpenFilesClean`,
`OpenFilesStdEntries`.

**ProcFilesProofs.**  `SysInv` takes `IInv` of the tables and adds who runs
(`SchedInv`): the process on the CPU is the first unfinished one, and a child is
behind every process there is, so that inheriting descriptors gives it no say
over them before its father has exited and closed them.  With that
`EntriesBelongToFront` is inductive.  `sys_open` does not look whether it got an
entry; that it always gets one is a counting argument (`TableHasRoom`): the
entries in use are those of one process, which has a free descriptor, and there
are no fewer entries than descriptors.  Theorems
`ProcFilesEntriesBelongToFront`, `ProcFilesOpenReturnsOpenFd`, and
`ProcFilesComposes`: a behaviour of the composition is one of `OpenFiles` and
one of `Batch`, so that the theorems about these hold of it.

**FileSystemProofs.**  `FSInv` is all invariants together and `Kept`: the
reserved blocks are marked, and no item elsewhere than where `init_userpro` put
them names the inode of a program.  None is inductive alone: blocks stay disjoint as
long as the bitmap knows all that are owned, contents stay apart as long as
blocks do, and both need that items and entries name allocated inodes.  What is
said of blocks and contents is claimed while the model goes on (`intact`).  Lemmas say of the
operators what the actions need: `FirstFreeIsFree`, `TouchedInFile` and
`TouchedCovers` (which blocks a transfer goes through), `LookupAllocated`,
`OpenPathIs`, `NameIsEntered`, `WithItemIs`, `StoredIs`.  Theorems `FileSystemTypes`, `FileSystemOwnedAreBusy`,
`FileSystemBlocksDisjoint`, `FileSystemContentIsOwn`,
`FileSystemOnlyAllocatedNamed`, `FileSystemOffsetsAreBacked`,
`FileSystemProgramsStay`, and the action property `FileSystemOnlyWritersChange`.
`FileSystemProgramsStay` says what can be promised: the paths of the programs
lead to them at first, and every call keeps that as long as the root's size
counts their two items, since items are then entered behind them (`FrontStays`).
A write through a descriptor on the root can make the size wrap round to less,
and the next `creat` writes over the shell's item; from a size of two items or
more, a single step loses the programs only by making the size 0, with which
nothing is searched.

**PathsProofs.**  Both properties follow from one fact about the states, that
a tidy root begins with the two programs (`EnteredIsDirectory`, from `FSInv` and
`Named`: where the programs were entered, an item that is still whole is
theirs); the rest is about functions on strings.  A loop is a recursive
function, so each time it is shown that its equation has a solution, and by a
least counterexample that no other does: for `strmatch` (`StrmatchIs`: the
first place in what is left, as long as the last byte is not the first letter
looked for), for the walk of `seekFileInode` (`SeekFileIs`), and for the loop of
`writeDirectory` (`NameEnteredIs`, with a count of the separators gone by).
`SeekStays` says why the walk does not move before the last component: `strcut`
leaves the separator there, and none stands in the block.  `PlacesAre` says that
a name is only ever found within a name or within a number, never across, as
both end in a byte that is no letter, and with `FoundAre` the first place in the
bytes is in the first item of `FileSystem`'s `Found`, at its beginning or not
(`ComponentIs`).  Theorems `PathsMatchFirst` and
`PathsLeadToEnds`.

**TerminalProofs.**  `IInv` is the type and `AheadIsBlank`.  A message is
printed character by character in one step, by the recursive function `Prints`.
That a function with that equation exists, and what holds of it after each
character, is shown by a least counterexample (the library has
well-foundedness of the numbers as a plain fact).  For `TextOnlyMovesUp`
`Follows` relates the screen before and after any number of characters, with the
rows scrolled between them, and is transitive (`FollowsTransitive`), so that a
message may have any number of lines.  Theorems `TerminalTypes`, `TerminalAheadIsBlank`,
`TerminalTextOnlyMovesUp`.

**DiskProofs.**  `DiskInv` says that the drive is never ahead of the driver
(`DriveFollows`) and that both have the same words (`WordsAgree`); and, until a
port write is lost, that the ports written hold the bytes of the sector asked
for (`RegistersHold`) and that a call about to return did what it was asked
(`Served`).  That the drive gets the number back from the three bytes which the
driver shifts and masks out of it is the lemma `BytesOfSector`.  Theorems
`DiskTypes`, `DiskOnlyStoringLoses`, `DiskImplementsSectors` (each step of
driver or drive is a step of `Sectors` or a stutter, for every sector size).

**AddressSpacesProofs.**  `MInv` is the type, in which links and entries lead to
pages, and, until an allocation fails or the first execve, `Separate`: the
free list has an end (`IsList`), and the spaces of the live processes share no
page with it or each other; what process 0's first table shows is no part of
any.  That the list has an end is not in the interface
of `alloc_page`, but without it a fork could take one page for two parts of its
copy.  Lemmas about the list say what pushing (`ListPush`, where the pigeonhole
argument `ListHasRoom` keeps it within the pages) and popping (`ListPop`) do to
it; `RankIs`, that the pages a fork takes are one for each part of its copy;
`CopyPartsAre`, by induction over the parts in their order, what the copies hold
when a part is copied from a page that the same fork has filled before;
`ForkChild`, that walking the child's tables leads to the new pages at its
father's addresses.  For the execve, which goes on with a free list and tables that it
has itself overwritten, only the types are proved (`ExecveInv`); the loops over
tables and entries are handled by `LoopKeeps`.  Theorems `AddressSpacesTypes`,
`AddressSpacesPagesHaveOneUse`, and the action properties
`AddressSpacesForkCopies` and `AddressSpacesCallsAreIsolated`, which is
`SeesNoOther` for forks, exits and stores;
`AddressSpacesImplementsPageOwners` (each step is a `Create`, `Finish` or `Spoil`
of `PageOwners` or a stutter).

Of `SeesNoOther` the part about execve (`Confined`) is only model-checked.
So are `FrontKeepsRunning` and `CallsReturn`, because liveness under fairness is
outside the prover.

The inductive invariants themselves are proved and not listed in a run, except
for their parts that are.

## 5. Not modelled

`PROJECT.json` lists every component with its status.  In short:

- boot (`bootsect.s`, `loader.c`, `read_sector.s`, `entry.c`, `task.c`) is
  straight-line code without interrupts; its result is the initial state of the
  models.  `read_sector.s` waits for the drive before each command, unlike the
  driver of the kernel;
- programming the interrupt controller and filling the IDT is port I/O done
  once; the dispatch is part of `Process`;
- `load_process` and `read_seg` (`diskload.c:12-50`), the bitmap allocator
  (`memory.c:185-375`), `print.s` and `tmp/` are used by nothing;
- `readStdin` (`keyboard.c:127`) cannot be called: no process ever has
  descriptor 0 open, so the shell's reads and writes of descriptors 0 to 2
  return -1;
- after the first execve the memory is not followed: free list and tables mean
  nothing any more (run `execve_aliases`);
- user programs are any sequence of system calls.

A power failure needs no model: the file system is formatted at every boot, so
nothing written earlier is read again.  Interrupts never interleave with a
handler, so the locks are never contended.

Hazards without a property: an error between the two writes of an allocation
(`file.c:118`), as every transfer of `FileSystem` succeeds; the block number past
the end of the disk (`file.c:97`), which is in the model and which no property
mentions; and the shift that stays on (`keyboard.c:56`), a single assignment,
which `Terminal` follows.

## 6. Plan

Built in this order, most important behaviour first: process table and its
proofs; open files and their proofs; their composition; file system; memory;
terminal; disk driver; paths; the proofs of the last five.  Every safety
property of a run is a theorem, but for `SeesNoOther` in an execve.  What could be added is `FileSystem` with the
sectors of an operation written one after the other, so that an error in between
leaves the bitmap and an inode apart, over `Sectors` with its spoiled sectors.
