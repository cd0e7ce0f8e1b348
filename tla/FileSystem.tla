---------------------------- MODULE FileSystem ----------------------------
(***************************************************************************)
(* The file system of file.c as sys_open, sys_creat, sys_read and          *)
(* sys_write use it (syscall.c:24-167, 206-249).  Every call runs with     *)
(* interrupts off and every disk transfer succeeds, so a call is one step. *)
(*                                                                         *)
(* Block numbers count from the super block (0).  A block holds BLOCK_SIZE *)
(* units, and sizes, offsets and amounts are in units (bytes, or anything  *)
(* that a directory item and a block are whole numbers of); sizes wrap     *)
(* round at SIZE_MOD.  A unit of content is the number of the inode that   *)
(* wrote it, 0 once cleared, or a part of a directory item.                *)
(*                                                                         *)
(* Of a path only the last two components matter (module Paths): the file  *)
(* is looked for by the last one, the directory for a new file by the one  *)
(* before, which is "" for a file in the root, and both in the root.       *)
(*                                                                         *)
(* The model ends where the code overwrites the super block, and where a   *)
(* path leads it to what is no inode: what the calls after that take for   *)
(* an inode or for the super block are other data.                         *)
(***************************************************************************)
EXTENDS Integers

CONSTANTS FILE_SYS_BLOCKS,    \* blocks of the file system
          RESERVED,           \* super block, inode and bitmap blocks
          INODES,             \* inodes on the disk
          MAX_BLOCKS_InFILE,  \* entries of inode.block_no
          BLOCK_SIZE,         \* units of a block
          ITEM_UNITS,         \* units of a directory item
          SIZE_MOD,           \* a size is an unsigned int
          Names,              \* file names, "shell" and "mypro" among them
          Matches,            \* <<n, m>>: strmatch finds n at the start of m
          Inside,             \* <<n, m>>: ... further on in m
          InNumber,           \* <<n, i>>: ... in the number of inode i
          JunkSizes,          \* sizes an unwritten inode may have
          Handles,            \* open file entries
          Reads,              \* bound on the amounts read
          RootSizes,          \* bounds on the sizes that writes give to the
          FileSizes           \* root directory and to other files

ASSUME FileSystemAssumption ==
    /\ {FILE_SYS_BLOCKS, RESERVED, INODES, MAX_BLOCKS_InFILE, BLOCK_SIZE,
        ITEM_UNITS, SIZE_MOD} \subseteq Nat \ {0}
    /\ RESERVED + 2 < FILE_SYS_BLOCKS
    /\ 3 <= INODES /\ 2 <= MAX_BLOCKS_InFILE
    /\ 2 * ITEM_UNITS <= BLOCK_SIZE
    /\ MAX_BLOCKS_InFILE * BLOCK_SIZE < SIZE_MOD
    /\ "" \notin Names
    /\ {"shell", "mypro"} \subseteq Names
    /\ <<"shell", "shell">> \in Matches /\ <<"mypro", "mypro">> \in Matches
    /\ <<"mypro", "shell">> \notin Matches \cup Inside
    /\ <<"mypro", 3>> \notin InNumber
    /\ JunkSizes \cup RootSizes \cup FileSizes \subseteq 0 .. SIZE_MOD - 1
    /\ JunkSizes # {} /\ Reads \subseteq 1 .. SIZE_MOD - 1

Root == 1                                   \* inode of the root directory
NoInode == 0
Item == INODES + 1                          \* content: part of an item
Inodes == 1 .. INODES
Indexes == 0 .. MAX_BLOCKS_InFILE - 1
Units == 0 .. BLOCK_SIZE - 1
Positions == 0 .. BLOCK_SIZE - ITEM_UNITS      \* where an item can begin

(***************************************************************************)
(* update_dataBlockBit accepts block_no <= FILE_SYS_BLOCKS, and the search *)
(* for a free bit is not bounded by the size of the file system: the first *)
(* number past the accepted ones is found free for ever.                   *)
(***************************************************************************)
Markable == 0 .. FILE_SYS_BLOCKS
AllBlocks == 0 .. FILE_SYS_BLOCKS + 1

VARIABLES
    freeInode,  \* head of the free inode chain; INODES + 1 when it is empty
    busy,       \* the bitmap: blocks marked BLOCK_BUSY
    inode,      \* the inodes on the disk
    content,    \* the data blocks
    dir,        \* the items in the first block of the root directory
    intact,     \* the super block is one, and what was taken for an inode
    file,       \* the open file entries: inode and offset
    last        \* history: the last call and its outcome

disk == <<freeInode, busy, inode, content, dir, intact>>
vars == <<freeInode, busy, inode, content, dir, intact, file, last>>

Cleared == [u \in Units |-> 0]
NoBlocks == [x \in Indexes |-> 0]
NoItem == [name |-> "", inode |-> NoInode, state |-> "none"]
WholeItem(name, i) == [name |-> name, inode |-> i, state |-> "whole"]
Closed == [inode |-> NoInode, offset |-> 0]

(***************************************************************************)
(* The last call: whether it returned something else than -1, whether it   *)
(* did what that tells its caller, and the inode it took for a directory.  *)
(***************************************************************************)
Did(call, ok, done) ==
    [call |-> call, ok |-> ok, done |-> done, parent |-> NoInode]
Quiet == Did("none", TRUE, TRUE)

-----------------------------------------------------------------------------
(***************************************************************************)
(* init_file: the root directory in the first block after the reserved     *)
(* ones, then the shell and mypro, each one block here.  mypro's inode is  *)
(* allocated first.  The sizes of all inodes but the root's are what the   *)
(* stack held.                                                             *)
(***************************************************************************)
FirstBlock(i) ==
    CASE i = Root -> RESERVED
      [] i = 2    -> RESERVED + 2
      [] i = 3    -> RESERVED + 1
      [] OTHER    -> 0

Init ==
    /\ freeInode = 4
    /\ busy = 0 .. RESERVED + 2
    /\ \E junk \in JunkSizes :
         inode = [i \in Inodes |->
             [mode   |-> IF i = Root THEN "directory" ELSE "regular",
              size   |-> IF i = Root THEN 2 * ITEM_UNITS ELSE junk,
              blocks |-> [NoBlocks EXCEPT ![0] = FirstBlock(i)]]]
    /\ content = [b \in AllBlocks |-> Cleared]
    /\ dir = [p \in Positions |->
                 CASE p = 0          -> WholeItem("shell", 3)
                   [] p = ITEM_UNITS -> WholeItem("mypro", 2)
                   [] OTHER          -> NoItem]
    /\ intact = TRUE
    /\ file = [h \in Handles |-> Closed]
    /\ last = Quiet

-----------------------------------------------------------------------------
Least(S) == CHOOSE x \in S : \A y \in S : x <= y

(***************************************************************************)
(* getFreeBlock: the first clear bit of the bitmap.                        *)
(***************************************************************************)
FirstFreeFromReserved(marked) == RESERVED  \* mutant: bitmap not consulted
FirstFree(marked) == Least(AllBlocks \ marked)

(***************************************************************************)
(* update_dataBlockBit to BLOCK_BUSY.                                      *)
(***************************************************************************)
MarkedNot(marked, b) == marked             \* mutant: bit not written back
Marked(marked, b) == marked \cup ({b} \cap Markable)

(***************************************************************************)
(* An item is "whole" until another one is entered across it, which makes  *)
(* it "torn"; one that is entered across or in the place of another is     *)
(* "over" that one's bytes, which stay behind the NUL of its name.  In the *)
(* bytes of two items anything may be found, and behind the beginning of a *)
(* torn one there may be its inode's number or not.                        *)
(***************************************************************************)
DirSize == inode[Root].size

InPlace(items, p) == items[p].state \in {"whole", "over"}

AtStart(items, name) ==
    {p \in Positions : InPlace(items, p) /\ <<name, items[p].name>> \in Matches}

FurtherOn(items, name) ==
    {p \in Positions : InPlace(items, p)
                       /\ \/ <<name, items[p].name>> \in Inside
                          \/ <<name, items[p].inode>> \in InNumber}

Found(items, name) == AtStart(items, name) \cup FurtherOn(items, name)

FoundItem(items, name) ==
    /\ Found(items, name) # {}
    /\ Least(Found(items, name)) \in AtStart(items, name)

(* Where strmatch may find the name before that.                           *)
Mixed(items, name) ==
    LET found == FoundItem(items, name)
        first == Least(Found(items, name))
    IN  {p \in Positions : /\ items[p].state \in {"over", "torn"}
                           /\ found => p < first}

(***************************************************************************)
(* seekNextInode, in the first block of the root: the inodes a name may    *)
(* lead to.  Without a place the inode of the directory is left, and       *)
(* seekFileInode takes it for the file.  A directory of size 0 has no      *)
(* block, and "" stands for a path that ends at the root.                  *)
(***************************************************************************)
Searched(name) == name # "" /\ 0 < DirSize

Lookup(items, name) ==
    IF ~Searched(name) THEN {Root}
    ELSE (IF FoundItem(items, name)
          THEN {items[Least(Found(items, name))].inode}
          ELSE IF Found(items, name) = {} THEN {Root} ELSE {})
         \cup {items[p].inode : p \in {q \in Mixed(items, name) :
                                          items[q].state = "torn"}}

(***************************************************************************)
(* The name may be found where no item begins, and the bytes there are     *)
(* taken for the number of an inode.  A size of more than one block makes  *)
(* the search go on in what the empty entries of block_no, and the words   *)
(* behind them, lead to.                                                   *)
(***************************************************************************)
LeadsAstray(items, name) ==
    /\ Searched(name)
    /\ \/ Mixed(items, name) # {}
       \/ Found(items, name) # {} /\ ~FoundItem(items, name)
       \/ Found(items, name) = {} /\ BLOCK_SIZE < DirSize

(***************************************************************************)
(* sys_open.  The entry is a closed one; OpenFiles has the choice and the  *)
(* case that there is none.                                                *)
(***************************************************************************)
OpenAt(h, i) == file' = [file EXCEPT ![h] = [inode |-> i, offset |-> 0]]

OpenPath(h, items, name, intactBefore) ==
    \/ /\ \E i \in Lookup(items, name) : OpenAt(h, i)
       /\ intact' = intactBefore
    \/ /\ LeadsAstray(items, name)
       /\ intact' = FALSE
       /\ UNCHANGED file

Open(h, name) ==
    /\ intact /\ file[h] = Closed
    /\ OpenPath(h, dir, name, TRUE)
    /\ last' = Did("open", TRUE, Found(dir, name) # {})
    /\ UNCHANGED <<freeInode, busy, inode, content, dir>>

(***************************************************************************)
(* writeDirectory enters the item for a new file at the end of the         *)
(* directory, as the size in its inode tells it, or at the start of the    *)
(* next block if it does not fit there.  An empty entry of block_no for    *)
(* that block is filled in, but only in the inode's copy in memory.  One   *)
(* that is empty without that, or past the end of block_no, leads to block *)
(* 0 (in the second case this is one of the blocks it may lead to).        *)
(*                                                                         *)
(* Nothing writes the directory's size back, and nothing looks at its      *)
(* mode: a path through a regular file puts the item into its data.        *)
(***************************************************************************)
ItemMovesOn(d) == (inode[d].size % BLOCK_SIZE) + ITEM_UNITS > BLOCK_SIZE

ItemIndex(d) ==
    (inode[d].size \div BLOCK_SIZE) + (IF ItemMovesOn(d) THEN 1 ELSE 0)

ItemOffset(d) == IF ItemMovesOn(d) THEN 0 ELSE inode[d].size % BLOCK_SIZE

BlockAt(i, x) == IF x \in Indexes THEN inode[i].blocks[x] ELSE 0
FirstHole(i) == Least({x \in Indexes : inode[i].blocks[x] = 0})

(* The blocks creat takes: one for the file, and one for the directory.    *)
FileBlock == FirstFree(busy)
DirBlock == FirstFree(Marked(busy, FileBlock))

Extends(d) ==
    ItemMovesOn(d) /\ ItemIndex(d) \in Indexes /\ BlockAt(d, ItemIndex(d)) = 0

ItemBlock(d) ==
    IF Extends(d) /\ FirstHole(d) = ItemIndex(d) THEN DirBlock
    ELSE BlockAt(d, ItemIndex(d))

(* The items an item entered at place "at" is written over.                *)
Across(at) ==
    {p \in Positions : /\ dir[p].state # "none"
                       /\ p < at + ITEM_UNITS /\ at < p + ITEM_UNITS}

Entered(name, i, at) ==
    [p \in Positions |->
        IF p = at THEN [name  |-> name, inode |-> i,
                        state |-> IF Across(at) = {} THEN "whole" ELSE "over"]
        ELSE IF p \in Across(at) THEN [dir[p] EXCEPT !.state = "torn"]
        ELSE dir[p]]

EnterNameAtStart(name, i) == Entered(name, i, 0)      \* mutant: offset lost
EnterName(name, i) ==
    IF ItemIndex(Root) = 0 THEN Entered(name, i, ItemOffset(Root)) ELSE dir

InItem(d) == ItemOffset(d) .. ItemOffset(d) + ITEM_UNITS - 1

(* The data blocks after the allocations and the item.                     *)
WithItem(d) ==
    LET fresh  == {FileBlock} \cup (IF Extends(d) THEN {DirBlock} ELSE {})
        base   == [b \in AllBlocks |-> IF b \in fresh THEN Cleared
                                      ELSE content[b]]
    IN  IF d = Root THEN base
        ELSE [base EXCEPT ![ItemBlock(d)] =
                 [u \in Units |-> IF u \in InItem(d) THEN Item ELSE @[u]]]

(***************************************************************************)
(* sys_creat: take an inode and a block, enter the name in the directory,  *)
(* write the inode, open the path.  Of what seekBaseDirectory does not     *)
(* find, the root is left.                                                 *)
(***************************************************************************)
CreatFails ==
    /\ intact
    /\ freeInode = INODES + 1
    /\ last' = Did("creat", FALSE, FALSE)
    /\ UNCHANGED <<disk, file>>

NextFreeInNextBlock(i) == i + 4             \* mutant: no next_inode_offset
NextFreeStuck(i) == i                       \* mutant: super block not written
NextFree(i) == i + 1

Creat(h, base, name, mode) == \E d \in Lookup(dir, base) :
    /\ intact /\ file[h] = Closed
    /\ freeInode <= INODES
    /\ freeInode' = NextFree(freeInode)
    /\ inode' = [inode EXCEPT
            ![freeInode].blocks = [NoBlocks EXCEPT ![0] = FileBlock],
            ![freeInode].mode = mode]
    /\ busy' = IF Extends(d) THEN Marked(Marked(busy, FileBlock), DirBlock)
               ELSE Marked(busy, FileBlock)
    /\ content' = WithItem(d)
    /\ dir' = IF d = Root THEN EnterName(name, freeInode) ELSE dir
    /\ OpenPath(h, dir', name, ItemBlock(d) # 0)
    /\ last' = [Did("creat", TRUE, Lookup(dir', name) = {freeInode})
                   EXCEPT !.parent = d]

(* The directory for the new file is found where no inode's number is.     *)
CreatAstray(base) ==
    /\ intact /\ freeInode <= INODES
    /\ LeadsAstray(dir, base)
    /\ intact' = FALSE
    /\ last' = Quiet
    /\ UNCHANGED <<freeInode, busy, inode, content, dir, file>>

(***************************************************************************)
(* writeFile, to the units from "off" on.  Blocks that the inode has are   *)
(* written in place.  For an empty entry of block_no a block is allocated, *)
(* but the number read before is used: the data goes to block 0.  Such an  *)
(* entry is always entered at its first unit (OffsetsAreBacked), so the    *)
(* super block is lost.                                                    *)
(***************************************************************************)
FileUnits == MAX_BLOCKS_InFILE * BLOCK_SIZE

EndAt(off, n) == (off + n) % SIZE_MOD

Fits(off, n) == EndAt(off, n) <= FileUnits

Touched(off, n) == off \div BLOCK_SIZE .. (off + n - 1) \div BLOCK_SIZE

Holes(i, off, n) == {x \in Touched(off, n) : inode[i].blocks[x] = 0}

Written(i, off, n) ==
    {x \in Touched(off, n) : \A y \in Holes(i, off, n) : x < y}

Stored(i, off, n) ==
    LET written == Written(i, off, n) IN
    [b \in AllBlocks |-> [u \in Units |->
        IF \E x \in written :
             /\ inode[i].blocks[x] = b
             /\ x * BLOCK_SIZE + u \in off .. off + n - 1
        THEN i ELSE content[b][u]]]

(***************************************************************************)
(* sys_write of n units, any unsigned int: whatever writeFile did, the     *)
(* size grows by n and may wrap round, the inode is written back and n is  *)
(* returned.  The first guard is the bound of the model on sizes.          *)
(***************************************************************************)
SizesOf(i) == IF i = Root THEN RootSizes ELSE FileSizes

NewSize(i, n) == (inode[i].size + n) % SIZE_MOD

Writes(h, n) ==
    LET i == file[h].inode
    IN  intact /\ i # NoInode /\ NewSize(i, n) \in SizesOf(i)

WritesData(h, n) ==
    inode[file[h].inode].mode = "regular" /\ Fits(file[h].offset, n)

WrapsRound(h, n) == SIZE_MOD <= file[h].offset + n

Write(h, n) ==
    LET i   == file[h].inode
        off == file[h].offset
    IN  /\ Writes(h, n) /\ WritesData(h, n) /\ ~WrapsRound(h, n)
        /\ file' = [file EXCEPT ![h].offset = @ + n]
        /\ last' = Did("write", TRUE, Holes(i, off, n) = {})
        /\ IF Holes(i, off, n) = {}
           THEN /\ inode' = [inode EXCEPT ![i].size = NewSize(i, n)]
                /\ content' = Stored(i, off, n)
                /\ UNCHANGED <<busy, intact>>
           ELSE /\ inode' = [inode EXCEPT
                       ![i].size = NewSize(i, n),
                       ![i].blocks[Least(Holes(i, off, n))] = FileBlock]
                /\ content' = [Stored(i, off, n)
                                  EXCEPT ![FileBlock] = Cleared]
                /\ busy' = Marked(busy, FileBlock)
                /\ intact' = FALSE
        /\ UNCHANGED <<freeInode, dir>>

(***************************************************************************)
(* An amount that takes the offset round SIZE_MOD passes the test of the   *)
(* file's length, but takes the end of the buffer before its start (no     *)
(* buffer is in the first FileUnits of memory): nothing is stored, and the *)
(* offset and the size go back.                                            *)
(***************************************************************************)
WriteBack(h, n) ==
    LET i == file[h].inode
    IN  /\ Writes(h, n) /\ WritesData(h, n) /\ WrapsRound(h, n)
        /\ file' = [file EXCEPT ![h].offset = EndAt(@, n)]
        /\ inode' = [inode EXCEPT ![i].size = NewSize(i, n)]
        /\ last' = Did("write", TRUE, FALSE)
        /\ UNCHANGED <<freeInode, busy, content, dir, intact>>

(* A directory, or more than the file can hold: only the size changes.     *)
WriteNothing(h, n) ==
    LET i == file[h].inode
    IN  /\ Writes(h, n) /\ ~WritesData(h, n)
        /\ inode' = [inode EXCEPT ![i].size = NewSize(i, n)]
        /\ last' = Did("write", TRUE, FALSE)
        /\ UNCHANGED <<freeInode, busy, content, dir, intact, file>>

(***************************************************************************)
(* sys_read of n units of a regular file: -1 behind the size and at an     *)
(* empty entry of block_no, else n; or 0, for an amount that takes the end *)
(* of the buffer round the end of memory.  Of the directory: what readSize *)
(* held.                                                                   *)
(***************************************************************************)
ReadableOnDisk(i, off, n) == off <= inode[i].size   \* mutant: no block check
Readable(i, off, n) ==
    /\ off <= inode[i].size
    /\ \A x \in Touched(off, n) : x \in Indexes /\ inode[i].blocks[x] # 0

DidRead(h, ok) ==
    last' = Did("read", ok, file[h].offset < inode[file[h].inode].size)

Read(h, n) ==
    LET i == file[h].inode
    IN  /\ intact /\ i # NoInode
        /\ inode[i].mode = "regular"
        /\ IF Readable(i, file[h].offset, n)
           THEN /\ file' = [file EXCEPT ![h].offset = @ + n]
                /\ DidRead(h, TRUE)
           ELSE /\ DidRead(h, FileUnits < n)
                /\ UNCHANGED file
        /\ UNCHANGED disk

ReadDirectory(h) ==
    /\ intact /\ file[h].inode # NoInode
    /\ inode[file[h].inode].mode = "directory"
    /\ \E junk \in BOOLEAN : DidRead(h, junk)
    /\ UNCHANGED <<disk, file>>

(***************************************************************************)
(* sys_close and sys_exit: delFile.                                        *)
(***************************************************************************)
Close(h) ==
    /\ intact /\ file[h].inode # NoInode
    /\ file' = [file EXCEPT ![h] = Closed]
    /\ last' = Quiet
    /\ UNCHANGED disk

Transfer(h, n) ==
    Write(h, n) \/ WriteBack(h, n) \/ WriteNothing(h, n)

Next ==
    \/ CreatFails
    \/ \E h \in Handles, name \in Names : Open(h, name)
    \/ \E h \in Handles, base \in Names \cup {""}, name \in Names,
          mode \in {"regular", "directory"} : Creat(h, base, name, mode)
    \/ \E base \in Names : CreatAstray(base)
    \/ \E h \in Handles, n \in 1 .. SIZE_MOD - 1 : Transfer(h, n)
    \/ \E h \in Handles, n \in Reads : Read(h, n)
    \/ \E h \in Handles : ReadDirectory(h) \/ Close(h)

Spec == Init /\ [][Next]_vars
-----------------------------------------------------------------------------
Allocated == 1 .. freeInode - 1

(* The blocks of the file system that inode i has.                         *)
BlocksOf(i) ==
    {inode[i].blocks[x] : x \in Indexes} \ {0, FILE_SYS_BLOCKS + 1}

(***************************************************************************)
(* Every variable keeps its type through all calls.                        *)
(***************************************************************************)
TypeOK ==
    /\ freeInode \in 4 .. INODES + 1
    /\ busy \subseteq Markable
    /\ inode \in [Inodes -> [mode   : {"regular", "directory"},
                             size   : 0 .. SIZE_MOD - 1,
                             blocks : [Indexes -> AllBlocks]]]
    /\ content \in [AllBlocks -> [Units -> Inodes \cup {0, Item}]]
    /\ dir \in [Positions -> [name  : Names \cup {""},
                              inode : Inodes \cup {0},
                              state : {"none", "whole", "over", "torn"}]]
    /\ intact \in BOOLEAN
    /\ file \in [Handles -> [inode : Inodes \cup {0}, offset : Nat]]
    /\ last \in [call  : {"none", "open", "creat", "write", "read"},
                 ok    : BOOLEAN,
                 done  : BOOLEAN,
                 parent : Inodes \cup {0}]

(***************************************************************************)
(* allocBlock and update_dataBlockBit together: the bitmap on the disk and *)
(* the block_no entries of the inodes, which the code writes in different  *)
(* sectors at different times, never disagree about a block in use.  (The  *)
(* converse fails: creat loses a block when the directory is full.)        *)
(***************************************************************************)
OwnedAreBusy ==
    intact => \A i \in Allocated : BlocksOf(i) \subseteq busy

(***************************************************************************)
(* No block of the file system belongs to two files, or to a file and the  *)
(* reserved blocks, whatever sequence of creat and write got it there.     *)
(***************************************************************************)
BlocksDisjoint ==
    intact =>
        /\ \A i, j \in Allocated :
              i # j => BlocksOf(i) \cap BlocksOf(j) = {}
        /\ \A i \in Allocated : BlocksOf(i) \cap 0 .. RESERVED - 1 = {}

(***************************************************************************)
(* sys_read never hands out what another file's writer stored: a unit of a *)
(* file's block is as cleared by allocBlock, written through the file's    *)
(* own inode, or an item of a path that went through the file.             *)
(***************************************************************************)
ContentIsOwn ==
    intact => \A i \in Allocated : \A b \in BlocksOf(i) : \A u \in Units :
                    content[b][u] \in {0, i, Item}

(***************************************************************************)
(* The items of the directory and the open file entries, which live longer *)
(* than the call that filled them in, name inodes that were taken off the  *)
(* free chain, so no later creat turns them into another file.  (A torn    *)
(* item names the inode it was entered for.)                               *)
(***************************************************************************)
OnlyAllocatedNamed ==
    /\ \A p \in Positions : IF dir[p].state = "none" THEN dir[p] = NoItem
                           ELSE dir[p].inode \in Allocated
    /\ \A h \in Handles : file[h].inode \in Allocated \cup {NoInode}

(***************************************************************************)
(* writeFile and readFile together never leave the offset of an open file  *)
(* beyond a block the file does not have: a gap can not arise, although    *)
(* the sizes on the disk are not the number of units written.              *)
(***************************************************************************)
OffsetsAreBacked ==
    intact => \A h \in Handles : \A x \in Indexes :
        /\ file[h].inode # NoInode
        /\ inode[file[h].inode].mode = "regular"
        /\ x * BLOCK_SIZE < file[h].offset
        => inode[file[h].inode].blocks[x] # 0

(***************************************************************************)
(* The paths the kernel and the shell use for execve lead to the program   *)
(* images, and whatever users create or write they still do, as long as    *)
(* the size of the root directory counts the two items that init_userpro   *)
(* entered: writeDirectory then enters items only behind them.  (A write   *)
(* through a descriptor on the root can make the size wrap round.)         *)
(***************************************************************************)
LeadsOnlyTo(name, i) == Lookup(dir, name) = {i} /\ ~LeadsAstray(dir, name)

ProgramsFound == LeadsOnlyTo("shell", 3) /\ LeadsOnlyTo("mypro", 2)

ProgramsStay ==
    ProgramsFound /\
    [][ProgramsFound /\ 2 * ITEM_UNITS <= DirSize =>
            ProgramsFound' \/ DirSize' = 0]_vars

(***************************************************************************)
(* A call changes the stored content only of the file it is about: a write *)
(* that of the file its entry is for, a creat that of the file its path    *)
(* goes through (allocBlock clears blocks, writeFile and writeDirectory    *)
(* store into the block_no they read).                                     *)
(***************************************************************************)
View(i) == [x \in Indexes |-> IF inode[i].blocks[x] \in BlocksOf(i)
                              THEN content[inode[i].blocks[x]] ELSE Cleared]

OnlyWritersChange ==
    [][intact' /\ disk' # disk => \A i \in Allocated :
          View(i)' # View(i) =>
              \/ last'.parent = i
              \/ \E h \in Handles : /\ file[h].inode = i
                                    /\ file'[h].offset > file[h].offset]_vars

-----------------------------------------------------------------------------
(* A property stated by a comment of the code that its behaviour contradicts. *)

(***************************************************************************)
(* unistd.h:46, syscall.c:22: write returns the number of bytes written,   *)
(* which are in the file then.                                             *)
(***************************************************************************)
WriteReturnsWritten == last.call = "write" /\ last.ok => last.done
=============================================================================
