-------------------------- MODULE FileSystemProofs --------------------------
(***************************************************************************)
(* Proofs about FileSystem, for any number of blocks, inodes, open entries *)
(* and names, any sizes of blocks and items, sizes and amounts that wrap   *)
(* round anywhere, items that overlap, and any relation strmatch may find  *)
(* between names: the invariants of the bitmap, the inodes, the data       *)
(* blocks, the directory and the open entries, that a call changes no file *)
(* but the one it is about, and how long the programs are found.           *)
(***************************************************************************)
EXTENDS FileSystem, WellFoundedInduction, TLAPS

-----------------------------------------------------------------------------
(***************************************************************************)
(* The assumptions on the constants, in two parts: the numbers, the names. *)
(***************************************************************************)
LEMMA Sizes ==
    /\ FILE_SYS_BLOCKS \in Nat /\ RESERVED \in Nat /\ INODES \in Nat
    /\ MAX_BLOCKS_InFILE \in Nat /\ BLOCK_SIZE \in Nat /\ BLOCK_SIZE # 0
    /\ ITEM_UNITS \in Nat /\ ITEM_UNITS # 0 /\ SIZE_MOD \in Nat
    /\ SIZE_MOD # 0 /\ RESERVED # 0 /\ RESERVED + 2 < FILE_SYS_BLOCKS
    /\ 3 <= INODES /\ 2 <= MAX_BLOCKS_InFILE
    /\ 2 * ITEM_UNITS <= BLOCK_SIZE
    /\ MAX_BLOCKS_InFILE * BLOCK_SIZE < SIZE_MOD
  BY FileSystemAssumption, Zenon

LEMMA SizesUsed ==
    /\ JunkSizes \subseteq 0 .. SIZE_MOD - 1
    /\ Reads \subseteq 1 .. SIZE_MOD - 1
  BY FileSystemAssumption

LEMMA NamesUsed ==
    /\ "" \notin Names /\ "shell" \in Names /\ "mypro" \in Names
    /\ <<"shell", "shell">> \in Matches /\ <<"mypro", "mypro">> \in Matches
    /\ <<"mypro", "shell">> \notin Matches
    /\ <<"mypro", "shell">> \notin Inside
    /\ <<"mypro", 3>> \notin InNumber
  BY FileSystemAssumption, Zenon

(***************************************************************************)
(* The first one of a search exists and is the least: a CHOOSE over a set  *)
(* that need not be finite, by well-foundedness.                           *)
(***************************************************************************)
LEMMA LeastOf ==
    ASSUME NEW S \in SUBSET Nat, S # {}
    PROVE  Least(S) \in S /\ \A y \in S : Least(S) <= y
  <1>1. PICK x \in S : \A y \in S : ~ (<<y, x>> \in OpToRel(<, Nat))
    BY NatLessThanWellFounded, WFMin, Zenon
  <1>2. \A y \in S : x <= y
    <2>. TAKE y \in S
    <2>1. <<y, x>> \notin OpToRel(<, Nat)
      BY <1>1
    <2>2. ~(y < x)
      BY <2>1 DEF OpToRel
    <2>. QED BY <2>2
  <1>. QED BY <1>1, <1>2 DEF Least

(***************************************************************************)
(* getFreeBlock returns a block whose bit is clear, also when none is      *)
(* left: then it is the number behind the last that update_dataBlockBit    *)
(* accepts.                                                                *)
(***************************************************************************)
LEMMA FirstFreeIsFree ==
    ASSUME NEW marked \in SUBSET Markable
    PROVE  FirstFree(marked) \in AllBlocks \ marked
  <1>1. FILE_SYS_BLOCKS + 1 \in AllBlocks \ marked /\ AllBlocks \subseteq Nat
    BY Sizes DEF AllBlocks, Markable
  <1>. QED BY <1>1, LeastOf DEF FirstFree

(***************************************************************************)
(* The blocks creat and write take are not marked as in use.               *)
(***************************************************************************)
LEMMA BlocksTaken ==
    ASSUME busy \subseteq Markable
    PROVE  /\ FileBlock \in AllBlocks \ busy
           /\ DirBlock \in AllBlocks \ busy
  <1>1. /\ Marked(busy, FileBlock) \subseteq Markable
        /\ busy \subseteq Marked(busy, FileBlock)
    BY DEF Marked
  <1>. QED BY <1>1, FirstFreeIsFree DEF FileBlock, DirBlock

(***************************************************************************)
(* seekNextInode followed by seekFileInode ends at the root or at an inode *)
(* that an item names, unless it goes astray.                              *)
(***************************************************************************)
LEMMA LookupIn ==
    ASSUME NEW items, NEW name, NEW S, Root \in S,
           \A p \in Positions : items[p].state # "none" => items[p].inode \in S
    PROVE  Lookup(items, name) \subseteq S
  <1>1. FoundItem(items, name) =>
            items[Least(Found(items, name))].inode \in S
    BY DEF FoundItem, AtStart, InPlace
  <1>2. \A p \in Mixed(items, name) :
            items[p].state = "torn" => items[p].inode \in S
    BY DEF Mixed
  <1>. QED BY <1>1, <1>2 DEF Lookup

(***************************************************************************)
(* A name that is found at the start of an item stays found there as long  *)
(* as this item and those before it stay.                                  *)
(***************************************************************************)
LEMMA StaysFound ==
    ASSUME NEW items, NEW after, NEW name, NEW q \in Positions,
           FoundItem(items, name), Least(Found(items, name)) = q,
           Mixed(items, name) = {},
           \A p \in Positions : p <= q => after[p] = items[p]
    PROVE  /\ FoundItem(after, name) /\ Least(Found(after, name)) = q
           /\ Mixed(after, name) = {}
  <1>1. Positions \subseteq Nat
    BY DEF Positions
  <1>2. /\ q \in AtStart(items, name)
        /\ \A p \in Found(items, name) : q <= p
    <2>1. Found(items, name) \subseteq Nat /\ Found(items, name) # {}
      BY <1>1 DEF Found, AtStart, FurtherOn, FoundItem
    <2>. QED BY <2>1, LeastOf DEF FoundItem
  <1>3. \A p \in Positions : p <= q =>
            /\ p \in AtStart(after, name) <=> p \in AtStart(items, name)
            /\ p \in Found(after, name) <=> p \in Found(items, name)
    BY DEF AtStart, FurtherOn, Found, InPlace
  <1>4. q \in AtStart(after, name) /\ q \in Found(after, name)
    BY <1>1, <1>2, <1>3 DEF Found
  <1>5. Found(after, name) \subseteq Positions
    BY DEF Found, AtStart, FurtherOn
  <1>6. Least(Found(after, name)) = q
    <2>1. /\ Least(Found(after, name)) \in Found(after, name)
          /\ Least(Found(after, name)) <= q
      BY <1>1, <1>4, <1>5, LeastOf
    <2>2. Least(Found(after, name)) \in Found(items, name)
      BY <1>3, <1>5, <2>1
    <2>3. PICK l : l = Least(Found(after, name))
      OBVIOUS
    <2>4. l \in Nat /\ q \in Nat /\ l <= q /\ q <= l
      BY <1>1, <1>2, <1>5, <2>1, <2>2, <2>3
    <2>. QED BY <2>3, <2>4
  <1>7. FoundItem(after, name)
    BY <1>4, <1>6 DEF FoundItem
  <1>8. Mixed(after, name) = {}
    <2>1. ASSUME NEW p \in Mixed(after, name) PROVE FALSE
      <3>1. p \in Positions /\ p < q /\ after[p].state \in {"over", "torn"}
        BY <1>6, <1>7, <2>1 DEF Mixed
      <3>2. items[p].state \in {"over", "torn"}
        BY <1>1, <3>1
      <3>3. p \in Mixed(items, name)
        BY <3>1, <3>2 DEF Mixed
      <3>. QED BY <3>3
    <2>. QED BY <2>1
  <1>. QED BY <1>6, <1>7, <1>8

(***************************************************************************)
(* Division with remainder, where a definition divides.                    *)
(***************************************************************************)
LEMMA DivMod ==
    ASSUME NEW a \in Nat, NEW b \in Nat \ {0}
    PROVE  /\ a \div b \in Nat
           /\ b * (a \div b) <= a
           /\ a < b * (a \div b + 1)
  OBVIOUS

LEMMA ModIs ==
    ASSUME NEW a \in Nat, NEW b \in Nat \ {0}
    PROVE  /\ a % b \in Nat /\ a % b < b
           /\ a < b => a % b = a
           /\ b <= a /\ a < b + b => a % b = a - b
  OBVIOUS

(***************************************************************************)
(* A write that passes the test of its length (file.c) stays inside the    *)
(* entries of block_no.                                                    *)
(***************************************************************************)
LEMMA TouchedInFile ==
    ASSUME NEW off \in Nat, NEW n \in Nat \ {0}, off + n <= FileUnits
    PROVE  Touched(off, n) \subseteq Indexes
  <1>. USE Sizes
  <1>. DEFINE q == (off + n - 1) \div BLOCK_SIZE
  <1>1. /\ q \in Nat /\ BLOCK_SIZE * q <= off + n - 1
        /\ off \div BLOCK_SIZE \in Nat
    BY DivMod
  <1>2. BLOCK_SIZE * q < MAX_BLOCKS_InFILE * BLOCK_SIZE
    BY <1>1 DEF FileUnits
  <1>. HIDE DEF q
  <1>3. q < MAX_BLOCKS_InFILE
    <2>1. q >= MAX_BLOCKS_InFILE =>
            BLOCK_SIZE * MAX_BLOCKS_InFILE <= BLOCK_SIZE * q
      BY <1>1
    <2>. QED BY <1>1, <1>2, <2>1
  <1>. QED BY <1>1, <1>3 DEF Touched, Indexes, q

(***************************************************************************)
(* Every block that begins within the range is one of those the transfer   *)
(* goes through.                                                           *)
(***************************************************************************)
LEMMA TouchedCovers ==
    ASSUME NEW off \in Nat, NEW n \in Nat \ {0}, NEW x \in Nat,
           off <= x * BLOCK_SIZE, x * BLOCK_SIZE < off + n
    PROVE  x \in Touched(off, n)
  <1>. USE Sizes
  <1>. DEFINE p == off \div BLOCK_SIZE
              q == (off + n - 1) \div BLOCK_SIZE
  <1>1. p \in Nat /\ BLOCK_SIZE * p <= off
    BY DivMod
  <1>2. q \in Nat /\ off + n - 1 < BLOCK_SIZE * (q + 1)
    BY DivMod
  <1>. HIDE DEF p, q
  <1>3. p <= x
    <2>1. p > x => BLOCK_SIZE * (x + 1) <= BLOCK_SIZE * p
      BY <1>1
    <2>. QED BY <1>1, <2>1
  <1>4. x <= q
    <2>1. x > q => BLOCK_SIZE * (q + 1) <= BLOCK_SIZE * x
      BY <1>2
    <2>. QED BY <1>2, <2>1
  <1>. QED BY <1>1, <1>2, <1>3, <1>4 DEF Touched, p, q

(***************************************************************************)
(* The end of a transfer, as an unsigned int: itself, or before its start. *)
(***************************************************************************)
LEMMA EndIs ==
    ASSUME NEW off \in Nat, NEW n \in 1 .. SIZE_MOD - 1
    PROVE  /\ EndAt(off, n) \in Nat
           /\ off + n < SIZE_MOD => EndAt(off, n) = off + n
           /\ SIZE_MOD <= off + n => EndAt(off, n) < off
  <1>. DEFINE a == off + n
  <1>. USE Sizes
  <1>1. /\ a % SIZE_MOD \in Nat /\ a % SIZE_MOD < SIZE_MOD
        /\ a < SIZE_MOD => a % SIZE_MOD = a
        /\ SIZE_MOD <= a /\ a < SIZE_MOD + SIZE_MOD
             => a % SIZE_MOD = a - SIZE_MOD
    BY ModIs
  <1>2. SIZE_MOD <= a => a % SIZE_MOD < off
    <2>1. CASE SIZE_MOD <= off
      BY <1>1, <2>1
    <2>2. CASE off < SIZE_MOD
      BY <1>1, <2>2
    <2>. QED BY <2>1, <2>2
  <1>. QED BY <1>1, <1>2 DEF EndAt

LEMMA SizeIs ==
    ASSUME NEW i, NEW n \in Nat, inode[i].size \in Nat
    PROVE  NewSize(i, n) \in 0 .. SIZE_MOD - 1
  BY Sizes DEF NewSize

-----------------------------------------------------------------------------
(***************************************************************************)
(* What the other invariants rest on: the reserved blocks stay marked, so  *)
(* that none of them is given away, and the inodes of the programs are in  *)
(* no item but those that init_userpro entered.                            *)
(***************************************************************************)
Kept ==
    /\ 0 .. RESERVED - 1 \subseteq busy
    /\ \A p \in Positions : /\ dir[p].inode = 3 => p = 0
                            /\ dir[p].inode = 2 => p = ITEM_UNITS

(***************************************************************************)
(* The parts of the types, by name.                                        *)
(***************************************************************************)
Modes == {"regular", "directory"}

Inode == [mode : {"regular", "directory"}, size : 0 .. SIZE_MOD - 1,
          blocks : [Indexes -> AllBlocks]]

DirItem == [name  : Names \cup {""}, inode : Inodes \cup {0},
            state : {"none", "whole", "over", "torn"}]

(***************************************************************************)
(* The inductive invariant. No part of it is inductive alone: that blocks  *)
(* stay disjoint needs the bitmap to know all owned blocks, that contents  *)
(* stay separate needs disjointness, and both need that open entries and   *)
(* items name allocated inodes only.                                       *)
(***************************************************************************)
FSInv ==
    /\ TypeOK
    /\ Kept
    /\ OwnedAreBusy
    /\ BlocksDisjoint
    /\ ContentIsOwn
    /\ OnlyAllocatedNamed
    /\ OffsetsAreBacked

(***************************************************************************)
(* Which of the sets are made of numbers, and which members they have for  *)
(* certain.                                                                *)
(***************************************************************************)
LEMMA Numbers ==
    /\ Inodes \subseteq Nat /\ Positions \subseteq Nat /\ Indexes \subseteq Nat
    /\ Units \subseteq Nat /\ AllBlocks \subseteq Nat
    /\ Markable \subseteq AllBlocks
    /\ {1, 2, 3} \subseteq Inodes
    /\ {0, ITEM_UNITS} \subseteq Positions /\ {0, 1} \subseteq Indexes
    /\ 0 \in AllBlocks /\ 0 \in Units
  BY Sizes DEF Inodes, Positions, Indexes, Units, AllBlocks, Markable

(***************************************************************************)
(* The invariant holds on the disk that init_file leaves.                  *)
(***************************************************************************)
LEMMA InitInv == Init => FSInv
  <1>. SUFFICES ASSUME Init PROVE FSInv
    OBVIOUS
  <1>0. /\ freeInode = 4 /\ busy = 0 .. RESERVED + 2 /\ intact = TRUE
        /\ file = [h \in Handles |-> Closed] /\ last = Quiet
        /\ content = [b \in AllBlocks |-> Cleared]
    BY Zenon DEF Init
  <1>. USE Sizes, Numbers
  <1>1. \A i \in Inodes : FirstBlock(i) \in AllBlocks
    BY DEF FirstBlock, Root, AllBlocks, Inodes
  <1>2. PICK junk \in JunkSizes :
          inode = [i \in Inodes |->
             [mode   |-> IF i = Root THEN "directory" ELSE "regular",
              size   |-> IF i = Root THEN 2 * ITEM_UNITS ELSE junk,
              blocks |-> [NoBlocks EXCEPT ![0] = FirstBlock(i)]]]
    BY DEF Init
  <1>3. junk \in 0 .. SIZE_MOD - 1 /\ 2 * ITEM_UNITS \in 0 .. SIZE_MOD - 1
    <2>1. BLOCK_SIZE <= MAX_BLOCKS_InFILE * BLOCK_SIZE
      OBVIOUS
    <2>2. junk \in 0 .. SIZE_MOD - 1
      BY SizesUsed
    <2>. QED BY <2>1, <2>2
  <1>4. inode \in [Inodes -> Inode]
    <2>1. \A i \in Inodes :
            [NoBlocks EXCEPT ![0] = FirstBlock(i)] \in [Indexes -> AllBlocks]
      BY <1>1 DEF NoBlocks
    <2>. QED BY <1>2, <1>3, <2>1 DEF Inode
  <1>5. content \in [AllBlocks -> [Units -> Inodes \cup {0, Item}]]
    BY <1>0 DEF Cleared
  <1>6. /\ dir \in [Positions -> DirItem]
        /\ \A p \in Positions :
              \/ p = 0 /\ dir[p] = WholeItem("shell", 3)
              \/ p = ITEM_UNITS /\ dir[p] = WholeItem("mypro", 2)
              \/ p # 0 /\ p # ITEM_UNITS /\ dir[p] = NoItem
    <2>1. dir = [p \in Positions |-> CASE p = 0 -> WholeItem("shell", 3)
                                       [] p = ITEM_UNITS ->
                                            WholeItem("mypro", 2)
                                       [] OTHER -> NoItem]
      BY DEF Init
    <2>2. /\ WholeItem("shell", 3) \in DirItem
          /\ WholeItem("mypro", 2) \in DirItem /\ NoItem \in DirItem
      BY NamesUsed DEF WholeItem, NoItem, NoInode, DirItem
    <2>3. \A p \in Positions :
              \/ p = 0 /\ dir[p] = WholeItem("shell", 3)
              \/ p = ITEM_UNITS /\ dir[p] = WholeItem("mypro", 2)
              \/ p # 0 /\ p # ITEM_UNITS /\ dir[p] = NoItem
      BY <2>1
    <2>. HIDE DEF DirItem
    <2>4. \A p \in Positions : dir[p] \in DirItem
      BY <2>2, <2>3
    <2>. QED BY <2>1, <2>3, <2>4
  <1>7. TypeOK
    <2>1. /\ freeInode \in 4 .. INODES + 1 /\ busy \subseteq Markable
          /\ intact \in BOOLEAN
      BY <1>0 DEF Markable
    <2>2. file \in [Handles -> [inode : Inodes \cup {0}, offset : Nat]]
      BY <1>0 DEF Closed, NoInode
    <2>3. last \in [call  : {"none", "open", "creat", "write", "read"},
                   ok : BOOLEAN, done : BOOLEAN, parent : Inodes \cup {0}]
      BY <1>0 DEF Quiet, Did, NoInode
    <2>. QED BY <1>4, <1>5, <1>6, <2>1, <2>2, <2>3
             DEF TypeOK, Inode, DirItem
  <1>8. Kept
    <2>1. 0 .. RESERVED - 1 \subseteq busy
      BY <1>0
    <2>2. ASSUME NEW p \in Positions
          PROVE  /\ dir[p].inode = 3 => p = 0
                 /\ dir[p].inode = 2 => p = ITEM_UNITS
      <3>1. /\ WholeItem("shell", 3).inode = 3
            /\ WholeItem("mypro", 2).inode = 2 /\ NoItem.inode = 0
        BY DEF WholeItem, NoItem, NoInode
      <3>2. dir[p].inode = 3 => p = 0
        BY <1>6, <3>1
      <3>3. dir[p].inode = 2 => p = ITEM_UNITS
        BY <1>6, <3>1
      <3>. QED BY <3>2, <3>3
    <2>. QED BY <2>1, <2>2 DEF Kept
  <1>9. /\ Allocated = 1 .. 3
        /\ \A i \in Allocated : BlocksOf(i) \subseteq {FirstBlock(i)}
    <2>1. Allocated = 1 .. 3 /\ 1 .. 3 \subseteq Inodes
      BY <1>0 DEF Allocated, Inodes
    <2>2. ASSUME NEW i \in Inodes, NEW x \in Indexes
          PROVE  inode[i].blocks[x] \in {0, FirstBlock(i)}
      <3>1. inode[i].blocks = [NoBlocks EXCEPT ![0] = FirstBlock(i)]
        BY <1>2
      <3>. QED BY <3>1 DEF NoBlocks
    <2>3. \A i \in Inodes : BlocksOf(i) \subseteq {FirstBlock(i)}
      BY <2>2 DEF BlocksOf
    <2>. QED BY <2>1, <2>3
  <1>10. OwnedAreBusy
    <2>1. \A i \in 1 .. 3 : FirstBlock(i) \in 0 .. RESERVED + 2
      BY DEF FirstBlock, Root
    <2>. QED BY <1>0, <1>9, <2>1 DEF OwnedAreBusy
  <1>11. BlocksDisjoint
    <2>1. \A i \in 1 .. 3 : FirstBlock(i) \notin 0 .. RESERVED - 1
      BY DEF FirstBlock, Root
    <2>2. \A i, j \in 1 .. 3 : i # j => FirstBlock(i) # FirstBlock(j)
      BY DEF FirstBlock, Root
    <2>. QED BY <1>9, <2>1, <2>2 DEF BlocksDisjoint
  <1>12. ContentIsOwn
    <2>1. \A i \in Allocated : BlocksOf(i) \subseteq AllBlocks
      BY <1>1, <1>9 DEF Inodes
    <2>2. \A b \in AllBlocks, u \in Units : content[b][u] = 0
      BY <1>0 DEF Cleared
    <2>. QED BY <2>1, <2>2 DEF ContentIsOwn
  <1>13. OnlyAllocatedNamed
    <2>1. Allocated = 1 .. 3
      BY <1>0 DEF Allocated
    <2>2. \A p \in Positions : IF dir[p].state = "none" THEN dir[p] = NoItem
                               ELSE dir[p].inode \in {2, 3}
      <3>1. /\ WholeItem("shell", 3).inode = 3
            /\ WholeItem("shell", 3).state = "whole"
            /\ WholeItem("mypro", 2).inode = 2
            /\ WholeItem("mypro", 2).state = "whole"
        BY DEF WholeItem
      <3>2. NoItem.state = "none"
        BY DEF NoItem
      <3>. QED BY <1>6, <3>1, <3>2
    <2>3. \A h \in Handles : file[h].inode = NoInode
      BY <1>0 DEF Closed
    <2>4. {2, 3} \subseteq Allocated
      BY <2>1
    <2>. QED BY <2>2, <2>3, <2>4 DEF OnlyAllocatedNamed
  <1>14. OffsetsAreBacked
    BY <1>0 DEF OffsetsAreBacked, Closed
  <1>. QED BY <1>7, <1>8, <1>10, <1>11, <1>12, <1>13, <1>14 DEF FSInv

-----------------------------------------------------------------------------
(***************************************************************************)
(* What a call that writes nothing to the disk keeps of the invariant.     *)
(***************************************************************************)
LEMMA DiskKept ==
    ASSUME FSInv, UNCHANGED <<freeInode, busy, inode, content, dir>>,
           intact' => intact
    PROVE  /\ Kept' /\ OwnedAreBusy' /\ BlocksDisjoint' /\ ContentIsOwn'
           /\ Allocated' = Allocated
  <1>. USE DEF FSInv
  <1>1. Allocated' = Allocated
    BY DEF Allocated
  <1>2. \A i : BlocksOf(i)' = BlocksOf(i)
    BY DEF BlocksOf
  <1>3. Kept'
    BY DEF Kept
  <1>4. OwnedAreBusy' /\ BlocksDisjoint'
    BY <1>1, <1>2 DEF OwnedAreBusy, BlocksDisjoint
  <1>5. ContentIsOwn'
    BY <1>1, <1>2 DEF ContentIsOwn
  <1>. QED BY <1>1, <1>3, <1>4, <1>5

(***************************************************************************)
(* Inodes that were taken off the chain, and what a path can lead to.      *)
(***************************************************************************)
LEMMA AllocatedAreInodes ==
    ASSUME FSInv
    PROVE  /\ Allocated \subseteq Inodes /\ NoInode \notin Allocated
           /\ Root \in Allocated
  <1>1. freeInode \in 4 .. INODES + 1
    BY DEF FSInv, TypeOK
  <1>. QED BY <1>1, Sizes DEF Allocated, Inodes, NoInode, Root

LEMMA LookupAllocated ==
    ASSUME FSInv, NEW name
    PROVE  Lookup(dir, name) \subseteq Allocated
  <1>1. Root \in Allocated
    BY AllocatedAreInodes
  <1>2. \A p \in Positions :
            dir[p].state # "none" => dir[p].inode \in Allocated
    BY DEF FSInv, OnlyAllocatedNamed
  <1>. QED BY <1>1, <1>2, LookupIn

(***************************************************************************)
(* The open entries after a path was opened.                               *)
(***************************************************************************)
LEMMA OpenPathIs ==
    ASSUME FSInv, NEW h \in Handles, NEW items, NEW name, NEW before,
           NEW S \in SUBSET Inodes, Lookup(items, name) \subseteq S,
           OpenPath(h, items, name, before)
    PROVE  /\ file' \in [Handles -> [inode : Inodes \cup {0}, offset : Nat]]
           /\ \A g \in Handles : \/ file'[g] = file[g]
                                 \/ file'[g].inode \in S /\ file'[g].offset = 0
           /\ intact' \in {before, FALSE}
  <1>1. CASE file' = file /\ intact' = FALSE
    BY <1>1 DEF FSInv, TypeOK
  <1>2. CASE intact' = before /\ \E i \in Lookup(items, name) : OpenAt(h, i)
    <2>1. PICK i \in S :
            file' = [file EXCEPT ![h] = [inode |-> i, offset |-> 0]]
      BY <1>2 DEF OpenAt
    <2>. DEFINE entry == [inode |-> i, offset |-> 0]
    <2>2. /\ entry \in [inode : Inodes \cup {0}, offset : Nat]
          /\ entry.inode \in S /\ entry.offset = 0
      OBVIOUS
    <2>3. file' = [file EXCEPT ![h] = entry]
      BY <2>1
    <2>. HIDE DEF entry
    <2>. QED BY <1>2, <2>2, <2>3 DEF FSInv, TypeOK
  <1>. QED BY <1>1, <1>2 DEF OpenPath

(***************************************************************************)
(* The calls that only change open entries, or nothing: open, a failing    *)
(* creat, close; and a creat that goes astray.                             *)
(***************************************************************************)
LEMMA OpenInv ==
    ASSUME FSInv, NEW h \in Handles, NEW name \in Names, Open(h, name)
    PROVE  FSInv'
  <1>1. /\ UNCHANGED <<freeInode, busy, inode, content, dir>>
        /\ intact /\ intact' \in BOOLEAN
        /\ last' = Did("open", TRUE, Found(dir, name) # {})
        /\ OpenPath(h, dir, name, TRUE)
    BY DEF Open, OpenPath
  <1>2. Allocated \in SUBSET Inodes /\ Lookup(dir, name) \subseteq Allocated
    BY LookupAllocated, AllocatedAreInodes
  <1>3. /\ file' \in [Handles -> [inode : Inodes \cup {0}, offset : Nat]]
        /\ \A g \in Handles :
              \/ file'[g] = file[g]
              \/ file'[g].inode \in Allocated /\ file'[g].offset = 0
    BY <1>1, <1>2, OpenPathIs
  <1>4. TypeOK'
    BY <1>1, <1>3 DEF FSInv, TypeOK, Did, NoInode
  <1>5. OnlyAllocatedNamed'
    BY <1>1, <1>3, DiskKept DEF FSInv, OnlyAllocatedNamed
  <1>6. OffsetsAreBacked'
    <2>1. \A x \in Indexes : ~(x * BLOCK_SIZE < 0)
      BY Numbers, Sizes
    <2>. QED BY <1>1, <1>3, <2>1 DEF FSInv, OffsetsAreBacked
  <1>. QED BY <1>1, <1>4, <1>5, <1>6, DiskKept DEF FSInv

LEMMA CreatAstrayInv ==
    ASSUME FSInv, NEW base, CreatAstray(base)
    PROVE  FSInv'
  <1>1. /\ UNCHANGED <<freeInode, busy, inode, content, dir, file>>
        /\ intact' = FALSE /\ last' = Quiet
    BY DEF CreatAstray
  <1>2. TypeOK'
    BY <1>1 DEF FSInv, TypeOK, Quiet, Did, NoInode
  <1>3. OnlyAllocatedNamed' /\ OffsetsAreBacked'
    BY <1>1, DiskKept DEF FSInv, OnlyAllocatedNamed, OffsetsAreBacked
  <1>. QED BY <1>1, <1>2, <1>3, DiskKept DEF FSInv

LEMMA CreatFailsInv ==
    ASSUME FSInv, CreatFails
    PROVE  FSInv'
  <1>1. UNCHANGED disk /\ file' = file /\ last' = Did("creat", FALSE, FALSE)
    BY DEF CreatFails
  <1>2. TypeOK'
    BY <1>1 DEF FSInv, TypeOK, disk, Did, NoInode
  <1>3. OnlyAllocatedNamed' /\ OffsetsAreBacked'
    BY <1>1, DiskKept DEF FSInv, OnlyAllocatedNamed, OffsetsAreBacked, disk
  <1>. QED BY <1>1, <1>2, <1>3, DiskKept DEF FSInv, disk

LEMMA CloseInv ==
    ASSUME FSInv, NEW h \in Handles, Close(h)
    PROVE  FSInv'
  <1>1. UNCHANGED disk /\ file' = [file EXCEPT ![h] = Closed] /\ last' = Quiet
    BY DEF Close
  <1>2. TypeOK'
    BY <1>1 DEF FSInv, TypeOK, disk, Quiet, Did, NoInode, Closed
  <1>3. \A g \in Handles : file'[g] = file[g] \/ file'[g].inode = NoInode
    BY <1>1 DEF FSInv, TypeOK, Closed
  <1>4. OnlyAllocatedNamed'
    BY <1>1, <1>3, DiskKept DEF FSInv, OnlyAllocatedNamed, disk
  <1>5. OffsetsAreBacked'
    BY <1>1, <1>3 DEF FSInv, OffsetsAreBacked, disk
  <1>. QED BY <1>1, <1>2, <1>4, <1>5, DiskKept DEF FSInv, disk

Outcome == [call : {"none", "open", "creat", "write", "read"},
            ok : BOOLEAN, done : BOOLEAN, parent : Inodes \cup {0}]

(***************************************************************************)
(* The types of the history and of the open entries after a call.          *)
(***************************************************************************)
LEMMA OutcomeType ==
    ASSUME NEW call \in {"none", "open", "creat", "write", "read"},
           NEW ok \in BOOLEAN, NEW finished \in BOOLEAN
    PROVE  Did(call, ok, finished) \in Outcome
  BY DEF Did, Outcome, NoInode

LEMMA DidReadType ==
    ASSUME NEW h \in Handles, NEW ok \in BOOLEAN, DidRead(h, ok)
    PROVE  last' \in Outcome
  <1>1. (file[h].offset < inode[file[h].inode].size) \in BOOLEAN
    OBVIOUS
  <1>. QED BY <1>1, OutcomeType DEF DidRead

LEMMA FileType ==
    ASSUME FSInv, NEW h \in Handles, NEW o \in Nat
    PROVE  LET moved == [file EXCEPT ![h].offset = o]
           IN  /\ moved \in
                     [Handles -> [inode : Inodes \cup {0}, offset : Nat]]
               /\ moved[h].inode = file[h].inode /\ moved[h].offset = o
               /\ \A g \in Handles \ {h} : moved[g] = file[g]
               /\ \A g \in Handles : moved[g].inode = file[g].inode
  <1>. DEFINE moved == [file EXCEPT ![h].offset = o]
              Entry == [inode : Inodes \cup {0}, offset : Nat]
  <1>1. file \in [Handles -> Entry]
    BY DEF FSInv, TypeOK
  <1>2. /\ moved[h] = [file[h] EXCEPT !.offset = o]
        /\ \A g \in Handles \ {h} : moved[g] = file[g]
    BY <1>1
  <1>3. moved[h] \in Entry /\ moved[h].inode = file[h].inode
        /\ moved[h].offset = o
    BY <1>1, <1>2
  <1>4. moved \in [Handles -> Entry]
    BY <1>1, <1>2, <1>3
  <1>. QED BY <1>2, <1>3, <1>4

(***************************************************************************)
(* Reading a directory moves nothing; reading a file moves the offset.     *)
(***************************************************************************)
LEMMA ReadDirectoryInv ==
    ASSUME FSInv, NEW h \in Handles, ReadDirectory(h)
    PROVE  FSInv'
  <1>1. UNCHANGED disk /\ file' = file
    BY DEF ReadDirectory
  <1>2. PICK junk \in BOOLEAN : DidRead(h, junk)
    BY DEF ReadDirectory
  <1>3. TypeOK'
    BY <1>1, <1>2, DidReadType DEF FSInv, TypeOK, disk, Outcome
  <1>4. OnlyAllocatedNamed' /\ OffsetsAreBacked'
    BY <1>1, DiskKept DEF FSInv, OnlyAllocatedNamed, OffsetsAreBacked, disk
  <1>. QED BY <1>1, <1>3, <1>4, DiskKept DEF FSInv, disk

(***************************************************************************)
(* An entry in use is for an allocated inode.                              *)
(***************************************************************************)
LEMMA OpenEntry ==
    ASSUME FSInv, NEW h \in Handles, file[h].inode # NoInode
    PROVE  /\ file[h].inode \in Allocated /\ file[h].inode \in Inodes
           /\ file[h].offset \in Nat
           /\ inode[file[h].inode] \in Inode
  <1>1. file[h].inode \in Allocated /\ file[h].inode \in Inodes
    BY AllocatedAreInodes DEF FSInv, OnlyAllocatedNamed
  <1>. QED BY <1>1 DEF FSInv, TypeOK, Inode

(***************************************************************************)
(* A transfer through blocks the file has leaves no block it has not       *)
(* before the new offset.                                                  *)
(***************************************************************************)
LEMMA OffsetStaysBacked ==
    ASSUME FSInv, intact, NEW h \in Handles, NEW n \in Nat \ {0},
           NEW i, i = file[h].inode, i # NoInode, inode[i].mode = "regular",
           \A x \in Touched(file[h].offset, n) : inode[i].blocks[x] # 0
    PROVE  \A x \in Indexes : x * BLOCK_SIZE < file[h].offset + n
                                => inode[i].blocks[x] # 0
  <1>. TAKE x \in Indexes
  <1>. HAVE x * BLOCK_SIZE < file[h].offset + n
  <1>1. file[h].offset \in Nat /\ x \in Nat /\ x * BLOCK_SIZE \in Nat
    BY OpenEntry, Numbers, Sizes
  <1>2. CASE x * BLOCK_SIZE < file[h].offset
    BY <1>2 DEF FSInv, OffsetsAreBacked
  <1>3. CASE file[h].offset <= x * BLOCK_SIZE
    BY <1>1, <1>3, TouchedCovers
  <1>. QED BY <1>1, <1>2, <1>3

LEMMA ReadInv ==
    ASSUME FSInv, NEW h \in Handles, NEW n \in Reads, Read(h, n)
    PROVE  FSInv'
  <1>. DEFINE i == file[h].inode
              off == file[h].offset
  <1>1. intact /\ i # NoInode /\ inode[i].mode = "regular" /\ UNCHANGED disk
    BY DEF Read
  <1>2. PICK ok \in BOOLEAN : DidRead(h, ok)
    <2>1. (FileUnits < n) \in BOOLEAN
      OBVIOUS
    <2>. QED BY <2>1 DEF Read
  <1>3. off \in Nat /\ off + n \in Nat /\ n \in Nat \ {0}
    <2>1. n \in 1 .. SIZE_MOD - 1
      BY SizesUsed
    <2>. QED BY <1>1, <2>1, OpenEntry
  <1>4. \/ file' = file
        \/ /\ file' = [file EXCEPT ![h].offset = off + n]
           /\ Readable(i, off, n)
    BY DEF Read
  <1>5. /\ file' \in [Handles -> [inode : Inodes \cup {0}, offset : Nat]]
        /\ \A g \in Handles : file'[g].inode = file[g].inode
    <2>1. CASE file' = file
      BY <2>1 DEF FSInv, TypeOK
    <2>2. CASE file' = [file EXCEPT ![h].offset = off + n]
      <3>. HIDE DEF off
      <3>. QED BY <1>3, <2>2, FileType
    <2>. QED BY <1>4, <2>1, <2>2
  <1>6. TypeOK'
    <2>. QED BY <1>1, <1>2, <1>5, DidReadType DEF FSInv, TypeOK, disk, Outcome
  <1>7. OnlyAllocatedNamed'
    <2>. QED BY <1>1, <1>5, DiskKept DEF FSInv, OnlyAllocatedNamed, disk
  <1>8. OffsetsAreBacked'
    <2>1. CASE file' = file
      BY <1>1, <2>1 DEF FSInv, OffsetsAreBacked, disk
    <2>2. CASE /\ file' = [file EXCEPT ![h].offset = off + n]
               /\ Readable(i, off, n)
      <3>1. \A x \in Indexes :
              x * BLOCK_SIZE < off + n => inode[i].blocks[x] # 0
        BY <1>1, <1>3, <2>2, OffsetStaysBacked DEF Readable
      <3>2. /\ file'[h].inode = i /\ file'[h].offset = off + n
            /\ \A g \in Handles \ {h} : file'[g] = file[g]
        BY <1>3, <2>2, FileType
      <3>. QED BY <1>1, <3>1, <3>2 DEF FSInv, OffsetsAreBacked, disk
    <2>. QED BY <1>4, <2>1, <2>2
  <1>. QED BY <1>1, <1>6, <1>7, <1>8, DiskKept DEF FSInv, disk

(***************************************************************************)
(* The inodes after sys_write has added to one size.                       *)
(***************************************************************************)
LEMMA SizeChanges ==
    ASSUME FSInv, NEW i \in Inodes, NEW size \in 0 .. SIZE_MOD - 1
    PROVE  LET grown == [inode EXCEPT ![i].size = size]
           IN  /\ grown \in [Inodes -> Inode]
               /\ \A j \in Inodes : /\ grown[j].blocks = inode[j].blocks
                                     /\ grown[j].mode = inode[j].mode
  <1>. DEFINE grown == [inode EXCEPT ![i].size = size]
  <1>1. inode \in [Inodes -> Inode]
    BY DEF FSInv, TypeOK, Inode
  <1>2. \A j \in Inodes : grown[j] =
            IF j = i THEN [inode[i] EXCEPT !.size = size] ELSE inode[j]
    BY <1>1
  <1>3. \A j \in Inodes : grown[j] \in Inode
    BY <1>1, <1>2 DEF Inode
  <1>4. \A j \in Inodes : /\ grown[j].blocks = inode[j].blocks
                           /\ grown[j].mode = inode[j].mode
    BY <1>1, <1>2 DEF Inode
  <1>5. grown \in [Inodes -> Inode]
    BY <1>1, <1>3
  <1>. QED BY <1>4, <1>5

(***************************************************************************)
(* An entry that a write is made through, and the size it leaves.          *)
(***************************************************************************)
LEMMA Writing ==
    ASSUME FSInv, NEW h \in Handles, NEW n \in 1 .. SIZE_MOD - 1, Writes(h, n)
    PROVE  /\ intact /\ file[h].inode # NoInode
           /\ file[h].inode \in Allocated /\ file[h].inode \in Inodes
           /\ file[h].offset \in Nat
           /\ NewSize(file[h].inode, n) \in 0 .. SIZE_MOD - 1
  <1>1. /\ intact /\ file[h].inode # NoInode
        /\ file[h].inode \in Allocated /\ file[h].inode \in Inodes
        /\ file[h].offset \in Nat /\ inode[file[h].inode] \in Inode
    BY OpenEntry DEF Writes
  <1>2. inode[file[h].inode].size \in Nat /\ n \in Nat
    BY <1>1, Sizes DEF Inode
  <1>. QED BY <1>1, <1>2, SizeIs

LEMMA BlocksKept ==
    ASSUME NEW j, inode'[j].blocks = inode[j].blocks
    PROVE  BlocksOf(j)' = BlocksOf(j)
  BY DEF BlocksOf

-----------------------------------------------------------------------------
(***************************************************************************)
(* The ways through sys_write: nothing is stored, the blocks are all       *)
(* there, or one has to be allocated and the super block is overwritten.   *)
(***************************************************************************)
LEMMA OnlySizeInv ==
    ASSUME FSInv, NEW i \in Inodes, NEW size \in 0 .. SIZE_MOD - 1,
           inode' = [inode EXCEPT ![i].size = size],
           UNCHANGED <<freeInode, busy, content, dir, intact>>,
           file' \in [Handles -> [inode : Inodes \cup {0}, offset : Nat]],
           \A g \in Handles : /\ file'[g].inode = file[g].inode
                             /\ file'[g].offset <= file[g].offset,
           last' \in Outcome
    PROVE  FSInv'
  <1>1. /\ inode' \in [Inodes -> Inode]
        /\ \A j \in Inodes : /\ inode'[j].blocks = inode[j].blocks
                              /\ inode'[j].mode = inode[j].mode
    BY SizeChanges
  <1>2. TypeOK'
    BY <1>1 DEF FSInv, TypeOK, Inode, Outcome
  <1>3. Allocated' = Allocated /\ Allocated \subseteq Inodes
    BY AllocatedAreInodes DEF Allocated
  <1>4. \A j \in Allocated : BlocksOf(j)' = BlocksOf(j)
    BY <1>1, <1>3, BlocksKept
  <1>5. Kept'
    BY DEF FSInv, Kept
  <1>6. OwnedAreBusy' /\ BlocksDisjoint' /\ ContentIsOwn'
    BY <1>3, <1>4 DEF FSInv, OwnedAreBusy, BlocksDisjoint, ContentIsOwn
  <1>7. OnlyAllocatedNamed'
    BY <1>3 DEF FSInv, OnlyAllocatedNamed
  <1>8. OffsetsAreBacked'
    <2>1. \A g \in Handles :
            file[g].inode # NoInode => file[g].inode \in Inodes
      BY OpenEntry
    <2>2. \A g \in Handles, x \in Indexes :
            x * BLOCK_SIZE < file'[g].offset => x * BLOCK_SIZE < file[g].offset
      <3>1. \A g \in Handles : file'[g].offset \in Nat /\ file[g].offset \in Nat
        BY DEF FSInv, TypeOK
      <3>2. \A x \in Indexes : x * BLOCK_SIZE \in Nat
        BY Numbers, Sizes
      <3>3. \A a, b, c \in Nat : a < b /\ b <= c => a < c
        OBVIOUS
      <3>. QED BY <3>1, <3>2, <3>3
    <2>. QED BY <1>1, <2>1, <2>2 DEF FSInv, OffsetsAreBacked
  <1>. QED BY <1>2, <1>5, <1>6, <1>7, <1>8 DEF FSInv

LEMMA WriteNothingInv ==
    ASSUME FSInv, NEW h \in Handles, NEW n \in 1 .. SIZE_MOD - 1,
           WriteNothing(h, n)
    PROVE  FSInv'
  <1>1. /\ Writes(h, n)
        /\ inode' = [inode EXCEPT ![file[h].inode].size =
                                    NewSize(file[h].inode, n)]
        /\ last' = Did("write", TRUE, FALSE)
        /\ UNCHANGED <<freeInode, busy, content, dir, intact, file>>
    BY DEF WriteNothing
  <1>2. /\ file[h].inode \in Inodes
        /\ NewSize(file[h].inode, n) \in 0 .. SIZE_MOD - 1
    BY <1>1, Writing
  <1>3. last' \in Outcome
    BY <1>1, OutcomeType
  <1>4. /\ file' \in [Handles -> [inode : Inodes \cup {0}, offset : Nat]]
        /\ \A g \in Handles : /\ file'[g].inode = file[g].inode
                              /\ file'[g].offset <= file[g].offset
    <2>1. file \in [Handles -> [inode : Inodes \cup {0}, offset : Nat]]
      BY DEF FSInv, TypeOK
    <2>2. \A g \in Handles : file[g].offset \in Nat
      BY <2>1
    <2>3. \A a \in Nat : a <= a
      OBVIOUS
    <2>. QED BY <1>1, <2>1, <2>2, <2>3
  <1>. QED BY <1>1, <1>2, <1>3, <1>4, OnlySizeInv

LEMMA WriteBackInv ==
    ASSUME FSInv, NEW h \in Handles, NEW n \in 1 .. SIZE_MOD - 1,
           WriteBack(h, n)
    PROVE  FSInv'
  <1>. DEFINE off == file[h].offset
              end == EndAt(off, n)
  <1>1. /\ Writes(h, n) /\ SIZE_MOD <= off + n
        /\ file' = [file EXCEPT ![h].offset = end]
        /\ inode' = [inode EXCEPT ![file[h].inode].size =
                                    NewSize(file[h].inode, n)]
        /\ last' = Did("write", TRUE, FALSE)
        /\ UNCHANGED <<freeInode, busy, content, dir, intact>>
    BY DEF WriteBack, WrapsRound
  <1>2. /\ file[h].inode \in Inodes /\ off \in Nat
        /\ NewSize(file[h].inode, n) \in 0 .. SIZE_MOD - 1
    BY <1>1, Writing
  <1>3. last' \in Outcome
    BY <1>1, OutcomeType
  <1>4. end \in Nat /\ end <= off
    BY <1>1, <1>2, EndIs
  <1>. HIDE DEF end
  <1>5. /\ file' \in [Handles -> [inode : Inodes \cup {0}, offset : Nat]]
        /\ file'[h].inode = file[h].inode /\ file'[h].offset = end
        /\ \A g \in Handles \ {h} : file'[g] = file[g]
    BY <1>1, <1>4, FileType
  <1>6. \A g \in Handles : /\ file'[g].inode = file[g].inode
                           /\ file'[g].offset <= file[g].offset
    <2>1. \A g \in Handles : file[g].offset \in Nat
      BY DEF FSInv, TypeOK
    <2>. QED BY <1>4, <1>5, <2>1
  <1>. QED BY <1>1, <1>2, <1>3, <1>5, <1>6, OnlySizeInv

(***************************************************************************)
(* The data blocks after writeFile: only blocks of the inode are           *)
(* different, and they hold its number where they are.                     *)
(***************************************************************************)
LEMMA StoredIs ==
    ASSUME FSInv, NEW i \in Inodes, NEW off \in Nat,
           NEW n \in Nat \ {0}, off + n <= FileUnits
    PROVE  LET after == Stored(i, off, n)
           IN  /\ after \in [AllBlocks -> [Units -> Inodes \cup {0, Item}]]
               /\ \A b \in AllBlocks, u \in Units :
                     after[b][u] \in {i, content[b][u]}
               /\ \A b \in AllBlocks :
                     (\A x \in Indexes : inode[i].blocks[x] # b)
                       => after[b] = content[b]
  <1>. DEFINE after == Stored(i, off, n)
  <1>1. content \in [AllBlocks -> [Units -> Inodes \cup {0, Item}]]
    BY DEF FSInv, TypeOK
  <1>2. Written(i, off, n) \subseteq Indexes
    BY TouchedInFile DEF Written
  <1>3. after = [b \in AllBlocks |-> [u \in Units |->
                   IF \E x \in Written(i, off, n) :
                         /\ inode[i].blocks[x] = b
                         /\ x * BLOCK_SIZE + u \in off .. off + n - 1
                   THEN i ELSE content[b][u]]]
    BY DEF Stored
  <1>. HIDE DEF after
  <1>4. \A b \in AllBlocks, u \in Units : after[b][u] \in {i, content[b][u]}
    BY <1>3
  <1>5. after \in [AllBlocks -> [Units -> Inodes \cup {0, Item}]]
    BY <1>1, <1>3
  <1>6. ASSUME NEW b \in AllBlocks, \A x \in Indexes : inode[i].blocks[x] # b
        PROVE  after[b] = content[b]
    <2>1. after[b] = [u \in Units |-> content[b][u]]
      BY <1>2, <1>3, <1>6
    <2>. QED BY <1>1, <2>1
  <1>7. \A b \in AllBlocks :
            (\A x \in Indexes : inode[i].blocks[x] # b)
              => after[b] = content[b]
    BY <1>6
  <1>. QED BY <1>4, <1>5, <1>7 DEF after

LEMMA WriteGoes ==
    ASSUME FSInv, NEW h \in Handles, NEW n \in 1 .. SIZE_MOD - 1, Write(h, n)
    PROVE  /\ intact /\ file[h].inode # NoInode
           /\ file[h].inode \in Allocated /\ file[h].inode \in Inodes
           /\ inode[file[h].inode].mode = "regular"
           /\ file[h].offset \in Nat /\ n \in Nat \ {0}
           /\ file[h].offset + n <= FileUnits
           /\ NewSize(file[h].inode, n) \in 0 .. SIZE_MOD - 1
  <1>. DEFINE off == file[h].offset
  <1>1. /\ Writes(h, n) /\ inode[file[h].inode].mode = "regular"
        /\ EndAt(off, n) <= FileUnits /\ ~(SIZE_MOD <= off + n)
    BY DEF Write, WritesData, WrapsRound, Fits
  <1>2. off \in Nat /\ n \in Nat \ {0}
    BY <1>1, Writing
  <1>3. off + n < SIZE_MOD
    BY <1>1, <1>2, Sizes
  <1>4. EndAt(off, n) = off + n
    BY <1>2, <1>3, EndIs
  <1>. QED BY <1>1, <1>2, <1>4, Writing

LEMMA WriteInPlaceInv ==
    ASSUME FSInv, NEW h \in Handles, NEW n \in 1 .. SIZE_MOD - 1,
           Write(h, n), Holes(file[h].inode, file[h].offset, n) = {}
    PROVE  FSInv'
  <1>. DEFINE i == file[h].inode
              off == file[h].offset
              size == NewSize(i, n)
  <1>1. /\ intact /\ i # NoInode /\ inode[i].mode = "regular"
        /\ file' = [file EXCEPT ![h].offset = @ + n]
        /\ inode' = [inode EXCEPT ![i].size = size]
        /\ content' = Stored(i, off, n)
        /\ UNCHANGED <<freeInode, busy, dir, intact>>
        /\ last' = Did("write", TRUE, TRUE)
    BY WriteGoes DEF Write
  <1>2. /\ i \in Allocated /\ i \in Inodes /\ off \in Nat
        /\ n \in Nat \ {0} /\ off + n <= FileUnits
        /\ size \in 0 .. SIZE_MOD - 1
    BY WriteGoes
  <1>. HIDE DEF size
  <1>3. /\ inode' \in [Inodes -> Inode]
        /\ \A j \in Inodes : /\ inode'[j].blocks = inode[j].blocks
                              /\ inode'[j].mode = inode[j].mode
    BY <1>1, <1>2, SizeChanges
  <1>4. /\ content' \in [AllBlocks -> [Units -> Inodes \cup {0, Item}]]
        /\ \A b \in AllBlocks, u \in Units :
              content'[b][u] \in {i, content[b][u]}
        /\ \A b \in AllBlocks :
              (\A x \in Indexes : inode[i].blocks[x] # b)
                => content'[b] = content[b]
    <2>1. content' = Stored(i, off, n)
      BY <1>1
    <2>. HIDE DEF i, off
    <2>. QED BY <1>2, <2>1, StoredIs
  <1>5. /\ file' \in [Handles -> [inode : Inodes \cup {0}, offset : Nat]]
        /\ file'[h].inode = i /\ file'[h].offset = off + n
        /\ \A g \in Handles \ {h} : file'[g] = file[g]
        /\ \A g \in Handles : file'[g].inode = file[g].inode
    <2>1. file' = [file EXCEPT ![h].offset = off + n] /\ off + n \in Nat
      BY <1>1, <1>2
    <2>. HIDE DEF off
    <2>. QED BY <2>1, FileType
  <1>6. \A x \in Touched(off, n) : inode[i].blocks[x] # 0
    BY DEF Holes
  <1>7. \A x \in Indexes : x * BLOCK_SIZE < off + n => inode[i].blocks[x] # 0
    BY <1>1, <1>2, <1>6, OffsetStaysBacked
  <1>. HIDE DEF i, off
  <1>8. TypeOK'
    BY <1>1, <1>3, <1>4, <1>5, OutcomeType DEF FSInv, TypeOK, Inode, Outcome
  <1>9. Allocated' = Allocated /\ Allocated \subseteq Inodes
    BY <1>1, AllocatedAreInodes DEF Allocated
  <1>10. \A j \in Allocated : BlocksOf(j)' = BlocksOf(j)
    BY <1>3, <1>9, BlocksKept
  <1>11. Kept'
    BY <1>1 DEF FSInv, Kept
  <1>12. OwnedAreBusy' /\ BlocksDisjoint'
    BY <1>1, <1>9, <1>10 DEF FSInv, OwnedAreBusy, BlocksDisjoint
  <1>13. ContentIsOwn'
    <2>1. ASSUME NEW j \in Allocated, NEW b \in BlocksOf(j), NEW u \in Units
          PROVE  content'[b][u] \in {0, j, Item}
      <3>1. b \in AllBlocks
        <4>1. inode[j].blocks \in [Indexes -> AllBlocks]
          BY <1>9 DEF FSInv, TypeOK
        <4>. QED BY <4>1 DEF BlocksOf
      <3>2. content[b][u] \in {0, j, Item}
        BY <1>1 DEF FSInv, ContentIsOwn
      <3>3. CASE j = i
        BY <1>4, <3>1, <3>2, <3>3
      <3>4. CASE j # i
        <4>1. b \notin BlocksOf(i) /\ b # 0 /\ b # FILE_SYS_BLOCKS + 1
          BY <1>1, <1>2, <3>4 DEF FSInv, BlocksDisjoint, BlocksOf
        <4>2. \A x \in Indexes : inode[i].blocks[x] # b
          BY <4>1 DEF BlocksOf
        <4>. QED BY <1>4, <3>1, <3>2, <4>2
      <3>. QED BY <3>3, <3>4
    <2>. QED BY <1>9, <1>10, <2>1 DEF ContentIsOwn
  <1>14. OnlyAllocatedNamed'
    BY <1>1, <1>5, <1>9 DEF FSInv, OnlyAllocatedNamed
  <1>15. OffsetsAreBacked'
    <2>1. \A g \in Handles :
            file[g].inode # NoInode => file[g].inode \in Inodes
      BY OpenEntry
    <2>. QED BY <1>1, <1>3, <1>5, <1>7, <2>1 DEF FSInv, OffsetsAreBacked
  <1>. QED BY <1>8, <1>11, <1>12, <1>13, <1>14, <1>15 DEF FSInv

(***************************************************************************)
(* The inodes after an empty entry of block_no was filled in as well.      *)
(***************************************************************************)
LEMMA BlockEntered ==
    ASSUME FSInv, NEW i \in Inodes, NEW size \in 0 .. SIZE_MOD - 1,
           NEW y \in Indexes,
           NEW b \in AllBlocks
    PROVE  LET grown == [inode EXCEPT ![i].size = size, ![i].blocks[y] = b]
           IN  grown \in [Inodes -> Inode]
  <1>. DEFINE grown == [inode EXCEPT ![i].size = size, ![i].blocks[y] = b]
  <1>1. inode \in [Inodes -> Inode]
    BY DEF FSInv, TypeOK, Inode
  <1>2. \A j \in Inodes : grown[j] =
            IF j = i THEN [inode[i] EXCEPT !.size = size, !.blocks[y] = b]
            ELSE inode[j]
    BY <1>1
  <1>. HIDE DEF grown
  <1>3. \A j \in Inodes : grown[j] \in Inode
    <2>. TAKE j \in Inodes
    <2>1. inode[j] \in Inode
      BY <1>1
    <2>2. CASE j # i
      BY <1>2, <2>1, <2>2 DEF Inode
    <2>3. CASE j = i
      <3>1. [inode[j].blocks EXCEPT ![y] = b] \in [Indexes -> AllBlocks]
        BY <2>1 DEF Inode
      <3>2. grown[j] = [mode   |-> inode[j].mode,
                        size   |-> size,
                        blocks |-> [inode[j].blocks EXCEPT ![y] = b]]
        BY <1>2, <2>1, <2>3 DEF Inode
      <3>. QED BY <2>1, <3>1, <3>2 DEF Inode
    <2>. QED BY <2>2, <2>3
  <1>. QED BY <1>1, <1>3 DEF grown

LEMMA WriteHoleInv ==
    ASSUME FSInv, NEW h \in Handles, NEW n \in 1 .. SIZE_MOD - 1,
           Write(h, n), Holes(file[h].inode, file[h].offset, n) # {}
    PROVE  FSInv'
  <1>. DEFINE i == file[h].inode
              off == file[h].offset
              y == Least(Holes(i, off, n))
              size == NewSize(i, n)
  <1>1. /\ intact /\ i # NoInode
        /\ file' = [file EXCEPT ![h].offset = @ + n]
        /\ inode' =
             [inode EXCEPT ![i].size = size, ![i].blocks[y] = FileBlock]
        /\ content' = [Stored(i, off, n) EXCEPT ![FileBlock] = Cleared]
        /\ busy' = Marked(busy, FileBlock)
        /\ intact' = FALSE
        /\ UNCHANGED <<freeInode, dir>>
        /\ last' = Did("write", TRUE, FALSE)
    BY WriteGoes DEF Write
  <1>2. /\ i \in Allocated /\ i \in Inodes /\ off \in Nat
        /\ n \in Nat \ {0} /\ off + n <= FileUnits
        /\ size \in 0 .. SIZE_MOD - 1
    BY WriteGoes
  <1>3. y \in Indexes
    <2>1. Holes(i, off, n) \subseteq Indexes
      BY <1>1, <1>2, TouchedInFile DEF Holes
    <2>. QED BY <2>1, LeastOf, Numbers
  <1>4. FileBlock \in AllBlocks
    BY BlocksTaken DEF FSInv, TypeOK
  <1>5. Stored(i, off, n) \in [AllBlocks -> [Units -> Inodes \cup {0, Item}]]
    BY <1>1, <1>2, StoredIs
  <1>6. /\ file' \in [Handles -> [inode : Inodes \cup {0}, offset : Nat]]
        /\ \A g \in Handles : file'[g].inode = file[g].inode
    <2>1. file' = [file EXCEPT ![h].offset = off + n] /\ off + n \in Nat
      BY <1>1, <1>2
    <2>. HIDE DEF off
    <2>. QED BY <2>1, FileType
  <1>. HIDE DEF i, off, y, size
  <1>7. inode' \in [Inodes -> Inode]
    BY <1>1, <1>2, <1>3, <1>4, BlockEntered
  <1>8. TypeOK'
    <2>1. content' \in [AllBlocks -> [Units -> Inodes \cup {0, Item}]]
      BY <1>1, <1>4, <1>5 DEF Cleared
    <2>2. busy' \subseteq Markable
      BY <1>1 DEF FSInv, TypeOK, Marked
    <2>. QED BY <1>1, <1>6, <1>7, <2>1, <2>2, OutcomeType
             DEF FSInv, TypeOK, Inode, Outcome
  <1>9. Kept'
    <2>1. busy \subseteq busy'
      BY <1>1 DEF Marked
    <2>. QED BY <1>1, <2>1 DEF FSInv, Kept
  <1>10. OnlyAllocatedNamed'
    BY <1>1, <1>6 DEF FSInv, OnlyAllocatedNamed, Allocated
  <1>11. OwnedAreBusy' /\ BlocksDisjoint' /\ ContentIsOwn' /\ OffsetsAreBacked'
    BY <1>1 DEF OwnedAreBusy, BlocksDisjoint, ContentIsOwn, OffsetsAreBacked
  <1>. QED BY <1>8, <1>9, <1>10, <1>11 DEF FSInv

-----------------------------------------------------------------------------
(***************************************************************************)
(* Where writeDirectory puts the item: a block just taken, block 0, or a   *)
(* block of the directory.                                                 *)
(***************************************************************************)
LEMMA ItemBlockIs ==
    ASSUME FSInv, NEW d \in Inodes
    PROVE  /\ ItemBlock(d) \in AllBlocks
           /\ \/ ItemBlock(d) \in {DirBlock, 0}
              \/ \E x \in Indexes : ItemBlock(d) = inode[d].blocks[x]
  <1>1. DirBlock \in AllBlocks /\ 0 \in AllBlocks
    BY BlocksTaken, Numbers DEF FSInv, TypeOK
  <1>2. \A x \in Indexes : inode[d].blocks[x] \in AllBlocks
    <2>1. inode[d].blocks \in [Indexes -> AllBlocks]
      BY DEF FSInv, TypeOK
    <2>. QED BY <2>1
  <1>3. \A x : \/ BlockAt(d, x) = 0
              \/ \E z \in Indexes : BlockAt(d, x) = inode[d].blocks[z]
    BY DEF BlockAt
  <1>. QED BY <1>1, <1>2, <1>3 DEF ItemBlock

(***************************************************************************)
(* The data blocks after creat: of the blocks in use before, only the one  *)
(* that takes the item is different, and no file's units appear anywhere.  *)
(***************************************************************************)
LEMMA WithItemIs ==
    ASSUME FSInv, NEW d \in Inodes
    PROVE  LET after == WithItem(d)
           IN  /\ after \in [AllBlocks -> [Units -> Inodes \cup {0, Item}]]
               /\ \A b \in AllBlocks, u \in Units :
                     after[b][u] \in {content[b][u], 0, Item}
               /\ \A u \in Units : after[FileBlock][u] \in {0, Item}
               /\ \A b \in busy \cap AllBlocks :
                     d = Root \/ b # ItemBlock(d) => after[b] = content[b]
  <1>. DEFINE fresh == {FileBlock} \cup (IF Extends(d) THEN {DirBlock} ELSE {})
              start == [b \in AllBlocks |-> IF b \in fresh THEN Cleared
                                            ELSE content[b]]
              Overlay(b) == [u \in Units |-> IF u \in InItem(d) THEN Item
                                             ELSE start[b][u]]
              after == WithItem(d)
  <1>1. /\ content \in [AllBlocks -> [Units -> Inodes \cup {0, Item}]]
        /\ Cleared \in [Units -> Inodes \cup {0, Item}]
    BY DEF FSInv, TypeOK, Cleared
  <1>2. /\ start \in [AllBlocks -> [Units -> Inodes \cup {0, Item}]]
        /\ \A b \in AllBlocks : start[b] \in {Cleared, content[b]}
    BY <1>1
  <1>3. FileBlock \in AllBlocks \ busy /\ DirBlock \in AllBlocks \ busy
    BY BlocksTaken DEF FSInv, TypeOK
  <1>4. start[FileBlock] = Cleared
    BY <1>3
  <1>5. \A b \in busy \cap AllBlocks : start[b] = content[b]
    BY <1>3
  <1>6. ItemBlock(d) \in AllBlocks
    BY ItemBlockIs
  <1>7. after = IF d = Root THEN start
                ELSE [start EXCEPT ![ItemBlock(d)] =
                        [u \in Units |->
                           IF u \in InItem(d) THEN Item ELSE @[u]]]
    BY DEF WithItem
  <1>. HIDE DEF start, after
  <1>8. \A b \in AllBlocks :
            after[b] = IF d # Root /\ b = ItemBlock(d) THEN Overlay(b)
                       ELSE start[b]
    BY <1>2, <1>6, <1>7
  <1>9. \A b \in AllBlocks, u \in Units : after[b][u] \in {start[b][u], Item}
    BY <1>8
  <1>10. \A u \in Units : Cleared[u] = 0
    BY DEF Cleared
  <1>11. after \in [AllBlocks -> [Units -> Inodes \cup {0, Item}]]
    <2>1. \A b \in AllBlocks : Overlay(b) \in [Units -> Inodes \cup {0, Item}]
      BY <1>2
    <2>. QED BY <1>2, <1>6, <1>7, <2>1
  <1>12. \A b \in AllBlocks, u \in Units :
            after[b][u] \in {content[b][u], 0, Item}
    BY <1>2, <1>9, <1>10
  <1>13. \A u \in Units : after[FileBlock][u] \in {0, Item}
    BY <1>3, <1>4, <1>9, <1>10
  <1>14. \A b \in busy \cap AllBlocks :
            d = Root \/ b # ItemBlock(d) => after[b] = content[b]
    BY <1>5, <1>8
  <1>. QED BY <1>11, <1>12, <1>13, <1>14 DEF after

(***************************************************************************)
(* The items after creat: each is the one before, perhaps torn, or the one *)
(* entered.                                                                *)
(***************************************************************************)
LEMMA NameIsEntered ==
    ASSUME FSInv, NEW name \in Names, NEW f \in Inodes
    PROVE  LET after == EnterName(name, f)
           IN  /\ after \in [Positions -> DirItem]
               /\ \A p \in Positions :
                     \/ after[p] = dir[p]
                     \/ after[p].inode = f /\ after[p].state # "none"
                     \/ /\ after[p].inode = dir[p].inode
                        /\ dir[p].state # "none" /\ after[p].state = "torn"
  <1>1. dir \in [Positions -> DirItem]
    BY DEF FSInv, TypeOK, DirItem
  <1>2. CASE EnterName(name, f) = dir
    BY <1>1, <1>2
  <1>3. ASSUME NEW at, EnterName(name, f) = Entered(name, f, at)
        PROVE  LET after == EnterName(name, f)
               IN  /\ after \in [Positions -> DirItem]
                   /\ \A p \in Positions :
                         \/ after[p] = dir[p]
                         \/ after[p].inode = f /\ after[p].state # "none"
                         \/ /\ after[p].inode = dir[p].inode
                            /\ dir[p].state # "none"
                            /\ after[p].state = "torn"
    <2>. DEFINE new  == [name |-> name, inode |-> f,
                         state |-> IF Across(at) = {} THEN "whole" ELSE "over"]
                torn(p) == [dir[p] EXCEPT !.state = "torn"]
                after == EnterName(name, f)
    <2>1. after = [p \in Positions |-> IF p = at THEN new
                                       ELSE IF p \in Across(at) THEN torn(p)
                                       ELSE dir[p]]
      BY <1>3 DEF Entered
    <2>2. new \in DirItem /\ new.inode = f /\ new.state # "none"
      BY DEF DirItem
    <2>3. \A p \in Positions : /\ torn(p) \in DirItem
                              /\ torn(p).inode = dir[p].inode
                              /\ torn(p).state = "torn"
      BY <1>1 DEF DirItem
    <2>4. \A p \in Across(at) : dir[p].state # "none"
      BY DEF Across
    <2>. HIDE DEF new, torn, after
    <2>5. ASSUME NEW p \in Positions
          PROVE  \/ after[p] = dir[p]
                 \/ after[p] = new
                 \/ after[p] = torn(p) /\ p \in Across(at)
      BY <2>1
    <2>6. after \in [Positions -> DirItem]
      BY <1>1, <2>1, <2>2, <2>3
    <2>7. \A p \in Positions :
              \/ after[p] = dir[p]
              \/ after[p].inode = f /\ after[p].state # "none"
              \/ /\ after[p].inode = dir[p].inode
                 /\ dir[p].state # "none" /\ after[p].state = "torn"
      BY <2>2, <2>3, <2>4, <2>5
    <2>. QED BY <2>6, <2>7 DEF after
  <1>. QED BY <1>2, <1>3 DEF EnterName

(***************************************************************************)
(* sys_creat. The new inode gets a block nobody has, the bitmap marks it   *)
(* before the call ends, and what its path is opened to is an allocated    *)
(* inode even if another name is found first.                              *)
(***************************************************************************)
LEMMA CreatInv ==
    ASSUME FSInv, NEW h \in Handles, NEW base, NEW name \in Names,
           NEW mode \in Modes, Creat(h, base, name, mode)
    PROVE  FSInv'
  <1>. PICK f : f = freeInode
    OBVIOUS
  <1>1. PICK d \in Lookup(dir, base) :
        /\ intact /\ freeInode <= INODES
        /\ freeInode' = freeInode + 1
        /\ inode' = [inode EXCEPT
                ![f].blocks = [NoBlocks EXCEPT ![0] = FileBlock],
                ![f].mode = mode]
        /\ busy' = IF Extends(d) THEN Marked(Marked(busy, FileBlock), DirBlock)
                   ELSE Marked(busy, FileBlock)
        /\ content' = WithItem(d)
        /\ dir' = IF d = Root THEN EnterName(name, f) ELSE dir
        /\ OpenPath(h, dir', name, ItemBlock(d) # 0)
        /\ last' = [Did("creat", TRUE, Lookup(dir', name) = {f})
                       EXCEPT !.parent = d]
    BY DEF Creat, NextFree
  <1>2. d \in Allocated /\ d \in Inodes
    BY LookupAllocated, AllocatedAreInodes
  <1>3. /\ f \in Inodes \ Allocated /\ Allocated' = Allocated \cup {f}
        /\ freeInode' \in 4 .. INODES + 1
    <2>1. freeInode \in 4 .. INODES + 1 /\ f = freeInode
      BY DEF FSInv, TypeOK
    <2>2. /\ f \in Inodes /\ f \notin Allocated
          /\ freeInode + 1 \in 4 .. INODES + 1
      BY <1>1, <2>1, Sizes DEF Allocated, Inodes
    <2>3. Allocated = 1 .. f - 1 /\ Allocated' = 1 .. f
      BY <1>1, <2>1, Sizes DEF Allocated
    <2>4. Allocated' = Allocated \cup {f}
      BY <2>1, <2>3, Sizes
    <2>. QED BY <1>1, <2>2, <2>4
  <1>4. FileBlock \in AllBlocks \ busy /\ DirBlock \in AllBlocks \ busy
    BY BlocksTaken DEF FSInv, TypeOK
  <1>5. /\ inode' \in [Inodes -> Inode]
        /\ \A j \in Inodes \ {f} : inode'[j] = inode[j]
        /\ \A j \in Inodes : inode'[j].size = inode[j].size
        /\ \A x \in Indexes :
              inode'[f].blocks[x] = IF x = 0 THEN FileBlock ELSE 0
    <2>1. f \in Inodes
      BY <1>3
    <2>. DEFINE first == [NoBlocks EXCEPT ![0] = FileBlock]
    <2>2. inode' = [inode EXCEPT ![f].blocks = first, ![f].mode = mode]
      BY <1>1
    <2>3. inode \in [Inodes -> Inode]
      BY DEF FSInv, TypeOK, Inode
    <2>4. first \in [Indexes -> AllBlocks]
      BY <1>4, Numbers DEF NoBlocks
    <2>5. \A x \in Indexes : first[x] = IF x = 0 THEN FileBlock ELSE 0
      BY DEF NoBlocks
    <2>. HIDE DEF first
    <2>6. \A j \in Inodes : inode'[j] =
              IF j = f THEN [inode[f] EXCEPT !.blocks = first, !.mode = mode]
              ELSE inode[j]
      BY <2>2, <2>3
    <2>7. inode'[f] = [mode |-> mode, size |-> inode[f].size, blocks |-> first]
      <3>1. inode[f] \in Inode
        BY <2>1, <2>3
      <3>. QED BY <2>1, <2>6, <3>1 DEF Inode
    <2>8. inode'[f] \in Inode
      BY <2>1, <2>3, <2>4, <2>7 DEF Inode, Modes
    <2>9. inode' \in [Inodes -> Inode]
      BY <2>2, <2>3, <2>6, <2>8
    <2>10. \A j \in Inodes \ {f} : inode'[j] = inode[j]
      BY <2>6
    <2>11. inode'[f].size = inode[f].size /\ inode'[f].blocks = first
      BY <2>7
    <2>. QED BY <2>5, <2>9, <2>10, <2>11
  <1>6. /\ content' \in [AllBlocks -> [Units -> Inodes \cup {0, Item}]]
        /\ \A b \in AllBlocks, u \in Units :
              content'[b][u] \in {content[b][u], 0, Item}
        /\ \A u \in Units : content'[FileBlock][u] \in {0, Item}
    BY <1>1, <1>2, WithItemIs
  <1>7. /\ dir' \in [Positions -> DirItem]
        /\ \A p \in Positions :
              \/ dir'[p] = dir[p]
              \/ dir'[p].inode = f /\ dir'[p].state # "none"
              \/ /\ dir'[p].inode = dir[p].inode
                 /\ dir[p].state # "none" /\ dir'[p].state = "torn"
    <2>1. CASE d = Root
      <3>1. dir' = EnterName(name, f)
        BY <1>1, <2>1
      <3>. QED BY <1>3, <3>1, NameIsEntered
    <2>2. CASE d # Root
      <3>1. dir' = dir
        BY <1>1, <2>2
      <3>2. dir \in [Positions -> DirItem]
        BY DEF FSInv, TypeOK, DirItem
      <3>. QED BY <3>1, <3>2
    <2>. QED BY <2>1, <2>2
  <1>8. \A p \in Positions :
            IF dir'[p].state = "none" THEN dir'[p] = NoItem
            ELSE dir'[p].inode \in Allocated'
    <2>1. \A p \in Positions : IF dir[p].state = "none" THEN dir[p] = NoItem
                               ELSE dir[p].inode \in Allocated
      BY DEF FSInv, OnlyAllocatedNamed
    <2>. QED BY <1>3, <1>7, <2>1
  <1>9. Allocated' \in SUBSET Inodes /\ Lookup(dir', name) \subseteq Allocated'
    <2>1. Root \in Allocated' /\ Allocated' \subseteq Inodes
      BY <1>3, AllocatedAreInodes
    <2>2. \A p \in Positions :
              dir'[p].state # "none" => dir'[p].inode \in Allocated'
      BY <1>8
    <2>. QED BY <2>1, <2>2, LookupIn
  <1>10. /\ file' \in [Handles -> [inode : Inodes \cup {0}, offset : Nat]]
         /\ \A g \in Handles :
               \/ file'[g] = file[g]
               \/ file'[g].inode \in Allocated' /\ file'[g].offset = 0
         /\ intact' \in BOOLEAN
    <2>. DEFINE items == dir'
                S == Allocated'
                before == (ItemBlock(d) # 0)
    <2>1. /\ S \in SUBSET Inodes /\ Lookup(items, name) \subseteq S
          /\ OpenPath(h, items, name, before) /\ before \in BOOLEAN
      BY <1>1, <1>9
    <2>. HIDE DEF items, S, before
    <2>2. /\ file' \in [Handles -> [inode : Inodes \cup {0}, offset : Nat]]
          /\ \A g \in Handles : \/ file'[g] = file[g]
                                \/ file'[g].inode \in S /\ file'[g].offset = 0
          /\ intact' \in {before, FALSE}
      BY <2>1, OpenPathIs
    <2>. QED BY <2>1, <2>2 DEF S
  <1>11. /\ busy \subseteq busy' /\ busy' \subseteq Markable
         /\ FileBlock \in Markable => FileBlock \in busy'
    BY <1>1 DEF FSInv, TypeOK, Marked
  <1>12. BlocksOf(f)' \subseteq {FileBlock} \cap Markable
    <2>1. BlocksOf(f)' \subseteq {FileBlock} \ {0, FILE_SYS_BLOCKS + 1}
      BY <1>5 DEF BlocksOf
    <2>2. FileBlock # FILE_SYS_BLOCKS + 1 => FileBlock \in Markable
      BY <1>4, Sizes DEF AllBlocks, Markable
    <2>. QED BY <2>1, <2>2
  <1>13. \A j \in Allocated :
             BlocksOf(j)' = BlocksOf(j) /\ BlocksOf(j) \subseteq busy
    <2>1. \A j \in Allocated : inode'[j] = inode[j]
      BY <1>3, <1>5, AllocatedAreInodes
    <2>. QED BY <1>1, <2>1, BlocksKept DEF FSInv, OwnedAreBusy
  <1>14. TypeOK'
    <2>1. last' \in Outcome
      <3>1. (Lookup(dir', name) = {f}) \in BOOLEAN
        OBVIOUS
      <3>2. last' = [call |-> "creat", ok |-> TRUE,
                     done |-> Lookup(dir', name) = {f}, parent |-> d]
        BY <1>1 DEF Did
      <3>. QED BY <1>2, <3>1, <3>2 DEF Outcome
    <2>. QED BY <1>3, <1>5, <1>6, <1>7, <1>10, <1>11, <2>1
             DEF TypeOK, Inode, Outcome, DirItem
  <1>15. Kept'
    <2>1. f # 2 /\ f # 3
      <3>1. f \in 4 .. INODES + 1
        BY DEF FSInv, TypeOK
      <3>. QED BY <3>1, Sizes
    <2>2. \A p \in Positions : dir'[p].inode \in {dir[p].inode, f}
      BY <1>7
    <2>. QED BY <1>11, <2>1, <2>2 DEF FSInv, Kept
  <1>16. OwnedAreBusy'
    BY <1>3, <1>11, <1>12, <1>13 DEF OwnedAreBusy
  <1>17. BlocksDisjoint'
    <2>1. \A j \in Allocated : BlocksOf(j)' \cap BlocksOf(f)' = {}
      BY <1>4, <1>12, <1>13
    <2>2. BlocksOf(f)' \cap 0 .. RESERVED - 1 = {}
      BY <1>4, <1>12 DEF FSInv, Kept
    <2>3. \A j, k \in Allocated : j # k => BlocksOf(j)' \cap BlocksOf(k)' = {}
      BY <1>1, <1>13 DEF FSInv, BlocksDisjoint
    <2>4. \A j \in Allocated : BlocksOf(j)' \cap 0 .. RESERVED - 1 = {}
      BY <1>1, <1>13 DEF FSInv, BlocksDisjoint
    <2>. QED BY <1>3, <2>1, <2>2, <2>3, <2>4 DEF BlocksDisjoint
  <1>18. ContentIsOwn'
    <2>1. ASSUME NEW j \in Allocated, NEW b \in BlocksOf(j)', NEW u \in Units
          PROVE  content'[b][u] \in {0, j, Item}
      <3>1. b \in BlocksOf(j) /\ b \in AllBlocks
        BY <1>13, <2>1, Numbers DEF FSInv, TypeOK
      <3>2. content[b][u] \in {0, j, Item}
        BY <1>1, <3>1 DEF FSInv, ContentIsOwn
      <3>. QED BY <1>6, <3>1, <3>2
    <2>2. \A b \in BlocksOf(f)', u \in Units : content'[b][u] \in {0, Item}
      BY <1>6, <1>12
    <2>. QED BY <1>3, <2>1, <2>2 DEF ContentIsOwn
  <1>19. OnlyAllocatedNamed'
    <2>1. \A g \in Handles : file'[g].inode \in Allocated' \cup {NoInode}
      BY <1>3, <1>10 DEF FSInv, OnlyAllocatedNamed
    <2>. QED BY <1>8, <2>1 DEF OnlyAllocatedNamed
  <1>20. OffsetsAreBacked'
    <2>1. ASSUME NEW g \in Handles, file[g].inode # NoInode
          PROVE  inode'[file[g].inode] = inode[file[g].inode]
      BY <1>3, <1>5, <2>1, OpenEntry
    <2>2. \A x \in Indexes : ~(x * BLOCK_SIZE < 0)
      BY Numbers, Sizes
    <2>3. ASSUME NEW g \in Handles, NEW x \in Indexes,
                 file'[g].inode # NoInode,
                 inode'[file'[g].inode].mode = "regular",
                 x * BLOCK_SIZE < file'[g].offset
          PROVE  inode'[file'[g].inode].blocks[x] # 0
      <3>1. file'[g] = file[g]
        BY <1>10, <2>2, <2>3
      <3>2. inode'[file[g].inode] = inode[file[g].inode]
        BY <2>1, <2>3, <3>1
      <3>. QED BY <1>1, <2>3, <3>1, <3>2 DEF FSInv, OffsetsAreBacked
    <2>. QED BY <2>3 DEF OffsetsAreBacked
  <1>. QED BY <1>14, <1>15, <1>16, <1>17, <1>18, <1>19, <1>20 DEF FSInv

-----------------------------------------------------------------------------
(***************************************************************************)
(* Every call keeps the invariant.                                         *)
(***************************************************************************)
LEMMA Inductive == FSInv /\ [Next]_vars => FSInv'
  <1>. SUFFICES ASSUME FSInv, [Next]_vars PROVE FSInv'
    OBVIOUS
  <1>1. CASE CreatFails
    BY <1>1, CreatFailsInv
  <1>2. ASSUME NEW h \in Handles, NEW name \in Names, Open(h, name)
        PROVE  FSInv'
    BY <1>2, OpenInv
  <1>3. ASSUME NEW h \in Handles, NEW base \in Names \cup {""},
               NEW name \in Names,
               NEW mode \in {"regular", "directory"},
               Creat(h, base, name, mode)
        PROVE  FSInv'
    BY <1>3, CreatInv DEF Modes
  <1>4. ASSUME NEW h \in Handles, NEW n \in 1 .. SIZE_MOD - 1, Transfer(h, n)
        PROVE  FSInv'
    BY <1>4, WriteInPlaceInv, WriteHoleInv, WriteBackInv, WriteNothingInv
       DEF Transfer
  <1>5. ASSUME NEW h \in Handles, NEW n \in Reads, Read(h, n)
        PROVE  FSInv'
    BY <1>5, ReadInv
  <1>6. ASSUME NEW h \in Handles, ReadDirectory(h) \/ Close(h)
        PROVE  FSInv'
    BY <1>6, ReadDirectoryInv, CloseInv
  <1>7. ASSUME NEW base \in Names, CreatAstray(base)
        PROVE  FSInv'
    BY <1>7, CreatAstrayInv
  <1>8. CASE UNCHANGED vars
    <2>1. UNCHANGED disk /\ file' = file /\ last' = last
      BY <1>8 DEF vars, disk
    <2>2. TypeOK'
      BY <2>1 DEF FSInv, TypeOK, disk
    <2>3. OnlyAllocatedNamed' /\ OffsetsAreBacked'
      BY <2>1, DiskKept DEF FSInv, OnlyAllocatedNamed, OffsetsAreBacked, disk
    <2>. QED BY <2>1, <2>2, <2>3, DiskKept DEF FSInv, disk
  <1>. QED BY <1>1, <1>2, <1>3, <1>4, <1>5, <1>6, <1>7, <1>8 DEF Next

LEMMA FileSystemInvariant == Spec => []FSInv
  BY InitInv, Inductive, PTL DEF Spec

(***************************************************************************)
(* Type correctness: above all, that no call leads to a block number       *)
(* behind the last that the search for a free one can return, or to an     *)
(* inode that does not exist.                                              *)
(***************************************************************************)
THEOREM FileSystemTypes == Spec => []TypeOK
  <1>1. FSInv => TypeOK
    BY DEF FSInv
  <1>. QED BY <1>1, FileSystemInvariant, PTL

(***************************************************************************)
(* allocBlock and update_dataBlockBit: whatever calls were made, a block   *)
(* that an inode has is marked in the bitmap, so the next search cannot    *)
(* return it again.                                                        *)
(***************************************************************************)
THEOREM FileSystemOwnedAreBusy == Spec => []OwnedAreBusy
  <1>1. FSInv => OwnedAreBusy
    BY DEF FSInv
  <1>. QED BY <1>1, FileSystemInvariant, PTL

(***************************************************************************)
(* creat and write never give a block to two files, or a reserved one to   *)
(* any, for every disk and every sequence of calls that leaves the super   *)
(* block intact.                                                           *)
(***************************************************************************)
THEOREM FileSystemBlocksDisjoint == Spec => []BlocksDisjoint
  <1>1. FSInv => BlocksDisjoint
    BY DEF FSInv
  <1>. QED BY <1>1, FileSystemInvariant, PTL

(***************************************************************************)
(* sys_read hands out only what was written through the file it reads, or  *)
(* an item of a path through it: allocBlock clears before use and          *)
(* writeFile stores by the inode's own block numbers.                      *)
(***************************************************************************)
THEOREM FileSystemContentIsOwn == Spec => []ContentIsOwn
  <1>1. FSInv => ContentIsOwn
    BY DEF FSInv
  <1>. QED BY <1>1, FileSystemInvariant, PTL

(***************************************************************************)
(* Directory items and open entries, which outlive the call that made      *)
(* them, never name an inode that a later creat could take for another     *)
(* file.                                                                   *)
(***************************************************************************)
THEOREM FileSystemOnlyAllocatedNamed == Spec => []OnlyAllocatedNamed
  <1>1. FSInv => OnlyAllocatedNamed
    BY DEF FSInv
  <1>. QED BY <1>1, FileSystemInvariant, PTL

(***************************************************************************)
(* readFile and writeFile never move the offset of any open entry past a   *)
(* block the file lacks, although others change the same inode through     *)
(* entries of their own.                                                   *)
(***************************************************************************)
THEOREM FileSystemOffsetsAreBacked == Spec => []OffsetsAreBacked
  <1>1. FSInv => OffsetsAreBacked
    BY DEF FSInv
  <1>. QED BY <1>1, FileSystemInvariant, PTL

-----------------------------------------------------------------------------
(***************************************************************************)
(* The path of a program: it is found at its item, and nowhere before.     *)
(***************************************************************************)
LEMMA LedToItem ==
    ASSUME NEW name, NEW i, i # Root, NEW q,
           \A p \in Positions : dir[p].inode = i => p = q,
           LeadsOnlyTo(name, i)
    PROVE  /\ name # "" /\ q \in Positions /\ dir[q].inode = i
           /\ FoundItem(dir, name) /\ Least(Found(dir, name)) = q
           /\ Mixed(dir, name) = {}
  <1>1. Lookup(dir, name) = {i} /\ ~LeadsAstray(dir, name)
    BY DEF LeadsOnlyTo
  <1>2. Searched(name)
    BY <1>1 DEF Lookup
  <1>3. Mixed(dir, name) = {}
    BY <1>1, <1>2 DEF LeadsAstray
  <1>4. FoundItem(dir, name)
    <2>1. CASE Found(dir, name) = {}
      <3>1. Lookup(dir, name) = {Root}
        BY <1>2, <1>3, <2>1 DEF Lookup, FoundItem
      <3>. QED BY <1>1, <3>1
    <2>2. CASE Found(dir, name) # {}
      BY <1>1, <1>2, <2>2 DEF LeadsAstray
    <2>. QED BY <2>1, <2>2
  <1>5. dir[Least(Found(dir, name))].inode = i
    BY <1>1, <1>2, <1>3, <1>4 DEF Lookup
  <1>6. Least(Found(dir, name)) \in Positions
    BY <1>4 DEF FoundItem, AtStart
  <1>. QED BY <1>2, <1>3, <1>4, <1>5, <1>6 DEF Searched

LEMMA ItemLeads ==
    ASSUME NEW name, name # "", NEW i, NEW q, 0 < DirSize,
           FoundItem(dir, name), Least(Found(dir, name)) = q,
           Mixed(dir, name) = {}, dir[q].inode = i
    PROVE  LeadsOnlyTo(name, i)
  <1>1. Searched(name)
    BY DEF Searched
  <1>2. Lookup(dir, name) = {i}
    BY <1>1 DEF Lookup
  <1>3. ~LeadsAstray(dir, name)
    BY DEF LeadsAstray, FoundItem
  <1>. QED BY <1>2, <1>3 DEF LeadsOnlyTo

LEMMA ItemLeadsAfter ==
    ASSUME NEW name, name # "", NEW i, NEW q, 0 < DirSize',
           FoundItem(dir', name), Least(Found(dir', name)) = q,
           Mixed(dir', name) = {}, dir'[q].inode = i
    PROVE  LeadsOnlyTo(name, i)'
  <1>1. Searched(name)'
    BY DEF Searched
  <1>2. Lookup(dir, name)' = {i}
    BY <1>1 DEF Lookup
  <1>3. ~LeadsAstray(dir, name)'
    BY DEF LeadsAstray, FoundItem
  <1>. QED BY <1>2, <1>3 DEF LeadsOnlyTo

LEMMA RootSize ==
    ASSUME FSInv
    PROVE  DirSize \in 0 .. SIZE_MOD - 1 /\ DirSize \in Nat
  <1>1. 1 \in Inodes /\ inode \in [Inodes -> Inode]
    BY Numbers DEF FSInv, TypeOK, Inode
  <1>2. inode[1] \in Inode
    BY <1>1
  <1>3. inode[1].size \in 0 .. SIZE_MOD - 1
    BY <1>2 DEF Inode
  <1>. QED BY <1>3, Sizes DEF DirSize, Root

LEMMA ProgramsInit == Init => ProgramsFound
  <1>. SUFFICES ASSUME Init PROVE ProgramsFound
    OBVIOUS
  <1>1. 0 < DirSize
    <2>1. DirSize = 2 * ITEM_UNITS
      BY Numbers DEF Init, DirSize, Root
    <2>. QED BY <2>1, Sizes
  <1>2. /\ dir[0] = WholeItem("shell", 3)
        /\ dir[ITEM_UNITS] = WholeItem("mypro", 2)
        /\ \A p \in Positions \ {0, ITEM_UNITS} : dir[p] = NoItem
    <2>1. 0 \in Positions /\ ITEM_UNITS \in Positions /\ ITEM_UNITS # 0
      BY Numbers, Sizes
    <2>. QED BY <2>1 DEF Init
  <1>3. /\ Positions \subseteq Nat /\ 0 \in Positions
        /\ ITEM_UNITS \in Positions /\ ITEM_UNITS # 0
    BY Numbers, Sizes
  <1>4. /\ dir[0].inode = 3 /\ dir[0].name = "shell" /\ InPlace(dir, 0)
        /\ dir[ITEM_UNITS].inode = 2 /\ dir[ITEM_UNITS].name = "mypro"
        /\ InPlace(dir, ITEM_UNITS)
    BY <1>2 DEF WholeItem, InPlace
  <1>5. \A p \in Positions \ {0, ITEM_UNITS} : ~InPlace(dir, p)
    <2>1. NoItem.state = "none"
      BY DEF NoItem
    <2>. QED BY <1>2, <2>1 DEF InPlace
  <1>6. \A name : Mixed(dir, name) = {}
    <2>1. \A p \in Positions : dir[p].state \in {"whole", "none"}
      <3>1. /\ WholeItem("shell", 3).state = "whole"
            /\ WholeItem("mypro", 2).state = "whole" /\ NoItem.state = "none"
        BY DEF WholeItem, NoItem
      <3>. QED BY <1>2, <3>1
    <2>. QED BY <2>1 DEF Mixed
  <1>7. 0 \in AtStart(dir, "shell") /\ 0 \in Found(dir, "shell")
    BY <1>3, <1>4, NamesUsed DEF AtStart, Found
  <1>8. /\ ITEM_UNITS \in AtStart(dir, "mypro")
        /\ ITEM_UNITS \in Found(dir, "mypro") /\ 0 \notin Found(dir, "mypro")
    BY <1>3, <1>4, NamesUsed DEF AtStart, FurtherOn, Found
  <1>9. \A name : Found(dir, name) \subseteq {0, ITEM_UNITS}
    BY <1>5 DEF AtStart, FurtherOn, Found
  <1>10. Least(Found(dir, "shell")) = 0
    <2>. DEFINE found == Found(dir, "shell")
    <2>1. found \in SUBSET Nat /\ 0 \in found
      BY <1>3, <1>7, <1>9
    <2>. HIDE DEF found
    <2>2. Least(found) \in Nat /\ Least(found) <= 0
      BY <2>1, LeastOf
    <2>. QED BY <2>2 DEF found
  <1>11. Least(Found(dir, "mypro")) = ITEM_UNITS
    <2>1. Found(dir, "mypro") = {ITEM_UNITS}
      BY <1>8, <1>9
    <2>. QED BY <1>3, <2>1, LeastOf
  <1>12. LeadsOnlyTo("shell", 3)
    BY <1>1, <1>4, <1>6, <1>7, <1>10, ItemLeads DEF FoundItem
  <1>13. LeadsOnlyTo("mypro", 2)
    BY <1>1, <1>4, <1>6, <1>8, <1>11, ItemLeads DEF FoundItem
  <1>. QED BY <1>12, <1>13 DEF ProgramsFound

(***************************************************************************)
(* What a call does to the items: nothing, or it enters one behind those   *)
(* of the programs.                                                        *)
(***************************************************************************)
LEMMA FrontStays ==
    ASSUME FSInv, Next, 2 * ITEM_UNITS <= DirSize
    PROVE  \A p \in Positions : p <= ITEM_UNITS => dir'[p] = dir[p]
  <1>1. \/ dir' = dir
        \/ \E name \in Names : dir' = EnterName(name, freeInode)
    <2>1. ASSUME NEW h, NEW n
          PROVE  /\ Write(h, n) => dir' = dir
                 /\ WriteBack(h, n) \/ WriteNothing(h, n) => dir' = dir
                 /\ Read(h, n) => dir' = dir
                 /\ ReadDirectory(h) \/ Close(h) => dir' = dir
      <3>1. Write(h, n) => dir' = dir
        BY Zenon DEF Write
      <3>2. WriteBack(h, n) \/ WriteNothing(h, n) => dir' = dir
        BY Zenon DEF WriteBack, WriteNothing
      <3>3. Read(h, n) => dir' = dir
        BY DEF Read, disk
      <3>4. ReadDirectory(h) \/ Close(h) => dir' = dir
        BY DEF ReadDirectory, Close, disk
      <3>. QED BY <3>1, <3>2, <3>3, <3>4
    <2>2. \A h, name : CreatFails \/ Open(h, name) \/ CreatAstray(name)
                       => dir' = dir
      BY DEF CreatFails, Open, CreatAstray, disk
    <2>3. ASSUME NEW h, NEW base, NEW name \in Names, NEW mode,
                 Creat(h, base, name, mode)
          PROVE  dir' \in {dir, EnterName(name, freeInode)}
      BY <2>3 DEF Creat
    <2>. QED BY <2>1, <2>2, <2>3 DEF Next, Transfer
  <1>2. ASSUME NEW name \in Names, dir' = Entered(name, freeInode, DirSize)
        PROVE  \A p \in Positions : p <= ITEM_UNITS => dir'[p] = dir[p]
    <2>. TAKE p \in Positions
    <2>. HAVE p <= ITEM_UNITS
    <2>1. p \in Nat /\ DirSize \in Nat /\ ITEM_UNITS \in Nat /\ ITEM_UNITS # 0
      BY Numbers, Sizes, RootSize
    <2>2. p # DirSize /\ ~(DirSize < p + ITEM_UNITS)
      BY <2>1
    <2>3. p \notin Across(DirSize)
      BY <2>2 DEF Across
    <2>. QED BY <1>2, <2>2, <2>3 DEF Entered
  <1>3. ASSUME NEW name \in Names
        PROVE  \/ EnterName(name, freeInode) = dir
               \/ EnterName(name, freeInode) =
                     Entered(name, freeInode, DirSize)
    <2>1. DirSize \in Nat
      BY RootSize
    <2>2. CASE ItemIndex(Root) = 0
      <3>. DEFINE size == DirSize
                  quotient == size \div BLOCK_SIZE
      <3>1. quotient \in Nat /\ size < BLOCK_SIZE * (quotient + 1)
        BY <2>1, Sizes, DivMod
      <3>2. ItemIndex(Root) = quotient + (IF ItemMovesOn(Root) THEN 1 ELSE 0)
        BY DEF ItemIndex, DirSize
      <3>. HIDE DEF quotient
      <3>3. quotient = 0 /\ ~ItemMovesOn(Root)
        BY <2>2, <3>1, <3>2
      <3>4. size < BLOCK_SIZE
        BY <3>1, <3>3, Sizes
      <3>5. ItemOffset(Root) = size
        BY <2>1, <3>3, <3>4, Sizes, ModIs DEF ItemOffset, DirSize
      <3>. QED BY <2>2, <3>5 DEF EnterName
    <2>3. CASE ItemIndex(Root) # 0
      BY <2>3 DEF EnterName
    <2>. QED BY <2>2, <2>3
  <1>. QED BY <1>1, <1>2, <1>3

(***************************************************************************)
(* The paths that the kernel and the shell pass to execve lead to the      *)
(* programs of init_userpro from the start, and no call changes that, with *)
(* whatever names are created, while the root's size counts their items.   *)
(***************************************************************************)
THEOREM FileSystemProgramsStay == Spec => ProgramsStay
  <1>1. FSInv /\ [Next]_vars =>
            [ProgramsFound /\ 2 * ITEM_UNITS <= DirSize =>
                ProgramsFound' \/ DirSize' = 0]_vars
    <2>. SUFFICES ASSUME FSInv, FSInv', Next, ProgramsFound,
                         2 * ITEM_UNITS <= DirSize, DirSize' # 0
                  PROVE  ProgramsFound'
      BY Inductive
    <2>1. 0 < DirSize'
      <3>1. 1 \in Inodes /\ inode' \in [Inodes -> Inode]
        BY Numbers DEF FSInv, TypeOK, Inode
      <3>2. inode'[1] \in Inode
        BY <3>1
      <3>3. DirSize' \in 0 .. SIZE_MOD - 1
        BY <3>2 DEF Inode, DirSize, Root
      <3>. QED BY <3>3, Sizes
    <2>2. ASSUME NEW name, NEW i, i # Root, NEW q \in Nat, q <= ITEM_UNITS,
                 \A p \in Positions : dir[p].inode = i => p = q,
                 LeadsOnlyTo(name, i)
          PROVE  LeadsOnlyTo(name, i)'
      <3>1. /\ name # "" /\ q \in Positions /\ dir[q].inode = i
            /\ FoundItem(dir, name) /\ Least(Found(dir, name)) = q
            /\ Mixed(dir, name) = {}
        BY <2>2, LedToItem
      <3>2. \A p \in Positions : p <= q => dir'[p] = dir[p]
        BY <2>2, FrontStays, Numbers, Sizes
      <3>3. q <= q
        OBVIOUS
      <3>4. /\ FoundItem(dir', name) /\ Least(Found(dir', name)) = q
            /\ Mixed(dir', name) = {}
        BY <3>1, <3>2, StaysFound
      <3>5. dir'[q].inode = i
        BY <3>1, <3>2, <3>3
      <3>. QED BY <2>1, <3>1, <3>4, <3>5, ItemLeadsAfter
    <2>3. /\ \A p \in Positions : dir[p].inode = 3 => p = 0
          /\ \A p \in Positions : dir[p].inode = 2 => p = ITEM_UNITS
      BY DEF FSInv, Kept
    <2>4. LeadsOnlyTo("shell", 3)'
      BY <2>2, <2>3, Sizes DEF ProgramsFound, Root
    <2>5. LeadsOnlyTo("mypro", 2)'
      BY <2>2, <2>3, Sizes DEF ProgramsFound, Root
    <2>. QED BY <2>4, <2>5 DEF ProgramsFound
  <1>. QED BY <1>1, ProgramsInit, FileSystemInvariant, PTL
           DEF Spec, ProgramsStay

-----------------------------------------------------------------------------
(***************************************************************************)
(* A file whose blocks all stay as they are reads as before.               *)
(***************************************************************************)
LEMMA ViewKept ==
    ASSUME NEW i, inode'[i].blocks = inode[i].blocks,
           \A b \in BlocksOf(i) : content'[b] = content[b]
    PROVE  View(i)' = View(i)
  <1>1. BlocksOf(i)' = BlocksOf(i)
    BY BlocksKept
  <1>2. \A x \in Indexes :
            (IF inode'[i].blocks[x] \in BlocksOf(i)'
             THEN content'[inode'[i].blocks[x]] ELSE Cleared)
          = (IF inode[i].blocks[x] \in BlocksOf(i)
             THEN content[inode[i].blocks[x]] ELSE Cleared)
    BY <1>1
  <1>. QED BY <1>2 DEF View

(***************************************************************************)
(* Of a write, and of a creat, that the file they change is the one they   *)
(* are for.                                                                *)
(***************************************************************************)
LEMMA WriteChangesOwn ==
    ASSUME FSInv, NEW h \in Handles, NEW n \in 1 .. SIZE_MOD - 1, Write(h, n),
           intact', NEW j \in Allocated, View(j)' # View(j)
    PROVE  file[h].inode = j /\ file'[h].offset > file[h].offset
  <1>. DEFINE i == file[h].inode
              off == file[h].offset
              size == NewSize(i, n)
  <1>1. Holes(i, off, n) = {}
    BY DEF Write
  <1>2. /\ intact /\ i # NoInode /\ off + n <= FileUnits
        /\ file' = [file EXCEPT ![h].offset = @ + n]
        /\ inode' = [inode EXCEPT ![i].size = size]
        /\ content' = Stored(i, off, n)
    BY <1>1, WriteGoes DEF Write
  <1>3. /\ i \in Allocated /\ i \in Inodes /\ off \in Nat
        /\ n \in Nat \ {0} /\ size \in 0 .. SIZE_MOD - 1
    BY WriteGoes
  <1>. HIDE DEF size
  <1>4. file'[h].offset = off + n
    <2>1. file' = [file EXCEPT ![h].offset = off + n] /\ off + n \in Nat
      BY <1>2, <1>3
    <2>. HIDE DEF off
    <2>. QED BY <2>1, FileType
  <1>5. \A b \in AllBlocks :
            (\A x \in Indexes : inode[i].blocks[x] # b)
              => content'[b] = content[b]
    <2>. HIDE DEF i, off
    <2>. QED BY <1>2, <1>3, StoredIs
  <1>. HIDE DEF i, off
  <1>6. j \in Inodes /\ inode'[j].blocks = inode[j].blocks
    BY <1>2, <1>3, SizeChanges, AllocatedAreInodes
  <1>7. CASE j # i
    <2>1. ASSUME NEW b \in BlocksOf(j)
          PROVE  content'[b] = content[b]
      <3>1. b \in AllBlocks
        <4>1. inode[j].blocks \in [Indexes -> AllBlocks]
          BY <1>6 DEF FSInv, TypeOK
        <4>. QED BY <4>1 DEF BlocksOf
      <3>2. b \notin BlocksOf(i) /\ b # 0 /\ b # FILE_SYS_BLOCKS + 1
        BY <1>2, <1>3, <1>7 DEF FSInv, BlocksDisjoint, BlocksOf
      <3>3. \A x \in Indexes : inode[i].blocks[x] # b
        BY <3>2 DEF BlocksOf
      <3>. QED BY <1>5, <3>1, <3>3
    <2>. QED BY <1>6, <2>1, ViewKept
  <1>8. off + n > off
    BY <1>3
  <1>. QED BY <1>4, <1>7, <1>8 DEF i, off

LEMMA CreatChangesParent ==
    ASSUME FSInv, NEW h \in Handles, NEW base, NEW name \in Names,
           NEW mode \in Modes, Creat(h, base, name, mode),
           intact', NEW j \in Allocated, View(j)' # View(j)
    PROVE  last'.parent = j
  <1>1. PICK d \in Lookup(dir, base) :
        /\ intact /\ freeInode <= INODES
        /\ inode' = [inode EXCEPT
                ![freeInode].blocks = [NoBlocks EXCEPT ![0] = FileBlock],
                ![freeInode].mode = mode]
        /\ content' = WithItem(d)
        /\ ItemBlock(d) # 0
        /\ last'.parent = d
    BY DEF Creat, OpenPath, Did
  <1>2. d \in Allocated /\ d \in Inodes
    BY LookupAllocated, AllocatedAreInodes
  <1>3. j \in Inodes /\ j # freeInode
    <2>1. freeInode \in 4 .. INODES + 1
      BY DEF FSInv, TypeOK
    <2>2. j \in 1 .. freeInode - 1
      BY DEF Allocated
    <2>. QED BY <2>1, <2>2, Sizes, AllocatedAreInodes
  <1>4. inode'[j] = inode[j]
    BY <1>1, <1>3 DEF FSInv, TypeOK
  <1>5. DirBlock \notin busy
    BY BlocksTaken DEF FSInv, TypeOK
  <1>6. CASE j # d
    <2>1. ASSUME NEW b \in BlocksOf(j)
          PROVE  content'[b] = content[b]
      <3>1. b \in AllBlocks
        <4>1. inode[j].blocks \in [Indexes -> AllBlocks]
          BY <1>3 DEF FSInv, TypeOK
        <4>. QED BY <4>1 DEF BlocksOf
      <3>2. b \in busy
        BY <1>1 DEF FSInv, OwnedAreBusy
      <3>3. b \notin BlocksOf(d) /\ b # 0 /\ b # FILE_SYS_BLOCKS + 1
        BY <1>1, <1>2, <1>6 DEF FSInv, BlocksDisjoint, BlocksOf
      <3>4. \A x \in Indexes : inode[d].blocks[x] # b
        BY <3>3 DEF BlocksOf
      <3>5. b # ItemBlock(d)
        BY <1>2, <1>5, <3>2, <3>3, <3>4, ItemBlockIs
      <3>. QED BY <1>1, <1>2, <3>1, <3>2, <3>5, WithItemIs
    <2>. QED BY <1>4, <2>1, ViewKept
  <1>. QED BY <1>1, <1>6

(***************************************************************************)
(* A call changes the stored content of one file at most: a write that of  *)
(* the file its entry is for, a creat that of the file its path goes       *)
(* through.                                                                *)
(***************************************************************************)
THEOREM FileSystemOnlyWritersChange == Spec => OnlyWritersChange
  <1>. DEFINE Answered(j) ==
                \/ last'.parent = j
                \/ \E h \in Handles : /\ file[h].inode = j
                                      /\ file'[h].offset > file[h].offset
  <1>1. ASSUME FSInv, Next, intact', disk' # disk, NEW j \in Allocated,
               View(j)' # View(j)
        PROVE  Answered(j)
    <2>1. ASSUME NEW h \in Handles, NEW base \in Names \cup {""},
                 NEW name \in Names,
                 NEW mode \in {"regular", "directory"},
                 Creat(h, base, name, mode)
          PROVE  Answered(j)
      BY <1>1, <2>1, CreatChangesParent DEF Modes
    <2>2. ASSUME NEW h \in Handles, NEW n \in 1 .. SIZE_MOD - 1, Write(h, n)
          PROVE  Answered(j)
      BY <1>1, <2>2, WriteChangesOwn
    <2>3. ASSUME NEW h \in Handles, NEW n \in 1 .. SIZE_MOD - 1,
                 WriteBack(h, n) \/ WriteNothing(h, n)
          PROVE  Answered(j)
      <3>. DEFINE size == NewSize(file[h].inode, n)
      <3>1. /\ Writes(h, n)
            /\ inode' = [inode EXCEPT ![file[h].inode].size = size]
            /\ content' = content
        BY <2>3 DEF WriteBack, WriteNothing
      <3>2. file[h].inode \in Inodes /\ size \in 0 .. SIZE_MOD - 1
        BY <1>1, <3>1, Writing
      <3>. HIDE DEF size
      <3>3. inode'[j].blocks = inode[j].blocks
        BY <1>1, <3>1, <3>2, SizeChanges, AllocatedAreInodes
      <3>4. View(j)' = View(j)
        BY <3>1, <3>3, ViewKept
      <3>. QED BY <1>1, <3>4
    <2>4. ASSUME \/ CreatFails
                 \/ \E h \in Handles : ReadDirectory(h) \/ Close(h)
                 \/ \E h \in Handles, n \in Reads : Read(h, n)
          PROVE  disk' = disk
      BY <2>4 DEF CreatFails, ReadDirectory, Close, Read
    <2>5. ASSUME \/ \E base \in Names : CreatAstray(base)
                 \/ \E h \in Handles, name \in Names : Open(h, name)
          PROVE  UNCHANGED <<inode, content>>
      BY <2>5 DEF CreatAstray, Open
    <2>6. UNCHANGED <<inode, content>> => View(j)' = View(j)
      BY DEF View, BlocksOf
    <2>. QED BY <1>1, <2>1, <2>2, <2>3, <2>4, <2>5, <2>6 DEF Next, Transfer
  <1>2. FSInv /\ [Next]_vars =>
          [intact' /\ disk' # disk => \A i \in Allocated :
             View(i)' # View(i) =>
                \/ last'.parent = i
                \/ \E h \in Handles : /\ file[h].inode = i
                                      /\ file'[h].offset > file[h].offset]_vars
    BY <1>1
  <1>. QED BY <1>2, FileSystemInvariant, PTL DEF Spec, OnlyWritersChange

=============================================================================
