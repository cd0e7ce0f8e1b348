------------------------------- MODULE Paths -------------------------------
(***************************************************************************)
(* How file.c takes paths apart and looks names up, character by           *)
(* character, with the functions of str.c, in the root directory that      *)
(* FileSystem's calls fill: the reason why FileSystem may take a path for  *)
(* the names at its end.                                                   *)
(*                                                                         *)
(* A string is the sequence of its characters up to the terminating NUL.   *)
(* The directory is one block of whole items, each a name field of         *)
(* NAME_MAX characters and the number of an inode, whose bytes may be      *)
(* letters: that of mypro's inode has 116, a "t", on every disk.  (In      *)
(* items that were written over each other, and in the blocks that the     *)
(* search goes on in when the size is more than a block, FileSystem lets   *)
(* anything be found.)  Names are shorter than their field (kernel.h:207   *)
(* sets it to 20), and paths fit the buffers they are copied to.           *)
(***************************************************************************)
EXTENDS FileSystem, FiniteSets, Sequences

CONSTANTS Letters,   \* characters of names
          PATH_MAX,  \* bound on the length of paths (file.c:497: arr[100])
          NAME_MAX,  \* FILE_NAME_MAX
          Spelling,  \* the characters of each name
          NUMBER,    \* bytes of an inode's number
          Number     \* the bytes of the number of each inode

ASSUME PathsAssumption ==
    /\ PATH_MAX \in 0 .. 99 /\ {NAME_MAX, NUMBER} \subseteq Nat \ {0}
    /\ Letters \cap {"/", "NUL"} = {}
    /\ \A n \in Names :
         /\ Spelling[n] \in Seq(Letters)
         /\ 0 < Len(Spelling[n]) /\ Len(Spelling[n]) < NAME_MAX
    /\ \A i \in Inodes :                \* "NUL" is any byte that no name has
         /\ Number[i] \in Seq(Letters \cup {"NUL"}) /\ Len(Number[i]) = NUMBER
         /\ \A k \in 1 .. NUMBER : Number[i][k] \in Letters =>
               k < NUMBER /\ Number[i][k + 1] = "NUL"

Sep == "/"
Nul == "NUL"

Strings(chars, max) == UNION {[1 .. n -> chars] : n \in 0 .. max}

Largest(S)  == CHOOSE x \in S : \A y \in S : y <= x

(* The character at offset i from the start of s, as in C.                 *)
At(s, i) == IF i < Len(s) THEN s[i + 1] ELSE Nul

From(s, i) == SubSeq(s, i + 1, Len(s))
UpTo(s, i) == SubSeq(s, 1, i)

-----------------------------------------------------------------------------
(* str.c *)

FirstStop(s, c) == Least({i \in 0 .. Len(s) : At(s, i) \in {c, Nul}})

findfirstsprt(s, c) ==
    IF At(s, FirstStop(s, c)) = Nul THEN -1 ELSE FirstStop(s, c)

findlastsprt(s, c) ==
    LET stop == Largest({i \in 0 .. Len(s) : i = 0 \/ At(s, i) = c})
    IN  IF stop = 0 /\ At(s, 0) # c THEN -1 ELSE stop

(***************************************************************************)
(* strcut copies up to and with the character where the loop stopped.  If  *)
(* that is the separator and not the NUL, the result runs on into what the *)
(* buffer held.                                                            *)
(***************************************************************************)
strcutEnded(s, c, held) == UpTo(s, FirstStop(s, c))     \* mutant: ends with NUL
strcut(s, c, held) ==
    IF findfirstsprt(s, c) = -1 THEN s
    ELSE UpTo(s, FirstStop(s, c) + 1) \o held

SameAt(source, dest, o) ==
    \A i \in 0 .. Len(source) - 1 : At(source, i) = At(dest, o + i)

(* FileSystem's Matches, Inside and InNumber are what it says of the names *)
(* and numbers as they are spelled.                                        *)
ASSUME MatchesAssumption ==
    /\ Matches \cup Inside \subseteq Names \X Names
    /\ InNumber \subseteq Names \X Inodes
    /\ \A n, m \in Names :
         /\ <<n, m>> \in Matches <=> SameAt(Spelling[n], Spelling[m], 0)
         /\ <<n, m>> \in Inside <=>
               \E o \in 1 .. NAME_MAX : SameAt(Spelling[n], Spelling[m], o)
    /\ \A n \in Names, i \in Inodes :
         <<n, i>> \in InNumber <=>
            \E o \in 0 .. NUMBER : SameAt(Spelling[n], Number[i], o)

(***************************************************************************)
(* strmatch: search for the first letter, compare, go on behind it.  After *)
(* a letter in the last byte that was not the beginning of a match the     *)
(* function ends without a return statement.                               *)
(***************************************************************************)
NoReturn == -2

NextCandidate(source, dest, o) ==
    Least({k \in o .. Len(dest) - 1 : At(dest, k) = At(source, 0)}
                \cup {Len(dest)})

GoOnAfter(o, source) == o + Len(source)             \* mutant: skips the rest
GoOn(o, source) == o + 1

strmatch(source, dest) ==
    LET from[o \in 0 .. 2 * Len(dest) + Len(source)] ==
            LET k == NextCandidate(source, dest, o)
            IN  IF o >= Len(dest) THEN NoReturn
                ELSE IF k = Len(dest) THEN -1
                ELSE IF SameAt(source, dest, k) THEN k
                ELSE from[GoOn(k, source)]
    IN  from[0]

strcount(s, c) == Cardinality({i \in DOMAIN s : s[i] = c})

-----------------------------------------------------------------------------
(* file.c *)

ITEM == NAME_MAX + NUMBER
SLOTS == BLOCK_SIZE \div ITEM_UNITS
Slots == 0 .. SLOTS - 1

(* The block of the root directory; the items do not fill it.              *)
Block(items) ==
    [k \in 1 .. ITEM * SLOTS + 1 |->
        LET slot == (k - 1) \div ITEM
            o    == (k - 1) % ITEM
        IN  IF slot \notin Slots THEN Nul
            ELSE IF o < NAME_MAX THEN At(items[slot].name, o)
            ELSE At(items[slot].number, o - NAME_MAX)]

(* Where a walk may be: at the root, at the inode of item k, or at what an *)
(* offset between the items gives for an inode.                            *)
ROOT == 0
MISALIGNED == -1
InodesFound == {ROOT, MISALIGNED} \cup 1 .. SLOTS

(***************************************************************************)
(* seekNextInode, from the inode iptr.  Files hold no names.               *)
(***************************************************************************)
ItemAt(offset) ==
    IF offset % ITEM = 0 THEN offset \div ITEM + 1 ELSE MISALIGNED

seekNextInode(iptr, path, items, held) ==
    LET offset == strmatch(strcut(path, Sep, held),
                           IF iptr = ROOT THEN Block(items) ELSE <<Nul>>)
    IN  IF offset = -1 THEN iptr ELSE ItemAt(offset)

(***************************************************************************)
(* seekFileInode: component after component, whether found or not.         *)
(***************************************************************************)
seekFileInode(path, items, held) ==
    LET rest == [q \in 0 .. Len(path) |-> From(path, q)]
        walk[q \in 0 .. Len(path)] == [i \in InodesFound |->
            IF rest[q] = <<>> THEN i
            ELSE IF findfirstsprt(rest[q], Sep) = -1
            THEN seekNextInode(i, rest[q], items, held)
            ELSE walk[q + findfirstsprt(rest[q], Sep) + 1]
                     [seekNextInode(i, rest[q], items, held)]]
    IN  IF path \in {<<>>, <<Sep>>} THEN ROOT
        ELSE walk[findfirstsprt(path, Sep) + 1][ROOT]

(***************************************************************************)
(* seekBaseDirectory, and the name that writeDirectory enters.             *)
(***************************************************************************)
PathOfBase(path) ==
    IF findlastsprt(path, Sep) = -1 THEN path
    ELSE UpTo(path, findlastsprt(path, Sep))

seekBaseDirectory(path, items, held) ==
    seekFileInode(PathOfBase(path), items, held)

(* Past the first separator as often as there are separators.              *)
NameEntered(path) ==
    LET past[k \in 0 .. Len(path)] ==
            IF k = 0 THEN 0
            ELSE past[k - 1] + findfirstsprt(From(path, past[k - 1]), Sep) + 1
    IN  From(path, past[strcount(path, Sep)])

-----------------------------------------------------------------------------
(* What module FileSystem takes these functions for.                       *)

(* What follows the last separator of a path, and what is before it.       *)
Holds(s, c) == \E i \in DOMAIN s : s[i] = c

LastName(path) ==
    CHOOSE n \in {From(path, i) : i \in 0 .. Len(path)} :
        /\ ~Holds(n, Sep)
        /\ path = n \/ path[Len(path) - Len(n)] = Sep

Before(path) ==
    IF LastName(path) = path THEN path
    ELSE UpTo(path, Len(path) - Len(LastName(path)) - 1)

(***************************************************************************)
(* FileSystem's name for a component, "" for what is none of its names.    *)
(***************************************************************************)
NameOf(n) ==
    IF \E m \in Names : Spelling[m] = n
    THEN CHOOSE m \in Names : Spelling[m] = n ELSE ""

(***************************************************************************)
(* The entries of a directory, as strings and as FileSystem has them.      *)
(***************************************************************************)
NoEntry == [name |-> "", inode |-> NoInode]

Spelled(entries) ==
    [s \in Slots |-> IF entries[s] = NoEntry
                     THEN [name |-> <<>>, number |-> <<>>]
                     ELSE [name   |-> Spelling[entries[s].name],
                           number |-> Number[entries[s].inode]]]

Items(entries) ==
    [p \in Positions |->
        LET s == p \div ITEM_UNITS
        IN  IF p % ITEM_UNITS # 0 \/ s \notin Slots THEN NoItem
            ELSE IF entries[s] = NoEntry THEN NoItem
            ELSE WholeItem(entries[s].name, entries[s].inode)]

(***************************************************************************)
(* Where FileSystem's Lookup and LeadsAstray take a component to be found. *)
(***************************************************************************)
Meant(entries, n) ==
    LET items == Items(entries)
        name  == NameOf(n)
    IN  IF FoundItem(items, name)
        THEN (Least(Found(items, name)) \div ITEM_UNITS) + 1
        ELSE IF Found(items, name) = {} THEN ROOT ELSE MISALIGNED

Places(source, dest) == {o \in 0 .. Len(dest) - 1 : SameAt(source, dest, o)}

(* FileSystem leaves out components that are found but none of its names.  *)
LeftOut(entries, n) ==
    n # <<>> /\ NameOf(n) = "" /\ Places(n, Block(Spelled(entries))) # {}

(* Root directories that begin with the two programs.                      *)
Directories ==
    {[entries EXCEPT ![0] = [name |-> "shell", inode |-> 3],
                     ![1] = [name |-> "mypro", inode |-> 2]] :
        entries \in [Slots ->
            [name : Names, inode : 4 .. INODES] \cup {NoEntry}]}

(* Every component fits the buffer that strcut copies it to.               *)
FitsBuffers(path) ==
    \A i \in 0 .. Len(path) : FirstStop(From(path, i), Sep) < NAME_MAX

AllPaths == {p \in Strings(Letters \cup {Sep}, PATH_MAX) : FitsBuffers(p)}

SeeksLast(entries, path, held) ==
    LET n == LastName(path)
    IN  LeftOut(entries, n) \/
            seekFileInode(path, Spelled(entries), held) = Meant(entries, n)

SeeksBase(entries, path, held) ==
    LET n == LastName(Before(path))
    IN  LeftOut(entries, n) \/
            seekBaseDirectory(path, Spelled(entries), held) = Meant(entries, n)

(* Those in which every path leads where FileSystem says.                  *)
WalkedToEnds ==
    {entries \in Directories :
        \A path \in AllPaths : \A held \in Strings(Letters, 1) :
            /\ SeeksLast(entries, path, held)
            /\ SeeksBase(entries, path, held)
            /\ NameEntered(path) = LastName(path)}

(* A directory of one block, with whole items at multiples of their size.  *)
Tidy ==
    /\ 0 < DirSize /\ DirSize <= BLOCK_SIZE
    /\ \A p \in Positions : \/ dir[p].state = "none"
                            \/ dir[p].state = "whole" /\ p % ITEM_UNITS = 0

Entries ==
    [s \in Slots |-> [name  |-> dir[s * ITEM_UNITS].name,
                      inode |-> dir[s * ITEM_UNITS].inode]]

(***************************************************************************)
(* In every tidy root directory that the calls make, paths are what        *)
(* FileSystem takes them for: seekFileInode ends at the item for the last  *)
(* component, at the bytes in a name or number where that is found first,  *)
(* or else at the root, seekBaseDirectory at that for the one before,      *)
(* whatever stands further left, and writeDirectory enters the last one.   *)
(* A component with a separator behind it is never found, because strcut   *)
(* leaves the separator at its end, so nothing is ever looked for below    *)
(* the root (file.c:451, 511-521, 532-558, 600-614).                       *)
(***************************************************************************)
PathsMeanTheirEnds == Tidy => Entries \in WalkedToEnds

(* The directories in which strmatch finds what is to be found.            *)
MatchedFirst ==
    {entries \in Directories :
        LET dest == Block(Spelled(entries))
        IN  \A source \in Strings(Letters, NAME_MAX - 1) \ {<<>>} :
                strmatch(source, dest) =
                    IF Places(source, dest) = {} THEN -1
                    ELSE Least(Places(source, dest))}

(***************************************************************************)
(* In every tidy root directory that the calls make, strmatch, which skips *)
(* from first letter to first letter, finds the first place where a name   *)
(* stands, overlapping candidates and letters in inode numbers included,   *)
(* and always returns a result (it does not if the last byte is the name's *)
(* first letter).                                                          *)
(***************************************************************************)
MatchIsFirst == Tidy => Entries \in MatchedFirst
=============================================================================
