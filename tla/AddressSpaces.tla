--------------------------- MODULE AddressSpaces ---------------------------
(***************************************************************************)
(* Physical pages and the address spaces made of them (memory.c,           *)
(* syscall.c:255-447 and 511-512, process.c:284-316, main.c:18-47), word   *)
(* by word: the free list is threaded through the first words of the free  *)
(* pages, and directories and page tables are pages like all others.       *)
(*                                                                         *)
(* A page has WORDS words, and a process as many regions (user entries of  *)
(* its directory), of as many pages each.  The first region begins at      *)
(* address 0, the last page of the last region is the stack.  The kernel's *)
(* region, which all processes share, is left out.                         *)
(*                                                                         *)
(* Which of the live processes calls is the scheduler's affair.  The model *)
(* ends when alloc_page returns the last page of the memory (it tests for  *)
(* no end, and the first word of that page, which it takes for the rest of *)
(* the list, is one that nothing has written) and after the first execve,  *)
(* which leaves free list and tables meaningless.                          *)
(***************************************************************************)
EXTENDS Integers, FiniteSets, Sequences

CONSTANTS PAGES,    \* number of pages on the free list at the start
          WORDS,    \* words of a page
          Procs,    \* process slots; 0 is the one that init_pcb makes
          Stored,   \* values a process may store in its memory
          AnyWords, \* words of uncleared memory and of the files on the disk
          Windows,  \* pages that process 0's first table may show
          Programs  \* the segments to load of the files on the disk, in order

Words == 0 .. WORDS - 1
Top == WORDS - 1

(***************************************************************************)
(* Page 0 holds process 0's directory, which is part of the kernel's       *)
(* image; NoPage is what is no address of a page, Nobody no process.       *)
(***************************************************************************)
Pages == 0 .. PAGES
NoPage == -1
Nobody == -1

(***************************************************************************)
(* A word is a link of the free list, a present entry of a directory or    *)
(* table, or data: words of a file, too, may look like an entry.           *)
(***************************************************************************)
Word == [kind : {"link", "entry"}, val : Pages]
            \cup [kind : {"data"}, val : Stored \cup {0}]

Link(p) == [kind |-> "link", val |-> p]
Entry(p) == [kind |-> "entry", val |-> p]
Data(v) == [kind |-> "data", val |-> v]

IsEntry(w) == w.kind = "entry"
Filled(w) == [j \in Words |-> w]

(***************************************************************************)
(* A segment begins at a page of a region, and size pages of it come from  *)
(* the file.  The program headers lie in one page; none of the segments is *)
(* empty, leaves its region or lies in the kernel's.                       *)
(***************************************************************************)
Segment == {s \in [region : Words, page : Words, size : 0 .. WORDS] :
               s.page + s.size <= WORDS}

ASSUME AddressSpacesAssumption ==
    /\ PAGES \in Nat /\ 3 < PAGES
    /\ WORDS \in Nat /\ 2 <= WORDS /\ WORDS <= PAGES
    /\ Procs \subseteq Nat /\ 0 \in Procs
    /\ Stored \subseteq Nat
    /\ AnyWords \subseteq Word
    /\ Windows \subseteq [Words -> Pages]
    /\ Programs \subseteq {s \in Seq(Segment) : Len(s) <= WORDS}

VARIABLES
    ram,      \* the contents of the pages, the head of the free list, and
              \* whether every call so far came to its end
    pagedir,  \* the page of each process's directory, NoPage without one
    live,     \* the processes
    replaced  \* the process whose memory an execve has released, or Nobody

vars == <<ram, pagedir, live, replaced>>

-----------------------------------------------------------------------------
(* init_memory links each page to the next; nothing writes the last one,   *)
(* so its first word, like all others, is what the memory held.            *)
LinkedBeyond == 4 .. PAGES              \* mutant: the last page linked too
LinkedPages == 4 .. PAGES - 1

(***************************************************************************)
(* init_memory and switch_to_user: process 0's first region is the low end *)
(* of the physical memory, the first free pages included, of which a       *)
(* window of WORDS pages is shown here; its stack is of its own.           *)
(***************************************************************************)
Init ==
    /\ \E w \in AnyWords, window \in Windows :
       ram = [head |-> 4, ok |-> TRUE, mem |-> [p \in Pages |->
         CASE p = 0 -> [Filled(Data(0)) EXCEPT ![0] = Entry(1),
                                                ![Top] = Entry(3)]
           [] p = 1 -> [j \in Words |-> Entry(window[j])]
           [] p = 2 -> Filled(w)
           [] p = 3 -> [Filled(Data(0)) EXCEPT ![Top] = Entry(2)]
           [] p \in LinkedPages -> [Filled(w) EXCEPT ![0] = Link(p + 1)]
           [] OTHER -> Filled(w)]]
    /\ pagedir = [p \in Procs |-> IF p = 0 THEN 0 ELSE NoPage]
    /\ live = {0}
    /\ replaced = Nobody

-----------------------------------------------------------------------------
(***************************************************************************)
(* alloc_page takes the page m.head, which its callers below name before   *)
(* the call, and follows whatever its first word holds.                    *)
(***************************************************************************)
LinkIn(mem, p) ==
    LET w == mem[p][0]
    IN  IF w.kind = "link" /\ w.val \in Pages THEN w.val ELSE NoPage

Ends == {NoPage, PAGES}

Alloc(m) ==
    IF m.head \in Ends THEN [m EXCEPT !.ok = FALSE]
    ELSE [m EXCEPT !.head = LinkIn(m.mem, m.head)]

FreePage(m, p) ==
    [m EXCEPT !.mem[p][0] = IF m.head = NoPage THEN Data(0) ELSE Link(m.head),
              !.head = p]

(***************************************************************************)
(* Do a step for each index from 0 up, as long as the call goes on.        *)
(***************************************************************************)
ForEach(Step(_, _), m) ==
    LET after[k \in 0 .. WORDS] ==
            IF k = 0 THEN m
            ELSE LET d == after[k - 1] IN IF d.ok THEN Step(d, k - 1) ELSE d
    IN  after[WORDS]

(* The page after k steps along the free list, and all pages on it.        *)
ListFrom(m) ==
    LET after == [p \in Pages \cup {NoPage} |->
                     IF p \in Ends THEN NoPage ELSE LinkIn(m.mem, p)]
        chain[k \in 0 .. PAGES] ==
            IF k = 0 THEN m.head ELSE after[chain[k - 1]]
    IN  chain

OnFreeList == ListFrom(ram)

FreePages == {OnFreeList[k] : k \in 0 .. PAGES} \ {NoPage}

(***************************************************************************)
(* The pages a process reaches through its directory.  Those of process    *)
(* 0's first region are the kernel's and not its own.                      *)
(***************************************************************************)
Regions(p) == {i \in Words : IsEntry(ram.mem[pagedir[p]][i])}
Table(p, i) == ram.mem[pagedir[p]][i].val
Mapped(p) == {at \in Words \X Words :
                 /\ at[1] \in Regions(p)
                 /\ IsEntry(ram.mem[Table(p, at[1])][at[2]])}
Frame(p, at) == ram.mem[Table(p, at[1])][at[2]].val
Places(p) == {at \in Mapped(p) : p # 0 \/ at[1] = Top}

Tables(p) == {Table(p, i) : i \in Regions(p)}
Frames(p) == {Frame(p, at) : at \in Places(p)}
SpaceOf(p) == {pagedir[p]} \cup Tables(p) \cup Frames(p)

(***************************************************************************)
(* copy_process_mem allocates a page for the directory, and for each       *)
(* region in turn one for its table and those for its frames: parts        *)
(* <<-1, -1>>, <<i, -1>> and <<i, j>> of the copy, each with the page that *)
(* it is copied from.                                                      *)
(***************************************************************************)
Directory == <<-1, -1>>
Parts(p) == {Directory} \cup (Regions(p) \X {-1}) \cup Mapped(p)

Earlier(s, t) == s[1] < t[1] \/ (s[1] = t[1] /\ s[2] < t[2])
Rank(p, t) == Cardinality({s \in Parts(p) : Earlier(s, t)})

NewPages(p) == [t \in Parts(p) |-> OnFreeList[Rank(p, t)]]

Original(p, t) == IF t = Directory THEN pagedir[p]
                  ELSE IF t[2] = -1 THEN Table(p, t[1]) ELSE Frame(p, t)

(***************************************************************************)
(* A part is copied, and the entry that leads to the original leads to the *)
(* copy then.  Process 0's first region shows pages that the same fork     *)
(* takes and has written before it copies them.                            *)
(***************************************************************************)
CopyPartShared(mem, p, new, t) ==       \* mutant: frames stay the father's
    LET copied == [mem EXCEPT ![new[t]] = mem[Original(p, t)]]
    IN  IF t # Directory /\ t[2] = -1
        THEN [copied EXCEPT ![new[Directory]][t[1]] = Entry(new[t])]
        ELSE copied

CopyPartBlank(mem, p, new, t) ==        \* mutant: frames stay as allocated
    LET copied == [mem EXCEPT ![new[t]] = mem[Original(p, t)]]
    IN  IF t = Directory THEN copied
        ELSE IF t[2] = -1
        THEN [copied EXCEPT ![new[Directory]][t[1]] = Entry(new[t])]
        ELSE [mem EXCEPT ![new[<<t[1], -1>>]][t[2]] = Entry(new[t])]

CopyPart(mem, p, new, t) ==
    LET copied == [mem EXCEPT ![new[t]] = mem[Original(p, t)]]
    IN  IF t = Directory THEN copied
        ELSE IF t[2] = -1
        THEN [copied EXCEPT ![new[Directory]][t[1]] = Entry(new[t])]
        ELSE [copied EXCEPT ![new[<<t[1], -1>>]][t[2]] = Entry(new[t])]

CopyParts(p, new) ==
    LET parts == Cardinality(Parts(p))
        part  == [k \in 1 .. parts |->
                     CHOOSE t \in Parts(p) : Rank(p, t) = k - 1]
        after[k \in 0 .. parts] ==
            IF k = 0 THEN ram.mem ELSE CopyPart(after[k - 1], p, new, part[k])
    IN  after[parts]

CopyProcessMem(p) ==
    LET new   == NewPages(p)
        taken == {new[t] : t \in Parts(p)}
    IN  IF taken \cap Ends # {} THEN [ram EXCEPT !.ok = FALSE]
        ELSE [ok   |-> TRUE,
              head |-> OnFreeList[Cardinality(taken)],
              mem  |-> CopyParts(p, new)]

Calls(p) == p \in live /\ ram.ok /\ replaced = Nobody

(* Process 0 forks once and then loops (main.c:110-119).                   *)
MayFork(p) == p = 0 => \A q \in Procs \ {0} : pagedir[q] = NoPage

Fork(p, c) ==
    /\ Calls(p) /\ MayFork(p)
    /\ c \in Procs \ live /\ live' = live \cup {c}
    /\ ram' = CopyProcessMem(p)
    /\ pagedir' = [pagedir EXCEPT ![c] = ram.head]
    /\ UNCHANGED replaced

(***************************************************************************)
(* sys_exit frees the directory only.  The slot keeps its pagedir; when it *)
(* is free for a fork again is Process's concern.                          *)
(***************************************************************************)
ExitKeepsAll(m, p) == m                 \* mutant: directory not freed
ExitFrees(m, dir) == FreePage(m, dir)

Exit(p) ==
    /\ Calls(p) /\ p # 0
    /\ ram' = ExitFrees(ram, pagedir[p])
    /\ live' = live \ {p}
    /\ UNCHANGED <<pagedir, replaced>>

(***************************************************************************)
(* free_process_user_mem: pages and tables are freed, entries of the       *)
(* directory are left as they are.                                         *)
(***************************************************************************)
FreeFrame(m, table, j) ==
    IF IsEntry(m.mem[table][j]) THEN FreePage(m, m.mem[table][j].val) ELSE m

FreeTable(m, dir, i) ==
    LET table == m.mem[dir][i].val
    IN  IF ~IsEntry(m.mem[dir][i]) THEN m
        ELSE FreePage(ForEach(LAMBDA d, j : FreeFrame(d, table, j), m), table)

FreeUserMem(m, dir) == ForEach(LAMBDA d, i : FreeTable(d, dir, i), m)

(***************************************************************************)
(* page_map, and the allocation of the page that is mapped.                *)
(***************************************************************************)
PageMap(m, dir, i, j, p) ==
    LET w == m.mem[dir][i]
        a == Alloc(m)
    IN  IF IsEntry(w) THEN [m EXCEPT !.mem[w.val][j] = Entry(p)]
        ELSE IF ~a.ok THEN a
        ELSE [a EXCEPT !.mem[m.head] = [Filled(Data(0)) EXCEPT ![j] = Entry(p)],
                       !.mem[dir][i] = Entry(m.head)]

MapNewPage(m, dir, i, j) ==
    LET a == Alloc(m)
    IN  IF a.ok THEN PageMap(a, dir, i, j, m.head) ELSE a

(***************************************************************************)
(* loadProcess reads the head of the file into a page of its own, which    *)
(* nothing frees.  The file's pages are all alike, whatever they hold.     *)
(***************************************************************************)
LoadHeader(m, image) ==
    LET a == Alloc(m)
    IN  IF a.ok THEN [a EXCEPT !.mem[m.head] = image] ELSE a

(***************************************************************************)
(* It maps the first page of each segment (the address of the next is      *)
(* PAGESIZE pages further on).  The data of a segment arrive page by page  *)
(* where directory and tables lead, which are on the free list and may be  *)
(* overwritten, or in the page the caller had there, if the processor      *)
(* still has its old translation.  A page that is nowhere is a page fault  *)
(* that never ends.                                                        *)
(***************************************************************************)
Present(m, dir, at) ==
    /\ IsEntry(m.mem[dir][at[1]])
    /\ IsEntry(m.mem[m.mem[dir][at[1]].val][at[2]])

LoadPage(m, p, stale, image, at) ==
    LET to == IF at \in stale THEN Frame(p, at)
              ELSE m.mem[m.mem[pagedir[p]][at[1]].val][at[2]].val
    IN  IF at \in stale \/ Present(m, pagedir[p], at)
        THEN [m EXCEPT !.mem[to] = image]
        ELSE [m EXCEPT !.ok = FALSE]

LoadSegment(m, p, stale, image, s) ==
    LET new == MapNewPage(m, pagedir[p], s.region, s.page)
        Load(d, k) ==
            IF k < s.size
            THEN LoadPage(d, p, stale, image, <<s.region, s.page + k>>) ELSE d
    IN  IF new.ok THEN ForEach(Load, new) ELSE new

LoadProgram(m, p, stale, image, segments) ==
    LET Load(d, k) ==
            IF k < Len(segments)
            THEN LoadSegment(d, p, stale, image, segments[k + 1]) ELSE d
    IN  ForEach(Load, m)

(***************************************************************************)
(* sys_execve of a regular file, which is an executable one or not; an     *)
(* entry at address 0 is taken for a failure.                              *)
(***************************************************************************)
ExecveOf(p, segments) ==
    /\ Calls(p) /\ p # 0
    /\ replaced' = p
    /\ UNCHANGED <<pagedir, live>>
    /\ \E w \in AnyWords :
         LET header == LoadHeader(FreeUserMem(ram, pagedir[p]), Filled(w))
         IN  \/ ram' = header
             \/ \E stale \in SUBSET Mapped(p), entry \in BOOLEAN :
                  LET loaded ==
                        LoadProgram(header, p, stale, Filled(w), segments)
                  IN  ram' = IF loaded.ok /\ entry
                             THEN MapNewPage(loaded, pagedir[p], Top, Top)
                             ELSE loaded

Execve(p) == \E segments \in Programs : ExecveOf(p, segments)

-----------------------------------------------------------------------------
(***************************************************************************)
(* A user program stores to its memory (a page's data are one value here); *)
(* process 0 runs an empty loop.                                           *)
(***************************************************************************)
Store(p) ==
    /\ Calls(p) /\ p # 0
    /\ \E at \in Places(p), v \in Stored :
         ram' = [ram EXCEPT !.mem[Frame(p, at)] = Filled(Data(v))]
    /\ UNCHANGED <<pagedir, live, replaced>>

Next ==
    \/ \E p, c \in Procs : Fork(p, c)
    \/ \E p \in Procs : Exit(p) \/ Execve(p) \/ Store(p)

Spec == Init /\ [][Next]_vars

-----------------------------------------------------------------------------
Sound == ram.ok /\ replaced = Nobody

(***************************************************************************)
(* Every variable keeps its type, and the words of the pages their         *)
(* meaning, through all system calls and stores: a link or an entry leads  *)
(* to a page.                                                              *)
(***************************************************************************)
TypeOK ==
    /\ ram.mem \in [Pages -> [Words -> Word]]
    /\ ram.head \in Pages \cup {NoPage} /\ ram.ok \in BOOLEAN
    /\ pagedir \in [Procs -> Pages \cup {NoPage}]
    /\ live \subseteq Procs /\ 0 \in live
    /\ replaced \in Procs \cup {Nobody}
    /\ \A p \in live : pagedir[p] # NoPage \/ ~ram.ok

(***************************************************************************)
(* copy_process_mem and free_page: directories, tables and pages of live   *)
(* processes are all different pages, and none is on the free list; the    *)
(* list leads to the last page of the memory and not round in a circle.    *)
(***************************************************************************)
PagesHaveOneUse ==
    Sound =>
        /\ \A p, q \in live : p # q => SpaceOf(p) \cap SpaceOf(q) = {}
        /\ \A p \in live :
             /\ SpaceOf(p) \cap FreePages = {}
             /\ pagedir[p] \notin Tables(p) \cup Frames(p)
             /\ Tables(p) \cap Frames(p) = {}
             /\ \A s, t \in Places(p) : s # t => Frame(p, s) # Frame(p, t)
        /\ PAGES \in FreePages

(* What a process sees in its memory.                                      *)
Seen(p) == [at \in Places(p) |-> ram.mem[Frame(p, at)]]

(***************************************************************************)
(* Programs whose execve is confined: at most one segment, and that below  *)
(* the stack's region.  With a second one loadProcess may get a table of   *)
(* the caller for a page, and what the file holds for entries; nothing is  *)
(* promised of that.                                                       *)
(***************************************************************************)
Confined == {s \in Programs : Len(s) = 0 \/ (Len(s) = 1 /\ s[1].region # Top)}

Step(p) ==
    \/ (\E c \in Procs : Fork(p, c)) \/ Exit(p) \/ Store(p)
    \/ \E s \in Confined : ExecveOf(p, s)

(***************************************************************************)
(* Isolation: what a process p does, be it fork, exit, a store or the      *)
(* execve of such a program, no other process sees in its own memory.  (Of *)
(* process 0's that is the stack; its first region is the kernel's.)       *)
(***************************************************************************)
SeesNoOther ==
    [][\A p \in live :
          \/ \A q \in (live \cap live') \ {p} : Seen(q)' = Seen(q)
          \/ ~Step(p)]_vars

(* All pages that a process reaches, with what they hold.                  *)
Contents(p) == [at \in Mapped(p) |-> ram.mem[Frame(p, at)]]

(***************************************************************************)
(* sys_fork: the child starts with its father's memory, at the same        *)
(* addresses, and the father keeps what is its own.  (What process 0 sees  *)
(* of the free pages is no memory of its own, and the copies may differ.)  *)
(***************************************************************************)
ForkCopies ==
    [][\A p \in live, c \in live' \ live : Fork(p, c) /\ ram'.ok =>
          /\ DOMAIN Contents(c)' = Mapped(p)
          /\ \A at \in Mapped(p) :
                \/ Contents(c)'[at] = Contents(p)[at]
                \/ p = 0 /\ Frame(p, at) \in FreePages
          /\ Seen(p)' = Seen(p)]_vars

(***************************************************************************)
(* The memory code as a transfer of pages between owners.                  *)
(***************************************************************************)
Owners == INSTANCE PageOwners WITH
    owned   <- [p \in Procs |-> IF Sound /\ p \in live THEN SpaceOf(p) ELSE {}],
    free    <- IF Sound THEN FreePages ELSE {},
    spoiled <- ~Sound

ImplementsPageOwners == Owners!Spec

-----------------------------------------------------------------------------
(* A property stated by a comment of the code that its behaviour contradicts. *)

(***************************************************************************)
(* memory.c:75: alloc_page allocates a page that is free, so no page that  *)
(* a process gets is one of its page tables.                               *)
(***************************************************************************)
GetsUnusedPages == \A p \in live : ram.ok => Tables(p) \cap Frames(p) = {}
=============================================================================
